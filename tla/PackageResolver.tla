--------------------------- MODULE PackageResolver ---------------------------
(***************************************************************************)
(* Offline package resolution (joan-package): a depth-first walk over the  *)
(* manifests that a root manifest pins, reading every object from a local  *)
(* store that someone else may change while the walk goes on.              *)
(*                                                                         *)
(* A digest stands for the one content it is the hash of: pinned.manifests *)
(* and pinned.sources give the content of each digest.  A manifest is      *)
(*   [schema, coordinate, root, modules, dependencies]                     *)
(* with modules [module, path, source] and dependencies [alias, digest]; a *)
(* source is [module, size, parses].  What the store holds at the place of *)
(* a digest is "exact", "absent", "large", "malformed" or "other".         *)
(***************************************************************************)
EXTENDS Integers, Sequences, FiniteSets, Functions

CONSTANTS
  Manifests, Sources,     \* digests
  Root,                   \* the digest of the manifest that is resolved
  Starts,                 \* [pinned, store]: what digests may stand for, and what
                          \* [root, manifests, sources] a store may hold then
  Coordinates,            \* the well-formed names of packages
  MaxPackages, MaxModules, MaxDependencyDepth, MaxTotalSourceBytes,
  MaxModulesPerPackage, MaxDependenciesPerPackage,
  MaxDisturbances         \* bound: how often the store is changed during a walk

\* There are finitely many digests of one length, and the limits are usize constants.
ASSUME DigestAssumption == IsFiniteSet(Manifests) /\ IsFiniteSet(Sources)
ASSUME LimitAssumption ==
  {MaxPackages, MaxModules, MaxDependencyDepth, MaxTotalSourceBytes} \subseteq Nat
ASSUME RootAssumption == Root \in Manifests
ASSUME PinnedAssumption ==
  \A start \in Starts :
    /\ \A d \in Manifests :
         LET m == start.pinned.manifests[d] IN
         /\ m.modules \in Seq([module : Int, path : Int, source : Sources])
         /\ m.dependencies \in Seq([alias : Int, digest : Manifests])
    /\ \A s \in Sources : start.pinned.sources[s].size \in Nat

VARIABLES
  pinned,          \* the content of every digest
  store,           \* what stands at the place of each digest
  frames,          \* manifests being visited, root first: [digest, modules, dependencies],
                   \* with the numbers of modules verified and of pins followed
  packages,        \* digests of the packages that are resolved
  coordinates,     \* pairs of a name and the digest that claims it
  sources,         \* digests of the sources that are verified
  moduleCount, totalBytes,
  outcome,         \* "ready", "running", "resolved", or why it was refused
  disturbances

surroundings == <<pinned, store, disturbances>>
resolver == <<frames, packages, coordinates, sources, moduleCount, totalBytes>>
vars == <<surroundings, resolver, outcome>>

ManifestOf(d) == pinned.manifests[d]
PinsOf(d) == {ManifestOf(d).dependencies[n].digest : n \in DOMAIN ManifestOf(d).dependencies}
SourcesOf(d) == {ManifestOf(d).modules[n].source : n \in DOMAIN ManifestOf(d).modules}
ModuleCounts == [d \in Manifests |-> Len(ManifestOf(d).modules)]
SourceSizes == [s \in Sources |-> pinned.sources[s].size]

-----------------------------------------------------------------------------
StrictlySorted(keys) == \A n \in 1 .. Len(keys) - 1 : keys[n] < keys[n + 1]
Distinct(items) == \A m, n \in DOMAIN items : m # n => items[m] # items[n]
Field(items, f) == [n \in DOMAIN items |-> items[n][f]]

ValidManifest(m) ==
  /\ m.schema = "joan.package-manifest.v0"
  /\ m.coordinate \in Coordinates
  /\ Len(m.modules) \in 1..MaxModulesPerPackage
  /\ Len(m.dependencies) <= MaxDependenciesPerPackage
  /\ StrictlySorted(Field(m.modules, "module"))
  /\ Distinct(Field(m.modules, "path"))
  /\ \E n \in DOMAIN m.modules : m.modules[n].module = m.root
  /\ StrictlySorted(Field(m.dependencies, "alias"))
  /\ Distinct(Field(m.dependencies, "digest"))

\* What reading the object of a manifest or a source comes to; "none" is no fault.
\* The object is checked after its last byte was read, so a read is one step.
ManifestFault(d) ==
  CASE store.manifests[d] = "absent" -> "missing object"
    [] store.manifests[d] = "large" -> "object too large"
    [] store.manifests[d] = "other" -> "digest mismatch"
    [] store.manifests[d] = "malformed" \/ ~ValidManifest(ManifestOf(d)) -> "invalid manifest"
    [] OTHER -> "none"

SourceFault(mod) ==
  LET source == pinned.sources[mod.source] IN
  CASE store.sources[mod.source] = "absent" -> "missing object"
    [] store.sources[mod.source] = "large" -> "object too large"
    [] store.sources[mod.source] \in {"other", "malformed"} -> "digest mismatch"
    [] ~source.parses -> "invalid source"
    [] source.module # mod.module -> "module mismatch"
    [] totalBytes + source.size > MaxTotalSourceBytes -> "total source bytes"
    [] OTHER -> "none"

\* Faulty form: a source that was verified for one manifest is good for all.
ModuleFaultOnce(mod) == IF mod.source \in sources THEN "none" ELSE SourceFault(mod)

\* A source that was verified before is not read again.
ModuleFault(mod) ==
  IF mod.source \notin sources THEN SourceFault(mod)
  ELSE IF pinned.sources[mod.source].module # mod.module THEN "module mismatch"
  ELSE "none"

Visiting == {frames[n].digest : n \in DOMAIN frames}

\* A manifest that pins itself is found before anything is read.
PinFault(d) == IF d = frames[Len(frames)].digest THEN "dependency cycle" ELSE ManifestFault(d)

\* Faulty form: the limit is reached one package early.
EntryFaultEarly(d) ==
  CASE Len(frames) > MaxDependencyDepth -> "dependency depth"
    [] Cardinality(packages) + Len(frames) + 1 >= MaxPackages -> "package count"
    [] d \in Visiting -> "dependency cycle"
    [] \E c \in coordinates : c[1] = ManifestOf(d).coordinate /\ c[2] # d -> "coordinate collision"
    [] moduleCount + Len(ManifestOf(d).modules) > MaxModules -> "module count"
    [] OTHER -> "none"

\* Why a manifest that is not resolved yet is not entered.
EntryFault(d) ==
  CASE Len(frames) > MaxDependencyDepth -> "dependency depth"
    [] Cardinality(packages) + Len(frames) >= MaxPackages -> "package count"
    [] d \in Visiting -> "dependency cycle"
    [] \E c \in coordinates : c[1] = ManifestOf(d).coordinate /\ c[2] # d -> "coordinate collision"
    [] moduleCount + Len(ManifestOf(d).modules) > MaxModules -> "module count"
    [] OTHER -> "none"

-----------------------------------------------------------------------------
Init ==
  /\ \E start \in Starts : pinned = start.pinned /\ store = start.store
  /\ frames = <<>> /\ packages = {} /\ coordinates = {} /\ sources = {}
  /\ moduleCount = 0 /\ totalBytes = 0
  /\ outcome = "ready" /\ disturbances = 0

Refuse(fault) == outcome' = fault /\ UNCHANGED resolver

Enter(d) ==
  IF EntryFault(d) # "none" THEN Refuse(EntryFault(d))
  ELSE /\ frames' = Append(frames, [digest |-> d, modules |-> 0, dependencies |-> 0])
       /\ coordinates' = coordinates \union {<<ManifestOf(d).coordinate, d>>}
       /\ moduleCount' = moduleCount + Len(ManifestOf(d).modules)
       /\ outcome' = "running"
       /\ UNCHANGED <<packages, sources, totalBytes>>

\* The root manifest is given by the caller and not read from the store.
Start ==
  /\ outcome = "ready" /\ UNCHANGED surroundings
  /\ CASE store.root # "directory" -> Refuse("unsafe store path")
       [] store.root = "directory" /\ ~ValidManifest(ManifestOf(Root)) -> Refuse("invalid manifest")
       [] OTHER -> Enter(Root)

Top == frames[Len(frames)]
Advance(field) == [frames EXCEPT ![Len(frames)][field] = @ + 1]

VerifySource ==
  /\ outcome = "running" /\ UNCHANGED surroundings
  /\ Top.modules < Len(ManifestOf(Top.digest).modules)
  /\ LET mod == ManifestOf(Top.digest).modules[Top.modules + 1] IN
     IF ModuleFault(mod) # "none" THEN Refuse(ModuleFault(mod))
     ELSE /\ frames' = Advance("modules")
          /\ sources' = sources \union {mod.source}
          /\ totalBytes' = IF mod.source \in sources THEN totalBytes
                           ELSE totalBytes + pinned.sources[mod.source].size
          /\ UNCHANGED <<packages, coordinates, moduleCount, outcome>>

FollowPin ==
  /\ outcome = "running" /\ UNCHANGED surroundings
  /\ Top.modules = Len(ManifestOf(Top.digest).modules)
  /\ Top.dependencies < Len(ManifestOf(Top.digest).dependencies)
  /\ LET d == ManifestOf(Top.digest).dependencies[Top.dependencies + 1].digest IN
     CASE PinFault(d) # "none" -> Refuse(PinFault(d))
       [] PinFault(d) = "none" /\ d \notin packages -> Enter(d)
       [] OTHER -> /\ frames' = Advance("dependencies")
                   /\ UNCHANGED <<packages, coordinates, sources, moduleCount, totalBytes, outcome>>

Leave ==
  /\ outcome = "running" /\ UNCHANGED surroundings
  /\ Top.modules = Len(ManifestOf(Top.digest).modules)
  /\ Top.dependencies = Len(ManifestOf(Top.digest).dependencies)
  /\ packages' = packages \union {Top.digest}
  /\ frames' = IF Len(frames) = 1 THEN <<>>
               ELSE [SubSeq(frames, 1, Len(frames) - 1)
                       EXCEPT ![Len(frames) - 1].dependencies = @ + 1]
  /\ outcome' = IF Len(frames) = 1 THEN "resolved" ELSE "running"
  /\ UNCHANGED <<coordinates, sources, moduleCount, totalBytes>>

\* The store is filled, or one object of it is damaged or repaired.
Disturb ==
  /\ outcome = "running" /\ disturbances < MaxDisturbances
  /\ disturbances' = disturbances + 1
  /\ \E object \in {"exact", "absent", "other"} :
       \/ \E d \in Manifests : store' = [store EXCEPT !.manifests[d] = object]
       \/ \E s \in Sources : store' = [store EXCEPT !.sources[s] = object]
  /\ store' # store
  /\ UNCHANGED <<pinned, resolver, outcome>>

Next == Start \/ VerifySource \/ FollowPin \/ Leave \/ Disturb

Spec == Init /\ [][Next]_vars

-----------------------------------------------------------------------------
\* The packages are the root and what it pins, directly or through others.
IsClosure ==
  /\ Root \in packages
  /\ \A d \in packages : PinsOf(d) \subseteq packages
  /\ \A d \in packages \ {Root} : \E e \in packages : d \in PinsOf(e)

\* Each is a valid manifest, has a name of its own and modules that declare the
\* name they are listed under; the sources are theirs.
IsVerified ==
  /\ sources = UNION {SourcesOf(d) : d \in packages}
  /\ \A d \in packages :
       /\ ValidManifest(ManifestOf(d))
       /\ \A e \in packages : ManifestOf(e).coordinate = ManifestOf(d).coordinate => e = d
       /\ \A n \in DOMAIN ManifestOf(d).modules :
            LET mod == ManifestOf(d).modules[n] IN
            pinned.sources[mod.source].parses /\ pinned.sources[mod.source].module = mod.module

ReceiptIsTheClosure == outcome = "resolved" => IsClosure /\ IsVerified

\* A receipt says what the root manifest stands for and nothing else, whatever
\* happened to the store during the walk: its packages are the closure of the
\* root, its sources theirs, and its two totals count each of them once.
ReceiptIsExact ==
  /\ ReceiptIsTheClosure
  /\ outcome = "resolved" =>
       /\ moduleCount = SumFunctionOnSet(ModuleCounts, packages)
       /\ totalBytes = SumFunctionOnSet(SourceSizes, sources)

-----------------------------------------------------------------------------
\* The manifests at the end of a chain of n pins that starts at the root.
AtDepth[n \in 0 .. MaxDependencyDepth + 1] ==
  IF n = 0 THEN {Root} ELSE UNION {PinsOf(d) : d \in AtDepth[n - 1]}
Reached == UNION {AtDepth[n] : n \in 0 .. MaxDependencyDepth + 1}

\* Everything the root needs is sound, present and within the limits.
Acceptable ==
  LET needed == UNION {SourcesOf(d) : d \in Reached} IN
  /\ store.root = "directory"
  /\ AtDepth[MaxDependencyDepth + 1] = {}
  /\ Cardinality(Reached) <= MaxPackages
  /\ SumFunctionOnSet(ModuleCounts, Reached) <= MaxModules
  /\ SumFunctionOnSet(SourceSizes, needed) <= MaxTotalSourceBytes
  /\ \A d \in Reached :
       /\ ValidManifest(ManifestOf(d)) /\ (d # Root => store.manifests[d] = "exact")
       /\ \A e \in Reached : ManifestOf(e).coordinate = ManifestOf(d).coordinate => e = d
       /\ \A n \in DOMAIN ManifestOf(d).modules :
            LET mod == ManifestOf(d).modules[n] IN
            /\ store.sources[mod.source] = "exact"
            /\ pinned.sources[mod.source].parses
            /\ pinned.sources[mod.source].module = mod.module

\* With a store that nobody touches there is no refusal without a cause: what is
\* sound and within the limits resolves, shared dependencies and all.
RefusalHasCause ==
  disturbances = 0 /\ outcome \notin {"ready", "running", "resolved"} => ~Acceptable

\* "dependency depth: at most 64" (spec/package-resolution-v0.md): no resolved
\* graph has a longer chain of pins.
DepthIsBounded == outcome = "resolved" => AtDepth[MaxDependencyDepth + 1] = {}
=============================================================================

------------------------ MODULE PackageResolverProofs ------------------------
(***************************************************************************)
(* Proofs that a resolved walk has visited the closure of its root and     *)
(* verified it, whatever was done to the store meanwhile, that its totals  *)
(* are exact, and that an untouched store is not refused without cause.   *)
(***************************************************************************)
EXTENDS PackageResolver, FiniteSumTheorems

\* The parts of the invariant are predicates of values: a world w, packages P,
\* sources S, a frame f.
Mods(w, d) == w.manifests[d].modules
Deps(w, d) == w.manifests[d].dependencies
Frame == [digest : Manifests, modules : Nat, dependencies : Nat]

\* A module that was verified against its source.
Checked(w, S, mod) ==
  /\ mod.source \in S
  /\ w.sources[mod.source].parses /\ w.sources[mod.source].module = mod.module

\* What a frame has passed is done.
FrameOK(w, P, S, f) ==
  /\ ValidManifest(w.manifests[f.digest])
  /\ f.modules <= Len(Mods(w, f.digest)) /\ f.dependencies <= Len(Deps(w, f.digest))
  /\ \A k \in 1 .. f.modules : Checked(w, S, Mods(w, f.digest)[k])
  /\ \A k \in 1 .. f.dependencies : Deps(w, f.digest)[k].digest \in P

\* A frame is there for the pin that the frame below it follows.
Linked(w, f, g) ==
  /\ f.dependencies < Len(Deps(w, f.digest))
  /\ g.digest = Deps(w, f.digest)[f.dependencies + 1].digest

\* Every manifest is made of sequences.
PinnedInv ==
  \A d \in Manifests :
    /\ Mods(pinned, d) \in Seq([module : Int, path : Int, source : Sources])
    /\ Deps(pinned, d) \in Seq([alias : Int, digest : Manifests])

\* The frames are a chain of pins from the root.
FramesInv ==
  /\ frames \in Seq(Frame)
  /\ Len(frames) > 0 => frames[1].digest = Root
  /\ \A n \in 1 .. Len(frames) : FrameOK(pinned, packages, sources, frames[n])
  /\ \A n \in 1 .. Len(frames) - 1 : Linked(pinned, frames[n], frames[n + 1])

\* A resolved package is verified, has all its pins resolved, and is there because
\* it is the root or something pins it.
PackagesInv ==
  /\ packages \subseteq Manifests
  /\ \A d \in packages :
       /\ ValidManifest(pinned.manifests[d])
       /\ PinsOf(d) \subseteq packages
       /\ \A k \in DOMAIN Mods(pinned, d) : Checked(pinned, sources, Mods(pinned, d)[k])
       /\ d = Root \/ \E e \in packages \union Visiting : d \in PinsOf(e)

\* A verified source is listed by a package or by a manifest that is visited.
SourcesInv ==
  \A s \in sources :
    /\ pinned.sources[s].parses
    /\ \E d \in packages \union Visiting : s \in SourcesOf(d)

\* A name is claimed by at most one digest; all that was entered has a claim.
NamesInv ==
  /\ \A c, e \in coordinates : c[1] = e[1] => c[2] = e[2]
  /\ \A d \in packages \union Visiting : <<pinned.manifests[d].coordinate, d>> \in coordinates

OutcomeInv ==
  /\ outcome = "ready" => frames = <<>> /\ packages = {}
  /\ outcome = "running" => Len(frames) > 0
  /\ outcome = "resolved" => frames = <<>> /\ Root \in packages

WalkInv == PinnedInv /\ FramesInv /\ PackagesInv /\ SourcesInv /\ NamesInv /\ OutcomeInv

-----------------------------------------------------------------------------
\* The invariant says what the receipt promises.
LEMMA WalkInvSuffices == WalkInv => ReceiptIsTheClosure
<1> SUFFICES ASSUME WalkInv, outcome = "resolved" PROVE IsClosure /\ IsVerified
  BY DEF ReceiptIsTheClosure
<1>1. Visiting = {} /\ Root \in packages
  BY DEF WalkInv, OutcomeInv, Visiting
<1>2. IsClosure
  BY <1>1 DEF WalkInv, PackagesInv, IsClosure
<1>3. sources = UNION {SourcesOf(d) : d \in packages}
  <2>1. ASSUME NEW d \in packages, NEW s \in SourcesOf(d) PROVE s \in sources
    BY <2>1 DEF WalkInv, PackagesInv, SourcesOf, Checked, Mods, ManifestOf
  <2>2. ASSUME NEW s \in sources PROVE \E d \in packages : s \in SourcesOf(d)
    BY <1>1, <2>2 DEF WalkInv, SourcesInv
  <2> QED BY <2>1, <2>2
<1>4. ASSUME NEW d \in packages
      PROVE  /\ ValidManifest(ManifestOf(d))
             /\ \A e \in packages : ManifestOf(e).coordinate = ManifestOf(d).coordinate => e = d
             /\ \A n \in DOMAIN ManifestOf(d).modules :
                  LET mod == ManifestOf(d).modules[n] IN
                  pinned.sources[mod.source].parses /\ pinned.sources[mod.source].module = mod.module
  <2>1. ASSUME NEW e \in packages, ManifestOf(e).coordinate = ManifestOf(d).coordinate
        PROVE  e = d
    <3>1. <<ManifestOf(e).coordinate, e>> \in coordinates /\ <<ManifestOf(d).coordinate, d>> \in coordinates
      BY DEF WalkInv, NamesInv, ManifestOf
    <3> QED BY <2>1, <3>1 DEF WalkInv, NamesInv
  <2>2. /\ ValidManifest(ManifestOf(d))
        /\ \A n \in DOMAIN Mods(pinned, d) : Checked(pinned, sources, Mods(pinned, d)[n])
    BY DEF WalkInv, PackagesInv, ManifestOf
  <2> QED BY <2>1, <2>2 DEF Checked, Mods, ManifestOf
<1> QED BY <1>2, <1>3, <1>4 DEF IsVerified

\* It holds before the walk.
LEMMA WalkInvInit == Init => WalkInv
<1> SUFFICES ASSUME Init PROVE WalkInv
  OBVIOUS
<1>1. PinnedInv
  BY PinnedAssumption DEF Init, PinnedInv, Mods, Deps
<1>2. FramesInv /\ PackagesInv /\ SourcesInv /\ NamesInv /\ OutcomeInv
  BY DEF Init, FramesInv, PackagesInv, SourcesInv, NamesInv, OutcomeInv, Visiting
<1> QED BY <1>1, <1>2 DEF WalkInv

-----------------------------------------------------------------------------
\* Neither a refusal nor a change of the store moves the walk.
LEMMA StandingStill ==
  ASSUME WalkInv, UNCHANGED <<pinned, resolver>>
  PROVE  PinnedInv' /\ FramesInv' /\ PackagesInv' /\ SourcesInv' /\ NamesInv'
<1> USE DEF WalkInv, resolver
<1>1. PinnedInv'
  BY DEF PinnedInv
<1>2. FramesInv'
  BY DEF FramesInv
<1>3. PackagesInv'
  BY DEF PackagesInv, Visiting, PinsOf, ManifestOf
<1>4. SourcesInv'
  BY DEF SourcesInv, Visiting, SourcesOf, ManifestOf
<1>5. NamesInv'
  BY DEF NamesInv, Visiting
<1> QED BY <1>1, <1>2, <1>3, <1>4, <1>5

LEMMA RefuseKeeps ==
  ASSUME WalkInv, NEW fault, fault \notin {"ready", "running", "resolved"},
         Refuse(fault), UNCHANGED surroundings
  PROVE  WalkInv'
<1>1. UNCHANGED <<pinned, resolver>> /\ outcome' = fault
  BY DEF Refuse, surroundings
<1>2. OutcomeInv'
  BY <1>1 DEF OutcomeInv
<1> QED BY <1>1, <1>2, StandingStill DEF WalkInv

\* The faults are not among the outcomes of a walk that goes on or ends well.
LEMMA FaultsAreFaults ==
  /\ \A d : EntryFault(d) \notin {"ready", "running", "resolved"}
  /\ \A d : PinFault(d) \notin {"ready", "running", "resolved"}
  /\ \A mod : ModuleFault(mod) \notin {"ready", "running", "resolved"}
BY DEF EntryFault, PinFault, ManifestFault, ModuleFault, SourceFault

\* What a frame has passed stays done when more is done.
LEMMA FrameGrows ==
  ASSUME NEW w, NEW P, NEW S, NEW P2, NEW S2, P \subseteq P2, S \subseteq S2, NEW f,
         FrameOK(w, P, S, f)
  PROVE  FrameOK(w, P2, S2, f)
BY DEF FrameOK, Checked

\* The frame that works is one of the frames and its counts are in range.
LEMMA TopFrame ==
  ASSUME WalkInv, Len(frames) > 0
  PROVE  /\ Len(frames) \in Nat /\ Top = frames[Len(frames)] /\ Top \in Frame
         /\ Top.digest \in Manifests /\ Top.modules \in Nat /\ Top.dependencies \in Nat
         /\ FrameOK(pinned, packages, sources, Top) /\ Top.digest \in Visiting
         /\ Mods(pinned, Top.digest) \in Seq([module : Int, path : Int, source : Sources])
         /\ Deps(pinned, Top.digest) \in Seq([alias : Int, digest : Manifests])
<1>1. frames \in Seq(Frame) /\ Len(frames) \in Nat /\ DOMAIN frames = 1 .. Len(frames)
  BY DEF WalkInv, FramesInv
<1>2. Len(frames) \in 1 .. Len(frames)
  BY <1>1
<1>3. Top = frames[Len(frames)] /\ Top \in Frame
  BY <1>1, <1>2 DEF Top
<1>4. Top.digest \in Manifests /\ Top.modules \in Nat /\ Top.dependencies \in Nat
  BY <1>3 DEF Frame
<1>5. FrameOK(pinned, packages, sources, Top) /\ Top.digest \in Visiting
  BY <1>1, <1>2, <1>3 DEF WalkInv, FramesInv, Visiting
<1>6. /\ Mods(pinned, Top.digest) \in Seq([module : Int, path : Int, source : Sources])
      /\ Deps(pinned, Top.digest) \in Seq([alias : Int, digest : Manifests])
  BY <1>4 DEF WalkInv, PinnedInv
<1> QED BY <1>1, <1>3, <1>4, <1>5, <1>6

-----------------------------------------------------------------------------
\* How entering and getting further move the frames.
LEMMA EnterMoves ==
  ASSUME WalkInv, NEW d, EntryFault(d) = "none", Enter(d)
  PROVE  /\ Len(frames) \in Nat /\ Len(frames') = Len(frames) + 1
         /\ \A n \in 1 .. Len(frames) : frames'[n] = frames[n]
         /\ frames'[Len(frames) + 1].digest = d
         /\ Visiting' = Visiting \union {d}
<1> DEFINE N == Len(frames)
           new == [digest |-> d, modules |-> 0, dependencies |-> 0]
<1>1. frames' = Append(frames, new)
  BY DEF Enter
<1>2. frames \in Seq(Frame) /\ N \in Nat /\ DOMAIN frames = 1..N
  BY DEF WalkInv, FramesInv
<1>3. /\ Len(frames') = N + 1 /\ DOMAIN frames' = 1 .. N + 1
      /\ \A n \in 1..N : frames'[n] = frames[n]
      /\ frames'[N + 1] = new
  BY <1>1, <1>2
<1>4. Visiting = {frames[n].digest : n \in 1..N} /\ Visiting' = {frames'[n].digest : n \in 1 .. N + 1}
  BY <1>2, <1>3 DEF Visiting
<1>5. 1 .. N + 1 = (1..N) \union {N + 1}
  BY <1>2
<1>6. frames'[N + 1].digest = d
  BY <1>3
<1> HIDE DEF N
<1>7. Visiting' = {frames'[n].digest : n \in 1..N} \union {d}
  BY <1>4, <1>5, <1>6
<1>8. {frames'[n].digest : n \in 1..N} = {frames[n].digest : n \in 1..N}
  BY <1>3
<1> QED BY <1>2, <1>3, <1>4, <1>6, <1>7, <1>8 DEF N

LEMMA AdvanceMoves ==
  ASSUME WalkInv, Len(frames) > 0, NEW field \in {"modules", "dependencies"},
         frames' = Advance(field)
  PROVE  /\ Len(frames) \in Nat /\ Len(frames') = Len(frames)
         /\ \A n \in 1 .. Len(frames) : frames'[n].digest = frames[n].digest
         /\ Visiting' = Visiting
<1> DEFINE N == Len(frames)
<1>1. frames \in Seq(Frame) /\ N \in Nat /\ DOMAIN frames = 1..N /\ N \in 1..N
  BY DEF WalkInv, FramesInv
<1>2. frames' = [frames EXCEPT ![N] = [frames[N] EXCEPT ![field] = @ + 1]]
  BY DEF Advance
<1>3. frames[N] \in Frame
  BY <1>1
<1>4. [frames[N] EXCEPT ![field] = @ + 1].digest = frames[N].digest
  <2>1. ASSUME NEW t \in Frame PROVE [t EXCEPT ![field] = @ + 1].digest = t.digest
    BY DEF Frame
  <2> QED BY <1>3, <2>1
<1>5. Len(frames') = N /\ DOMAIN frames' = 1..N
  BY <1>1, <1>2
<1>6. \A n \in 1..N : frames'[n].digest = frames[n].digest
  <2>1. \A n \in 1..N : n # N => frames'[n] = frames[n]
    BY <1>1, <1>2
  <2>2. frames'[N] = [frames[N] EXCEPT ![field] = @ + 1]
    BY <1>1, <1>2
  <2> QED BY <1>4, <2>1, <2>2
<1> HIDE DEF N
<1>7. Visiting = {frames[n].digest : n \in 1..N} /\ Visiting' = {frames'[n].digest : n \in 1..N}
  BY <1>1, <1>5 DEF Visiting
<1> QED BY <1>1, <1>5, <1>6, <1>7 DEF N

\* An index is the last or below it.
LEMMA LastOrBefore == \A k \in Nat : \A i \in 1..k : i \in 1 .. k - 1 \/ i = k
OBVIOUS

\* Entering a manifest that the top of the frames pins, or the root.
LEMMA EnterKeeps ==
  ASSUME WalkInv, NEW d \in Manifests, ValidManifest(ManifestOf(d)),
         Len(frames) = 0 => d = Root,
         Len(frames) > 0 => /\ Top.dependencies < Len(Deps(pinned, Top.digest))
                            /\ d = Deps(pinned, Top.digest)[Top.dependencies + 1].digest,
         Enter(d), UNCHANGED surroundings
  PROVE  WalkInv'
<1> DEFINE N == Len(frames)
           new == [digest |-> d, modules |-> 0, dependencies |-> 0]
<1>1. CASE EntryFault(d) # "none"
  BY <1>1, RefuseKeeps, FaultsAreFaults DEF Enter
<1>2. CASE EntryFault(d) = "none"
  <2>1. /\ frames' = Append(frames, new)
        /\ coordinates' = coordinates \union {<<ManifestOf(d).coordinate, d>>}
        /\ outcome' = "running" /\ UNCHANGED <<pinned, packages, sources>>
    BY <1>2 DEF Enter, surroundings
  <2>2. \A c \in coordinates : c[1] = ManifestOf(d).coordinate => c[2] = d
    BY <1>2 DEF EntryFault
  <2>3. frames \in Seq(Frame) /\ N \in Nat /\ DOMAIN frames = 1..N
    BY DEF WalkInv, FramesInv
  <2>4. new \in Frame /\ new.digest = d /\ new.modules = 0 /\ new.dependencies = 0
    BY DEF Frame
  <2>5. /\ frames' \in Seq(Frame) /\ Len(frames') = N + 1 /\ DOMAIN frames' = 1 .. N + 1
        /\ \A n \in 1..N : frames'[n] = frames[n]
        /\ frames'[N + 1] = new
    BY <2>1, <2>3, <2>4
  <2>6. N > 0 => Top = frames[N]
    BY DEF Top
  <2> HIDE DEF new
  <2>7. Visiting' = Visiting \union {d}
    BY <1>2, EnterMoves
  <2>8. PinnedInv'
    BY <2>1 DEF WalkInv, PinnedInv
  <2>9. FramesInv'
    <3>1. frames'[1].digest = Root
      BY <2>3, <2>4, <2>5 DEF WalkInv, FramesInv
    <3>2. FrameOK(pinned, packages, sources, new)
      <4>1. Mods(pinned, d) \in Seq([module : Int, path : Int, source : Sources])
            /\ Deps(pinned, d) \in Seq([alias : Int, digest : Manifests])
        BY DEF WalkInv, PinnedInv
      <4>2. Len(Mods(pinned, d)) \in Nat /\ Len(Deps(pinned, d)) \in Nat
        BY <4>1
      <4> QED BY <2>4, <4>2 DEF FrameOK, ManifestOf
    <3>3. ASSUME NEW n \in 1 .. N + 1 PROVE FrameOK(pinned, packages, sources, frames'[n])
      <4>1. CASE n \in 1..N
        BY <2>5, <4>1 DEF WalkInv, FramesInv
      <4>2. CASE n = N + 1
        BY <2>5, <3>2, <4>2
      <4> QED BY <2>3, <4>1, <4>2
    <3>4. ASSUME NEW n \in 1..N PROVE Linked(pinned, frames'[n], frames'[n + 1])
      <4>1. CASE n \in 1 .. N - 1
        <5>1. n + 1 \in 1..N /\ Linked(pinned, frames[n], frames[n + 1])
          BY <2>3, <4>1 DEF WalkInv, FramesInv
        <5> QED BY <2>5, <5>1
      <4>2. CASE n = N
        <5>1. N \in 1..N /\ N > 0 /\ frames'[N] = Top /\ frames'[N + 1].digest = d
          BY <2>3, <2>4, <2>5, <2>6, <4>2
        <5>2. /\ Top.dependencies < Len(Deps(pinned, Top.digest))
              /\ d = Deps(pinned, Top.digest)[Top.dependencies + 1].digest
          BY <5>1
        <5>3. frames'[n] = Top /\ frames'[n + 1].digest = d
          BY <4>2, <5>1
        <5> QED BY <5>2, <5>3 DEF Linked
      <4>3. n \in 1 .. N - 1 \/ n = N
        BY <2>3, LastOrBefore, Zenon
      <4> QED BY <4>1, <4>2, <4>3, Zenon
    <3> HIDE DEF N
    <3>5. Len(frames') - 1 = N
      BY <2>3, <2>5
    <3>6. \A n \in 1 .. Len(frames') : FrameOK(pinned', packages', sources', frames'[n])
      BY <2>1, <2>5, <3>3
    <3>7. \A n \in 1 .. Len(frames') - 1 : Linked(pinned', frames'[n], frames'[n + 1])
      BY <2>1, <3>4, <3>5
    <3> QED BY <2>5, <3>1, <3>6, <3>7 DEF FramesInv
  <2>10. PackagesInv'
    BY <2>1, <2>7 DEF WalkInv, PackagesInv, PinsOf, ManifestOf
  <2>11. SourcesInv'
    BY <2>1, <2>7 DEF WalkInv, SourcesInv, SourcesOf, ManifestOf
  <2>12. NamesInv'
    <3>1. \A e \in packages' \union Visiting' : <<pinned.manifests[e].coordinate, e>> \in coordinates'
      BY <2>1, <2>7 DEF WalkInv, NamesInv, ManifestOf
    <3>2. \A c, e \in coordinates' : c[1] = e[1] => c[2] = e[2]
      BY <2>1, <2>2 DEF WalkInv, NamesInv
    <3> QED BY <2>1, <3>1, <3>2 DEF NamesInv
  <2>13. OutcomeInv'
    BY <2>1, <2>3, <2>5 DEF OutcomeInv
  <2> QED BY <2>8, <2>9, <2>10, <2>11, <2>12, <2>13 DEF WalkInv
<1> QED BY <1>1, <1>2

\* The element after the first n of a longer sequence.
LEMMA NextElement ==
  ASSUME NEW S, NEW q \in Seq(S), NEW n \in Nat, n < Len(q)
  PROVE  q[n + 1] \in S
OBVIOUS

\* Changing one element of a sequence.
LEMMA SequenceChanged ==
  ASSUME NEW S, NEW q \in Seq(S), NEW k \in 1 .. Len(q), NEW x \in S,
         NEW r, r = [q EXCEPT ![k] = x]
  PROVE  /\ r \in Seq(S) /\ Len(r) = Len(q) /\ DOMAIN r = 1 .. Len(q)
         /\ \A n \in 1 .. Len(q) : n # k => r[n] = q[n]
         /\ r[k] = x
OBVIOUS

\* The top of the frames gets one further; nothing is entered or left.
LEMMA AdvanceKeeps ==
  ASSUME WalkInv, Len(frames) > 0, NEW field \in {"modules", "dependencies"},
         frames' = Advance(field), UNCHANGED <<pinned, packages, coordinates, outcome>>,
         sources \subseteq sources',
         \A s \in sources' : pinned.sources[s].parses
                               /\ \E d \in packages \union Visiting : s \in SourcesOf(d),
         FrameOK(pinned, packages, sources', [Top EXCEPT ![field] = @ + 1])
  PROVE  WalkInv'
<1> DEFINE N == Len(frames)
<1>1. frames \in Seq(Frame) /\ N \in Nat /\ DOMAIN frames = 1..N
  BY DEF WalkInv, FramesInv
<1>2. frames' = [frames EXCEPT ![N] = [Top EXCEPT ![field] = @ + 1]]
  BY DEF Advance, Top
<1>3. [Top EXCEPT ![field] = @ + 1] \in Frame /\ [Top EXCEPT ![field] = @ + 1].digest = Top.digest
  <2>1. ASSUME NEW t \in Frame
        PROVE  [t EXCEPT ![field] = @ + 1] \in Frame /\ [t EXCEPT ![field] = @ + 1].digest = t.digest
    <3>1. CASE field = "modules"
      BY <3>1 DEF Frame
    <3>2. CASE field = "dependencies"
      BY <3>2 DEF Frame
    <3> QED BY <3>1, <3>2
  <2> QED BY <2>1, TopFrame
<1> DEFINE new == [Top EXCEPT ![field] = @ + 1]
<1> HIDE DEF new
<1>4. /\ frames' \in Seq(Frame) /\ Len(frames') = N /\ DOMAIN frames' = 1..N
      /\ \A n \in 1..N : n # N => frames'[n] = frames[n]
      /\ frames'[N] = new
  <2>1. frames' = [frames EXCEPT ![N] = new] /\ new \in Frame
    BY <1>2, <1>3 DEF new
  <2>2. N \in 1..N
    BY <1>1
  <2>3. frames \in Seq(Frame) /\ N \in 1..Len(frames)
    BY <1>1, <2>2
  <2> HIDE DEF N
  <2>4. /\ frames' \in Seq(Frame) /\ Len(frames') = Len(frames) /\ DOMAIN frames' = 1..Len(frames)
        /\ \A n \in 1..Len(frames) : n # N => frames'[n] = frames[n]
        /\ frames'[N] = new
    BY <2>1, <2>3, SequenceChanged
  <2> QED BY <2>4 DEF N
<1>5. Top = frames[N] /\ new.digest = Top.digest
  BY <1>3 DEF Top, new
<1> HIDE DEF N
<1>6. \A n \in 1..N : frames'[n].digest = frames[n].digest
  BY <1>4, <1>5
<1>7. Visiting' = Visiting
  BY AdvanceMoves
<1>8. PinnedInv'
  BY DEF WalkInv, PinnedInv
<1>9. FramesInv'
  <2>1. frames'[1].digest = Root
    BY <1>1, <1>6 DEF WalkInv, FramesInv, N
  <2>2. ASSUME NEW n \in 1..N PROVE FrameOK(pinned, packages, sources', frames'[n])
    <3>1. CASE n = N
      BY <1>4, <3>1 DEF new
    <3>2. CASE n # N
      <4>1. FrameOK(pinned, packages, sources, frames[n])
        BY DEF WalkInv, FramesInv, N
      <4>2. FrameOK(pinned, packages, sources', frames[n])
        BY <4>1, FrameGrows
      <4> QED BY <1>4, <3>2, <4>2
    <3> QED BY <3>1, <3>2
  <2>3. ASSUME NEW n \in 1 .. N - 1 PROVE Linked(pinned, frames'[n], frames'[n + 1])
    <3>1. n \in 1..N /\ n # N /\ n + 1 \in 1..N
      BY <1>1, <2>3
    <3>2. Linked(pinned, frames[n], frames[n + 1])
      BY <2>3 DEF WalkInv, FramesInv, N
    <3> QED BY <1>4, <1>6, <3>1, <3>2 DEF Linked
  <2> QED BY <1>4, <2>1, <2>2, <2>3 DEF FramesInv
<1>10. PackagesInv'
  BY <1>7 DEF WalkInv, PackagesInv, Checked, PinsOf, ManifestOf
<1>11. SourcesInv'
  BY <1>7 DEF SourcesInv, SourcesOf, ManifestOf
<1>12. NamesInv'
  BY <1>7 DEF WalkInv, NamesInv
<1>13. OutcomeInv'
  <2>1. frames # <<>> /\ outcome # "ready" /\ outcome # "resolved"
    BY DEF WalkInv, OutcomeInv
  <2> QED BY <1>4, <2>1 DEF OutcomeInv, N
<1> QED BY <1>8, <1>9, <1>10, <1>11, <1>12, <1>13 DEF WalkInv

-----------------------------------------------------------------------------
\* A module that ModuleFault finds nothing wrong with is verified by the step.
LEMMA VerifySourceKeeps ==
  ASSUME WalkInv, VerifySource
  PROVE  WalkInv'
<1> DEFINE k == Top.modules + 1
           mod == Mods(pinned, Top.digest)[k]
<1>1. Len(frames) > 0 /\ Top.modules < Len(Mods(pinned, Top.digest)) /\ UNCHANGED surroundings
  BY DEF VerifySource, WalkInv, OutcomeInv, Mods, ManifestOf
<1>2. /\ Top \in Frame /\ Top.digest \in Manifests /\ Top.modules \in Nat
      /\ FrameOK(pinned, packages, sources, Top) /\ Top.digest \in Visiting
      /\ Mods(pinned, Top.digest) \in Seq([module : Int, path : Int, source : Sources])
  BY <1>1, TopFrame
<1>3. k \in DOMAIN Mods(pinned, Top.digest)
  BY <1>1, <1>2
<1>4. IF ModuleFault(mod) # "none" THEN Refuse(ModuleFault(mod))
      ELSE /\ frames' = Advance("modules")
           /\ sources' = sources \union {mod.source}
           /\ UNCHANGED <<packages, coordinates, outcome>>
  BY DEF VerifySource, Mods, ManifestOf
<1> HIDE DEF mod
<1>5. CASE ModuleFault(mod) # "none"
  BY <1>1, <1>4, <1>5, RefuseKeeps, FaultsAreFaults
<1>6. CASE ModuleFault(mod) = "none"
  <2>1. /\ frames' = Advance("modules")
        /\ sources' = sources \union {mod.source}
        /\ UNCHANGED <<pinned, packages, coordinates, outcome>>
    BY <1>1, <1>4, <1>6 DEF surroundings
  <2>2. pinned.sources[mod.source].parses /\ pinned.sources[mod.source].module = mod.module
    <3>1. CASE mod.source \notin sources
      BY <1>6, <3>1 DEF ModuleFault, SourceFault
    <3>2. CASE mod.source \in sources
      BY <1>6, <3>2 DEF ModuleFault, WalkInv, SourcesInv
    <3> QED BY <3>1, <3>2
  <2>3. mod.source \in SourcesOf(Top.digest)
    BY <1>3 DEF mod, SourcesOf, ManifestOf, Mods
  <2>4. \A s \in sources' : pinned.sources[s].parses
                              /\ \E d \in packages \union Visiting : s \in SourcesOf(d)
    BY <1>2, <2>1, <2>2, <2>3 DEF WalkInv, SourcesInv
  <2>5. FrameOK(pinned, packages, sources', [Top EXCEPT !["modules"] = @ + 1])
    <3>1. FrameOK(pinned, packages, sources', Top)
      BY <1>2, <2>1, FrameGrows
    <3>2. Checked(pinned, sources', mod)
      BY <2>1, <2>2 DEF Checked
    <3>3. k <= Len(Mods(pinned, Top.digest)) /\ 1 .. Top.modules + 1 = (1 .. Top.modules) \union {k}
      BY <1>1, <1>2
    <3>4. ASSUME NEW t \in Frame, t = Top
          PROVE  /\ [t EXCEPT !["modules"] = @ + 1].digest = t.digest
                 /\ [t EXCEPT !["modules"] = @ + 1].modules = t.modules + 1
                 /\ [t EXCEPT !["modules"] = @ + 1].dependencies = t.dependencies
      BY DEF Frame
    <3>5. /\ [Top EXCEPT !["modules"] = @ + 1].digest = Top.digest
          /\ [Top EXCEPT !["modules"] = @ + 1].modules = Top.modules + 1
          /\ [Top EXCEPT !["modules"] = @ + 1].dependencies = Top.dependencies
      BY <1>2, <3>4
    <3> DEFINE new == [Top EXCEPT !["modules"] = @ + 1]
    <3> HIDE DEF new
    <3>6. new.digest = Top.digest /\ new.modules = Top.modules + 1 /\ new.dependencies = Top.dependencies
      BY <3>5 DEF new
    <3>7. \A i \in 1 .. new.modules : Checked(pinned, sources', Mods(pinned, new.digest)[i])
      <4>1. \A i \in 1 .. Top.modules : Checked(pinned, sources', Mods(pinned, Top.digest)[i])
        BY <3>1 DEF FrameOK
      <4>2. Checked(pinned, sources', Mods(pinned, Top.digest)[k])
        BY <3>2 DEF mod
      <4> HIDE DEF k
      <4> QED BY <3>3, <3>6, <4>1, <4>2
    <3>8. FrameOK(pinned, packages, sources', new)
      BY <3>1, <3>3, <3>6, <3>7 DEF FrameOK
    <3> QED BY <3>8 DEF new
  <2> QED BY <1>1, <2>1, <2>4, <2>5, AdvanceKeeps
<1> QED BY <1>5, <1>6

\* A frame may count one more pin when what it pins is resolved.
LEMMA PassedPin ==
  ASSUME NEW w, NEW P, NEW S, NEW f \in Frame, FrameOK(w, P, S, f),
         f.dependencies < Len(Deps(w, f.digest)), Len(Deps(w, f.digest)) \in Nat,
         Deps(w, f.digest)[f.dependencies + 1].digest \in P
  PROVE  FrameOK(w, P, S, [f EXCEPT !["dependencies"] = @ + 1])
<1> DEFINE new == [f EXCEPT !["dependencies"] = @ + 1]
<1>1. new.digest = f.digest /\ new.modules = f.modules /\ new.dependencies = f.dependencies + 1
  BY DEF Frame
<1>2. f.dependencies \in Nat
  BY DEF Frame
<1> HIDE DEF new
<1>3. \A i \in 1 .. f.dependencies + 1 : i \in 1 .. f.dependencies \/ i = f.dependencies + 1
  BY <1>2
<1>4. \A i \in 1 .. new.dependencies : Deps(w, new.digest)[i].digest \in P
  BY <1>1, <1>3 DEF FrameOK
<1>5. FrameOK(w, P, S, new)
  BY <1>1, <1>2, <1>4 DEF FrameOK
<1> QED BY <1>5 DEF new

\* A pin is refused, followed into a manifest, or passed because it is resolved.
LEMMA FollowPinKeeps ==
  ASSUME WalkInv, FollowPin
  PROVE  WalkInv'
<1> DEFINE k == Top.dependencies + 1
           d == Deps(pinned, Top.digest)[k].digest
<1>1. /\ Len(frames) > 0 /\ UNCHANGED surroundings
      /\ Top.dependencies < Len(Deps(pinned, Top.digest))
  BY DEF FollowPin, WalkInv, OutcomeInv, Deps, ManifestOf
<1>2. /\ Top \in Frame /\ Top.digest \in Manifests /\ Top.dependencies \in Nat
      /\ FrameOK(pinned, packages, sources, Top)
      /\ Deps(pinned, Top.digest) \in Seq([alias : Int, digest : Manifests])
  BY <1>1, TopFrame
<1>3. k \in DOMAIN Deps(pinned, Top.digest) /\ d \in Manifests
  <2>1. ASSUME NEW q \in Seq([alias : Int, digest : Manifests]), NEW n \in Nat, n < Len(q)
        PROVE  n + 1 \in DOMAIN q /\ q[n + 1].digest \in Manifests
    <3>1. n + 1 \in DOMAIN q
      BY <2>1
    <3>2. q[n + 1] \in [alias : Int, digest : Manifests]
      <4> DEFINE R == [alias : Int, digest : Manifests]
      <4> HIDE DEF R
      <4>1. q \in Seq(R)
        BY DEF R
      <4>2. q[n + 1] \in R
        BY <2>1, <4>1, NextElement
      <4> QED BY <4>2 DEF R
    <3> QED BY <3>1, <3>2
  <2> QED BY <1>1, <1>2, <2>1
<1>4. CASE PinFault(d) # "none"
  <2>1. Refuse(PinFault(d))
    BY <1>4 DEF FollowPin, Deps, ManifestOf
  <2> HIDE DEF d
  <2> QED BY <1>1, <1>4, <2>1, RefuseKeeps, FaultsAreFaults
<1>5. CASE PinFault(d) = "none" /\ d \notin packages
  <2>1. Enter(d)
    BY <1>5 DEF FollowPin, Deps, ManifestOf
  <2>2. ValidManifest(ManifestOf(d))
    <3>1. ManifestFault(d) = "none"
      BY <1>5 DEF PinFault
    <3> QED BY <3>1 DEF ManifestFault
  <2>3. d = Deps(pinned, Top.digest)[Top.dependencies + 1].digest
    OBVIOUS
  <2> HIDE DEF d
  <2> QED BY <1>1, <1>3, <2>1, <2>2, <2>3, EnterKeeps
<1>6. CASE PinFault(d) = "none" /\ d \in packages
  <2>1. /\ frames' = Advance("dependencies")
        /\ UNCHANGED <<packages, coordinates, sources, outcome>>
    BY <1>6 DEF FollowPin, Deps, ManifestOf
  <2>2. UNCHANGED pinned
    BY <1>1 DEF surroundings
  <2>3. \A s \in sources' : pinned.sources[s].parses
                              /\ \E e \in packages \union Visiting : s \in SourcesOf(e)
    BY <2>1 DEF WalkInv, SourcesInv
  <2>4. FrameOK(pinned, packages, sources', [Top EXCEPT !["dependencies"] = @ + 1])
    <3>1. Len(Deps(pinned, Top.digest)) \in Nat
      BY <1>2
    <3> HIDE DEF d
    <3>2. Deps(pinned, Top.digest)[Top.dependencies + 1].digest \in packages
      BY <1>6 DEF d
    <3>3. FrameOK(pinned, packages, sources, [Top EXCEPT !["dependencies"] = @ + 1])
      BY <1>1, <1>2, <3>1, <3>2, PassedPin
    <3> QED BY <2>1, <3>3
  <2> QED BY <1>1, <2>1, <2>2, <2>3, <2>4, AdvanceKeeps
<1> QED BY <1>4, <1>5, <1>6

\* Dropping the last element of a sequence.
LEMMA SequenceShortened ==
  ASSUME NEW S, NEW q \in Seq(S), NEW k \in Nat, Len(q) = k + 1
  PROVE  /\ SubSeq(q, 1, k) \in Seq(S) /\ Len(SubSeq(q, 1, k)) = k
         /\ \A n \in 1..k : SubSeq(q, 1, k)[n] = q[n]
OBVIOUS

LEMMA OneOrMore == \A k \in Nat : k > 0 => k = 1 \/ k > 1
OBVIOUS

\* The frames below the top, the last of which gets one pin further.
LEMMA LowerFrames ==
  ASSUME WalkInv, Leave, Len(frames) > 1
  PROVE  /\ Len(frames) - 1 \in Nat /\ Len(frames) - 1 > 0
         /\ frames' \in Seq(Frame) /\ Len(frames') = Len(frames) - 1
         /\ DOMAIN frames' = 1 .. Len(frames) - 1
         /\ \A n \in 1 .. Len(frames) - 1 :
              /\ n # Len(frames) - 1 => frames'[n] = frames[n]
              /\ frames'[n].digest = frames[n].digest
              /\ frames[n] \in Frame
         /\ frames'[Len(frames) - 1] = [frames[Len(frames) - 1] EXCEPT !["dependencies"] = @ + 1]
         /\ Linked(pinned, frames[Len(frames) - 1], Top)
<1>1. frames \in Seq(Frame) /\ Len(frames) \in Nat
  BY DEF WalkInv, FramesInv
<1>2. PICK k \in Nat : k > 0 /\ Len(frames) = k + 1
  <2>1. Len(frames) - 1 \in Nat /\ Len(frames) - 1 > 0 /\ Len(frames) = (Len(frames) - 1) + 1
    BY <1>1
  <2> QED BY <2>1
<1>3. k = Len(frames) - 1 /\ k \in 1 .. Len(frames) /\ k \in 1 .. Len(frames) - 1 /\ Len(frames) # 1
  BY <1>2
<1>4. frames[k] \in Frame
  BY <1>1, <1>3
<1> DEFINE new == [frames[k] EXCEPT !["dependencies"] = @ + 1]
<1>5. new \in Frame /\ new.digest = frames[k].digest
  BY <1>4 DEF Frame
<1>6. frames' = [SubSeq(frames, 1, k) EXCEPT ![k] = new]
  <2>1. frames' = [SubSeq(frames, 1, k) EXCEPT ![k].dependencies = @ + 1]
    BY <1>3 DEF Leave
  <2>2. SubSeq(frames, 1, k)[k] = frames[k]
    BY <1>1, <1>2
  <2> QED BY <2>1, <2>2
<1> HIDE DEF new
<1>7. /\ frames' \in Seq(Frame) /\ Len(frames') = k /\ DOMAIN frames' = 1..k
      /\ \A n \in 1..k : n # k => frames'[n] = frames[n]
      /\ frames'[k] = new
  <2> DEFINE s == SubSeq(frames, 1, k)
  <2>1. s \in Seq(Frame) /\ Len(s) = k /\ \A n \in 1..k : s[n] = frames[n]
    BY <1>1, <1>2, SequenceShortened
  <2>2. frames' = [s EXCEPT ![k] = new]
    BY <1>6
  <2> HIDE DEF s
  <2>3. k \in 1 .. Len(s)
    BY <1>2, <2>1
  <2>4. /\ frames' \in Seq(Frame) /\ Len(frames') = Len(s) /\ DOMAIN frames' = 1 .. Len(s)
        /\ \A n \in 1 .. Len(s) : n # k => frames'[n] = s[n]
        /\ frames'[k] = new
    BY <1>5, <2>1, <2>2, <2>3, SequenceChanged
  <2>5. Len(frames') = k /\ DOMAIN frames' = 1..k
    BY <2>1, <2>4, Zenon
  <2>6. \A n \in 1..k : n # k => frames'[n] = frames[n]
    BY <2>1, <2>4, Zenon
  <2> QED BY <2>4, <2>5, <2>6, Zenon
<1>8. \A n \in 1..k : frames[n] \in Frame /\ frames'[n].digest = frames[n].digest
  <2>1. \A n \in 1..k : n \in 1 .. Len(frames)
    BY <1>2
  <2> QED BY <1>1, <1>5, <1>7, <2>1
<1>9. Linked(pinned, frames[k], Top)
  BY <1>2, <1>3 DEF WalkInv, FramesInv, Top
<1> QED BY <1>2, <1>3, <1>7, <1>8, <1>9 DEF new

\* A manifest all of whose modules and pins are passed is resolved.
LEMMA LeaveKeeps ==
  ASSUME WalkInv, Leave
  PROVE  WalkInv'
<1> DEFINE N == Len(frames)
<1>1. /\ N > 0 /\ packages' = packages \union {Top.digest}
      /\ UNCHANGED <<pinned, coordinates, sources>>
      /\ Top.modules = Len(Mods(pinned, Top.digest))
      /\ Top.dependencies = Len(Deps(pinned, Top.digest))
  BY DEF Leave, WalkInv, OutcomeInv, surroundings, Mods, Deps, ManifestOf
<1>2. /\ N \in Nat /\ Top = frames[N] /\ Top.digest \in Manifests
      /\ FrameOK(pinned, packages, sources, Top) /\ Top.digest \in Visiting
      /\ Mods(pinned, Top.digest) \in Seq([module : Int, path : Int, source : Sources])
      /\ Deps(pinned, Top.digest) \in Seq([alias : Int, digest : Manifests])
  BY <1>1, TopFrame
<1>3. /\ ValidManifest(pinned.manifests[Top.digest])
      /\ \A k \in DOMAIN Mods(pinned, Top.digest) :
           Checked(pinned, sources, Mods(pinned, Top.digest)[k])
      /\ \A k \in DOMAIN Deps(pinned, Top.digest) :
           Deps(pinned, Top.digest)[k].digest \in packages
  <2>1. /\ DOMAIN Mods(pinned, Top.digest) = 1 .. Top.modules
        /\ DOMAIN Deps(pinned, Top.digest) = 1 .. Top.dependencies
    BY <1>1, <1>2
  <2> QED BY <1>2, <2>1 DEF FrameOK
<1>4. PinsOf(Top.digest) \subseteq packages
  BY <1>3 DEF PinsOf, ManifestOf, Deps
<1>5. /\ Visiting' \subseteq Visiting /\ Visiting \subseteq Visiting' \union {Top.digest}
      /\ Top.digest = Root \/ \E e \in Visiting' : Top.digest \in PinsOf(e)
      /\ FramesInv' /\ OutcomeInv'
  <2>1. Visiting = {frames[n].digest : n \in 1..N}
    BY DEF Visiting, WalkInv, FramesInv
  <2>2. CASE N = 1
    <3>1. frames' = <<>> /\ outcome' = "resolved" /\ Visiting' = {} /\ Visiting = {Top.digest}
      BY <1>2, <2>1, <2>2 DEF Leave, Visiting
    <3>2. Top.digest = Root
      BY <1>2, <2>2 DEF WalkInv, FramesInv
    <3>3. FramesInv'
      BY <3>1 DEF FramesInv
    <3>4. OutcomeInv'
      BY <1>1, <3>1, <3>2 DEF OutcomeInv
    <3> QED BY <3>1, <3>2, <3>3, <3>4
  <2>3. CASE N > 1
    <3>1. PICK k : k = N - 1
      OBVIOUS
    <3>2. /\ k \in Nat /\ k > 0 /\ N = k + 1 /\ k \in 1..k
          /\ frames' \in Seq(Frame) /\ Len(frames') = k /\ DOMAIN frames' = 1..k
          /\ \A n \in 1..k : n # k => frames'[n] = frames[n]
          /\ \A n \in 1..k : frames'[n].digest = frames[n].digest /\ frames[n] \in Frame
          /\ frames'[k] = [frames[k] EXCEPT !["dependencies"] = @ + 1]
          /\ Linked(pinned, frames[k], Top)
      <4>1. k \in Nat /\ k > 0 /\ N = k + 1 /\ k \in 1..k
        BY <1>2, <2>3, <3>1
      <4> QED BY <2>3, <3>1, <4>1, LowerFrames
    <3>3. 1..N = (1..k) \union {N} /\ 1..k \subseteq 1..N
      BY <3>2
    <3>4. /\ \A n \in 1..N : FrameOK(pinned, packages, sources, frames[n])
          /\ \A n \in 1 .. N - 1 : Linked(pinned, frames[n], frames[n + 1])
          /\ frames[1].digest = Root
      BY <1>1 DEF WalkInv, FramesInv
    <3>5. outcome' = "running"
      <4>1. Len(frames) # 1
        BY <1>2, <2>3
      <4> QED BY <4>1, Zenon DEF Leave
    <3> HIDE DEF N
    <3>6. Visiting' = {frames'[n].digest : n \in 1..k}
      BY <3>2 DEF Visiting
    <3>7. Visiting' = {frames[n].digest : n \in 1..k}
      BY <3>2, <3>6
    <3>8. Visiting = {frames[n].digest : n \in 1..k} \union {Top.digest}
      BY <1>2, <2>1, <3>3
    <3>9. \E e \in Visiting' : Top.digest \in PinsOf(e)
      <4>1. frames[k].dependencies + 1 \in DOMAIN Deps(pinned, frames[k].digest)
        <5>1. frames[k].digest \in Manifests /\ frames[k].dependencies \in Nat
          BY <3>2 DEF Frame
        <5>2. Deps(pinned, frames[k].digest) \in Seq([alias : Int, digest : Manifests])
          BY <5>1 DEF WalkInv, PinnedInv
        <5>3. frames[k].dependencies < Len(Deps(pinned, frames[k].digest))
          BY <3>2 DEF Linked
        <5> QED BY <5>1, <5>2, <5>3
      <4>2. Top.digest \in PinsOf(frames[k].digest)
        BY <3>2, <4>1 DEF Linked, PinsOf, Deps, ManifestOf
      <4> QED BY <3>2, <3>7, <4>2
    <3>10. FrameOK(pinned, packages', sources, frames'[k])
      <4>1. FrameOK(pinned, packages', sources, frames[k])
        BY <1>1, <3>2, <3>3, <3>4, FrameGrows
      <4>2. frames[k] \in Frame /\ frames[k].digest \in Manifests
        BY <3>2 DEF Frame
      <4>3. Deps(pinned, frames[k].digest) \in Seq([alias : Int, digest : Manifests])
        BY <4>2 DEF WalkInv, PinnedInv
      <4>4. Len(Deps(pinned, frames[k].digest)) \in Nat
        BY <4>3
      <4>5. /\ frames[k].dependencies < Len(Deps(pinned, frames[k].digest))
            /\ Deps(pinned, frames[k].digest)[frames[k].dependencies + 1].digest \in packages'
        BY <1>1, <3>2 DEF Linked
      <4>6. FrameOK(pinned, packages', sources, [frames[k] EXCEPT !["dependencies"] = @ + 1])
        BY <4>1, <4>2, <4>4, <4>5, PassedPin
      <4> QED BY <3>2, <4>6
    <3>11. \A n \in 1..k : FrameOK(pinned, packages', sources, frames'[n])
      <4>1. ASSUME NEW n \in 1..k PROVE FrameOK(pinned, packages', sources, frames'[n])
        <5>1. CASE n = k
          BY <3>10, <5>1
        <5>2. CASE n # k
          <6>1. FrameOK(pinned, packages, sources, frames[n])
            BY <3>3, <3>4
          <6>2. FrameOK(pinned, packages', sources, frames[n])
            BY <1>1, <6>1, FrameGrows
          <6> QED BY <3>2, <5>2, <6>2
        <5> QED BY <5>1, <5>2
      <4> QED BY <4>1
    <3>12. ASSUME NEW n \in 1 .. k - 1 PROVE Linked(pinned, frames'[n], frames'[n + 1])
      <4>1. n \in 1..k /\ n # k /\ n + 1 \in 1..k /\ n \in 1 .. N - 1
        BY <3>2, <3>12
      <4> QED BY <3>2, <3>4, <4>1 DEF Linked
    <3>13. FramesInv'
      <4>1. frames'[1].digest = Root
        BY <3>2, <3>4
      <4> QED BY <1>1, <3>2, <3>11, <3>12, <4>1 DEF FramesInv
    <3>14. OutcomeInv'
      BY <3>2, <3>5 DEF OutcomeInv
    <3>15. Visiting' \subseteq Visiting /\ Visiting \subseteq Visiting' \union {Top.digest}
      BY <3>7, <3>8
    <3> QED BY <3>9, <3>13, <3>14, <3>15, Zenon
  <2>4. N = 1 \/ N > 1
    BY <1>1, <1>2, OneOrMore, Zenon
  <2> QED BY <2>2, <2>3, <2>4, Zenon
<1> HIDE DEF N
<1>6. PinnedInv'
  BY <1>1 DEF WalkInv, PinnedInv
<1>7. packages' \union Visiting' = packages \union Visiting
  BY <1>1, <1>2, <1>5
<1>8. PackagesInv'
  <2>1. packages' \subseteq Manifests
    BY <1>1, <1>2 DEF WalkInv, PackagesInv
  <2>2. ASSUME NEW d \in packages'
        PROVE  /\ ValidManifest(pinned.manifests[d])
               /\ PinsOf(d) \subseteq packages'
               /\ \A n \in DOMAIN Mods(pinned, d) : Checked(pinned, sources, Mods(pinned, d)[n])
               /\ d = Root \/ \E e \in packages' \union Visiting' : d \in PinsOf(e)
    <3>1. CASE d \in packages
      BY <1>1, <1>7, <3>1 DEF WalkInv, PackagesInv
    <3>2. CASE d = Top.digest
      BY <1>1, <1>3, <1>4, <1>5, <3>2
    <3> QED BY <1>1, <3>1, <3>2
  <2>3. \A d : PinsOf(d)' = PinsOf(d)
    BY <1>1 DEF PinsOf, ManifestOf
  <2> QED BY <1>1, <2>1, <2>2, <2>3 DEF PackagesInv
<1>9. SourcesInv'
  BY <1>1, <1>7 DEF WalkInv, SourcesInv, SourcesOf, ManifestOf
<1>10. NamesInv'
  BY <1>1, <1>7 DEF WalkInv, NamesInv
<1> QED BY <1>5, <1>6, <1>8, <1>9, <1>10 DEF WalkInv

-----------------------------------------------------------------------------
LEMMA WalkInvStep == WalkInv /\ [Next]_vars => WalkInv'
<1> SUFFICES ASSUME WalkInv, [Next]_vars PROVE WalkInv'
  OBVIOUS
<1>1. CASE Start
  <2>1. /\ frames = <<>> /\ Len(frames) = 0 /\ Root \in Manifests
        /\ UNCHANGED surroundings
    BY <1>1, RootAssumption DEF Start, WalkInv, OutcomeInv
  <2>2. CASE Refuse("unsafe store path") \/ Refuse("invalid manifest")
    BY <2>1, <2>2, RefuseKeeps
  <2>3. CASE ValidManifest(ManifestOf(Root)) /\ Enter(Root)
    BY <2>1, <2>3, EnterKeeps
  <2> QED BY <1>1, <2>2, <2>3 DEF Start
<1>2. CASE VerifySource
  BY <1>2, VerifySourceKeeps
<1>3. CASE FollowPin
  BY <1>3, FollowPinKeeps
<1>4. CASE Leave
  BY <1>4, LeaveKeeps
<1>5. CASE Disturb \/ UNCHANGED vars
  <2>1. UNCHANGED <<pinned, resolver, outcome>>
    BY <1>5 DEF Disturb, vars, surroundings
  <2>2. OutcomeInv'
    BY <2>1 DEF WalkInv, OutcomeInv, resolver
  <2> QED BY <2>1, <2>2, StandingStill DEF WalkInv
<1> QED BY <1>1, <1>2, <1>3, <1>4, <1>5 DEF Next

\* A walk that ends well has visited what the root pins, directly or through
\* others, and nothing else, and has verified each manifest and source of it,
\* although the store may change between any two reads (resolve_package).
THEOREM ClosureTheorem == Spec => []ReceiptIsTheClosure
BY WalkInvInit, WalkInvStep, WalkInvSuffices, PTL DEF Spec

-----------------------------------------------------------------------------
\* The depths are the solution of their recursive equation, up to any number.
Depths(k, g) ==
  g = [n \in 0..k |-> IF n = 0 THEN {Root} ELSE UNION {PinsOf(d) : d \in g[n - 1]}]

LEMMA DepthsExist ==
  ASSUME NEW k \in Nat
  PROVE  \E g : Depths(k, g)
<1> DEFINE T == {n \in Nat : ~\E g : Depths(n, g)}
<1>1. ASSUME T # {} PROVE FALSE
  <2>1. PICK n \in T : \A m \in T : n <= m
    <3> HIDE DEF T
    <3>1. T \subseteq Nat
      BY DEF T
    <3> QED BY <1>1, <3>1, LeastNumber
  <2>2. n \in Nat /\ ~\E g : Depths(n, g)
    OBVIOUS
  <2>3. CASE n = 0
    <3> DEFINE h == [m \in 0..0 |-> {Root}]
    <3>1. Depths(0, h)
      BY DEF Depths
    <3> QED BY <2>2, <2>3, <3>1
  <2>4. CASE n > 0
    <3>1. n - 1 \in Nat /\ ~(n <= n - 1)
      BY <2>2, <2>4
    <3>2. PICK g : Depths(n - 1, g)
      BY <2>1, <3>1
    <3> HIDE DEF T
    <3> DEFINE h == [m \in 0..n |-> IF m = n THEN UNION {PinsOf(d) : d \in g[n - 1]} ELSE g[m]]
    <3>3. ASSUME NEW m \in 0..n
          PROVE  h[m] = IF m = 0 THEN {Root} ELSE UNION {PinsOf(d) : d \in h[m - 1]}
      <4>1. CASE m = n
        <5>1. m - 1 \in 0..n /\ m - 1 # n
          BY <2>2, <2>4, <4>1
        <5> QED BY <2>4, <4>1, <5>1
      <4>2. CASE m # n
        <5>1. m \in 0 .. n - 1
          BY <2>2, <4>2
        <5>2. g[m] = IF m = 0 THEN {Root} ELSE UNION {PinsOf(d) : d \in g[m - 1]}
          BY <3>2, <5>1 DEF Depths
        <5>3. m # 0 => m - 1 \in 0..n /\ m - 1 # n
          BY <2>2, <5>1
        <5> QED BY <4>2, <5>2, <5>3
      <4> QED BY <4>1, <4>2
    <3>4. h = [m \in 0..n |-> h[m]]
      OBVIOUS
    <3>5. Depths(n, h)
      <4> HIDE DEF h
      <4> QED BY <3>3, <3>4 DEF Depths
    <3> QED BY <2>2, <3>5
  <2> QED BY <2>2, <2>3, <2>4
<1> QED BY <1>1

LEMMA DepthsUnfold ==
  /\ AtDepth[0] = {Root}
  /\ \A n \in 0 .. MaxDependencyDepth :
       AtDepth[n + 1] = UNION {PinsOf(d) : d \in AtDepth[n]}
<1> DEFINE K == MaxDependencyDepth + 1
<1>1. MaxDependencyDepth \in Nat /\ K \in Nat
  BY LimitAssumption
<1>2. AtDepth = CHOOSE g : Depths(K, g)
  BY DEF AtDepth, Depths
<1>3. Depths(K, AtDepth)
  <2> HIDE DEF K
  <2> QED BY <1>1, <1>2, DepthsExist
<1>4. ASSUME NEW n \in 0..K
      PROVE  AtDepth[n] = IF n = 0 THEN {Root} ELSE UNION {PinsOf(d) : d \in AtDepth[n - 1]}
  <2> HIDE DEF K
  <2> QED BY <1>3 DEF Depths
<1>5. AtDepth[0] = {Root}
  <2>1. 0 \in 0..K
    BY <1>1
  <2> HIDE DEF K
  <2> QED BY <1>4, <2>1
<1>6. ASSUME NEW n \in 0 .. MaxDependencyDepth
      PROVE  AtDepth[n + 1] = UNION {PinsOf(d) : d \in AtDepth[n]}
  <2>1. n + 1 \in 0..K /\ n + 1 # 0 /\ (n + 1) - 1 = n
    BY <1>1
  <2> HIDE DEF K
  <2> QED BY <1>4, <2>1
<1> QED BY <1>5, <1>6

\* They do not depend on the store.
LEMMA DepthsStand ==
  ASSUME pinned' = pinned
  PROVE  AtDepth' = AtDepth /\ Reached' = Reached
<1>1. AtDepth' = AtDepth
  BY DEF AtDepth, PinsOf, ManifestOf
<1> QED BY <1>1 DEF Reached

\* What a manifest pins is a manifest, and so is what is reached.
LEMMA PinsAreManifests ==
  ASSUME PinnedInv, NEW d \in Manifests
  PROVE  PinsOf(d) \subseteq Manifests
<1>1. Deps(pinned, d) \in Seq([alias : Int, digest : Manifests])
  BY DEF PinnedInv
<1> DEFINE R == [alias : Int, digest : Manifests]
<1>2. ASSUME NEW n \in DOMAIN Deps(pinned, d) PROVE Deps(pinned, d)[n] \in R
  <2> HIDE DEF R
  <2>1. Deps(pinned, d) \in Seq(R)
    BY <1>1 DEF R
  <2> QED BY <2>1
<1> QED BY <1>2 DEF PinsOf, ManifestOf, Deps

LEMMA ReachedIsFinite ==
  ASSUME PinnedInv
  PROVE  /\ Reached \subseteq Manifests /\ IsFiniteSet(Reached)
         /\ \A n \in 0 .. MaxDependencyDepth + 1 : AtDepth[n] \subseteq Reached
<1> DEFINE K == MaxDependencyDepth + 1
           T == {n \in 0..K : ~(AtDepth[n] \subseteq Manifests)}
<1>1. MaxDependencyDepth \in Nat
  BY LimitAssumption
<1>2. ASSUME T # {} PROVE FALSE
  <2>1. PICK n \in T : \A m \in T : n <= m
    <3>1. T \subseteq Nat
      BY <1>1
    <3> HIDE DEF T
    <3> QED BY <1>2, <3>1, LeastNumber
  <2>2. n \in 0..K /\ ~(AtDepth[n] \subseteq Manifests)
    OBVIOUS
  <2>3. n # 0
    BY <2>2, DepthsUnfold, RootAssumption
  <2>4. n - 1 \in 0 .. MaxDependencyDepth /\ n - 1 \in 0..K /\ ~(n <= n - 1) /\ (n - 1) + 1 = n
    BY <1>1, <2>2, <2>3
  <2>5. AtDepth[n - 1] \subseteq Manifests
    BY <2>1, <2>4
  <2> HIDE DEF T, K
  <2>6. AtDepth[(n - 1) + 1] = UNION {PinsOf(d) : d \in AtDepth[n - 1]}
    BY <2>4, DepthsUnfold
  <2>7. AtDepth[n] = UNION {PinsOf(d) : d \in AtDepth[n - 1]}
    BY <2>4, <2>6
  <2> QED BY <2>2, <2>5, <2>7, PinsAreManifests
<1>3. \A n \in 0..K : AtDepth[n] \subseteq Manifests
  BY <1>2
<1>4. Reached \subseteq Manifests
  BY <1>3 DEF Reached
<1>5. IsFiniteSet(Manifests)
  BY DigestAssumption
<1>6. IsFiniteSet(Reached)
  BY <1>4, <1>5, FS_Subset
<1> QED BY <1>4, <1>6 DEF Reached

-----------------------------------------------------------------------------
\* How leaving moves the frames.
LEMMA LeaveMoves ==
  ASSUME WalkInv, Leave
  PROVE  /\ Len(frames) \in Nat /\ Len(frames) > 0 /\ Len(frames') = Len(frames) - 1
         /\ \A n \in 1 .. Len(frames) - 1 : frames'[n].digest = frames[n].digest
         /\ Visiting' = {frames[n].digest : n \in 1 .. Len(frames) - 1}
         /\ Visiting = Visiting' \union {Top.digest}
<1> DEFINE N == Len(frames)
<1>1. N > 0
  BY DEF Leave, WalkInv, OutcomeInv
<1>2. frames \in Seq(Frame) /\ N \in Nat /\ DOMAIN frames = 1..N
  BY DEF WalkInv, FramesInv
<1>3. /\ Len(frames') = N - 1 /\ DOMAIN frames' = 1 .. N - 1
      /\ \A n \in 1 .. N - 1 : frames'[n].digest = frames[n].digest
  <2>1. CASE N = 1
    <3>1. frames' = <<>>
      BY <2>1 DEF Leave
    <3> QED BY <2>1, <3>1
  <2>2. CASE N > 1
    BY <2>2, LowerFrames
  <2>3. N = 1 \/ N > 1
    BY <1>1, <1>2, OneOrMore, Zenon
  <2> QED BY <2>1, <2>2, <2>3, Zenon
<1>4. 1..N = (1 .. N - 1) \union {N}
  BY <1>1, <1>2
<1> HIDE DEF N
<1>5. /\ Visiting = {frames[n].digest : n \in 1..N}
      /\ Visiting' = {frames'[n].digest : n \in 1 .. N - 1}
  BY <1>2, <1>3 DEF Visiting
<1>6. Visiting' = {frames[n].digest : n \in 1 .. N - 1}
  BY <1>3, <1>5
<1>7. Top = frames[N]
  BY DEF Top, N
<1>8. Visiting = Visiting' \union {Top.digest}
  BY <1>4, <1>5, <1>6, <1>7
<1> QED BY <1>1, <1>2, <1>3, <1>6, <1>8 DEF N

\* The pin that is followed next is a manifest that the top pins.
LEMMA NextPin ==
  ASSUME WalkInv, Len(frames) > 0, Top.dependencies < Len(Deps(pinned, Top.digest))
  PROVE  /\ Deps(pinned, Top.digest)[Top.dependencies + 1].digest \in Manifests
         /\ Deps(pinned, Top.digest)[Top.dependencies + 1].digest \in PinsOf(Top.digest)
<1>1. /\ Top.digest \in Manifests /\ Top.dependencies \in Nat
      /\ Deps(pinned, Top.digest) \in Seq([alias : Int, digest : Manifests])
  BY TopFrame
<1>2. Top.dependencies + 1 \in DOMAIN Deps(pinned, Top.digest)
  BY <1>1
<1>3. Deps(pinned, Top.digest)[Top.dependencies + 1].digest \in PinsOf(Top.digest)
  BY <1>2 DEF PinsOf, ManifestOf, Deps
<1> QED BY <1>1, <1>3, PinsAreManifests DEF WalkInv

\* The module that is verified next is one of the top.
LEMMA NextModule ==
  ASSUME WalkInv, Len(frames) > 0, Top.modules < Len(Mods(pinned, Top.digest))
  PROVE  /\ Top.modules + 1 \in DOMAIN Mods(pinned, Top.digest)
         /\ Mods(pinned, Top.digest)[Top.modules + 1].source \in SourcesOf(Top.digest)
         /\ Mods(pinned, Top.digest)[Top.modules + 1].source \in Sources
<1>1. /\ Top.digest \in Manifests /\ Top.modules \in Nat
      /\ Mods(pinned, Top.digest) \in Seq([module : Int, path : Int, source : Sources])
  BY TopFrame
<1>2. Top.modules + 1 \in DOMAIN Mods(pinned, Top.digest)
  BY <1>1
<1>3. Mods(pinned, Top.digest)[Top.modules + 1].source \in SourcesOf(Top.digest)
  BY <1>2 DEF SourcesOf, ManifestOf, Mods
<1> DEFINE R == [module : Int, path : Int, source : Sources]
<1>4. Mods(pinned, Top.digest)[Top.modules + 1] \in R
  <2> HIDE DEF R
  <2>1. Mods(pinned, Top.digest) \in Seq(R)
    BY <1>1 DEF R
  <2> QED BY <1>1, <2>1, NextElement
<1> QED BY <1>2, <1>3, <1>4

-----------------------------------------------------------------------------
\* The totals count what was entered and what was verified, each once.
TotalsInv ==
  /\ \A s \in Sources : pinned.sources[s].size \in Nat
  /\ sources \subseteq Sources
  /\ moduleCount = SumFunctionOnSet(ModuleCounts, packages \union Visiting)
  /\ totalBytes = SumFunctionOnSet(SourceSizes, sources)

\* No manifest is visited twice; the frame with n frames below it is reached over n
\* pins; what is left is reached; only what was entered claims a name.
PathInv ==
  /\ Len(frames) <= MaxDependencyDepth + 1
  /\ \A i, j \in 1 .. Len(frames) : frames[i].digest = frames[j].digest => i = j
  /\ Cardinality(Visiting) = Len(frames)
  /\ packages \intersect Visiting = {}
  /\ packages \subseteq Reached
  /\ \A n \in 1 .. Len(frames) : frames[n].digest \in AtDepth[n - 1]
  /\ \A c \in coordinates :
       c[2] \in packages \union Visiting /\ c[1] = ManifestOf(c[2]).coordinate

LEMMA CountTypes ==
  ASSUME PinnedInv, \A s \in Sources : pinned.sources[s].size \in Nat
  PROVE  ModuleCounts \in [Manifests -> Nat] /\ SourceSizes \in [Sources -> Nat]
<1>1. \A d \in Manifests : Len(ManifestOf(d).modules) \in Nat
  BY DEF PinnedInv, Mods, ManifestOf
<1> QED BY <1>1 DEF ModuleCounts, SourceSizes

LEMMA CountsStand ==
  ASSUME pinned' = pinned
  PROVE  ModuleCounts' = ModuleCounts /\ SourceSizes' = SourceSizes
BY DEF ModuleCounts, SourceSizes, ManifestOf

\* What is visited is a finite set of manifests.
LEMMA VisitingIsFinite ==
  ASSUME WalkInv
  PROVE  /\ Visiting \subseteq Manifests /\ IsFiniteSet(Visiting)
         /\ packages \union Visiting \subseteq Manifests
         /\ IsFiniteSet(packages \union Visiting)
<1>1. \A n \in DOMAIN frames : frames[n] \in Frame
  BY DEF WalkInv, FramesInv
<1>2. Visiting \subseteq Manifests
  BY <1>1 DEF Visiting, Frame
<1>3. packages \union Visiting \subseteq Manifests
  BY <1>2 DEF WalkInv, PackagesInv
<1>4. IsFiniteSet(Manifests)
  BY DigestAssumption
<1> QED BY <1>2, <1>3, <1>4, FS_Subset

LEMMA VisitingIsReached ==
  ASSUME WalkInv, PathInv
  PROVE  packages \union Visiting \subseteq Reached
<1>1. /\ frames \in Seq(Frame) /\ DOMAIN frames = 1 .. Len(frames) /\ Len(frames) \in Nat
      /\ MaxDependencyDepth \in Nat
  BY LimitAssumption DEF WalkInv, FramesInv
<1>2. ASSUME NEW n \in 1 .. Len(frames) PROVE frames[n].digest \in Reached
  <2>1. n - 1 \in 0 .. MaxDependencyDepth + 1
    BY <1>1 DEF PathInv
  <2>2. frames[n].digest \in AtDepth[n - 1]
    BY DEF PathInv
  <2> QED BY <2>1, <2>2, ReachedIsFinite DEF WalkInv
<1>3. Visiting \subseteq Reached
  BY <1>1, <1>2 DEF Visiting
<1> QED BY <1>3 DEF PathInv

-----------------------------------------------------------------------------
LEMMA TotalsInit == Init => TotalsInv /\ PathInv
<1> SUFFICES ASSUME Init PROVE TotalsInv /\ PathInv
  OBVIOUS
<1>1. /\ frames = <<>> /\ packages = {} /\ sources = {} /\ coordinates = {}
      /\ moduleCount = 0 /\ totalBytes = 0 /\ Visiting = {} /\ Len(frames) = 0
  BY DEF Init, Visiting
<1>2. IsFiniteSet({}) /\ Cardinality({}) = 0
  BY FS_EmptySet
<1>3. SumFunctionOnSet(ModuleCounts, {}) = 0 /\ SumFunctionOnSet(SourceSizes, {}) = 0
  BY <1>2, SumUnfolds
<1>4. \A s \in Sources : pinned.sources[s].size \in Nat
  BY PinnedAssumption DEF Init
<1>5. TotalsInv
  BY <1>1, <1>3, <1>4 DEF TotalsInv
<1>6. PathInv
  BY <1>1, <1>2, LimitAssumption DEF PathInv
<1> QED BY <1>5, <1>6

LEMMA TotalsStand ==
  ASSUME TotalsInv, PathInv, UNCHANGED <<pinned, resolver>>
  PROVE  TotalsInv' /\ PathInv'
<1>1. Visiting' = Visiting /\ UNCHANGED resolver
  BY DEF Visiting, resolver
<1>2. TotalsInv'
  BY <1>1, CountsStand DEF TotalsInv, resolver
<1>3. PathInv'
  BY <1>1, DepthsStand DEF PathInv, resolver, ManifestOf
<1> QED BY <1>2, <1>3

\* A manifest that is entered was neither visited nor resolved.
LEMMA EnterKeepsTotals ==
  ASSUME WalkInv, TotalsInv, PathInv, NEW d \in Manifests, d \notin packages,
         Len(frames) = 0 => d = Root,
         Len(frames) > 0 => d \in PinsOf(Top.digest),
         Enter(d), UNCHANGED surroundings
  PROVE  TotalsInv' /\ PathInv'
<1>1. CASE EntryFault(d) # "none"
  BY <1>1, TotalsStand DEF Enter, Refuse, surroundings
<1>2. CASE EntryFault(d) = "none"
  <2> DEFINE N == Len(frames)
  <2>1. /\ coordinates' = coordinates \union {<<ManifestOf(d).coordinate, d>>}
        /\ moduleCount' = moduleCount + Len(ManifestOf(d).modules)
        /\ UNCHANGED <<pinned, packages, sources, totalBytes>>
    BY <1>2 DEF Enter, surroundings
  <2>2. d \notin Visiting /\ ~(N > MaxDependencyDepth)
    BY <1>2 DEF EntryFault
  <2>3. /\ N \in Nat /\ Len(frames') = N + 1
        /\ \A n \in 1..N : frames'[n] = frames[n]
        /\ frames'[N + 1].digest = d
        /\ Visiting' = Visiting \union {d}
    BY <1>2, EnterMoves
  <2>4. MaxDependencyDepth \in Nat /\ N \in 0 .. MaxDependencyDepth
    BY <2>2, <2>3, LimitAssumption
  <2>5. /\ Visiting = {frames[n].digest : n \in 1..N}
        /\ N > 0 => Top = frames[N]
    BY DEF Visiting, WalkInv, FramesInv, Top
  <2>6. TotalsInv'
    <3> DEFINE P == packages \union Visiting
    <3>1. P \subseteq Manifests /\ IsFiniteSet(P) /\ d \notin P
      BY <2>2, VisitingIsFinite
    <3>2. packages' \union Visiting' = P \union {d}
      BY <2>1, <2>3
    <3>3. ModuleCounts \in [Manifests -> Nat]
      BY CountTypes DEF WalkInv, TotalsInv
    <3> HIDE DEF P
    <3>4. SumFunctionOnSet(ModuleCounts, P \union {d}) = SumFunctionOnSet(ModuleCounts, P) + ModuleCounts[d]
      BY <3>1, <3>3, SumAdd
    <3>5. ModuleCounts[d] = Len(ManifestOf(d).modules)
      BY DEF ModuleCounts
    <3>6. moduleCount' = SumFunctionOnSet(ModuleCounts', packages' \union Visiting')
      BY <2>1, <3>2, <3>4, <3>5, CountsStand DEF TotalsInv, P
    <3> QED BY <2>1, <3>6, CountsStand DEF TotalsInv
  <2> HIDE DEF N
  <2>7. \A n \in 1 .. N + 1 : n \in 1..N \/ n = N + 1
    BY <2>3
  <2>8. \A i, j \in 1 .. N + 1 : frames'[i].digest = frames'[j].digest => i = j
    <3>1. \A i \in 1..N : frames'[i].digest = frames[i].digest /\ frames[i].digest # d
      BY <2>2, <2>3, <2>5
    <3>2. \A i, j \in 1..N : frames[i].digest = frames[j].digest => i = j
      BY DEF PathInv, N
    <3> QED BY <2>3, <2>7, <3>1, <3>2
  <2>9. Cardinality(Visiting') = N + 1
    <3>1. IsFiniteSet(Visiting) /\ Cardinality(Visiting) = N
      BY VisitingIsFinite DEF PathInv, N
    <3> QED BY <2>2, <2>3, <3>1, FS_AddElement
  <2>10. \A n \in 1 .. N + 1 : frames'[n].digest \in AtDepth[n - 1]
    <3>1. d \in AtDepth[N]
      <4>1. CASE N = 0
        BY <4>1, DepthsUnfold DEF N
      <4>2. CASE N > 0
        <5>1. N \in 1..N /\ N - 1 \in 0 .. MaxDependencyDepth /\ (N - 1) + 1 = N
          BY <2>3, <2>4, <4>2
        <5>2. Top.digest \in AtDepth[N - 1]
          BY <2>5, <4>2, <5>1 DEF PathInv, N
        <5>3. AtDepth[(N - 1) + 1] = UNION {PinsOf(e) : e \in AtDepth[N - 1]}
          BY <5>1, DepthsUnfold
        <5>4. d \in PinsOf(Top.digest)
          BY <4>2 DEF N
        <5> QED BY <5>1, <5>2, <5>3, <5>4
      <4> QED BY <2>3, <4>1, <4>2
    <3>2. \A n \in 1..N : frames'[n].digest \in AtDepth[n - 1]
      BY <2>3 DEF PathInv, N
    <3>3. (N + 1) - 1 = N
      BY <2>3
    <3> QED BY <2>3, <2>7, <3>1, <3>2, <3>3
  <2>11. Len(frames') <= MaxDependencyDepth + 1
    BY <2>3, <2>4
  <2>12. packages' \intersect Visiting' = {} /\ packages' \subseteq Reached
    BY <2>1, <2>3 DEF PathInv
  <2>13. \A c \in coordinates' :
           c[2] \in packages' \union Visiting' /\ c[1] = ManifestOf(c[2]).coordinate
    BY <2>1, <2>3 DEF PathInv
  <2>14. AtDepth' = AtDepth /\ Reached' = Reached /\ \A e : ManifestOf(e)' = ManifestOf(e)
    BY <2>1, DepthsStand DEF ManifestOf
  <2>15. PathInv'
    BY <2>3, <2>8, <2>9, <2>10, <2>11, <2>12, <2>13, <2>14 DEF PathInv
  <2> QED BY <2>6, <2>15
<1> QED BY <1>1, <1>2

\* Getting further leaves the path as it is.
LEMMA AdvanceKeepsPath ==
  ASSUME WalkInv, PathInv, Len(frames) > 0, NEW field \in {"modules", "dependencies"},
         frames' = Advance(field), UNCHANGED <<pinned, packages, coordinates>>
  PROVE  PathInv' /\ Visiting' = Visiting
<1>1. /\ Len(frames') = Len(frames) /\ Visiting' = Visiting
      /\ \A n \in 1 .. Len(frames) : frames'[n].digest = frames[n].digest
  BY AdvanceMoves
<1>2. AtDepth' = AtDepth /\ Reached' = Reached /\ \A e : ManifestOf(e)' = ManifestOf(e)
  BY DepthsStand DEF ManifestOf
<1>3. \A n \in 1 .. Len(frames) : frames'[n].digest \in AtDepth[n - 1]
  BY <1>1 DEF PathInv
<1>4. \A i, j \in 1 .. Len(frames) : frames'[i].digest = frames'[j].digest => i = j
  BY <1>1 DEF PathInv
<1> QED BY <1>1, <1>2, <1>3, <1>4 DEF PathInv

LEMMA VerifySourceKeepsTotals ==
  ASSUME WalkInv, TotalsInv, PathInv, VerifySource
  PROVE  TotalsInv' /\ PathInv'
<1> DEFINE s == Mods(pinned, Top.digest)[Top.modules + 1].source
           mod == Mods(pinned, Top.digest)[Top.modules + 1]
<1>1. /\ Len(frames) > 0 /\ Top.modules < Len(Mods(pinned, Top.digest)) /\ UNCHANGED surroundings
      /\ \/ Refuse(ModuleFault(mod))
         \/ /\ frames' = Advance("modules")
            /\ sources' = sources \union {s}
            /\ totalBytes' = IF s \in sources THEN totalBytes
                             ELSE totalBytes + pinned.sources[s].size
            /\ UNCHANGED <<packages, coordinates, moduleCount>>
  BY DEF VerifySource, WalkInv, OutcomeInv, Mods, ManifestOf
<1>2. CASE Refuse(ModuleFault(mod))
  BY <1>1, <1>2, TotalsStand DEF Refuse, surroundings
<1>3. CASE /\ frames' = Advance("modules")
           /\ sources' = sources \union {s}
           /\ totalBytes' = IF s \in sources THEN totalBytes
                            ELSE totalBytes + pinned.sources[s].size
           /\ UNCHANGED <<packages, coordinates, moduleCount>>
  <2>1. s \in Sources /\ UNCHANGED pinned
    BY <1>1, NextModule DEF surroundings
  <2> HIDE DEF s
  <2>2. PathInv' /\ Visiting' = Visiting
    BY <1>1, <1>3, <2>1, AdvanceKeepsPath
  <2>3. SourceSizes \in [Sources -> Nat] /\ SourceSizes[s] = pinned.sources[s].size
    BY <2>1, CountTypes DEF WalkInv, TotalsInv, SourceSizes
  <2>4. IsFiniteSet(sources) /\ sources \subseteq Sources
    <3>1. IsFiniteSet(Sources)
      BY DigestAssumption
    <3> QED BY <3>1, FS_Subset DEF TotalsInv
  <2>5. totalBytes' = SumFunctionOnSet(SourceSizes, sources')
    <3>1. CASE s \in sources
      <4>1. sources' = sources
        BY <1>3, <3>1
      <4> QED BY <1>3, <3>1, <4>1 DEF TotalsInv
    <3>2. CASE s \notin sources
      <4>1. SumFunctionOnSet(SourceSizes, sources \union {s})
              = SumFunctionOnSet(SourceSizes, sources) + SourceSizes[s]
        BY <2>1, <2>3, <2>4, <3>2, SumAdd
      <4> QED BY <1>3, <2>3, <3>2, <4>1 DEF TotalsInv
    <3> QED BY <3>1, <3>2
  <2>6. TotalsInv'
    BY <1>3, <2>1, <2>2, <2>4, <2>5, CountsStand DEF TotalsInv
  <2> QED BY <2>2, <2>6
<1> QED BY <1>1, <1>2, <1>3

LEMMA FollowPinKeepsTotals ==
  ASSUME WalkInv, TotalsInv, PathInv, FollowPin
  PROVE  TotalsInv' /\ PathInv'
<1> DEFINE d == Deps(pinned, Top.digest)[Top.dependencies + 1].digest
<1>1. /\ Len(frames) > 0 /\ UNCHANGED surroundings
      /\ Top.dependencies < Len(Deps(pinned, Top.digest))
      /\ \/ Refuse(PinFault(d))
         \/ d \notin packages /\ Enter(d)
         \/ /\ frames' = Advance("dependencies")
            /\ UNCHANGED <<packages, coordinates, sources, moduleCount, totalBytes>>
  BY DEF FollowPin, WalkInv, OutcomeInv, Deps, ManifestOf
<1>2. d \in Manifests /\ d \in PinsOf(Top.digest)
  BY <1>1, NextPin
<1> HIDE DEF d
<1>3. CASE Refuse(PinFault(d))
  BY <1>1, <1>3, TotalsStand DEF Refuse, surroundings
<1>4. CASE d \notin packages /\ Enter(d)
  BY <1>1, <1>2, <1>4, EnterKeepsTotals
<1>5. CASE /\ frames' = Advance("dependencies")
           /\ UNCHANGED <<packages, coordinates, sources, moduleCount, totalBytes>>
  <2>1. UNCHANGED pinned
    BY <1>1 DEF surroundings
  <2>2. PathInv' /\ Visiting' = Visiting
    BY <1>1, <1>5, <2>1, AdvanceKeepsPath
  <2>3. TotalsInv'
    BY <1>5, <2>1, <2>2, CountsStand DEF TotalsInv
  <2> QED BY <2>2, <2>3
<1> QED BY <1>1, <1>3, <1>4, <1>5

\* Leaving moves a manifest from what is visited to what is resolved.
LEMMA LeaveKeepsTotals ==
  ASSUME WalkInv, TotalsInv, PathInv, Leave
  PROVE  TotalsInv' /\ PathInv'
<1> DEFINE N == Len(frames)
<1>1. /\ packages' = packages \union {Top.digest}
      /\ UNCHANGED <<pinned, coordinates, sources, moduleCount, totalBytes>>
  BY DEF Leave, surroundings
<1>2. /\ N \in Nat /\ N > 0 /\ Len(frames') = N - 1
      /\ \A n \in 1 .. N - 1 : frames'[n].digest = frames[n].digest
      /\ Visiting' = {frames[n].digest : n \in 1 .. N - 1}
      /\ Visiting = Visiting' \union {Top.digest}
  BY LeaveMoves
<1>3. Top = frames[N] /\ MaxDependencyDepth \in Nat /\ N <= MaxDependencyDepth + 1
  BY LimitAssumption DEF Top, PathInv
<1>4. \A i, j \in 1..N : frames[i].digest = frames[j].digest => i = j
  BY DEF PathInv
<1>5. \A n \in 1 .. N - 1 : n \in 1..N /\ n # N
  BY <1>2
<1>6. N \in 1..N
  BY <1>2
<1> HIDE DEF N
<1>7. Top.digest \notin Visiting'
  BY <1>2, <1>3, <1>4, <1>5, <1>6
<1>8. packages' \union Visiting' = packages \union Visiting
  BY <1>1, <1>2
<1>9. TotalsInv'
  BY <1>1, <1>8, CountsStand DEF TotalsInv
<1>10. Cardinality(Visiting') = Len(frames')
  <2>1. IsFiniteSet(Visiting')
    BY <1>2, VisitingIsFinite, FS_Subset
  <2>2. Cardinality(Visiting) = Cardinality(Visiting') + 1
    BY <1>2, <1>7, <2>1, FS_AddElement
  <2>3. Cardinality(Visiting) = N /\ Cardinality(Visiting') \in Nat
    BY <2>1, FS_CardinalityType DEF PathInv, N
  <2> QED BY <1>2, <2>2, <2>3
<1>11. packages' \intersect Visiting' = {}
  BY <1>1, <1>2, <1>7 DEF PathInv
<1>12. packages' \subseteq Reached
  BY <1>1, <1>2, VisitingIsReached
<1>13. \A n \in 1 .. N - 1 : frames'[n].digest \in AtDepth[n - 1]
  BY <1>2, <1>5 DEF PathInv, N
<1>14. \A i, j \in 1 .. N - 1 : frames'[i].digest = frames'[j].digest => i = j
  BY <1>2, <1>4, <1>5
<1>15. Len(frames') <= MaxDependencyDepth + 1
  BY <1>2, <1>3
<1>16. \A c \in coordinates' :
         c[2] \in packages' \union Visiting' /\ c[1] = ManifestOf(c[2]).coordinate
  BY <1>1, <1>8 DEF PathInv
<1>17. AtDepth' = AtDepth /\ Reached' = Reached /\ \A e : ManifestOf(e)' = ManifestOf(e)
  BY <1>1, DepthsStand DEF ManifestOf
<1>18. PathInv'
  BY <1>2, <1>10, <1>11, <1>12, <1>13, <1>14, <1>15, <1>16, <1>17 DEF PathInv
<1> QED BY <1>9, <1>18

-----------------------------------------------------------------------------
BookInv == WalkInv /\ TotalsInv /\ PathInv

\* A pin into what is being visited closes a cycle, along which chains have any length.
LEMMA PinIntoPath ==
  ASSUME WalkInv, PathInv, Len(frames) > 0, NEW d \in PinsOf(Top.digest), d \in Visiting
  PROVE  AtDepth[MaxDependencyDepth + 1] # {}
<1> DEFINE K == MaxDependencyDepth + 1
           N == Len(frames)
           T == {n \in 0..K : AtDepth[n] \intersect Visiting = {}}
<1>1. /\ MaxDependencyDepth \in Nat /\ N \in Nat /\ N > 0 /\ frames \in Seq(Frame)
      /\ Visiting = {frames[n].digest : n \in 1..N} /\ Top = frames[N]
  BY LimitAssumption DEF WalkInv, FramesInv, Visiting, Top
<1>2. 1 \in 1..N
  BY <1>1
<1>3. ASSUME T # {} PROVE FALSE
  <2>1. PICK n \in T : \A m \in T : n <= m
    <3>1. T \subseteq Nat
      BY <1>1
    <3> HIDE DEF T
    <3> QED BY <1>3, <3>1, LeastNumber
  <2>2. n \in 0..K /\ AtDepth[n] \intersect Visiting = {}
    OBVIOUS
  <2>3. n # 0
    <3>1. frames[1].digest = Root
      BY <1>1 DEF WalkInv, FramesInv
    <3>2. Root \in Visiting
      BY <1>1, <1>2, <3>1
    <3> QED BY <2>2, <3>2, DepthsUnfold
  <2>4. n - 1 \in 0 .. MaxDependencyDepth /\ n - 1 \in 0..K /\ ~(n <= n - 1) /\ (n - 1) + 1 = n
    BY <1>1, <2>2, <2>3
  <2>5. PICK c : c \in AtDepth[n - 1] /\ c \in Visiting
    BY <2>1, <2>4
  <2> HIDE DEF T, K
  <2>6. AtDepth[(n - 1) + 1] = UNION {PinsOf(e) : e \in AtDepth[n - 1]}
    BY <2>4, DepthsUnfold
  <2>7. PinsOf(c) \subseteq AtDepth[n]
    BY <2>4, <2>5, <2>6
  <2>8. PICK j \in 1..N : c = frames[j].digest
    BY <1>1, <2>5
  <2>9. CASE j = N
    BY <1>1, <2>2, <2>7, <2>8, <2>9
  <2>10. CASE j # N
    <3>1. j \in 1 .. N - 1 /\ j + 1 \in 1..N
      BY <1>1, <2>10
    <3>2. Linked(pinned, frames[j], frames[j + 1])
      BY <3>1 DEF WalkInv, FramesInv
    <3>3. frames[j] \in Frame /\ c \in Manifests /\ frames[j].dependencies \in Nat
      <4>1. frames[j] \in Frame
        BY <1>1
      <4> QED BY <2>8, <4>1 DEF Frame
    <3>4. Deps(pinned, c) \in Seq([alias : Int, digest : Manifests])
      BY <3>3 DEF WalkInv, PinnedInv
    <3>5. frames[j].dependencies < Len(Deps(pinned, c))
      BY <2>8, <3>2 DEF Linked
    <3>6. frames[j].dependencies + 1 \in DOMAIN Deps(pinned, c)
      BY <3>3, <3>4, <3>5
    <3>7. frames[j + 1].digest \in PinsOf(c)
      BY <2>8, <3>2, <3>6 DEF Linked, PinsOf, ManifestOf, Deps
    <3>8. frames[j + 1].digest \in Visiting
      BY <1>1, <3>1
    <3> QED BY <2>2, <2>7, <3>7, <3>8
  <2> QED BY <2>9, <2>10
<1>4. K \notin T /\ K \in 0..K
  BY <1>1, <1>3
<1> QED BY <1>4

\* What comes next on the path is reached, was not entered, and is not too deep.
Fresh(d) ==
  d \in AtDepth[Len(frames)] /\ d \in Reached /\ d \notin packages \union Visiting

LEMMA PinIsFresh ==
  ASSUME BookInv, Acceptable, Len(frames) > 0, NEW d \in PinsOf(Top.digest)
  PROVE  /\ d \notin Visiting /\ d # Root /\ d # Top.digest
         /\ d \in AtDepth[Len(frames)] /\ d \in Reached
<1> DEFINE N == Len(frames)
<1>1. /\ MaxDependencyDepth \in Nat /\ N \in Nat /\ N > 0 /\ N <= MaxDependencyDepth + 1
      /\ frames \in Seq(Frame) /\ Visiting = {frames[n].digest : n \in 1..N} /\ Top = frames[N]
      /\ frames[1].digest = Root
  BY LimitAssumption DEF BookInv, WalkInv, FramesInv, PathInv, Visiting, Top
<1>2. d \notin Visiting
  BY PinIntoPath DEF BookInv, Acceptable
<1>3. 1 \in 1..N /\ N \in 1..N /\ N - 1 \in 0 .. MaxDependencyDepth /\ (N - 1) + 1 = N
      /\ N \in 0 .. MaxDependencyDepth + 1
  BY <1>1
<1>4. d # Root /\ d # Top.digest
  BY <1>1, <1>2, <1>3
<1>5. Top.digest \in AtDepth[N - 1]
  BY <1>1, <1>3 DEF BookInv, PathInv
<1> HIDE DEF N
<1>6. AtDepth[(N - 1) + 1] = UNION {PinsOf(e) : e \in AtDepth[N - 1]}
  BY <1>3, DepthsUnfold
<1>7. d \in AtDepth[N]
  BY <1>3, <1>5, <1>6
<1>8. d \in Reached
  BY <1>3, <1>7, ReachedIsFinite DEF BookInv, WalkInv
<1> QED BY <1>2, <1>4, <1>7, <1>8 DEF N

\* Such a manifest is entered.
LEMMA FreshIsEntered ==
  ASSUME BookInv, Acceptable, NEW d, Fresh(d)
  PROVE  EntryFault(d) = "none"
<1> DEFINE N == Len(frames)
           E == packages \union Visiting
<1>1. /\ N \in Nat /\ MaxDependencyDepth \in Nat /\ MaxPackages \in Nat /\ MaxModules \in Nat
      /\ N <= MaxDependencyDepth + 1
  BY LimitAssumption DEF BookInv, WalkInv, FramesInv, PathInv
<1>2. ~(N > MaxDependencyDepth)
  <2>1. AtDepth[N] # {} /\ AtDepth[MaxDependencyDepth + 1] = {}
    BY DEF Fresh, Acceptable
  <2>2. N # MaxDependencyDepth + 1
    BY <2>1
  <2> QED BY <1>1, <2>2
<1>3. /\ Reached \subseteq Manifests /\ IsFiniteSet(Reached)
      /\ E \subseteq Reached /\ d \in Reached /\ d \notin E
  BY ReachedIsFinite, VisitingIsReached DEF BookInv, WalkInv, Fresh
<1>4. E \union {d} \subseteq Reached
  BY <1>3
<1>5. IsFiniteSet(E) /\ IsFiniteSet(packages) /\ IsFiniteSet(Visiting)
  BY <1>3, FS_Subset
<1>6. ~(Cardinality(packages) + N >= MaxPackages)
  <2>1. Cardinality(E) = Cardinality(packages) + Cardinality(Visiting) - Cardinality(packages \intersect Visiting)
    BY <1>5, FS_Union
  <2>2. packages \intersect Visiting = {} /\ Cardinality({}) = 0 /\ Cardinality(Visiting) = N
    BY FS_EmptySet DEF BookInv, PathInv
  <2>3. Cardinality(packages) \in Nat
    BY <1>5, FS_CardinalityType
  <2> HIDE DEF E, N
  <2>4. Cardinality(E) = Cardinality(packages) + N
    <3>1. Cardinality(packages \intersect Visiting) = 0
      BY <2>2
    <3> QED BY <1>1, <2>1, <2>2, <2>3, <3>1
  <2>5. Cardinality(E \union {d}) = Cardinality(E) + 1
    BY <1>3, <1>5, FS_AddElement
  <2>6. Cardinality(E \union {d}) <= Cardinality(Reached) /\ Cardinality(Reached) \in Nat
    BY <1>3, <1>4, FS_Subset, FS_CardinalityType
  <2>7. Cardinality(Reached) <= MaxPackages
    BY DEF Acceptable
  <2> QED BY <1>1, <2>3, <2>4, <2>5, <2>6, <2>7
<1>7. d \notin Visiting
  BY <1>3
<1>8. ~\E c \in coordinates : c[1] = ManifestOf(d).coordinate /\ c[2] # d
  <2>1. ASSUME NEW c \in coordinates, c[1] = ManifestOf(d).coordinate PROVE c[2] = d
    <3>1. c[2] \in E /\ c[1] = ManifestOf(c[2]).coordinate
      BY DEF BookInv, PathInv
    <3>2. c[2] \in Reached
      BY <1>3, <3>1
    <3>3. \A e \in Reached : ManifestOf(e).coordinate = ManifestOf(d).coordinate => e = d
      BY <1>3 DEF Acceptable
    <3> QED BY <2>1, <3>1, <3>2, <3>3
  <2> QED BY <2>1
<1>9. ~(moduleCount + Len(ManifestOf(d).modules) > MaxModules)
  <2>1. ModuleCounts \in [Manifests -> Nat]
    BY CountTypes DEF BookInv, WalkInv, TotalsInv
  <2>2. moduleCount = SumFunctionOnSet(ModuleCounts, E)
    BY DEF BookInv, TotalsInv
  <2>3. ModuleCounts[d] = Len(ManifestOf(d).modules)
    BY <1>3 DEF ModuleCounts
  <2> HIDE DEF E, N
  <2>4. E \subseteq Manifests /\ d \in Manifests
    BY <1>3
  <2>5. SumFunctionOnSet(ModuleCounts, E \union {d})
          = SumFunctionOnSet(ModuleCounts, E) + ModuleCounts[d]
    BY <1>3, <1>5, <2>1, <2>4, SumAdd
  <2>6. SumFunctionOnSet(ModuleCounts, E \union {d}) <= SumFunctionOnSet(ModuleCounts, Reached)
    BY <1>3, <1>4, <2>1, SumMonotone
  <2>7. /\ SumFunctionOnSet(ModuleCounts, E) \in Nat /\ ModuleCounts[d] \in Nat
        /\ SumFunctionOnSet(ModuleCounts, Reached) \in Nat
    BY <1>3, <1>5, <2>1, <2>4, SumType
  <2>8. SumFunctionOnSet(ModuleCounts, Reached) <= MaxModules
    BY DEF Acceptable
  <2> QED BY <1>1, <2>2, <2>3, <2>5, <2>6, <2>7, <2>8
<1> HIDE DEF N
<1> QED BY <1>2, <1>6, <1>7, <1>8, <1>9 DEF EntryFault, N

\* A module of what is visited is verified.
LEMMA ModuleIsVerified ==
  ASSUME BookInv, Acceptable, Len(frames) > 0,
         Top.modules < Len(Mods(pinned, Top.digest))
  PROVE  ModuleFault(Mods(pinned, Top.digest)[Top.modules + 1]) = "none"
<1> DEFINE k == Top.modules + 1
           mod == Mods(pinned, Top.digest)[k]
           s == mod.source
           needed == UNION {SourcesOf(d) : d \in Reached}
<1>1. k \in DOMAIN Mods(pinned, Top.digest) /\ s \in SourcesOf(Top.digest) /\ s \in Sources
  BY NextModule DEF BookInv
<1>2. packages \union Visiting \subseteq Reached
  BY VisitingIsReached DEF BookInv
<1>3. Top.digest \in Reached
  BY <1>2, TopFrame DEF BookInv
<1>4. /\ store.sources[s] = "exact" /\ pinned.sources[s].parses
      /\ pinned.sources[s].module = mod.module
  BY <1>1, <1>3 DEF Acceptable, Mods, ManifestOf
<1> HIDE DEF k, mod
<1>5. ASSUME s \in sources PROVE ModuleFault(mod) = "none"
  BY <1>4, <1>5 DEF ModuleFault
<1>6. ASSUME s \notin sources PROVE ModuleFault(mod) = "none"
  <2>1. sources \union {s} \subseteq needed
    <3>1. sources \subseteq needed
      BY <1>2 DEF BookInv, WalkInv, SourcesInv
    <3> QED BY <1>1, <1>3, <3>1
  <2>2. needed \subseteq Sources
    <3>1. ASSUME NEW d \in Reached PROVE SourcesOf(d) \subseteq Sources
      <4>1. d \in Manifests
        BY ReachedIsFinite DEF BookInv, WalkInv
      <4>2. Mods(pinned, d) \in Seq([module : Int, path : Int, source : Sources])
        BY <4>1 DEF BookInv, WalkInv, PinnedInv
      <4> DEFINE R == [module : Int, path : Int, source : Sources]
      <4>3. ASSUME NEW n \in DOMAIN Mods(pinned, d) PROVE Mods(pinned, d)[n] \in R
        <5> HIDE DEF R
        <5>1. Mods(pinned, d) \in Seq(R)
          BY <4>2 DEF R
        <5> QED BY <5>1
      <4> QED BY <4>3 DEF SourcesOf, ManifestOf, Mods
    <3> QED BY <3>1
  <2>3. SourceSizes \in [Sources -> Nat] /\ SourceSizes[s] = pinned.sources[s].size
    BY <1>1, CountTypes DEF BookInv, WalkInv, TotalsInv, SourceSizes
  <2>4. IsFiniteSet(Sources) /\ MaxTotalSourceBytes \in Nat
    BY DigestAssumption, LimitAssumption
  <2>5. totalBytes = SumFunctionOnSet(SourceSizes, sources) /\ sources \subseteq Sources
    BY DEF BookInv, TotalsInv
  <2>6. SumFunctionOnSet(SourceSizes, needed) <= MaxTotalSourceBytes
    BY DEF Acceptable
  <2> HIDE DEF s, needed
  <2>7. IsFiniteSet(needed) /\ IsFiniteSet(sources)
    BY <2>2, <2>4, <2>5, FS_Subset
  <2>8. SumFunctionOnSet(SourceSizes, sources \union {s})
          = SumFunctionOnSet(SourceSizes, sources) + SourceSizes[s]
    BY <1>1, <1>6, <2>3, <2>5, <2>7, SumAdd
  <2>9. SumFunctionOnSet(SourceSizes, sources \union {s}) <= SumFunctionOnSet(SourceSizes, needed)
    BY <2>1, <2>2, <2>3, <2>7, SumMonotone
  <2>10. /\ SumFunctionOnSet(SourceSizes, sources) \in Nat /\ SourceSizes[s] \in Nat
         /\ SumFunctionOnSet(SourceSizes, needed) \in Nat
    BY <1>1, <2>2, <2>3, <2>5, <2>7, SumType
  <2>11. ~(totalBytes + pinned.sources[s].size > MaxTotalSourceBytes)
    BY <2>3, <2>4, <2>5, <2>6, <2>8, <2>9, <2>10
  <2> QED BY <1>4, <1>6, <2>11 DEF ModuleFault, SourceFault, s
<1> QED BY <1>5, <1>6 DEF mod, k

-----------------------------------------------------------------------------
LEMMA BookInvInit == Init => BookInv
BY WalkInvInit, TotalsInit DEF BookInv

LEMMA BookInvStep == BookInv /\ [Next]_vars => BookInv'
<1> SUFFICES ASSUME BookInv, [Next]_vars PROVE TotalsInv' /\ PathInv'
  BY WalkInvStep DEF BookInv
<1> USE DEF BookInv
<1>1. CASE Start
  <2>1. /\ frames = <<>> /\ Len(frames) = 0 /\ packages = {} /\ Root \in Manifests
        /\ UNCHANGED surroundings
    BY <1>1, RootAssumption DEF Start, WalkInv, OutcomeInv
  <2>2. CASE Refuse("unsafe store path") \/ Refuse("invalid manifest")
    BY <2>1, <2>2, TotalsStand DEF Refuse, surroundings
  <2>3. CASE Enter(Root)
    BY <2>1, <2>3, EnterKeepsTotals
  <2> QED BY <1>1, <2>2, <2>3 DEF Start
<1>2. CASE VerifySource
  BY <1>2, VerifySourceKeepsTotals
<1>3. CASE FollowPin
  BY <1>3, FollowPinKeepsTotals
<1>4. CASE Leave
  BY <1>4, LeaveKeepsTotals
<1>5. CASE Disturb \/ UNCHANGED vars
  <2>1. UNCHANGED <<pinned, resolver>>
    BY <1>5 DEF Disturb, vars, surroundings
  <2> QED BY <2>1, TotalsStand
<1> QED BY <1>1, <1>2, <1>3, <1>4, <1>5 DEF Next

\* A receipt says what the root manifest stands for: its packages are the closure
\* of the root, each verified, and its totals count every module and every source
\* byte once, whatever happened to the store meanwhile (resolve_package).
THEOREM ReceiptTheorem == Spec => []ReceiptIsExact
<1>1. BookInv => ReceiptIsExact
  <2> SUFFICES ASSUME BookInv PROVE ReceiptIsExact
    OBVIOUS
  <2>1. ReceiptIsTheClosure
    BY WalkInvSuffices DEF BookInv
  <2>2. ASSUME outcome = "resolved"
        PROVE  /\ moduleCount = SumFunctionOnSet(ModuleCounts, packages)
               /\ totalBytes = SumFunctionOnSet(SourceSizes, sources)
    <3>1. frames = <<>>
      BY <2>2 DEF BookInv, WalkInv, OutcomeInv
    <3>2. packages \union Visiting = packages
      BY <3>1 DEF Visiting
    <3> QED BY <3>2 DEF BookInv, TotalsInv
  <2> QED BY <2>1, <2>2 DEF ReceiptIsExact
<1> QED BY <1>1, BookInvInit, BookInvStep, PTL DEF Spec

-----------------------------------------------------------------------------
GoingOn == outcome \in {"ready", "running", "resolved"}

\* Where everything needed is acceptable, no action refuses.
LEMMA AcceptedGoesOn ==
  ASSUME BookInv, Acceptable, Start \/ VerifySource \/ FollowPin \/ Leave
  PROVE  GoingOn'
<1>1. Reached \subseteq Manifests /\ AtDepth[0] = {Root} /\ Root \in Reached
  <2>1. 0 \in 0 .. MaxDependencyDepth + 1
    BY LimitAssumption
  <2> QED BY <2>1, DepthsUnfold, ReachedIsFinite DEF BookInv, WalkInv
<1>2. ASSUME NEW d, Fresh(d), Enter(d) PROVE GoingOn'
  <2>1. outcome' = "running"
    BY <1>2, FreshIsEntered DEF Enter
  <2> QED BY <2>1 DEF GoingOn
<1>3. CASE Start
  <2>1. store.root = "directory" /\ ValidManifest(ManifestOf(Root))
    BY <1>1 DEF Acceptable
  <2>2. Enter(Root)
    BY <1>3, <2>1 DEF Start
  <2>3. Len(frames) = 0 /\ packages \union Visiting = {}
    <3>1. frames = <<>> /\ packages = {}
      BY <1>3 DEF Start, BookInv, WalkInv, OutcomeInv
    <3> QED BY <3>1 DEF Visiting
  <2>4. Fresh(Root)
    BY <1>1, <2>3 DEF Fresh
  <2> QED BY <1>2, <2>2, <2>4
<1>4. CASE VerifySource
  <2>1. Len(frames) > 0 /\ Top.modules < Len(Mods(pinned, Top.digest)) /\ outcome = "running"
    BY <1>4 DEF VerifySource, BookInv, WalkInv, OutcomeInv, Mods, ManifestOf
  <2>2. ModuleFault(Mods(pinned, Top.digest)[Top.modules + 1]) = "none"
    BY <2>1, ModuleIsVerified
  <2>3. outcome' = outcome
    BY <1>4, <2>2 DEF VerifySource, Mods, ManifestOf
  <2> QED BY <2>1, <2>3 DEF GoingOn
<1>5. CASE FollowPin
  <2> DEFINE d == Deps(pinned, Top.digest)[Top.dependencies + 1].digest
  <2>1. /\ Len(frames) > 0 /\ Top.dependencies < Len(Deps(pinned, Top.digest))
        /\ outcome = "running"
    BY <1>5 DEF FollowPin, BookInv, WalkInv, OutcomeInv, Deps, ManifestOf
  <2>2. \/ PinFault(d) # "none"
        \/ PinFault(d) = "none" /\ d \notin packages /\ Enter(d)
        \/ outcome' = outcome
    BY <1>5 DEF FollowPin, Deps, ManifestOf
  <2>3. d \in PinsOf(Top.digest)
    BY <2>1, NextPin DEF BookInv
  <2> HIDE DEF d
  <2>4. /\ d \notin Visiting /\ d # Root /\ d # Top.digest
        /\ d \in AtDepth[Len(frames)] /\ d \in Reached
    BY <2>1, <2>3, PinIsFresh
  <2>5. PinFault(d) = "none"
    <3>1. store.manifests[d] = "exact" /\ ValidManifest(ManifestOf(d))
      BY <2>4 DEF Acceptable
    <3> QED BY <2>4, <3>1 DEF PinFault, ManifestFault, Top
  <2>6. CASE d \notin packages /\ Enter(d)
    BY <1>2, <2>4, <2>6 DEF Fresh
  <2>7. CASE outcome' = outcome
    BY <2>1, <2>7 DEF GoingOn
  <2> QED BY <2>2, <2>5, <2>6, <2>7
<1>6. CASE Leave
  BY <1>6 DEF Leave, GoingOn
<1> QED BY <1>3, <1>4, <1>5, <1>6

\* Where nobody touches the store, a package whose closure is sound, present and
\* within the limits is resolved, not refused: a shared dependency counts once, and
\* no limit is reached early (resolve_package).
THEOREM CauseTheorem == Spec => []RefusalHasCause
<1> DEFINE CauseInv == disturbances \in Nat /\ RefusalHasCause
<1>1. Init => CauseInv
  BY DEF Init, RefusalHasCause
<1>2. BookInv /\ CauseInv /\ [Next]_vars => CauseInv'
  <2> SUFFICES ASSUME BookInv, CauseInv, [Next]_vars PROVE CauseInv'
    OBVIOUS
  <2>1. CASE Disturb
    BY <2>1 DEF Disturb, RefusalHasCause
  <2>2. CASE UNCHANGED vars
    <3>1. Acceptable' = Acceptable
      BY <2>2, DepthsStand, CountsStand
      DEF vars, surroundings, Acceptable, SourcesOf, ManifestOf
    <3> QED BY <2>2, <3>1 DEF RefusalHasCause, vars, surroundings
  <2>3. CASE Start \/ VerifySource \/ FollowPin \/ Leave
    <3>1. UNCHANGED surroundings
      BY <2>3 DEF Start, VerifySource, FollowPin, Leave
    <3>2. Acceptable' = Acceptable
      BY <3>1, DepthsStand, CountsStand DEF surroundings, Acceptable, SourcesOf, ManifestOf
    <3>3. Acceptable => GoingOn'
      BY <2>3, AcceptedGoesOn
    <3> QED BY <3>1, <3>2, <3>3 DEF RefusalHasCause, GoingOn, surroundings
  <2> QED BY <2>1, <2>2, <2>3 DEF Next
<1>3. BookInv /\ CauseInv => RefusalHasCause
  OBVIOUS
<1> QED BY <1>1, <1>2, <1>3, BookInvInit, BookInvStep, PTL DEF Spec
=============================================================================

# JOAN: TLA+ models, checks and proofs

JOAN is a set of Rust crates in two groups. One decides disputes about machine work: a case
engine, an evidence graph, a bench of machine adjudicators and a ledger that holds the disputed
value. The other prepares and runs programs: a checker, a compiler to bytecode, a verifier, an
interpreter and native code, an isolated executor, and around them the resolution of instructions,
the planning of effects, packages and generated tools. This directory models them in TLA+, checks the models with TLC and
proves what matters most about them with TLAPS. `PROJECT.json` lists the components, the runs,
the mutants of each property, the hazards and the lines of source that each definition stands
for.

## 1. Inventory

### The dispute subsystem

Its crates are libraries of pure functions. Each returns a new value, never changes its input, and
keeps no state: **whoever calls it reads a value, builds a request, and stores the result.**
The concurrency is between callers, and the only thing that keeps them apart is optimistic: a
request names the digest (or root) and the revision of the value it was built on.

| component | state | operations | what is hard | what makes it correct |
|---|---|---|---|---|
| `joan-case` | `DisputeCase`: one of 27 states, revision, digest, used keys | `create_case`, `verify_case`, `transition_case` | two callers on one snapshot; retries; states that come back (`IntakeValidation`/`AwaitingCure`, `RemedyExecution`/`ExecutionReconciliation`); 10,000 keys | receipts are one chain; a key pays once; no remedy around notice, response, evidence lock and repair check |
| `joan-evidence` | `EvidenceGraph`: items, relations, lock, revision, root, keys | `create_evidence_graph`, `verify_evidence_graph`, `mutate_evidence` | evidence racing the lock; capacities of items, relations and keys | append-only; nothing after the lock; no lost update |
| `joan-dispute` | none; input is a bundle of case, evidence, claim, profile, findings and prior decision, output a decision | `evaluate_bundle`, `verify_decision` | findings late, twice, about other snapshots, in any order; evaluators with different subsets; an adjudicator that tells two evaluators opposite things; rounding | a verdict has its quorum; no order matters; opposite verdicts only where an adjudicator stated both; every unit is allocated; appeals are independent |
| `joan-mock-ledger` | `MockLedger`: balances, holds, revision, root, keys, total | `create_ledger`, `verify_ledger`, `reserve`, `apply_decision` | racing reservations and decisions; retries; u64 limits | value is conserved and never paid twice; balances are explained by holds and decisions |
| `joan-sim` | a simulated case | runs the four above in sequence | one order only | it is the only code that composes the four |

They interact by value: `joan-dispute` reads digest, state and value of a case and root and
verified items of a graph; `joan-mock-ledger` reads allocation and digest of a decision. The case
engine asks neither, so the lock state of the case and the lock of the graph are independent.

### The execution subsystem

| component | state | operations | what is hard | what makes it correct |
|---|---|---|---|---|
| `joan-host` (`controller.rs`) | one attempt: request offset, output, exit status, grace timer, forced reason | `execute_with_path` and the receipt | a polling loop against an arbitrary child: partial writes, floods, helpers, exits and the deadline in any order | a definite outcome is proven by what was observed; nothing outlives an attempt; every attempt ends |
| `joan-executor` | one request | read, limit, compile, invoke, answer, exit | dies at any moment | runs the program at most once, answers at most once |
| `joan-runtime` | `CapabilityLedger`: consumed approval nonces | `plan_effects` | all or nothing over several approvals; identities of three profiles; receipts altered on their way; repeated plans and approvals | an approval pays once; what is planned was emitted, approved and within the authority |
| `joan-instruction` | none | `discover_instruction_files`, `resolve_instructions` | statements of several files, sources and scopes folded in one order | repository content only takes away |
| `joan-check` | none | checks a module | the rules over a tree are written again in the verifier, over code | accepts what the verifier accepts |
| `joan-compiler` | a machine: frames, stack, locals, budget, requests | `compile_program`, `execute_bytecode_function` | short-circuits nowhere, checked arithmetic, calls as deep as the limit, budget | verified code is never stuck; it means what the source says; slots are moved once; no secret is observed |
| `joan-bytecode` | none | `verify` | an artifact from elsewhere, altered in one place | only the code of its own tree is accepted |
| `joan-native` | one invocation: status, fuel | compile and invoke | its own traps and fuel | answers what the interpreter answers |
| `joan-guardian` | none | `evaluate_candidate` | votes in every combination | three roles agree, one may deny |
| `joan-tool-forge` | files between the stages: specification, bundle, verification, votes, finalization | `forge_tool`, `verify_tool`, `finalize_tool`, `evaluate_promotion` | a file is exchanged after a later stage has read it | what is promoted does what was asked and was approved as it is |
| `joan-package` | one walk: packages being visited and resolved, names, sources, totals; a directory of objects | `resolve_package` | the directory changes under the walk; shared packages; limits | the receipt is the closure of the root; sound input within the limits resolves |
| `joan-patch` | none | `apply_patch` | several operations, one failing | all operations or none |
| `joan-trust` | none | evaluates evidence of a pull request | I/O and git | a verdict rests on evidence of the same commit |
| `joan-canonical`, `-identity`, `-ast`, `-syntax`, `-lattice`, `-abi`, `-node`, `-conformance`, scripts | none | conversions, facades, tests | not behaviour over time | |

## 2. Modules

| module | models | source |
|---|---|---|
| `CaseRules` | states and the table of legal pairs | `joan-case` `is_allowed` |
| `CaseLifecycle` | one case and any callers | `joan-case` |
| `CasePhases` | *abstract*: intake, inquiry, decision, remedy, over | |
| `EvidenceGraph` | one graph and any callers | `joan-evidence` |
| `SealableLog` | *abstract*: a log that is appended to and sealed | |
| `Adjudication` | `evaluate_bundle` as operators, every check in the code's order | `joan-dispute` |
| `BundleEvaluation` | a bundle that collects findings and may be evaluated after each | `joan-dispute` |
| `LedgerBook` | the ledger's operations on one value | `joan-mock-ledger` |
| `MockLedger` | one ledger and any clients | `joan-mock-ledger` |
| `ValueFlow` | *abstract*: an escrow | |
| `DisputeResolution` | case, graph, findings, decisions and ledger together | `joan-sim` and the four crates |
| `HostController` | one attempt, the child, its helper, the pipes and the clock | `joan-host` `execute_with_path` |
| `InstructionResolution` | `resolve_instructions` as operators | `joan-instruction` |
| `EffectPlanning` | one ledger of approvals, the host, repository content, and receipts on their way | `joan-runtime`, requests of `joan-compiler` |
| `OneUseVouchers` | *abstract*: vouchers that pay once, all of a purchase or none of it | |
| `JoanProgram` | values, labels, the tree of a module, its canonical form | `joan-ast`, parts of `joan-check` and `joan-bytecode` |
| `JoanCheck` | the diagnostics of a module | `joan-check` |
| `Bytecode` | instructions, artifacts, and what the verifier reads off the code alone: tables, typing, call graph | `joan-bytecode` `verify_structure` |
| `BytecodeVerifier` | the verdict on an artifact, with its tree | `joan-bytecode` |
| `Compiler` | lowering | `joan-compiler` `compile_program` |
| `StackMachine` | two executions of one function of any accepted artifact, one instruction at a time | `joan-compiler` `Machine` |
| `NativeCode` | which modules have native code and what it does | `joan-native` |
| `LanguagePipeline` | a submission on its way to two executions | the crates above |
| `Guardian` | `evaluate_candidate` | `joan-guardian` |
| `ToolForge` | the four stages and the files between them | `joan-tool-forge` |
| `ToolAdmission` | *abstract*: a tool is admitted once, with the approval of three for what it does | |
| `PackageResolver` | a walk and the store it reads | `joan-package` |
| `FiniteSumTheorems` | what the totals of ledger and packages have in common: sums over finite sets | |
| `DisputeProofs` | theorems about `EvidenceGraph`, `BundleEvaluation` and `DisputeResolution` | |
| `ExecutionProofs` | theorems about `EffectPlanning` and `HostController` | |
| `MachineProofs` | theorems about `StackMachine` | |
| other `*Proofs` | theorems about the module of that name | |
| `MC*` | instances for TLC | |

**Snapshots.** `CaseLifecycle`, `EvidenceGraph` and `MockLedger` have the same shape. `Prepare`
(or `Build`) is a caller that reads the authoritative value and builds a request with its digest
and revision. `Commit` and `Refuse` are the call with that request on the value that is current
*then*, and the storing of its result. A request stays with its caller, so it may be sent again
any number of times (a retry, a duplicate), late, or after the caller rebuilt it with the same
key. `Commit` and `Refuse` contain the whole operation, with its checks in the order of the
code, because the order is the answer a caller gets. The store itself is taken to be atomic, as
each function takes and returns the whole value. A caller that stores late, over a newer value, is what
`NoUpdateLost` would show: with a `Commit` that stores graph and receipt as computed from the request's
own snapshot, revision, keys and items are rolled back together and still agree with each other, but a
receipt is left whose addition the graph no longer holds, or two that claim one revision.

**Digests.** A digest is modelled as the fields it covers, i.e. hashing is injective, and so is
the revision within one case in `DisputeResolution`, justified by theorem `ReceiptsFormOneChain`.

**Faults.** An operator `Name_Fault` in front of `Name` is `Name` with a plausible bug; it is used
nowhere, and replacing `Name` by it must violate the property it stands beside in `PROJECT.json`.

**The controller.** `HostController` has one action per system call or group of steps between
system calls: `WriteRequest`, `ReadOutput`/`StopReading` (one read each, the drain loop),
`PollChild`, `CheckGroup`, `LookAtClock`, then `CleanUp` and `Judge`. The child, its helper and the
clock may move between any two of them. Pipes have a capacity; pipe ends belong to processes, so
that end-of-file and a broken pipe follow from who is alive. A chunk stands for any number of
bytes; a frame is `"head"` and its content. The child may do anything, which is right as
`execute_with_path` takes any program. The grace period (10 ms) is longer than the pause at
the end of a round (2 ms), so it elapses in a pause, or anywhere if the
controller may be descheduled for so long (`"stall"`). System calls may fail (`"failure"`); the
history variable `disturbed` tells whether either happened.

**Effect planning.** A program has no input, so it is known by its profile, its task (the value of
its semantic digest) and its calls; `Emitted` is the receipt its run gives. A request identity is
the tuple of the fields it is a digest of; that of a legacy program is only its position, as in
the code, so that nothing binds the arguments of a legacy request. `plan_effects` takes
an `ExecutionReceipt` from its caller, so `Receipts` also holds receipts that were cut, reordered,
edited, relabelled with another profile or given new identities. It holds the ledger by `&mut`,
so a call is one step: `Authorize`, `PlanNothing` or `RefusePlan`; an absent authority is a
second way to be refused. `Approve` adds an approval to the authority in force, any number of
times, and `Present` replaces the authority. `Gather` adds a statement of repository content: it
changes no plan, as `plan_effects` asks the resolver without instructions, but what
`resolve_instructions` answers. `approved` and `plans` are history variables.

**The language.** A module is a tree of records; names are small numbers, `MinInt` and `MaxInt` bound
the integers, and every limit of the crates is a constant. `JoanCheck` collects the codes of all
diagnostics, `CompileProgram` lowers the tree to instructions and `Verdict` is the verifier, which
types the code a second time, follows the labels through it and emits it again from the tree it
carries, to compare; `"panic"` is the one verdict by which it aborts instead of refusing (section 5). `StackMachine` accepts *any* decoded artifact whose code is sound and within the
limits (`Bytecode`; neither the tree nor the emitter is asked) and executes one function twice, side by
side, on arguments that an observer cannot tell apart, one instruction at a time; the two share nothing,
so that running them in turns loses no behaviour. Every check the machine still makes at run time is
there, and stops it with a name. `LanguagePipeline` settles a submission, a source module or an artifact
from elsewhere, and hands what is verified to that machine, whose actions it takes as they are. A verdict
of `"verified"` includes `StructureSound` and `StructureLimits`, so that the pipeline implements
`MachineSpec` and the theorems about the machine hold of it; `ImplementsMachine` says so, and TLC
agrees when it is added to `MCLanguage.cfg` as a `PROPERTY`. `BodyMeaning` is the reference: the meaning of a source function, read
off its tree without stack or code.

**Generated tools.** `ToolForge` has one file per stage. `Forge`, `Verify`, `Finalize` and `Promote`
are the four calls; each reads what stands in the files *then*. `Replace` puts another genuine file, a
fabricated one, or one that was altered and sealed again in the place of one of them, between any two
calls. A digest is the content it seals. The test of a tool runs under its budget with checked
arithmetic, as the machine of `joan-compiler` would run it.

**Packages.** `PackageResolver` is the recursion of the code with its call stack in `frames`: `Start`
checks the root, `VerifySource` reads one source, `FollowPin` one manifest, which it enters or finds
resolved, and `Leave` returns. `Disturb` fills, damages or repairs one object of the store between any
two reads. A digest stands for one content, so that a pin never leads back and a cycle of pins cannot
be resolved; the outcome `"dependency cycle"` is in the model as in the code, and out of reach.

## 3. Runs

| run | instance | shows |
|---|---|---|
| `case` | either 2 callers who build requests on the revisions 0 to 2 of a case, or 1 who walks up to 19 transitions through all 27 states and 8 pairs that skip a gate; key capacity 19 of 20 keys | `ReceiptChain`, `KeyCommitsOnce`, `NeverWedged`, `DueProcess`, `RepairIsReverified`, `ImplementsPhases` |
| `evidence` | 2 items, a relation, key capacity 3 of 4 keys; either 2 callers who build requests on the revisions 0 and 1, or 1 without bound | `NoUpdateLost`, `ImplementsSealableLog`, `LockableUntilFull` |
| `bundle` | 4 opening bundles (threshold 1 and 2, split, appeal), up to 4 of 12 findings, in all orders; 18 with up to 2 findings, of the values 1, 10,001 and 65,535 (the largest) and 0, 1, 3,333, 9,999, 10,000 and 10,001 basis points; one whose profile leaves room for a human | `QuorumDecides`, `OrderIsIrrelevant`, `AllocatesExactly`, `NoVerdictFlips` |
| `ledger` | 2 holds, 4 keys, a total at the largest amount; either 2 clients with one amount and contradicting decisions on the revisions 0 and 1, or 1 with 3 accounts (one unknown), 2 amounts and 5 decisions | `AccountsReconcile`, `NoInternalFailure`, `ImplementsValueFlow` |
| `dispute` | 3 primary adjudicators with a majority of 2, 1 appeal adjudicator, every subset of up to 4 findings (3 if one is an appeal's), opposite ones of one adjudicator included, 2 decisions | `SettlementIsBacked`, `JudgedOnFinalEvidence`, `ContradictionsAreAccountable` |
| `host` | request of 2 chunks, pipe of 1, output limit 2, one helper, failing system calls and long descheduling | `DefiniteIsProven`, `NothingSurvives`, `CleanRunCompletes`, `AttemptEnds` |
| `effects` | a program of each profile and one without requests; receipts altered in one way; 6 authorities; 7 approvals, up to 3 in an authority and 3 nonces issued; or up to 3 of 12 statements gathered under up to one approval | `ImplementsVouchers`, `PlannedAsEmitted`, `PlansAreAuthorized`, `ContentOnlyAttenuates` |
| `language` | modules of up to three functions in six families (operators, call graphs, shapes of bodies, sizes, authority, labels) and three artifacts with every change of one place; integers of -4..3; budgets 4 and 60 | `VerifiedNeverStuck`, `CompiledMeaning`, `SlotsAreLinear`, `NoSecretIsObserved`, `NativeAgrees`, `OnlySizeRefusesCheckedSource`, `CheckersAgree` |
| `forge` | 27 specifications on both sides of the boundary of each rule; one file replaced; up to four votes | `VerificationIsExact`, `ApprovedToolIsPromotable`, `ImplementsAdmission` |
| `package` | every acyclic graph of four packages below a root with its pins in every order, 23 worlds with one rule broken and 9 damaged stores; two changes of the store; limits that some graphs meet and some exceed | `ReceiptIsExact`, `RefusalHasCause` |
| `dispute_appealed`, `package_depth` | one property each | the findings of section 5 |

`case`, `evidence` and `ledger` are instances with a next-state relation of their own, made of the
actions of the component: either several callers race on a young value, or one goes deep, and keys
that are interchangeable are not told apart. It keeps the state space of the races, which is a
product over the callers, apart from that of the long paths. In `MCLedger` a client replaces a
request only once it was answered; one that was never sent might as well not have been built.

*Why the bounds are enough.* Two callers show every race on a value, as a third one only adds
another stale request of the same kind; three committed steps let a state of the case go away and
come back, and two let evidence or a decision be overtaken.
Nineteen
transitions take a case through a repair, its re-verification, the remedy, a repeated reconciliation
and to its end, or through settlement offer, review, challenge, appeal and a repair back to a final
decision. Four findings can be two on each side, or a quorum with a duplicate and
an unauthorized one; in `dispute` they can be opposite quorums of two whose votes overlap in one
adjudicator, which is what an opposite verdict takes. The amounts of a split are exact or wrong at the edges
of the basis points and where the product no longer fits an amount; 65,535 stands for the largest u64, and the
theorem holds for every width. Two holds let the provider of one be the buyer of the other. A pipe that takes
one chunk makes every write partial and every response arrive in two reads. Programs with two
requests let the second fail after the first passed, and be exchanged with it; three nonces pay
for two programs of different profiles; three statements let a directive be overwritten between
two that conflict. In `language` each limit is met exactly by some module and exceeded by one by
another, every operator meets the smallest and the largest integer, and three functions are enough for
a chain of calls as long as the limit and for recursion through others. One replaced file is what it
takes to join two chains of a tool; a second replaced file would only undo or repeat the first. Five
packages hold a diamond whose sides differ in length. Symmetry is used for
callers, keys, items, holds and adjudicators, never in a run with a liveness property.

*Fairness.* The dispute crates promise nothing in time, so their specifications have none.
`HostController` assumes that the controller's thread keeps being scheduled (it blocks only in a
2 ms sleep and in `wait` for a child it has killed) and that time passes; nothing is assumed of the
child. `AttemptEnds` follows from the limit on output and the deadline, and from nothing the child
does.

*Deadlock* is checked except where an attempt, an execution, a promotion or a walk ends, a bundle is
full, or the bounds of `DisputeResolution` or of gathered content are used up.

*Type invariants* are not among the runs' properties: those of case, evidence, ledger and effect
planning are proved (section 4), and in the other modules a value out of its type makes a run fail.

## 4. Proofs

Every safety and action property of the passing runs is proved for every value of the constants,
except four of the language pipeline, named at the end of this section: for any number of callers, keys,
holds, findings and transitions, any graph of packages, any code that was verified, and any sizes of
pipes and limits.

**`CaseLifecycleProofs`**

- `Typing`, `ReceiptsFormOneChain`, `KeysAreConsumeOnce`. `ReceiptChain` is not inductive: that a
  commit extends the chain at its end needs that the current case is sealed by its own digest and
  that its used keys and its revision are those of the receipts. `ChainInv` adds this.
- `CaseIsNeverWedged`. A case has used as many keys as it has made transitions (`KeysCountTransitions`).
  With the seal in `ChainInv` this leaves a fresh request nothing to be refused for until the
  capacity is used up by transitions, and every state that is not final has a successor.
- `RemedyNeedsDueProcess`, `RepairsAreReverified`, `CaseImplementsPhases`. The path properties need to
  know what has been reached when the case is *in* a state, `PathInv`: per gate, the states
  before it form a set that is left only through the gate (`GatesHaveNoDetour`, from the table), and
  whoever is outside has passed it.

**`DisputeProofs`**

- `AllocationIsExact`, `DecisionsAllocateExactly`, `VerdictsNeverFlip`, for one bundle. `Allocation` writes
  the three parts of each remedy as the code does, and `SplitRoundsDown` says that the buyer's part is
  within the value because the profile has at most 10,000 basis points. Adding a finding
  keeps every vote (`VotesGrow`), so a quorum is kept (`QuorumsKeep`) and a verdict can only meet a
  second quorum, which is the fallback.
- `DecisionsNeedQuorum`. The code counts findings, the property counts adjudicators. They are one number
  because accepted findings are of different adjudicators, so that the map from a vote to who
  cast it is a bijection.
- `OrderDecidesNothing`. A reordered bundle has the same set of votes on each side and fails the same
  checks, each of which is a statement about all findings or about any two (`AllAccepted`).
- `AllJudgedOnFinalEvidence`, `EverySettlementIsBacked`, `ContradictionsNeedEquivocation`, for the
  composition. `DisputeInv` says that findings are finite (`FindingsInv`), that a locked snapshot is the
  current evidence (`EvidenceInv`), what a decision rests on and orders (`DecisionsInv`), and that the
  hold is untouched or settled as one decision ordered (`HoldInv`). Two quorums of one bench share as
  many adjudicators as they exceed it by, and each of those issued a finding on both sides. Nothing is assumed
  of the adjudicators: the code looks for duplicates within one bundle only.
- `GraphTypeCorrect`, `NoEvidenceUpdateIsLost`, `OnlyAFullGraphCannotBeLocked`,
  `RefusedMutationsStayRefused`, `GraphImplementsLog`, for the evidence graph. `NoUpdateLost` is inductive
  together with `RevisionCounts`, that there is one key per revision and per addition: the root and the
  revision of a request are compared with the graph's (`CommitAdds`), so a new receipt continues the
  chain, and an addition is never taken back (`CommitKeepsUpdates`). That a refusal is final is not inductive: a
  request could be refused as stale and its root come back. `SnapshotsAge` excludes it: a request was
  built on the current root or on an older revision, and revisions only grow.

**`MockLedgerProofs`**

- `LedgerTypeCorrect`, `DecisionsExplainHolds`, `LedgerImplementsValueFlow`. `LedgerInv` ties each hold
  to its original amount, its two different parties and its one decision.
- `EveryAccountReconciles`, `LedgerNeverAccusesItself`. `BooksInv` says that the balances and the
  locked values add up to what the accounts opened with and that the root is the one that was
  sealed. A committed request changes one term of the sums over holds and accounts
  (`ReserveConserves`, `ApplyConserves`); as the opening total is at most the largest amount, no credit
  can overflow and no check of the grand total can fail.

**`ExecutionProofs`**

- `EffectTypeCorrect`, `PlansAreWhatWasEmitted`, `PlanningImplementsVouchers`,
  `PlansStayWithinAuthority`, `RepositoryNeverWidens`. `EffectInv` adds to the types that the nonces of
  the approvals in force are recorded as issued. A planned request then has an issued approval,
  which names the identity of an emitted request (`RequestsWereEmitted`), and `IdentitiesDiffer`
  says that a typed identity determines profile, place and content. For content, `ObjectionsStay`
  says that what a statement objected to stays objected to.
- `DefiniteReceiptsAreProven`, `GroupDoesNotSurvive`, `SuccessIsReported`. `HostInv` says that what was ever
  written is what was read and what is in the pipe, unless it is beyond the limit
  (`OutputAccounted`), with what knowledge the loop is left (`LeftForAReason`, `Ended`), and that a
  controller that nothing disturbs gives up only for something a success does not have
  (`ReasonsAreReal`): between its last look at the pipe and its look at the group the grace period
  cannot run out.

**`ToolForgeProofs`**: `VerificationTheorem`, `PolicyTheorem`, `ApprovedToolTheorem`,
`AdmissionTheorem`. Whatever is replaced, the files stay within what was presented (`FilesAreKnown`); a
verification that is answered "verified" regenerates the bundle it read, a finalization binds that
very bundle, and so the step to promotion is a step of `ToolAdmission` or a stutter. Three
approvals of the three guardians meet no objection of the policy or the gate (`UnanimityApproves`), and a
candidate of them can be presented whatever else was cast.

**`MachineProofs`**, for every artifact, verified whatever tree it claims to come from, every function,
arguments and budget:

- `VerifiedNeverStuckTheorem`. `MachineInv` relates the machine to the abstract interpreter of the verifier:
  the active frame is before an instruction whose typing its stack and locals match (`AtHand`), every
  other frame waits behind a call for a result of the type of its callee (`Awaits`). Each instruction
  has a lemma that says that it meets no fault and where the frame is then (`PushRuns` to
  `ReturnRuns`). That the depth suffices is another argument: the functions of the frames are a
  path in the graph of calls, which has no cycle, so that no function is there twice (`ChainIsSimple`).
- `SlotsAreLinearTheorem`. That a slot is moved at most once per entry is not inductive, since frames of
  one function are entered, suspended and left in any order. `SlotBalance` is: what was moved and the
  frames that still have to move are together the entries. A return needs every slot of the function
  moved (`SlotsUsedAtReturn`), so at the end none is pending. `EffectsFit` says that every frame declares
  no effect that the executed function does not declare.
- `NoSecretIsObservedTheorem`. Two executions are in step, at the same point of the same functions,
  for there are no branches (`InStep`): stacks and locals are equal wherever the typing's label lets the
  observer look, and so are requests. One may stop with an arithmetic fault on a secret, after which
  nothing is claimed; otherwise both complete together (`Finished`). Operators join labels, so a
  result that may be seen has operands that may (`OperatorLabels`). A module without labels has
  nothing but public values (`AfterPublic`).

**`PackageResolverProofs`**

- `ClosureTheorem`, `ReceiptTheorem`. `WalkInv` says that the frames are a chain of pins from the root,
  that what a frame has passed is done, that every name is claimed by one digest, and that whatever
  is resolved is the root or pinned by something resolved or still being visited. Only the last part
  makes a receipt minimal: when the last frame is left nothing is being visited any more. `TotalsInv`
  says that the two totals are the sums over what was entered and what was verified.
- `CauseTheorem`. `PathInv` adds that nothing is visited twice, that the frame above n others is at
  the end of a chain of n pins, and that only what was entered claims a name. So in an acceptable
  world all that is entered is among what the root reaches, and each limit is a comparison of a part
  with the whole (`FreshIsEntered`, `ModuleIsVerified`). A pin into what is being visited would give
  chains of any length (`PinIntoPath`), which an acceptable world does not have: the theorem covers
  graphs with cycles too, which the instance of TLC, and digests, exclude.

**`FiniteSumTheorems`** holds what ledger and packages need of sums over finite sets. The library's sum
is a choice of a function that satisfies a recursive equation, so the first thing to show is that
there is one; the chains of pins (`DepthsExist`) and the typings of a code (`TypingExists`) are treated
alike. All induction is of the form "a set
of exceptions has a smallest member", over finite sets or numbers, since the induction theorems with
an operator as parameter are out of the provers' reach.

**Assumptions** are on constants, named where the constants are declared, and TLC evaluates them: sizes
and limits are natural numbers, amounts are naturals and the openings sum to at most the largest of
them; accounts, digests and benches are finite; a graph has at least a key for each item and each relation
(`CapacityAssumption`; 60,000, 10,000 and 50,000 in the code); opening bundles have no findings and a value of the width of an amount,
which the evaluator and the ledger share (`OneWidthAssumption`); a
decision allocates no more than the largest amount, as `allocation_for` computes it from a value of
that width; a task belongs to one program (`ProgramAssumption`), an approval names an identity that some
program emits (`ApprovalAssumption`: whoever approves was shown a request of the VM), authorities are
presented without approvals, and receipts are well formed; specifications of tools have sequences of
tests (`SpecsAssumption`) and what replaces them is among them (`ReplacementAssumption`); manifests have
sequences of modules and pins (`PinnedAssumption`); a chain of as many calls as there may be functions is
within the depth of the machine (`DepthAssumption`; both limits are 1024 in the code), and arguments are
integers of the width of the language and strings (`ArgumentsAssumption`). The theorems have no
other hypotheses.

**Model-checked only.** Liveness (`AttemptEnds`), which the prover cannot express with fairness. Of the
language pipeline: `CompiledMeaning`, `OnlySizeRefusesCheckedSource`, `CheckersAgree` and `NativeAgrees`.
The first three compare what is computed from a tree in two ways, by RECURSIVE operators over expressions,
behind which the prover has no backend; that they agree on every tree is an induction over trees. The
fourth compares the machine with an evaluation of native code that recurs over calls. For the same reason
`ImplementsMachine` is left to TLC: its module reaches those operators, and that emitted code consists of
decoded instructions is a fact about all trees.

## 5. Where code and documents differ

The first two are runs that TLC must find violated, with the lines in `PROJECT.json`:

- `dispute_appealed`: an appeal must name the case digest of the primary decision, which the
  transition to `Appealed` changes.
- `package_depth`: the specification bounds the depth of a graph by 64, the code the depth of the first
  chain that reaches a package. A diamond with one long side is resolved or refused according to
  which of two aliases sorts first.

Five more differences can be reproduced with configurations that are not part of the regular runs:

- `MCBundle.cfg` with `OpeningBundles <- SplitClaims` and the invariant `AcceptedBundleIsDecided`: a profile
  may allow `Split` with another fallback; a claim for a split is then accepted, reaches its quorum and
  cannot be decided.
- `MCDisputeExchanged.cfg` (`MCDispute`, `AppealsAreIndependent`): the appeal phase is documented as a disjoint
  quorum (`joan-dispute` lines 81 and 119). The code compares the two benches of one profile, and neither
  the profiles nor the participants of primary decision and appeal; with two profiles of one policy the
  same adjudicator may decide both.
- `MCDisputeRepair.cfg` (`MCDispute`, `RepairedHoldCanBeSettled`): value that a repair decision retained
  accepts no later decision.
- `AskCanBeAnswered` (`MCEffect`), put in the place of the properties of `MCEffect.cfg`: `Ask` is documented as what a host approval could
  resolve; for a capability that is approvable but not granted no approval can, as approvals never
  enter the effective authority.
- `MCLanguage.cfg` with an invariant `stage # "panic"`: on an artifact of the flow profile in which a function has
  more parameters than locals, `validate_bytecode_information` slices the labels of the locals by the
  number of parameters (`joan-bytecode` lines 498 to 502) before `verify_structure` has compared the two
  numbers (911 to 918), so that the verifier aborts where it would refuse (`StructureAborts`). No
  source module compiles to such an artifact (`OnlySizeRefusesCheckedSource`).

## 6. Not modelled, and why

The contents of claims, evidence payloads, receipts and frames, beyond what decides something; text,
paths and encodings: `joan-canonical`, `joan-syntax`, `joan-identity`, `joan-lattice` and `joan-abi`
convert data and keep no state, and `joan-conformance`, `joan-node` and the scripts test or front the
others. `joan-patch` is a pure function of a tree and a patch. `joan-trust` judges what it reads from
a repository and from git. `joan-executor` is within what `HostController` lets a child do. Discovery of
instruction files is I/O. The ledger of approvals is not durable, which its comment leaves to a
caller that the repository does not have. In `HostController`: reuse of process ids,
zombies inside the group that their parent has not reaped, platforms without process groups, and the
fields of a response that are compared, taken together as bound or foreign. In `DisputeResolution` the
races on single components, which have modules of their own. In the language modules: spans and
wording of diagnostics, the spelling of names, the digests over the parts of an artifact, and the machine
code itself. In `ToolForge`: the text of a generated source, which stands for its specification. In
`PackageResolver`: symbolic links inside the store and other I/O errors, which refuse like an absent
object, and the comparison of an object's bytes with the digest it was asked for: an object is there
with its one content, absent, or refused.

## 7. Plan

Order: what several actors can break first, then what a pure algorithm can get wrong.

1. *(done)* case, evidence, adjudication, ledger and their composition; the controller; resolution
   of instructions and planning of effects.
2. *(done)* the language from checker to native code; generated tools with their guardians; package
   resolution.
3. *(done)* theorems about the composition of the dispute engines, the books of the ledger, the
   controller and the resolver.
4. `ExecutorChild`: the steps of `joan-executor` as the child of the controller, composed with it,
   with an abstract "run at most once, answer once" as its refinement target.
5. `PatchGraph`: atomicity of a patch over its operations.
6. *(done)* Theorems about the stack machine alone: its verifier and interpreter with recursive functions
   in place of `RECURSIVE` operators (`Bytecode`, `StackMachine`), so that what one step of a verified
   function keeps is proved for every artifact.

Where the questions of two modules are small, one instance composes them (as `MCEffect` does with
content and plans), so that the number of runs stays readable.

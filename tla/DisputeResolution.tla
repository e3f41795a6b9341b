--------------------------- MODULE DisputeResolution ---------------------------
(***************************************************************************)
(* The parts of a dispute together: the case moves on, evidence comes in   *)
(* and is locked, machine adjudicators issue findings about the snapshot   *)
(* they saw, evaluators turn findings into decisions, and decisions are    *)
(* applied to the hold that was reserved for the service.  None of these   *)
(* crates calls back into another one: an evaluator or an adjudicator may  *)
(* work on a snapshot that is no longer the current one, and whoever       *)
(* applies a decision may be late.                                         *)
(*                                                                         *)
(* The races on each single component are the subject of CaseLifecycle,    *)
(* EvidenceGraph and MockLedger; here its operations are atomic.  Within   *)
(* one case the revision stands for the case digest: the receipts form one *)
(* chain (theorem ReceiptsFormOneChain), so a revision has one digest.     *)
(***************************************************************************)
EXTENDS CaseRules, Adjudication, LedgerBook, SequencesExt

CONSTANTS
  Moves,         \* the states this instance moves its case to
  LastRevision,  \* bound: revision of the case
  EvidenceIds,   \* items that pass verification
  Claimed,       \* the one Claim of the case
  Profiles,      \* resolution profiles the evaluators use
  Panel,         \* machine adjudicators: <<identity, phase>>
  MaxFindings,   \* bound: findings issued in a behaviour
  MaxDecisions   \* bound: decisions issued in a behaviour

\* What the types of a ResolutionProfile guarantee: finite lists, u16 thresholds and basis
\* points, remedies of the enumeration.
ASSUME ProfileAssumption ==
  \A p \in Profiles :
    /\ IsFiniteSet(p.primary) /\ IsFiniteSet(p.appeal)
    /\ p.primaryThreshold \in Nat /\ p.appealThreshold \in Nat
    /\ p.bps \in Nat
    /\ p.remedies \subseteq RemedyKinds
ASSUME PartiesAssumption == {"buyer", "provider"} \subseteq Accounts
\* The evaluator and the ledger count in the same u64 microunits.
ASSUME OneWidthAssumption == LargestAmount = MaxAmount

VARIABLES
  case,          \* DisputeCase: its state and revision
  evidence,      \* EvidenceGraph: its verified items, and whether it is locked
  snapshots,     \* history: every case and evidence that could have been read
  findings,      \* MachineFindings issued so far
  decisions,     \* AutomaticDecisionReceipts issued so far
  ledger         \* MockLedger

vars == <<case, evidence, snapshots, findings, decisions, ledger>>

Value == 3

\* The case as evaluate_bundle reads it.
CaseFields(s) ==
  [id |-> "case", claimant |-> "buyer", policy |-> "policy", value |-> Value,
   state |-> s.case.state, digest |-> s.case.revision]

EvidenceFields(s) ==
  [case |-> "case", locked |-> s.evidence.locked, verified |-> s.evidence.verified,
   root |-> s.evidence]

BundleOf(s, profile, prior, chosen) ==
  [case |-> CaseFields(s), evidence |-> EvidenceFields(s), claim |-> Claimed,
   profile |-> profile, findings |-> SetToSeq(chosen), prior |-> prior]

Now == [case |-> case, evidence |-> evidence]

ReserveRequest ==
  [op |-> "reserve", hold |-> "hold", buyer |-> "buyer", provider |-> "provider",
   amount |-> Value, key |-> "reserved", revision |-> 0,
   root |-> NewLedger([a \in Accounts |-> Value]).root]

ApplyRequest(d, key) ==
  [op |-> "apply", hold |-> "hold", decision |-> d, key |-> key,
   revision |-> ledger.revision, root |-> ledger.root]

\* The case collects evidence (six transitions after its creation) and the disputed
\* value is on hold.
Init ==
  /\ case = [state |-> "EvidenceCollection", revision |-> 6]
  /\ evidence = [verified |-> {}, locked |-> FALSE]
  /\ snapshots = {Now}
  /\ findings = {}
  /\ decisions = {}
  /\ ledger = LedgerAfter(NewLedger([a \in Accounts |-> Value]), ReserveRequest)

\* transition_case
MoveCase(to) ==
  /\ IsAllowed(case.state, to)
  /\ case.revision < LastRevision
  /\ case' = [state |-> to, revision |-> case.revision + 1]
  /\ snapshots' = snapshots \union {[case |-> case', evidence |-> evidence]}
  /\ UNCHANGED <<evidence, findings, decisions, ledger>>

\* mutate_evidence with AddItem, of an item that is verified.
AddEvidence(id) ==
  /\ ~evidence.locked
  /\ id \notin evidence.verified
  /\ evidence' = [evidence EXCEPT !.verified = @ \union {id}]
  /\ snapshots' = snapshots \union {[case |-> case, evidence |-> evidence']}
  /\ UNCHANGED <<case, findings, decisions, ledger>>

\* mutate_evidence with Lock; the case engine does not wait for it.
LockEvidence ==
  /\ ~evidence.locked
  /\ evidence.verified # {}
  /\ evidence' = [evidence EXCEPT !.locked = TRUE]
  /\ snapshots' = snapshots \union {[case |-> case, evidence |-> evidence']}
  /\ UNCHANGED <<case, findings, decisions, ledger>>

\* An adjudicator issues a finding about a snapshot.  Nothing keeps it from issuing the
\* opposite one too: evaluate_findings sees one bundle, and two evaluators may have been
\* told different things.  Findings about a case that cannot be adjudicated are never of
\* use and not issued here.
IssueFinding(s, adjudicator, phase, disposition) ==
  /\ s.case.state \in AdjudicableStates
  /\ Cardinality(findings) < MaxFindings
  /\ findings' = findings \union
       {[adjudicator |-> adjudicator, phase |-> phase, case |-> s.case.revision,
         evidence |-> s.evidence, policy |-> "policy", disposition |-> disposition,
         refs |-> s.evidence.verified]}
  /\ UNCHANGED <<case, evidence, snapshots, decisions, ledger>>

\* evaluate_bundle on a snapshot with some of the findings, and with an earlier decision
\* if this is an appeal.
Evaluate(s, profile, prior, chosen) ==
  LET b == BundleOf(s, profile, prior, chosen)
  IN /\ Cardinality(decisions) < MaxDecisions
     /\ EvaluationError(b) = "none"
     /\ decisions' = decisions \union {DecisionOf(b)}
     /\ UNCHANGED <<case, evidence, snapshots, findings, ledger>>

\* apply_decision by a caller that read the current ledger.
ApplyDecision(d, key) ==
  /\ LedgerAnswer(ledger, ApplyRequest(d, key)) = "committed"
  /\ ledger' = LedgerAfter(ledger, ApplyRequest(d, key))
  /\ UNCHANGED <<case, evidence, snapshots, findings, decisions>>

Next ==
  \/ \E to \in Moves : MoveCase(to)
  \/ \E id \in EvidenceIds : AddEvidence(id)
  \/ LockEvidence
  \/ \E s \in snapshots, seat \in Panel, disposition \in {"SupportsClaim", "RejectsClaim"} :
       IssueFinding(s, seat[1], seat[2], disposition)
  \/ \E s \in snapshots, profile \in Profiles, prior \in decisions \union {NoPrior},
        chosen \in SUBSET findings : Evaluate(s, profile, prior, chosen)
  \/ \E d \in decisions, key \in LedgerKeys : ApplyDecision(d, key)

Spec == Init /\ [][Next]_vars

-----------------------------------------------------------------------------

BenchOf(d) == IF d.phase = "Primary" THEN d.profile.primary ELSE d.profile.appeal

\* Findings on the snapshot that a decision is about, by the bench it was decided by.
VotesBehind(d, disposition) ==
  {f.adjudicator : f \in {g \in findings :
     /\ g.case = d.case
     /\ g.evidence = d.evidence
     /\ g.phase = d.phase
     /\ g.disposition = disposition
     /\ g.adjudicator \in BenchOf(d)}}

ThresholdOf(d) ==
  IF d.phase = "Primary" THEN d.profile.primaryThreshold ELSE d.profile.appealThreshold

\* The money follows a quorum: whoever was paid against the other side was paid on
\* findings that a quorum of the competent bench issued on the very snapshot that was
\* decided, all of it and nothing else (evaluate_bundle and apply_decision together).
SettlementIsBacked ==
  LET d == ledger.holds["hold"].decision
  IN d # NoDecision =>
       /\ d \in decisions
       /\ d.status = "ClaimUpheld" =>
            Cardinality(VotesBehind(d, "SupportsClaim")) >= ThresholdOf(d)
       /\ d.status = "ClaimRejected" =>
            /\ Cardinality(VotesBehind(d, "RejectsClaim")) >= ThresholdOf(d)
            /\ ledger.balances["provider"] = 2 * Value
       /\ ledger.balances["buyer"] + ledger.balances["provider"]
            + ledger.holds["hold"].locked = 2 * Value

\* All decisions rest on one and the same evidence, which was locked before and is what
\* the graph still holds: what a party learns from the current graph is what was judged
\* (validate_inputs line 476, mutate_evidence line 285).
JudgedOnFinalEvidence ==
  \A d \in decisions : evidence.locked /\ d.evidence = evidence

\* The adjudicators who stated both things about the snapshot of a decision, in its phase.
Equivocators(d) == VotesBehind(d, "SupportsClaim") \intersect VotesBehind(d, "RejectsClaim")

\* Opposite verdicts about one snapshot in one phase take adjudicators who told two
\* evaluators opposite things, as many as two quorums of the bench must share; with a
\* majority threshold there is at least one, and the findings name it.  Evaluators that
\* merely left out findings, came late, or were given findings about another snapshot
\* never contradict each other (evaluate_findings 569-590, validate_inputs 476).
ContradictionsAreAccountable ==
  \A c, d \in decisions :
    /\ c.phase = d.phase
    /\ c.case = d.case
    /\ c.profile = d.profile
    /\ c.status = "ClaimUpheld"
    /\ d.status = "ClaimRejected"
    => 2 * ThresholdOf(d) <= Cardinality(BenchOf(d)) + Cardinality(Equivocators(d))

\* What the documentation of the appeal phase promises (lines 81 and 119): an appeal is
\* decided by a quorum disjoint from the one that took the decision it supersedes.
\* validate_profile (526-531) compares the benches of one profile and validate_inputs
\* (503-516) no profiles, so it holds only as long as both decisions use one profile.
AppealsAreIndependent ==
  \A d \in decisions : d.supersedes # NoPrior =>
    d.participants \intersect d.supersedes.participants = {}

\* While a disjoint appeal quorum is evaluating the case (state Appealed), a primary
\* decision that says it is appealable can be the subject of that evaluation.
AppealedCanBeDecided ==
  case.state = "Appealed" =>
    \A d \in decisions : d.finality = "automatic-primary-appealable" =>
      InputError(BundleOf(Now, d.profile, d, {})) = "none"

\* Value held for a repair cycle can be settled by a decision made once the repair was
\* verified and the case is about to execute its remedy.
RepairedHoldCanBeSettled ==
  /\ ledger.holds["hold"].status = "RepairPending"
  /\ case.state = "RemedyExecution"
  => \A d \in decisions, key \in LedgerKeys \ ledger.keys :
       /\ d # ledger.holds["hold"].decision
       /\ d.case > ledger.holds["hold"].decision.case
       => LedgerAnswer(ledger, ApplyRequest(d, key)) = "committed"
=============================================================================

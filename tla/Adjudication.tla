---------------------------- MODULE Adjudication ----------------------------
(***************************************************************************)
(* joan-dispute as operators: evaluate_bundle on one bundle.  A bundle is  *)
(* [case, evidence, claim, profile, findings, prior]; the result is either *)
(* [error |-> e] or a decision receipt.                                    *)
(*                                                                         *)
(*   case      [id, claimant, policy, value, state, digest]                *)
(*   evidence  [case, locked, root, verified], verified the set of ids of  *)
(*             the items that passed verification                          *)
(*   claim     [case, claimant, code, remedy, refs]                        *)
(*   profile   [automatic, policy, codes, remedies, maxValue, primary,     *)
(*              appeal, primaryThreshold, appealThreshold, fallback, bps]  *)
(*   finding   [adjudicator, phase, case, evidence, policy, disposition,   *)
(*              refs], with the digests of what it is about                *)
(*                                                                         *)
(* Schema names and empty identifiers are left out; decision digests are   *)
(* the receipts themselves, so verify_decision holds of every receipt.     *)
(***************************************************************************)
EXTENDS Naturals, Sequences, FiniteSets

CONSTANTS
  NoPrior,        \* prior_decision = None
  LargestAmount   \* u64::MAX

Phases == {"Primary", "Appeal"}
Dispositions == {"SupportsClaim", "RejectsClaim", "Abstain"}
RemedyKinds == {"FullRefund", "ReleaseProvider", "Split", "Repair", "Quarantine"}
Statuses == {"ClaimUpheld", "ClaimRejected", "FallbackApplied"}

AdjudicableStates ==
  { "DeterministicEvaluation", "ReviewAssigned", "ProposedDecision",
    "ChallengeWindow", "Appealed" }

BpsScale == 10000

-----------------------------------------------------------------------------

\* validate_profile: the reason a profile is refused, "none" if it is accepted.
ProfileError(p) ==
  IF ~p.automatic THEN "AutomaticFinalityRequired"
  ELSE IF p.primary \intersect p.appeal # {} THEN "AdjudicatorOverlap"
  ELSE IF \/ p.primaryThreshold = 0 \/ p.appealThreshold = 0
          \/ p.primaryThreshold > Cardinality(p.primary)
          \/ p.appealThreshold > Cardinality(p.appeal) THEN "InvalidThreshold"
  ELSE IF ~({p.fallback, "ReleaseProvider"} \subseteq p.remedies) THEN "RemedyNotAllowed"
  ELSE IF p.fallback = "Split" /\ p.bps > BpsScale THEN "RemedyNotAllowed"
  ELSE "none"

\* verify_evidence_refs
RefsVerified(evidence, refs) == refs \subseteq evidence.verified

\* The appealed decision is a primary one about the same case and evidence digests.
PriorError(b) ==
  IF /\ b.prior.phase = "Primary"
     /\ b.prior.case = b.case.digest
     /\ b.prior.evidence = b.evidence.root
  THEN "none" ELSE "InvalidPriorDecision"

InputError_LockUnchecked(b) ==
  IF b.case.state \notin AdjudicableStates THEN "InvalidCaseState"
  ELSE IF ProfileError(b.profile) # "none" THEN ProfileError(b.profile)
  ELSE IF b.prior # NoPrior THEN PriorError(b)
  ELSE "none"

\* validate_inputs
InputError(b) ==
  IF b.case.state \notin AdjudicableStates THEN "InvalidCaseState"
  ELSE IF ~b.evidence.locked THEN "EvidenceNotLocked"
  ELSE IF \/ b.evidence.case # b.case.id
          \/ b.claim.case # b.case.id
          \/ b.claim.claimant # b.case.claimant THEN "BindingMismatch"
  ELSE IF ProfileError(b.profile) # "none" THEN ProfileError(b.profile)
  ELSE IF b.profile.policy # b.case.policy THEN "PolicyMismatch"
  ELSE IF b.case.value > b.profile.maxValue THEN "ValueOutOfRange"
  ELSE IF b.claim.code \notin b.profile.codes THEN "IneligibleClaim"
  ELSE IF b.claim.remedy \notin b.profile.remedies THEN "RemedyNotAllowed"
  ELSE IF ~RefsVerified(b.evidence, b.claim.refs) THEN "InvalidEvidenceReference"
  ELSE IF b.prior # NoPrior THEN PriorError(b)
  ELSE "none"

PhaseOfBundle(b) == IF b.prior = NoPrior THEN "Primary" ELSE "Appeal"

Bench(b) ==
  IF PhaseOfBundle(b) = "Primary" THEN b.profile.primary ELSE b.profile.appeal

Threshold(b) ==
  IF PhaseOfBundle(b) = "Primary" THEN b.profile.primaryThreshold ELSE b.profile.appealThreshold

-----------------------------------------------------------------------------
(* evaluate_findings                                                       *)

FindingError_DuplicatesCounted(b, i) ==
  LET f == b.findings[i]
  IN IF f.case # b.case.digest \/ f.evidence # b.evidence.root
     THEN "FindingBindingMismatch"
     ELSE IF f.adjudicator \notin Bench(b) THEN "UnauthorizedAdjudicator"
     ELSE "none"

FindingError_CaseUnbound(b, i) ==
  LET f == b.findings[i]
  IN IF f.phase # PhaseOfBundle(b) THEN "FindingBindingMismatch"
     ELSE IF f.adjudicator \notin Bench(b) THEN "UnauthorizedAdjudicator"
     ELSE IF \E j \in 1..(i - 1) : b.findings[j].adjudicator = f.adjudicator
     THEN "DuplicateFinding"
     ELSE "none"

FindingError_LastSeenOnly(b, i) ==
  LET f == b.findings[i]
  IN IF f.phase # PhaseOfBundle(b) \/ f.adjudicator \notin Bench(b) THEN "FindingBindingMismatch"
     ELSE IF i > 1 /\ b.findings[i - 1].adjudicator = f.adjudicator THEN "DuplicateFinding"
     ELSE "none"

\* The reason the loop stops at the i-th finding, "none" if it goes on.
FindingError(b, i) ==
  LET f == b.findings[i]
  IN IF \/ f.phase # PhaseOfBundle(b)
        \/ f.case # b.case.digest
        \/ f.evidence # b.evidence.root
        \/ f.policy # b.profile.policy THEN "FindingBindingMismatch"
     ELSE IF f.adjudicator \notin Bench(b) THEN "UnauthorizedAdjudicator"
     ELSE IF \E j \in 1..(i - 1) : b.findings[j].adjudicator = f.adjudicator
     THEN "DuplicateFinding"
     ELSE IF f.disposition # "Abstain" /\ f.refs = {} THEN "FindingWithoutEvidence"
     ELSE IF ~RefsVerified(b.evidence, f.refs) THEN "InvalidEvidenceReference"
     ELSE "none"

\* The loop returns the error of the first finding that has one.
FindingsError(b) ==
  IF \A i \in DOMAIN b.findings : FindingError(b, i) = "none" THEN "none"
  ELSE FindingError(b, CHOOSE i \in DOMAIN b.findings :
         /\ FindingError(b, i) # "none"
         /\ \A j \in 1..(i - 1) : FindingError(b, j) = "none")

Votes(b, disposition) ==
  Cardinality({i \in DOMAIN b.findings : b.findings[i].disposition = disposition})

Participants(b) == {b.findings[i].adjudicator : i \in DOMAIN b.findings}

-----------------------------------------------------------------------------
(* evaluate                                                                *)

StatusOf_FirstQuorum(b) ==
  IF Votes(b, "RejectsClaim") >= Threshold(b) THEN "ClaimRejected"
  ELSE IF Votes(b, "SupportsClaim") >= Threshold(b) THEN "ClaimUpheld"
  ELSE "FallbackApplied"

\* One side prevails with its quorum when the other has none; anything else is ambiguous.
StatusOf(b) ==
  LET support == Votes(b, "SupportsClaim") >= Threshold(b)
      reject  == Votes(b, "RejectsClaim") >= Threshold(b)
  IN IF support /\ ~reject THEN "ClaimUpheld"
     ELSE IF reject /\ ~support THEN "ClaimRejected"
     ELSE "FallbackApplied"

RemedyOf(b) ==
  CASE StatusOf(b) = "ClaimUpheld"     -> b.claim.remedy
    [] StatusOf(b) = "ClaimRejected"   -> "ReleaseProvider"
    [] StatusOf(b) = "FallbackApplied" -> b.profile.fallback

\* The product wraps at the width of the amounts.
SplitRefund_NarrowProduct(bps, value) == ((value * bps) % (LargestAmount + 1)) \div BpsScale

\* The buyer's part of a split, rounded down; the product is a u128 and cannot overflow.
SplitRefund(bps, value) == (value * bps) \div BpsScale

\* allocation_for: what each party gets and what stays on hold.
Allocation(kind, bps, value) ==
  LET refund == SplitRefund(bps, value)
      allocated == CASE kind = "FullRefund"      -> <<value, 0, 0>>
                     [] kind = "ReleaseProvider" -> <<0, value, 0>>
                     [] kind = "Split"           -> <<refund, value - refund, 0>>
                     [] OTHER                    -> <<0, 0, value>>
  IN [kind |-> kind, refund |-> allocated[1], release |-> allocated[2],
      retained |-> allocated[3]]

\* evaluate after validate_inputs and evaluate_findings: a split needs the basis
\* points that only a Split fallback carries, a refund that is a u64 again and no larger
\* than the value (allocation_for lines 647-656).
RemedyError(b) ==
  LET refund == SplitRefund(b.profile.bps, b.case.value)
  IN IF RemedyOf(b) \notin b.profile.remedies THEN "RemedyNotAllowed"
     ELSE IF RemedyOf(b) # "Split" THEN "none"
     ELSE IF b.profile.fallback # "Split" THEN "RemedyNotAllowed"
     ELSE IF refund > LargestAmount \/ refund > b.case.value THEN "AmountOverflow"
     ELSE "none"

EvaluationError(b) ==
  IF InputError(b) # "none" THEN InputError(b)
  ELSE IF FindingsError(b) # "none" THEN FindingsError(b)
  ELSE RemedyError(b)

\* evaluate_bundle: the decision of a bundle that evaluates without error.
DecisionOf(b) ==
  [phase |-> PhaseOfBundle(b), case |-> b.case.digest, evidence |-> b.evidence.root,
   claim |-> b.claim, profile |-> b.profile, supersedes |-> b.prior, status |-> StatusOf(b),
   support |-> Votes(b, "SupportsClaim"), reject |-> Votes(b, "RejectsClaim"),
   abstain |-> Votes(b, "Abstain"), participants |-> Participants(b),
   remedy |-> Allocation(RemedyOf(b), b.profile.bps, b.case.value),
   finality |-> IF PhaseOfBundle(b) = "Primary"
                THEN "automatic-primary-appealable" ELSE "automatic-appeal-final"]
=============================================================================

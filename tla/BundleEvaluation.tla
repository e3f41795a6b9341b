-------------------------- MODULE BundleEvaluation --------------------------
(***************************************************************************)
(* evaluate_bundle while its bundle is being assembled: the findings of    *)
(* the machine adjudicators come in one at a time, in any order, some of   *)
(* them twice, unauthorized, about another snapshot of the case or without *)
(* usable evidence, and the bundle may be evaluated after each.            *)
(***************************************************************************)
EXTENDS Adjudication

CONSTANTS
  OpeningBundles,   \* bundles with no finding yet: a case, its evidence, a claim, a profile
  Findings,         \* findings that may come in
  MaxCollected       \* bound: findings per bundle

\* What the types of the inputs guarantee: u64 amounts and thresholds, u16 basis points.
ASSUME OpeningAssumption ==
  \A b \in OpeningBundles :
    /\ b.findings = <<>>
    /\ b.case.value \in 0..LargestAmount
    /\ b.profile.bps \in Nat
    /\ b.profile.primaryThreshold \in Nat
    /\ b.profile.appealThreshold \in Nat
ASSUME LargestAmountAssumption == LargestAmount \in Nat
ASSUME MaxCollectedAssumption == MaxCollected \in Nat

VARIABLE bundle

BundleInit == bundle \in OpeningBundles

\* The caller adds a finding it received to the bundle.
Collect(f) ==
  /\ Len(bundle.findings) < MaxCollected
  /\ bundle' = [bundle EXCEPT !.findings = Append(@, f)]

BundleNext == \E f \in Findings : Collect(f)

BundleSpec == BundleInit /\ [][BundleNext]_bundle

-----------------------------------------------------------------------------

Decided(b) == EvaluationError(b) = "none"

\* The adjudicators on the bench with a finding about this very snapshot that rests on
\* verified evidence: the reference for what evaluate_findings counts.
Backers(b, disposition) ==
  {a \in Bench(b) : \E i \in DOMAIN b.findings :
     LET f == b.findings[i]
     IN /\ f.adjudicator = a
        /\ f.disposition = disposition
        /\ f.case = b.case.digest
        /\ f.evidence = b.evidence.root
        /\ f.refs # {}
        /\ f.refs \subseteq b.evidence.verified}

\* A verdict has its quorum of distinct authorized adjudicators and the other side has
\* none; a decision by fallback is given only when neither or both have one
\* (evaluate lines 399-417 over evaluate_findings lines 569-602).
QuorumDecides ==
  Decided(bundle) =>
    LET support == Cardinality(Backers(bundle, "SupportsClaim")) >= Threshold(bundle)
        reject  == Cardinality(Backers(bundle, "RejectsClaim")) >= Threshold(bundle)
    IN DecisionOf(bundle).status =
         IF support = reject THEN "FallbackApplied"
         ELSE IF support THEN "ClaimUpheld" ELSE "ClaimRejected"

Reordered(b, order) ==
  [b EXCEPT !.findings = [i \in DOMAIN @ |-> @[order[i]]]]

Orders(n) == {f \in [1..n -> 1..n] : {f[i] : i \in 1..n} = 1..n}

\* The order in which findings were put into the bundle decides nothing: neither
\* whether there is a decision nor which (the duplicate check of evaluate_findings
\* remembers every adjudicator, not the last one).
OrderIsIrrelevant ==
  \A order \in Orders(Len(bundle.findings)) :
    LET other == Reordered(bundle, order)
    IN /\ Decided(other) <=> Decided(bundle)
       /\ Decided(bundle) => DecisionOf(other) = DecisionOf(bundle)

\* Later findings may turn a verdict into the fallback but never into the opposite
\* verdict: whoever evaluates early and whoever evaluates late cannot hold opposite
\* verdicts (the two-sided threshold test, evaluate lines 399-411).
NoVerdictFlips ==
  [][ /\ Decided(bundle)
      /\ Decided(bundle')
      /\ DecisionOf(bundle).status # "FallbackApplied"
      => DecisionOf(bundle').status \in {DecisionOf(bundle).status, "FallbackApplied"} ]_bundle

\* No amount overflows on the way to a decision, and a decision gives away exactly the
\* disputed value, to the last unit and no part of it negative: a rejected claim releases
\* all of it, and the buyer's part of a split is its share rounded down by less than one
\* unit, from 0 to 10,000 basis points and up to the largest amount, where the product
\* no longer fits the width of an amount (allocation_for lines 629-672).
AllocatesExactly ==
  /\ EvaluationError(bundle) # "AmountOverflow"
  /\ Decided(bundle) =>
       LET decision == DecisionOf(bundle)
           remedy   == decision.remedy
           value    == bundle.case.value
           share    == value * bundle.profile.bps
       IN /\ {remedy.refund, remedy.release, remedy.retained} \subseteq 0..value
          /\ remedy.refund + remedy.release + remedy.retained = value
          /\ decision.status = "ClaimRejected" => remedy.release = value
          /\ remedy.kind = "Split" =>
               /\ remedy.refund * BpsScale <= share
               /\ share < (remedy.refund + 1) * BpsScale

\* The profile has no human to escalate to (automatic_finality, lines 88-90): a bundle
\* whose case, profile, claim and findings were all accepted yields a decision.
AcceptedBundleIsDecided ==
  InputError(bundle) = "none" /\ FindingsError(bundle) = "none" => Decided(bundle)
=============================================================================

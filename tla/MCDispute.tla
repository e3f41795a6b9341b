------------------------------ MODULE MCDispute ------------------------------
(* One claim for a full refund; benches, profiles and parts of the lifecycle  *)
(* small enough that every subset of the findings can be evaluated.           *)
EXTENDS DisputeResolution, TLC

CONSTANT Judges   \* the three members of the large bench, interchangeable

RefundClaim ==
  [case |-> "case", claimant |-> "buyer", code |-> "NonDelivery",
   remedy |-> "FullRefund", refs |-> {"e1"}]

RepairClaim == [RefundClaim EXCEPT !.remedy = "Repair"]

ProfileOf(primary, threshold, appeal, fallback) ==
  [automatic |-> TRUE, policy |-> "policy", codes |-> {"NonDelivery"}, remedies |-> RemedyKinds,
   maxValue |-> 3, primary |-> primary, appeal |-> appeal,
   primaryThreshold |-> threshold, appealThreshold |-> 1, fallback |-> fallback, bps |-> 5000]

\* The passing run: a bench of three that decides by majority, and an appeal bench of one.
Majority == {ProfileOf(Judges, 2, {"a1"}, "Split")}
MajorityPanel == Judges \X {"Primary"} \union {<<"a1", "Appeal">>}
Symmetry == Permutations(Judges)
\* Four findings are for contradicting quorums; an appeal needs no more than three.
FewWithAppeal ==
  (\E f \in findings : f.phase = "Appeal") => Cardinality(findings) <= 3
QuorumMoves == {"EvidenceLocked", "DeterministicEvaluation", "ReviewAssigned"}

\* The appeal runs: one adjudicator per bench.
Single == {ProfileOf({"p1"}, 1, {"a1"}, "Quarantine")}
SinglePanel == {<<"p1", "Primary">>, <<"a1", "Appeal">>}
AppealMoves ==
  {"EvidenceLocked", "DeterministicEvaluation", "ReviewAssigned", "ProposedDecision",
   "ChallengeWindow", "Appealed"}

\* The exchange run: two profiles under one policy; who judges first in one may judge the appeal in the other.
Exchanged == Single \union {ProfileOf({"a1"}, 1, {"p1"}, "Quarantine")}
ExchangedPanel == {"p1", "a1"} \X Phases

\* The repair run: from a decision that orders a repair through its verification.
RepairMoves ==
  {"EvidenceLocked", "DeterministicEvaluation", "FinalDecision", "RepairPending",
   "Reverification", "RemedyExecution"}
=============================================================================

------------------------------ MODULE MCBundle ------------------------------
(* Benches of three and one, thresholds 1 and 2, a value that a split cannot  *)
(* divide; and, with fewer findings, splits at the edges of the basis points  *)
(* and of the amounts.                                                        *)
EXTENDS BundleEvaluation

CaseNow == [id |-> "c", claimant |-> "buyer", policy |-> "pol", value |-> 10001,
            state |-> "ReviewAssigned", digest |-> 7]

Evidence == [case |-> "c", locked |-> TRUE, root |-> 3, verified |-> {"e1", "e2"}]

Profile(threshold, fallback) ==
  [automatic |-> TRUE, policy |-> "pol", codes |-> {"NonDelivery"}, remedies |-> RemedyKinds,
   maxValue |-> 20000, primary |-> {"p1", "p2", "p3"}, appeal |-> {"a1"},
   primaryThreshold |-> threshold, appealThreshold |-> 1, fallback |-> fallback,
   bps |-> IF fallback = "Split" THEN 3333 ELSE 0]

ClaimFor(remedy) ==
  [case |-> "c", claimant |-> "buyer", code |-> "NonDelivery", remedy |-> remedy,
   refs |-> {"e1"}]

Opening(threshold, fallback, remedy, prior) ==
  [case |-> CaseNow, evidence |-> Evidence, claim |-> ClaimFor(remedy),
   profile |-> Profile(threshold, fallback), findings |-> <<>>, prior |-> prior]

PrimaryDecision ==
  [phase |-> "Primary", case |-> 7, evidence |-> 3]

\* Remedies that every profile of the run can allocate.
DecidableBundles ==
  {Opening(t, "Split", "FullRefund", NoPrior) : t \in {1, 2}}
    \union {Opening(2, "Split", "Split", NoPrior),
            Opening(2, "Repair", "FullRefund", PrimaryDecision)}

\* The least and the largest value, one that no share divides, every edge of the basis
\* points and one beyond it, each with the largest value its profile allows.
AmountBundles ==
  {LET b == Opening(1, "Split", "FullRefund", NoPrior)
   IN [b EXCEPT !.case.value = v, !.profile.maxValue = v, !.profile.bps = bps]
     : v \in {1, 10001, LargestAmount}, bps \in {0, 1, 3333, 9999, BpsScale, BpsScale + 1}}

\* A profile that leaves room for a human decision.
HumanBundles == {[Opening(2, "Split", "FullRefund", NoPrior) EXCEPT !.profile.automatic = FALSE]}

AllBundles == DecidableBundles \union AmountBundles \union HumanBundles

\* Bound: the edges and the refused profile need no more than two findings.
FewAtEdges ==
  [bundle EXCEPT !.findings = <<>>] \notin DecidableBundles => Len(bundle.findings) <= 2

\* A claim for a split under a profile that allows splits and falls back to a repair.
SplitClaims ==
  DecidableBundles \union {Opening(2, "Repair", "Split", NoPrior)}

FindingBy(a, disposition) ==
  [adjudicator |-> a, phase |-> IF a = "a1" THEN "Appeal" ELSE "Primary", case |-> 7,
   evidence |-> 3, policy |-> "pol", disposition |-> disposition,
   refs |-> IF disposition = "Abstain" THEN {} ELSE {"e2"}]

SomeFindings ==
  {FindingBy(a, d) : a \in {"p1", "p2"}, d \in {"SupportsClaim", "RejectsClaim"}}
    \union {FindingBy("p3", d) : d \in Dispositions}
    \union {FindingBy("a1", "SupportsClaim"),
            [FindingBy("p3", "RejectsClaim") EXCEPT !.case = 6],
            [FindingBy("p3", "SupportsClaim") EXCEPT !.refs = {"unverified"}],
            [FindingBy("p3", "SupportsClaim") EXCEPT !.refs = {}]}
=============================================================================

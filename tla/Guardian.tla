------------------------------ MODULE Guardian ------------------------------
(***************************************************************************)
(* The guardian gate (joan-guardian): one candidate, the votes presented   *)
(* with it, and the outcome.  A candidate is                               *)
(*   [schema, root, proposer, required, threshold, votes]                  *)
(* and a vote [guardian, role, root, decision, evidence].                  *)
(***************************************************************************)
EXTENDS Naturals, Sequences, FiniteSets

CandidateSchema == "joan.guardian-candidate.v0"
Decisions == {"approve", "deny", "abstain"}

Approvals(c) == {n \in DOMAIN c.votes : c.votes[n].decision = "approve"}

\* The evaluator refuses the candidate with an error and gives no receipt.
Malformed(c) ==
  \/ c.schema # CandidateSchema
  \/ c.threshold = 0
  \/ c.required = {}
  \/ \E n \in DOMAIN c.votes : c.votes[n].guardian = "" \/ c.votes[n].root # c.root
  \/ \E m, n \in DOMAIN c.votes : m # n /\ c.votes[m].guardian = c.votes[n].guardian
  \/ \E n \in Approvals(c) : c.votes[n].guardian = c.proposer

ApprovedRoles(c) == {c.votes[n].role : n \in Approvals(c)}
Denying(c) == {c.votes[n].guardian : n \in {m \in DOMAIN c.votes : c.votes[m].decision = "deny"}}
ApprovalCount(c) == Cardinality({c.votes[n].guardian : n \in Approvals(c)})

\* Faulty form: as many approvals as the threshold are not enough.
OutcomeAboveThreshold(c) ==
  IF Denying(c) # {} THEN "denied"
  ELSE IF c.required \subseteq ApprovedRoles(c) /\ ApprovalCount(c) > c.threshold THEN "approved"
  ELSE "pending"

Outcome(c) ==
  IF Denying(c) # {} THEN "denied"
  ELSE IF c.required \subseteq ApprovedRoles(c) /\ ApprovalCount(c) >= c.threshold THEN "approved"
  ELSE "pending"

\* The receipt of a well-formed candidate.
EvaluateCandidate(c) ==
  [root |-> c.root, outcome |-> Outcome(c), approvals |-> ApprovalCount(c),
   approvedRoles |-> ApprovedRoles(c), missingRoles |-> c.required \ ApprovedRoles(c),
   denying |-> Denying(c)]
=============================================================================

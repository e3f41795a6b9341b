------------------------------ MODULE CaseRules ------------------------------
(***************************************************************************)
(* The states of a dispute case and the transition table of joan-case.     *)
(***************************************************************************)

CaseStates ==
  { "Submitted", "IntakeValidation", "RejectedOutOfScope", "AwaitingCure",
    "Accepted", "PreservationHold", "NoticeServed", "ResponseWindow",
    "EvidenceCollection", "EvidenceLocked", "DeterministicEvaluation",
    "AutomatedSettlementOffered", "SettledByAgreement", "ReviewAssigned",
    "ProposedDecision", "ChallengeWindow", "FinalDecision", "AppealWindow",
    "Appealed", "AppealDecision", "RepairPending", "Reverification",
    "RemedyExecution", "ExecutionReconciliation", "Quarantined", "Expired",
    "Closed" }

(***************************************************************************)
(* is_allowed: the successors of each state; the others have none.         *)
(***************************************************************************)
Successors(state) ==
  CASE state = "Submitted"         -> {"IntakeValidation"}
    [] state = "IntakeValidation"  -> {"RejectedOutOfScope", "AwaitingCure", "Accepted"}
    [] state = "AwaitingCure"      -> {"IntakeValidation", "Expired"}
    [] state = "Accepted"          -> {"PreservationHold"}
    [] state = "PreservationHold"  -> {"NoticeServed"}
    [] state = "NoticeServed"      -> {"ResponseWindow"}
    [] state = "ResponseWindow"    -> {"EvidenceCollection", "Expired"}
    [] state \in {"EvidenceCollection", "Reverification"} -> {"EvidenceLocked"}
    [] state = "EvidenceLocked"    -> {"DeterministicEvaluation"}
    [] state = "DeterministicEvaluation" ->
         {"AutomatedSettlementOffered", "ReviewAssigned", "FinalDecision", "Quarantined"}
    [] state = "AutomatedSettlementOffered" -> {"SettledByAgreement", "ReviewAssigned"}
    [] state \in {"SettledByAgreement", "Quarantined"} -> {"RemedyExecution"}
    [] state = "ReviewAssigned"    -> {"ProposedDecision", "Quarantined"}
    [] state = "ProposedDecision"  -> {"ChallengeWindow", "FinalDecision"}
    [] state = "ChallengeWindow"   -> {"FinalDecision", "Appealed"}
    [] state = "FinalDecision"     -> {"AppealWindow", "RemedyExecution", "RepairPending"}
    [] state = "AppealWindow"      -> {"Appealed", "RemedyExecution"}
    [] state = "Appealed"          -> {"AppealDecision"}
    [] state = "AppealDecision"    -> {"RemedyExecution", "RepairPending", "Quarantined"}
    [] state = "RepairPending"     -> {"Reverification"}
    [] state = "RemedyExecution"   -> {"ExecutionReconciliation"}
    [] state = "ExecutionReconciliation" -> {"RemedyExecution", "Closed"}
    [] OTHER -> {}

\* Plausible mistakes in the table, one per promise it keeps.
IsAllowed_LockSkipped(from, to) ==
  to \in Successors(from) \/ <<from, to>> = <<"EvidenceCollection", "DeterministicEvaluation">>
IsAllowed_RepairTrusted(from, to) ==
  to \in Successors(from) \/ <<from, to>> = <<"RepairPending", "RemedyExecution">>
IsAllowed_AppealExpires(from, to) ==
  to \in Successors(from) \/ <<from, to>> = <<"Appealed", "Expired">>

IsAllowed(from, to) == to \in Successors(from)
=============================================================================

--------------------------------- MODULE MCCase ---------------------------------
(* Either several callers race on the intake, where the IntakeValidation /    *)
(* AwaitingCure cycle lets a state come back, or one caller walks the whole   *)
(* lifecycle, trying every legal pair and some that skip a gate.  Keys are    *)
(* interchangeable, so a caller picks one of the least two that are unused,   *)
(* or one that was used.                                                      *)
EXTENDS CaseLifecycle

CONSTANTS
  Walker,        \* the caller who may walk on alone
  RaceRevisions  \* bound: revisions at which several callers build requests

Skips ==
  { <<"Submitted", "Closed">>, <<"EvidenceCollection", "DeterministicEvaluation">>,
    <<"RepairPending", "RemedyExecution">>, <<"Appealed", "Expired">>,
    <<"IntakeValidation", "RemedyExecution">>, <<"NoticeServed", "EvidenceLocked">>,
    <<"Reverification", "DeterministicEvaluation">>, <<"Closed", "RemedyExecution">> }

AllProposals == Transitions \union Skips

Race(a, p, key) ==
  /\ case.revision < RaceRevisions
  /\ p[1] = case.state \/ p = <<"Submitted", "IntakeValidation">>
  /\ key \in case.keys \/ Cardinality({k \in Keys \ case.keys : k < key}) < 2
  /\ Prepare(a, p, key)

Walk(p, key) ==
  /\ \A a \in Actors \ {Walker} : request[a] = NoRequest
  /\ p[1] = case.state
  /\ key \in {case.revision, case.revision + 1}
  /\ Prepare(Walker, p, key)

MCNext ==
  \/ \E a \in Actors, p \in Proposals, key \in Keys : Race(a, p, key)
  \/ \E p \in Proposals, key \in Keys : Walk(p, key)
  \/ \E a \in Actors : Commit(a) \/ Refuse(a)

MCSpec == Init /\ [][MCNext]_vars
=============================================================================

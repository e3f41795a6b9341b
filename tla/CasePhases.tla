----------------------------- MODULE CasePhases -----------------------------
(***************************************************************************)
(* What the lifecycle of joan-case promises a party, without its 27 states:*)
(* a case is taken in, inquired into, decided and remedied in this order;  *)
(* a decision may send it back to the inquiry (a repair); it can end at    *)
(* intake, during the inquiry (a deadline) or after the remedy, never from *)
(* a decision; it is decided only once the respondent was notified and the *)
(* evidence was locked, and what is over stays over.                       *)
(***************************************************************************)
VARIABLES
  phase,   \* where the case is
  heard    \* TRUE once the respondent was notified and evidence was locked

PhaseInit == phase = "Intake" /\ ~heard

\* Notice and evidence become complete while the inquiry goes on.
Hear      == phase = "Inquiry" /\ ~heard /\ heard' /\ phase' = phase
Accept    == phase = "Intake" /\ phase' = "Inquiry" /\ heard' = heard
Evaluate  == phase = "Inquiry" /\ heard /\ phase' = "Decision" /\ heard' = heard
Repair    == phase = "Decision" /\ phase' = "Inquiry" /\ heard' = heard
Execute   == phase = "Decision" /\ heard /\ phase' = "Remedy" /\ heard' = heard
Finish    == phase \in {"Intake", "Inquiry", "Remedy"} /\ phase' = "Over" /\ heard' = heard

PhaseNext == Hear \/ Accept \/ Evaluate \/ Repair \/ Execute \/ Finish

Spec == PhaseInit /\ [][PhaseNext]_<<phase, heard>>
=============================================================================

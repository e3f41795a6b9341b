---------------------------- MODULE ToolAdmission ----------------------------
(***************************************************************************)
(* What promotion promises: a tool is admitted for a specification only    *)
(* when it is the tool of that specification, does what every test of it   *)
(* says, and has been approved, as this very tool, by every guardian the   *)
(* policy names.  What is admitted stays admitted.                         *)
(***************************************************************************)
CONSTANTS Specifications, Tools, GuardianNames,
          Meets(_, _)    \* the specification and the tool

VARIABLES
  approved,   \* pairs of a guardian and a tool
  admitted    \* pairs of a specification and a tool

vars == <<approved, admitted>>

Init == approved = {} /\ admitted = {}

Approve(guardian, tool) ==
  /\ approved' = approved \union {<<guardian, tool>>}
  /\ UNCHANGED admitted

Admit(specification, tool) ==
  /\ Meets(specification, tool)
  /\ GuardianNames \X {tool} \subseteq approved
  /\ admitted' = admitted \union {<<specification, tool>>}
  /\ UNCHANGED approved

Next ==
  \/ \E guardian \in GuardianNames, tool \in Tools : Approve(guardian, tool)
  \/ \E specification \in Specifications, tool \in Tools : Admit(specification, tool)

Spec == Init /\ [][Next]_vars
=============================================================================

------------------------ MODULE InstructionResolution ------------------------
(***************************************************************************)
(* resolve_instructions as operators: which of the requested effects the   *)
(* host's authority allows, given what repository content says about them. *)
(*                                                                         *)
(* An authority has roots (each with the capabilities it grants and hard   *)
(* denies), the capabilities that need an approval although granted, those *)
(* the host may be asked for, and approvals.  An instruction is one        *)
(* statement together with the source class and the scope of its envelope; *)
(* the order of envelopes and of the statements in them is one order.      *)
(* "subject" stands for the pair of subject and action, a path for its     *)
(* components; no prefix is empty.  Schemas are the supported ones;        *)
(* diagnostics are left out.                                               *)
(***************************************************************************)
EXTENDS Naturals, Sequences

CONSTANT NoValue   \* a statement without a directive value

DataSources == {"ReferencedSpecification", "UntrustedContent"}
Sources == {"RepositoryGovernance", "PathGuidance"} \union DataSources
Kinds == {"Fact", "Procedure", "Constraint", "Request", "GrantClaim", "Opaque"}
Decisions == {"Data", "Advise", "Allow", "Deny", "Ask", "Conflict", "NoAuthorityRoots"}

-----------------------------------------------------------------------------
(* The host's side.                                                         *)

Grants(authority) ==
  {c \in authority.roots[1].grants :
     \A n \in DOMAIN authority.roots : c \in authority.roots[n].grants}

HardDenies_FirstRoot(authority) == authority.roots[1].denies

\* The union of the denies is taken over all roots, whichever grants what.
HardDenies(authority) ==
  UNION {authority.roots[n].denies : n \in DOMAIN authority.roots}

Ceiling(authority) == Grants(authority) \ HardDenies(authority)

\* A nonce is never empty here; the slot, the label and the nonce itself are not looked at.
HasExactApproval(authority, c) ==
  \E n \in DOMAIN authority.approvals :
    /\ authority.approvals[n].task = authority.task
    /\ authority.approvals[n].capabilities = {c}

-----------------------------------------------------------------------------
(* What the instructions say.                                               *)

ScopeApplies(scope, authority) ==
  /\ \/ scope.paths = {}
     \/ \E prefix \in scope.paths :
          /\ Len(prefix) <= Len(authority.path)
          /\ SubSeq(authority.path, 1, Len(prefix)) = prefix
  /\ scope.taskKinds = {} \/ authority.taskKind \in scope.taskKinds

Heeded_Data(authority, instructions) ==
  {n \in DOMAIN instructions : ScopeApplies(instructions[n].scope, authority)}

\* The instructions that are heeded: in scope, and not mere data.
Heeded(authority, instructions) ==
  {n \in DOMAIN instructions :
     /\ ScopeApplies(instructions[n].scope, authority)
     /\ instructions[n].source \notin DataSources}

OfKind(kinds, authority, instructions) ==
  {n \in Heeded(authority, instructions) : instructions[n].kind \in kinds}

RepositoryDenies(authority, instructions) ==
  UNION {instructions[n].capabilities : n \in OfKind({"Constraint"}, authority, instructions)}

ClaimsAuthority(authority, instructions) ==
  OfKind({"GrantClaim"}, authority, instructions) # {}

HasOpaqueEffect(authority, instructions) ==
  \E n \in OfKind({"Opaque"}, authority, instructions) : instructions[n].capabilities # {}

HasAdvice(authority, instructions) ==
  OfKind({"Procedure", "Request"}, authority, instructions) # {}

\* A directive conflicts with the latest one before it for the same source class and subject.
HasConflict(authority, instructions) ==
  LET valued == {n \in OfKind({"Procedure", "Request"}, authority, instructions) :
                   instructions[n].value # NoValue}
      SameKey(m, n) == /\ instructions[m].source = instructions[n].source
                       /\ instructions[m].subject = instructions[n].subject
  IN \E m, n \in valued :
       /\ m < n /\ SameKey(m, n)
       /\ \A k \in valued : m < k /\ k < n => ~SameKey(k, n)
       /\ instructions[m].value # instructions[n].value

-----------------------------------------------------------------------------
EffectiveAuthority(authority, instructions) ==
  Ceiling(authority) \ RepositoryDenies(authority, instructions)

\* decide_request: the first of these that applies.
Decide(authority, instructions, requested) ==
  LET missing == requested \ EffectiveAuthority(authority, instructions)
      denied == HardDenies(authority) \union RepositoryDenies(authority, instructions)
  IN IF \/ ClaimsAuthority(authority, instructions)
        \/ HasOpaqueEffect(authority, instructions) THEN "Deny"
     ELSE IF HasConflict(authority, instructions) THEN "Conflict"
     ELSE IF requested = {} THEN
       IF HasAdvice(authority, instructions) THEN "Advise" ELSE "Data"
     ELSE IF missing # {} THEN
       IF missing \intersect denied = {} /\ missing \subseteq authority.approvable
       THEN "Ask" ELSE "Deny"
     ELSE IF \A c \in requested \intersect authority.approvalRequired :
               HasExactApproval(authority, c) THEN "Allow"
     ELSE "Ask"

Resolve(authority, instructions, requested) ==
  IF authority.roots = <<>> THEN "NoAuthorityRoots"
  ELSE Decide(authority, instructions, requested)
=============================================================================

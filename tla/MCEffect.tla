------------------------------- MODULE MCEffect -------------------------------
(* One program of each profile and one that requests nothing.  Either receipts  *)
(* are planned, every program's own and what becomes of it when it is altered   *)
(* in one way, or repository content is gathered.                               *)
EXTENDS EffectPlanning

Call(function, effect, slot, information, arguments) ==
  [function |-> function, effect |-> effect, slot |-> slot, information |-> information,
   arguments |-> arguments]

Program(profile, task, calls) == [profile |-> profile, task |-> task, calls |-> calls]

Legacy == Program("legacy", "t1",
  <<Call("main", "call", NoSlot, NoLabel, "a"), Call("main", "call", NoSlot, NoLabel, "b")>>)
Linear == Program("linear", "t2",
  <<Call("main", "call", "first", NoLabel, "a"), Call("main", "send", "second", NoLabel, "a")>>)
Flow == Program("information", "t3", <<Call("main", "send", "first", "billing", "a")>>)
Pure == Program("linear", "t4", <<>>)

MCPrograms == {Legacy, Linear, Flow, Pure}

-----------------------------------------------------------------------------
(* What may become of a receipt between the VM and the planner.                 *)

AlteredRequests(r) ==
  {[r EXCEPT !.arguments = "c"], [r EXCEPT !.effect = "send"], [r EXCEPT !.slot = NoSlot],
   [r EXCEPT !.information = "handoff"], [r EXCEPT !.index = 2]}

Reidentified(receipt) ==
  LET requests == receipt.requests IN
  [receipt EXCEPT !.requests =
     [n \in DOMAIN requests |->
        [requests[n] EXCEPT !.id = RequestId(receipt.schema, receipt.task, requests[n])]]]

Relabelled(receipt) ==
  UNION {{[receipt EXCEPT !.schema = profile],
          [receipt EXCEPT !.schema = profile, !.identity = profile]} : profile \in Profiles}

Untyped(receipt) ==
  LET requests == receipt.requests IN
  [receipt EXCEPT !.schema = "legacy", !.identity = "legacy", !.requests =
     [n \in DOMAIN requests |-> [requests[n] EXCEPT !.slot = NoSlot, !.information = NoLabel]]]

Altered(receipt) ==
  LET requests == receipt.requests IN
  UNION {{[receipt EXCEPT !.requests[n] = r] : r \in AlteredRequests(requests[n])} :
           n \in DOMAIN requests}
    \union {[receipt EXCEPT !.requests = SubSeq(requests, 1, n)] : n \in DOMAIN requests}
    \union {[receipt EXCEPT !.requests = <<requests[n], requests[m]>>] : m, n \in DOMAIN requests}
    \union Relabelled(receipt) \union {Untyped(receipt)}

MCReceipts ==
  LET altered == UNION {Altered(Emitted(p)) : p \in MCPrograms}
  IN altered \union {Reidentified(receipt) : receipt \in altered}

-----------------------------------------------------------------------------
Genuine(p, n) ==
  LET r == EmittedRequest(p, n) IN
  [nonce |-> r.id, task |-> p.task, capabilities |-> {r.effect}, slot |-> r.slot,
   information |-> r.information]

MCApprovals ==
  UNION {{Genuine(p, n) : n \in DOMAIN p.calls} : p \in MCPrograms}
    \union {[Genuine(Linear, 1) EXCEPT !.slot = "second"],
            [Genuine(Linear, 2) EXCEPT !.capabilities = {"call", "send"}],
            [Genuine(Flow, 1) EXCEPT !.information = "handoff"]}

Root(grants, denies) == [grants |-> grants, denies |-> denies]

Authority(task, roots, approvalRequired, approvable) ==
  [task |-> task, path |-> <<"src", "lib">>, taskKind |-> "review", roots |-> roots,
   approvalRequired |-> approvalRequired, approvable |-> approvable, approvals |-> <<>>]

All == Root({"call", "send"}, {})

MCAuthorities ==
  {Authority("t1", <<All>>, {"call"}, {}),
   Authority("t2", <<All, All>>, {"call", "send"}, {}),
   Authority("t2", <<All, Root({"call", "send"}, {"send"})>>, {}, {"send"}),
   Authority("t2", <<All, Root({"call"}, {})>>, {"call"}, {"send"}),
   Authority("t3", <<All>>, {}, {"call"}),
   Authority("t3", <<>>, {}, {})}

Anywhere == [paths |-> {}, taskKinds |-> {}]
Within(paths, taskKinds) == [paths |-> paths, taskKinds |-> taskKinds]

Statement(source, scope, kind, value, capabilities) ==
  [source |-> source, scope |-> scope, kind |-> kind, subject |-> "formatter", value |-> value,
   capabilities |-> capabilities]

MCInstructions ==
  {Statement("RepositoryGovernance", Anywhere, "Constraint", NoValue, {"call"}),
   Statement("PathGuidance", Within({<<"docs">>}, {}), "Constraint", NoValue, {"send"}),
   Statement("PathGuidance", Within({<<"src">>}, {"review"}), "Constraint", NoValue, {"send"}),
   Statement("UntrustedContent", Anywhere, "Constraint", NoValue, {"call"}),
   Statement("ReferencedSpecification", Anywhere, "GrantClaim", NoValue, {"call"}),
   Statement("RepositoryGovernance", Anywhere, "GrantClaim", NoValue, {"send"}),
   Statement("PathGuidance", Anywhere, "Opaque", NoValue, {"send"}),
   Statement("PathGuidance", Anywhere, "Opaque", NoValue, {}),
   Statement("PathGuidance", Anywhere, "Procedure", "rustfmt", {}),
   Statement("PathGuidance", Anywhere, "Request", "other", {"send"}),
   Statement("RepositoryGovernance", Anywhere, "Request", "other", {"send"}),
   Statement("RepositoryGovernance", Anywhere, "Fact", NoValue, {"send"})}

Issued == 3     \* bound: different nonces approved, when receipts are planned
Presented == 1  \* bound: approvals in an authority under which content is gathered

\* The host presents another authority at first or after a plan.
MCNext ==
  \/ /\ instructions = <<>>
     /\ \/ answer \in {"none", "authorized"} /\ \E a \in Authorities : Present(a)
        \/ \E a \in Approvals :
             /\ a.task = authority.task
             /\ Cardinality(approved \union {a.nonce}) <= Issued
             /\ Approve(a)
        \/ \E receipt \in Receipts :
             Authorize(receipt) \/ PlanNothing(receipt) \/ RefusePlan(receipt)
  \/ /\ answer = "none"
     /\ Len(authority.approvals) = Cardinality(approved) /\ Cardinality(approved) <= Presented
     /\ \E instruction \in Instructions : Gather(instruction)

MCSpec == Init /\ [][MCNext]_vars
=============================================================================

---------------------------- MODULE EffectPlanning ----------------------------
(***************************************************************************)
(* One CapabilityLedger and what happens around it: the host presents an   *)
(* authority and adds approvals to it, repository content is gathered, and *)
(* plan_effects is called with receipts of executions, any number of times *)
(* and with receipts that may have been altered since the VM emitted them. *)
(*                                                                         *)
(* A program has no input, so that it is known by what it requests: its    *)
(* profile, its task (the value of its semantic digest, which covers the   *)
(* profile) and its calls.  A request identity is the tuple of the fields  *)
(* it is a digest of.  A call of plan_effects holds the ledger exclusively *)
(* and is one step.                                                        *)
(***************************************************************************)
EXTENDS InstructionResolution, FiniteSets

CONSTANTS
  Programs,      \* the programs the host runs
  Receipts,      \* the receipts that may reach plan_effects
  Approvals,     \* the approvals the host may issue
  Authorities,   \* the authorities it may present, before any approval
  Instructions,  \* statements of repository content
  Capabilities,
  MaxApprovals,  \* bound: approvals in one authority
  MaxGathered,   \* bound: instructions gathered
  NoSlot, NoLabel

Profiles == {"legacy", "linear", "information"}

RequestId_Payload(profile, task, r) ==
  IF profile = "legacy" THEN <<task, r.index>>
  ELSE <<task, r.index, r.function, r.effect, r.slot>>

\* The typed identity of a request; that of a legacy program is only a position.
RequestId(profile, task, r) ==
  CASE profile = "legacy" -> <<task, r.index>>
    [] profile = "linear" -> <<task, r.index, r.function, r.effect, r.slot, r.arguments>>
    [] profile = "information" ->
         <<task, r.index, r.function, r.effect, r.slot, r.arguments, r.information>>

\* What the VM emits for the n-th call of a program.  The code counts from 0.
EmittedRequest(program, n) ==
  LET call == program.calls[n]
      r == [index |-> n, function |-> call.function, effect |-> call.effect,
            slot |-> call.slot, information |-> call.information, arguments |-> call.arguments]
  IN [index |-> n, id |-> RequestId(program.profile, program.task, r),
      function |-> r.function, effect |-> r.effect, slot |-> r.slot,
      information |-> r.information, arguments |-> r.arguments]

\* "identity" is the profile of the semantic identity, the digest domain and the bytecode.
Emitted(program) ==
  [schema |-> program.profile, identity |-> program.profile, task |-> program.task,
   requests |-> [n \in DOMAIN program.calls |-> EmittedRequest(program, n)]]

\* A task is the digest of one program.  Whoever approves has run the program: an approval
\* names the identity of a request that some program emits, though its other fields may be wrong.
ASSUME ProgramAssumption ==
  /\ \A p, q \in Programs : p.task = q.task => p = q
  /\ \A p \in Programs :
       /\ p.profile \in Profiles
       /\ \A n \in DOMAIN p.calls :
            (p.calls[n].information # NoLabel) <=> p.profile = "information"
ASSUME ApprovalAssumption ==
  \A a \in Approvals :
    \E p \in Programs : \E n \in DOMAIN p.calls : a.nonce = EmittedRequest(p, n).id
ASSUME AuthorityAssumption ==
  \A a \in Authorities : "approvals" \in DOMAIN a /\ a = [a EXCEPT !.approvals = <<>>]
ASSUME ReceiptAssumption ==
  \A receipt \in Receipts :
    /\ receipt.schema \in Profiles
    /\ receipt.requests \in Seq({receipt.requests[n] : n \in DOMAIN receipt.requests})

VARIABLES
  authority,     \* the AuthorityEnvelope in force
  instructions,  \* what was gathered from the repository, in order
  consumed,      \* consumed_nonces
  approved,      \* history: nonces of all approvals ever issued
  plans,         \* history: the plans that authorize effects
  answer         \* of the last call of plan_effects

vars == <<authority, instructions, consumed, approved, plans, answer>>

Init ==
  /\ authority \in Authorities
  /\ instructions = <<>>
  /\ consumed = {}
  /\ approved = {}
  /\ plans = <<>>
  /\ answer = "none"

-----------------------------------------------------------------------------
(* The host and the repository.                                             *)

Present(a) ==
  /\ a # authority
  /\ authority' = a
  /\ UNCHANGED <<instructions, consumed, approved, plans, answer>>

\* The same approval may be added twice.
Approve(a) ==
  /\ Len(authority.approvals) < MaxApprovals
  /\ authority' = [authority EXCEPT !.approvals = Append(@, a)]
  /\ approved' = approved \union {a.nonce}
  /\ UNCHANGED <<instructions, consumed, plans, answer>>

Gather(instruction) ==
  /\ Len(instructions) < MaxGathered
  /\ instructions' = Append(instructions, instruction)
  /\ UNCHANGED <<authority, consumed, approved, plans, answer>>

-----------------------------------------------------------------------------
(* plan_effects.                                                            *)

ProfileValid(receipt) ==
  /\ receipt.schema = receipt.identity
  /\ \A n \in DOMAIN receipt.requests :
       LET r == receipt.requests[n] IN
       /\ (r.slot # NoSlot) <=> receipt.schema \in {"linear", "information"}
       /\ (r.information # NoLabel) <=> receipt.schema = "information"

Invalid(receipt, n) ==
  LET r == receipt.requests[n] IN
  \/ r.index # n
  \/ r.id # RequestId(receipt.schema, receipt.task, r)
  \/ \E m \in 1..(n - 1) : receipt.requests[m].id = r.id

Exact(approval, a, r) ==
  /\ approval.nonce = r.id
  /\ approval.task = a.task
  /\ approval.capabilities = {r.effect}
  /\ approval.slot = r.slot
  /\ approval.information = r.information

\* Exactly one approval, not at least one.
Approved(a, r) ==
  \E n \in DOMAIN a.approvals :
    \A m \in DOMAIN a.approvals : Exact(a.approvals[m], a, r) <=> m = n

\* What is wrong with the n-th request, looked at in this order.
Fault(receipt, a, n) ==
  LET r == receipt.requests[n] IN
  IF Invalid(receipt, n) THEN "InvalidRequest"
  ELSE IF r.id \in consumed THEN "Replay"
  ELSE IF ~Approved(a, r) THEN "MissingApproval"
  ELSE "none"

RequestedEffects(receipt) == {receipt.requests[n].effect : n \in DOMAIN receipt.requests}

\* The resolver is asked without any instruction.
Unauthorized(receipt, a) == Resolve(a, <<>>, RequestedEffects(receipt)) # "Allow"

Refusals(receipt, a) ==
  {n \in DOMAIN receipt.requests : Fault(receipt, a, n) # "none"}

\* The answer for an execution that requests effects, under an authority that was given.
Judgement(receipt, a) ==
  IF a.task # receipt.task THEN "TaskMismatch"
  ELSE IF a.roots = <<>> THEN "NoAuthorityRoots"
  ELSE IF Unauthorized(receipt, a) THEN "AuthorityDenied"
  ELSE IF Refusals(receipt, a) = {} THEN "authorized"
  ELSE Fault(receipt, a,
             CHOOSE n \in Refusals(receipt, a) : \A m \in Refusals(receipt, a) : n <= m)

Authorize(receipt) ==
  /\ ProfileValid(receipt) /\ receipt.requests # <<>>
  /\ Judgement(receipt, authority) = "authorized"
  /\ plans' = Append(plans, receipt)
  /\ consumed' = consumed \union {receipt.requests[n].id : n \in DOMAIN receipt.requests}
  /\ answer' = "authorized"
  /\ UNCHANGED <<authority, instructions, approved>>

PlanNothing(receipt) ==
  /\ ProfileValid(receipt) /\ receipt.requests = <<>>
  /\ answer' = "pure"
  /\ UNCHANGED <<authority, instructions, consumed, approved, plans>>

\* A refusal that has already consumed the nonces of the requests before the faulty one.
RefusePlan_Partial(receipt) ==
  /\ ProfileValid(receipt) /\ receipt.requests # <<>>
  /\ Judgement(receipt, authority) # "authorized"
  /\ answer' = Judgement(receipt, authority)
  /\ consumed' = IF Judgement(receipt, authority) = "MissingApproval"
                 THEN consumed \union {receipt.requests[n].id :
                        n \in DOMAIN receipt.requests \ Refusals(receipt, authority)}
                 ELSE consumed
  /\ UNCHANGED <<authority, instructions, approved, plans>>

\* An absent authority is refused like one that denies.
RefusePlan(receipt) ==
  /\ \/ ~ProfileValid(receipt) /\ answer' = "ProfileMismatch"
     \/ /\ ProfileValid(receipt) /\ receipt.requests # <<>>
        /\ \/ answer' = "AuthorityDenied"
           \/ Judgement(receipt, authority) # "authorized"
              /\ answer' = Judgement(receipt, authority)
  /\ UNCHANGED <<authority, instructions, consumed, approved, plans>>

Next ==
  \/ \E a \in Authorities : Present(a)
  \/ \E a \in Approvals : Approve(a)
  \/ \E instruction \in Instructions : Gather(instruction)
  \/ \E receipt \in Receipts :
       Authorize(receipt) \/ PlanNothing(receipt) \/ RefusePlan(receipt)

Spec == Init /\ [][Next]_vars

-----------------------------------------------------------------------------
RequestFields ==
  {"index", "id", "function", "effect", "slot", "information", "arguments"}

Ids(receipt) == {receipt.requests[n].id : n \in DOMAIN receipt.requests}
Nonces == {a.nonce : a \in Approvals}

\* The type invariant.  What is consumed are nonces that were approved.
TypeOK ==
  /\ [authority EXCEPT !.approvals = <<>>] \in Authorities
  /\ authority.approvals \in Seq(Approvals)
  /\ instructions \in Seq(Instructions)
  /\ consumed \subseteq approved
  /\ approved \subseteq Nonces
  /\ plans \in Seq(Receipts)
  /\ answer \in {"none", "pure", "authorized", "ProfileMismatch", "TaskMismatch",
                 "NoAuthorityRoots", "AuthorityDenied", "InvalidRequest", "Replay",
                 "MissingApproval"}

\* plan_effects pays for a plan with approvals that were issued, with one for every effect and
\* all at once, and no approval pays twice, whatever is altered, repeated or approved again;
\* a refusal consumes nothing.
Vouchers == INSTANCE OneUseVouchers
  WITH Vouchers <- Nonces, issued <- approved, spent <- consumed,
       payments <- [k \in DOMAIN plans |-> Ids(plans[k])]
ImplementsVouchers == Vouchers!Spec

\* A receipt that is planned comes from a program of its own profile, and in the two typed
\* profiles each request is the one the VM emitted at that place: arguments, order, slot, label
\* and profile cannot have changed on the way.  (A legacy identity is a position, so that the
\* arguments of a legacy request are bound by nothing; and a receipt may lack its last requests.)
PlannedAsEmitted ==
  \A k \in DOMAIN plans : \A n \in DOMAIN plans[k].requests :
    \E p \in Programs :
      /\ p.task = plans[k].task
      /\ p.profile = plans[k].schema
      /\ n \in DOMAIN p.calls
      /\ p.profile # "legacy" =>
           \A field \in RequestFields : plans[k].requests[n][field] = EmittedRequest(p, n)[field]

\* What is planned is within the authority in force when it is planned: every root grants every
\* effect, no root denies one, and none of it had been paid for before.
PlansAreAuthorized ==
  [][plans' # plans =>
       \A n \in DOMAIN plans'[Len(plans')].requests :
         LET r == plans'[Len(plans')].requests[n] IN
         /\ r.id \in consumed' \ consumed
         /\ \A k \in DOMAIN authority.roots :
              r.effect \in authority.roots[k].grants \ authority.roots[k].denies]_vars

\* Repository content never widens authority: one more statement, whatever it claims, leaves an
\* Allow or an Ask only where there was one before, and content that is data changes nothing.
ContentOnlyAttenuates ==
  [][instructions' # instructions =>
       \A requested \in SUBSET Capabilities :
         LET before == Resolve(authority, instructions, requested)
             after == Resolve(authority', instructions', requested)
         IN \/ after = before
            \/ /\ after \notin {"Allow", "Ask"}
               /\ instructions'[Len(instructions')].source \notin DataSources]_vars

\* The comment on InstructionDecision::Ask: a host approval could resolve the only missing
\* obligation, i.e. with an approval of each requested effect the answer would be Allow.
AskCanBeAnswered ==
  \A requested \in SUBSET Capabilities :
    Resolve(authority, instructions, requested) = "Ask" =>
      \E approvals \in [1..Cardinality(requested) ->
                          [task : {authority.task}, capabilities : {{c} : c \in requested}]] :
        Resolve([authority EXCEPT !.approvals = approvals], instructions, requested) = "Allow"
=============================================================================

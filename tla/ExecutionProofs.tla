--------------------------- MODULE ExecutionProofs ---------------------------
(***************************************************************************)
(* Theorems about what is executed and how: the planner of effects, for    *)
(* all programs, receipts, approvals and authorities; then one attempt of  *)
(* the host executor, for every length of the request, capacity of the     *)
(* pipes and limit of the response, whatever the child and its helper do   *)
(* and however their steps fall between those of the controller.           *)
(***************************************************************************)
EXTENDS EffectPlanning, HostController, TLAPS

\* What an authorized receipt looked like.
LEMMA AuthorizedReceipt ==
  ASSUME NEW vmReceipt, ProfileValid(vmReceipt), vmReceipt.requests # <<>>,
         Judgement(vmReceipt, authority) = "authorized",
         NEW n \in DOMAIN vmReceipt.requests
  PROVE  /\ ~Invalid(vmReceipt, n)
         /\ vmReceipt.requests[n].id \notin consumed
         /\ Approved(authority, vmReceipt.requests[n])
<1>1. \A m : Fault(vmReceipt, authority, m) # "authorized"
  BY DEF Fault
<1>2. Refusals(vmReceipt, authority) = {}
  BY <1>1 DEF Judgement
<1>3. Fault(vmReceipt, authority, n) = "none"
  BY <1>2 DEF Refusals
<1> QED
  BY <1>3 DEF Fault

\* A typed identity tells the profile, and all that the profile covers; a legacy one tells
\* the position.
LEMMA IdentitiesDiffer ==
  ASSUME NEW P \in Profiles, NEW Q \in Profiles, NEW s, NEW t, NEW q, NEW r,
         RequestId(P, s, q) = RequestId(Q, t, r)
  PROVE  /\ P = Q
         /\ s = t
         /\ q.index = r.index
         /\ P # "legacy" => /\ q.function = r.function
                            /\ q.effect = r.effect
                            /\ q.slot = r.slot
                            /\ q.arguments = r.arguments
         /\ P = "information" => q.information = r.information
<1>1. /\ P = "legacy" => Len(RequestId(P, s, q)) = 2
      /\ P = "linear" => Len(RequestId(P, s, q)) = 6
      /\ P = "information" => Len(RequestId(P, s, q)) = 7
  BY DEF RequestId
<1>2. /\ Q = "legacy" => Len(RequestId(Q, t, r)) = 2
      /\ Q = "linear" => Len(RequestId(Q, t, r)) = 6
      /\ Q = "information" => Len(RequestId(Q, t, r)) = 7
  BY DEF RequestId
<1>3. P = Q
  BY <1>1, <1>2 DEF Profiles
<1>4. CASE P = "legacy"
  BY <1>3, <1>4 DEF RequestId
<1>5. CASE P = "linear"
  BY <1>3, <1>5 DEF RequestId
<1>6. CASE P = "information"
  BY <1>3, <1>6 DEF RequestId
<1> QED
  BY <1>3, <1>4, <1>5, <1>6 DEF Profiles

-----------------------------------------------------------------------------

\* What the authority in force holds was issued, the nonces of its approvals are recorded.
EffectInv ==
  /\ TypeOK
  /\ "approvals" \in DOMAIN authority
  /\ \A n \in DOMAIN authority.approvals : authority.approvals[n].nonce \in approved

\* The requests of a receipt that is planned were approved, each by an issued approval.
LEMMA RequestsWereApproved ==
  ASSUME EffectInv, NEW vmReceipt \in Receipts, Authorize(vmReceipt),
         NEW n \in DOMAIN vmReceipt.requests
  PROVE  \E a \in Approvals :
           /\ a.nonce = vmReceipt.requests[n].id
           /\ a.nonce \in approved \ consumed
<1>1. /\ Approved(authority, vmReceipt.requests[n])
      /\ vmReceipt.requests[n].id \notin consumed
  BY AuthorizedReceipt DEF Authorize
<1>2. PICK m \in DOMAIN authority.approvals :
        authority.approvals[m].nonce = vmReceipt.requests[n].id
  BY <1>1 DEF Approved, Exact
<1>3. authority.approvals[m] \in Approvals
  BY <1>2 DEF EffectInv, TypeOK
<1> QED
  BY <1>1, <1>2, <1>3 DEF EffectInv

\* So that a planned request is one that some program emits.
LEMMA RequestsWereEmitted ==
  ASSUME EffectInv, NEW vmReceipt \in Receipts, Authorize(vmReceipt),
         NEW n \in DOMAIN vmReceipt.requests
  PROVE  \E p \in Programs :
           /\ p.task = vmReceipt.task
           /\ p.profile = vmReceipt.schema
           /\ n \in DOMAIN p.calls
           /\ p.profile # "legacy" =>
                \A field \in RequestFields :
                  vmReceipt.requests[n][field] = EmittedRequest(p, n)[field]
<1> DEFINE r == vmReceipt.requests[n]
<1>1. PICK a \in Approvals : a.nonce = r.id
  BY RequestsWereApproved
<1>2a. PICK p \in Programs : \E k \in DOMAIN p.calls : r.id = EmittedRequest(p, k).id
  BY <1>1, ApprovalAssumption
<1>2. PICK k \in DOMAIN p.calls : r.id = EmittedRequest(p, k).id
  BY <1>2a
<1> DEFINE call == p.calls[k]
           e == [index |-> k, function |-> call.function, effect |-> call.effect,
                 slot |-> call.slot, information |-> call.information,
                 arguments |-> call.arguments]
<1>3. EmittedRequest(p, k) =
        [index |-> k, id |-> RequestId(p.profile, p.task, e),
         function |-> call.function, effect |-> call.effect, slot |-> call.slot,
         information |-> call.information, arguments |-> call.arguments]
  BY DEF EmittedRequest
<1>4. /\ r.index = n
      /\ r.id = RequestId(vmReceipt.schema, vmReceipt.task, r)
  BY AuthorizedReceipt DEF Authorize, Invalid
<1>5. vmReceipt.schema \in Profiles /\ p.profile \in Profiles
  BY ReceiptAssumption, ProgramAssumption
<1>6. RequestId(vmReceipt.schema, vmReceipt.task, r) = RequestId(p.profile, p.task, e)
  BY <1>2, <1>3, <1>4
<1>7. /\ vmReceipt.schema = p.profile
      /\ vmReceipt.task = p.task
      /\ r.index = e.index
      /\ vmReceipt.schema # "legacy" => /\ r.function = e.function
                                      /\ r.effect = e.effect
                                      /\ r.slot = e.slot
                                      /\ r.arguments = e.arguments
      /\ vmReceipt.schema = "information" => r.information = e.information
  <2> HIDE DEF r, e
  <2> QED
    BY <1>5, <1>6, IdentitiesDiffer
<1>8. k = n
  BY <1>4, <1>7
<1>9. vmReceipt.schema # "legacy" => r.information = call.information
  <2>1. CASE vmReceipt.schema = "linear"
    <3>1. r.information = NoLabel
      BY <2>1 DEF Authorize, ProfileValid
    <3>2. call.information = NoLabel
      BY <1>2, <1>7, <2>1, ProgramAssumption
    <3> QED
      BY <3>1, <3>2
  <2> QED
    BY <1>5, <1>7, <2>1 DEF Profiles
<1>10. vmReceipt.schema # "legacy" =>
         \A field \in RequestFields : r[field] = EmittedRequest(p, n)[field]
  <2> SUFFICES ASSUME vmReceipt.schema # "legacy", NEW field \in RequestFields
               PROVE  r[field] = EmittedRequest(p, k)[field]
    BY <1>8
  <2>1. r.id = EmittedRequest(p, k).id
    BY <1>2
  <2> QED
    BY <1>3, <1>7, <1>9, <2>1 DEF RequestFields
<1> QED
  BY <1>7, <1>8, <1>10

-----------------------------------------------------------------------------
LEMMA EffectInit == Init => EffectInv /\ PlannedAsEmitted
<1> SUFFICES ASSUME Init PROVE EffectInv /\ PlannedAsEmitted
  OBVIOUS
<1>1. authority \in Authorities /\ "approvals" \in DOMAIN authority
  BY AuthorityAssumption DEF Init
<1>2. [authority EXCEPT !.approvals = <<>>] = authority
  BY AuthorityAssumption, Zenon DEF Init
<1>2a. authority.approvals = <<>>
  BY <1>1, <1>2
<1>3. TypeOK
  BY <1>1, <1>2, <1>2a DEF Init, TypeOK
<1> QED
  BY <1>1, <1>2a, <1>3 DEF Init, EffectInv, PlannedAsEmitted

LEMMA PresentStep ==
  ASSUME EffectInv, NEW a \in Authorities, Present(a)
  PROVE  EffectInv'
<1>1. authority' \in Authorities /\ "approvals" \in DOMAIN authority'
  BY AuthorityAssumption DEF Present
<1>2. [authority' EXCEPT !.approvals = <<>>] = authority'
  BY <1>1, AuthorityAssumption, Zenon
<1>3. authority'.approvals = <<>>
  BY <1>1, <1>2
<1> QED
  BY <1>1, <1>2, <1>3 DEF EffectInv, TypeOK, Present

LEMMA ApproveStep ==
  ASSUME EffectInv, NEW a \in Approvals, Approve(a)
  PROVE  EffectInv'
<1>1. /\ "approvals" \in DOMAIN authority'
      /\ authority'.approvals = Append(authority.approvals, a)
  BY DEF EffectInv, Approve
<1>2. [authority' EXCEPT !.approvals = <<>>] = [authority EXCEPT !.approvals = <<>>]
  BY DEF EffectInv, Approve
<1>3. authority'.approvals \in Seq(Approvals)
  BY <1>1 DEF EffectInv, TypeOK
<1>4. \A n \in DOMAIN authority'.approvals : authority'.approvals[n].nonce \in approved'
  BY <1>1 DEF EffectInv, TypeOK, Approve
<1>5. approved' \subseteq Nonces /\ approved \subseteq approved'
  BY DEF EffectInv, TypeOK, Approve, Nonces
<1> QED
  BY <1>1, <1>2, <1>3, <1>4, <1>5 DEF EffectInv, TypeOK, Approve

LEMMA AuthorizeStep ==
  ASSUME EffectInv, NEW vmReceipt \in Receipts, Authorize(vmReceipt)
  PROVE  EffectInv' /\ (PlannedAsEmitted => PlannedAsEmitted')
<1>1. Ids(vmReceipt) \subseteq approved
  BY RequestsWereApproved DEF Ids
<1>2. consumed' \subseteq approved'
  BY <1>1 DEF Authorize, Ids, EffectInv, TypeOK
<1>3. plans' \in Seq(Receipts)
  BY DEF Authorize, EffectInv, TypeOK
<1>4. EffectInv'
  BY <1>2, <1>3 DEF Authorize, EffectInv, TypeOK
<1>5. PlannedAsEmitted => PlannedAsEmitted'
  <2> SUFFICES ASSUME PlannedAsEmitted, NEW k \in DOMAIN plans',
                      NEW n \in DOMAIN plans'[k].requests
               PROVE  \E p \in Programs :
                        /\ p.task = plans'[k].task
                        /\ p.profile = plans'[k].schema
                        /\ n \in DOMAIN p.calls
                        /\ p.profile # "legacy" =>
                             \A field \in RequestFields :
                               plans'[k].requests[n][field] = EmittedRequest(p, n)[field]
    BY DEF PlannedAsEmitted
  <2>1. plans \in Seq(Receipts) /\ plans' = Append(plans, vmReceipt)
    BY DEF EffectInv, TypeOK, Authorize
  <2>2. CASE k \in DOMAIN plans
    BY <2>1, <2>2 DEF PlannedAsEmitted
  <2>3. CASE k \notin DOMAIN plans
    <3>1. plans'[k] = vmReceipt
      BY <2>1, <2>3
    <3> QED
      BY <3>1, RequestsWereEmitted
  <2> QED
    BY <2>2, <2>3
<1> QED
  BY <1>4, <1>5

LEMMA EffectStep == EffectInv /\ PlannedAsEmitted /\ [Next]_vars => EffectInv' /\ PlannedAsEmitted'
<1> SUFFICES ASSUME EffectInv, PlannedAsEmitted, [Next]_vars
             PROVE  EffectInv' /\ PlannedAsEmitted'
  OBVIOUS
<1> USE DEF PlannedAsEmitted
<1>1. ASSUME NEW a \in Authorities, Present(a) PROVE EffectInv' /\ PlannedAsEmitted'
  BY <1>1, PresentStep DEF Present
<1>2. ASSUME NEW a \in Approvals, Approve(a) PROVE EffectInv' /\ PlannedAsEmitted'
  BY <1>2, ApproveStep DEF Approve
<1>3. ASSUME NEW i \in Instructions, Gather(i) PROVE EffectInv' /\ PlannedAsEmitted'
  BY <1>3 DEF Gather, EffectInv, TypeOK
<1>4. ASSUME NEW vmReceipt \in Receipts, Authorize(vmReceipt) PROVE EffectInv' /\ PlannedAsEmitted'
  BY <1>4, AuthorizeStep
<1>5. ASSUME NEW vmReceipt \in Receipts, PlanNothing(vmReceipt) PROVE EffectInv' /\ PlannedAsEmitted'
  BY <1>5 DEF PlanNothing, EffectInv, TypeOK
<1>6. ASSUME NEW vmReceipt \in Receipts, RefusePlan(vmReceipt) PROVE EffectInv' /\ PlannedAsEmitted'
  BY <1>6 DEF RefusePlan, EffectInv, TypeOK, Judgement, Fault
<1>7. CASE UNCHANGED vars
  BY <1>7 DEF vars, EffectInv, TypeOK
<1> QED
  BY <1>1, <1>2, <1>3, <1>4, <1>5, <1>6, <1>7 DEF Next

\* Only approvals that were issued are consumed, and everything has its type.
THEOREM EffectTypeCorrect == Spec => []TypeOK
<1>1. EffectInv => TypeOK
  BY DEF EffectInv
<1> QED
  BY <1>1, EffectInit, EffectStep, PTL DEF Spec

\* plan_effects: what is planned is what the VM emitted, in every profile that types its requests.
THEOREM PlansAreWhatWasEmitted == Spec => []PlannedAsEmitted
BY EffectInit, EffectStep, PTL DEF Spec

-----------------------------------------------------------------------------
LEMMA AuthorizePays ==
  ASSUME EffectInv, NEW vmReceipt \in Receipts, Authorize(vmReceipt)
  PROVE  Vouchers!Pay(Ids(vmReceipt)) /\ Ids(vmReceipt) \in SUBSET Nonces
<1>1. Ids(vmReceipt) \subseteq approved \ consumed
  BY RequestsWereApproved DEF Ids
<1>2. Ids(vmReceipt) # {}
  <2>1. 1 \in DOMAIN vmReceipt.requests
    <3> DEFINE S == {vmReceipt.requests[n] : n \in DOMAIN vmReceipt.requests}
    <3>1. vmReceipt.requests \in Seq(S) /\ vmReceipt.requests # <<>>
      BY ReceiptAssumption DEF Authorize
    <3> HIDE DEF S
    <3> QED
      BY <3>1
  <2> QED
    BY <2>1 DEF Ids
<1>3. /\ consumed' = consumed \union Ids(vmReceipt)
      /\ UNCHANGED approved
  BY DEF Authorize, Ids
<1>4. [k \in DOMAIN plans' |-> Ids(plans'[k])]
        = Append([k \in DOMAIN plans |-> Ids(plans[k])], Ids(vmReceipt))
  <2>1. plans \in Seq(Receipts) /\ plans' = Append(plans, vmReceipt)
    BY DEF EffectInv, TypeOK, Authorize
  <2> DEFINE paid == [k \in DOMAIN plans |-> Ids(plans[k])]
  <2>2. /\ DOMAIN plans = 1..Len(plans) /\ Len(plans) \in Nat
        /\ DOMAIN plans' = 1..(Len(plans) + 1)
        /\ Len(paid) = Len(plans)
    BY <2>1
  <2>3. \A k \in DOMAIN plans' :
          plans'[k] = IF k = Len(plans) + 1 THEN vmReceipt ELSE plans[k]
    BY <2>1, <2>2
  <2>4. Append(paid, Ids(vmReceipt)) =
          [k \in 1..(Len(plans) + 1) |-> IF k = Len(plans) + 1 THEN Ids(vmReceipt) ELSE paid[k]]
    BY <2>2
  <2> QED
    BY <2>2, <2>3, <2>4
<1> QED
  BY <1>1, <1>2, <1>3, <1>4 DEF Vouchers!Pay, EffectInv, TypeOK

\* The ledger implements one-use vouchers: a plan is paid for in full or not at all, by approvals
\* that were issued, and none of them pays again.
THEOREM PlanningImplementsVouchers == Spec => ImplementsVouchers
<1>1. Init => Vouchers!Init
  BY DEF Init, Vouchers!Init
<1>2. EffectInv /\ [Next]_vars => [Vouchers!Next]_(Vouchers!vars)
  <2> SUFFICES ASSUME EffectInv, [Next]_vars
               PROVE  Vouchers!Next \/ UNCHANGED <<approved, consumed, plans>>
    BY DEF Vouchers!vars
  <2>1. ASSUME NEW a \in Authorities, Present(a) PROVE UNCHANGED <<approved, consumed, plans>>
    BY <2>1 DEF Present
  <2>2. ASSUME NEW a \in Approvals, Approve(a) PROVE Vouchers!Next
    <3>1. Vouchers!Issue(a.nonce) /\ a.nonce \in Nonces
      BY <2>2 DEF Approve, Vouchers!Issue, Nonces
    <3> QED
      BY <3>1 DEF Vouchers!Next
  <2>3. ASSUME NEW i \in Instructions, Gather(i) PROVE UNCHANGED <<approved, consumed, plans>>
    BY <2>3 DEF Gather
  <2>4. ASSUME NEW vmReceipt \in Receipts, Authorize(vmReceipt) PROVE Vouchers!Next
    BY <2>4, AuthorizePays DEF Vouchers!Next
  <2>5. ASSUME NEW vmReceipt \in Receipts, PlanNothing(vmReceipt) \/ RefusePlan(vmReceipt)
        PROVE UNCHANGED <<approved, consumed, plans>>
    BY <2>5 DEF PlanNothing, RefusePlan
  <2>6. CASE UNCHANGED vars
    BY <2>6 DEF vars
  <2> QED
    BY <2>1, <2>2, <2>3, <2>4, <2>5, <2>6 DEF Next
<1> QED
  BY <1>1, <1>2, EffectInit, EffectStep, PTL DEF Spec, ImplementsVouchers, Vouchers!Spec

-----------------------------------------------------------------------------
\* What an Allow says of the requested effects.
LEMMA AllowedIsEffective ==
  ASSUME NEW a, NEW i, NEW requested, Resolve(a, i, requested) = "Allow"
  PROVE  /\ requested \subseteq EffectiveAuthority(a, i)
         /\ a.roots # <<>>
BY DEF Resolve, Decide

LEMMA AuthorizedIsGranted ==
  ASSUME EffectInv, NEW vmReceipt \in Receipts, Authorize(vmReceipt),
         NEW n \in DOMAIN vmReceipt.requests
  PROVE  /\ vmReceipt.requests[n].id \in consumed' \ consumed
         /\ \A k \in DOMAIN authority.roots :
              vmReceipt.requests[n].effect
                \in authority.roots[k].grants \ authority.roots[k].denies
<1>1. ~Unauthorized(vmReceipt, authority)
  BY DEF Authorize, Judgement
<1>2. vmReceipt.requests[n].effect \in EffectiveAuthority(authority, <<>>)
  BY <1>1, AllowedIsEffective DEF Unauthorized, RequestedEffects
<1>3. vmReceipt.requests[n].effect \in Grants(authority) \ HardDenies(authority)
  BY <1>2 DEF EffectiveAuthority, Ceiling
<1>4. vmReceipt.requests[n].id \notin consumed
  BY AuthorizedReceipt DEF Authorize
<1> QED
  BY <1>3, <1>4 DEF Grants, HardDenies, Authorize

\* A plan stays within the authority in force, and every effect of it is paid for anew.
THEOREM PlansStayWithinAuthority == Spec => PlansAreAuthorized
<1> DEFINE Within ==
      plans' # plans =>
        \A n \in DOMAIN plans'[Len(plans')].requests :
          LET r == plans'[Len(plans')].requests[n] IN
          /\ r.id \in consumed' \ consumed
          /\ \A k \in DOMAIN authority.roots :
               r.effect \in authority.roots[k].grants \ authority.roots[k].denies
<1>1. EffectInv /\ [Next]_vars => [Within]_vars
  <2> SUFFICES ASSUME EffectInv, Next, plans' # plans
               PROVE  Within
    OBVIOUS
  <2>1. PICK vmReceipt \in Receipts : Authorize(vmReceipt)
    BY DEF Next, Present, Approve, Gather, PlanNothing, RefusePlan
  <2>2. plans'[Len(plans')] = vmReceipt
    BY <2>1 DEF Authorize, EffectInv, TypeOK
  <2> QED
    BY <2>1, <2>2, AuthorizedIsGranted
<1> QED
  BY <1>1, EffectInit, EffectStep, PTL DEF Spec, PlansAreAuthorized

-----------------------------------------------------------------------------
\* One more statement: what was heeded still is, with what it says.
LEMMA HeededGrows ==
  ASSUME NEW a, NEW i \in Seq(Instructions), NEW x \in Instructions
  PROVE  /\ Heeded(a, i) \subseteq Heeded(a, Append(i, x))
         /\ Heeded(a, Append(i, x)) \subseteq Heeded(a, i) \union {Len(i) + 1}
         /\ \A n \in Heeded(a, i) : Append(i, x)[n] = i[n] /\ n <= Len(i) /\ n \in Nat
         /\ x.source \in DataSources => Heeded(a, Append(i, x)) = Heeded(a, i)
<1> DEFINE j == Append(i, x)
<1>1. /\ DOMAIN i = 1..Len(i) /\ Len(i) \in Nat
      /\ DOMAIN j = 1..(Len(i) + 1)
      /\ j[Len(i) + 1] = x
      /\ \A n \in DOMAIN i : j[n] = i[n]
  OBVIOUS
<1> HIDE DEF j
<1>2. \A n \in DOMAIN i : n \in Heeded(a, j) <=> n \in Heeded(a, i)
  BY <1>1 DEF Heeded
<1>3. /\ Heeded(a, i) \subseteq DOMAIN i
      /\ Heeded(a, j) \subseteq DOMAIN j
      /\ x.source \in DataSources => Len(i) + 1 \notin Heeded(a, j)
  BY <1>1 DEF Heeded
<1>4. Heeded(a, i) \subseteq Heeded(a, j)
  BY <1>2, <1>3
<1>5. Heeded(a, j) \subseteq Heeded(a, i) \union {Len(i) + 1}
  BY <1>1, <1>2, <1>3
<1>6. \A n \in Heeded(a, i) : j[n] = i[n] /\ n <= Len(i) /\ n \in Nat
  BY <1>1, <1>3
<1>7. x.source \in DataSources => Heeded(a, j) = Heeded(a, i)
  BY <1>1, <1>3, <1>4, <1>5
<1> QED
  BY <1>4, <1>5, <1>6, <1>7 DEF j

\* So that claims, opaque effects, conflicts and denies stay.
LEMMA ObjectionsStay ==
  ASSUME NEW a, NEW i \in Seq(Instructions), NEW x \in Instructions
  PROVE  /\ ClaimsAuthority(a, i) => ClaimsAuthority(a, Append(i, x))
         /\ HasOpaqueEffect(a, i) => HasOpaqueEffect(a, Append(i, x))
         /\ HasConflict(a, i) => HasConflict(a, Append(i, x))
         /\ RepositoryDenies(a, i) \subseteq RepositoryDenies(a, Append(i, x))
<1> DEFINE j == Append(i, x)
<1>0. /\ Heeded(a, i) \subseteq Heeded(a, j)
      /\ Heeded(a, j) \subseteq Heeded(a, i) \union {Len(i) + 1}
      /\ \A n \in Heeded(a, i) : j[n] = i[n] /\ n <= Len(i) /\ n \in Nat
  BY HeededGrows
<1> HIDE DEF j
<1>1. \A kinds : /\ OfKind(kinds, a, i) \subseteq OfKind(kinds, a, j)
                 /\ \A n \in OfKind(kinds, a, i) : j[n] = i[n] /\ n <= Len(i) /\ n \in Nat
                 /\ OfKind(kinds, a, j) \subseteq OfKind(kinds, a, i) \union {Len(i) + 1}
  BY <1>0 DEF OfKind
<1>2. ClaimsAuthority(a, i) => ClaimsAuthority(a, j)
  BY <1>1 DEF ClaimsAuthority
<1>3. HasOpaqueEffect(a, i) => HasOpaqueEffect(a, j)
  BY <1>1 DEF HasOpaqueEffect
<1>4. RepositoryDenies(a, i) \subseteq RepositoryDenies(a, j)
  BY <1>1 DEF RepositoryDenies
<1>5. HasConflict(a, i) => HasConflict(a, j)
  <2> DEFINE Valued(t) == {n \in OfKind({"Procedure", "Request"}, a, t) : t[n].value # NoValue}
             SameKey(t, m, n) == t[m].source = t[n].source /\ t[m].subject = t[n].subject
  <2>1. /\ Valued(i) \subseteq Valued(j)
        /\ \A n \in Valued(i) : j[n] = i[n] /\ n <= Len(i) /\ n \in Nat
        /\ Valued(j) \subseteq Valued(i) \union {Len(i) + 1}
    BY <1>1
  <2> SUFFICES ASSUME HasConflict(a, i) PROVE HasConflict(a, j)
    OBVIOUS
  <2>2. PICK m, n \in Valued(i) :
          /\ m < n /\ SameKey(i, m, n)
          /\ \A k \in Valued(i) : m < k /\ k < n => ~SameKey(i, k, n)
          /\ i[m].value # i[n].value
    BY DEF HasConflict
  <2>3. \A k \in Valued(j) : m < k /\ k < n => k \in Valued(i)
    <3>1. n <= Len(i) /\ n \in Nat /\ Len(i) \in Nat
      BY <2>1, <2>2
    <3> HIDE DEF Valued
    <3> QED
      BY <2>1, <3>1
  <2>4. /\ m \in Valued(j) /\ n \in Valued(j) /\ m < n /\ SameKey(j, m, n)
        /\ \A k \in Valued(j) : m < k /\ k < n => ~SameKey(j, k, n)
        /\ j[m].value # j[n].value
    BY <2>1, <2>2, <2>3
  <2> QED
    BY <2>4 DEF HasConflict
<1> QED
  BY <1>2, <1>3, <1>4, <1>5 DEF j

\* Content that is data leaves every part of the analysis as it is.
LEMMA DataIsIgnored ==
  ASSUME NEW a, NEW i \in Seq(Instructions), NEW x \in Instructions, x.source \in DataSources,
         NEW requested
  PROVE  Resolve(a, Append(i, x), requested) = Resolve(a, i, requested)
<1> DEFINE j == Append(i, x)
<1>0. Heeded(a, j) = Heeded(a, i) /\ \A n \in Heeded(a, i) : j[n] = i[n]
  BY HeededGrows
<1> HIDE DEF j
<1>1. \A kinds : /\ OfKind(kinds, a, j) = OfKind(kinds, a, i)
                 /\ \A n \in OfKind(kinds, a, i) : j[n] = i[n]
  BY <1>0 DEF OfKind
<1>2. ClaimsAuthority(a, j) <=> ClaimsAuthority(a, i)
  BY <1>1 DEF ClaimsAuthority
<1>3. HasOpaqueEffect(a, j) <=> HasOpaqueEffect(a, i)
  BY <1>1 DEF HasOpaqueEffect
<1>4. HasAdvice(a, j) <=> HasAdvice(a, i)
  BY <1>1 DEF HasAdvice
<1>5. RepositoryDenies(a, j) = RepositoryDenies(a, i)
  BY <1>1 DEF RepositoryDenies
<1>6. HasConflict(a, j) <=> HasConflict(a, i)
  BY <1>1 DEF HasConflict
<1> QED
  BY <1>2, <1>3, <1>4, <1>5, <1>6 DEF Resolve, Decide, EffectiveAuthority, j

\* An Allow or an Ask that survives a further statement was the answer before it.
LEMMA ContentCannotOpen ==
  ASSUME NEW a, NEW i \in Seq(Instructions), NEW x \in Instructions, NEW requested,
         Resolve(a, Append(i, x), requested) \in {"Allow", "Ask"}
  PROVE  Resolve(a, i, requested) = Resolve(a, Append(i, x), requested)
<1> DEFINE j == Append(i, x)
<1> DEFINE Missing(t) == requested \ EffectiveAuthority(a, t)
           Denied(t) == HardDenies(a) \union RepositoryDenies(a, t)
           Paid == \A c \in requested \intersect a.approvalRequired : HasExactApproval(a, c)
<1>1. /\ a.roots # <<>> /\ ~ClaimsAuthority(a, j) /\ ~HasOpaqueEffect(a, j)
      /\ ~HasConflict(a, j) /\ requested # {}
  BY DEF Resolve, Decide
<1>2. /\ ~ClaimsAuthority(a, i) /\ ~HasOpaqueEffect(a, i) /\ ~HasConflict(a, i)
      /\ RepositoryDenies(a, i) \subseteq RepositoryDenies(a, j)
  BY <1>1, ObjectionsStay
<1>3. \A t : ~ClaimsAuthority(a, t) /\ ~HasOpaqueEffect(a, t) /\ ~HasConflict(a, t) =>
        /\ Missing(t) # {} /\ Missing(t) \intersect Denied(t) = {}
             /\ Missing(t) \subseteq a.approvable => Resolve(a, t, requested) = "Ask"
        /\ Missing(t) # {} /\ ~(Missing(t) \intersect Denied(t) = {}
             /\ Missing(t) \subseteq a.approvable) => Resolve(a, t, requested) = "Deny"
        /\ Missing(t) = {} /\ Paid => Resolve(a, t, requested) = "Allow"
        /\ Missing(t) = {} /\ ~Paid => Resolve(a, t, requested) = "Ask"
  BY <1>1 DEF Resolve, Decide
<1>4. Missing(i) \subseteq Missing(j) /\ Denied(i) \subseteq Denied(j)
  BY <1>2 DEF EffectiveAuthority
<1>5. Missing(j) \intersect Denied(j) = {} => Missing(i) = Missing(j)
  BY <1>4 DEF EffectiveAuthority
<1> HIDE DEF Missing, Denied, Paid
<1>6. CASE Missing(j) = {}
  BY <1>1, <1>2, <1>3, <1>4, <1>6
<1>7. CASE Missing(j) # {}
  <2>1. Missing(j) \intersect Denied(j) = {} /\ Missing(j) \subseteq a.approvable
    BY <1>1, <1>3, <1>7
  <2> QED
    BY <1>1, <1>2, <1>3, <1>4, <1>5, <1>7, <2>1
<1> QED
  BY <1>6, <1>7

\* Whatever the repository says, it never widens what the host's authority allows.
THEOREM RepositoryNeverWidens == Spec => ContentOnlyAttenuates
<1> DEFINE Attenuates ==
      instructions' # instructions =>
        \A requested \in SUBSET Capabilities :
          LET before == Resolve(authority, instructions, requested)
              after == Resolve(authority', instructions', requested)
          IN \/ after = before
             \/ /\ after \notin {"Allow", "Ask"}
                /\ instructions'[Len(instructions')].source \notin DataSources
<1>1. EffectInv /\ [Next]_vars => [Attenuates]_vars
  <2> SUFFICES ASSUME EffectInv, Next, instructions' # instructions,
                      NEW requested \in SUBSET Capabilities
               PROVE  LET before == Resolve(authority, instructions, requested)
                          after == Resolve(authority', instructions', requested)
                      IN \/ after = before
                         \/ /\ after \notin {"Allow", "Ask"}
                            /\ instructions'[Len(instructions')].source \notin DataSources
    OBVIOUS
  <2>1. PICK x \in Instructions : Gather(x)
    BY DEF Next, Present, Approve, Authorize, PlanNothing, RefusePlan
  <2>2. /\ instructions \in Seq(Instructions) /\ authority' = authority
        /\ instructions' = Append(instructions, x)
    BY <2>1 DEF Gather, EffectInv, TypeOK
  <2>3. instructions'[Len(instructions')] = x
    BY <2>2
  <2> QED
    BY <2>2, <2>3, DataIsIgnored, ContentCannotOpen
<1> QED
  BY <1>1, EffectInit, EffectStep, PTL DEF Spec, ContentOnlyAttenuates

-----------------------------------------------------------------------------
(* The controller of the host.                                             *)

-----------------------------------------------------------------------------
(* The invariant, in parts.                                                *)

ControllerTyped ==
  /\ pc \in {"spawn", "setup", "cleanup", "judge", "done"} \union Loop
  /\ output \in Seq(Chunk) /\ outputEof \in BOOLEAN
  /\ status \in Exits \union {"none"}
  /\ grace \in {"off", "running", "over"}
  /\ late \in BOOLEAN /\ disturbed \in BOOLEAN
  /\ forced \in Reasons \union {"none"}

\* Only a process that is alive holds an end of a pipe.
ProcessesTyped ==
  /\ leader \in {"none", "running"} \union Exits
  /\ helper \in {"none", "grouped", "escaped", "killed", "gone"}
  /\ readers \subseteq {p \in {"leader", "helper"} : Alive(p)}
  /\ writers \subseteq {p \in {"leader", "helper"} : Alive(p)}

\* No chunk of the request is lost or read twice.
PipesTyped ==
  /\ sent \in 0..FrameChunks
  /\ inputClosed \in BOOLEAN /\ (inputClosed <=> sent = FrameChunks)
  /\ toChild \in Nat /\ received \in Nat /\ received + toChild = sent
  /\ fromChild \in Seq(Chunk) /\ written \in Seq(Chunk)

Typed == ControllerTyped /\ ProcessesTyped /\ PipesTyped

\* Before the child is spawned nothing has happened, and no receipt is issued before the end.
Fresh ==
  /\ pc = "spawn" => /\ leader = "none" /\ helper = "none" /\ status = "none"
                     /\ forced = "none" /\ ~outputEof
  /\ pc \notin {"spawn", "done"} => leader # "none"
  /\ pc # "done" <=> receipt = NoReceipt

\* What was written is what was read and what is still in the pipe, unless it is beyond
\* the limit.  The end of the output is only seen when nobody can write any more.
OutputAccounted ==
  /\ \/ written = output \o fromChild /\ Len(written) <= MaxOutput
     \/ written = Overlong /\ Len(output) + Len(fromChild) > MaxOutput
  /\ Len(output) > MaxOutput => forced # "none"
  /\ outputEof => writers = {} /\ fromChild = <<>>

\* A status is the leader's, and starts the grace period.
Reaped ==
  /\ status # "none" => status = leader
  /\ pc \notin {"judge", "done"} => (grace = "off" <=> status = "none")

\* The loop is left with a reason, or after the leader was reaped, the output was seen
\* to end and the group was seen to be empty; a helper is only killed for a reason.
LeftForAReason ==
  /\ pc \in {"cleanup", "judge"} /\ forced = "none" =>
       outputEof /\ status # "none" /\ helper # "grouped"
  /\ pc # "done" /\ helper = "killed" => forced # "none"

Ended ==
  pc \in {"judge", "done"} =>
    /\ leader # "running" /\ helper # "grouped"
    /\ disturbed \/ leader = "none" \/ status = leader

\* What a clean run never has; each of these is for good.
Unclean ==
  \/ late
  \/ readers = {} /\ received < FrameChunks
  \/ written = Overlong
  \/ helper # "none"

\* A controller that nothing disturbs finds a reason only in what is unclean.  Between its
\* last look at the pipe and its look at the group the grace period cannot run out.
ReasonsAreReal ==
  /\ forced # "none" => disturbed \/ Unclean
  /\ grace = "over" /\ pc \in {"wait", "group"} =>
       disturbed \/ outputEof \/ helper # "none" \/ written = Overlong

ReceiptsAreRight == DefiniteIsProven /\ CleanRunCompletes

HostInv ==
  /\ Typed /\ Fresh /\ OutputAccounted /\ Reaped /\ LeftForAReason
  /\ Ended /\ ReasonsAreReal /\ ReceiptsAreRight

-----------------------------------------------------------------------------
(* What the limit keeps of a response.                                     *)

LEMMA OverlongIsLong == Overlong \in Seq(Chunk) /\ Len(Overlong) = MaxOutput + 1
<1>1. MaxOutput + 1 \in Nat
  BY SizeAssumption
<1>2. "head" \in Chunk
  BY DEF Chunk
<1> QED
  BY <1>1, <1>2 DEF Overlong

LEMMA KeptTyped ==
  ASSUME NEW data \in Seq(Chunk), NEW chunk \in Chunk
  PROVE  /\ Kept(data, chunk) \in Seq(Chunk)
         /\ Len(data) < MaxOutput => Len(Kept(data, chunk)) = Len(data) + 1
         /\ Len(data) >= MaxOutput => Len(Kept(data, chunk)) = MaxOutput + 1
BY OverlongIsLong, SizeAssumption DEF Kept

LEMMA AppendAtTheEnd ==
  ASSUME NEW s \in Seq(Chunk), NEW t \in Seq(Chunk), NEW c \in Chunk
  PROVE  s \o Append(t, c) = Append(s \o t, c)
OBVIOUS

LEMMA MoveTheHead ==
  ASSUME NEW s \in Seq(Chunk), NEW t \in Seq(Chunk), t # <<>>
  PROVE  Append(s, Head(t)) \o Tail(t) = s \o t
OBVIOUS

\* A complete response is within the limit, unlike what is kept of one that is not.
LEMMA OverlongIsNoResponse ==
  ASSUME NEW content \in Content
  PROVE  Overlong # <<"head", content>>
<1> SUFFICES ASSUME Overlong = <<"head", content>> PROVE FALSE
  OBVIOUS
<1>1. Overlong[2] = content
  OBVIOUS
<1>2. 2 \in 1..MaxOutput + 1
  BY SizeAssumption
<1>3. Overlong[2] = "head"
  BY <1>2 DEF Overlong
<1> QED
  BY <1>1, <1>3 DEF Content
-----------------------------------------------------------------------------
(* Every step keeps the types.                                             *)

LEMMA TypedInit == HostInit => Typed /\ Fresh
<1> SUFFICES ASSUME HostInit PROVE Typed /\ Fresh
  OBVIOUS
<1> USE SizeAssumption DEF HostInit
<1>0. <<>> \in Seq(Chunk)
  OBVIOUS
<1>1. ControllerTyped
  BY <1>0 DEF ControllerTyped
<1>2. ProcessesTyped
  BY DEF ProcessesTyped, Exits
<1>3. PipesTyped
  <2>1. FrameChunks # 0
    OBVIOUS
  <2>2. inputClosed \in BOOLEAN /\ (inputClosed <=> sent = FrameChunks)
    BY <2>1
  <2>3. sent \in 0..FrameChunks /\ toChild \in Nat /\ received \in Nat /\ received + toChild = sent
    OBVIOUS
  <2> QED
    BY <1>0, <2>2, <2>3 DEF PipesTyped
<1>4. Fresh
  BY DEF Fresh, NoReceipt
<1> QED
  BY <1>1, <1>2, <1>3, <1>4 DEF Typed

LEMMA TypedProcesses ==
  ASSUME Typed, Fresh, Processes
  PROVE  Typed' /\ Fresh'
<1> USE DEF Typed, ControllerTyped, ProcessesTyped, PipesTyped, Fresh, Alive, ctl, Exits
<1>1. ASSUME NEW p \in {"leader", "helper"}, Read(p)
      PROVE  Typed' /\ Fresh'
  BY <1>1 DEF Read
<1>2. ASSUME NEW p \in {"leader", "helper"}, NEW chunk \in Chunk, Write(p, chunk)
      PROVE  Typed' /\ Fresh'
  BY <1>2, KeptTyped DEF Write
<1>3. ASSUME NEW p \in {"leader", "helper"}, CloseOutput(p) \/ CloseInput(p)
      PROVE  Typed' /\ Fresh'
  <2>1. ControllerTyped'
    BY <1>3 DEF CloseOutput, CloseInput
  <2>2. ProcessesTyped'
    BY <1>3 DEF CloseOutput, CloseInput
  <2>3. PipesTyped'
    BY <1>3 DEF CloseOutput, CloseInput
  <2>4. Fresh'
    BY <1>3 DEF CloseOutput, CloseInput
  <2> QED
    BY <2>1, <2>2, <2>3, <2>4 DEF Typed
<1>4. CASE Fork
  BY <1>4 DEF Fork
<1>5. CASE Escape
  BY <1>5 DEF Escape
<1>6. ASSUME NEW code \in {"zero", "nonzero"}, LeaderExits(code)
      PROVE  Typed' /\ Fresh'
  BY <1>6 DEF LeaderExits
<1>7. CASE HelperExits
  BY <1>7 DEF HelperExits
<1> QED
  BY <1>1, <1>2, <1>3, <1>4, <1>5, <1>6, <1>7 DEF Processes

LEMMA TypedController ==
  ASSUME Typed, Fresh, Controller
  PROVE  Typed' /\ Fresh'
<1> USE DEF Typed, ControllerTyped, ProcessesTyped, PipesTyped, Fresh, Alive, ctl, kernel, Exits,
            Loop, Reasons, Works, Fails, Disturbed,
            ReceiptOf, NoReceipt
<1>1. CASE SpawnFails
  BY <1>1 DEF SpawnFails
<1>2. CASE Spawn
  BY <1>2 DEF Spawn
<1>3. CASE SetUp
  BY <1>3 DEF SetUp
<1>4. CASE SetUpFails
  BY <1>4 DEF SetUpFails, GroupKilled
<1>5. CASE WriteRequest
  <2>1. ControllerTyped'
    BY <1>5, SizeAssumption DEF WriteRequest
  <2>2. ProcessesTyped'
    BY <1>5, SizeAssumption DEF WriteRequest
  <2>3. PipesTyped'
    <3>1. CASE UNCHANGED <<sent, inputClosed, toChild>>
      BY <1>5, <3>1 DEF WriteRequest
    <3>2. ASSUME NEW n \in 1..(FrameChunks - sent),
                 toChild' = toChild + n, sent' = sent + n,
                 inputClosed' = (sent + n = FrameChunks)
          PROVE  PipesTyped'
      <4>1. sent' \in 0..FrameChunks /\ toChild' \in Nat /\ received + toChild' = sent'
        BY <3>2, SizeAssumption
      <4>2. received' = received /\ fromChild' = fromChild /\ written' = written
        BY <1>5 DEF WriteRequest
      <4>3. inputClosed' \in BOOLEAN /\ (inputClosed' <=> sent' = FrameChunks)
        BY <3>2
      <4> QED
        BY <4>1, <4>2, <4>3
    <3> QED
      BY <1>5, <3>1, <3>2 DEF WriteRequest
  <2>4. Fresh'
    BY <1>5, SizeAssumption DEF WriteRequest
  <2> QED
    BY <2>1, <2>2, <2>3, <2>4 DEF Typed
<1>6. CASE ReadOutput
  <2>0. /\ Head(fromChild) \in Chunk /\ Tail(fromChild) \in Seq(Chunk)
        /\ Kept(output, Head(fromChild)) \in Seq(Chunk)
    <3>1. Head(fromChild) \in Chunk /\ Tail(fromChild) \in Seq(Chunk)
      BY <1>6 DEF ReadOutput
    <3> QED
      BY <3>1, KeptTyped
  <2>1. ControllerTyped'
    BY <1>6, <2>0 DEF ReadOutput
  <2>2. ProcessesTyped'
    BY <1>6, KeptTyped DEF ReadOutput
  <2>3. PipesTyped'
    BY <1>6, KeptTyped DEF ReadOutput
  <2>4. Fresh'
    BY <1>6, KeptTyped DEF ReadOutput
  <2> QED
    BY <2>1, <2>2, <2>3, <2>4 DEF Typed
<1>7. CASE StopReading
  <2>1. ControllerTyped'
    BY <1>7 DEF StopReading
  <2>2. ProcessesTyped'
    BY <1>7 DEF StopReading
  <2>3. PipesTyped'
    BY <1>7 DEF StopReading
  <2>4. Fresh'
    BY <1>7 DEF StopReading
  <2> QED
    BY <2>1, <2>2, <2>3, <2>4 DEF Typed
<1>8. CASE PollChild
  BY <1>8 DEF PollChild
<1>9. CASE CheckGroup
  <2>1. ControllerTyped'
    BY <1>9 DEF CheckGroup, GroupKilled
  <2>2. ProcessesTyped'
    BY <1>9 DEF CheckGroup, GroupKilled
  <2>3. PipesTyped'
    BY <1>9 DEF CheckGroup, GroupKilled
  <2>4. Fresh'
    BY <1>9 DEF CheckGroup, GroupKilled
  <2> QED
    BY <2>1, <2>2, <2>3, <2>4 DEF Typed
<1>10. CASE LookAtClock
  BY <1>10 DEF LookAtClock
<1>11. CASE CleanUp
  <2>1. ControllerTyped'
    BY <1>11 DEF CleanUp, GroupKilled
  <2>2. ProcessesTyped'
    BY <1>11 DEF CleanUp, GroupKilled
  <2>3. PipesTyped'
    BY <1>11 DEF CleanUp, GroupKilled
  <2>4. Fresh'
    BY <1>11 DEF CleanUp, GroupKilled
  <2> QED
    BY <2>1, <2>2, <2>3, <2>4 DEF Typed
<1>12. CASE Judge
  BY <1>12 DEF Judge, Verdict
<1> QED
  BY <1>1, <1>2, <1>3, <1>4, <1>5, <1>6, <1>7, <1>8, <1>9, <1>10, <1>11, <1>12 DEF Controller

LEMMA TypedStep ==
  ASSUME Typed, Fresh, [HostNext]_hostVars
  PROVE  Typed' /\ Fresh'
<1> USE DEF Typed, ControllerTyped, ProcessesTyped, PipesTyped, Fresh, Alive
<1>1. CASE DeadlinePasses
  BY <1>1 DEF DeadlinePasses, ctl, kernel
<1>2. CASE GraceElapses
  <2>1. ControllerTyped'
    BY <1>2 DEF GraceElapses, kernel, Disturbed
  <2>2. ProcessesTyped'
    BY <1>2 DEF GraceElapses, kernel, Disturbed
  <2>3. PipesTyped'
    BY <1>2 DEF GraceElapses, kernel, Disturbed
  <2>4. Fresh'
    BY <1>2 DEF GraceElapses, kernel, Disturbed
  <2> QED
    BY <2>1, <2>2, <2>3, <2>4 DEF Typed
<1>3. CASE UNCHANGED hostVars
  BY <1>3 DEF hostVars
<1> QED
  BY <1>1, <1>2, <1>3, TypedProcesses, TypedController DEF HostNext

-----------------------------------------------------------------------------
(* Every step accounts for the output.                                     *)

LEMMA AccountedInit == HostInit => OutputAccounted
BY SizeAssumption DEF HostInit, OutputAccounted

LEMMA WriteAccounted ==
  ASSUME Typed, OutputAccounted, NEW p, NEW chunk \in Chunk, Write(p, chunk)
  PROVE  OutputAccounted'
<1> USE DEF Typed, ControllerTyped, PipesTyped
<1>1. /\ fromChild' = Append(fromChild, chunk) /\ written' = Kept(written, chunk)
      /\ output' = output /\ outputEof' = outputEof /\ forced' = forced /\ writers' = writers
      /\ p \in writers
  BY DEF Write, ctl
<1>2. CASE Len(written) < MaxOutput
  <2>1. written = output \o fromChild
    BY <1>2, OverlongIsLong, SizeAssumption DEF OutputAccounted
  <2>2. written' = output \o Append(fromChild, chunk)
    <3>1. written' = Append(written, chunk)
      BY <1>1, <1>2, SizeAssumption DEF Kept
    <3> QED
      BY <2>1, <3>1, AppendAtTheEnd
  <2>3. Len(written') <= MaxOutput
    BY <1>1, <1>2, KeptTyped, SizeAssumption
  <2> QED
    BY <1>1, <2>2, <2>3 DEF OutputAccounted
<1>3. CASE ~(Len(written) < MaxOutput)
  <2>1. Len(output) + Len(fromChild) >= MaxOutput
    BY <1>3, SizeAssumption DEF OutputAccounted
  <2>2. written' = Overlong
    BY <1>1, <1>3, SizeAssumption DEF Kept
  <2>3. Len(output') + Len(fromChild') > MaxOutput
    BY <1>1, <2>1, SizeAssumption
  <2> QED
    BY <1>1, <2>2, <2>3 DEF OutputAccounted
<1> QED
  BY <1>2, <1>3

LEMMA ReadAccounted ==
  ASSUME Typed, OutputAccounted, ReadOutput
  PROVE  /\ OutputAccounted'
         /\ Len(output) + 1 > MaxOutput => written = Overlong
<1> USE DEF Typed, ControllerTyped, PipesTyped
<1> DEFINE chunk == Head(fromChild)
<1>1. /\ output' = Kept(output, chunk) /\ fromChild' = Tail(fromChild)
      /\ fromChild # <<>> /\ ~outputEof /\ outputEof' = outputEof /\ written' = written
      /\ Len(output) + 1 > MaxOutput => forced' = "OutputLimitExceeded"
  BY DEF ReadOutput
<1>2. /\ chunk \in Chunk /\ Tail(fromChild) \in Seq(Chunk)
      /\ Len(fromChild) = Len(Tail(fromChild)) + 1
  BY <1>1
<1> HIDE DEF chunk
<1>3. CASE Len(output) < MaxOutput
  <2>1. output' = Append(output, chunk) /\ Len(output') = Len(output) + 1
    BY <1>1, <1>2, <1>3, SizeAssumption DEF Kept
  <2>2. output' \o Tail(fromChild) = output \o fromChild
    BY <1>1, <2>1, MoveTheHead DEF chunk
  <2>3. Len(output') + Len(fromChild') = Len(output) + Len(fromChild)
    BY <1>1, <1>2, <2>1
  <2>4. ~(Len(output') > MaxOutput) /\ ~(Len(output) + 1 > MaxOutput)
    BY <1>3, <2>1, SizeAssumption
  <2> QED
    BY <1>1, <2>2, <2>3, <2>4 DEF OutputAccounted
<1>4. CASE ~(Len(output) < MaxOutput)
  <2>1. Len(output \o fromChild) > MaxOutput
    BY <1>2, <1>4, SizeAssumption
  <2>2. written = Overlong
    BY <2>1, SizeAssumption DEF OutputAccounted
  <2>3. Len(output') = MaxOutput + 1
    BY <1>1, <1>2, <1>4, KeptTyped, SizeAssumption
  <2>4. Len(output') + Len(fromChild') > MaxOutput
    BY <1>1, <1>2, <2>3, SizeAssumption
  <2>5. forced' # "none"
    BY <1>1, <1>4, SizeAssumption
  <2> QED
    BY <1>1, <2>2, <2>4, <2>5 DEF OutputAccounted
<1> QED
  BY <1>3, <1>4

\* What neither writes nor reads the output: it only ever takes writers away.
Quiet ==
  /\ UNCHANGED <<output, fromChild, written>>
  /\ forced # "none" => forced' # "none"
  /\ writers = {} => writers' = {}
  /\ outputEof' => outputEof \/ (writers = {} /\ fromChild = <<>>)

LEMMA QuietAccounted ==
  ASSUME OutputAccounted, Quiet
  PROVE  OutputAccounted'
BY DEF OutputAccounted, Quiet

LEMMA ProcessesAccounted ==
  ASSUME Typed, OutputAccounted, Processes
  PROVE  OutputAccounted'
<1> USE DEF Quiet, ctl
<1>1. ASSUME NEW p \in {"leader", "helper"}, Read(p) \/ CloseOutput(p) \/ CloseInput(p)
      PROVE  Quiet
  BY <1>1 DEF Read, CloseOutput, CloseInput
<1>2. CASE Fork
  BY <1>2, QuietAccounted DEF Fork
<1>3. CASE Escape \/ HelperExits \/ \E code \in {"zero", "nonzero"} : LeaderExits(code)
  <2>1. Quiet
    BY <1>3 DEF Escape, HelperExits, LeaderExits
  <2> QED
    BY <2>1, QuietAccounted
<1> QED
  BY <1>1, <1>2, <1>3, WriteAccounted, QuietAccounted DEF Processes

LEMMA ControllerAccounted ==
  ASSUME Typed, Fresh, OutputAccounted, Controller
  PROVE  OutputAccounted'
<1> USE DEF Quiet, ctl, kernel
<1>1. CASE SpawnFails \/ SetUp \/ Judge
  BY <1>1, QuietAccounted DEF SpawnFails, SetUp, Judge
<1>2. CASE Spawn
  BY <1>2 DEF Spawn, Fresh, OutputAccounted
<1>3. CASE SetUpFails
  BY <1>3, QuietAccounted DEF SetUpFails, GroupKilled
<1>4. CASE WriteRequest
  BY <1>4, QuietAccounted DEF WriteRequest
<1>5. CASE StopReading
  <2>1. forced # "none" => forced' # "none"
    BY <1>5 DEF StopReading
  <2>2. outputEof' => outputEof \/ (writers = {} /\ fromChild = <<>>)
    BY <1>5 DEF StopReading
  <2> QED
    BY <1>5, <2>1, <2>2, QuietAccounted DEF StopReading
<1>6. CASE PollChild
  BY <1>6, QuietAccounted DEF PollChild
<1>7. CASE CheckGroup
  BY <1>7, QuietAccounted DEF CheckGroup, GroupKilled
<1>8. CASE LookAtClock
  BY <1>8, QuietAccounted DEF LookAtClock
<1>9. CASE CleanUp
  BY <1>9, QuietAccounted DEF CleanUp, GroupKilled
<1> QED
  BY <1>1, <1>2, <1>3, <1>4, <1>5, <1>6, <1>7, <1>8, <1>9, ReadAccounted DEF Controller

LEMMA AccountedStep ==
  ASSUME Typed, Fresh, OutputAccounted, [HostNext]_hostVars
  PROVE  OutputAccounted'
<1>1. CASE DeadlinePasses \/ GraceElapses \/ UNCHANGED hostVars
  BY <1>1, QuietAccounted DEF DeadlinePasses, GraceElapses, hostVars, ctl, kernel, Quiet
<1> QED
  BY <1>1, ProcessesAccounted, ControllerAccounted DEF HostNext

-----------------------------------------------------------------------------
(* Every step keeps what is known about the end of the leader, of the      *)
(* group and of the loop.                                                  *)

Endings == Reaped /\ LeftForAReason /\ Ended

LEMMA EndingsInit == HostInit => Endings
BY DEF HostInit, Endings, Reaped, LeftForAReason, Ended

LEMMA EndingsProcesses ==
  ASSUME Typed, Endings, Processes
  PROVE  Endings'
<1> USE DEF Typed, ControllerTyped, ProcessesTyped, Endings, Reaped, LeftForAReason, Ended,
            ctl, Exits, Alive
<1>1. CASE Fork
  BY <1>1 DEF Fork, Processes
<1>2. CASE Escape
  BY <1>2 DEF Escape
<1>3. ASSUME NEW code \in {"zero", "nonzero"}, LeaderExits(code)
      PROVE  Endings'
  BY <1>3 DEF LeaderExits, Processes
<1>4. CASE HelperExits
  BY <1>4 DEF HelperExits
<1>5. ASSUME UNCHANGED <<pc, ctl, leader, helper>>
      PROVE  Endings'
  BY <1>5
<1>6. ASSUME NEW p \in {"leader", "helper"},
             \/ Read(p) \/ CloseOutput(p) \/ CloseInput(p)
             \/ \E chunk \in Chunk : Write(p, chunk)
      PROVE  Endings'
  BY <1>5, <1>6 DEF Read, CloseOutput, CloseInput, Write
<1> QED
  BY <1>1, <1>2, <1>3, <1>4, <1>6 DEF Processes

LEMMA EndingsController ==
  ASSUME Typed, Fresh, Endings, Controller
  PROVE  Endings'
<1> USE DEF Typed, ControllerTyped, ProcessesTyped, Endings, Reaped, LeftForAReason, Ended, Fresh,
            ctl, kernel, Exits, Loop, Works, Fails, Disturbed
<1>1. CASE SpawnFails \/ SetUp \/ Judge
  BY <1>1 DEF SpawnFails, SetUp, Judge
<1>2. CASE Spawn
  BY <1>2 DEF Spawn
<1>3. CASE SetUpFails
  BY <1>3 DEF SetUpFails, GroupKilled
<1>4. CASE WriteRequest \/ ReadOutput \/ StopReading
  BY <1>4 DEF WriteRequest, ReadOutput, StopReading
<1>5. CASE PollChild
  BY <1>5 DEF PollChild
<1>6. CASE CheckGroup
  BY <1>6 DEF CheckGroup, GroupKilled
<1>7. CASE LookAtClock
  BY <1>7 DEF LookAtClock
<1>8. CASE CleanUp
  BY <1>8 DEF CleanUp, GroupKilled
<1> QED
  BY <1>1, <1>2, <1>3, <1>4, <1>5, <1>6, <1>7, <1>8 DEF Controller

LEMMA EndingsStep ==
  ASSUME Typed, Fresh, Endings, [HostNext]_hostVars
  PROVE  Endings'
<1> USE DEF Endings, Reaped, LeftForAReason, Ended
<1>1. CASE DeadlinePasses
  BY <1>1 DEF DeadlinePasses, ctl, kernel
<1>2. CASE GraceElapses
  BY <1>2 DEF GraceElapses, kernel, Disturbed
<1>3. CASE UNCHANGED hostVars
  BY <1>3 DEF hostVars
<1> QED
  BY <1>1, <1>2, <1>3, EndingsProcesses, EndingsController DEF HostNext

-----------------------------------------------------------------------------
(* Every step keeps the reasons real.                                      *)

LEMMA ReasonsInit == HostInit => ReasonsAreReal
BY DEF HostInit, ReasonsAreReal

\* An unclean attempt stays so, once the child was spawned.
LEMMA UncleanStays ==
  ASSUME Typed, Fresh, OutputAccounted, pc # "spawn", Unclean, [HostNext]_hostVars
  PROVE  Unclean'
<1>1. CASE Processes
  <2> USE DEF Unclean, Typed, PipesTyped, ctl
  <2>1. ASSUME NEW p \in {"leader", "helper"}, Read(p) \/ CloseOutput(p) \/ CloseInput(p)
        PROVE  Unclean'
    BY <2>1 DEF Read, CloseOutput, CloseInput
  <2>2. ASSUME NEW p \in {"leader", "helper"}, NEW chunk \in Chunk, Write(p, chunk)
        PROVE  Unclean'
    <3>1. written = Overlong => Kept(written, chunk) = Overlong
      BY OverlongIsLong, SizeAssumption DEF Kept
    <3> QED
      BY <2>2, <3>1 DEF Write
  <2>3. CASE Fork \/ Escape \/ HelperExits \/ \E code \in {"zero", "nonzero"} : LeaderExits(code)
    BY <2>3 DEF Fork, Escape, HelperExits, LeaderExits, Alive
  <2> QED
    BY <1>1, <2>1, <2>2, <2>3 DEF Processes
<1>2. CASE Controller
  <2>1. late' = late /\ received' = received /\ written' = written /\ readers' \subseteq readers
        /\ (helper # "none" => helper' # "none")
    BY <1>2 DEF Controller, SpawnFails, Spawn, SetUp, SetUpFails, WriteRequest, ReadOutput,
         StopReading, PollChild, CheckGroup, LookAtClock, CleanUp, Judge, GroupKilled, ctl, kernel
  <2> QED
    BY <2>1 DEF Unclean
<1>3. CASE DeadlinePasses \/ GraceElapses \/ UNCHANGED hostVars
  BY <1>3 DEF DeadlinePasses, GraceElapses, hostVars, kernel, Unclean
<1> QED
  BY <1>1, <1>2, <1>3 DEF HostNext

\* The first part of ReasonsAreReal: what makes the controller give up.
LEMMA ReasonFound ==
  ASSUME Typed, Fresh, OutputAccounted, Endings, ReasonsAreReal, Controller,
         forced' # "none", forced = "none"
  PROVE  disturbed' \/ Unclean'
<1> USE DEF Works, Fails, Disturbed, Unclean
<1>1. CASE WriteRequest
  <2>1. forced' = "RequestWriteFailed" /\ ~inputClosed /\ received' = received /\ readers' = readers
        /\ (readers = {} \/ disturbed')
    BY <1>1 DEF WriteRequest
  <2>2. received < FrameChunks
    BY <2>1, SizeAssumption DEF Typed, PipesTyped
  <2> QED
    BY <2>1, <2>2
<1>2. CASE ReadOutput
  <2>1. Len(output) + 1 > MaxOutput /\ written' = written
    BY <1>2 DEF ReadOutput
  <2> QED
    BY <1>2, <2>1, ReadAccounted
<1>3. CASE StopReading
  BY <1>3 DEF StopReading
<1>4. CASE PollChild
  BY <1>4 DEF PollChild
<1>5. CASE CheckGroup
  <2>1. CASE grace = "over" /\ helper = "grouped" /\ GroupKilled
    BY <2>1 DEF GroupKilled
  <2>2. CASE grace = "over" /\ ~outputEof /\ UNCHANGED <<kernel, disturbed>>
    BY <1>5, <2>2 DEF CheckGroup, ReasonsAreReal, kernel
  <2>3. CASE disturbed'
    BY <2>3
  <2> QED
    BY <1>5, <2>1, <2>2, <2>3 DEF CheckGroup
<1>6. CASE LookAtClock
  BY <1>6 DEF LookAtClock
<1>7. CASE SpawnFails \/ Spawn \/ SetUp \/ SetUpFails \/ CleanUp \/ Judge
  BY <1>7 DEF SpawnFails, Spawn, SetUp, SetUpFails, CleanUp, Judge, ctl
<1> QED
  BY <1>1, <1>2, <1>3, <1>4, <1>5, <1>6, <1>7 DEF Controller

\* The second part: once the leader was reaped, whoever still holds the output is its helper.
LEMMA GraceIsEnough ==
  ASSUME Typed, Fresh, OutputAccounted, Endings, ReasonsAreReal, [HostNext]_hostVars,
         grace' = "over", pc' \in {"wait", "group"}
  PROVE  disturbed' \/ outputEof' \/ helper' # "none" \/ written' = Overlong
<1> DEFINE Settled == disturbed \/ outputEof \/ helper # "none" \/ written = Overlong
<1>1. CASE Processes
  <2>1. pc' = pc /\ UNCHANGED ctl
    BY <1>1 DEF Processes, Read, Write, CloseOutput, CloseInput, Fork, Escape, LeaderExits, HelperExits
  <2>2. Settled
    BY <2>1 DEF ReasonsAreReal, ctl
  <2>3. (helper # "none" => helper' # "none") /\ (written = Overlong => written' = Overlong)
    <3>1. ASSUME NEW p \in {"leader", "helper"}, NEW chunk \in Chunk, Write(p, chunk),
                 written = Overlong
          PROVE  written' = Overlong
      BY <3>1, OverlongIsLong, SizeAssumption DEF Write, Kept
    <3>2. ASSUME NEW p \in {"leader", "helper"}, NEW chunk \in Chunk, Write(p, chunk)
          PROVE  helper' = helper
      BY <3>2 DEF Write
    <3> QED
      BY <1>1, <3>1, <3>2 DEF Processes, Read, CloseOutput, CloseInput, Fork, Escape, LeaderExits,
         HelperExits, Alive
  <2> QED
    BY <2>1, <2>2, <2>3 DEF ctl
<1>2. CASE ReadOutput
  <2>1. Len(output) + 1 > MaxOutput /\ written' = written
    BY <1>2 DEF ReadOutput
  <2> QED
    BY <1>2, <2>1, ReadAccounted
<1>3. CASE StopReading
  <2>1. CASE disturbed' \/ outputEof'
    BY <2>1
  <2>2. CASE ~outputEof' /\ writers # {} /\ grace = "over" /\ pc = "drain" /\ UNCHANGED kernel
    <3>1. leader # "running"
      BY <2>2 DEF Endings, Reaped, Typed, ControllerTyped, Exits
    <3>2. "helper" \in writers
      BY <2>2, <3>1 DEF Typed, ProcessesTyped, Alive
    <3>3. helper # "none"
      BY <3>2 DEF Typed, ProcessesTyped, Alive
    <3> QED
      BY <2>2, <3>3 DEF kernel
  <2>3. pc = "drain" /\ grace' = grace /\ UNCHANGED kernel
    BY <1>3 DEF StopReading
  <2>4. disturbed' \/ outputEof' \/ writers # {}
    <3>1. CASE outputEof /\ outputEof' = outputEof
      BY <3>1
    <3>2. CASE outputEof' = (writers = {})
      BY <3>2
    <3>3. CASE Fails
      BY <3>3 DEF Fails, Disturbed
    <3> QED
      BY <1>3, <3>1, <3>2, <3>3 DEF StopReading
  <2> QED
    BY <2>1, <2>2, <2>3, <2>4
<1>4. CASE PollChild
  BY <1>4 DEF PollChild, ReasonsAreReal, kernel, Works, Fails, Disturbed
<1>5. CASE GraceElapses
  BY <1>5 DEF GraceElapses, ReasonsAreReal, Disturbed
<1>6. CASE DeadlinePasses \/ UNCHANGED hostVars
  BY <1>6 DEF DeadlinePasses, hostVars, ctl, kernel, ReasonsAreReal
<1>7. CASE SpawnFails \/ Spawn \/ SetUp \/ SetUpFails \/ WriteRequest \/ CheckGroup \/ LookAtClock
           \/ CleanUp \/ Judge
  BY <1>7 DEF SpawnFails, Spawn, SetUp, SetUpFails, WriteRequest, CheckGroup, LookAtClock, CleanUp, Judge
<1> QED
  BY <1>1, <1>2, <1>3, <1>4, <1>5, <1>6, <1>7 DEF HostNext, Controller

LEMMA ReasonsStep ==
  ASSUME Typed, Fresh, OutputAccounted, Endings, ReasonsAreReal, [HostNext]_hostVars
  PROVE  ReasonsAreReal'
<1>1. disturbed => disturbed'
  BY DEF HostNext, Controller, Processes, DeadlinePasses, GraceElapses, hostVars, ctl, kernel, Works, Fails,
         Disturbed, SpawnFails, Spawn, SetUp, SetUpFails, WriteRequest, ReadOutput, StopReading,
         PollChild, CheckGroup, LookAtClock, CleanUp, Judge, GroupKilled, Read, Write, CloseOutput,
         CloseInput, Fork, Escape, LeaderExits, HelperExits
<1>2. CASE forced # "none"
  <2>1. pc # "spawn"
    BY <1>2 DEF Fresh
  <2> QED
    BY <1>1, <1>2, <2>1, UncleanStays, GraceIsEnough DEF ReasonsAreReal
<1>3. CASE forced = "none" /\ Controller
  BY <1>3, ReasonFound, GraceIsEnough DEF ReasonsAreReal
<1>4. CASE forced = "none" /\ ~Controller
  <2>1. forced' = forced
    BY <1>4 DEF HostNext, Processes, DeadlinePasses, GraceElapses, hostVars, ctl, kernel, Read, Write,
         CloseOutput, CloseInput, Fork, Escape, LeaderExits, HelperExits
  <2> QED
    BY <1>4, <2>1, GraceIsEnough DEF ReasonsAreReal
<1> QED
  BY <1>2, <1>3, <1>4

-----------------------------------------------------------------------------
(* The receipt.                                                            *)

LEMMA ReceiptsInit == HostInit => ReceiptsAreRight
BY DEF HostInit, ReceiptsAreRight, DefiniteIsProven, CleanRunCompletes, Issued, NoReceipt

\* What the controller judges, when it found no reason, is all that was written.
LEMMA JudgedOutputIsComplete ==
  ASSUME Typed, OutputAccounted, Endings, pc = "judge", forced = "none"
  PROVE  written = output /\ status = leader /\ status # "none" /\ helper # "killed"
<1>1. outputEof /\ status # "none" /\ helper # "killed"
  BY DEF Endings, LeftForAReason
<1>2. fromChild = <<>> /\ ~(Len(output) > MaxOutput)
  BY <1>1 DEF OutputAccounted
<1>3. output \in Seq(Chunk)
  BY DEF Typed, ControllerTyped
<1>4. written = output \o <<>>
  <2>1. ~(Len(output) + 0 > MaxOutput)
    BY <1>2, <1>3, SizeAssumption
  <2>2. Len(fromChild) = 0
    BY <1>2
  <2> QED
    BY <1>2, <2>1, <2>2 DEF OutputAccounted
<1> QED
  BY <1>1, <1>3, <1>4 DEF Endings, Reaped

LEMMA JudgeIsRight ==
  ASSUME Typed, Fresh, OutputAccounted, Endings, ReasonsAreReal, Judge
  PROVE  ReceiptsAreRight'
<1>1. receipt' = Verdict /\ pc = "judge"
  BY DEF Judge
<1>2. /\ UNCHANGED kernel /\ status' = status /\ late' = late /\ disturbed' = disturbed
  BY DEF Judge
<1>3. DefiniteIsProven'
  <2> SUFFICES ASSUME receipt'.reason \in {"ExecutorCompleted", "ExecutorRejected"}
               PROVE  /\ leader = "zero" /\ status = "zero" /\ helper # "killed"
                      /\ written = <<"head", IF receipt'.status = "Completed"
                                             THEN "completed" ELSE "failed">>
    BY <1>2 DEF DefiniteIsProven, kernel
  <2>1. /\ forced = "none" /\ status = "zero"
        /\ \/ output = <<"head", "completed">> /\ receipt'.status = "Completed"
           \/ output = <<"head", "failed">> /\ receipt'.status = "Failed"
    BY <1>1 DEF Verdict, ReceiptOf, Reasons, Typed, ControllerTyped
  <2> QED
    BY <1>1, <2>1, JudgedOutputIsComplete
<1>4. CleanRunCompletes'
  <2> SUFFICES ASSUME ~late, leader = "zero", helper = "none", ~disturbed,
                      written = <<"head", "completed">>, received = FrameChunks
               PROVE  receipt'.status = "Completed"
    BY <1>2 DEF CleanRunCompletes, Succeeded, kernel
  <2>1. written # Overlong
    BY OverlongIsNoResponse DEF Content
  <2>2. ~(received < FrameChunks)
    BY SizeAssumption
  <2>3. forced = "none"
    BY <2>1, <2>2 DEF ReasonsAreReal, Unclean
  <2>4. output = <<"head", "completed">> /\ status = "zero"
    BY <1>1, <2>3, JudgedOutputIsComplete
  <2> QED
    BY <1>1, <2>3, <2>4 DEF Verdict, ReceiptOf
<1> QED
  BY <1>3, <1>4 DEF ReceiptsAreRight

\* Other steps issue a receipt that claims nothing, or none.
LEMMA ReceiptsStep ==
  ASSUME Typed, Fresh, OutputAccounted, Endings, ReasonsAreReal, ReceiptsAreRight, [HostNext]_hostVars
  PROVE  ReceiptsAreRight'
<1> USE DEF ReceiptsAreRight, DefiniteIsProven, CleanRunCompletes, Issued, Succeeded, NoReceipt
<1>1. CASE Judge
  BY <1>1, JudgeIsRight
<1>2. CASE SpawnFails
  BY <1>2 DEF SpawnFails, ReceiptOf, Fresh, kernel
<1>3. CASE SetUpFails
  BY <1>3 DEF SetUpFails, ReceiptOf, Fails, Disturbed
<1>4. CASE pc # "done" /\ receipt' = receipt
  BY <1>4 DEF Fresh
<1>5. CASE pc = "done" /\ (GraceElapses \/ UNCHANGED hostVars)
  <2>1. UNCHANGED <<receipt, leader, status, written, helper, late, received>>
    BY <1>5 DEF GraceElapses, hostVars, kernel
  <2>2. disturbed => disturbed'
    BY <1>5 DEF GraceElapses, hostVars, Disturbed
  <2> QED
    BY <2>1, <2>2
<1>6. CASE Processes \/ DeadlinePasses
  BY <1>4, <1>6 DEF Processes, DeadlinePasses, Loop, ctl, Read, Write, CloseOutput, CloseInput, Fork,
     Escape, LeaderExits, HelperExits
<1>7. CASE GraceElapses \/ UNCHANGED hostVars
  BY <1>4, <1>5, <1>7 DEF GraceElapses, hostVars
<1>8. CASE Spawn \/ SetUp \/ WriteRequest \/ ReadOutput \/ StopReading \/ PollChild \/ CheckGroup
           \/ LookAtClock \/ CleanUp
  BY <1>4, <1>8 DEF Spawn, SetUp, WriteRequest, ReadOutput, StopReading, PollChild, CheckGroup,
     LookAtClock, CleanUp, ctl
<1> QED
  BY <1>1, <1>2, <1>3, <1>6, <1>7, <1>8 DEF HostNext, Controller

-----------------------------------------------------------------------------

LEMMA HostInvariant == HostSpec => []HostInv
<1>1. HostInit => HostInv
  BY TypedInit, AccountedInit, EndingsInit, ReasonsInit, ReceiptsInit DEF HostInv, Endings
<1>2. HostInv /\ [HostNext]_hostVars => HostInv'
  BY TypedStep, AccountedStep, EndingsStep, ReasonsStep, ReceiptsStep DEF HostInv, Endings
<1> QED
  BY <1>1, <1>2, PTL DEF HostSpec

\* A definite receipt is proven: the leader exited with zero by itself, and all that anybody
\* wrote, to the last chunk, is the one response that the receipt reports
\* (the loop of execute_with_path and the judgement after it, lines 142-297).
THEOREM DefiniteReceiptsAreProven == HostSpec => []DefiniteIsProven
<1>1. HostInv => DefiniteIsProven
  BY DEF HostInv, ReceiptsAreRight
<1> QED
  BY <1>1, HostInvariant, PTL

\* When a receipt is issued the leader has been reaped, unless system calls failed, and
\* nothing runs on in its group (terminate_process_tree, lines 222-228).
THEOREM GroupDoesNotSurvive == HostSpec => []NothingSurvives
<1>1. HostInv => NothingSurvives
  BY DEF HostInv, NothingSurvives, Ended, Fresh, Issued, Typed, ControllerTyped
<1> QED
  BY <1>1, HostInvariant, PTL

\* A success is reported as such: no interleaving of a successful child with the rounds of
\* the controller ends in another receipt, unless a system call fails or the controller
\* does not run for a whole grace period (lines 142-220).
THEOREM SuccessIsReported == HostSpec => []CleanRunCompletes
<1>1. HostInv => CleanRunCompletes
  BY DEF HostInv, ReceiptsAreRight
<1> QED
  BY <1>1, HostInvariant, PTL
=============================================================================

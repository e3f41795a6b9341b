-------------------------- MODULE MockLedgerProofs --------------------------
(***************************************************************************)
(* Theorems about the ledger for every set of clients, accounts, holds,    *)
(* amounts and decisions, and every limit: first LedgerInv, with which     *)
(* every step moves value from purse to purse; then BooksInv, with which   *)
(* every account is explained and the ledger never fails by itself.        *)
(***************************************************************************)
EXTENDS MockLedger, FiniteSumTheorems

\* What a committed reservation looked like.
LEMMA CommittedReserve ==
  ASSUME NEW l, NEW r, r.op = "reserve", LedgerAnswer(l, r) = "committed"
  PROVE  /\ r.buyer # r.provider
         /\ r.amount # 0
         /\ r.hold \notin DOMAIN l.holds
         /\ r.buyer \in DOMAIN l.balances
         /\ r.provider \in DOMAIN l.balances
         /\ ~(r.amount > l.balances[r.buyer])
<1>1. ReserveError(l, r) = "none"
  BY DEF LedgerAnswer, LedgerError, PreconditionError, ReserveError, OutcomeError
<1> QED
  BY <1>1 DEF ReserveError

\* What a committed application of a decision looked like.
LEMMA CommittedApply ==
  ASSUME NEW l, NEW r, r.op = "apply", LedgerAnswer(l, r) = "committed"
  PROVE  /\ r.hold \in DOMAIN l.holds
         /\ l.holds[r.hold].status = "Reserved"
         /\ l.holds[r.hold].decision = NoDecision
         /\ Allocated(r.decision.remedy) = l.holds[r.hold].original
<1>1. ApplyError(l, r) = "none"
  BY DEF LedgerAnswer, LedgerError, PreconditionError, ApplyError, OutcomeError
<1> QED
  BY <1>1 DEF ApplyError

\* The ledger after a step that committed.
LEMMA Committed ==
  ASSUME NEW l, NEW r
  PROVE  /\ LedgerAfter(l, r).balances = Outcome(l, r).balances
         /\ LedgerAfter(l, r).holds = Outcome(l, r).holds
         /\ LedgerAfter(l, r).keys = l.keys \union {r.key}
         /\ LedgerAfter(l, r).revision = l.revision + 1
BY DEF LedgerAfter, SealedLedger

-----------------------------------------------------------------------------

\* What a hold and its decision have to do with each other: an undecided hold locks all
\* of its value between two different accounts, a decided one what its decision retains.
HoldsExplained ==
  \A h \in DOMAIN ledger.holds :
    LET hold == ledger.holds[h]
    IN /\ hold.buyer # hold.provider
       /\ hold.decision = NoDecision => hold.locked = hold.original
       /\ hold.decision # NoDecision =>
            /\ hold.locked = hold.decision.remedy.retained
            /\ Allocated(hold.decision.remedy) = hold.original

LedgerInv == TypeOK /\ HoldsExplained

LEMMA LedgerInit == Init => LedgerInv
<1> SUFFICES ASSUME Init PROVE LedgerInv
  OBVIOUS
<1>1. /\ ledger.balances = Opening /\ ledger.holds = <<>>
      /\ ledger.keys = {} /\ ledger.revision = 0
  BY DEF Init, NewLedger, SealedLedger
<1>2. ledger.balances \in [KnownAccounts -> Nat]
  BY <1>1, OpeningAssumption DEF KnownAccounts
<1> QED
  BY <1>1, <1>2 DEF LedgerInv, TypeOK, HoldsExplained, Init, RequestOK

LEMMA ReserveStep ==
  ASSUME LedgerInv, NEW c \in Clients, NEW r, r = request[c], Commit(c), r.op = "reserve"
  PROVE  LedgerInv' /\ Flow!Next
<1>1. /\ r # NoRequest /\ LedgerAnswer(ledger, r) = "committed"
      /\ ledger' = LedgerAfter(ledger, r) /\ request' = request
      /\ answer' = [answer EXCEPT ![c] = "committed"]
  BY DEF Commit
<1>2. /\ r.buyer # r.provider /\ r.amount # 0 /\ r.hold \notin DOMAIN ledger.holds
      /\ r.buyer \in KnownAccounts /\ r.provider \in KnownAccounts
      /\ ~(r.amount > ledger.balances[r.buyer])
  BY <1>1, CommittedReserve DEF LedgerInv, TypeOK
<1>3. r.amount \in Nat /\ r.hold \in Holds /\ r.key \in LedgerKeys
  BY <1>1, RequestAssumption DEF LedgerInv, TypeOK, RequestOK
<1>4. /\ ledger'.balances = [ledger.balances EXCEPT ![r.buyer] = @ - r.amount]
      /\ ledger'.holds = [h \in DOMAIN ledger.holds \union {r.hold} |->
                            IF h = r.hold THEN NewHold(r) ELSE ledger.holds[h]]
      /\ ledger'.keys = ledger.keys \union {r.key}
      /\ ledger'.revision = ledger.revision + 1
  BY <1>1, Committed DEF Outcome, Reserved
<1>5. ledger.balances[r.buyer] \in Nat /\ r.amount \in 1..ledger.balances[r.buyer]
  BY <1>2, <1>3 DEF LedgerInv, TypeOK
<1>6. NewHold(r) \in Hold
  BY <1>2, <1>3 DEF NewHold, Hold, HoldStatuses
<1>7. TypeOK'
  <2>1. ledger'.balances \in [KnownAccounts -> Nat]
    BY <1>2, <1>4, <1>5 DEF LedgerInv, TypeOK
  <2>2. \A h \in DOMAIN ledger'.holds : ledger'.holds[h] \in Hold
    BY <1>4, <1>6 DEF LedgerInv, TypeOK
  <2>3. /\ DOMAIN ledger'.holds \subseteq Holds
        /\ ledger'.keys \subseteq LedgerKeys
        /\ ledger'.revision \in Nat
    BY <1>3, <1>4 DEF LedgerInv, TypeOK
  <2>4. DOMAIN request' = Clients /\ (\A d \in Clients : RequestOK(request[d]))'
    BY <1>1 DEF LedgerInv, TypeOK, RequestOK
  <2>5. DOMAIN answer' = Clients
    BY <1>1 DEF LedgerInv, TypeOK
  <2> QED
    BY <2>1, <2>2, <2>3, <2>4, <2>5 DEF TypeOK
<1>8. HoldsExplained'
  BY <1>2, <1>4 DEF LedgerInv, HoldsExplained, NewHold
<1>9. Flow!Fund(r.hold, r.buyer, r.amount)
  <2> DEFINE escrow == [h \in Holds |->
                          IF h \in DOMAIN ledger.holds THEN ledger.holds[h].locked ELSE 0]
  <2>1. escrow' = [escrow EXCEPT ![r.hold] = r.amount]
    <3>1. DOMAIN ledger'.holds = DOMAIN ledger.holds \union {r.hold}
      BY <1>4
    <3>2. ledger'.holds[r.hold].locked = r.amount
      BY <1>4 DEF NewHold
    <3>3. \A h \in DOMAIN ledger.holds : h # r.hold => ledger'.holds[h] = ledger.holds[h]
      BY <1>4
    <3> QED
      BY <1>3, <3>1, <3>2, <3>3
  <2>2. Decided' = Decided
    BY <1>2, <1>4 DEF Decided, NewHold
  <2>3. DOMAIN ledger'.holds = DOMAIN ledger.holds \union {r.hold}
    BY <1>4
  <2> QED
    BY <1>2, <1>4, <2>1, <2>2, <2>3 DEF Flow!Fund
<1>10. Flow!Next
  <2>1. r.hold \in Holds /\ r.buyer \in KnownAccounts
    BY <1>2, <1>3
  <2>2. \E amount \in 1..ledger.balances[r.buyer] : Flow!Fund(r.hold, r.buyer, amount)
    BY <1>5, <1>9
  <2>3. \E h \in Holds, buyer \in KnownAccounts :
          \E amount \in 1..ledger.balances[buyer] : Flow!Fund(h, buyer, amount)
    BY <2>1, <2>2
  <2> QED
    BY <2>3 DEF Flow!Next
<1> QED
  BY <1>7, <1>8, <1>10 DEF LedgerInv

LEMMA CreditTyped ==
  ASSUME NEW balances \in [KnownAccounts -> Nat], NEW a \in KnownAccounts, NEW n \in Nat
  PROVE  Credited(balances, a, n) \in [KnownAccounts -> Nat]
BY DEF Credited

LEMMA ApplyStep ==
  ASSUME LedgerInv, NEW c \in Clients, NEW r, r = request[c], Commit(c), r.op = "apply",
         NEW hold, hold = ledger.holds[r.hold]
  PROVE  LedgerInv' /\ Flow!Next
<1> DEFINE remedy == r.decision.remedy
<1>1. /\ r # NoRequest /\ LedgerAnswer(ledger, r) = "committed"
      /\ ledger' = LedgerAfter(ledger, r) /\ request' = request
      /\ answer' = [answer EXCEPT ![c] = "committed"]
  BY DEF Commit
<1>2. /\ r.hold \in DOMAIN ledger.holds
      /\ hold.decision = NoDecision
      /\ Allocated(remedy) = hold.original
  BY <1>1, CommittedApply
<1>3. /\ r.decision \in Decisions /\ r.hold \in Holds /\ r.key \in LedgerKeys
      /\ r.decision # NoDecision
      /\ remedy.kind \in RemedyKinds
      /\ remedy.refund \in Nat /\ remedy.release \in Nat /\ remedy.retained \in Nat
  BY <1>1, RequestAssumption DEF LedgerInv, TypeOK, RequestOK
<1>4. hold \in Hold
  BY <1>2 DEF LedgerInv, TypeOK
<1>5. /\ hold.buyer # hold.provider
      /\ hold.locked = hold.original
  BY <1>2 DEF LedgerInv, HoldsExplained
<1>6. /\ ledger'.balances = Credited(Credited(ledger.balances, hold.buyer, remedy.refund),
                                      hold.provider, remedy.release)
      /\ ledger'.holds = [ledger.holds EXCEPT ![r.hold] = DecidedHold(hold, r.decision)]
      /\ ledger'.keys = ledger.keys \union {r.key}
      /\ ledger'.revision = ledger.revision + 1
  BY <1>1, Committed DEF Outcome, Resolved
<1>7. /\ DecidedHold(hold, r.decision) \in Hold
      /\ DecidedHold(hold, r.decision).decision = r.decision
      /\ DecidedHold(hold, r.decision).locked = remedy.retained
      /\ DecidedHold(hold, r.decision).original = hold.original
      /\ DecidedHold(hold, r.decision).buyer = hold.buyer
      /\ DecidedHold(hold, r.decision).provider = hold.provider
  <2>1. StatusFor(remedy.kind) \in HoldStatuses
    BY <1>3 DEF StatusFor, HoldStatuses, RemedyKinds
  <2> QED
    BY <1>3, <1>4, <2>1 DEF DecidedHold, Hold
<1>8. TypeOK'
  <2>1. ledger'.balances \in [KnownAccounts -> Nat]
    <3>1. hold.buyer \in KnownAccounts /\ hold.provider \in KnownAccounts
      BY <1>4 DEF Hold
    <3>2. ledger.balances \in [KnownAccounts -> Nat]
      BY DEF LedgerInv, TypeOK
    <3>3. Credited(ledger.balances, hold.buyer, remedy.refund) \in [KnownAccounts -> Nat]
      BY <1>3, <3>1, <3>2, CreditTyped
    <3>4. Credited(Credited(ledger.balances, hold.buyer, remedy.refund),
                   hold.provider, remedy.release) \in [KnownAccounts -> Nat]
      BY <1>3, <3>1, <3>3, CreditTyped
    <3> QED
      BY <1>6, <3>4
  <2>2. \A h \in DOMAIN ledger'.holds : ledger'.holds[h] \in Hold
    BY <1>6, <1>7 DEF LedgerInv, TypeOK
  <2>3. /\ DOMAIN ledger'.holds \subseteq Holds
        /\ ledger'.keys \subseteq LedgerKeys
        /\ ledger'.revision \in Nat
    BY <1>3, <1>6 DEF LedgerInv, TypeOK
  <2>4. DOMAIN request' = Clients /\ (\A d \in Clients : RequestOK(request[d]))'
    BY <1>1 DEF LedgerInv, TypeOK, RequestOK
  <2>5. DOMAIN answer' = Clients
    BY <1>1 DEF LedgerInv, TypeOK
  <2> QED
    BY <2>1, <2>2, <2>3, <2>4, <2>5 DEF TypeOK
<1>9. HoldsExplained'
  BY <1>2, <1>3, <1>5, <1>6, <1>7 DEF LedgerInv, HoldsExplained
<1>10. Flow!Divide(r.hold, hold.buyer, hold.provider, remedy.refund, remedy.release)
  <2> DEFINE escrow == [h \in Holds |->
                          IF h \in DOMAIN ledger.holds THEN ledger.holds[h].locked ELSE 0]
  <2>1. escrow[r.hold] = remedy.refund + remedy.release + remedy.retained
    BY <1>2, <1>3, <1>5 DEF Allocated
  <2>2. escrow' = [escrow EXCEPT ![r.hold] = @ - (remedy.refund + remedy.release)]
    <3>1. DOMAIN ledger'.holds = DOMAIN ledger.holds
      BY <1>6
    <3>2. ledger'.holds[r.hold].locked = remedy.retained
      BY <1>2, <1>6, <1>7
    <3>3. \A h \in DOMAIN ledger.holds : h # r.hold => ledger'.holds[h] = ledger.holds[h]
      BY <1>6
    <3>4. escrow[r.hold] - (remedy.refund + remedy.release) = remedy.retained
      BY <1>3, <2>1
    <3> QED
      BY <1>2, <1>3, <3>1, <3>2, <3>3, <3>4
  <2>3. Decided' = Decided \union {r.hold} /\ r.hold \notin Decided
    <3>1. DOMAIN ledger'.holds = DOMAIN ledger.holds
      BY <1>6
    <3>2. r.hold \notin Decided
      BY <1>2 DEF Decided
    <3>3. ledger'.holds[r.hold].decision # NoDecision
      <4>1. ledger'.holds[r.hold] = DecidedHold(hold, r.decision)
        BY <1>2, <1>6
      <4> QED
        BY <1>3, <1>7, <4>1
    <3>4. \A h \in DOMAIN ledger.holds : h # r.hold => ledger'.holds[h] = ledger.holds[h]
      BY <1>6
    <3>5. \A h : h \in Decided' <=> h \in Decided \union {r.hold}
      <4>1. ASSUME NEW h, h = r.hold
            PROVE  h \in Decided' <=> h \in Decided \union {r.hold}
        BY <1>2, <3>1, <3>3, <4>1 DEF Decided
      <4>2. ASSUME NEW h, h # r.hold
            PROVE  h \in Decided' <=> h \in Decided \union {r.hold}
        BY <3>1, <3>4, <4>2 DEF Decided
      <4> QED
        BY <4>1, <4>2
    <3> QED
      BY <3>2, <3>5
  <2>4. DOMAIN ledger'.holds = DOMAIN ledger.holds
    BY <1>6
  <2>5. remedy.refund + remedy.release <= escrow[r.hold]
    BY <1>3, <2>1
  <2>6. ledger'.balances = [ledger.balances EXCEPT ![hold.buyer] = @ + remedy.refund,
                                                   ![hold.provider] = @ + remedy.release]
    BY <1>4, <1>5, <1>6 DEF Credited, LedgerInv, TypeOK, Hold
  <2> QED
    BY <1>2, <1>5, <2>2, <2>3, <2>4, <2>5, <2>6 DEF Flow!Divide
<1>11. Flow!Next
  <2>1. hold.buyer \in KnownAccounts /\ hold.provider \in KnownAccounts
    BY <1>4 DEF Hold
  <2>2. /\ remedy.refund \in 0..hold.locked
        /\ remedy.release \in 0..hold.locked
    BY <1>2, <1>3, <1>5 DEF Allocated
  <2> DEFINE escrow == [h \in Holds |->
                          IF h \in DOMAIN ledger.holds THEN ledger.holds[h].locked ELSE 0]
  <2>3. /\ remedy.refund \in 0..escrow[r.hold]
        /\ remedy.release \in 0..escrow[r.hold]
    BY <1>2, <1>3, <2>2
  <2> HIDE DEF escrow
  <2>4. \E refund, release \in 0..escrow[r.hold] :
          Flow!Divide(r.hold, hold.buyer, hold.provider, refund, release)
    BY <1>10, <2>3
  <2>5. \E h \in Holds, buyer, provider \in KnownAccounts :
          \E refund, release \in 0..escrow[h] : Flow!Divide(h, buyer, provider, refund, release)
    BY <1>3, <2>1, <2>4
  <2> QED
    BY <2>5 DEF Flow!Next, escrow
<1> QED
  BY <1>8, <1>9, <1>11 DEF LedgerInv

\* What only touches requests and answers touches neither the invariant nor the flow.
LEMMA QuietStep ==
  ASSUME LedgerInv, UNCHANGED ledger, DOMAIN request' = Clients, DOMAIN answer' = Clients,
         \A d \in Clients : RequestOK(request'[d])
  PROVE  LedgerInv' /\ UNCHANGED Flow!vars
<1>1. TypeOK'
  BY DEF LedgerInv, TypeOK, RequestOK
<1>2. HoldsExplained'
  BY DEF LedgerInv, HoldsExplained
<1>3. UNCHANGED Flow!vars
  BY DEF Flow!vars, Decided
<1> QED
  BY <1>1, <1>2, <1>3 DEF LedgerInv

LEMMA LedgerStep == LedgerInv /\ [Next]_vars => LedgerInv' /\ [Flow!Next]_Flow!vars
<1> SUFFICES ASSUME LedgerInv, [Next]_vars
             PROVE  LedgerInv' /\ [Flow!Next]_Flow!vars
  OBVIOUS
<1>1. ASSUME NEW c \in Clients, NEW r, RequestOK(r), Build(c, r)
      PROVE  LedgerInv' /\ UNCHANGED Flow!vars
  <2>1. /\ DOMAIN request' = Clients /\ DOMAIN answer' = Clients
        /\ \A d \in Clients : RequestOK(request'[d])
    BY <1>1 DEF Build, LedgerInv, TypeOK
  <2> QED
    BY <1>1, <2>1, QuietStep DEF Build
<1>2. ASSUME NEW c \in Clients, NEW h \in Holds, NEW buyer \in Accounts,
             NEW provider \in Accounts, NEW amount \in Amounts, NEW key \in LedgerKeys,
             PrepareReserve(c, h, buyer, provider, amount, key)
      PROVE  LedgerInv' /\ UNCHANGED Flow!vars
  <2> DEFINE r == [op |-> "reserve", root |-> ledger.root, revision |-> ledger.revision,
                   hold |-> h, buyer |-> buyer, provider |-> provider, amount |-> amount,
                   key |-> key]
  <2>1. RequestOK(r)
    BY DEF RequestOK
  <2> QED
    BY <1>1, <1>2, <2>1 DEF PrepareReserve
<1>3. ASSUME NEW c \in Clients, NEW h \in Holds, NEW decision \in Decisions,
             NEW key \in LedgerKeys, PrepareApply(c, h, decision, key)
      PROVE  LedgerInv' /\ UNCHANGED Flow!vars
  <2> DEFINE r == [op |-> "apply", root |-> ledger.root, revision |-> ledger.revision,
                   hold |-> h, decision |-> decision, key |-> key]
  <2>1. RequestOK(r)
    BY DEF RequestOK
  <2> QED
    BY <1>1, <1>3, <2>1 DEF PrepareApply
<1>4. ASSUME NEW c \in Clients, Commit(c)
      PROVE  LedgerInv' /\ Flow!Next
  <2>1. request[c].op = "reserve" \/ request[c].op = "apply"
    BY <1>4 DEF Commit, LedgerInv, TypeOK, RequestOK
  <2> QED
    BY <1>4, <2>1, ReserveStep, ApplyStep
<1>5. ASSUME NEW c \in Clients, Refuse(c)
      PROVE  LedgerInv' /\ UNCHANGED Flow!vars
  <2>1. /\ DOMAIN request' = Clients /\ DOMAIN answer' = Clients
        /\ \A d \in Clients : RequestOK(request'[d])
    BY <1>5 DEF Refuse, LedgerInv, TypeOK
  <2> QED
    BY <1>5, <2>1, QuietStep DEF Refuse
<1>6. CASE UNCHANGED vars
  <2>1. /\ DOMAIN request' = Clients /\ DOMAIN answer' = Clients
        /\ \A d \in Clients : RequestOK(request'[d])
    BY <1>6 DEF vars, LedgerInv, TypeOK
  <2> QED
    BY <1>6, <2>1, QuietStep DEF vars
<1> QED
  BY <1>2, <1>3, <1>4, <1>5, <1>6 DEF Next

\* The ledger stays well typed: in particular no balance is ever driven below zero.
THEOREM LedgerTypeCorrect == Spec => []TypeOK
<1>1. Spec => []LedgerInv
  BY LedgerInit, LedgerStep, PTL DEF Spec
<1>2. LedgerInv => TypeOK
  BY DEF LedgerInv
<1> QED
  BY <1>1, <1>2, PTL

\* Every decided hold retains exactly what its recorded decision retains, and that
\* decision allocated exactly the value of the hold (apply_decision 337-364).
THEOREM DecisionsExplainHolds == Spec => []HoldsExplained
<1>1. Spec => []LedgerInv
  BY LedgerInit, LedgerStep, PTL DEF Spec
<1>2. LedgerInv => HoldsExplained
  BY DEF LedgerInv
<1> QED
  BY <1>1, <1>2, PTL

LEMMA FlowInit == Init => Flow!Init
<1> SUFFICES ASSUME Init PROVE Flow!Init
  OBVIOUS
<1>1. ledger.balances \in [KnownAccounts -> Nat]
  BY LedgerInit DEF LedgerInv, TypeOK
<1>2. ledger.holds = <<>>
  BY DEF Init, NewLedger, SealedLedger
<1> QED
  BY <1>1, <1>2 DEF Flow!Init, Decided

\* The ledger, with its races, retries and refused requests, implements the flow of
\* value: every committed operation is one Fund or one Divide, anything else is a stutter
\* (reserve and apply_decision).
THEOREM LedgerImplementsValueFlow == Spec => ImplementsValueFlow
<1>1. Spec => Flow!Init /\ [][Flow!Next]_Flow!vars
  BY LedgerInit, LedgerStep, FlowInit, PTL DEF Spec
<1> QED
  BY <1>1 DEF ImplementsValueFlow, Flow!Spec

-----------------------------------------------------------------------------

\* The books of the ledger: the stored total is the opening total and what the balances
\* and the holds add up to, the root is the one that was sealed, and every account is
\* explained.  The answers follow: none of the ledger's assertions can fail.
BooksInv ==
  /\ LedgerInv
  /\ IsFiniteSet(DOMAIN ledger.holds)
  /\ ledger.initial = SumFunction(Opening)
  /\ TotalValue(ledger.balances, ledger.holds) = ledger.initial
  /\ ledger.root = LedgerRoot(ledger.balances, ledger.holds, ledger.keys,
                              ledger.revision, ledger.initial)
  /\ AccountsReconcile
  /\ NoInternalFailure

LEMMA OpeningSum == SumFunction(Opening) \in Nat /\ SumFunction(Opening) <= MaxAmount
BY OpeningAssumption, SumIsNat

LEMMA BooksInit == Init => BooksInv
<1> SUFFICES ASSUME Init PROVE BooksInv
  OBVIOUS
<1>1. /\ ledger.balances = Opening /\ ledger.holds = <<>>
      /\ ledger.initial = SumFunction(Opening)
      /\ ledger.root = LedgerRoot(ledger.balances, ledger.holds, ledger.keys,
                                  ledger.revision, ledger.initial)
      /\ DOMAIN ledger.holds = {}
  BY DEF Init, NewLedger, SealedLedger
<1>2. LedgerInv /\ NoInternalFailure
  BY LedgerInit DEF Init, NoInternalFailure
<1>3. IsFiniteSet(DOMAIN ledger.holds)
  BY <1>1, FS_EmptySet
<1>4. ASSUME NEW D, D = {}, NEW Value(_)
      PROVE  SumFunction([h \in D |-> Value(h)]) = 0
  <2>1. [h \in D |-> Value(h)] = <<>>
    BY <1>4
  <2> QED
    BY <2>1, EmptySum
<1>5. TotalValue(ledger.balances, ledger.holds) = ledger.initial
  <2>1. SumFunction([h \in DOMAIN ledger.holds |-> ledger.holds[h].locked]) = 0
    BY <1>1, <1>4
  <2> QED
    BY <1>1, <2>1, OpeningSum DEF TotalValue
<1>6. AccountsReconcile
  <2> SUFFICES ASSUME NEW a \in KnownAccounts
               PROVE  ledger.balances[a] + PaidBy(a)
                        = Opening[a] + RefundedTo(a) + ReleasedTo(a)
    BY DEF AccountsReconcile
  <2>1. Bought(a) = {} /\ Sold(a) = {}
    BY <1>1 DEF Bought, Sold
  <2>2. PaidBy(a) = 0
    BY <2>1, <1>4 DEF PaidBy
  <2>3. RefundedTo(a) = 0
    BY <2>1, <1>4 DEF RefundedTo
  <2>4. ReleasedTo(a) = 0
    BY <2>1, <1>4 DEF ReleasedTo
  <2>5. Opening[a] \in Nat
    BY OpeningAssumption DEF KnownAccounts
  <2> QED
    BY <1>1, <2>2, <2>3, <2>4, <2>5
<1> QED
  BY <1>1, <1>2, <1>3, <1>5, <1>6 DEF BooksInv

\* verify_ledger accepts every ledger that the operations return.
LEMMA LedgerVerifies ==
  ASSUME BooksInv
  PROVE  LedgerError(ledger) = "none"
<1>1. \A h \in DOMAIN ledger.holds : ~(ledger.holds[h].locked > ledger.holds[h].original)
  <2> TAKE h \in DOMAIN ledger.holds
  <2> DEFINE hold == ledger.holds[h]
  <2>1. /\ hold.decision \in Decisions \union {NoDecision}
        /\ hold.original \in Nat /\ hold.locked \in Nat
    BY DEF BooksInv, LedgerInv, TypeOK, Hold
  <2>2. CASE hold.decision = NoDecision
    BY <2>1, <2>2 DEF BooksInv, LedgerInv, HoldsExplained
  <2>3. CASE hold.decision # NoDecision
    <3>1. hold.decision \in Decisions
      BY <2>1, <2>3
    <3>2. /\ hold.decision.remedy.refund \in Nat
          /\ hold.decision.remedy.release \in Nat
          /\ hold.decision.remedy.retained \in Nat
      BY <3>1, RequestAssumption
    <3>3. /\ hold.locked = hold.decision.remedy.retained
          /\ Allocated(hold.decision.remedy) = hold.original
      BY <2>3 DEF BooksInv, LedgerInv, HoldsExplained
    <3> QED
      BY <3>2, <3>3 DEF Allocated
  <2> QED
    BY <2>2, <2>3
<1>2. ~(TotalValue(ledger.balances, ledger.holds) > MaxAmount)
  BY OpeningSum, AmountAssumption DEF BooksInv
<1> QED
  BY <1>1, <1>2 DEF LedgerError, BooksInv

-----------------------------------------------------------------------------

Locks(holds) == [h \in DOMAIN holds |-> holds[h].locked]

\* What a reservation takes from the buyer it locks in the hold.
LEMMA ReserveConserves ==
  ASSUME BooksInv, NEW r, r.op = "reserve", r.amount \in Nat, ReserveError(ledger, r) = "none",
         NEW balances, balances = Outcome(ledger, r).balances,
         NEW holds, holds = Outcome(ledger, r).holds
  PROVE  /\ balances \in [KnownAccounts -> Nat]
         /\ TotalValue(balances, holds) = TotalValue(ledger.balances, ledger.holds)
<1> DEFINE old == ledger.balances
           D == DOMAIN ledger.holds
<1>1. /\ r.hold \notin D /\ r.buyer \in DOMAIN old /\ ~(r.amount > old[r.buyer])
  BY DEF ReserveError
<1>2. old \in [KnownAccounts -> Nat] /\ IsFiniteSet(KnownAccounts) /\ IsFiniteSet(D)
  BY OpeningAssumption DEF BooksInv, LedgerInv, TypeOK
<1>3. /\ balances = [old EXCEPT ![r.buyer] = @ - r.amount]
      /\ holds = [h \in D \union {r.hold} |->
                    IF h = r.hold THEN NewHold(r) ELSE ledger.holds[h]]
  BY DEF Outcome, Reserved
<1>4. balances \in [KnownAccounts -> Nat]
  BY <1>1, <1>2, <1>3
<1>5. SumFunction(balances) + old[r.buyer] = SumFunction(old) + (old[r.buyer] - r.amount)
  <2>1. r.buyer \in KnownAccounts
    BY <1>1, <1>2
  <2>2. balances[r.buyer] = old[r.buyer] - r.amount
    BY <1>2, <1>3, <2>1
  <2>3. \A x \in KnownAccounts \ {r.buyer} : balances[x] = old[x]
    BY <1>2, <1>3
  <2> HIDE DEF old
  <2>4. SumFunction(balances) + old[r.buyer] = SumFunction(old) + balances[r.buyer]
    BY <1>2, <1>4, <2>1, <2>3, SumUpdated
  <2> QED
    BY <2>2, <2>4
<1>6. SumFunction(Locks(holds)) = SumFunction(Locks(ledger.holds)) + r.amount
  <2> DEFINE f == Locks(ledger.holds)
             g == Locks(holds)
             A == D \union {r.hold}
  <2>1. f \in [D -> Nat]
    BY DEF Locks, BooksInv, LedgerInv, TypeOK, Hold
  <2>2. g[r.hold] = r.amount /\ \A x \in D : g[x] = f[x]
    BY <1>1, <1>3 DEF Locks, NewHold
  <2>3. g \in [A -> Nat] /\ D = A \ {r.hold}
    BY <1>1, <1>3, <2>1, <2>2 DEF Locks
  <2>4. r.hold \in A /\ IsFiniteSet(A)
    BY <1>2, FS_AddElement
  <2>5. \A x \in D : g[x] = f[x]
    BY <2>2
  <2>6. SumFunction(g) = SumFunction(f) + g[r.hold]
    <3> DEFINE h == r.hold
    <3>1. h \in A /\ D = A \ {h} /\ r.hold = h
      BY <2>3, <2>4
    <3> HIDE DEF f, g, D, A, h
    <3>2. IsFiniteSet(A) /\ g \in [A -> Nat] /\ f \in [D -> Nat]
      BY <2>1, <2>3, <2>4
    <3>3. SumFunction(g) = SumFunction(f) + g[h]
      BY <2>5, <3>1, <3>2, SumExtended
    <3> QED
      BY <3>1, <3>3
  <2> QED
    BY <2>2, <2>6
<1>7. SumFunction(balances) \in Nat /\ SumFunction(old) \in Nat
  BY <1>2, <1>4, SumIsNat
<1>8. SumFunction(Locks(ledger.holds)) \in Nat
  <2>1. Locks(ledger.holds) \in [D -> Nat]
    BY DEF Locks, BooksInv, LedgerInv, TypeOK, Hold
  <2> QED
    BY <1>2, <2>1, SumIsNat
<1>9. old[r.buyer] \in Nat
  BY <1>1, <1>2
<1>10. SumFunction(balances) + SumFunction(Locks(holds))
         = SumFunction(old) + SumFunction(Locks(ledger.holds))
  BY <1>5, <1>6, <1>7, <1>8, <1>9
<1> QED
  BY <1>4, <1>10 DEF TotalValue, Locks

\* What a decision takes out of a hold it credits to the parties of the hold.
LEMMA ApplyConserves ==
  ASSUME BooksInv, NEW r, r.op = "apply", r.decision \in Decisions,
         ApplyError(ledger, r) = "none",
         NEW balances, balances = Outcome(ledger, r).balances,
         NEW holds, holds = Outcome(ledger, r).holds
  PROVE  /\ balances \in [KnownAccounts -> Nat]
         /\ TotalValue(balances, holds) = TotalValue(ledger.balances, ledger.holds)
<1> DEFINE old == ledger.balances
           D == DOMAIN ledger.holds
           hold == ledger.holds[r.hold]
           remedy == r.decision.remedy
           refunded == Credited(old, hold.buyer, remedy.refund)
<1>1. r.hold \in D /\ hold.decision = NoDecision /\ Allocated(remedy) = hold.original
  BY DEF ApplyError
<1>2. old \in [KnownAccounts -> Nat] /\ IsFiniteSet(KnownAccounts) /\ IsFiniteSet(D)
  BY OpeningAssumption DEF BooksInv, LedgerInv, TypeOK
<1>3. /\ balances = Credited(refunded, hold.provider, remedy.release)
      /\ holds = [ledger.holds EXCEPT ![r.hold] = DecidedHold(hold, r.decision)]
  BY DEF Outcome, Resolved
<1>4. remedy.refund \in Nat /\ remedy.release \in Nat /\ remedy.retained \in Nat
  BY RequestAssumption
<1>5. hold \in Hold /\ hold.locked = hold.original
  BY <1>1 DEF BooksInv, LedgerInv, TypeOK, HoldsExplained
<1>6. hold.buyer \in KnownAccounts /\ hold.provider \in KnownAccounts /\ hold.locked \in Nat
  BY <1>5 DEF Hold
<1>7. ASSUME NEW before \in [KnownAccounts -> Nat], NEW a \in KnownAccounts, NEW n \in Nat
      PROVE  /\ Credited(before, a, n) \in [KnownAccounts -> Nat]
             /\ SumFunction(Credited(before, a, n)) = SumFunction(before) + n
  <2> DEFINE after == Credited(before, a, n)
  <2>1. after \in [KnownAccounts -> Nat]
    BY CreditTyped
  <2>2. after[a] = before[a] + n /\ \A x \in KnownAccounts \ {a} : after[x] = before[x]
    BY DEF Credited
  <2> HIDE DEF after
  <2>3. SumFunction(after) + before[a] = SumFunction(before) + after[a]
    BY <1>2, <2>1, <2>2, SumUpdated
  <2>4. /\ SumFunction(after) \in Nat /\ SumFunction(before) \in Nat
        /\ before[a] \in Nat
    BY <1>2, <2>1, SumIsNat
  <2>5. SumFunction(after) = SumFunction(before) + n
    BY <2>2, <2>3, <2>4
  <2> QED
    BY <2>1, <2>5 DEF after
<1>8. /\ refunded \in [KnownAccounts -> Nat]
      /\ SumFunction(refunded) = SumFunction(old) + remedy.refund
  BY <1>2, <1>4, <1>6, <1>7
<1>9. /\ balances \in [KnownAccounts -> Nat]
      /\ SumFunction(balances) = SumFunction(refunded) + remedy.release
  <2> HIDE DEF refunded
  <2> QED
    BY <1>3, <1>4, <1>6, <1>7, <1>8
<1>10. SumFunction(Locks(holds)) + hold.locked
         = SumFunction(Locks(ledger.holds)) + remedy.retained
  <2> DEFINE f == Locks(ledger.holds)
             g == Locks(holds)
  <2>1. f \in [D -> Nat]
    BY DEF Locks, BooksInv, LedgerInv, TypeOK, Hold
  <2>2. DOMAIN holds = D
    BY <1>3
  <2>3. f[r.hold] = hold.locked /\ g[r.hold] = remedy.retained
    BY <1>1, <1>3, <1>5 DEF Locks, DecidedHold, Hold
  <2>4. \A x \in D \ {r.hold} : g[x] = f[x]
    BY <1>3 DEF Locks
  <2>5. g \in [D -> Nat]
    BY <1>4, <2>1, <2>2, <2>3, <2>4 DEF Locks
  <2> HIDE DEF f, g, D
  <2>6. SumFunction(g) + f[r.hold] = SumFunction(f) + g[r.hold]
    BY <1>1, <1>2, <2>1, <2>4, <2>5, SumUpdated
  <2> QED
    BY <2>3, <2>6 DEF f, g
<1>11. SumFunction(Locks(ledger.holds)) \in Nat /\ SumFunction(Locks(holds)) \in Nat
  <2>1. Locks(ledger.holds) \in [D -> Nat]
    BY DEF Locks, BooksInv, LedgerInv, TypeOK, Hold
  <2>2. DOMAIN holds = D /\ holds[r.hold].locked = remedy.retained
    BY <1>1, <1>3, <1>5 DEF DecidedHold, Hold
  <2>3. \A x \in D \ {r.hold} : holds[x] = ledger.holds[x]
    BY <1>3
  <2>4. Locks(holds) \in [D -> Nat]
    BY <1>4, <2>1, <2>2, <2>3 DEF Locks
  <2> QED
    BY <1>2, <2>1, <2>4, SumIsNat
<1>12. SumFunction(old) \in Nat
  BY <1>2, SumIsNat
<1>13. hold.locked = remedy.refund + remedy.release + remedy.retained
  BY <1>1, <1>5 DEF Allocated
<1>14. SumFunction(balances) + SumFunction(Locks(holds))
         = SumFunction(old) + SumFunction(Locks(ledger.holds))
  <2> HIDE DEF refunded, remedy, hold, old
  <2> QED
    BY <1>4, <1>8, <1>9, <1>10, <1>11, <1>12, <1>13
<1> QED
  BY <1>9, <1>14 DEF TotalValue, Locks

-----------------------------------------------------------------------------

Decision(h) == ledger.holds[h].decision.remedy

\* The parts of an account are sums of natural numbers over finitely many holds.
LEMMA AccountSums ==
  ASSUME LedgerInv, IsFiniteSet(DOMAIN ledger.holds), NEW a
  PROVE  /\ IsFiniteSet(Bought(a)) /\ IsFiniteSet(Sold(a)) /\ IsFiniteSet(Decided)
         /\ [h \in Bought(a) |-> ledger.holds[h].original] \in [Bought(a) -> Nat]
         /\ [h \in Bought(a) \intersect Decided |-> Decision(h).refund]
              \in [Bought(a) \intersect Decided -> Nat]
         /\ [h \in Sold(a) \intersect Decided |-> Decision(h).release]
              \in [Sold(a) \intersect Decided -> Nat]
         /\ PaidBy(a) \in Nat /\ RefundedTo(a) \in Nat /\ ReleasedTo(a) \in Nat
<1>1. /\ Bought(a) \subseteq DOMAIN ledger.holds
      /\ Sold(a) \subseteq DOMAIN ledger.holds
      /\ Decided \subseteq DOMAIN ledger.holds
  BY DEF Bought, Sold, Decided
<1>2. IsFiniteSet(Bought(a)) /\ IsFiniteSet(Sold(a)) /\ IsFiniteSet(Decided)
  BY <1>1, FS_Subset
<1>3. /\ IsFiniteSet(Bought(a) \intersect Decided)
      /\ IsFiniteSet(Sold(a) \intersect Decided)
  BY <1>2, FS_Intersection
<1>4. \A h \in DOMAIN ledger.holds : ledger.holds[h].original \in Nat
  BY DEF LedgerInv, TypeOK, Hold
<1>5. \A h \in Decided : Decision(h).refund \in Nat /\ Decision(h).release \in Nat
  <2> TAKE h \in Decided
  <2>1. ledger.holds[h].decision \in Decisions
    BY DEF LedgerInv, TypeOK, Hold, Decided
  <2> QED
    BY <2>1, RequestAssumption DEF Decision
<1>6. [h \in Bought(a) |-> ledger.holds[h].original] \in [Bought(a) -> Nat]
  BY <1>1, <1>4
<1>7. [h \in Bought(a) \intersect Decided |-> Decision(h).refund]
        \in [Bought(a) \intersect Decided -> Nat]
  BY <1>5
<1>8. [h \in Sold(a) \intersect Decided |-> Decision(h).release]
        \in [Sold(a) \intersect Decided -> Nat]
  BY <1>5
<1>9. PaidBy(a) \in Nat
  BY <1>2, <1>6, SumIsNat DEF PaidBy
<1>10. RefundedTo(a) \in Nat
  BY <1>3, <1>7, SumIsNat DEF RefundedTo, Decision
<1>11. ReleasedTo(a) \in Nat
  BY <1>3, <1>8, SumIsNat DEF ReleasedTo, Decision
<1> QED
  BY <1>2, <1>6, <1>7, <1>8, <1>9, <1>10, <1>11

LEMMA ReserveReconciles ==
  ASSUME BooksInv, NEW r, r.op = "reserve", r.amount \in Nat,
         LedgerAnswer(ledger, r) = "committed", ledger' = LedgerAfter(ledger, r)
  PROVE  AccountsReconcile'
<1> DEFINE D == DOMAIN ledger.holds
<1>1. /\ r.hold \notin D /\ r.buyer \in DOMAIN ledger.balances
      /\ ~(r.amount > ledger.balances[r.buyer])
  BY CommittedReserve
<1>2. ledger.balances \in [KnownAccounts -> Nat] /\ Opening \in [KnownAccounts -> Nat]
  BY OpeningAssumption DEF BooksInv, LedgerInv, TypeOK
<1>3. /\ ledger'.balances = [ledger.balances EXCEPT ![r.buyer] = @ - r.amount]
      /\ ledger'.holds = [h \in D \union {r.hold} |->
                            IF h = r.hold THEN NewHold(r) ELSE ledger.holds[h]]
  BY Committed DEF Outcome, Reserved
<1>4. /\ DOMAIN ledger'.holds = D \union {r.hold}
      /\ ledger'.holds[r.hold] = NewHold(r)
      /\ \A h \in D : ledger'.holds[h] = ledger.holds[h]
  BY <1>1, <1>3
<1>5. Decided' = Decided
  BY <1>1, <1>4 DEF Decided, NewHold
<1> SUFFICES ASSUME NEW a \in KnownAccounts
             PROVE  ledger'.balances[a] + PaidBy(a)'
                      = Opening[a] + RefundedTo(a)' + ReleasedTo(a)'
  BY DEF AccountsReconcile
<1>6. (Bought(a) \intersect Decided)' = Bought(a) \intersect Decided
  BY <1>1, <1>4, <1>5 DEF Bought, Decided
<1>7. (Sold(a) \intersect Decided)' = Sold(a) \intersect Decided
  BY <1>1, <1>4, <1>5 DEF Sold, Decided
<1>8. \A h \in Decided : ledger'.holds[h] = ledger.holds[h]
  BY <1>4 DEF Decided
<1>9. RefundedTo(a)' = RefundedTo(a)
  BY <1>6, <1>8 DEF RefundedTo
<1>10. ReleasedTo(a)' = ReleasedTo(a)
  BY <1>7, <1>8 DEF ReleasedTo
<1>11. /\ ledger.balances[a] + PaidBy(a) = Opening[a] + RefundedTo(a) + ReleasedTo(a)
       /\ PaidBy(a) \in Nat /\ IsFiniteSet(Bought(a))
       /\ [h \in Bought(a) |-> ledger.holds[h].original] \in [Bought(a) -> Nat]
  BY AccountSums DEF BooksInv, AccountsReconcile
<1>12. CASE a = r.buyer
  <2> DEFINE S == Bought(a)
             T == Bought(a)'
             f == [h \in S |-> ledger.holds[h].original]
             g == [h \in T |-> ledger'.holds[h].original]
             new == r.hold
  <2>1. new \notin S /\ T = S \union {new}
    BY <1>1, <1>4, <1>12 DEF Bought, NewHold
  <2>2. (\A x \in S : g[x] = f[x]) /\ g[new] = r.amount
    BY <1>4, <2>1 DEF Bought, NewHold
  <2>3. PaidBy(a) = SumFunction(f) /\ PaidBy(a)' = SumFunction(g)
    BY DEF PaidBy
  <2>4. g = [x \in T |-> g[x]] /\ IsFiniteSet(S) /\ f \in [S -> Nat]
    BY <1>11
  <2>5. SumFunction(g) = SumFunction(f) + r.amount
    <3> HIDE DEF S, T, f, g, new
    <3> QED
      BY <2>1, <2>2, <2>4, SumJoined
  <2>6. PaidBy(a)' = PaidBy(a) + r.amount
    BY <2>3, <2>5
  <2>7. ledger'.balances[a] = ledger.balances[a] - r.amount /\ ledger.balances[a] \in Nat
    BY <1>2, <1>3, <1>12
  <2>8. ledger'.balances[a] + PaidBy(a)' = ledger.balances[a] + PaidBy(a)
    BY <1>11, <2>6, <2>7
  <2> QED
    BY <1>9, <1>10, <1>11, <2>8
<1>13. CASE a # r.buyer
  <2>1. Bought(a)' = Bought(a)
    BY <1>1, <1>4, <1>13 DEF Bought, NewHold
  <2>2. \A h \in Bought(a) : ledger'.holds[h] = ledger.holds[h]
    BY <1>4 DEF Bought
  <2>3. PaidBy(a)' = PaidBy(a)
    BY <2>1, <2>2 DEF PaidBy
  <2>4. ledger'.balances[a] = ledger.balances[a]
    BY <1>2, <1>3, <1>13
  <2> QED
    BY <1>9, <1>10, <1>11, <2>3, <2>4
<1> QED
  BY <1>12, <1>13

LEMMA ApplyReconciles ==
  ASSUME BooksInv, NEW r, r.op = "apply", r.decision \in Decisions,
         LedgerAnswer(ledger, r) = "committed", ledger' = LedgerAfter(ledger, r)
  PROVE  AccountsReconcile'
<1> DEFINE D == DOMAIN ledger.holds
           hold == ledger.holds[r.hold]
           remedy == r.decision.remedy
<1>1. r.hold \in D /\ hold.decision = NoDecision
  BY CommittedApply
<1>2. ledger.balances \in [KnownAccounts -> Nat] /\ Opening \in [KnownAccounts -> Nat]
  BY OpeningAssumption DEF BooksInv, LedgerInv, TypeOK
<1>3. /\ ledger'.balances = Credited(Credited(ledger.balances, hold.buyer, remedy.refund),
                                     hold.provider, remedy.release)
      /\ ledger'.holds = [ledger.holds EXCEPT ![r.hold] = DecidedHold(hold, r.decision)]
  BY Committed DEF Outcome, Resolved
<1>4. r.decision # NoDecision /\ remedy.refund \in Nat /\ remedy.release \in Nat
  BY RequestAssumption
<1>5. hold \in Hold
  BY <1>1 DEF BooksInv, LedgerInv, TypeOK
<1>6. hold.buyer \in KnownAccounts /\ hold.provider \in KnownAccounts
  BY <1>5 DEF Hold
<1>7. hold.buyer # hold.provider
  BY <1>1 DEF BooksInv, LedgerInv, HoldsExplained
<1>8. /\ DOMAIN ledger'.holds = D
      /\ ledger'.holds[r.hold].buyer = hold.buyer
      /\ ledger'.holds[r.hold].provider = hold.provider
      /\ ledger'.holds[r.hold].original = hold.original
      /\ ledger'.holds[r.hold].decision = r.decision
      /\ \A h \in D \ {r.hold} : ledger'.holds[h] = ledger.holds[h]
  <2>1. /\ DOMAIN ledger'.holds = D
        /\ ledger'.holds[r.hold] = DecidedHold(hold, r.decision)
        /\ \A h \in D \ {r.hold} : ledger'.holds[h] = ledger.holds[h]
    BY <1>1, <1>3
  <2> QED
    BY <1>5, <2>1 DEF DecidedHold, Hold
<1>9. r.hold \notin Decided /\ Decided' = Decided \union {r.hold}
  BY <1>1, <1>4, <1>8 DEF Decided
<1> HIDE DEF hold
<1> SUFFICES ASSUME NEW a \in KnownAccounts
             PROVE  ledger'.balances[a] + PaidBy(a)'
                      = Opening[a] + RefundedTo(a)' + ReleasedTo(a)'
  BY DEF AccountsReconcile
<1>10. Bought(a)' = Bought(a) /\ Sold(a)' = Sold(a)
  BY <1>1, <1>8 DEF Bought, Sold, hold
<1>11. PaidBy(a)' = PaidBy(a)
  <2>1. \A h \in Bought(a) : ledger'.holds[h].original = ledger.holds[h].original
    BY <1>1, <1>8 DEF Bought, hold
  <2> QED
    BY <1>10, <2>1 DEF PaidBy
<1>12. /\ ledger.balances[a] + PaidBy(a) = Opening[a] + RefundedTo(a) + ReleasedTo(a)
       /\ PaidBy(a) \in Nat /\ RefundedTo(a) \in Nat /\ ReleasedTo(a) \in Nat
       /\ IsFiniteSet(Bought(a) \intersect Decided)
       /\ IsFiniteSet(Sold(a) \intersect Decided)
       /\ [h \in Bought(a) \intersect Decided |-> Decision(h).refund]
            \in [Bought(a) \intersect Decided -> Nat]
       /\ [h \in Sold(a) \intersect Decided |-> Decision(h).release]
            \in [Sold(a) \intersect Decided -> Nat]
  BY AccountSums, FS_Intersection DEF BooksInv, AccountsReconcile
<1>13. \A h \in Decided : ledger'.holds[h] = ledger.holds[h]
  BY <1>8, <1>9 DEF Decided
<1>14. RefundedTo(a)' = RefundedTo(a) + (IF a = hold.buyer THEN remedy.refund ELSE 0)
  <2> DEFINE S == Bought(a) \intersect Decided
             T == (Bought(a) \intersect Decided)'
             f == [h \in S |-> Decision(h).refund]
             g == [h \in T |-> ledger'.holds[h].decision.remedy.refund]
             new == r.hold
             amount == remedy.refund
  <2>1. RefundedTo(a) = SumFunction(f) /\ RefundedTo(a)' = SumFunction(g)
    BY DEF RefundedTo, Decision
  <2>2. CASE a = hold.buyer
    <3>1. new \notin S /\ T = S \union {new}
      BY <1>1, <1>9, <1>10, <2>2 DEF Bought, hold
    <3>2. (\A x \in S : g[x] = f[x]) /\ g[new] = amount
      BY <1>8, <1>13, <3>1 DEF Decision
    <3>3. g = [x \in T |-> g[x]] /\ IsFiniteSet(S) /\ f \in [S -> Nat] /\ amount \in Nat
      BY <1>4, <1>12
    <3>4. SumFunction(g) = SumFunction(f) + amount
      <4> HIDE DEF S, T, f, g, new, amount
      <4> QED
        BY <3>1, <3>2, <3>3, SumJoined
    <3> QED
      BY <2>1, <2>2, <3>4
  <2>3. CASE a # hold.buyer
    <3>1. T = S
      BY <1>9, <1>10, <2>3 DEF Bought, hold
    <3>2. g = f
      BY <1>13, <3>1 DEF Decision
    <3> QED
      BY <1>12, <2>1, <2>3, <3>2
  <2> QED
    BY <2>2, <2>3
<1>15. ReleasedTo(a)' = ReleasedTo(a) + (IF a = hold.provider THEN remedy.release ELSE 0)
  <2> DEFINE S == Sold(a) \intersect Decided
             T == (Sold(a) \intersect Decided)'
             f == [h \in S |-> Decision(h).release]
             g == [h \in T |-> ledger'.holds[h].decision.remedy.release]
             new == r.hold
             amount == remedy.release
  <2>1. ReleasedTo(a) = SumFunction(f) /\ ReleasedTo(a)' = SumFunction(g)
    BY DEF ReleasedTo, Decision
  <2>2. CASE a = hold.provider
    <3>1. new \notin S /\ T = S \union {new}
      BY <1>1, <1>9, <1>10, <2>2 DEF Sold, hold
    <3>2. (\A x \in S : g[x] = f[x]) /\ g[new] = amount
      BY <1>8, <1>13, <3>1 DEF Decision
    <3>3. g = [x \in T |-> g[x]] /\ IsFiniteSet(S) /\ f \in [S -> Nat] /\ amount \in Nat
      BY <1>4, <1>12
    <3>4. SumFunction(g) = SumFunction(f) + amount
      <4> HIDE DEF S, T, f, g, new, amount
      <4> QED
        BY <3>1, <3>2, <3>3, SumJoined
    <3> QED
      BY <2>1, <2>2, <3>4
  <2>3. CASE a # hold.provider
    <3>1. T = S
      BY <1>9, <1>10, <2>3 DEF Sold, hold
    <3>2. g = f
      BY <1>13, <3>1 DEF Decision
    <3> QED
      BY <1>12, <2>1, <2>3, <3>2
  <2> QED
    BY <2>2, <2>3
<1>16. ledger'.balances[a] = ledger.balances[a] + (IF a = hold.buyer THEN remedy.refund ELSE 0)
                                + (IF a = hold.provider THEN remedy.release ELSE 0)
  BY <1>2, <1>3, <1>4, <1>6, <1>7 DEF Credited
<1>17. ledger.balances[a] \in Nat /\ Opening[a] \in Nat
  BY <1>2
<1> HIDE DEF remedy
<1> QED
  BY <1>4, <1>7, <1>11, <1>12, <1>14, <1>15, <1>16, <1>17 DEF remedy

-----------------------------------------------------------------------------

\* The ledger refuses a request for a reason of the request's, never for one of its own.
LEMMA NoSelfAccusation ==
  ASSUME BooksInv, NEW r, r # NoRequest, RequestOK(r)
  PROVE  LedgerAnswer(ledger, r) \notin {"InvalidStoredLedger", "AmountOverflow"}
<1>1. PreconditionError(ledger, r) \notin {"InvalidStoredLedger", "AmountOverflow"}
  BY DEF PreconditionError
<1>2. TotalValue(ledger.balances, ledger.holds) = ledger.initial /\ ledger.initial \in Nat
      /\ ledger.initial <= MaxAmount /\ MaxAmount \in Nat
  BY OpeningSum, AmountAssumption DEF BooksInv
<1>3. DOMAIN ledger.balances = KnownAccounts /\ IsFiniteSet(KnownAccounts)
      /\ ledger.balances \in [KnownAccounts -> Nat]
  BY OpeningAssumption DEF BooksInv, LedgerInv, TypeOK
<1> DEFINE balances == Outcome(ledger, r).balances
           holds == Outcome(ledger, r).holds
\* A conserving outcome passes finish_mutation, and no single balance exceeds the total.
<1>4. ASSUME balances \in [KnownAccounts -> Nat],
             TotalValue(balances, holds) = TotalValue(ledger.balances, ledger.holds),
             Locks(holds) \in [DOMAIN holds -> Nat], IsFiniteSet(DOMAIN holds)
      PROVE  OutcomeError(ledger, r) = "none"
  <2> HIDE DEF balances, holds
  <2>1. SumFunction(balances) \in Nat /\ SumFunction(Locks(holds)) \in Nat
    BY <1>3, <1>4, SumIsNat
  <2>2. SumFunction(balances) + SumFunction(Locks(holds)) = ledger.initial
    BY <1>2, <1>4 DEF TotalValue, Locks
  <2>3. SumFunction(balances) <= MaxAmount
    BY <1>2, <2>1, <2>2
  <2>4. \A a \in KnownAccounts : ~(balances[a] > MaxAmount)
    <3> TAKE a \in KnownAccounts
    <3>1. balances[a] <= SumFunction(balances) /\ balances[a] \in Nat
      BY <1>3, <1>4, SumBounds
    <3> QED
      BY <1>2, <2>1, <2>3, <3>1
  <2>5. /\ ~(TotalValue(balances, holds) > MaxAmount)
        /\ TotalValue(balances, holds) = ledger.initial
    BY <1>2, <1>4
  <2> QED
    BY <1>3, <2>4, <2>5 DEF OutcomeError, balances, holds
<1>5. CASE r.op = "reserve"
  <2>1. r.amount \in Nat
    BY <1>5, RequestAssumption DEF RequestOK
  <2>2. ReserveError(ledger, r) \notin {"InvalidStoredLedger", "AmountOverflow"}
    BY DEF ReserveError
  <2>3. ASSUME ReserveError(ledger, r) = "none"
        PROVE  OutcomeError(ledger, r) = "none"
    <3>1. /\ balances \in [KnownAccounts -> Nat]
          /\ TotalValue(balances, holds) = TotalValue(ledger.balances, ledger.holds)
      BY <1>5, <2>1, <2>3, ReserveConserves
    <3>2. holds = [h \in DOMAIN ledger.holds \union {r.hold} |->
                     IF h = r.hold THEN NewHold(r) ELSE ledger.holds[h]]
      BY <1>5 DEF Outcome, Reserved
    <3>3. \A h \in DOMAIN ledger.holds : ledger.holds[h].locked \in Nat
      BY DEF BooksInv, LedgerInv, TypeOK, Hold
    <3>4. Locks(holds) \in [DOMAIN holds -> Nat]
      BY <2>1, <3>2, <3>3 DEF Locks, NewHold
    <3>5. IsFiniteSet(DOMAIN holds)
      BY <3>2, FS_AddElement DEF BooksInv
    <3> QED
      BY <1>4, <3>1, <3>4, <3>5
  <2> QED
    BY <1>1, <1>5, <2>2, <2>3, LedgerVerifies DEF LedgerAnswer
<1>6. CASE r.op = "apply"
  <2>1. r.decision \in Decisions
    BY <1>6 DEF RequestOK
  <2>2. Allocated(r.decision.remedy) <= MaxAmount /\ Allocated(r.decision.remedy) \in Nat
        /\ r.decision.remedy.retained \in Nat
    BY <2>1, RequestAssumption DEF Allocated
  <2>3. ApplyError(ledger, r) \notin {"InvalidStoredLedger", "AmountOverflow"}
    BY <2>2, AmountAssumption DEF ApplyError
  <2>4. ASSUME ApplyError(ledger, r) = "none"
        PROVE  OutcomeError(ledger, r) = "none"
    <3>1. /\ balances \in [KnownAccounts -> Nat]
          /\ TotalValue(balances, holds) = TotalValue(ledger.balances, ledger.holds)
      BY <1>6, <2>1, <2>4, ApplyConserves
    <3>2. holds = [ledger.holds EXCEPT ![r.hold] =
                     DecidedHold(ledger.holds[r.hold], r.decision)]
      BY <1>6 DEF Outcome, Resolved
    <3>3. \A h \in DOMAIN ledger.holds :
            ledger.holds[h] \in Hold /\ ledger.holds[h].locked \in Nat
      BY DEF BooksInv, LedgerInv, TypeOK, Hold
    <3>4. r.hold \in DOMAIN ledger.holds
      BY <2>4 DEF ApplyError
    <3>5. DecidedHold(ledger.holds[r.hold], r.decision).locked = r.decision.remedy.retained
      BY <3>3, <3>4 DEF DecidedHold, Hold
    <3>6. Locks(holds) \in [DOMAIN holds -> Nat]
      BY <2>2, <3>2, <3>3, <3>4, <3>5 DEF Locks
    <3>7. IsFiniteSet(DOMAIN holds)
      BY <3>2 DEF BooksInv
    <3> QED
      BY <1>4, <3>1, <3>6, <3>7
  <2> QED
    BY <1>1, <1>6, <2>3, <2>4, LedgerVerifies DEF LedgerAnswer
<1> QED
  BY <1>5, <1>6 DEF RequestOK

LEMMA CommitStep ==
  ASSUME BooksInv, NEW c \in Clients, Commit(c)
  PROVE  BooksInv'
<1> DEFINE r == request[c]
<1>1. /\ r # NoRequest /\ LedgerAnswer(ledger, r) = "committed"
      /\ ledger' = LedgerAfter(ledger, r)
      /\ answer' = [answer EXCEPT ![c] = "committed"]
  BY DEF Commit
<1>2. RequestOK(r) /\ LedgerInv
  BY DEF BooksInv, LedgerInv, TypeOK
<1>3. LedgerInv'
  BY <1>1, <1>2, ReserveStep, ApplyStep DEF RequestOK
<1>4. /\ ledger'.balances = Outcome(ledger, r).balances
      /\ ledger'.holds = Outcome(ledger, r).holds
      /\ ledger'.initial = ledger.initial
      /\ ledger'.root = LedgerRoot(ledger'.balances, ledger'.holds, ledger'.keys,
                                   ledger'.revision, ledger'.initial)
  BY <1>1 DEF LedgerAfter, SealedLedger
<1>5. NoInternalFailure'
  BY <1>1, <1>2 DEF BooksInv, NoInternalFailure, LedgerInv, TypeOK
<1> HIDE DEF r
<1>6. CASE r.op = "reserve"
  <2>1. r.amount \in Nat
    BY <1>1, <1>2, <1>6, RequestAssumption DEF RequestOK
  <2>2. AccountsReconcile'
    BY <1>1, <1>6, <2>1, ReserveReconciles
  <2>3. ReserveError(ledger, r) = "none"
    BY <1>1, <1>6 DEF LedgerAnswer, LedgerError, PreconditionError, ReserveError, OutcomeError
  <2>4. TotalValue(ledger'.balances, ledger'.holds) = ledger'.initial
    BY <1>4, <1>6, <2>1, <2>3, ReserveConserves DEF BooksInv
  <2>5. IsFiniteSet(DOMAIN ledger'.holds)
    <3>1. DOMAIN ledger'.holds = DOMAIN ledger.holds \union {r.hold}
      BY <1>4, <1>6 DEF Outcome, Reserved
    <3> QED
      BY <3>1, FS_AddElement DEF BooksInv
  <2> QED
    BY <1>3, <1>4, <1>5, <2>2, <2>4, <2>5 DEF BooksInv
<1>7. CASE r.op = "apply"
  <2>1. r.decision \in Decisions
    BY <1>1, <1>2, <1>7 DEF RequestOK
  <2>2. AccountsReconcile'
    BY <1>1, <1>7, <2>1, ApplyReconciles
  <2>3. ApplyError(ledger, r) = "none"
    BY <1>1, <1>7 DEF LedgerAnswer, LedgerError, PreconditionError, ApplyError, OutcomeError
  <2>4. TotalValue(ledger'.balances, ledger'.holds) = ledger'.initial
    BY <1>4, <1>7, <2>1, <2>3, ApplyConserves DEF BooksInv
  <2>5. IsFiniteSet(DOMAIN ledger'.holds)
    <3>1. DOMAIN ledger'.holds = DOMAIN ledger.holds
      BY <1>4, <1>7 DEF Outcome, Resolved
    <3> QED
      BY <3>1 DEF BooksInv
  <2> QED
    BY <1>3, <1>4, <1>5, <2>2, <2>4, <2>5 DEF BooksInv
<1> QED
  BY <1>1, <1>2, <1>6, <1>7 DEF RequestOK

LEMMA BooksStep == BooksInv /\ [Next]_vars => BooksInv'
<1> SUFFICES ASSUME BooksInv, [Next]_vars
             PROVE  BooksInv'
  OBVIOUS
<1>1. LedgerInv'
  BY LedgerStep DEF BooksInv
<1>2. ASSUME UNCHANGED ledger, NoInternalFailure'
      PROVE  BooksInv'
  <2>1. AccountsReconcile'
    <3>1. \A a \in KnownAccounts :
            PaidBy(a)' = PaidBy(a) /\ RefundedTo(a)' = RefundedTo(a)
              /\ ReleasedTo(a)' = ReleasedTo(a)
      BY <1>2 DEF PaidBy, RefundedTo, ReleasedTo, Bought, Sold, Decided
    <3> QED
      BY <1>2, <3>1 DEF BooksInv, AccountsReconcile
  <2> QED
    BY <1>1, <1>2, <2>1 DEF BooksInv
<1>3. ASSUME NEW c \in Clients, NEW r, Build(c, r)
      PROVE  BooksInv'
  <2>1. NoInternalFailure'
    BY <1>3 DEF Build, BooksInv, NoInternalFailure, LedgerInv, TypeOK
  <2> QED
    BY <1>2, <1>3, <2>1 DEF Build
<1>4. ASSUME NEW c \in Clients, Refuse(c)
      PROVE  BooksInv'
  <2>1. request[c] # NoRequest /\ RequestOK(request[c])
        /\ answer' = [answer EXCEPT ![c] = LedgerAnswer(ledger, request[c])]
    BY <1>4 DEF Refuse, BooksInv, LedgerInv, TypeOK
  <2>2. LedgerAnswer(ledger, request[c]) \notin {"InvalidStoredLedger", "AmountOverflow"}
    BY <2>1, NoSelfAccusation
  <2>3. NoInternalFailure'
    BY <2>1, <2>2 DEF BooksInv, NoInternalFailure, LedgerInv, TypeOK
  <2> QED
    BY <1>2, <1>4, <2>3 DEF Refuse
<1>5. CASE UNCHANGED vars
  <2>1. NoInternalFailure'
    BY <1>5 DEF vars, BooksInv, NoInternalFailure
  <2> QED
    BY <1>2, <1>5, <2>1 DEF vars
<1>6. CASE Next
  <2>1. PICK c \in Clients : (\E r : Build(c, r)) \/ Commit(c) \/ Refuse(c)
    BY <1>6 DEF Next, PrepareReserve, PrepareApply
  <2> QED
    BY <1>3, <1>4, <2>1, CommitStep
<1> QED
  BY <1>5, <1>6

\* Every account is explained by the opening balances, the holds it funded and the
\* decisions recorded in them, however requests are retried, reordered or lost: a credit
\* to the wrong party, which the ledger's own check of the grand total would not notice,
\* is impossible (reserve 283-302, apply_decision 348-364).
THEOREM EveryAccountReconciles == Spec => []AccountsReconcile
<1>1. Spec => []BooksInv
  BY BooksInit, BooksStep, PTL DEF Spec
<1>2. BooksInv => AccountsReconcile
  BY DEF BooksInv
<1> QED
  BY <1>1, <1>2, PTL

\* The conservation checks and the overflow checks of the ledger never fail, so no caller
\* is ever refused for a fault of the ledger itself (verify_ledger 235-239,
\* finish_mutation 389-392, credit 441).
THEOREM LedgerNeverAccusesItself == Spec => []NoInternalFailure
<1>1. Spec => []BooksInv
  BY BooksInit, BooksStep, PTL DEF Spec
<1>2. BooksInv => NoInternalFailure
  BY DEF BooksInv
<1> QED
  BY <1>1, <1>2, PTL
=============================================================================

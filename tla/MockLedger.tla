----------------------------- MODULE MockLedger -----------------------------
(***************************************************************************)
(* The ledger of joan-mock-ledger under concurrent callers.  Like the case *)
(* and the evidence graph it is protected by exact preconditions: callers  *)
(* build requests from a snapshot, which are applied late, out of order    *)
(* and more than once.  Several callers may hold the same decision, or     *)
(* different decisions about one hold.                                     *)
(***************************************************************************)
EXTENDS LedgerBook

CONSTANTS
  Clients,      \* callers of the ledger
  Opening,      \* opening balances: a function from the known accounts
  Amounts,      \* amounts that callers ask to reserve
  Decisions,    \* decision receipts that callers may hold
  NoRequest

VARIABLES
  ledger,       \* the authoritative MockLedger
  request,      \* per client: the request it built, kept for retries
  answer        \* per client: what the ledger last answered it

vars == <<ledger, request, answer>>

KnownAccounts == DOMAIN Opening

RemedyKinds == {"FullRefund", "ReleaseProvider", "Split", "Repair", "Quarantine"}

\* What create_ledger and the types of the requests guarantee; a decision that
\* evaluate_bundle gave divides a u64 value into u64 amounts.
ASSUME OpeningAssumption ==
  /\ KnownAccounts \subseteq Accounts
  /\ IsFiniteSet(KnownAccounts)
  /\ Opening \in [KnownAccounts -> Nat]
  /\ SumFunction(Opening) <= MaxAmount
ASSUME RequestAssumption ==
  /\ Amounts \subseteq Nat
  /\ \A d \in Decisions :
       /\ d # NoDecision
       /\ d.remedy.kind \in RemedyKinds
       /\ d.remedy.refund \in Nat
       /\ d.remedy.release \in Nat
       /\ d.remedy.retained \in Nat
       /\ Allocated(d.remedy) <= MaxAmount

Init ==
  /\ ledger = NewLedger(Opening)
  /\ request = [c \in Clients |-> NoRequest]
  /\ answer = [c \in Clients |-> "none"]

Build(c, r) ==
  /\ request' = [request EXCEPT ![c] = r]
  /\ answer' = [answer EXCEPT ![c] = "none"]
  /\ UNCHANGED ledger

\* Client c reads the ledger and builds a ReserveRequest from what it read.
PrepareReserve(c, h, buyer, provider, amount, key) ==
  Build(c, [op |-> "reserve", root |-> ledger.root, revision |-> ledger.revision,
            hold |-> h, buyer |-> buyer, provider |-> provider, amount |-> amount,
            key |-> key])

\* Client c reads the ledger and builds an ApplyDecisionRequest for a decision it holds.
PrepareApply(c, h, decision, key) ==
  Build(c, [op |-> "apply", root |-> ledger.root, revision |-> ledger.revision,
            hold |-> h, decision |-> decision, key |-> key])

\* The request of c is applied, for the first time or once more.
Commit(c) ==
  /\ request[c] # NoRequest
  /\ LedgerAnswer(ledger, request[c]) = "committed"
  /\ ledger' = LedgerAfter(ledger, request[c])
  /\ answer' = [answer EXCEPT ![c] = "committed"]
  /\ UNCHANGED request

\* Every error leaves the ledger as it was: the operation works on a clone.
Refuse(c) ==
  /\ request[c] # NoRequest
  /\ LedgerAnswer(ledger, request[c]) # "committed"
  /\ answer' = [answer EXCEPT ![c] = LedgerAnswer(ledger, request[c])]
  /\ UNCHANGED <<ledger, request>>

Next ==
  \E c \in Clients :
    \/ \E h \in Holds, buyer, provider \in Accounts, amount \in Amounts, key \in LedgerKeys :
         PrepareReserve(c, h, buyer, provider, amount, key)
    \/ \E h \in Holds, decision \in Decisions, key \in LedgerKeys :
         PrepareApply(c, h, decision, key)
    \/ Commit(c)
    \/ Refuse(c)

Spec == Init /\ [][Next]_vars

-----------------------------------------------------------------------------

Hold ==
  [buyer : KnownAccounts, provider : KnownAccounts, original : Nat, locked : Nat,
   status : HoldStatuses, decision : Decisions \union {NoDecision}]

RequestOK(r) ==
  \/ r = NoRequest
  \/ /\ r.op = "reserve"
     /\ r.amount \in Amounts
     /\ r.hold \in Holds
     /\ r.key \in LedgerKeys
  \/ /\ r.op = "apply"
     /\ r.decision \in Decisions
     /\ r.hold \in Holds
     /\ r.key \in LedgerKeys

\* Balances and holds stay well-formed; above all no balance is overdrawn (line 280).
TypeOK ==
  /\ ledger.balances \in [KnownAccounts -> Nat]
  /\ DOMAIN ledger.holds \subseteq Holds
  /\ \A h \in DOMAIN ledger.holds : ledger.holds[h] \in Hold
  /\ ledger.keys \subseteq LedgerKeys
  /\ ledger.revision \in Nat
  /\ DOMAIN request = Clients
  /\ \A c \in Clients : RequestOK(request[c])
  /\ DOMAIN answer = Clients

Decided == {h \in DOMAIN ledger.holds : ledger.holds[h].decision # NoDecision}

Bought(a) == {h \in DOMAIN ledger.holds : ledger.holds[h].buyer = a}
Sold(a)   == {h \in DOMAIN ledger.holds : ledger.holds[h].provider = a}

PaidBy(a)     == SumFunction([h \in Bought(a) |-> ledger.holds[h].original])
RefundedTo(a) == SumFunction([h \in Bought(a) \intersect Decided |->
                                ledger.holds[h].decision.remedy.refund])
ReleasedTo(a) == SumFunction([h \in Sold(a) \intersect Decided |->
                                ledger.holds[h].decision.remedy.release])

\* Every account can be explained by the opening balances, the holds and the decisions
\* recorded in them: what it put into holds has left it, and what decisions gave it has
\* arrived, each exactly once, whatever requests were retried or lost a race.  The code
\* checks the grand total only, which a credit to the wrong party would satisfy
\* (reserve 283-302, apply_decision 348-364).
AccountsReconcile ==
  \A a \in KnownAccounts :
    ledger.balances[a] + PaidBy(a) = Opening[a] + RefundedTo(a) + ReleasedTo(a)

\* The ledger never accuses itself: the conservation checks of verify_ledger and
\* finish_mutation and the overflow checks of credit and checked_sum are only ever
\* assertions; a caller is refused for reasons of its own.  If one of them could fail,
\* an honest caller would be refused for good (lines 235-239, 389-392, 441).
NoInternalFailure ==
  \A c \in Clients : answer[c] \notin {"InvalidStoredLedger", "AmountOverflow"}

Flow == INSTANCE ValueFlow WITH
  Accounts <- KnownAccounts,
  funds <- ledger.balances,
  escrow <- [h \in Holds |->
               IF h \in DOMAIN ledger.holds THEN ledger.holds[h].locked ELSE 0],
  opened <- DOMAIN ledger.holds,
  closed <- Decided

\* The ledger implements the flow of value: each hold is funded once out of one account
\* and divided at most once, between two different parties and not beyond what it holds
\* (apply_decision 334-346, and the SameAccount and balance checks of reserve).
ImplementsValueFlow == Flow!Spec
=============================================================================

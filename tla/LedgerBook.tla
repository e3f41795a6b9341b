----------------------------- MODULE LedgerBook -----------------------------
(***************************************************************************)
(* joan-mock-ledger as operators on one ledger snapshot: what reserve and  *)
(* apply_decision answer, and the ledger they return.  The root is the     *)
(* record of the fields it is computed from.  Of a decision receipt the    *)
(* ledger reads only its remedy and its digest, which here is the receipt  *)
(* itself, so verify_decision holds of every receipt.  Contract digests    *)
(* are carried and never read, and are left out.                           *)
(***************************************************************************)
EXTENDS Naturals, FiniteSets, Functions

CONSTANTS
  Accounts,     \* account identifiers, known to the ledger or not
  Holds,        \* hold identifiers
  LedgerKeys,   \* idempotency keys
  MaxHolds,     \* MAX_HOLDS
  MaxLedgerKeys,\* MAX_IDEMPOTENCY_KEYS
  MaxAmount,    \* the largest u64
  NoDecision    \* decision_digest = None

ASSUME AmountAssumption == MaxAmount \in Nat
HoldStatuses == {"Reserved", "Settled", "Refunded", "Split", "RepairPending", "Quarantined"}

\* status_for
StatusFor(kind) ==
  CASE kind = "FullRefund" -> "Refunded"
    [] kind = "ReleaseProvider" -> "Settled"
    [] kind = "Split" -> "Split"
    [] kind = "Repair" -> "RepairPending"
    [] kind = "Quarantine" -> "Quarantined"

-----------------------------------------------------------------------------

\* total_value, available plus locked; the model's sums do not wrap, and a total above
\* MaxAmount is the overflow that checked_sum reports.
TotalValue(balances, holds) ==
  SumFunction(balances) + SumFunction([h \in DOMAIN holds |-> holds[h].locked])

LedgerRoot(balances, holds, keys, revision, initial) ==
  [balances |-> balances, holds |-> holds, keys |-> keys,
   revision |-> revision, initial |-> initial]

SealedLedger(balances, holds, keys, revision, initial) ==
  [balances |-> balances, holds |-> holds, keys |-> keys, revision |-> revision,
   initial |-> initial, root |-> LedgerRoot(balances, holds, keys, revision, initial)]

\* create_ledger
NewLedger(balances) == SealedLedger(balances, <<>>, {}, 0, SumFunction(balances))

\* verify_ledger
LedgerError(l) ==
  IF \E h \in DOMAIN l.holds : l.holds[h].locked > l.holds[h].original
  THEN "InvalidStoredLedger"
  ELSE IF TotalValue(l.balances, l.holds) > MaxAmount THEN "AmountOverflow"
  ELSE IF TotalValue(l.balances, l.holds) # l.initial THEN "InvalidStoredLedger"
  ELSE IF l.root # LedgerRoot(l.balances, l.holds, l.keys, l.revision, l.initial)
  THEN "InvalidStoredLedger"
  ELSE "none"

\* validate_preconditions
PreconditionError(l, r) ==
  IF r.root # l.root THEN "StaleRoot"
  ELSE IF r.revision # l.revision THEN "StaleRevision"
  ELSE IF r.key \in l.keys THEN "Replay"
  ELSE IF Cardinality(l.keys) >= MaxLedgerKeys THEN "Capacity"
  ELSE "none"

\* The checks of reserve after its preconditions.
ReserveError(l, r) ==
  IF r.buyer = r.provider THEN "SameAccount"
  ELSE IF r.amount = 0 THEN "AllocationMismatch"
  ELSE IF Cardinality(DOMAIN l.holds) >= MaxHolds THEN "Capacity"
  ELSE IF r.hold \in DOMAIN l.holds THEN "DuplicateHold"
  ELSE IF ~({r.buyer, r.provider} \subseteq DOMAIN l.balances) THEN "UnknownAccount"
  ELSE IF r.amount > l.balances[r.buyer] THEN "InsufficientBalance"
  ELSE "none"

Allocated(remedy) == remedy.refund + remedy.release + remedy.retained

ApplyError_StatusUnchecked(l, r) ==
  IF r.hold \notin DOMAIN l.holds THEN "UnknownHold"
  ELSE IF Allocated(r.decision.remedy) # l.holds[r.hold].original THEN "AllocationMismatch"
  ELSE "none"

ApplyError_AmountUnchecked(l, r) ==
  IF r.hold \notin DOMAIN l.holds THEN "UnknownHold"
  ELSE IF l.holds[r.hold].status # "Reserved" THEN "HoldNotReserved"
  ELSE "none"

\* The checks of apply_decision after its preconditions.
ApplyError(l, r) ==
  IF r.hold \notin DOMAIN l.holds THEN "UnknownHold"
  ELSE IF \/ l.holds[r.hold].status # "Reserved"
          \/ l.holds[r.hold].decision # NoDecision THEN "HoldNotReserved"
  ELSE IF Allocated(r.decision.remedy) > MaxAmount THEN "AmountOverflow"
  ELSE IF Allocated(r.decision.remedy) # l.holds[r.hold].original THEN "AllocationMismatch"
  ELSE "none"

-----------------------------------------------------------------------------

\* The hold that reserve inserts.
NewHold(r) ==
  [buyer |-> r.buyer, provider |-> r.provider, original |-> r.amount,
   locked |-> r.amount, status |-> "Reserved", decision |-> NoDecision]

DecidedHold(hold, decision) ==
  [hold EXCEPT !.locked = decision.remedy.retained,
               !.status = StatusFor(decision.remedy.kind),
               !.decision = decision]

Credited(balances, account, amount) == [balances EXCEPT ![account] = @ + amount]

\* Both outcomes: balances and holds before finish_mutation.
Reserved(l, r) ==
  [balances |-> [l.balances EXCEPT ![r.buyer] = @ - r.amount],
   holds |-> [h \in DOMAIN l.holds \union {r.hold} |->
                IF h = r.hold THEN NewHold(r) ELSE l.holds[h]]]

Resolved_StaleBalance(l, r) ==
  LET hold   == l.holds[r.hold]
      remedy == r.decision.remedy
      refunded == Credited(l.balances, hold.buyer, remedy.refund)
  IN [balances |-> [refunded EXCEPT ![hold.provider] = remedy.release],
      holds |-> [l.holds EXCEPT ![r.hold] = DecidedHold(hold, r.decision)]]

Resolved_PartiesSwapped(l, r) ==
  LET hold   == l.holds[r.hold]
      remedy == r.decision.remedy
      released == Credited(l.balances, hold.buyer, remedy.release)
  IN [balances |-> Credited(released, hold.provider, remedy.refund),
      holds |-> [l.holds EXCEPT ![r.hold] = DecidedHold(hold, r.decision)]]

Resolved(l, r) ==
  LET hold   == l.holds[r.hold]
      remedy == r.decision.remedy
      refunded == Credited(l.balances, hold.buyer, remedy.refund)
  IN [balances |-> Credited(refunded, hold.provider, remedy.release),
      holds |-> [l.holds EXCEPT ![r.hold] = DecidedHold(hold, r.decision)]]

Outcome(l, r) == IF r.op = "reserve" THEN Reserved(l, r) ELSE Resolved(l, r)

\* A credit beyond the largest u64, or a result finish_mutation refuses to seal.
OutcomeError(l, r) ==
  IF \E a \in DOMAIN l.balances : Outcome(l, r).balances[a] > MaxAmount
  THEN "AmountOverflow"
  ELSE IF TotalValue(Outcome(l, r).balances, Outcome(l, r).holds) > MaxAmount
  THEN "AmountOverflow"
  ELSE IF TotalValue(Outcome(l, r).balances, Outcome(l, r).holds) # l.initial
  THEN "InvalidStoredLedger"
  ELSE "none"

\* reserve and apply_decision: the answer to a request, checks in the order of the code.
LedgerAnswer(l, r) ==
  IF LedgerError(l) # "none" THEN LedgerError(l)
  ELSE IF PreconditionError(l, r) # "none" THEN PreconditionError(l, r)
  ELSE IF r.op = "reserve" /\ ReserveError(l, r) # "none" THEN ReserveError(l, r)
  ELSE IF r.op = "apply" /\ ApplyError(l, r) # "none" THEN ApplyError(l, r)
  ELSE IF OutcomeError(l, r) # "none" THEN OutcomeError(l, r)
  ELSE "committed"

\* finish_mutation: the key is consumed, the revision grows and the root is sealed.
LedgerAfter(l, r) ==
  SealedLedger(Outcome(l, r).balances, Outcome(l, r).holds,
               l.keys \union {r.key}, l.revision + 1, l.initial)
=============================================================================

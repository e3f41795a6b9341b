--------------------------- MODULE OneUseVouchers ---------------------------
(***************************************************************************)
(* What approvals promise, however they are matched to requests: a payment *)
(* is made with issued vouchers, with all of them at once, and no voucher  *)
(* ever pays a second time.                                                *)
(***************************************************************************)
EXTENDS Sequences

CONSTANT Vouchers

VARIABLES
  issued,
  spent,
  payments   \* the sets of vouchers that paid, in the order of the payments

vars == <<issued, spent, payments>>

Init ==
  /\ issued = {}
  /\ spent = {}
  /\ payments = <<>>

Issue(voucher) ==
  /\ issued' = issued \union {voucher}
  /\ UNCHANGED <<spent, payments>>

Pay(batch) ==
  /\ batch # {}
  /\ batch \subseteq issued \ spent
  /\ spent' = spent \union batch
  /\ payments' = Append(payments, batch)
  /\ UNCHANGED issued

Next ==
  \/ \E voucher \in Vouchers : Issue(voucher)
  \/ \E batch \in SUBSET Vouchers : Pay(batch)

Spec == Init /\ [][Next]_vars
=============================================================================

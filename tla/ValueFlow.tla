------------------------------ MODULE ValueFlow ------------------------------
(***************************************************************************)
(* What an escrow promises about value, whatever its bookkeeping: value    *)
(* moves only from an account into a new hold, and once, for good, from    *)
(* that hold to its two parties; what is retained never moves again.       *)
(***************************************************************************)
EXTENDS Naturals

CONSTANTS Accounts, Holds

VARIABLES
  funds,    \* value available in each account
  escrow,   \* value in each hold
  opened,   \* holds that were funded
  closed    \* holds that were divided

vars == <<funds, escrow, opened, closed>>

Init ==
  /\ funds \in [Accounts -> Nat]
  /\ escrow = [h \in Holds |-> 0]
  /\ opened = {}
  /\ closed = {}

Fund(h, buyer, amount) ==
  /\ h \notin opened
  /\ funds' = [funds EXCEPT ![buyer] = @ - amount]
  /\ escrow' = [escrow EXCEPT ![h] = amount]
  /\ opened' = opened \union {h}
  /\ UNCHANGED closed

\* What is neither refunded nor released stays in the hold.
Divide(h, buyer, provider, refund, release) ==
  /\ h \in opened \ closed
  /\ buyer # provider
  /\ refund + release <= escrow[h]
  /\ funds' = [funds EXCEPT ![buyer] = @ + refund, ![provider] = @ + release]
  /\ escrow' = [escrow EXCEPT ![h] = @ - (refund + release)]
  /\ closed' = closed \union {h}
  /\ UNCHANGED opened

Next ==
  \/ \E h \in Holds, buyer \in Accounts :
       \E amount \in 1..funds[buyer] : Fund(h, buyer, amount)
  \/ \E h \in Holds, buyer, provider \in Accounts :
       \E refund, release \in 0..escrow[h] : Divide(h, buyer, provider, refund, release)

Spec == Init /\ [][Next]_vars
=============================================================================

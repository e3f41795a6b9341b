------------------------------- MODULE MCLedger -------------------------------
(* Either one client reserves and decides with every account, amount and      *)
(* decision, or two clients race with one amount and two decisions that       *)
(* contradict each other.  Two holds and one account that can run dry; the    *)
(* buyer of one hold may be the provider of the other.  The opening total is  *)
(* the largest representable amount.                                          *)
EXTENDS MockLedger, TLC

OpeningBalances == "buyer" :> 2 @@ "provider" :> 1

Remedy(kind, refund, release, retained) ==
  [remedy |-> [kind |-> kind, refund |-> refund, release |-> release, retained |-> retained]]

RacingDecisions ==
  {Remedy("ReleaseProvider", 0, 2, 0), Remedy("Quarantine", 0, 0, 2)}

SomeDecisions == RacingDecisions \union
  {Remedy("FullRefund", 1, 0, 0), Remedy("Split", 1, 1, 0), Remedy("Repair", 0, 0, 1)}

RacingAmount == 2
RaceRevisions == 2   \* bound: ledger revisions at which racing clients build requests

\* Keys are interchangeable: used ones, or the least n that are not.
Pickable(n) ==
  {key \in LedgerKeys :
     key \in ledger.keys \/ Cardinality({k \in LedgerKeys \ ledger.keys : k < key}) < n}

Racing(c) ==
  \E key \in Pickable(2), h \in Holds :
    \/ PrepareReserve(c, h, "buyer", "provider", RacingAmount, key)
    \/ PrepareReserve(c, h, "provider", "buyer", RacingAmount, key)
    \/ \E decision \in RacingDecisions : PrepareApply(c, h, decision, key)

Alone(c) ==
  /\ \A other \in Clients \ {c} : request[other] = NoRequest
  /\ \E key \in Pickable(1), h \in Holds :
       \/ \E buyer, provider \in Accounts, amount \in Amounts :
            PrepareReserve(c, h, buyer, provider, amount, key)
       \/ \E decision \in Decisions : PrepareApply(c, h, decision, key)

\* A client replaces a request once it has seen what became of it; one that was never
\* sent might as well not have been built.
MCNext ==
  \E c \in Clients :
    \/ /\ request[c] = NoRequest \/ answer[c] # "none"
       /\ \/ ledger.revision < RaceRevisions /\ Racing(c)
          \/ Alone(c)
    \/ Commit(c)
    \/ Refuse(c)

MCSpec == Init /\ [][MCNext]_vars

Symmetry == Permutations(Clients) \union  Permutations(Holds)
=============================================================================

----------------------------- MODULE SealableLog -----------------------------
(***************************************************************************)
(* What an evidence graph promises the adjudicators: entries are only ever *)
(* added, one at a time and never under an identifier in use; a relation   *)
(* only between entries that are there; sealing needs verified evidence;   *)
(* and once sealed nothing changes any more.                               *)
(***************************************************************************)
CONSTANTS
  Ids,        \* identifiers of evidence items
  Statuses,   \* verification outcomes, "Verified" among them
  Links       \* identifiers of relations

VARIABLES
  entries,    \* set of [id, status]
  links,      \* set of [id, from, to]
  sealed

LogInit == entries = {} /\ links = {} /\ ~sealed

Append(id, status) ==
  /\ ~sealed
  /\ \A e \in entries : e.id # id
  /\ entries' = entries \union {[id |-> id, status |-> status]}
  /\ links' = links /\ ~sealed'

Link(id, from, to) ==
  /\ ~sealed
  /\ from # to
  /\ \E e, f \in entries : e.id = from /\ f.id = to
  /\ \A l \in links : l.id # id
  /\ links' = links \union {[id |-> id, from |-> from, to |-> to]}
  /\ entries' = entries /\ ~sealed'

Seal ==
  /\ ~sealed
  /\ \E e \in entries : e.status = "Verified"
  /\ sealed'
  /\ entries' = entries /\ links' = links

LogNext ==
  \/ \E id \in Ids, status \in Statuses : Append(id, status)
  \/ \E id \in Links, from, to \in Ids : Link(id, from, to)
  \/ Seal

Spec == LogInit /\ [][LogNext]_<<entries, links, sealed>>
=============================================================================

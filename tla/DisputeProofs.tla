---------------------------- MODULE DisputeProofs ----------------------------
(***************************************************************************)
(* Theorems about disputes.                                                *)
(*                                                                         *)
(* The evidence graph, for any number of actors, keys, items and           *)
(* relations, finite or not, and any capacities (GraphInv).                *)
(*                                                                         *)
(* Adjudication, for every bench, threshold, profile and value:            *)
(* evaluate_bundle over every list of findings, and the dispute as a       *)
(* whole, where bundles are evaluated late and decisions applied late.     *)
(* DisputeInv says what every decision rests on and what the hold owes to  *)
(* the decision that settled it.                                           *)
(***************************************************************************)
EXTENDS EvidenceGraph, BundleEvaluation, DisputeResolution, FiniteSumTheorems

-----------------------------------------------------------------------------
(* The evidence graph.                                                      *)

\* The graph is sealed by its own root, is finite, and has room for what it holds.
GraphShape ==
  /\ TypeOK
  /\ VerifyGraph(graph)
  /\ IsFiniteSet(DOMAIN graph.items)
  /\ IsFiniteSet(DOMAIN graph.relations)
  /\ IsFiniteSet(graph.keys)
  /\ DOMAIN request = Actors /\ DOMAIN answer = Actors

\* A snapshot never comes back: a request was built on this root, or on an older revision.
SnapshotsAge ==
  \A a \in Actors : request[a] # NoRequest =>
    /\ request[a].root.revision \in Nat
    /\ request[a].root.revision <= graph.revision
    /\ request[a].root.revision = graph.revision => request[a].root = graph.root

\* What was refused would be refused again.
RefusedStaysRefused ==
  \A a \in Actors : answer[a] \notin {"none", "committed"} =>
    /\ request[a] # NoRequest
    /\ MutationAnswer(graph, request[a]) # "committed"

\* Every revision was paid for with one key and left one item, one relation or the lock.
RevisionCounts ==
  /\ graph.revision = Cardinality(graph.keys)
  /\ graph.revision =
       Cardinality(DOMAIN graph.items) + Cardinality(DOMAIN graph.relations)
         + (IF graph.locked THEN 1 ELSE 0)

GraphInv ==
  GraphShape /\ RevisionCounts /\ NoUpdateLost /\ SnapshotsAge /\ RefusedStaysRefused

-----------------------------------------------------------------------------
(* One mutation.                                                            *)

\* A request that commits passed every check.
LEMMA CommittedRequest ==
  ASSUME NEW g, NEW r, r.mutation \in Mutations, MutationAnswer(g, r) = "committed"
  PROVE  /\ VerifyGraph(g) /\ ~g.locked
         /\ r.root = g.root /\ r.revision = g.revision
         /\ r.key \notin g.keys /\ ~(Cardinality(g.keys) >= MaxKeys)
         /\ MutationError(g, r.mutation) = "none"
<1>1. CASE MutationError(g, r.mutation) # "none"
  <2>1. MutationError(g, r.mutation) # "committed"
    BY DEF MutationError, RelationError, Mutations
  <2> QED
    BY <1>1, <2>1 DEF MutationAnswer
<1>2. CASE MutationError(g, r.mutation) = "none"
  BY <1>2 DEF MutationAnswer
<1> QED
  BY <1>1, <1>2

LEMMA AddedItem ==
  ASSUME NEW g, NEW m \in Mutations, m.op = "AddItem", MutationError(g, m) = "none"
  PROVE  /\ ~(Cardinality(DOMAIN g.items) >= MaxItems)
         /\ m.id \in ItemIds /\ m.id \notin DOMAIN g.items
         /\ m.verification \in Verifications
  BY DEF MutationError, Mutations

LEMMA AddedRelation ==
  ASSUME NEW g, NEW m \in Mutations, m.op = "AddRelation", MutationError(g, m) = "none"
  PROVE  /\ ~(Cardinality(DOMAIN g.relations) >= MaxRelations)
         /\ m.id \in RelationIds /\ m.id \notin DOMAIN g.relations
         /\ m.ends \in Endpoints
         /\ RelationError(g, m.ends) = "none"
  BY DEF MutationError, Mutations

LEMMA AddedLock ==
  ASSUME NEW g, NEW m \in Mutations, m.op = "Lock", MutationError(g, m) = "none"
  PROVE  \E id \in DOMAIN g.items : g.items[id] = "Verified"
  BY DEF MutationError, Mutations

LEMMA MutationKinds ==
  ASSUME NEW m \in Mutations
  PROVE  m.op \in {"AddItem", "AddRelation", "Lock"}
  BY DEF Mutations

\* What Commit leaves behind, field by field.
LEMMA CommittedGraph ==
  ASSUME NEW a, Commit(a)
  PROVE  /\ graph'.items = ItemsAfter(graph, request[a])
         /\ graph'.relations = RelationsAfter(graph, request[a])
         /\ graph'.locked = (graph.locked \/ request[a].mutation.op = "Lock")
         /\ graph'.revision = graph.revision + 1
         /\ graph'.keys = graph.keys \union {request[a].key}
         /\ graph'.root = GraphRoot(graph'.items, graph'.relations, graph'.locked,
                                    graph'.revision, graph'.keys)
         /\ graph'.root.revision = graph.revision + 1
         /\ receipts' = receipts \union {ReceiptOf(graph, request[a])}
         /\ ReceiptOf(graph, request[a]).new = graph'.root
  BY DEF Commit, ReceiptOf, Candidate, SealedGraph, GraphRoot

-----------------------------------------------------------------------------
(* The invariant.                                                           *)

LEMMA InitGraphInv == EvidenceInit => GraphInv
<1> SUFFICES ASSUME EvidenceInit PROVE GraphInv
  OBVIOUS
<1>1. /\ graph = SealedGraph(<<>>, <<>>, FALSE, 0, {})
      /\ DOMAIN graph.items = {} /\ DOMAIN graph.relations = {}
  BY DEF EvidenceInit, SealedGraph
<1>2. IsFiniteSet({}) /\ Cardinality({}) = 0
  BY FS_EmptySet
<1>3. graph.items \in Items /\ graph.relations \in Relations
  <2>1. <<>> \in [{} -> Verifications] /\ <<>> \in [{} -> Endpoints]
    OBVIOUS
  <2> QED
    BY <1>1, <2>1 DEF Items, Relations, SealedGraph
<1>4. GraphShape
  BY <1>1, <1>2, <1>3, CapacityAssumption
  DEF EvidenceInit, GraphShape, TypeOK, VerifyGraph, SealedGraph, GraphRoot
<1>5. RevisionCounts
  BY <1>1, <1>2 DEF RevisionCounts, SealedGraph
<1>6. SnapshotsAge /\ RefusedStaysRefused /\ NoUpdateLost
  BY <1>1 DEF EvidenceInit, SnapshotsAge, RefusedStaysRefused, NoUpdateLost, SealedGraph
<1> QED
  BY <1>4, <1>5, <1>6 DEF GraphInv

\* A commit adds one item, one relation or the lock.
LEMMA CommitGrowsGraph ==
  ASSUME GraphInv, NEW a \in Actors, Commit(a)
  PROVE  /\ graph'.items \in Items
         /\ graph'.relations \in Relations
         /\ IsFiniteSet(DOMAIN graph'.items)
         /\ IsFiniteSet(DOMAIN graph'.relations)
         /\ Cardinality(DOMAIN graph'.items) <= MaxItems
         /\ Cardinality(DOMAIN graph'.relations) <= MaxRelations
         /\ graph'.revision = Cardinality(DOMAIN graph'.items)
              + Cardinality(DOMAIN graph'.relations) + (IF graph'.locked THEN 1 ELSE 0)
<1> DEFINE r == request[a]
           m == r.mutation
<1>1. /\ MutationAnswer(graph, r) = "committed" /\ m \in Mutations
  BY DEF Commit, GraphInv, GraphShape, TypeOK
<1>2. MutationError(graph, m) = "none" /\ ~graph.locked
  BY <1>1, CommittedRequest
<1>3. m.op \in {"AddItem", "AddRelation", "Lock"}
  BY <1>1, MutationKinds
<1>4. /\ graph.items \in Items /\ graph.relations \in Relations
      /\ IsFiniteSet(DOMAIN graph.items) /\ IsFiniteSet(DOMAIN graph.relations)
      /\ Cardinality(DOMAIN graph.items) \in Nat
      /\ Cardinality(DOMAIN graph.relations) \in Nat
      /\ Cardinality(DOMAIN graph.items) <= MaxItems
      /\ Cardinality(DOMAIN graph.relations) <= MaxRelations
      /\ graph.revision =
           Cardinality(DOMAIN graph.items) + Cardinality(DOMAIN graph.relations)
      /\ MaxItems \in Nat /\ MaxRelations \in Nat
  BY <1>2, FS_CardinalityType, CapacityAssumption
  DEF GraphInv, GraphShape, TypeOK, RevisionCounts
<1>5. /\ graph'.items = ItemsAfter(graph, r)
      /\ graph'.relations = RelationsAfter(graph, r)
      /\ graph'.locked = (m.op = "Lock")
      /\ graph'.revision = graph.revision + 1
  BY <1>2, CommittedGraph
<1>6. CASE m.op = "AddItem"
  <2>1. /\ m.id \in ItemIds /\ m.id \notin DOMAIN graph.items
        /\ m.verification \in Verifications
        /\ ~(Cardinality(DOMAIN graph.items) >= MaxItems)
    BY <1>1, <1>2, <1>6, AddedItem
  <2>2. graph'.relations = graph.relations /\ ~graph'.locked
    BY <1>5, <1>6 DEF RelationsAfter, AddedTo
  <2>3. graph'.items =
          [id \in DOMAIN graph.items \union {m.id} |->
             IF id = m.id THEN m.verification ELSE graph.items[id]]
    BY <1>5, <1>6 DEF ItemsAfter, AddedTo
  <2>4. PICK ids \in SUBSET ItemIds : graph.items \in [ids -> Verifications]
    BY <1>4 DEF Items
  <2>5. graph'.items \in [ids \union {m.id} -> Verifications]
    BY <2>1, <2>3, <2>4
  <2>6. graph'.items \in Items
    BY <2>1, <2>5 DEF Items
  <2>7. /\ DOMAIN graph'.items = DOMAIN graph.items \union {m.id}
    BY <2>3
  <2>8. /\ IsFiniteSet(DOMAIN graph'.items)
        /\ Cardinality(DOMAIN graph'.items) = Cardinality(DOMAIN graph.items) + 1
    <3> DEFINE before == DOMAIN graph.items
    <3>1. m.id \notin before /\ IsFiniteSet(before)
      BY <1>4, <2>1
    <3>2. /\ IsFiniteSet(before \union {m.id})
          /\ Cardinality(before \union {m.id}) = Cardinality(before) + 1
      <4> HIDE DEF before, m
      <4> QED
        BY <3>1, FS_AddElement
    <3> QED
      BY <2>7, <3>2
  <2> QED
    BY <1>4, <1>5, <2>1, <2>2, <2>6, <2>8
<1>7. CASE m.op = "AddRelation"
  <2>1. /\ m.id \in RelationIds /\ m.id \notin DOMAIN graph.relations
        /\ m.ends \in Endpoints
        /\ ~(Cardinality(DOMAIN graph.relations) >= MaxRelations)
    BY <1>1, <1>2, <1>7, AddedRelation
  <2>2. graph'.items = graph.items /\ ~graph'.locked
    BY <1>5, <1>7 DEF ItemsAfter, AddedTo
  <2>3. graph'.relations =
          [id \in DOMAIN graph.relations \union {m.id} |->
             IF id = m.id THEN m.ends ELSE graph.relations[id]]
    BY <1>5, <1>7 DEF RelationsAfter, AddedTo
  <2>4. PICK ids \in SUBSET RelationIds : graph.relations \in [ids -> Endpoints]
    BY <1>4 DEF Relations
  <2>5. graph'.relations \in [ids \union {m.id} -> Endpoints]
    BY <2>1, <2>3, <2>4
  <2>6. graph'.relations \in Relations
    BY <2>1, <2>5 DEF Relations
  <2>7. /\ DOMAIN graph'.relations = DOMAIN graph.relations \union {m.id}
    BY <2>3
  <2>8. /\ IsFiniteSet(DOMAIN graph'.relations)
        /\ Cardinality(DOMAIN graph'.relations) = Cardinality(DOMAIN graph.relations) + 1
    <3> DEFINE before == DOMAIN graph.relations
    <3>1. m.id \notin before /\ IsFiniteSet(before)
      BY <1>4, <2>1
    <3>2. /\ IsFiniteSet(before \union {m.id})
          /\ Cardinality(before \union {m.id}) = Cardinality(before) + 1
      <4> HIDE DEF before, m
      <4> QED
        BY <3>1, FS_AddElement
    <3> QED
      BY <2>7, <3>2
  <2> QED
    BY <1>4, <1>5, <2>1, <2>2, <2>6, <2>8
<1>8. CASE m.op = "Lock"
  <2>1. graph'.items = graph.items /\ graph'.relations = graph.relations /\ graph'.locked
    BY <1>5, <1>8 DEF ItemsAfter, RelationsAfter, AddedTo
  <2> QED
    BY <1>4, <1>5, <2>1
<1> QED
  BY <1>3, <1>6, <1>7, <1>8

\* What was an end of a relation stays one.
LEMMA CommitKeepsEndpoints ==
  ASSUME GraphInv, NEW a \in Actors, Commit(a)
  PROVE  VerifyGraph(graph')
<1> DEFINE r == request[a]
           m == r.mutation
<1>1. /\ MutationAnswer(graph, r) = "committed" /\ m \in Mutations
  BY DEF Commit, GraphInv, GraphShape, TypeOK
<1>2. MutationError(graph, m) = "none"
  BY <1>1, CommittedRequest
<1>3. /\ graph'.items = ItemsAfter(graph, r)
      /\ graph'.relations = RelationsAfter(graph, r)
      /\ graph'.root = GraphRoot(graph'.items, graph'.relations, graph'.locked,
                                 graph'.revision, graph'.keys)
  BY CommittedGraph
<1>4. DOMAIN graph.items \subseteq DOMAIN graph'.items
  BY <1>3 DEF ItemsAfter, AddedTo
<1>5. \A ends : RelationError(graph, ends) = "none" => RelationError(graph', ends) = "none"
  BY <1>4 DEF RelationError
<1>6. \A id \in DOMAIN graph.relations : RelationError(graph, graph.relations[id]) = "none"
  BY DEF GraphInv, GraphShape, VerifyGraph
<1>7. \A id \in DOMAIN graph'.relations : RelationError(graph', graph'.relations[id]) = "none"
  <2>1. CASE m.op = "AddRelation"
    <3>1. m.id \notin DOMAIN graph.relations /\ RelationError(graph, m.ends) = "none"
      BY <1>1, <1>2, <2>1, AddedRelation
    <3>2. /\ DOMAIN graph'.relations = DOMAIN graph.relations \union {m.id}
          /\ graph'.relations[m.id] = m.ends
          /\ \A id \in DOMAIN graph.relations \ {m.id} :
               graph'.relations[id] = graph.relations[id]
      BY <1>3, <2>1 DEF RelationsAfter, AddedTo
    <3> QED
      BY <1>5, <1>6, <3>1, <3>2
  <2>2. CASE m.op # "AddRelation"
    BY <1>3, <1>5, <1>6, <2>2 DEF RelationsAfter, AddedTo
  <2> QED
    BY <2>1, <2>2
<1> QED
  BY <1>3, <1>7 DEF VerifyGraph

\* A commit leaves what is in the graph as it is, and its own mutation is there after it.
LEMMA CommitAdds ==
  ASSUME GraphInv, NEW a \in Actors, Commit(a)
  PROVE  /\ \A m : StillHeld(graph, m) => StillHeld(graph', m)
         /\ StillHeld(graph', request[a].mutation)
<1> DEFINE r == request[a]
           n == r.mutation
<1>1. /\ MutationAnswer(graph, r) = "committed" /\ n \in Mutations
  BY DEF Commit, GraphInv, GraphShape, TypeOK
<1>2. MutationError(graph, n) = "none" /\ request' = request
  BY <1>1, CommittedRequest DEF Commit
<1>3. /\ graph'.items = ItemsAfter(graph, r)
      /\ graph'.relations = RelationsAfter(graph, r)
      /\ graph'.locked = (graph.locked \/ n.op = "Lock")
  BY CommittedGraph
<1>4. n.op = "AddItem" => n.id \notin DOMAIN graph.items
  BY <1>1, <1>2, AddedItem
<1>5. n.op = "AddRelation" => n.id \notin DOMAIN graph.relations
  BY <1>1, <1>2, AddedRelation
<1>6. \A id \in DOMAIN graph.items :
        id \in DOMAIN graph'.items /\ graph'.items[id] = graph.items[id]
  BY <1>3, <1>4 DEF ItemsAfter, AddedTo
<1>7. \A id \in DOMAIN graph.relations :
        id \in DOMAIN graph'.relations /\ graph'.relations[id] = graph.relations[id]
  BY <1>3, <1>5 DEF RelationsAfter, AddedTo
<1>8. ASSUME NEW m, StillHeld(graph, m) PROVE StillHeld(graph', m)
  BY <1>3, <1>6, <1>7, <1>8 DEF StillHeld
<1>9. StillHeld(graph', n)
  <2>1. n.op = "AddItem" => n.id \in DOMAIN graph'.items /\ graph'.items[n.id] = n.verification
    BY <1>3 DEF ItemsAfter, AddedTo
  <2>2. n.op = "AddRelation" =>
          n.id \in DOMAIN graph'.relations /\ graph'.relations[n.id] = n.ends
    BY <1>3 DEF RelationsAfter, AddedTo
  <2>3. n.op \in {"AddItem", "AddRelation", "Lock"}
    BY <1>1, MutationKinds
  <2> QED
    BY <1>2, <1>3, <2>1, <2>2, <2>3 DEF StillHeld
<1> QED
  BY <1>8, <1>9

\* The receipt of a commit prolongs the chain by one link.
LEMMA CommitKeepsUpdates ==
  ASSUME GraphInv, NEW a \in Actors, Commit(a)
  PROVE  NoUpdateLost'
<1> DEFINE r == request[a]
           n == graph.revision
           r0 == ReceiptOf(graph, r)
<1>1. /\ MutationAnswer(graph, r) = "committed" /\ r.mutation \in Mutations /\ n \in Nat
  BY DEF Commit, GraphInv, GraphShape, TypeOK
<1>2. r.root = graph.root
  BY <1>1, CommittedRequest
<1>3. /\ receipts' = receipts \union {r0} /\ graph'.revision = n + 1
      /\ r0.new = graph'.root /\ r0.prior = graph.root
      /\ r0.revision = n + 1 /\ r0.request = r
  BY CommittedGraph DEF ReceiptOf
<1>4. \A p \in receipts : StillHeld(graph', p.request.mutation)
  <2>1. \A p \in receipts : StillHeld(graph, p.request.mutation)
    BY DEF GraphInv, NoUpdateLost
  <2> SUFFICES ASSUME NEW p \in receipts PROVE StillHeld(graph', p.request.mutation)
    OBVIOUS
  <2> QED
    BY <2>1, CommitAdds
<1>5. StillHeld(graph', r0.request.mutation)
  BY <1>3, CommitAdds
<1>6. \A p \in receipts :
        /\ p.request.root = p.prior
        /\ p.revision \in 1..n
        /\ p.revision = n => p.new = graph.root
  BY DEF GraphInv, NoUpdateLost
<1> HIDE DEF r0
<1>7. \A p \in receipts' :
        /\ p.request.root = p.prior
        /\ p.revision \in 1..graph'.revision
        /\ p.revision = graph'.revision => p.new = graph'.root
  BY <1>1, <1>2, <1>3, <1>6
<1>8. \A p, q \in receipts' :
        /\ p.revision = q.revision => p = q
        /\ q.revision = p.revision + 1 => q.prior = p.new
  <2>1. \A p, q \in receipts :
          /\ p.revision = q.revision => p = q
          /\ q.revision = p.revision + 1 => q.prior = p.new
    BY DEF GraphInv, NoUpdateLost
  <2> QED
    BY <1>1, <1>3, <1>6, <2>1
<1>9. \A i \in 1..graph'.revision : \E p \in receipts' : p.revision = i
  <2>1. \A i \in 1..n : \E p \in receipts : p.revision = i
    BY DEF GraphInv, NoUpdateLost
  <2> QED
    BY <1>1, <1>3, <2>1
<1>10. \A p \in receipts' : StillHeld(graph', p.request.mutation)
  BY <1>3, <1>4, <1>5
<1> QED
  BY <1>7, <1>8, <1>9, <1>10 DEF NoUpdateLost

LEMMA CommitKeepsGraphInv ==
  ASSUME GraphInv, NEW a \in Actors, Commit(a)
  PROVE  GraphInv'
<1> DEFINE r == request[a]
<1>1. /\ MutationAnswer(graph, r) = "committed" /\ r # NoRequest
      /\ r.mutation \in Mutations /\ r.key \in Keys
  BY DEF Commit, GraphInv, GraphShape, TypeOK
<1>2. /\ r.key \notin graph.keys /\ ~(Cardinality(graph.keys) >= MaxKeys)
      /\ ~graph.locked
  BY <1>1, CommittedRequest
<1>3. /\ graph'.locked = (graph.locked \/ r.mutation.op = "Lock")
      /\ graph'.revision = graph.revision + 1
      /\ graph'.keys = graph.keys \union {r.key}
      /\ graph'.root.revision = graph.revision + 1
  BY CommittedGraph
<1>4. graph.revision \in Nat /\ IsFiniteSet(graph.keys)
      /\ Cardinality(graph.keys) \in Nat /\ graph.keys \subseteq Keys
      /\ graph.revision = Cardinality(graph.keys) /\ MaxKeys \in Nat
  BY FS_CardinalityType, CapacityAssumption
  DEF GraphInv, GraphShape, TypeOK, RevisionCounts
<1>5. /\ IsFiniteSet(graph'.keys)
      /\ Cardinality(graph'.keys) = Cardinality(graph.keys) + 1
  BY <1>2, <1>3, <1>4, FS_AddElement
<1>6. /\ request' = request /\ DOMAIN request = Actors /\ DOMAIN answer' = Actors
      /\ answer' = [answer EXCEPT ![a] = "committed"] /\ DOMAIN answer = Actors
  BY DEF Commit, GraphInv, GraphShape
<1>7. GraphShape'
  <2>1. \A b \in Actors : request[b] # NoRequest =>
          request[b].mutation \in Mutations /\ request[b].key \in Keys
    BY DEF GraphInv, GraphShape, TypeOK
  <2>2. TypeOK'
    BY <1>1, <1>2, <1>3, <1>4, <1>5, <1>6, <2>1, CommitGrowsGraph DEF TypeOK
  <2> QED
    BY <1>5, <1>6, <2>2, CommitGrowsGraph, CommitKeepsEndpoints DEF GraphShape
<1>8. RevisionCounts'
  BY <1>3, <1>4, <1>5, CommitGrowsGraph DEF RevisionCounts
<1>9. SnapshotsAge'
  BY <1>3, <1>4, <1>6 DEF GraphInv, SnapshotsAge
<1>10. RefusedStaysRefused'
  <2> SUFFICES ASSUME NEW b \in Actors, answer'[b] \notin {"none", "committed"}
               PROVE  /\ request[b] # NoRequest
                      /\ MutationAnswer(graph', request[b]) # "committed"
    BY <1>6 DEF RefusedStaysRefused
  <2>1. answer[b] \notin {"none", "committed"}
    BY <1>6
  <2>2. request[b] # NoRequest /\ request[b].mutation \in Mutations
    BY <2>1 DEF GraphInv, RefusedStaysRefused, GraphShape, TypeOK
  <2>3. request[b].root # graph'.root
    BY <1>3, <1>4, <2>2 DEF GraphInv, SnapshotsAge
  <2> QED
    BY <2>2, <2>3, CommittedRequest
<1> QED
  BY <1>7, <1>8, <1>9, <1>10, CommitKeepsUpdates DEF GraphInv

LEMMA UpdatesStay ==
  ASSUME NoUpdateLost, UNCHANGED <<graph, receipts>>
  PROVE  NoUpdateLost'
BY DEF NoUpdateLost, StillHeld

LEMMA PrepareKeepsGraphInv ==
  ASSUME GraphInv, NEW a \in Actors, NEW m \in Mutations, NEW key \in Keys,
         Prepare(a, m, key)
  PROVE  GraphInv'
<1> DEFINE built ==
      [root |-> graph.root, revision |-> graph.revision, key |-> key, mutation |-> m]
<1>1. /\ request' = [request EXCEPT ![a] = built]
      /\ answer' = [answer EXCEPT ![a] = "none"]
      /\ graph' = graph
      /\ DOMAIN request = Actors /\ DOMAIN answer = Actors
  BY DEF Prepare, GraphInv, GraphShape
<1>2. /\ request'[a] = built /\ answer'[a] = "none"
      /\ \A b \in Actors \ {a} : request'[b] = request[b] /\ answer'[b] = answer[b]
  BY <1>1
<1>3. built.mutation = m /\ built.key = key /\ built.root = graph.root
  OBVIOUS
<1>4. graph.root.revision = graph.revision /\ graph.revision \in Nat
  BY DEF GraphInv, GraphShape, VerifyGraph, GraphRoot, TypeOK
<1> HIDE DEF built
<1>5. GraphShape'
  <2>1. \A b \in Actors : request'[b] # NoRequest =>
          request'[b].mutation \in Mutations /\ request'[b].key \in Keys
    BY <1>2, <1>3 DEF GraphInv, GraphShape, TypeOK
  <2> QED
    BY <1>1, <2>1 DEF GraphInv, GraphShape, TypeOK
<1>6. RevisionCounts'
  BY <1>1 DEF GraphInv, RevisionCounts
<1>7. SnapshotsAge'
  BY <1>1, <1>2, <1>3, <1>4 DEF GraphInv, SnapshotsAge
<1>8. RefusedStaysRefused'
  BY <1>1, <1>2 DEF GraphInv, RefusedStaysRefused
<1>9. NoUpdateLost'
  BY UpdatesStay DEF GraphInv, Prepare
<1> QED
  BY <1>5, <1>6, <1>7, <1>8, <1>9 DEF GraphInv

LEMMA RefuseKeepsGraphInv ==
  ASSUME GraphInv, NEW a \in Actors, Refuse(a)
  PROVE  GraphInv'
<1>1. /\ request' = request /\ graph' = graph
      /\ DOMAIN answer = Actors /\ DOMAIN answer' = Actors
      /\ request[a] # NoRequest
      /\ MutationAnswer(graph, request[a]) # "committed"
      /\ \A b \in Actors \ {a} : answer'[b] = answer[b]
  BY DEF Refuse, GraphInv, GraphShape
<1>2. RefusedStaysRefused'
  BY <1>1 DEF GraphInv, RefusedStaysRefused
<1>3. NoUpdateLost'
  BY UpdatesStay DEF GraphInv, Refuse
<1> QED
  BY <1>1, <1>2, <1>3
  DEF GraphInv, GraphShape, TypeOK, VerifyGraph, RevisionCounts, SnapshotsAge

LEMMA StepKeepsGraphInv == GraphInv /\ [EvidenceNext]_evidenceVars => GraphInv'
<1> SUFFICES ASSUME GraphInv, [EvidenceNext]_evidenceVars PROVE GraphInv'
  OBVIOUS
<1>1. ASSUME NEW a \in Actors, NEW m \in Mutations, NEW key \in Keys, Prepare(a, m, key)
      PROVE  GraphInv'
  BY <1>1, PrepareKeepsGraphInv
<1>2. ASSUME NEW a \in Actors, Commit(a)
      PROVE  GraphInv'
  BY <1>2, CommitKeepsGraphInv
<1>3. ASSUME NEW a \in Actors, Refuse(a)
      PROVE  GraphInv'
  BY <1>3, RefuseKeepsGraphInv
<1>4. CASE UNCHANGED evidenceVars
  <2>1. NoUpdateLost'
    BY <1>4, UpdatesStay DEF evidenceVars, GraphInv
  <2> QED
    BY <1>4, <2>1 DEF evidenceVars, GraphInv, GraphShape, TypeOK, VerifyGraph, RevisionCounts,
                      SnapshotsAge, RefusedStaysRefused
<1> QED
  BY <1>1, <1>2, <1>3, <1>4 DEF EvidenceNext

LEMMA GraphInvariant == EvidenceSpec => []GraphInv
<1> QED
  BY InitGraphInv, StepKeepsGraphInv, PTL DEF EvidenceSpec

-----------------------------------------------------------------------------
(* The theorems.                                                            *)

\* The graph stays within its capacities whatever requests are late or repeated
\* (mutate_evidence, apply_mutation).
THEOREM GraphTypeCorrect == EvidenceSpec => []TypeOK
<1>1. GraphInv => TypeOK
  BY DEF GraphInv, GraphShape
<1> QED
  BY <1>1, GraphInvariant, PTL

\* However many actors race, retry or submit late, each committed mutation changed the
\* very graph its author had read, the receipts are one chain of roots without a gap or a
\* fork, and the graph still holds all that was committed (mutate_evidence).
THEOREM NoEvidenceUpdateIsLost == EvidenceSpec => []NoUpdateLost
<1>1. GraphInv => NoUpdateLost
  BY DEF GraphInv
<1> QED
  BY <1>1, GraphInvariant, PTL

\* As long as the graph has room for one more item or relation, an actor that reads it now
\* can lock it: requests that were refused, whoever sent them, have used up no key (the
\* capacity check of mutate_evidence).
THEOREM OnlyAFullGraphCannotBeLocked == EvidenceSpec => []LockableUntilFull
<1>1. GraphInv => LockableUntilFull
  <2> SUFFICES ASSUME GraphInv, ~graph.locked,
                      \E id \in DOMAIN graph.items : graph.items[id] = "Verified",
                      \/ Cardinality(DOMAIN graph.items) < MaxItems
                      \/ Cardinality(DOMAIN graph.relations) < MaxRelations,
                      NEW key \in Keys \ graph.keys
               PROVE  MutationAnswer(graph,
                        [root |-> graph.root, revision |-> graph.revision, key |-> key,
                         mutation |-> [op |-> "Lock"]]) = "committed"
    BY DEF LockableUntilFull
  <2>1. VerifyGraph(graph)
    BY DEF GraphInv, GraphShape
  <2>2. MutationError(graph, [op |-> "Lock"]) = "none"
    BY DEF MutationError
  <2>3. /\ Cardinality(DOMAIN graph.items) \in Nat
        /\ Cardinality(DOMAIN graph.relations) \in Nat
        /\ Cardinality(DOMAIN graph.items) <= MaxItems
        /\ Cardinality(DOMAIN graph.relations) <= MaxRelations
        /\ Cardinality(graph.keys) =
             Cardinality(DOMAIN graph.items) + Cardinality(DOMAIN graph.relations)
    BY FS_CardinalityType DEF GraphInv, GraphShape, TypeOK, RevisionCounts
  <2>4. ~(Cardinality(graph.keys) >= MaxKeys)
    BY <2>3, CapacityAssumption
  <2> QED
    BY <2>1, <2>2, <2>4 DEF MutationAnswer
<1> QED
  BY <1>1, GraphInvariant, PTL

\* What mutate_evidence refused once it refuses for ever, so that a caller may discard it.
THEOREM RefusedMutationsStayRefused == EvidenceSpec => RefusalIsFinal
<1> DEFINE Final ==
      \A a \in Actors :
        answer[a] \notin {"none", "committed"} /\ request'[a] = request[a]
          => answer'[a] # "committed"
<1>1. GraphInv /\ [EvidenceNext]_evidenceVars => [Final]_evidenceVars
  <2> SUFFICES ASSUME GraphInv, EvidenceNext, NEW a \in Actors,
                      answer[a] \notin {"none", "committed"}
               PROVE  answer'[a] # "committed"
    OBVIOUS
  <2>1. DOMAIN answer = Actors
    BY DEF GraphInv, GraphShape
  <2>2. ASSUME NEW b \in Actors, NEW m \in Mutations, NEW key \in Keys, Prepare(b, m, key)
        PROVE  answer'[a] # "committed"
    BY <2>1, <2>2 DEF Prepare
  <2>3. ASSUME NEW b \in Actors, Commit(b)
        PROVE  answer'[a] # "committed"
    <3>1. a # b
      BY <2>3 DEF Commit, GraphInv, RefusedStaysRefused
    <3> QED
      BY <2>1, <2>3, <3>1 DEF Commit
  <2>4. ASSUME NEW b \in Actors, Refuse(b)
        PROVE  answer'[a] # "committed"
    BY <2>1, <2>4 DEF Refuse
  <2> QED
    BY <2>2, <2>3, <2>4 DEF EvidenceNext
<1> QED
  BY <1>1, GraphInvariant, PTL DEF EvidenceSpec, RefusalIsFinal

\* The graph is an append-only log that is sealed once, on verified evidence
\* (mutate_evidence, apply_mutation, validate_relation).
THEOREM GraphImplementsLog == EvidenceSpec => ImplementsSealableLog
<1> DEFINE entries == {[id |-> i, status |-> graph.items[i]] : i \in DOMAIN graph.items}
           links == {[id |-> i, from |-> graph.relations[i].from,
                      to |-> graph.relations[i].to] : i \in DOMAIN graph.relations}
<1>1. EvidenceInit => Log!LogInit
  <2> SUFFICES ASSUME EvidenceInit PROVE Log!LogInit
    OBVIOUS
  <2>1. DOMAIN graph.items = {} /\ DOMAIN graph.relations = {} /\ ~graph.locked
    BY DEF EvidenceInit, SealedGraph
  <2> QED
    BY <2>1 DEF Log!LogInit
<1>2. GraphInv /\ [EvidenceNext]_evidenceVars => [Log!LogNext]_<<entries, links, graph.locked>>
  <2> SUFFICES ASSUME GraphInv, [EvidenceNext]_evidenceVars
               PROVE  \/ Log!LogNext
                      \/ UNCHANGED <<entries, links, graph.locked>>
    OBVIOUS
  <2>1. ASSUME NEW a \in Actors, Commit(a)
        PROVE  Log!LogNext
    <3> DEFINE r == request[a]
               m == r.mutation
    <3>1. MutationAnswer(graph, r) = "committed" /\ m \in Mutations
      BY <2>1 DEF Commit, GraphInv, GraphShape, TypeOK
    <3>2. MutationError(graph, m) = "none" /\ ~graph.locked
      BY <3>1, CommittedRequest
    <3>3. /\ graph'.items = ItemsAfter(graph, r)
          /\ graph'.relations = RelationsAfter(graph, r)
          /\ graph'.locked = (m.op = "Lock")
      BY <2>1, <3>2, CommittedGraph
    <3>4. CASE m.op = "AddItem"
      <4>1. /\ m.id \in ItemIds /\ m.id \notin DOMAIN graph.items
            /\ m.verification \in Verifications
        BY <3>1, <3>2, <3>4, AddedItem
      <4>2. /\ DOMAIN graph'.items = DOMAIN graph.items \union {m.id}
            /\ graph'.items[m.id] = m.verification
            /\ \A id \in DOMAIN graph.items : graph'.items[id] = graph.items[id]
        BY <3>3, <3>4, <4>1 DEF ItemsAfter, AddedTo
      <4>3. graph'.relations = graph.relations /\ ~graph'.locked
        BY <3>3, <3>4 DEF RelationsAfter, AddedTo
      <4>4. \A e \in entries : e.id # m.id
        BY <4>1
      <4>5. entries' = entries \union {[id |-> m.id, status |-> m.verification]}
        BY <4>2
      <4>6. links' = links
        BY <4>3
      <4>7. PICK id \in ItemIds, status \in Verifications :
              id = m.id /\ status = m.verification
        BY <4>1
      <4>8. Log!Append(id, status)
        BY <3>2, <4>3, <4>4, <4>5, <4>6, <4>7 DEF Log!Append
      <4> QED
        BY <4>8 DEF Log!LogNext
    <3>5. CASE m.op = "AddRelation"
      <4>1. /\ m.id \in RelationIds /\ m.id \notin DOMAIN graph.relations
            /\ m.ends \in Endpoints
            /\ RelationError(graph, m.ends) = "none"
        BY <3>1, <3>2, <3>5, AddedRelation
      <4>2. /\ DOMAIN graph'.relations = DOMAIN graph.relations \union {m.id}
            /\ graph'.relations[m.id] = m.ends
            /\ \A id \in DOMAIN graph.relations : graph'.relations[id] = graph.relations[id]
        BY <3>3, <3>5, <4>1 DEF RelationsAfter, AddedTo
      <4>3. graph'.items = graph.items /\ ~graph'.locked
        BY <3>3, <3>5 DEF ItemsAfter, AddedTo
      <4>4. /\ m.ends.from # m.ends.to
            /\ m.ends.from \in ItemIds /\ m.ends.to \in ItemIds
            /\ m.ends.from \in DOMAIN graph.items /\ m.ends.to \in DOMAIN graph.items
        BY <4>1 DEF RelationError, Endpoints
      <4>5. \E e, f \in entries : e.id = m.ends.from /\ f.id = m.ends.to
        <5>1. /\ [id |-> m.ends.from, status |-> graph.items[m.ends.from]] \in entries
              /\ [id |-> m.ends.to, status |-> graph.items[m.ends.to]] \in entries
          BY <4>4
        <5> QED
          BY <5>1
      <4>6. \A l \in links : l.id # m.id
        BY <4>1
      <4>7. links' = links \union {[id |-> m.id, from |-> m.ends.from, to |-> m.ends.to]}
        BY <4>2
      <4>8. entries' = entries
        BY <4>3
      <4>9. PICK id \in RelationIds, from \in ItemIds, to \in ItemIds :
              id = m.id /\ from = m.ends.from /\ to = m.ends.to
        BY <4>1, <4>4
      <4>10. Log!Link(id, from, to)
        BY <3>2, <4>3, <4>4, <4>5, <4>6, <4>7, <4>8, <4>9 DEF Log!Link
      <4> QED
        BY <4>10 DEF Log!LogNext
    <3>6. CASE m.op = "Lock"
      <4>1. \E id \in DOMAIN graph.items : graph.items[id] = "Verified"
        BY <3>1, <3>2, <3>6, AddedLock
      <4>2. /\ graph'.items = graph.items /\ graph'.relations = graph.relations
            /\ graph'.locked
        BY <3>3, <3>6 DEF ItemsAfter, RelationsAfter, AddedTo
      <4>3. \E e \in entries : e.status = "Verified"
        <5>1. PICK id \in DOMAIN graph.items : graph.items[id] = "Verified"
          BY <4>1
        <5>2. [id |-> id, status |-> graph.items[id]] \in entries
          OBVIOUS
        <5> QED
          BY <5>1, <5>2
      <4>4. entries' = entries /\ links' = links
        BY <4>2
      <4>5. Log!Seal
        BY <3>2, <4>2, <4>3, <4>4 DEF Log!Seal
      <4> QED
        BY <4>5 DEF Log!LogNext
    <3> QED
      BY <3>1, <3>4, <3>5, <3>6, MutationKinds
  <2>2. ASSUME graph' = graph
        PROVE  UNCHANGED <<entries, links, graph.locked>>
    BY <2>2
  <2> QED
    BY <2>1, <2>2 DEF EvidenceNext, Prepare, Refuse, evidenceVars
<1> QED
  BY <1>1, <1>2, GraphInvariant, PTL DEF EvidenceSpec, ImplementsSealableLog, Log!Spec

-----------------------------------------------------------------------------
(* Adjudication.                                                            *)

\* A share of at most the whole, rounded down, is a part of the value and misses the exact
\* share by less than one unit.
LEMMA SplitRoundsDown ==
  ASSUME NEW value \in Nat, NEW bps \in Nat, bps <= BpsScale
  PROVE  /\ SplitRefund(bps, value) \in 0..value
         /\ SplitRefund(bps, value) * BpsScale <= value * bps
         /\ value * bps < (SplitRefund(bps, value) + 1) * BpsScale
<1>1. value * bps \in Nat /\ value * bps <= value * BpsScale
  BY DEF BpsScale
<1> DEFINE share == value * bps
<1> HIDE DEF share
<1>2. /\ share \div BpsScale \in 0..value
      /\ (share \div BpsScale) * BpsScale <= share
      /\ share < ((share \div BpsScale) + 1) * BpsScale
  BY <1>1 DEF BpsScale, share
<1> QED
  BY <1>2 DEF SplitRefund, share

\* Whatever the remedy, an allocation gives away exactly the value, and no part of it is
\* negative (allocation_for).
THEOREM AllocationIsExact ==
  ASSUME NEW kind, NEW value \in Nat, NEW bps \in Nat,
         kind = "Split" => bps <= BpsScale
  PROVE  LET a == Allocation(kind, bps, value)
         IN /\ a.refund \in 0..value /\ a.release \in 0..value /\ a.retained \in 0..value
            /\ a.refund + a.release + a.retained = value
<1>1. CASE kind = "Split"
  <2> DEFINE refund == SplitRefund(bps, value)
  <2>1. refund \in 0..value
    BY <1>1, SplitRoundsDown
  <2>2. /\ Allocation(kind, bps, value).refund = refund
        /\ Allocation(kind, bps, value).release = value - refund
        /\ Allocation(kind, bps, value).retained = 0
    BY <1>1 DEF Allocation
  <2> HIDE DEF refund
  <2> QED
    BY <2>1, <2>2
<1>2. CASE kind = "FullRefund"
  BY <1>2 DEF Allocation
<1>3. CASE kind = "ReleaseProvider"
  BY <1>3 DEF Allocation
<1>4. CASE kind \notin {"Split", "FullRefund", "ReleaseProvider"}
  BY <1>4 DEF Allocation
<1> QED
  BY <1>1, <1>2, <1>3, <1>4

\* A bundle keeps the case, profile and claim it was opened with; only findings are added.
Typed ==
  /\ bundle.case.value \in 0..LargestAmount
  /\ bundle.profile.bps \in Nat
  /\ Threshold(bundle) \in Nat
  /\ bundle.findings \in Seq(Findings)

\* What Collect does to a bundle.
Extends(old, new) ==
  /\ new.case = old.case
  /\ new.profile = old.profile
  /\ Threshold(new) = Threshold(old)
  /\ Len(new.findings) = Len(old.findings) + 1
  /\ \A i \in 1..Len(old.findings) : new.findings[i] = old.findings[i]

LEMMA CollectExtends ==
  ASSUME Typed, NEW f \in Findings, Collect(f)
  PROVE  Typed' /\ Extends(bundle, bundle')
<1>1. bundle' = [bundle EXCEPT !.findings = Append(bundle.findings, f)]
  BY DEF Collect
<1>2. /\ bundle'.case = bundle.case /\ bundle'.profile = bundle.profile
      /\ bundle'.prior = bundle.prior
  BY <1>1
<1>3. bundle'.findings = Append(bundle.findings, f)
  BY <1>1 DEF Typed
<1>4. Threshold(bundle') = Threshold(bundle)
  BY <1>2 DEF Threshold, PhaseOfBundle
<1> QED
  BY <1>2, <1>3, <1>4 DEF Typed, Extends

LEMMA Typing == BundleSpec => []Typed
<1>1. BundleInit => Typed
  <2> SUFFICES ASSUME BundleInit PROVE Typed
    OBVIOUS
  <2>1. bundle.findings = <<>>
    BY OpeningAssumption DEF BundleInit
  <2>2. <<>> \in Seq(Findings)
    OBVIOUS
  <2>3. bundle.findings \in Seq(Findings)
    BY <2>1, <2>2
  <2>4. bundle.case.value \in 0..LargestAmount /\ bundle.profile.bps \in Nat
    BY OpeningAssumption DEF BundleInit
  <2>5. Threshold(bundle) \in Nat
    BY OpeningAssumption DEF BundleInit, Threshold
  <2> QED
    BY <2>3, <2>4, <2>5 DEF Typed
<1>2. Typed /\ [BundleNext]_bundle => Typed'
  BY CollectExtends DEF BundleNext, Typed, Threshold, PhaseOfBundle
<1> QED
  BY <1>1, <1>2, PTL DEF BundleSpec

\* No evaluation fails for an overflow, and every decision it gives allocates exactly the
\* disputed value, all of it to the provider when the claim is rejected and the share
\* rounded down when it is split: a split is only reached with the validated basis points
\* of a split fallback (evaluate, validate_profile, allocation_for).
THEOREM DecisionsAllocateExactly == BundleSpec => []AllocatesExactly
<1>1. Typed => AllocatesExactly
  <2> SUFFICES ASSUME Typed PROVE AllocatesExactly
    OBVIOUS
  <2> DEFINE kind == RemedyOf(bundle)
             p == bundle.profile
             value == bundle.case.value
             remedy == DecisionOf(bundle).remedy
  <2>1. value \in Nat /\ value <= LargestAmount /\ LargestAmount \in Nat /\ p.bps \in Nat
    BY LargestAmountAssumption DEF Typed
  <2>2. ASSUME InputError(bundle) = "none" PROVE p.fallback = "Split" => p.bps <= BpsScale
    <3>1. ProfileError(p) = "none"
      BY <2>2, Zenon DEF InputError
    <3> QED
      BY <2>1, <3>1 DEF ProfileError, BpsScale
  <2>3. EvaluationError(bundle) # "AmountOverflow"
    <3>1. InputError(bundle) # "AmountOverflow"
      <4>1. ProfileError(p) # "AmountOverflow"
        BY DEF ProfileError
      <4>2. PriorError(bundle) # "AmountOverflow"
        BY DEF PriorError
      <4> QED
        BY <4>1, <4>2, ZenonT(40) DEF InputError
    <3>2. FindingsError(bundle) # "AmountOverflow"
      BY DEF FindingsError, FindingError
    <3>3. ASSUME InputError(bundle) = "none" PROVE RemedyError(bundle) # "AmountOverflow"
      <4>1. CASE p.fallback = "Split"
        <5>1. SplitRefund(p.bps, value) \in 0..value
          BY <2>1, <2>2, <3>3, <4>1, SplitRoundsDown
        <5> QED
          BY <2>1, <5>1 DEF RemedyError
      <4>2. CASE p.fallback # "Split"
        BY <4>2 DEF RemedyError
      <4> QED
        BY <4>1, <4>2
    <3> QED
      BY <3>1, <3>2, <3>3 DEF EvaluationError
  <2>4. ASSUME Decided(bundle)
        PROVE  /\ {remedy.refund, remedy.release, remedy.retained} \subseteq 0..value
               /\ remedy.refund + remedy.release + remedy.retained = value
               /\ DecisionOf(bundle).status = "ClaimRejected" => remedy.release = value
               /\ remedy.kind = "Split" =>
                    /\ remedy.refund * BpsScale <= value * p.bps
                    /\ value * p.bps < (remedy.refund + 1) * BpsScale
    <3>1. InputError(bundle) = "none" /\ RemedyError(bundle) = "none"
      BY <2>4 DEF Decided, EvaluationError
    <3>2. kind = "Split" => p.bps <= BpsScale
      BY <2>2, <3>1 DEF RemedyError
    <3>3. remedy = Allocation(kind, p.bps, value)
      BY DEF DecisionOf
    <3>4. DecisionOf(bundle).status = "ClaimRejected" => kind = "ReleaseProvider"
      BY DEF DecisionOf, RemedyOf
    <3> HIDE DEF kind, remedy
    <3>5. /\ {remedy.refund, remedy.release, remedy.retained} \subseteq 0..value
          /\ remedy.refund + remedy.release + remedy.retained = value
      BY <2>1, <3>2, <3>3, AllocationIsExact
    <3>6. kind = "ReleaseProvider" => remedy.release = value
      BY <3>3 DEF Allocation
    <3>7. remedy.kind = kind /\ (kind = "Split" => remedy.refund = SplitRefund(p.bps, value))
      BY <3>3 DEF Allocation
    <3>8. kind = "Split" =>
            /\ SplitRefund(p.bps, value) * BpsScale <= value * p.bps
            /\ value * p.bps < (SplitRefund(p.bps, value) + 1) * BpsScale
      BY <2>1, <3>2, SplitRoundsDown
    <3> QED
      BY <3>4, <3>5, <3>6, <3>7, <3>8
  <2> QED
    BY <2>3, <2>4 DEF AllocatesExactly
<1> QED
  BY <1>1, Typing, PTL DEF BundleSpec

-----------------------------------------------------------------------------

\* The findings that voted so far.
Ballots(b, disposition) == {i \in DOMAIN b.findings : b.findings[i].disposition = disposition}

LEMMA VotesGrow ==
  ASSUME NEW old, NEW new, NEW d, Extends(old, new),
         old.findings \in Seq(Findings), new.findings \in Seq(Findings)
  PROVE  Votes(old, d) \in Nat /\ Votes(new, d) \in Nat /\ Votes(old, d) <= Votes(new, d)
<1>1. DOMAIN old.findings = 1..Len(old.findings) /\ DOMAIN new.findings = 1..Len(new.findings)
  OBVIOUS
<1>2. Len(old.findings) \in Nat /\ Len(new.findings) \in Nat
  OBVIOUS
<1>3. IsFiniteSet(1..Len(new.findings))
  BY <1>2, FS_Interval
<1>4. Ballots(old, d) \subseteq Ballots(new, d)
  BY <1>1, <1>2 DEF Ballots, Extends
<1>5. Ballots(new, d) \subseteq 1..Len(new.findings)
  BY <1>1 DEF Ballots
<1>6. IsFiniteSet(Ballots(new, d))
  BY <1>3, <1>5, FS_Subset
<1>7. /\ IsFiniteSet(Ballots(old, d))
      /\ Cardinality(Ballots(old, d)) <= Cardinality(Ballots(new, d))
  BY <1>4, <1>6, FS_Subset
<1>8. Cardinality(Ballots(old, d)) \in Nat /\ Cardinality(Ballots(new, d)) \in Nat
  BY <1>6, <1>7, FS_CardinalityType
<1> QED
  BY <1>7, <1>8 DEF Votes, Ballots

\* A verdict needs its own quorum and no opposing one; quorums only grow.
LEMMA QuorumsKeep ==
  ASSUME NEW old, NEW new, Extends(old, new), Threshold(old) \in Nat,
         old.findings \in Seq(Findings), new.findings \in Seq(Findings)
  PROVE  /\ StatusOf(old) = "ClaimUpheld" => StatusOf(new) \in {"ClaimUpheld", "FallbackApplied"}
         /\ StatusOf(old) = "ClaimRejected" => StatusOf(new) \in {"ClaimRejected", "FallbackApplied"}
<1> DEFINE for == "SupportsClaim"
           against == "RejectsClaim"
<1>1. Votes(old, for) \in Nat /\ Votes(new, for) \in Nat /\ Votes(old, for) <= Votes(new, for)
  BY VotesGrow
<1>2. /\ Votes(old, against) \in Nat /\ Votes(new, against) \in Nat
      /\ Votes(old, against) <= Votes(new, against)
  BY VotesGrow
<1>3. Threshold(new) = Threshold(old)
  BY DEF Extends
<1> QED
  BY <1>1, <1>2, <1>3 DEF StatusOf

\* No list of findings, however it grows and whoever evaluates it when, gives opposite
\* verdicts (evaluate 399-417).
THEOREM VerdictsNeverFlip == BundleSpec => NoVerdictFlips
<1> DEFINE Keep ==
       Decided(bundle) /\ Decided(bundle') /\ DecisionOf(bundle).status # "FallbackApplied"
         => DecisionOf(bundle').status \in {DecisionOf(bundle).status, "FallbackApplied"}
<1>1. Typed /\ [BundleNext]_bundle => [Keep]_bundle
  <2> SUFFICES ASSUME Typed, NEW f \in Findings, Collect(f)
               PROVE  Keep
    BY DEF BundleNext
  <2>1. Typed' /\ Extends(bundle, bundle')
    BY CollectExtends
  <2>2. /\ StatusOf(bundle) = "ClaimUpheld" =>
              StatusOf(bundle') \in {"ClaimUpheld", "FallbackApplied"}
        /\ StatusOf(bundle) = "ClaimRejected" =>
              StatusOf(bundle') \in {"ClaimRejected", "FallbackApplied"}
    BY <2>1, QuorumsKeep DEF Typed
  <2>3. DecisionOf(bundle).status = StatusOf(bundle) /\ DecisionOf(bundle').status = StatusOf(bundle')
    BY DEF DecisionOf
  <2>4. StatusOf(bundle) \in Statuses
    BY DEF StatusOf, Statuses
  <2> QED
    BY <2>2, <2>3, <2>4 DEF Statuses
<1> QED
  BY <1>1, Typing, PTL DEF BundleSpec, NoVerdictFlips

-----------------------------------------------------------------------------

\* The loop of evaluate_findings reaches its end only if no finding stops it.
LEMMA LoopCompletes ==
  ASSUME NEW b, NEW n \in Nat, DOMAIN b.findings = 1..n
  PROVE  FindingsError(b) = "none" <=> \A i \in 1..n : FindingError(b, i) = "none"
<1> DEFINE Stops == {i \in 1..n : FindingError(b, i) # "none"}
           First(i) == /\ FindingError(b, i) # "none"
                       /\ \A j \in 1..(i - 1) : FindingError(b, j) = "none"
<1>1. ASSUME Stops # {} PROVE FindingsError(b) # "none"
  <2>1. PICK i \in Stops : \A j \in Stops : i <= j
    <3> HIDE DEF Stops
    <3>1. Stops \subseteq Nat
      BY DEF Stops
    <3> QED
      BY <1>1, <3>1, LeastNumber
  <2>2. i \in 1..n /\ First(i)
    BY <2>1
  <2>3. First(CHOOSE k \in 1..n : First(k))
    <3> HIDE DEF First
    <3> QED
      BY <2>2
  <2>4. FindingsError(b) = FindingError(b, CHOOSE k \in 1..n : First(k))
    BY <1>1 DEF FindingsError
  <2> QED
    BY <2>3, <2>4
<1>2. ASSUME Stops = {} PROVE FindingsError(b) = "none"
  BY <1>2 DEF FindingsError
<1> QED
  BY <1>1, <1>2

\* What a finding says that does not stop the loop.
Accepted(b, f) ==
  /\ f.phase = PhaseOfBundle(b)
  /\ f.case = b.case.digest
  /\ f.evidence = b.evidence.root
  /\ f.policy = b.profile.policy
  /\ f.adjudicator \in Bench(b)
  /\ f.disposition # "Abstain" => f.refs # {}
  /\ f.refs \subseteq b.evidence.verified

\* No adjudicator is counted twice.
OneEach(b) ==
  \A i, j \in DOMAIN b.findings :
    b.findings[i].adjudicator = b.findings[j].adjudicator => i = j

LEMMA AllAccepted ==
  ASSUME NEW b, NEW n \in Nat, DOMAIN b.findings = 1..n
  PROVE  FindingsError(b) = "none" <=>
           (\A i \in 1..n : Accepted(b, b.findings[i])) /\ OneEach(b)
<1>1. ASSUME NEW i \in 1..n
      PROVE  FindingError(b, i) = "none" <=>
               /\ Accepted(b, b.findings[i])
               /\ \A j \in 1..(i - 1) : b.findings[j].adjudicator # b.findings[i].adjudicator
  BY DEF FindingError, Accepted, RefsVerified
<1>2. (\A i \in 1..n : \A j \in 1..(i - 1) :
         b.findings[j].adjudicator # b.findings[i].adjudicator) <=> OneEach(b)
  BY DEF OneEach
<1> QED
  BY <1>1, <1>2, LoopCompletes

\* The counters of evaluate_findings count adjudicators, not findings.
LEMMA VotesAreBackers ==
  ASSUME NEW b, NEW n \in Nat, DOMAIN b.findings = 1..n, FindingsError(b) = "none",
         NEW d, d # "Abstain"
  PROVE  Votes(b, d) = Cardinality(Backers(b, d))
<1> DEFINE S == Ballots(b, d)
           T == Backers(b, d)
           f == [i \in S |-> b.findings[i].adjudicator]
<1>1. (\A i \in 1..n : Accepted(b, b.findings[i])) /\ OneEach(b)
  BY AllAccepted
<1>2. S \subseteq 1..n
  BY DEF Ballots
<1>3. IsFiniteSet(S)
  <2>1. IsFiniteSet(1..n)
    BY FS_Interval
  <2> HIDE DEF S
  <2> QED
    BY <1>2, <2>1, FS_Subset
<1>4. T = {b.findings[i].adjudicator : i \in S}
  BY <1>1 DEF Accepted, Backers, Ballots
<1>5. \A i, j \in S : b.findings[i].adjudicator = b.findings[j].adjudicator => i = j
  BY <1>1, <1>2 DEF OneEach
<1>6. f \in Bijection(S, T)
  <2> HIDE DEF S, T
  <2> QED
    BY <1>4, <1>5 DEF Bijection, Injection, Surjection, IsInjective
<1>7. Cardinality(T) = Cardinality(S)
  <2> HIDE DEF S, T, f
  <2> QED
    BY <1>3, <1>6, FS_Bijection DEF ExistsBijection
<1> QED
  BY <1>7 DEF Votes, Ballots

\* Votes are votes of a quorum: whatever came in, a decision counts distinct adjudicators
\* of the bench with verified evidence about this snapshot (evaluate over
\* evaluate_findings).
THEOREM DecisionsNeedQuorum == BundleSpec => []QuorumDecides
<1>1. Typed => QuorumDecides
  <2> SUFFICES ASSUME Typed, Decided(bundle) PROVE QuorumDecides
    BY DEF QuorumDecides
  <2> DEFINE n == Len(bundle.findings)
             support == Cardinality(Backers(bundle, "SupportsClaim")) >= Threshold(bundle)
             reject == Cardinality(Backers(bundle, "RejectsClaim")) >= Threshold(bundle)
  <2>1. FindingsError(bundle) = "none"
    BY DEF Decided, EvaluationError
  <2>2. n \in Nat /\ DOMAIN bundle.findings = 1..n
    BY DEF Typed
  <2>3. Votes(bundle, "SupportsClaim") = Cardinality(Backers(bundle, "SupportsClaim"))
    <3> HIDE DEF n
    <3> QED
      BY <2>1, <2>2, VotesAreBackers
  <2>4. Votes(bundle, "RejectsClaim") = Cardinality(Backers(bundle, "RejectsClaim"))
    <3> HIDE DEF n
    <3> QED
      BY <2>1, <2>2, VotesAreBackers
  <2>5. DecisionOf(bundle).status = StatusOf(bundle)
    BY DEF DecisionOf
  <2>6. StatusOf(bundle) = IF support = reject THEN "FallbackApplied"
                           ELSE IF support THEN "ClaimUpheld" ELSE "ClaimRejected"
    <3>1. support \in BOOLEAN /\ reject \in BOOLEAN
      OBVIOUS
    <3> QED
      BY <2>3, <2>4, <3>1, Zenon DEF StatusOf
  <2> QED
    BY <2>5, <2>6 DEF QuorumDecides
<1> QED
  BY <1>1, Typing, PTL DEF BundleSpec

-----------------------------------------------------------------------------

LEMMA OrdersAreBijective ==
  ASSUME NEW n \in Nat, NEW order \in Orders(n)
  PROVE  /\ order \in [1..n -> 1..n]
         /\ \A j \in 1..n : \E i \in 1..n : order[i] = j
         /\ \A i, j \in 1..n : order[i] = order[j] => i = j
<1>1. order \in Surjection(1..n, 1..n)
  BY DEF Orders, Surjection
<1>2. order \in Injection(1..n, 1..n)
  <2>1. IsFiniteSet(1..n)
    BY FS_Interval
  <2> QED
    BY <1>1, <2>1, FS_SurjSameCardinalityImpliesInj
<1> QED
  BY <1>1, <1>2 DEF Surjection, Injection, IsInjective

\* Two bundles with the same findings in another order.
SameButOrder(b, c, n, order) ==
  /\ c.case = b.case /\ c.evidence = b.evidence /\ c.claim = b.claim
  /\ c.profile = b.profile /\ c.prior = b.prior
  /\ DOMAIN b.findings = 1..n
  /\ DOMAIN c.findings = 1..n
  /\ \A i \in 1..n : c.findings[i] = b.findings[order[i]]

LEMMA ReorderedIsSame ==
  ASSUME NEW b, NEW n \in Nat, DOMAIN b.findings = 1..n, NEW order \in Orders(n)
  PROVE  SameButOrder(b, Reordered(b, order), n, order)
BY DEF Reordered, SameButOrder

LEMMA OrderKeepsFindings ==
  ASSUME NEW n \in Nat, NEW order \in Orders(n), NEW b, NEW c, SameButOrder(b, c, n, order)
  PROVE  FindingsError(c) = "none" <=> FindingsError(b) = "none"
<1>1. \A f : Accepted(c, f) <=> Accepted(b, f)
  BY DEF Accepted, SameButOrder, PhaseOfBundle, Bench
<1>2. /\ order \in [1..n -> 1..n]
      /\ \A j \in 1..n : \E i \in 1..n : order[i] = j
      /\ \A i, j \in 1..n : order[i] = order[j] => i = j
  BY OrdersAreBijective
<1>3. (\A i \in 1..n : Accepted(c, c.findings[i])) <=> \A i \in 1..n : Accepted(b, b.findings[i])
  <2> DEFINE A(f) == Accepted(b, f)
  <2>1. \A f : Accepted(c, f) <=> A(f)
    BY <1>1
  <2> HIDE DEF A
  <2>2. \A i \in 1..n : c.findings[i] = b.findings[order[i]]
    BY DEF SameButOrder
  <2>3. (\A i \in 1..n : A(c.findings[i])) <=> \A i \in 1..n : A(b.findings[i])
    <3>1. ASSUME \A i \in 1..n : A(c.findings[i]), NEW j \in 1..n
          PROVE  A(b.findings[j])
      <4>1. PICK i \in 1..n : order[i] = j
        BY <1>2
      <4> QED
        BY <2>2, <3>1, <4>1
    <3>2. ASSUME \A i \in 1..n : A(b.findings[i]), NEW i \in 1..n
          PROVE  A(c.findings[i])
      BY <1>2, <2>2, <3>2
    <3> QED
      BY <3>1, <3>2
  <2> QED
    BY <2>1, <2>3 DEF A
<1>4. OneEach(c) <=> OneEach(b)
  <2>1. ASSUME OneEach(b), NEW i \in 1..n, NEW j \in 1..n,
               c.findings[i].adjudicator = c.findings[j].adjudicator
        PROVE  i = j
    <3>1. b.findings[order[i]].adjudicator = b.findings[order[j]].adjudicator
      BY <2>1 DEF SameButOrder
    <3>2. order[i] \in 1..n /\ order[j] \in 1..n
      BY <1>2
    <3>3. order[i] = order[j]
      BY <2>1, <3>1, <3>2 DEF OneEach, SameButOrder
    <3> QED
      BY <1>2, <3>3
  <2>2. ASSUME OneEach(c), NEW i \in 1..n, NEW j \in 1..n,
               b.findings[i].adjudicator = b.findings[j].adjudicator
        PROVE  i = j
    <3>1. PICK k \in 1..n : order[k] = i
      BY <1>2
    <3>2. PICK l \in 1..n : order[l] = j
      BY <1>2
    <3>3. c.findings[k].adjudicator = c.findings[l].adjudicator
      BY <2>2, <3>1, <3>2 DEF SameButOrder
    <3>4. k = l
      BY <2>2, <3>3 DEF OneEach, SameButOrder
    <3> QED
      BY <3>1, <3>2, <3>4
  <2> QED
    BY <2>1, <2>2 DEF OneEach, SameButOrder
<1>5. DOMAIN b.findings = 1..n /\ DOMAIN c.findings = 1..n
  BY DEF SameButOrder
<1> QED
  BY <1>3, <1>4, <1>5, AllAccepted

LEMMA OrderKeepsVotes ==
  ASSUME NEW n \in Nat, NEW order \in Orders(n), NEW b, NEW c, SameButOrder(b, c, n, order),
         NEW d
  PROVE  Votes(c, d) = Votes(b, d)
<1> DEFINE S == Ballots(c, d)
           T == Ballots(b, d)
           f == [i \in S |-> order[i]]
<1>1. S \subseteq 1..n /\ T \subseteq 1..n
  BY DEF Ballots, SameButOrder
<1>2. /\ order \in [1..n -> 1..n]
      /\ \A j \in 1..n : \E i \in 1..n : order[i] = j
      /\ \A i, j \in 1..n : order[i] = order[j] => i = j
  BY OrdersAreBijective
<1>3. \A i \in 1..n : i \in S <=> order[i] \in T
  BY <1>2 DEF Ballots, SameButOrder
<1>4. f \in Bijection(S, T)
  <2> HIDE DEF S, T
  <2> QED
    BY <1>1, <1>2, <1>3 DEF Bijection, Injection, Surjection, IsInjective
<1>5. IsFiniteSet(S)
  <2>1. IsFiniteSet(1..n)
    BY FS_Interval
  <2> HIDE DEF S
  <2> QED
    BY <1>1, <2>1, FS_Subset
<1>6. Cardinality(T) = Cardinality(S)
  <2> HIDE DEF S, T, f
  <2> QED
    BY <1>4, <1>5, FS_Bijection DEF ExistsBijection
<1> QED
  BY <1>6 DEF Votes, Ballots

LEMMA OrderKeepsParticipants ==
  ASSUME NEW n \in Nat, NEW order \in Orders(n), NEW b, NEW c, SameButOrder(b, c, n, order)
  PROVE  Participants(c) = Participants(b)
<1>1. order \in [1..n -> 1..n] /\ \A j \in 1..n : \E i \in 1..n : order[i] = j
  BY OrdersAreBijective
<1>2. \A i \in 1..n : c.findings[i] = b.findings[order[i]]
  BY DEF SameButOrder
<1>3. ASSUME NEW a \in Participants(b) PROVE a \in Participants(c)
  <2>1. PICK j \in 1..n : a = b.findings[j].adjudicator
    BY DEF Participants, SameButOrder
  <2>2. PICK i \in 1..n : order[i] = j
    BY <1>1
  <2>3. a = c.findings[i].adjudicator
    BY <1>2, <2>1, <2>2
  <2> QED
    BY <2>3 DEF Participants, SameButOrder
<1>4. ASSUME NEW a \in Participants(c) PROVE a \in Participants(b)
  <2>1. PICK i \in 1..n : a = c.findings[i].adjudicator
    BY DEF Participants, SameButOrder
  <2>2. order[i] \in 1..n /\ a = b.findings[order[i]].adjudicator
    BY <1>1, <1>2, <2>1
  <2> QED
    BY <2>2 DEF Participants, SameButOrder
<1> QED
  BY <1>3, <1>4

\* The order of the findings decides nothing, whatever their number and whoever made them:
\* neither whether evaluate_bundle decides nor any field of its receipt.
THEOREM OrderDecidesNothing == BundleSpec => []OrderIsIrrelevant
<1>1. Typed => OrderIsIrrelevant
  <2> SUFFICES ASSUME Typed, NEW order \in Orders(Len(bundle.findings))
               PROVE  LET other == Reordered(bundle, order)
                      IN /\ Decided(other) <=> Decided(bundle)
                         /\ Decided(bundle) => DecisionOf(other) = DecisionOf(bundle)
    BY DEF OrderIsIrrelevant
  <2> DEFINE n == Len(bundle.findings)
             other == Reordered(bundle, order)
  <2>1. n \in Nat /\ DOMAIN bundle.findings = 1..n
    BY DEF Typed
  <2>2. SameButOrder(bundle, other, n, order)
    <3>1. order \in Orders(n)
      OBVIOUS
    <3> HIDE DEF n
    <3> QED
      BY <2>1, <3>1, ReorderedIsSame
  <2> HIDE DEF n, other
  <2>3. order \in Orders(n)
    BY DEF n
  <2>4. FindingsError(other) = "none" <=> FindingsError(bundle) = "none"
    BY <2>1, <2>2, <2>3, OrderKeepsFindings
  <2>5. \A d : Votes(other, d) = Votes(bundle, d)
    BY <2>1, <2>2, <2>3, OrderKeepsVotes
  <2>6. Participants(other) = Participants(bundle)
    BY <2>1, <2>2, <2>3, OrderKeepsParticipants
  <2>7. /\ other.case = bundle.case /\ other.evidence = bundle.evidence
        /\ other.claim = bundle.claim /\ other.profile = bundle.profile
        /\ other.prior = bundle.prior
    BY <2>2 DEF SameButOrder
  <2>8. InputError(other) = InputError(bundle)
    BY <2>7 DEF InputError, PriorError, RefsVerified
  <2>9. PhaseOfBundle(other) = PhaseOfBundle(bundle) /\ Threshold(other) = Threshold(bundle)
    BY <2>7 DEF PhaseOfBundle, Threshold
  <2>10. StatusOf(other) = StatusOf(bundle)
    BY <2>5, <2>9 DEF StatusOf
  <2>11. RemedyOf(other) = RemedyOf(bundle)
    BY <2>7, <2>10 DEF RemedyOf
  <2>12. RemedyError(other) = RemedyError(bundle)
    BY <2>7, <2>11 DEF RemedyError
  <2>13. Decided(other) <=> Decided(bundle)
    BY <2>4, <2>8, <2>12 DEF Decided, EvaluationError
  <2>14. DecisionOf(other) = DecisionOf(bundle)
    BY <2>5, <2>6, <2>7, <2>9, <2>10, <2>11 DEF DecisionOf
  <2> QED
    BY <2>13, <2>14 DEF other
<1> QED
  BY <1>1, Typing, PTL DEF BundleSpec

-----------------------------------------------------------------------------
(* The whole dispute.                                                      *)

FindingsInv == IsFiniteSet(findings)

\* There is one locked evidence, and it is the current one.
EvidenceInv ==
  /\ evidence \in [verified : SUBSET EvidenceIds, locked : BOOLEAN]
  /\ \A s \in snapshots : s.evidence.locked => evidence = s.evidence

\* What a decision rests on.
Founded(d) ==
  /\ d.profile \in Profiles
  /\ d.phase = IF d.supersedes = NoPrior THEN "Primary" ELSE "Appeal"
  /\ evidence.locked /\ d.evidence = evidence
  /\ d.status = "ClaimUpheld" => Cardinality(VotesBehind(d, "SupportsClaim")) >= ThresholdOf(d)
  /\ d.status = "ClaimRejected" => Cardinality(VotesBehind(d, "RejectsClaim")) >= ThresholdOf(d)

\* What a decision orders: the whole value is given away, all of it to the provider when
\* the claim is rejected.
Balanced(d) ==
  /\ d.remedy.kind \in RemedyKinds
  /\ d.remedy.refund \in Nat /\ d.remedy.release \in Nat /\ d.remedy.retained \in Nat
  /\ d.remedy.refund + d.remedy.release + d.remedy.retained = Value
  /\ d.status = "ClaimRejected" => d.remedy.release = Value

DecisionsInv == \A d \in decisions : Founded(d) /\ Balanced(d)

\* The hold is reserved and untouched, or settled as one decision ordered.
HoldInv ==
  LET h == ledger.holds["hold"]
  IN /\ DOMAIN ledger.balances = Accounts
     /\ DOMAIN ledger.holds = {"hold"}
     /\ h.buyer = "buyer" /\ h.provider = "provider" /\ h.original = Value
     /\ \/ /\ h.status = "Reserved" /\ h.decision = NoDecision
           /\ ledger.balances["buyer"] = 0
           /\ ledger.balances["provider"] = Value
           /\ h.locked = Value
        \/ /\ h.status # "Reserved"
           /\ h.decision \in decisions
           /\ ledger.balances["buyer"] = h.decision.remedy.refund
           /\ ledger.balances["provider"] = Value + h.decision.remedy.release
           /\ h.locked = h.decision.remedy.retained

DisputeInv == FindingsInv /\ EvidenceInv /\ DecisionsInv /\ HoldInv

\* The findings of a bundle are the chosen ones, in some order.
LEMMA ChosenFindings ==
  ASSUME NEW S, IsFiniteSet(S)
  PROVE  /\ Cardinality(S) \in Nat
         /\ DOMAIN SetToSeq(S) = 1..Cardinality(S)
         /\ \A i \in 1..Cardinality(S) : SetToSeq(S)[i] \in S
<1> DEFINE n == Cardinality(S)
<1>1. n \in Nat /\ ExistsBijection(1..n, S)
  BY FS_CardinalityType
<1> HIDE DEF n
<1>2. \E f \in [1..n -> S] : IsInjective(f)
  BY <1>1 DEF ExistsBijection, Bijection, Injection
<1>3. SetToSeq(S) \in [1..n -> S]
  BY <1>2 DEF SetToSeq, n
<1> QED
  BY <1>1, <1>3 DEF n

\* The benches and thresholds of an accepted profile, in the bundle and in its decision.
LEMMA DecisionFields ==
  ASSUME NEW s, NEW profile, NEW prior, NEW chosen
  PROVE  LET b == BundleOf(s, profile, prior, chosen)
             d == DecisionOf(b)
         IN /\ d.profile = profile
            /\ d.supersedes = prior
            /\ d.phase = IF prior = NoPrior THEN "Primary" ELSE "Appeal"
            /\ d.phase = PhaseOfBundle(b)
            /\ d.case = s.case.revision /\ d.case = b.case.digest
            /\ d.evidence = s.evidence /\ d.evidence = b.evidence.root
            /\ d.status = StatusOf(b)
            /\ d.remedy = Allocation(RemedyOf(b), profile.bps, Value)
            /\ BenchOf(d) = Bench(b)
            /\ ThresholdOf(d) = Threshold(b)
BY DEF BundleOf, DecisionOf, CaseFields, EvidenceFields, PhaseOfBundle, BenchOf, Bench,
       ThresholdOf, Threshold

\* The quorum that a decision counted is there in the findings.
LEMMA BackersAreBehind ==
  ASSUME IsFiniteSet(findings), NEW s, NEW profile, NEW prior, NEW chosen \in SUBSET findings,
         NEW disposition, disposition # "Abstain",
         FindingsError(BundleOf(s, profile, prior, chosen)) = "none",
         Threshold(BundleOf(s, profile, prior, chosen)) \in Nat,
         Votes(BundleOf(s, profile, prior, chosen), disposition)
           >= Threshold(BundleOf(s, profile, prior, chosen))
  PROVE  LET d == DecisionOf(BundleOf(s, profile, prior, chosen))
         IN Cardinality(VotesBehind(d, disposition)) >= ThresholdOf(d)
<1> DEFINE b == BundleOf(s, profile, prior, chosen)
           d == DecisionOf(b)
           n == Cardinality(chosen)
           V == VotesBehind(d, disposition)
           B == Backers(b, disposition)
<1>1. IsFiniteSet(chosen)
  BY FS_Subset
<1>2. b.findings = SetToSeq(chosen)
  BY DEF BundleOf
<1>3. n \in Nat /\ DOMAIN b.findings = 1..n /\ \A i \in 1..n : b.findings[i] \in findings
  BY <1>1, <1>2, ChosenFindings
<1>4. /\ d.phase = PhaseOfBundle(b) /\ d.case = b.case.digest /\ d.evidence = b.evidence.root
      /\ BenchOf(d) = Bench(b) /\ ThresholdOf(d) = Threshold(b)
  BY DecisionFields
<1> HIDE DEF n, b, d
<1>5. FindingsError(b) = "none" /\ Threshold(b) \in Nat /\ Votes(b, disposition) >= Threshold(b)
  BY DEF b
<1>6. (\A i \in 1..n : Accepted(b, b.findings[i])) /\ OneEach(b)
  BY <1>3, <1>5, AllAccepted
<1>7. Votes(b, disposition) = Cardinality(B)
  BY <1>3, <1>5, VotesAreBackers
<1>8. B \subseteq V
  <2> SUFFICES ASSUME NEW a \in B PROVE a \in V
    OBVIOUS
  <2>1. PICK i \in 1..n : b.findings[i].adjudicator = a /\ b.findings[i].disposition = disposition
    BY <1>3 DEF Backers
  <2> DEFINE f == b.findings[i]
  <2>2. f \in findings /\ Accepted(b, f)
    BY <1>3, <1>6
  <2>3. /\ f.case = d.case /\ f.evidence = d.evidence /\ f.phase = d.phase
        /\ f.disposition = disposition /\ f.adjudicator \in BenchOf(d)
    BY <1>4, <2>1, <2>2 DEF Accepted
  <2> HIDE DEF f
  <2>4. f.adjudicator \in V
    BY <2>2, <2>3 DEF VotesBehind, BenchOf
  <2> QED
    BY <2>1, <2>4 DEF f
<1>9. IsFiniteSet(V)
  <2>1. V \subseteq {f.adjudicator : f \in findings}
    BY DEF VotesBehind
  <2>2. IsFiniteSet({f.adjudicator : f \in findings})
    <3> DEFINE I == {f.adjudicator : f \in findings}
               g == [f \in findings |-> f.adjudicator]
    <3>1. g \in Surjection(findings, I)
      BY DEF Surjection
    <3> HIDE DEF g, I
    <3>2. IsFiniteSet(I)
      BY <3>1, FS_Surjection
    <3> QED
      BY <3>2 DEF I
  <2> HIDE DEF V
  <2> QED
    BY <2>1, <2>2, FS_Subset
<1>10. Cardinality(B) <= Cardinality(V) /\ Cardinality(B) \in Nat /\ Cardinality(V) \in Nat
  <2> HIDE DEF V, B
  <2> QED
    BY <1>8, <1>9, FS_Subset, FS_CardinalityType
<1> QED
  <2>1. Cardinality(V) >= ThresholdOf(d)
    <3> HIDE DEF V, B
    <3> QED
      BY <1>4, <1>5, <1>7, <1>10
  <2> QED
    BY <2>1 DEF b, d

\* A decision that evaluate_bundle gives on some earlier snapshot rests on the locked
\* evidence and on a quorum of its bench.
LEMMA EvaluationIsFounded ==
  ASSUME FindingsInv, EvidenceInv, NEW s \in snapshots, NEW profile \in Profiles, NEW prior,
         NEW chosen \in SUBSET findings,
         EvaluationError(BundleOf(s, profile, prior, chosen)) = "none"
  PROVE  LET d == DecisionOf(BundleOf(s, profile, prior, chosen))
         IN Founded(d) /\ Balanced(d)
<1> DEFINE b == BundleOf(s, profile, prior, chosen)
           d == DecisionOf(b)
           kind == RemedyOf(b)
<1>1. InputError(b) = "none" /\ FindingsError(b) = "none" /\ RemedyError(b) = "none"
  BY DEF EvaluationError
<1>2. /\ d.profile = profile /\ d.supersedes = prior
      /\ d.phase = IF prior = NoPrior THEN "Primary" ELSE "Appeal"
      /\ d.case = b.case.digest /\ d.evidence = s.evidence /\ d.evidence = b.evidence.root
      /\ d.status = StatusOf(b)
      /\ d.remedy = Allocation(kind, profile.bps, Value)
      /\ BenchOf(d) = Bench(b) /\ ThresholdOf(d) = Threshold(b)
  BY DecisionFields
<1>3. /\ b.evidence.locked = s.evidence.locked /\ b.prior = prior /\ b.profile = profile
      /\ b.findings = SetToSeq(chosen)
  BY DEF BundleOf, EvidenceFields
<1>4. Threshold(b) \in Nat
  BY <1>3, ProfileAssumption DEF Threshold
<1>5. StatusOf(b) = "ClaimUpheld" => Votes(b, "SupportsClaim") >= Threshold(b)
  BY DEF StatusOf
<1>6. StatusOf(b) = "ClaimRejected" => Votes(b, "RejectsClaim") >= Threshold(b)
  BY DEF StatusOf
<1>7. b.evidence.locked
  BY <1>1, Zenon DEF InputError
<1>8. Founded(d)
  <2>1. evidence.locked /\ d.evidence = evidence
    BY <1>2, <1>3, <1>7 DEF EvidenceInv
  <2>2. d.status = "ClaimUpheld" => Cardinality(VotesBehind(d, "SupportsClaim")) >= ThresholdOf(d)
    BY <1>1, <1>2, <1>4, <1>5, BackersAreBehind DEF FindingsInv
  <2>3. d.status = "ClaimRejected" => Cardinality(VotesBehind(d, "RejectsClaim")) >= ThresholdOf(d)
    BY <1>1, <1>2, <1>4, <1>6, BackersAreBehind DEF FindingsInv
  <2> HIDE DEF d
  <2> QED
    BY <1>2, <2>1, <2>2, <2>3 DEF Founded
<1>9. Balanced(d)
  <2>1. kind \in RemedyKinds
    <3>1. kind \in profile.remedies
      BY <1>1, <1>3 DEF RemedyError
    <3> QED
      BY <3>1, ProfileAssumption
  <2>2. kind = "Split" => profile.bps <= BpsScale
    <3>1. ProfileError(profile) = "none"
      BY <1>1, <1>3, Zenon DEF InputError
    <3>2. kind = "Split" => profile.fallback = "Split"
      BY <1>1, <1>3 DEF RemedyError
    <3>3. profile.fallback = "Split" => ~(profile.bps > BpsScale)
      BY <3>1 DEF ProfileError
    <3>4. profile.bps \in Nat
      BY ProfileAssumption
    <3> QED
      BY <3>2, <3>3, <3>4 DEF BpsScale
  <2>3. StatusOf(b) = "ClaimRejected" => kind = "ReleaseProvider"
    BY DEF RemedyOf
  <2> DEFINE a == Allocation(kind, profile.bps, Value)
  <2>4. Value \in Nat /\ profile.bps \in Nat
    BY ProfileAssumption DEF Value
  <2>5. /\ a.refund \in Nat /\ a.release \in Nat /\ a.retained \in Nat
        /\ a.refund + a.release + a.retained = Value
    <3> HIDE DEF kind
    <3> QED
      BY <2>2, <2>4, AllocationIsExact
  <2>6. a.kind = kind /\ (kind = "ReleaseProvider" => a.release = Value)
    BY <2>4 DEF Allocation
  <2> HIDE DEF d, kind, a, b
  <2> QED
    BY <1>2, <2>1, <2>3, <2>5, <2>6 DEF Balanced, a
<1> QED
  BY <1>8, <1>9

-----------------------------------------------------------------------------

\* A committed apply_decision found the hold reserved and the amounts equal.
LEMMA CommittedApply ==
  ASSUME NEW d, NEW key, LedgerAnswer(ledger, ApplyRequest(d, key)) = "committed"
  PROVE  /\ ledger.holds["hold"].status = "Reserved"
         /\ ledger.holds["hold"].decision = NoDecision
<1>1. ApplyRequest(d, key).op = "apply" /\ ApplyRequest(d, key).hold = "hold"
  BY DEF ApplyRequest
<1>2. ApplyError(ledger, ApplyRequest(d, key)) = "none"
  BY <1>1 DEF LedgerAnswer, LedgerError, PreconditionError, ApplyError, OutcomeError
<1> QED
  BY <1>1, <1>2 DEF ApplyError

LEMMA DisputeInitial == Init => DisputeInv
<1> SUFFICES ASSUME Init PROVE DisputeInv
  OBVIOUS
<1>1. FindingsInv
  BY FS_EmptySet DEF Init, FindingsInv
<1>2. EvidenceInv
  BY DEF Init, EvidenceInv, Now
<1>3. DecisionsInv
  BY DEF Init, DecisionsInv
<1>4. HoldInv
  <2> DEFINE l == NewLedger([a \in Accounts |-> Value])
             r == ReserveRequest
  <2>1. /\ l.balances = [a \in Accounts |-> Value] /\ l.holds = <<>>
        /\ r.op = "reserve" /\ r.hold = "hold" /\ r.buyer = "buyer"
        /\ r.provider = "provider" /\ r.amount = Value
    BY DEF NewLedger, SealedLedger, ReserveRequest
  <2> HIDE DEF l, r
  <2>2. ledger.balances = Reserved(l, r).balances /\ ledger.holds = Reserved(l, r).holds
    BY <2>1 DEF Init, LedgerAfter, SealedLedger, Outcome, l, r
  <2>3. ledger.balances = [[a \in Accounts |-> Value] EXCEPT !["buyer"] = Value - Value]
    <3>1. Reserved(l, r).balances = [l.balances EXCEPT !["buyer"] = l.balances["buyer"] - Value]
      BY <2>1 DEF Reserved
    <3>2. l.balances["buyer"] = Value
      BY <2>1, PartiesAssumption
    <3> QED
      BY <2>1, <2>2, <3>1, <3>2
  <2>4. ledger.holds = [h \in {"hold"} |-> NewHold(r)]
    <3>1. DOMAIN l.holds = {}
      BY <2>1
    <3> QED
      BY <2>1, <2>2, <3>1 DEF Reserved
  <2>5. /\ NewHold(r).buyer = "buyer" /\ NewHold(r).provider = "provider"
        /\ NewHold(r).original = Value /\ NewHold(r).locked = Value
        /\ NewHold(r).status = "Reserved" /\ NewHold(r).decision = NoDecision
    BY <2>1 DEF NewHold
  <2>6. /\ DOMAIN ledger.balances = Accounts
        /\ ledger.balances["buyer"] = 0 /\ ledger.balances["provider"] = Value
    BY <2>3, PartiesAssumption DEF Value
  <2> QED
    BY <2>4, <2>5, <2>6 DEF HoldInv
<1> QED
  BY <1>1, <1>2, <1>3, <1>4 DEF DisputeInv

\* A decision stays founded as long as its evidence stays and findings are only added.
LEMMA FoundedStays ==
  ASSUME FindingsInv', findings \subseteq findings',
         evidence.locked => UNCHANGED evidence, NEW d, Founded(d)
  PROVE  Founded(d)'
<1>1. ASSUME NEW disposition, Cardinality(VotesBehind(d, disposition)) >= ThresholdOf(d)
      PROVE  Cardinality(VotesBehind(d, disposition)') >= ThresholdOf(d)
  <2> DEFINE V == VotesBehind(d, disposition)
             W == VotesBehind(d, disposition)'
             I == {f.adjudicator : f \in findings'}
  <2>1. V \subseteq W /\ W \subseteq I
    BY DEF VotesBehind
  <2>2. IsFiniteSet(I)
    <3> DEFINE g == [f \in findings' |-> f.adjudicator]
    <3>1. g \in Surjection(findings', I)
      BY DEF Surjection
    <3> HIDE DEF g, I
    <3>2. IsFiniteSet(findings')
      BY DEF FindingsInv
    <3> QED
      BY <3>1, <3>2, FS_Surjection
  <2> HIDE DEF V, W, I
  <2>3. IsFiniteSet(W)
    BY <2>1, <2>2, FS_Subset
  <2>4. /\ Cardinality(V) <= Cardinality(W) /\ Cardinality(V) \in Nat
        /\ Cardinality(W) \in Nat
    BY <2>1, <2>3, FS_Subset, FS_CardinalityType
  <2>5. ThresholdOf(d) \in Nat
    BY ProfileAssumption DEF Founded, ThresholdOf
  <2>6. Cardinality(V) >= ThresholdOf(d)
    BY <1>1 DEF V
  <2>7. Cardinality(W) >= ThresholdOf(d)
    BY <2>4, <2>5, <2>6
  <2> QED
    BY <2>7 DEF W
<1>2. UNCHANGED evidence
  BY DEF Founded
<1> QED
  BY <1>1, <1>2 DEF Founded, BenchOf, ThresholdOf

LEMMA DecisionsStay ==
  ASSUME DisputeInv, FindingsInv', findings \subseteq findings',
         evidence.locked => UNCHANGED evidence, UNCHANGED decisions
  PROVE  DecisionsInv'
<1> SUFFICES ASSUME NEW d \in decisions PROVE (Founded(d) /\ Balanced(d))'
  BY DEF DecisionsInv
<1>1. Founded(d) /\ Balanced(d)
  BY DEF DisputeInv, DecisionsInv
<1>2. Founded(d)'
  BY <1>1, FoundedStays
<1>3. Balanced(d)'
  BY <1>1 DEF Balanced
<1> QED
  BY <1>2, <1>3

LEMMA HoldStays ==
  ASSUME HoldInv, UNCHANGED ledger, decisions \subseteq decisions'
  PROVE  HoldInv'
BY DEF HoldInv

LEMMA IssueKeepsInv ==
  ASSUME DisputeInv, NEW s, NEW adjudicator, NEW phase, NEW disposition,
         IssueFinding(s, adjudicator, phase, disposition)
  PROVE  DisputeInv'
<1> DEFINE new == [adjudicator |-> adjudicator, phase |-> phase, case |-> s.case.revision,
                   evidence |-> s.evidence, policy |-> "policy", disposition |-> disposition,
                   refs |-> s.evidence.verified]
<1>1. findings' = findings \union {new} /\ UNCHANGED <<case, evidence, snapshots, decisions, ledger>>
  BY DEF IssueFinding
<1> HIDE DEF new
<1>2. FindingsInv'
  BY <1>1, FS_AddElement DEF DisputeInv, FindingsInv
<1>3. DecisionsInv'
  BY <1>1, <1>2, DecisionsStay
<1>4. HoldInv'
  BY <1>1, HoldStays DEF DisputeInv
<1>5. EvidenceInv'
  BY <1>1 DEF DisputeInv, EvidenceInv
<1> QED
  BY <1>2, <1>3, <1>4, <1>5 DEF DisputeInv

LEMMA EvaluateKeepsInv ==
  ASSUME DisputeInv, NEW s \in snapshots, NEW profile \in Profiles,
         NEW prior \in decisions \union {NoPrior}, NEW chosen \in SUBSET findings,
         Evaluate(s, profile, prior, chosen)
  PROVE  DisputeInv'
<1> DEFINE b == BundleOf(s, profile, prior, chosen)
           new == DecisionOf(b)
<1>1. /\ EvaluationError(b) = "none" /\ decisions' = decisions \union {new}
      /\ UNCHANGED <<case, evidence, snapshots, findings, ledger>>
  BY DEF Evaluate
<1>2. Founded(new) /\ Balanced(new)
  BY <1>1, EvaluationIsFounded DEF DisputeInv
<1> HIDE DEF b, new
<1>3. FindingsInv' /\ EvidenceInv'
  BY <1>1 DEF DisputeInv, FindingsInv, EvidenceInv
<1>4. DecisionsInv'
  <2> SUFFICES ASSUME NEW d \in decisions' PROVE (Founded(d) /\ Balanced(d))'
    BY DEF DecisionsInv
  <2>1. Founded(d) /\ Balanced(d)
    BY <1>1, <1>2 DEF DisputeInv, DecisionsInv
  <2>2. Founded(d)'
    BY <1>1, <1>3, <2>1, FoundedStays
  <2>3. Balanced(d)'
    BY <2>1 DEF Balanced
  <2> QED
    BY <2>2, <2>3
<1>5. HoldInv'
  BY <1>1, HoldStays DEF DisputeInv
<1> QED
  BY <1>3, <1>4, <1>5 DEF DisputeInv

LEMMA ApplyKeepsInv ==
  ASSUME DisputeInv, NEW d \in decisions, NEW key, ApplyDecision(d, key)
  PROVE  DisputeInv'
<1> DEFINE h == ledger.holds["hold"]
           r == ApplyRequest(d, key)
           new == DecidedHold(h, d)
<1>1. /\ LedgerAnswer(ledger, r) = "committed"
      /\ ledger' = LedgerAfter(ledger, r)
      /\ UNCHANGED <<case, evidence, snapshots, findings, decisions>>
  BY DEF ApplyDecision
<1>2. /\ ledger.balances["buyer"] = 0 /\ ledger.balances["provider"] = Value
      /\ h.buyer = "buyer" /\ h.provider = "provider" /\ h.original = Value
      /\ DOMAIN ledger.balances = Accounts /\ DOMAIN ledger.holds = {"hold"}
  BY <1>1, CommittedApply DEF DisputeInv, HoldInv
<1>3. r.op = "apply" /\ r.hold = "hold" /\ r.decision = d
  BY DEF ApplyRequest
<1>4. Balanced(d)
  BY DEF DisputeInv, DecisionsInv
<1> HIDE DEF r, h
<1> DEFINE paid == Credited(ledger.balances, "buyer", d.remedy.refund)
<1>5. /\ ledger'.balances = Credited(paid, "provider", d.remedy.release)
      /\ ledger'.holds = [ledger.holds EXCEPT !["hold"] = new]
  BY <1>1, <1>2, <1>3 DEF LedgerAfter, SealedLedger, Outcome, Resolved, h
<1>6. /\ DOMAIN paid = Accounts /\ paid["buyer"] = 0 + d.remedy.refund
      /\ paid["provider"] = Value
  BY <1>2, PartiesAssumption DEF Credited
<1> HIDE DEF paid
<1>7. /\ DOMAIN ledger'.balances = Accounts
      /\ ledger'.balances["buyer"] = 0 + d.remedy.refund
      /\ ledger'.balances["provider"] = Value + d.remedy.release
  BY <1>5, <1>6, PartiesAssumption DEF Credited
<1>8. DOMAIN ledger'.holds = {"hold"} /\ ledger'.holds["hold"] = new
  BY <1>2, <1>5
<1>9. /\ new.buyer = "buyer" /\ new.provider = "provider" /\ new.original = Value
      /\ new.decision = d /\ new.locked = d.remedy.retained
      /\ new.status = StatusFor(d.remedy.kind)
  BY <1>2 DEF DecidedHold
<1>10. StatusFor(d.remedy.kind) # "Reserved"
  BY <1>4 DEF Balanced, RemedyKinds, StatusFor
<1>11. 0 + d.remedy.refund = d.remedy.refund
  BY <1>4 DEF Balanced
<1> HIDE DEF new
<1>12. HoldInv'
  BY <1>1, <1>7, <1>8, <1>9, <1>10, <1>11 DEF HoldInv
<1>13. FindingsInv' /\ EvidenceInv'
  BY <1>1 DEF DisputeInv, FindingsInv, EvidenceInv
<1>14. DecisionsInv'
  BY <1>1, <1>13, DecisionsStay
<1> QED
  BY <1>12, <1>13, <1>14 DEF DisputeInv

LEMMA DisputeStep == DisputeInv /\ [Next]_vars => DisputeInv'
<1> SUFFICES ASSUME DisputeInv, [Next]_vars PROVE DisputeInv'
  OBVIOUS
<1>1. ASSUME UNCHANGED <<findings, decisions, ledger>>, EvidenceInv',
             evidence.locked => UNCHANGED evidence
      PROVE  DisputeInv'
  <2>1. FindingsInv'
    BY <1>1 DEF DisputeInv, FindingsInv
  <2>2. DecisionsInv'
    BY <1>1, <2>1, DecisionsStay
  <2>3. HoldInv'
    BY <1>1, HoldStays DEF DisputeInv
  <2> QED
    BY <1>1, <2>1, <2>2, <2>3 DEF DisputeInv
<1>2. ASSUME NEW to \in Moves, MoveCase(to) PROVE DisputeInv'
  <2>1. EvidenceInv'
    BY <1>2 DEF DisputeInv, EvidenceInv, MoveCase
  <2> QED
    BY <1>1, <1>2, <2>1 DEF MoveCase
<1>3. ASSUME NEW id \in EvidenceIds, AddEvidence(id) PROVE DisputeInv'
  <2>1. EvidenceInv'
    BY <1>3 DEF DisputeInv, EvidenceInv, AddEvidence
  <2> QED
    BY <1>1, <1>3, <2>1 DEF AddEvidence
<1>4. ASSUME LockEvidence PROVE DisputeInv'
  <2>1. EvidenceInv'
    <3>1. evidence' \in [verified : SUBSET EvidenceIds, locked : BOOLEAN]
      BY <1>4 DEF DisputeInv, EvidenceInv, LockEvidence
    <3>2. \A s \in snapshots : ~s.evidence.locked
      BY <1>4 DEF DisputeInv, EvidenceInv, LockEvidence
    <3>3. snapshots' = snapshots \union {[case |-> case, evidence |-> evidence']}
      BY <1>4 DEF LockEvidence
    <3> QED
      BY <3>1, <3>2, <3>3 DEF EvidenceInv
  <2> QED
    BY <1>1, <1>4, <2>1 DEF LockEvidence
<1>5. ASSUME UNCHANGED vars PROVE DisputeInv'
  <2>1. EvidenceInv'
    BY <1>5 DEF DisputeInv, EvidenceInv, vars
  <2> QED
    BY <1>1, <1>5, <2>1 DEF vars
<1> QED
  BY <1>2, <1>3, <1>4, <1>5, IssueKeepsInv, EvaluateKeepsInv, ApplyKeepsInv DEF Next

LEMMA DisputeInvariant == Spec => []DisputeInv
<1>1. Init => DisputeInv
  BY DisputeInitial
<1>2. DisputeInv /\ [Next]_vars => DisputeInv'
  BY DisputeStep
<1> QED
  BY <1>1, <1>2, PTL DEF Spec

\* Every decision in the world rests on the one evidence that was locked and is still
\* there, whatever snapshot its evaluator worked on (validate_inputs, mutate_evidence).
THEOREM AllJudgedOnFinalEvidence == Spec => []JudgedOnFinalEvidence
<1>1. DisputeInv => JudgedOnFinalEvidence
  BY DEF DisputeInv, DecisionsInv, Founded, JudgedOnFinalEvidence
<1> QED
  BY <1>1, DisputeInvariant, PTL

\* Whoever was paid was paid on findings of a quorum, and all of the value is accounted
\* for (evaluate_bundle and apply_decision together).
THEOREM EverySettlementIsBacked == Spec => []SettlementIsBacked
<1>1. DisputeInv => SettlementIsBacked
  <2> SUFFICES ASSUME DisputeInv PROVE SettlementIsBacked
    OBVIOUS
  <2> DEFINE h == ledger.holds["hold"]
             d == h.decision
  <2> SUFFICES ASSUME d # NoDecision
               PROVE  /\ d \in decisions
                      /\ d.status = "ClaimUpheld" =>
                           Cardinality(VotesBehind(d, "SupportsClaim")) >= ThresholdOf(d)
                      /\ d.status = "ClaimRejected" =>
                           /\ Cardinality(VotesBehind(d, "RejectsClaim")) >= ThresholdOf(d)
                           /\ ledger.balances["provider"] = 2 * Value
                      /\ ledger.balances["buyer"] + ledger.balances["provider"] + h.locked
                           = 2 * Value
    BY DEF SettlementIsBacked
  <2>1. /\ d \in decisions
        /\ ledger.balances["buyer"] = d.remedy.refund
        /\ ledger.balances["provider"] = Value + d.remedy.release
        /\ h.locked = d.remedy.retained
    BY DEF DisputeInv, HoldInv
  <2> HIDE DEF h, d
  <2>2. Founded(d) /\ Balanced(d)
    BY <2>1 DEF DisputeInv, DecisionsInv
  <2>3. /\ d.status = "ClaimRejected" => ledger.balances["provider"] = 2 * Value
        /\ ledger.balances["buyer"] + ledger.balances["provider"] + h.locked = 2 * Value
    BY <2>1, <2>2 DEF Balanced, Value
  <2> QED
    BY <2>1, <2>2, <2>3 DEF Founded
<1> QED
  BY <1>1, DisputeInvariant, PTL

\* Opposite verdicts about one snapshot take as many adjudicators who stated both things as
\* two quorums of their bench must share, whichever findings each evaluator was given
\* (evaluate_findings, validate_inputs).
THEOREM ContradictionsNeedEquivocation == Spec => []ContradictionsAreAccountable
<1>1. ASSUME DisputeInv, NEW c \in decisions, NEW d \in decisions,
             c.phase = d.phase, c.case = d.case, c.profile = d.profile,
             c.status = "ClaimUpheld", d.status = "ClaimRejected"
      PROVE  2 * ThresholdOf(d) <= Cardinality(BenchOf(d)) + Cardinality(Equivocators(d))
  <2>1. Founded(c) /\ Founded(d)
    BY <1>1 DEF DisputeInv, DecisionsInv
  <2>2. ThresholdOf(c) = ThresholdOf(d) /\ c.evidence = d.evidence
    BY <1>1, <2>1 DEF ThresholdOf, Founded
  <2> DEFINE U == BenchOf(d)
             V == VotesBehind(d, "SupportsClaim")
             W == VotesBehind(d, "RejectsClaim")
             t == ThresholdOf(d)
  <2>3. VotesBehind(c, "SupportsClaim") = V
    BY <1>1, <2>2 DEF VotesBehind, BenchOf
  <2>4. V \subseteq U /\ W \subseteq U
    BY DEF VotesBehind
  <2>5. IsFiniteSet(U) /\ t \in Nat
    BY <2>1, ProfileAssumption DEF Founded, BenchOf, ThresholdOf
  <2>6. Cardinality(V) >= t /\ Cardinality(W) >= t
    BY <1>1, <2>1, <2>2, <2>3 DEF Founded
  <2>7. 2 * t <= Cardinality(U) + Cardinality(V \intersect W)
    <3> HIDE DEF U, V, W, t
    <3>1. IsFiniteSet(V) /\ IsFiniteSet(W) /\ V \union W \subseteq U
      BY <2>4, <2>5, FS_Subset
    <3>2. Cardinality(V \union W) = Cardinality(V) + Cardinality(W) - Cardinality(V \intersect W)
      BY <3>1, FS_Union
    <3>3. Cardinality(V \union W) <= Cardinality(U)
      BY <2>5, <3>1, FS_Subset
    <3>4. IsFiniteSet(V \intersect W) /\ IsFiniteSet(V \union W)
      BY <2>5, <3>1, FS_Subset, FS_Intersection
    <3>5. /\ Cardinality(U) \in Nat /\ Cardinality(V) \in Nat /\ Cardinality(W) \in Nat
          /\ Cardinality(V \intersect W) \in Nat /\ Cardinality(V \union W) \in Nat
      BY <2>5, <3>1, <3>4, FS_CardinalityType
    <3> QED
      BY <2>5, <2>6, <3>2, <3>3, <3>5
  <2> QED
    BY <2>7 DEF Equivocators
<1>2. DisputeInv => ContradictionsAreAccountable
  BY <1>1 DEF ContradictionsAreAccountable
<1> QED
  BY <1>2, DisputeInvariant, PTL
=============================================================================

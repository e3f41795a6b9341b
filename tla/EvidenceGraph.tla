---------------------------- MODULE EvidenceGraph ----------------------------
(***************************************************************************)
(* The evidence graph of joan-evidence: items and relations collected from *)
(* several actors under optimistic concurrency, then locked for            *)
(* adjudication.  As in CaseLifecycle, requests are built from snapshots   *)
(* and may be applied late, out of order and repeatedly, and a root is the *)
(* record of the fields it is computed from.  Of an item the model keeps   *)
(* its identifier and verification result, of a relation its endpoints.    *)
(* The receipts of committed mutations are kept as history.                *)
(***************************************************************************)
EXTENDS Naturals, FiniteSets, Functions

CONSTANTS
  Actors,
  Keys,          \* idempotency keys
  ItemIds,
  RelationIds,
  MaxItems,      \* MAX_ITEMS
  MaxRelations,  \* MAX_RELATIONS
  MaxKeys,       \* MAX_IDEMPOTENCY_KEYS
  NoRequest

\* There is a key for every item and every relation; the code's 60,000 keys are exactly
\* its 10,000 items and 50,000 relations (lines 8-10).
ASSUME CapacityAssumption ==
  /\ MaxItems \in Nat \ {0}
  /\ MaxRelations \in Nat
  /\ MaxKeys \in Nat
  /\ MaxKeys >= MaxItems + MaxRelations

VARIABLES
  graph,         \* the authoritative EvidenceGraph
  request,       \* per actor: the EvidenceMutationRequest it built
  answer,        \* per actor: what mutate_evidence last answered it
  receipts       \* history: every EvidenceMutationReceipt ever issued

evidenceVars == <<graph, request, answer, receipts>>

\* EvidenceVerification; no code tells Rejected from Unverified, so both are Unverified.
Verifications == {"Unverified", "Verified"}

Items == UNION {[ids -> Verifications] : ids \in SUBSET ItemIds}
Endpoints == [from : ItemIds, to : ItemIds]
Relations == UNION {[ids -> Endpoints] : ids \in SUBSET RelationIds}

Mutations ==
  [op : {"AddItem"}, id : ItemIds, verification : Verifications]
    \union [op : {"AddRelation"}, id : RelationIds, ends : Endpoints]
    \union [op : {"Lock"}]

-----------------------------------------------------------------------------

GraphRoot(items, relations, locked, revision, keys) ==
  [items |-> items, relations |-> relations, locked |-> locked,
   revision |-> revision, keys |-> keys]

SealedGraph(items, relations, locked, revision, keys) ==
  [items |-> items, relations |-> relations, locked |-> locked,
   revision |-> revision, keys |-> keys,
   root |-> GraphRoot(items, relations, locked, revision, keys)]

\* validate_relation
RelationError(g, ends) ==
  IF ends.from = ends.to THEN "SelfRelation"
  ELSE IF {ends.from, ends.to} \subseteq DOMAIN g.items THEN "none"
  ELSE "MissingRelationEndpoint"

VerifyGraph(g) ==
  /\ \A id \in DOMAIN g.relations : RelationError(g, g.relations[id]) = "none"
  /\ g.root = GraphRoot(g.items, g.relations, g.locked, g.revision, g.keys)

\* The error apply_mutation returns, "none" if the mutation applies.
MutationError(g, m) ==
  CASE m.op = "AddItem" ->
         IF Cardinality(DOMAIN g.items) >= MaxItems THEN "Capacity"
         ELSE IF m.id \in DOMAIN g.items THEN "DuplicateItem"
         ELSE "none"
    [] m.op = "AddRelation" ->
         IF Cardinality(DOMAIN g.relations) >= MaxRelations THEN "Capacity"
         ELSE IF m.id \in DOMAIN g.relations THEN "DuplicateRelation"
         ELSE RelationError(g, m.ends)
    [] m.op = "Lock" ->
         IF \E id \in DOMAIN g.items : g.items[id] = "Verified"
         THEN "none" ELSE "NoVerifiedEvidence"

MutationAnswer_LockUnchecked(g, r) ==
  IF r.revision # g.revision THEN "StaleRevision"
  ELSE IF r.key \in g.keys THEN "Replay"
  ELSE IF Cardinality(g.keys) >= MaxKeys THEN "Capacity"
  ELSE IF MutationError(g, r.mutation) # "none" THEN MutationError(g, r.mutation)
  ELSE "committed"

MutationAnswer_Unbased(g, r) ==
  IF ~VerifyGraph(g) THEN "InvalidStoredRoot"
  ELSE IF g.locked THEN "Locked"
  ELSE IF r.key \in g.keys THEN "Replay"
  ELSE IF Cardinality(g.keys) >= MaxKeys THEN "Capacity"
  ELSE IF MutationError(g, r.mutation) # "none" THEN MutationError(g, r.mutation)
  ELSE "committed"

\* mutate_evidence, checks in the order of the code.
MutationAnswer(g, r) ==
  IF ~VerifyGraph(g) THEN "InvalidStoredRoot"
  ELSE IF g.locked THEN "Locked"
  ELSE IF r.root # g.root THEN "StaleRoot"
  ELSE IF r.revision # g.revision THEN "StaleRevision"
  ELSE IF r.key \in g.keys THEN "Replay"
  ELSE IF Cardinality(g.keys) >= MaxKeys THEN "Capacity"
  ELSE IF MutationError(g, r.mutation) # "none" THEN MutationError(g, r.mutation)
  ELSE "committed"

\* apply_mutation: items and relations after the mutation.
AddedTo(f, r, op, value) ==
  IF r.mutation.op = op
  THEN [id \in DOMAIN f \union {r.mutation.id} |-> IF id = r.mutation.id THEN value ELSE f[id]]
  ELSE f

ItemsAfter(g, r) == AddedTo(g.items, r, "AddItem", r.mutation.verification)
RelationsAfter(g, r) == AddedTo(g.relations, r, "AddRelation", r.mutation.ends)

Candidate(g, r) ==
  SealedGraph(ItemsAfter(g, r), RelationsAfter(g, r), g.locked \/ r.mutation.op = "Lock",
              g.revision + 1, g.keys \union {r.key})

\* EvidenceMutationReceipt; mutation_digest binds the complete request, so a receipt
\* shows which graph its author had read.
ReceiptOf(g, r) ==
  [prior |-> g.root, new |-> Candidate(g, r).root, revision |-> g.revision + 1, request |-> r]

-----------------------------------------------------------------------------

\* create_evidence_graph
EvidenceInit ==
  /\ graph = SealedGraph(<<>>, <<>>, FALSE, 0, {})
  /\ request = [a \in Actors |-> NoRequest]
  /\ answer = [a \in Actors |-> "none"]
  /\ receipts = {}

\* Actor a reads the graph and builds a request from what it read.
Prepare(a, m, key) ==
  /\ request' = [request EXCEPT ![a] =
       [root |-> graph.root, revision |-> graph.revision, key |-> key, mutation |-> m]]
  /\ answer' = [answer EXCEPT ![a] = "none"]
  /\ UNCHANGED <<graph, receipts>>

Commit(a) ==
  /\ request[a] # NoRequest
  /\ MutationAnswer(graph, request[a]) = "committed"
  /\ graph' = Candidate(graph, request[a])
  /\ receipts' = receipts \union {ReceiptOf(graph, request[a])}
  /\ answer' = [answer EXCEPT ![a] = "committed"]
  /\ UNCHANGED request

\* A careless refusal that has already consumed the key.
Refuse_KeySpent(a) ==
  /\ request[a] # NoRequest
  /\ MutationAnswer(graph, request[a]) # "committed"
  /\ graph' = SealedGraph(graph.items, graph.relations, graph.locked, graph.revision,
                          graph.keys \union {request[a].key})
  /\ answer' = [answer EXCEPT ![a] = MutationAnswer(graph, request[a])]
  /\ UNCHANGED <<request, receipts>>

\* Every error leaves the graph as it was: the mutation is applied to a clone.
Refuse(a) ==
  /\ request[a] # NoRequest
  /\ MutationAnswer(graph, request[a]) # "committed"
  /\ answer' = [answer EXCEPT ![a] = MutationAnswer(graph, request[a])]
  /\ UNCHANGED <<graph, request, receipts>>

EvidenceNext ==
  \E a \in Actors :
    \/ \E m \in Mutations, key \in Keys : Prepare(a, m, key)
    \/ Commit(a)
    \/ Refuse(a)

EvidenceSpec == EvidenceInit /\ [][EvidenceNext]_evidenceVars

-----------------------------------------------------------------------------

\* The graph stays within its capacities (lines 8-10) and requests are well-formed.
TypeOK ==
  /\ graph.items \in Items
  /\ graph.relations \in Relations
  /\ graph.locked \in BOOLEAN
  /\ graph.revision \in Nat
  /\ graph.keys \subseteq Keys
  /\ Cardinality(DOMAIN graph.items) <= MaxItems
  /\ Cardinality(DOMAIN graph.relations) <= MaxRelations
  /\ Cardinality(graph.keys) <= MaxKeys
  /\ \A a \in Actors : request[a] # NoRequest =>
       request[a].mutation \in Mutations /\ request[a].key \in Keys

\* Graph g holds what mutation m puts into it.
StillHeld(g, m) ==
  CASE m.op = "AddItem" ->
         m.id \in DOMAIN g.items /\ g.items[m.id] = m.verification
    [] m.op = "AddRelation" ->
         m.id \in DOMAIN g.relations /\ g.relations[m.id] = m.ends
    [] OTHER -> g.locked

\* No update is lost.  Every mutation was committed to the very graph its author had read,
\* the receipts are one chain of roots from the first revision to the current one, and
\* the graph still holds what each of them added.  Two callers that build on the same
\* snapshot break it when both are committed, and so does a caller that stores what it
\* computed from a graph that has changed since (mutate_evidence lines 288-293).
NoUpdateLost ==
  /\ \A p \in receipts :
       /\ p.request.root = p.prior
       /\ p.revision \in 1..graph.revision
       /\ p.revision = graph.revision => p.new = graph.root
       /\ StillHeld(graph, p.request.mutation)
  /\ \A p, q \in receipts :
       /\ p.revision = q.revision => p = q
       /\ q.revision = p.revision + 1 => q.prior = p.new
  /\ \A n \in 1..graph.revision : \E p \in receipts : p.revision = n

\* An unlocked graph with verified evidence can be locked by an actor that reads it now,
\* with any fresh key, until the graph is filled to both of its limits: refused and
\* repeated requests cost no key, so nobody can use up the keys (line 304) without having
\* put in every item and every relation the graph has room for (lines 8-10).
LockableUntilFull ==
  /\ ~graph.locked
  /\ \E id \in DOMAIN graph.items : graph.items[id] = "Verified"
  /\ \/ Cardinality(DOMAIN graph.items) < MaxItems
     \/ Cardinality(DOMAIN graph.relations) < MaxRelations
  => \A key \in Keys \ graph.keys :
       MutationAnswer(graph,
         [root |-> graph.root, revision |-> graph.revision, key |-> key,
          mutation |-> [op |-> "Lock"]]) = "committed"

\* A refusal is final: a request once refused never takes effect when it is sent again,
\* whatever was committed in between, so its caller may discard it (lines 289-306).
RefusalIsFinal ==
  [][\A a \in Actors :
       answer[a] \notin {"none", "committed"} /\ request'[a] = request[a]
         => answer'[a] # "committed"]_evidenceVars

Log == INSTANCE SealableLog WITH
  Ids <- ItemIds, Statuses <- Verifications, Links <- RelationIds,
  entries <- {[id |-> i, status |-> graph.items[i]] : i \in DOMAIN graph.items},
  links <- {[id |-> i, from |-> graph.relations[i].from, to |-> graph.relations[i].to]
              : i \in DOMAIN graph.relations},
  sealed <- graph.locked

\* The graph implements the append-only, sealable log: no item or relation is ever
\* rewritten or dropped, relations stay within the graph, it locks only on verified
\* evidence, and no request, late or retried, changes it after that.
ImplementsSealableLog == Log!Spec
=============================================================================

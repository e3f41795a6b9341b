------------------------------ MODULE MCEvidence ------------------------------
(* Two callers race items, a relation and the lock on a young graph, or one   *)
(* caller drives the graph into each of its capacities.                       *)
EXTENDS EvidenceGraph, TLC

CONSTANT RaceRevisions   \* bound: revisions at which several callers build requests

Alone(a) == \A other \in Actors \ {a} : request[other] = NoRequest

MCNext ==
  \E a \in Actors :
    \/ /\ graph.revision < RaceRevisions \/ Alone(a)
       /\ \E m \in Mutations, key \in Keys : Prepare(a, m, key)
    \/ Commit(a)
    \/ Refuse(a)

MCSpec == EvidenceInit /\ [][MCNext]_evidenceVars

Symmetry == Permutations(Actors) \union Permutations(Keys) \union Permutations(ItemIds)
=============================================================================

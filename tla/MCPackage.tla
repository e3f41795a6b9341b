------------------------------ MODULE MCPackage ------------------------------
(***************************************************************************)
(* Every acyclic graph of four packages with its pins in every order, one  *)
(* graph with each rule of manifests and sources broken, and damaged       *)
(* stores.                                                                 *)
(***************************************************************************)
EXTENDS PackageResolver

\* Package n pins packages below n only: a digest cannot be part of what it is
\* the digest of.
Orders(S) == UNION {{f \in [1..n -> S] : \A i, j \in 1..n : i # j => f[i] # f[j]} :
                      n \in 0 .. Cardinality(S)}
Graphs == {<<<<>>, <<>>, a, b, c>> : a \in Orders({2}), b \in Orders({2, 3}), c \in Orders({2, 3, 4})}

Mod(module, source) == [module |-> module, path |-> module, source |-> source]
Package(d, pins) ==
  [schema |-> "joan.package-manifest.v0", coordinate |-> d, root |-> 1,
   modules |-> IF d = 3 THEN <<Mod(1, "s"), Mod(2, "t")>> ELSE <<Mod(1, "s")>>,
   dependencies |-> [n \in DOMAIN pins |-> [alias |-> n, digest |-> pins[n]]]]
World(graph) ==
  [manifests |-> [d \in Manifests |-> Package(d, graph[d])],
   sources |-> [s \in Sources |-> IF s = "s" THEN [module |-> 1, size |-> 1, parses |-> TRUE]
                                  ELSE [module |-> 2, size |-> 2, parses |-> TRUE]]]

Diamond == World(<<<<>>, <<>>, <<2>>, <<2>>, <<4, 3>>>>)
D(n, field, value) == [Diamond EXCEPT !.manifests[n][field] = value]
Broken ==
  {D(n, "coordinate", c) : n \in {2, 3, 5}, c \in {0, 4}}
    \union {D(n, "schema", "joan.package-manifest.v1") : n \in {2, 5}}
    \union {D(4, "root", 2)}
    \union {D(4, "modules", modules) :
              modules \in {<<>>, <<Mod(2, "t"), Mod(1, "s")>>, <<Mod(1, "t")>>,
                           <<Mod(1, "s"), [Mod(2, "t") EXCEPT !.path = 1]>>,
                           <<Mod(1, "s"), Mod(2, "s")>>, <<Mod(1, "s"), Mod(2, "t")>>,
                           <<Mod(1, "s"), Mod(2, "t"), Mod(3, "t")>>}}
    \union {D(4, "dependencies", pins) :
              pins \in {<<[alias |-> 2, digest |-> 2], [alias |-> 1, digest |-> 3]>>,
                        <<[alias |-> 1, digest |-> 2], [alias |-> 2, digest |-> 2]>>}}
    \union {[Diamond EXCEPT !.manifests[4].modules = <<Mod(2, "s")>>, !.manifests[4].root = 2]}
    \union {[Diamond EXCEPT !.sources["t"].size = 3], [Diamond EXCEPT !.sources["t"].parses = FALSE],
            World(<<<<>>, <<>>, <<2>>, <<2>>, <<4, 3, 1>>>>),
            World(<<<<>>, <<>>, <<>>, <<>>, <<4, 3, 2, 1>>>>)}

MCStore == [root |-> "directory", manifests |-> [d \in Manifests |-> "exact"],
            sources |-> [s \in Sources |-> "exact"]]
Damaged ==
  {[MCStore EXCEPT !.manifests[2] = o] : o \in {"absent", "large", "malformed", "other"}}
    \union {[MCStore EXCEPT !.sources["t"] = o] : o \in {"absent", "large", "malformed", "other"}}
    \union {[MCStore EXCEPT !.root = "link"]}

MCStarts ==
  {[pinned |-> World(g), store |-> MCStore] : g \in Graphs}
    \union {[pinned |-> w, store |-> MCStore] : w \in Broken}
    \union {[pinned |-> Diamond, store |-> s] : s \in Damaged}
=============================================================================

-------------------------- MODULE FiniteSumTheorems --------------------------
(***************************************************************************)
(* Facts about sums over finite sets, which the totals of the ledger and   *)
(* of the package resolver are.  They are shown by induction over finite   *)
(* sets and natural numbers, in the form that a set of exceptions would    *)
(* have a smallest member.                                                 *)
(***************************************************************************)
EXTENDS Integers, Functions, FiniteSets, FiniteSetTheorems, WellFoundedInduction,
        TLAPS

\* A nonempty set of numbers has a least one.
LEMMA LeastNumber ==
  ASSUME NEW T, T \subseteq Nat, T # {}
  PROVE  \E i \in T : \A j \in T : i <= j
<1>1. PICK i \in T : \A j \in T : <<j, i>> \notin OpToRel(<, Nat)
  BY NatLessThanWellFounded, WFMin
<1>2. ASSUME NEW j \in Nat, NEW k \in Nat, j < k
      PROVE  <<j, k>> \in OpToRel(<, Nat)
  BY <1>2, Zenon DEF OpToRel
<1>3. \A j \in T : ~(j < i)
  BY <1>1, <1>2
<1> QED
  BY <1>3

\* A nonempty set of subsets of a finite set has a member that contains no other.
LEMMA SmallestSubset ==
  ASSUME NEW S, IsFiniteSet(S), NEW T, T \subseteq SUBSET S, T # {}
  PROVE  \E x \in T : \A y \in T : y \subseteq x => y = x
<1>1. IsWellFoundedOn(StrictSubsetOrdering(S), SUBSET S)
  BY FS_StrictSubsetOrderingWellFounded, FS_FiniteSubsetsOfFinite
<1>2. \E x \in T : \A y \in T : <<y, x>> \notin StrictSubsetOrdering(S)
  BY <1>1, WFMin
<1> QED
  BY <1>2 DEF StrictSubsetOrdering

\* SumFunctionOnSet chooses a function that satisfies a recursive equation.  A sum is what
\* the equation yields once such a function is known to exist.

Pick(s) == CHOOSE x \in s : TRUE

Sums(f, S, g) ==
  g = [s \in SUBSET S |-> IF s = {} THEN 0 ELSE f[Pick(s)] + g[s \ {Pick(s)}]]

LEMMA SumIsRecursive ==
  ASSUME NEW f, NEW S
  PROVE  SumFunctionOnSet(f, S) = (CHOOSE g : Sums(f, S, g))[S]
BY DEF SumFunctionOnSet, FoldFunctionOnSet, MapThenFoldSet, Sums, Pick

LEMMA PickIsMember ==
  ASSUME NEW S, S # {}
  PROVE  Pick(S) \in S
BY DEF Pick

LEMMA SumsUnfold ==
  ASSUME NEW f, NEW A, NEW g, Sums(f, A, g), NEW S, S \subseteq A
  PROVE  g[S] = IF S = {} THEN 0 ELSE f[Pick(S)] + g[S \ {Pick(S)}]
BY DEF Sums

LEMMA SumsAgree ==
  ASSUME NEW f, NEW S, IsFiniteSet(S), NEW A, NEW B, S \subseteq A, S \subseteq B,
         NEW g, Sums(f, A, g), NEW h, Sums(f, B, h)
  PROVE  g[S] = h[S]
<1> DEFINE T == {s \in SUBSET S : g[s] # h[s]}
<1>1. ASSUME T # {} PROVE FALSE
  <2>1. PICK s \in T : \A t \in T : t \subseteq s => t = s
    <3> HIDE DEF T
    <3>1. T \subseteq SUBSET S
      BY DEF T
    <3> QED
      BY <1>1, <3>1, SmallestSubset
  <2>2. s \subseteq S /\ g[s] # h[s]
    OBVIOUS
  <2>3. s # {}
    BY <2>2 DEF Sums
  <2> DEFINE t == s \ {Pick(s)}
  <2>4. t \subseteq s /\ t # s
    BY <2>3, PickIsMember
  <2>5. g[t] = h[t]
    BY <2>1, <2>2, <2>4
  <2>6. g[s] = f[Pick(s)] + g[t] /\ h[s] = f[Pick(s)] + h[t]
    BY <2>2, <2>3 DEF Sums
  <2> QED
    BY <2>2, <2>5, <2>6
<1> QED
  BY <1>1

LEMMA SumsAgreeBelow ==
  ASSUME NEW f, NEW S, NEW g, Sums(f, S, g),
         NEW s, s \subseteq S, IsFiniteSet(s), NEW h, Sums(f, s, h)
  PROVE  g[s] = h[s]
<1>1. s \subseteq s
  OBVIOUS
<1> QED
  BY <1>1, SumsAgree

LEMMA SumsExist ==
  ASSUME NEW f, NEW S, IsFiniteSet(S)
  PROVE  \E g : Sums(f, S, g)
<1> DEFINE T == {s \in SUBSET S : ~\E g : Sums(f, s, g)}
<1>1. ASSUME T # {} PROVE FALSE
  <2>1. PICK X \in T : \A t \in T : t \subseteq X => t = X
    <3> HIDE DEF T
    <3>1. T \subseteq SUBSET S
      BY DEF T
    <3> QED
      BY <1>1, <3>1, SmallestSubset
  <2>2. X \subseteq S /\ ~\E g : Sums(f, X, g)
    OBVIOUS
  <2> DEFINE G(t) == CHOOSE g : Sums(f, t, g)
             h == [t \in SUBSET X |-> IF t = {} THEN 0
                                      ELSE f[Pick(t)] + G(t \ {Pick(t)})[t \ {Pick(t)}]]
  <2>3. ASSUME NEW t, t \subseteq X, t # X
        PROVE  Sums(f, t, G(t))
    <3>1. \E g : Sums(f, t, g)
      BY <2>1, <2>2, <2>3
    <3> QED
      BY <3>1
  <2>4. ASSUME NEW t, t \subseteq X, t # X
        PROVE  h[t] = G(t)[t]
    <3> HIDE DEF G
    <3>1. CASE t = {}
      BY <2>3, <3>1 DEF Sums
    <3>2. CASE t # {}
      <4> DEFINE u == t \ {Pick(t)}
      <4>1. u \subseteq t /\ u \subseteq X /\ u # X
        BY <2>4, <3>2, PickIsMember
      <4>2. G(t)[t] = f[Pick(t)] + G(t)[u]
        BY <2>3, <2>4, <3>2, SumsUnfold
      <4>3. IsFiniteSet(u)
        BY <2>2, <4>1, FS_Subset
      <4>4. G(t)[u] = G(u)[u]
        BY <2>3, <2>4, <4>1, <4>3, SumsAgreeBelow
      <4>5. h[t] = f[Pick(t)] + G(u)[u]
        BY <2>4, <3>2
      <4> QED
        BY <4>2, <4>4, <4>5
    <3> QED
      BY <3>1, <3>2
  <2>5. Sums(f, X, h)
    <3> HIDE DEF G
    <3>1. ASSUME NEW t \in SUBSET X, t # {}
          PROVE  G(t \ {Pick(t)})[t \ {Pick(t)}] = h[t \ {Pick(t)}]
      <4>1. t \ {Pick(t)} \subseteq X /\ t \ {Pick(t)} # X
        BY <3>1, PickIsMember
      <4> HIDE DEF h
      <4> QED
        BY <2>4, <4>1
    <3>2. h = [t \in SUBSET X |-> IF t = {} THEN 0 ELSE f[Pick(t)] + h[t \ {Pick(t)}]]
      BY <3>1
    <3> QED
      BY <3>2 DEF Sums
  <2> QED
    BY <2>2, <2>5
<1> QED
  BY <1>1

\* The equation of SumFunctionOnSet.
LEMMA SumUnfolds ==
  ASSUME NEW f, NEW S, IsFiniteSet(S)
  PROVE  SumFunctionOnSet(f, S) =
           IF S = {} THEN 0 ELSE f[Pick(S)] + SumFunctionOnSet(f, S \ {Pick(S)})
<1> DEFINE G(t) == CHOOSE g : Sums(f, t, g)
           t == S \ {Pick(S)}
<1>1. IsFiniteSet(t) /\ t \subseteq S
  BY FS_Subset
<1>2. PICK g : g = G(S) /\ Sums(f, S, g)
  <2>1. \E g : Sums(f, S, g)
    BY SumsExist
  <2> QED
    BY <2>1
<1>3. PICK h : h = G(t) /\ Sums(f, t, h)
  <2> HIDE DEF t
  <2>1. \E k : Sums(f, t, k)
    BY <1>1, SumsExist
  <2> QED
    BY <2>1
<1>4. SumFunctionOnSet(f, S) = g[S] /\ SumFunctionOnSet(f, t) = h[t]
  BY <1>2, <1>3, SumIsRecursive
<1>5. g[S] = IF S = {} THEN 0 ELSE f[Pick(S)] + g[t]
  BY <1>2, SumsUnfold
<1>6. g[t] = h[t]
  <2> HIDE DEF t, G
  <2> QED
    BY <1>1, <1>2, <1>3, SumsAgreeBelow
<1> QED
  BY <1>4, <1>5, <1>6

\* Sums of natural numbers are natural numbers.
LEMMA SumType ==
  ASSUME NEW D, NEW f \in [D -> Nat], NEW S, S \subseteq D, IsFiniteSet(S)
  PROVE  SumFunctionOnSet(f, S) \in Nat
<1> DEFINE T == {s \in SUBSET S : SumFunctionOnSet(f, s) \notin Nat}
<1>1. ASSUME T # {} PROVE FALSE
  <2>1. PICK X \in T : \A t \in T : t \subseteq X => t = X
    <3> HIDE DEF T
    <3>1. T \subseteq SUBSET S
      BY DEF T
    <3> QED
      BY <1>1, <3>1, SmallestSubset
  <2>2. X \subseteq S /\ SumFunctionOnSet(f, X) \notin Nat
    OBVIOUS
  <2>3. IsFiniteSet(X)
    BY <2>2, FS_Subset
  <2>4. SumFunctionOnSet(f, X) =
          IF X = {} THEN 0 ELSE f[Pick(X)] + SumFunctionOnSet(f, X \ {Pick(X)})
    BY <2>3, SumUnfolds
  <2>5. X # {}
    BY <2>2, <2>4
  <2>6. Pick(X) \in X
    BY <2>5, PickIsMember
  <2>7. SumFunctionOnSet(f, X \ {Pick(X)}) \in Nat
    BY <2>1, <2>2, <2>6
  <2> QED
    BY <2>2, <2>4, <2>5, <2>6, <2>7
<1> QED
  BY <1>1

\* Functions that agree on a set have one sum over it.
LEMMA SumAgrees ==
  ASSUME NEW f, NEW g, NEW S, IsFiniteSet(S), \A x \in S : f[x] = g[x]
  PROVE  SumFunctionOnSet(f, S) = SumFunctionOnSet(g, S)
<1> DEFINE T == {s \in SUBSET S : SumFunctionOnSet(f, s) # SumFunctionOnSet(g, s)}
<1>1. ASSUME T # {} PROVE FALSE
  <2>1. PICK X \in T : \A t \in T : t \subseteq X => t = X
    <3> HIDE DEF T
    <3>1. T \subseteq SUBSET S
      BY DEF T
    <3> QED
      BY <1>1, <3>1, SmallestSubset
  <2>2. X \subseteq S /\ SumFunctionOnSet(f, X) # SumFunctionOnSet(g, X)
    OBVIOUS
  <2>3. IsFiniteSet(X)
    BY <2>2, FS_Subset
  <2> DEFINE t == X \ {Pick(X)}
  <2>4. /\ SumFunctionOnSet(f, X) = IF X = {} THEN 0 ELSE f[Pick(X)] + SumFunctionOnSet(f, t)
        /\ SumFunctionOnSet(g, X) = IF X = {} THEN 0 ELSE g[Pick(X)] + SumFunctionOnSet(g, t)
    BY <2>3, SumUnfolds
  <2>5. X # {}
    BY <2>2, <2>4
  <2>6. Pick(X) \in X
    BY <2>5, PickIsMember
  <2>7. SumFunctionOnSet(f, t) = SumFunctionOnSet(g, t)
    BY <2>1, <2>2, <2>6
  <2> QED
    BY <2>2, <2>4, <2>5, <2>6, <2>7
<1> QED
  BY <1>1

\* A sum may be taken apart at any element, not only at the one its equation picks.
LEMMA SumRemove ==
  ASSUME NEW D, NEW f \in [D -> Nat], NEW S, S \subseteq D, IsFiniteSet(S), NEW a \in S
  PROVE  SumFunctionOnSet(f, S) = f[a] + SumFunctionOnSet(f, S \ {a})
<1> DEFINE Sum(s) == SumFunctionOnSet(f, s)
           T == {s \in SUBSET S : \E x \in s : Sum(s) # f[x] + Sum(s \ {x})}
<1>1. ASSUME T # {} PROVE FALSE
  <2>1. PICK X \in T : \A t \in T : t \subseteq X => t = X
    <3> HIDE DEF T
    <3>1. T \subseteq SUBSET S
      BY DEF T
    <3> QED
      BY <1>1, <3>1, SmallestSubset
  <2>2. PICK x \in X : Sum(X) # f[x] + Sum(X \ {x})
    OBVIOUS
  <2>3. X \subseteq S
    OBVIOUS
  <2>4. \A s \in SUBSET X : IsFiniteSet(s) /\ Sum(s) \in Nat
    BY <2>3, FS_Subset, SumType
  <2> DEFINE c == Pick(X)
  <2>5. c \in X
    BY <2>2, PickIsMember
  <2>6. Sum(X) = f[c] + Sum(X \ {c})
    BY <2>2, <2>4, SumUnfolds
  <2>7. \A s \in SUBSET X : s # X => \A y \in s : Sum(s) = f[y] + Sum(s \ {y})
    BY <2>1, <2>3
  <2> HIDE DEF Sum, T, c
  <2>8. x # c
    BY <2>2, <2>6
  <2>9. Sum(X \ {c}) = f[x] + Sum((X \ {c}) \ {x})
    BY <2>2, <2>5, <2>7, <2>8
  <2>10. Sum(X \ {x}) = f[c] + Sum((X \ {x}) \ {c})
    BY <2>2, <2>5, <2>7, <2>8
  <2>11. (X \ {x}) \ {c} = (X \ {c}) \ {x}
    OBVIOUS
  <2>12. Sum((X \ {c}) \ {x}) \in Nat /\ f[c] \in Nat /\ f[x] \in Nat
    BY <2>2, <2>3, <2>4, <2>5
  <2>13. \A k, m, n \in Nat : k + (m + n) = m + (k + n)
    OBVIOUS
  <2>14. Sum(X) = f[c] + (f[x] + Sum((X \ {c}) \ {x}))
    BY <2>6, <2>9
  <2>15. f[x] + Sum(X \ {x}) = f[x] + (f[c] + Sum((X \ {c}) \ {x}))
    BY <2>10, <2>11
  <2> QED
    BY <2>2, <2>12, <2>13, <2>14, <2>15
<1> QED
  BY <1>1

\* A sum over a set grows by what a new element adds.
LEMMA SumAdd ==
  ASSUME NEW D, NEW f \in [D -> Nat], NEW S, S \subseteq D, IsFiniteSet(S),
         NEW a \in D, a \notin S
  PROVE  SumFunctionOnSet(f, S \union {a}) = SumFunctionOnSet(f, S) + f[a]
<1> DEFINE T == S \union {a}
<1>1. T \subseteq D /\ IsFiniteSet(T) /\ a \in T /\ T \ {a} = S
  BY FS_AddElement
<1> HIDE DEF T
<1>2. SumFunctionOnSet(f, T) = f[a] + SumFunctionOnSet(f, S)
  BY <1>1, SumRemove
<1>3. SumFunctionOnSet(f, S) \in Nat /\ f[a] \in Nat
  BY SumType
<1> QED
  BY <1>2, <1>3 DEF T

\* A part sums to no more than the whole.
LEMMA SumMonotone ==
  ASSUME NEW D, NEW f \in [D -> Nat], NEW T, T \subseteq D, IsFiniteSet(T),
         NEW S, S \subseteq T
  PROVE  SumFunctionOnSet(f, S) <= SumFunctionOnSet(f, T)
<1> DEFINE Sum(s) == SumFunctionOnSet(f, s)
           E == {s \in SUBSET T : S \subseteq s /\ ~(Sum(S) <= Sum(s))}
<1>1. \A s \in SUBSET T : IsFiniteSet(s) /\ s \subseteq D /\ Sum(s) \in Nat
  BY FS_Subset, SumType
<1>2. ASSUME E # {} PROVE FALSE
  <2>1. PICK X \in E : \A t \in E : t \subseteq X => t = X
    <3> HIDE DEF E
    <3>1. E \subseteq SUBSET T
      BY DEF E
    <3> QED
      BY <1>2, <3>1, SmallestSubset
  <2>2. X \subseteq T /\ S \subseteq X /\ ~(Sum(S) <= Sum(X))
    OBVIOUS
  <2>3. PICK x \in X : x \notin S
    <3>1. Sum(S) \in Nat
      BY <1>1
    <3> HIDE DEF Sum
    <3> QED
      BY <2>2, <3>1
  <2>4. X \ {x} \in SUBSET T /\ S \subseteq X \ {x}
    BY <2>2, <2>3
  <2>5. Sum(S) <= Sum(X \ {x})
    BY <2>1, <2>4
  <2>6. Sum(X) = f[x] + Sum(X \ {x})
    BY <1>1, <2>2, SumRemove
  <2>7. Sum(S) \in Nat /\ Sum(X \ {x}) \in Nat /\ f[x] \in Nat
    BY <1>1, <2>2, <2>4
  <2> HIDE DEF Sum, E
  <2> QED
    BY <2>2, <2>5, <2>6, <2>7
<1>3. T \notin E
  BY <1>2
<1> QED
  BY <1>3

-----------------------------------------------------------------------------

\* The same for the sum of a whole function.
LEMMA SumIsNat ==
  ASSUME NEW S, IsFiniteSet(S), NEW f \in [S -> Nat]
  PROVE  SumFunction(f) \in Nat
<1>1. DOMAIN f = S /\ S \subseteq S
  OBVIOUS
<1> QED
  BY <1>1, SumType DEF SumFunction

\* A sum changes by what one more argument adds, or by the change at one argument.
LEMMA SumExtended ==
  ASSUME NEW S, IsFiniteSet(S), NEW g \in [S -> Nat], NEW a \in S,
         NEW T, T = S \ {a}, NEW f \in [T -> Nat], \A x \in T : g[x] = f[x]
  PROVE  SumFunction(g) = SumFunction(f) + g[a]
<1>1. DOMAIN f = T /\ DOMAIN g = S /\ T \subseteq S /\ S \subseteq S /\ T \subseteq T
  OBVIOUS
<1>2. g[a] \in Nat /\ IsFiniteSet(T)
  BY FS_Subset
<1>3. SumFunctionOnSet(g, S) = g[a] + SumFunctionOnSet(g, T)
  BY <1>1, SumRemove
<1>4. SumFunctionOnSet(g, T) = SumFunctionOnSet(f, T)
  BY <1>2, SumAgrees
<1>5. SumFunctionOnSet(f, T) \in Nat
  BY <1>1, <1>2, SumType
<1> QED
  BY <1>1, <1>2, <1>3, <1>4, <1>5 DEF SumFunction

LEMMA SumUpdated ==
  ASSUME NEW S, IsFiniteSet(S), NEW f \in [S -> Nat], NEW a \in S,
         NEW g \in [S -> Nat], \A x \in S \ {a} : g[x] = f[x]
  PROVE  SumFunction(g) + f[a] = SumFunction(f) + g[a]
<1> DEFINE T == S \ {a}
<1>1. /\ DOMAIN f = S /\ DOMAIN g = S /\ S \subseteq S /\ T \subseteq S
      /\ f[a] \in Nat /\ g[a] \in Nat /\ \A x \in T : g[x] = f[x]
  OBVIOUS
<1>2. IsFiniteSet(T)
  BY <1>1, FS_Subset
<1>3. /\ SumFunctionOnSet(g, S) = g[a] + SumFunctionOnSet(g, T)
      /\ SumFunctionOnSet(f, S) = f[a] + SumFunctionOnSet(f, T)
  BY <1>1, SumRemove
<1> HIDE DEF T
<1>4. SumFunctionOnSet(g, T) = SumFunctionOnSet(f, T)
  BY <1>1, <1>2, SumAgrees
<1>5. SumFunctionOnSet(f, T) \in Nat
  BY <1>1, <1>2, SumType
<1> QED
  BY <1>1, <1>3, <1>4, <1>5 DEF SumFunction

LEMMA SumBounds ==
  ASSUME NEW S, IsFiniteSet(S), NEW f \in [S -> Nat], NEW a \in S
  PROVE  f[a] <= SumFunction(f)
<1> DEFINE T == S \ {a}
<1>1. /\ DOMAIN f = S /\ S \subseteq S /\ T \subseteq S /\ f[a] \in Nat
  OBVIOUS
<1>2. SumFunctionOnSet(f, S) = f[a] + SumFunctionOnSet(f, T)
  BY <1>1, SumRemove
<1>3. SumFunctionOnSet(f, T) \in Nat
  BY <1>1, FS_Subset, SumType
<1> HIDE DEF T
<1> QED
  BY <1>1, <1>2, <1>3 DEF SumFunction

\* An argument that joins a finite set adds its value to the sum.
LEMMA SumJoined ==
  ASSUME NEW S, IsFiniteSet(S), NEW f \in [S -> Nat], NEW a, a \notin S,
         NEW T, T = S \union {a}, NEW g \in [T -> Nat],
         \A x \in S : g[x] = f[x], NEW n \in Nat, g[a] = n
  PROVE  SumFunction(g) = SumFunction(f) + n
<1>1. IsFiniteSet(T) /\ a \in T /\ S = T \ {a}
  BY FS_AddElement
<1> QED
  BY <1>1, SumExtended

LEMMA EmptySum == SumFunction(<<>>) = 0
<1>1. DOMAIN <<>> = {} /\ IsFiniteSet({})
  BY FS_EmptySet
<1> QED
  BY <1>1, SumUnfolds DEF SumFunction
=============================================================================

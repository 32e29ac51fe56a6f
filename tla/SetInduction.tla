---------------------------- MODULE SetInduction ----------------------------
(***************************************************************************)
(* Induction without an operator for a parameter: the set of the numbers, or *)
(* of the subsets, for which a formula holds takes the formula's place.      *)
(* What is proved here is that such a set leaves nothing out, and that a     *)
(* function defined by recursion over Nat is the function its equation       *)
(* describes; and, at the end, facts about division. The proof modules of     *)
(* the components use them.                                                  *)
(***************************************************************************)
EXTENDS Integers, Functions, Folds, FiniteSetTheorems, TLAPS

(* Induction over the natural numbers, for a set of them: the least number   *)
(* left out would have an interval with no smaller one below it.             *)
LEMMA NatSetInduction ==
  ASSUME NEW Z, 0 \in Z, \A n \in Nat : n \in Z => n + 1 \in Z
  PROVE  Nat \subseteq Z
<1> SUFFICES ASSUME NEW n \in Nat, n \notin Z
             PROVE  FALSE
  OBVIOUS
<1> DEFINE Finite == FiniteSubsetsOf(Nat)
           Less == StrictSubsetOrdering(Nat)
           Missed == {u \in Finite : \E k \in Nat \ Z : u = 0 .. k}
<1>1. \A k \in Nat : 0 .. k \in Finite
  BY FS_Interval, 0 \in Int DEF FiniteSubsetsOf
<1>2. Missed \subseteq Finite /\ Missed # {}
  BY <1>1
<1>3. IsWellFoundedOn(Less, Finite)
  BY FS_StrictSubsetOrderingWellFounded
<1> HIDE DEF Finite, Less
<1>4. PICK u \in Missed : \A v \in Missed : << v, u >> \notin Less
  BY <1>2, <1>3, WFMin
<1>5. PICK k \in Nat \ Z : u = 0 .. k
  BY <1>4
<1>6. k # 0 /\ k - 1 \in Nat
  BY <1>5
<1>7. k - 1 \notin Z
  <2>1. k - 1 \in Z => (k - 1) + 1 \in Z
    BY <1>6
  <2>2. (k - 1) + 1 = k
    BY <1>5
  <2> QED
    BY <1>5, <2>1, <2>2
<1>8. 0 .. k - 1 \in Missed
  BY <1>1, <1>6, <1>7
<1>9. << 0 .. k - 1, u >> \in Less
  <2>1. 0 .. k - 1 \subseteq u /\ u \subseteq Nat
    BY <1>5
  <2>2. k \in u /\ k \notin 0 .. k - 1
    BY <1>5
  <2> QED
    BY <2>1, <2>2 DEF Less, StrictSubsetOrdering
<1> QED
  BY <1>4, <1>8, <1>9

(* Induction over the subsets of a finite set, for a set of them.            *)
LEMMA FiniteSetInduction ==
  ASSUME NEW S, IsFiniteSet(S), NEW Z, {} \in Z,
         \A T \in SUBSET S : \A x \in S \ T : T \in Z => T \cup {x} \in Z
  PROVE  S \in Z
<1> SUFFICES ASSUME S \notin Z
             PROVE  FALSE
  OBVIOUS
<1> DEFINE Less == StrictSubsetOrdering(S)
           Missed == {T \in SUBSET S : T \notin Z}
<1>1. IsWellFoundedOn(Less, SUBSET S)
  BY FS_StrictSubsetOrderingWellFounded, FS_FiniteSubsetsOfFinite
<1>2. Missed \subseteq SUBSET S /\ Missed # {}
  OBVIOUS
<1> HIDE DEF Less
<1>3. PICK T \in Missed : \A U \in Missed : << U, T >> \notin Less
  BY <1>1, <1>2, WFMin
<1>4. PICK x \in T : TRUE
  BY <1>3
<1> DEFINE U == T \ {x}
<1>5. U \in SUBSET S /\ x \in S \ U /\ U \cup {x} = T
  BY <1>3, <1>4
<1>6. U \notin Z
  BY <1>3, <1>5
<1>7. << U, T >> \in Less
  BY <1>3, <1>4, <1>5 DEF Less, StrictSubsetOrdering
<1> QED
  BY <1>3, <1>5, <1>6, <1>7

(* g is the part of f's iteration from a that has n steps.                   *)
Partial(f, a, n, g) == g = [i \in 0 .. n |-> IF i = 0 THEN a ELSE f[g[i - 1]]]

(* g follows f from a for n steps.                                           *)
Follows(f, a, n, g) == g[0] = a /\ \A i \in 1 .. n : g[i] = f[g[i - 1]]
Agree(n, g, h) == \A i \in 0 .. n : g[i] = h[i]

LEMMA PartialSteps ==
  ASSUME NEW f, NEW a, NEW n \in Nat, NEW g, Partial(f, a, n, g)
  PROVE  Follows(f, a, n, g)
BY 0 \in 0 .. n, \A i \in 1 .. n : i \in 0 .. n /\ i # 0 DEF Partial, Follows

(* Two parts agree where both are defined.                                   *)
LEMMA PartialsAgree ==
  ASSUME NEW f, NEW a, NEW n \in Nat, NEW g, Partial(f, a, n, g),
         NEW m \in Nat, NEW h, Partial(f, a, m, h), n <= m
  PROVE  Agree(n, g, h)
<1> DEFINE Same == {i \in Nat : i <= n => g[i] = h[i]}
<1>0. Follows(f, a, n, g) /\ Follows(f, a, m, h)
  BY PartialSteps
<1>1. 0 \in Same
  BY <1>0 DEF Follows
<1>2. ASSUME NEW i \in Nat, i \in Same
      PROVE  i + 1 \in Same
  <2> SUFFICES ASSUME i + 1 <= n
               PROVE  g[i + 1] = h[i + 1]
    OBVIOUS
  <2>1. g[i] = h[i]
    BY <1>2
  <2>2. i + 1 \in 1 .. n /\ i + 1 \in 1 .. m /\ (i + 1) - 1 = i
    OBVIOUS
  <2>3. g[i + 1] = f[g[i]] /\ h[i + 1] = f[h[i]]
    BY <1>0, <2>2 DEF Follows
  <2> QED
    BY <2>1, <2>3
<1>3. Nat \subseteq Same
  <2> HIDE DEF Same
  <2> QED
    BY <1>1, <1>2, NatSetInduction
<1> QED
  BY <1>3 DEF Agree

LEMMA PartialExists ==
  ASSUME NEW f, NEW a
  PROVE  \A n \in Nat : \E g : Partial(f, a, n, g)
<1> DEFINE Some == {n \in Nat : \E g : Partial(f, a, n, g)}
<1>1. 0 \in Some
  <2>1. Partial(f, a, 0, [i \in 0 .. 0 |-> a])
    BY DEF Partial
  <2> QED
    BY <2>1
<1>2. ASSUME NEW n \in Nat, n \in Some
      PROVE  n + 1 \in Some
  <2>1. PICK g : Partial(f, a, n, g)
    BY <1>2
  <2>0. Follows(f, a, n, g)
    BY <2>1, PartialSteps
  <2> DEFINE h == [i \in 0 .. n + 1 |-> IF i = n + 1 THEN f[g[n]] ELSE g[i]]
  <2>2. ASSUME NEW i \in 0 .. n + 1
        PROVE  h[i] = IF i = 0 THEN a ELSE f[h[i - 1]]
    <3>1. CASE i = n + 1
      <4>1. h[i] = f[g[n]] /\ i # 0 /\ i - 1 = n
        BY <3>1
      <4>2. h[n] = g[n]
        BY n \in 0 .. n + 1, n # n + 1
      <4> QED
        BY <4>1, <4>2
    <3>2. CASE i # n + 1
      <4>1. i \in 0 .. n /\ h[i] = g[i]
        BY <3>2
      <4>2. i # 0 => i \in 1 .. n /\ i - 1 \in 0 .. n + 1 /\ i - 1 # n + 1
        BY <4>1
      <4>3. i # 0 => g[i] = f[g[i - 1]] /\ h[i - 1] = g[i - 1]
        BY <2>0, <4>2 DEF Follows
      <4>4. i = 0 => g[i] = a
        BY <2>0 DEF Follows
      <4> QED
        BY <4>1, <4>3, <4>4
    <3> QED
      BY <3>1, <3>2
  <2>3. h = [i \in 0 .. n + 1 |-> h[i]]
    OBVIOUS
  <2> HIDE DEF h
  <2>4. [i \in 0 .. n + 1 |-> h[i]]
          = [i \in 0 .. n + 1 |-> IF i = 0 THEN a ELSE f[h[i - 1]]]
    BY <2>2
  <2>5. Partial(f, a, n + 1, h)
    BY <2>3, <2>4 DEF Partial
  <2> QED
    BY <2>5
<1>3. Nat \subseteq Some
  <2> HIDE DEF Some
  <2> QED
    BY <1>1, <1>2, NatSetInduction
<1> QED
  BY <1>3

(* A function defined by following f from a exists, so that the recursive    *)
(* definition of it is the function that satisfies its own equation.         *)
Iteration(f, a, g) == g = [n \in Nat |-> IF n = 0 THEN a ELSE f[g[n - 1]]]

LEMMA IterationExists ==
  ASSUME NEW f, NEW a
  PROVE  \E g : Iteration(f, a, g)
<1> DEFINE G == [n \in Nat |-> CHOOSE g : Partial(f, a, n, g)]
<1>1. \A n \in Nat : Partial(f, a, n, G[n])
  BY PartialExists
<1> HIDE DEF G
<1>0. \A n \in Nat : Follows(f, a, n, G[n])
  BY <1>1, PartialSteps
<1> DEFINE g == [n \in Nat |-> G[n][n]]
<1>2. ASSUME NEW n \in Nat
      PROVE  g[n] = IF n = 0 THEN a ELSE f[g[n - 1]]
  <2>1. CASE n = 0
    <3>1. G[0][0] = a
      BY <1>0 DEF Follows
    <3> QED
      BY <2>1, <3>1
  <2>2. CASE n # 0
    <3>1. n - 1 \in Nat /\ n \in 1 .. n /\ n - 1 <= n
      BY <2>2
    <3>2. G[n][n] = f[G[n][n - 1]]
      BY <1>0, <3>1 DEF Follows
    <3>3. Agree(n - 1, G[n - 1], G[n])
      BY <1>1, <3>1, PartialsAgree
    <3>4. G[n - 1][n - 1] = G[n][n - 1]
      BY <3>1, <3>3 DEF Agree
    <3>5. g[n] = G[n][n] /\ g[n - 1] = G[n - 1][n - 1]
      BY <3>1
    <3> QED
      BY <2>2, <3>2, <3>4, <3>5
  <2> QED
    BY <2>1, <2>2
<1>3. g = [n \in Nat |-> g[n]]
  OBVIOUS
<1> HIDE DEF g
<1>4. [n \in Nat |-> g[n]] = [n \in Nat |-> IF n = 0 THEN a ELSE f[g[n - 1]]]
  BY <1>2
<1>5. Iteration(f, a, g)
  BY <1>3, <1>4 DEF Iteration
<1> QED
  BY <1>5

----------------------------------------------------------------------------
(* Sums over finite sets, in whatever order their elements are taken.         *)

(* Induction over the subsets of a finite set, smaller ones first.           *)
LEMMA SubsetInduction ==
  ASSUME NEW S, IsFiniteSet(S), NEW Z,
         \A T \in SUBSET S : (\A U \in SUBSET T : U # T => U \in Z) => T \in Z
  PROVE  SUBSET S \subseteq Z
<1> SUFFICES ASSUME NEW V \in SUBSET S, V \notin Z
             PROVE  FALSE
  OBVIOUS
<1> DEFINE Less == StrictSubsetOrdering(S)
           Missed == {T \in SUBSET S : T \notin Z}
<1>1. IsWellFoundedOn(Less, SUBSET S)
  <2>1. FiniteSubsetsOf(S) = SUBSET S
    BY FS_FiniteSubsetsOfFinite
  <2>2. IsWellFoundedOn(Less, FiniteSubsetsOf(S))
    BY FS_StrictSubsetOrderingWellFounded
  <2> QED
    BY <2>1, <2>2
<1>2. Missed \subseteq SUBSET S /\ Missed # {}
  OBVIOUS
<1> HIDE DEF Less, Missed
<1>3. PICK T \in Missed : \A U \in Missed : ~ (<< U, T >> \in Less)
  BY <1>1, <1>2, WFMin
<1>4. T \in SUBSET S /\ T \notin Z
  BY <1>3 DEF Missed
<1>5. ASSUME NEW U \in SUBSET T, U # T
      PROVE  U \in Z
  <2>1. << U, T >> \in Less
    BY <1>4, <1>5 DEF Less, StrictSubsetOrdering
  <2>2. U \notin Missed
    BY <1>3, <2>1
  <2> QED
    BY <1>4, <2>2 DEF Missed
<1> QED
  BY <1>4, <1>5

Some(S) == CHOOSE x \in S : TRUE
Others(S) == S \ {Some(S)}

(* g is the recursive function that sums f over the subsets of S. *)
Adds(f, S, g) == g = [T \in SUBSET S |-> IF T = {} THEN 0 ELSE f[Some(T)] + g[Others(T)]]
AddsAt(f, T, g) == g[T] = IF T = {} THEN 0 ELSE f[Some(T)] + g[Others(T)]

LEMMA SomeOthers ==
  ASSUME NEW S, S # {}
  PROVE  Some(S) \in S /\ Others(S) \in SUBSET S /\ Others(S) # S
BY DEF Some, Others

LEMMA AddsEverywhere ==
  ASSUME NEW f, NEW S, NEW g, Adds(f, S, g)
  PROVE  \A T \in SUBSET S : AddsAt(f, T, g)
BY DEF Adds, AddsAt

SameBelow(T, g, h) == \A U \in SUBSET T : g[U] = h[U]

LEMMA AddsAgree ==
  ASSUME NEW f, NEW S, IsFiniteSet(S), NEW g, Adds(f, S, g),
         NEW T \in SUBSET S, NEW h, Adds(f, T, h)
  PROVE  SameBelow(T, g, h)
<1> DEFINE Z == {U \in SUBSET T : g[U] = h[U]}
<1>1. IsFiniteSet(T)
  BY FS_Subset
<1>2. ASSUME NEW U \in SUBSET T, \A V \in SUBSET U : V # U => V \in Z
      PROVE  U \in Z
  <2>1. AddsAt(f, U, g) /\ AddsAt(f, U, h)
    BY AddsEverywhere
  <2>2. CASE U = {}
    BY <2>1, <2>2 DEF AddsAt
  <2>3. CASE U # {}
    <3>1. Others(U) \in Z
      BY <1>2, <2>3, SomeOthers
    <3> QED
      BY <2>1, <2>3, <3>1 DEF AddsAt
  <2> QED
    BY <2>2, <2>3
<1>3. SUBSET T \subseteq Z
  <2> HIDE DEF Z
  <2> QED
    BY <1>1, <1>2, SubsetInduction
<1> QED
  BY <1>3 DEF SameBelow

LEMMA AddsExists ==
  ASSUME NEW S, IsFiniteSet(S), NEW f
  PROVE  \A T \in SUBSET S : \E g : Adds(f, T, g)
<1> DEFINE Z == {T \in SUBSET S : \E g : Adds(f, T, g)}
<1>1. ASSUME NEW T \in SUBSET S, \A U \in SUBSET T : U # T => U \in Z
      PROVE  T \in Z
  <2> DEFINE G == [U \in SUBSET T |-> CHOOSE g : Adds(f, U, g)]
             h == [U \in SUBSET T |-> IF U = {} THEN 0
                                      ELSE f[Some(U)] + G[Others(U)][Others(U)]]
  <2>0. \A U \in SUBSET T : U # T => Adds(f, U, G[U])
    BY <1>1
  <2> HIDE DEF G
  <2>1. ASSUME NEW U \in SUBSET T, U # T
        PROVE  h[U] = G[U][U]
    <3>1. AddsAt(f, U, G[U])
      BY <2>0, <2>1, AddsEverywhere
    <3>2. CASE U = {}
      BY <3>1, <3>2 DEF AddsAt
    <3>3. CASE U # {}
      <4>1. Others(U) \in SUBSET U /\ Others(U) # T
        BY <3>3, SomeOthers
      <4>2. IsFiniteSet(U) /\ Adds(f, U, G[U]) /\ Adds(f, Others(U), G[Others(U)])
        <5>1. U \in SUBSET S
          OBVIOUS
        <5> QED
          BY <2>0, <2>1, <4>1, <5>1, FS_Subset
      <4>3. G[U][Others(U)] = G[Others(U)][Others(U)]
        <5> DEFINE V == Others(U)
                   u == G[U]
                   v == G[V]
        <5>1. V \in SUBSET U /\ IsFiniteSet(U) /\ Adds(f, U, u) /\ Adds(f, V, v)
          BY <4>1, <4>2
        <5> HIDE DEF V, u, v
        <5>2. SameBelow(V, u, v)
          BY <5>1, AddsAgree
        <5>3. u[V] = v[V]
          BY <5>2 DEF SameBelow
        <5> QED
          BY <5>3 DEF V, u, v
      <4>4. h[U] = f[Some(U)] + G[Others(U)][Others(U)]
        BY <3>3
      <4>5. G[U][U] = f[Some(U)] + G[U][Others(U)]
        BY <3>1, <3>3 DEF AddsAt
      <4> HIDE DEF h
      <4> QED
        BY <4>3, <4>4, <4>5
    <3> QED
      BY <3>2, <3>3
  <2>2. ASSUME NEW U \in SUBSET T
        PROVE  h[U] = IF U = {} THEN 0 ELSE f[Some(U)] + h[Others(U)]
    <3>1. CASE U = {}
      BY <3>1
    <3>2. CASE U # {}
      <4>1. Others(U) \in SUBSET T /\ Others(U) # T
        BY <3>2, SomeOthers
      <4>2. h[Others(U)] = G[Others(U)][Others(U)]
        BY <2>1, <4>1
      <4> QED
        BY <3>2, <4>2
    <3> QED
      BY <3>1, <3>2
  <2>3. h = [U \in SUBSET T |-> h[U]]
    OBVIOUS
  <2> HIDE DEF h
  <2>4. [U \in SUBSET T |-> h[U]]
          = [U \in SUBSET T |-> IF U = {} THEN 0 ELSE f[Some(U)] + h[Others(U)]]
    BY <2>2
  <2>5. Adds(f, T, h)
    BY <2>3, <2>4 DEF Adds
  <2> QED
    BY <2>5
<1>2. SUBSET S \subseteq Z
  <2> HIDE DEF Z
  <2> QED
    BY <1>1, SubsetInduction
<1> QED
  BY <1>2

LEMMA SumIsAdds ==
  ASSUME NEW f, NEW S
  PROVE  SumFunctionOnSet(f, S) = (CHOOSE g : Adds(f, S, g))[S]
BY DEF SumFunctionOnSet, FoldFunctionOnSet, MapThenFoldSet, Adds, Some, Others

LEMMA SumChosen ==
  ASSUME NEW f, NEW S, IsFiniteSet(S)
  PROVE  SumFunctionOnSet(f, S) =
           IF S = {} THEN 0 ELSE f[Some(S)] + SumFunctionOnSet(f, Others(S))
<1> DEFINE g == CHOOSE g : Adds(f, S, g)
           h == CHOOSE h : Adds(f, Others(S), h)
<1>1. Adds(f, S, g)
  <2>1. \E u : Adds(f, S, u)
    BY AddsExists
  <2> QED
    BY <2>1
<1>2. SumFunctionOnSet(f, S) = g[S] /\ SumFunctionOnSet(f, Others(S)) = h[Others(S)]
  BY SumIsAdds
<1>3. AddsAt(f, S, g)
  BY <1>1, AddsEverywhere
<1>4. CASE S = {}
  BY <1>2, <1>3, <1>4 DEF AddsAt
<1>5. CASE S # {}
  <2>1. Others(S) \in SUBSET S
    BY <1>5, SomeOthers
  <2>2. Adds(f, Others(S), h)
    <3>1. \E u : Adds(f, Others(S), u)
      BY <2>1, AddsExists
    <3> QED
      BY <3>1
  <2> HIDE DEF g, h
  <2>3. SameBelow(Others(S), g, h)
    BY <1>1, <2>1, <2>2, AddsAgree
  <2>4. g[Others(S)] = h[Others(S)]
    BY <2>3 DEF SameBelow
  <2> QED
    BY <1>2, <1>3, <1>5, <2>4 DEF AddsAt
<1> QED
  BY <1>4, <1>5

(* Any element may be taken first. *)
Adding(f, S) ==
  /\ SumFunctionOnSet(f, S) \in Int
  /\ \A x \in S : SumFunctionOnSet(f, S) = f[x] + SumFunctionOnSet(f, S \ {x})

LEMMA SumRemove ==
  ASSUME NEW f, NEW S, IsFiniteSet(S), \A x \in S : f[x] \in Int
  PROVE  Adding(f, S)
<1> DEFINE Z == {T \in SUBSET S : Adding(f, T)}
           Sum(T) == SumFunctionOnSet(f, T)
<1>1. ASSUME NEW T \in SUBSET S, \A U \in SUBSET T : U # T => U \in Z
      PROVE  T \in Z
  <2>1. IsFiniteSet(T) /\ IsFiniteSet(Others(T))
    BY FS_Subset, FS_RemoveElement DEF Others
  <2>2. Sum(T) = IF T = {} THEN 0 ELSE f[Some(T)] + Sum(Others(T))
    BY <2>1, SumChosen
  <2>3. CASE T = {}
    BY <2>2, <2>3 DEF Adding
  <2>4. CASE T # {}
    <3>1. Some(T) \in T /\ Others(T) \in SUBSET T /\ Others(T) # T
      BY <2>4, SomeOthers
    <3>2. Adding(f, Others(T))
      BY <1>1, <3>1
    <3>3. Sum(Others(T)) \in Int /\ f[Some(T)] \in Int
      BY <3>1, <3>2 DEF Adding
    <3>4. ASSUME NEW x \in T
          PROVE  Sum(T) = f[x] + Sum(T \ {x})
      <4>1. CASE x = Some(T)
        BY <2>2, <2>4, <4>1 DEF Others
      <4>2. CASE x # Some(T)
        <5>1. T \ {x} \in SUBSET T /\ T \ {x} # T
          OBVIOUS
        <5>2. Adding(f, T \ {x})
          BY <1>1, <5>1
        <5>3. Some(T) \in T \ {x} /\ x \in Others(T)
          BY <3>1, <4>2 DEF Others
        <5>4. Sum(T \ {x}) = f[Some(T)] + Sum((T \ {x}) \ {Some(T)})
          BY <5>2, <5>3 DEF Adding
        <5>5. Sum(Others(T)) = f[x] + Sum(Others(T) \ {x})
          BY <3>2, <5>3 DEF Adding
        <5>6. (T \ {x}) \ {Some(T)} = Others(T) \ {x}
          BY DEF Others
        <5>7. Adding(f, Others(T) \ {x})
          <6>1. Others(T) \ {x} \in SUBSET T /\ Others(T) \ {x} # T
            BY <3>1
          <6> QED
            BY <1>1, <6>1
        <5>8. Sum(Others(T) \ {x}) \in Int /\ f[x] \in Int
          BY <5>7 DEF Adding
        <5>9. Sum(T \ {x}) = f[Some(T)] + Sum(Others(T) \ {x})
          BY <5>4, <5>6, Zenon
        <5> HIDE DEF Sum
        <5> QED
          BY <2>2, <2>4, <3>3, <5>5, <5>8, <5>9
      <4> QED
        BY <4>1, <4>2
    <3>5. Sum(T) \in Int
      <4> HIDE DEF Sum
      <4> QED
        BY <2>2, <2>4, <3>3
    <3> QED
      BY <3>4, <3>5 DEF Adding
  <2> QED
    BY <2>3, <2>4
<1>2. SUBSET S \subseteq Z
  <2> HIDE DEF Z
  <2> QED
    BY <1>1, SubsetInduction
<1> QED
  BY <1>2

(* A sum depends only on the values of the function on the set.              *)
LEMMA SumAgrees ==
  ASSUME NEW f, NEW h, NEW S, IsFiniteSet(S), \A x \in S : f[x] = h[x]
  PROVE  SumFunctionOnSet(f, S) = SumFunctionOnSet(h, S)
<1> DEFINE Z == {T \in SUBSET S : SumFunctionOnSet(f, T) = SumFunctionOnSet(h, T)}
<1>1. ASSUME NEW T \in SUBSET S, \A U \in SUBSET T : U # T => U \in Z
      PROVE  T \in Z
  <2>1. IsFiniteSet(T)
    BY FS_Subset
  <2>2. /\ SumFunctionOnSet(f, T) = IF T = {} THEN 0 ELSE f[Some(T)] + SumFunctionOnSet(f, Others(T))
        /\ SumFunctionOnSet(h, T) = IF T = {} THEN 0 ELSE h[Some(T)] + SumFunctionOnSet(h, Others(T))
    BY <2>1, SumChosen
  <2>3. CASE T = {}
    BY <2>2, <2>3
  <2>4. CASE T # {}
    <3>1. Some(T) \in T /\ Others(T) \in SUBSET T /\ Others(T) # T
      BY <2>4, SomeOthers
    <3>2. SumFunctionOnSet(f, Others(T)) = SumFunctionOnSet(h, Others(T)) /\ f[Some(T)] = h[Some(T)]
      BY <1>1, <3>1
    <3> QED BY <2>2, <2>4, <3>2
  <2> QED BY <2>3, <2>4
<1> HIDE DEF Z
<1>2. S \in Z
  BY <1>1, SubsetInduction
<1> QED BY <1>2 DEF Z

----------------------------------------------------------------------------
(* Division with a divisor that is not a number.                             *)

LEMMA Division ==
  ASSUME NEW n \in Int, NEW d \in Nat, d # 0
  PROVE  /\ n \div d \in Int /\ n % d \in 0 .. d - 1
         /\ n = d * (n \div d) + (n % d)
OBVIOUS

(* Quotient and remainder are the only ones. *)
LEMMA DivisionUnique ==
  ASSUME NEW d \in Nat, d # 0, NEW q \in Int, NEW r \in 0 .. d - 1
  PROVE  (d * q + r) \div d = q /\ (d * q + r) % d = r
<1> DEFINE n == d * q + r
           u == n \div d
           v == n % d
<1>1. n \in Int /\ r \in Int
  OBVIOUS
<1>2. u \in Int /\ v \in 0 .. d - 1 /\ d * q + r = d * u + v
  BY <1>1, Division
<1> HIDE DEF n, u, v
<1>3. u = q
  <2>1. CASE u < q
    <3>1. u + 1 <= q
      BY <1>2, <2>1
    <3>2. d * (u + 1) <= d * q
      BY <1>2, <3>1
    <3> QED BY <1>2, <3>2
  <2>2. CASE q < u
    <3>1. q + 1 <= u
      BY <1>2, <2>2
    <3>2. d * (q + 1) <= d * u
      BY <1>2, <3>1
    <3> QED BY <1>2, <3>2
  <2> QED BY <1>2, <2>1, <2>2
<1>4. v = r
  BY <1>2, <1>3
<1> QED BY <1>3, <1>4 DEF u, v, n

(* A multiple below n bounds the quotient from below. *)
LEMMA QuotientAtLeast ==
  ASSUME NEW n \in Int, NEW d \in Nat, d # 0, NEW q \in Int, d * q <= n
  PROVE  q <= n \div d
<1> DEFINE u == n \div d
           v == n % d
<1>1. u \in Int /\ v \in 0 .. d - 1 /\ n = d * u + v
  BY Division
<1> HIDE DEF u, v
<1> SUFFICES ASSUME u + 1 <= q
             PROVE  FALSE
  BY <1>1 DEF u
<1>2. d * (u + 1) <= d * q
  BY <1>1
<1> QED BY <1>1, <1>2

(* Quotients grow with what is divided. *)
LEMMA QuotientsOrdered ==
  ASSUME NEW m \in Int, NEW n \in Int, m <= n, NEW d \in Nat, d # 0
  PROVE  m \div d <= n \div d
<1> DEFINE u == m \div d
           v == m % d
<1>1. u \in Int /\ v \in 0 .. d - 1 /\ m = d * u + v
  BY Division
<1> HIDE DEF u, v
<1>2. d * u <= n
  BY <1>1
<1>3. u <= n \div d
  BY <1>1, <1>2, QuotientAtLeast
<1> QED BY <1>3 DEF u
=============================================================================

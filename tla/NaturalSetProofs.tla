--------------------------- MODULE NaturalSetProofs ---------------------------
(***************************************************************************)
(* Least and greatest members of sets of naturals: the ids of columns, the *)
(* positions of a stack. What rests on them: recursive functions exist, on *)
(* what has a depth and on 0 .. n.                                         *)
(***************************************************************************)
EXTENDS Integers, SequencesExt, FiniteSetTheorems, SequenceTheorems, WellFoundedInduction, TLAPS

LEMMA LeastExists ==
  ASSUME NEW S \in SUBSET Nat, S # {}
  PROVE  \E m \in S : \A k \in S : m <= k
<1> DEFINE T == {0 .. m : m \in S}
<1>1. IsWellFoundedOn(StrictSubsetOrdering(Nat), FiniteSubsetsOf(Nat))
  BY FS_StrictSubsetOrderingWellFounded
<1>2. T \subseteq FiniteSubsetsOf(Nat)
  <2> SUFFICES ASSUME NEW m \in S PROVE 0 .. m \in FiniteSubsetsOf(Nat)
    OBVIOUS
  <2>1. IsFiniteSet(0 .. m)
    BY FS_Interval
  <2> QED BY <2>1 DEF FiniteSubsetsOf
<1>3. T # {}
  OBVIOUS
<1>4. \E x \in T : \A y \in T : <<y, x>> \notin StrictSubsetOrdering(Nat)
  BY <1>1, <1>2, <1>3, WFMin, Zenon
<1>5. PICK m \in S : \A k \in S : <<0 .. k, 0 .. m>> \notin StrictSubsetOrdering(Nat)
  BY <1>4
<1>6. ASSUME NEW k \in S, k < m PROVE FALSE
  <2>1. <<0 .. k, 0 .. m>> \in StrictSubsetOrdering(Nat)
    BY <1>6 DEF StrictSubsetOrdering
  <2> QED BY <1>5, <2>1
<1> QED BY <1>6

\* A finite set of ids has an upper bound.
LEMMA BoundExists ==
  ASSUME NEW S, IsFiniteSet(S), S \subseteq Nat
  PROVE  \E n \in Nat : \A k \in S : k <= n
<1> DEFINE Bounded(R) == \E n \in Nat : \A k \in R : k <= n
<1>1. IsWellFoundedOn(StrictSubsetOrdering(S), FiniteSubsetsOf(S))
  BY FS_StrictSubsetOrderingWellFounded
<1>2. SUFFICES ASSUME ~Bounded(S) PROVE FALSE
  OBVIOUS
<1> DEFINE U == {R \in SUBSET S : IsFiniteSet(R) /\ ~Bounded(R)}
<1>3. U \subseteq FiniteSubsetsOf(S) /\ U # {}
  BY <1>2 DEF FiniteSubsetsOf
<1>4. \E R \in U : \A Q \in U : <<Q, R>> \notin StrictSubsetOrdering(S)
  BY <1>1, <1>3, WFMin, Zenon
<1>5. PICK R \in U : \A Q \in U : <<Q, R>> \notin StrictSubsetOrdering(S)
  BY <1>4
<1>6. PICK x \in R : TRUE
  <2>1. R # {}
    OBVIOUS
  <2> QED BY <2>1
<1>7. IsFiniteSet(R \ {x}) /\ R \ {x} \subseteq S
  BY FS_RemoveElement
<1>8. <<R \ {x}, R>> \in StrictSubsetOrdering(S)
  BY <1>7 DEF StrictSubsetOrdering
<1>9. Bounded(R \ {x})
  BY <1>5, <1>7, <1>8
<1>10. PICK n \in Nat : \A k \in R \ {x} : k <= n
  BY <1>9
<1>11. x \in Nat
  OBVIOUS
<1>12. Bounded(R)
  <2>1. CASE x <= n
    BY <1>10, <2>1
  <2>2. CASE ~(x <= n)
    BY <1>10, <1>11, <2>2
  <2> QED BY <2>1, <2>2
<1> QED BY <1>12

LEMMA MaxIsGreatest ==
  ASSUME NEW S, IsFiniteSet(S), S \subseteq Nat, S # {}
  PROVE  Max(S) \in S /\ \A k \in S : k <= Max(S)
<1> DEFINE B == {n \in Nat : \A k \in S : k <= n}
<1>1. PICK n \in B : \A m \in B : n <= m
  BY BoundExists, LeastExists
<1>2. n \in S
  <2> SUFFICES ASSUME n \notin S PROVE FALSE
    OBVIOUS
  <2>1. PICK x \in S : TRUE
    OBVIOUS
  <2>2. n - 1 \in Nat
    BY <1>1, <2>1
  <2>3. \A k \in S : k <= n - 1
    BY <1>1
  <2>4. n - 1 \in B
    BY <2>2, <2>3
  <2> QED BY <1>1, <2>4
<1>3. \E x \in S : \A k \in S : x >= k
  BY <1>1, <1>2
<1> QED BY <1>3 DEF Max

LEMMA TwoAreMore ==
  ASSUME NEW S, IsFiniteSet(S), NEW x \in S, NEW y \in S, x # y
  PROVE  Cardinality(S) > 1
<1>1. Cardinality(S) \in Nat
  BY FS_CardinalityType
<1>2. Cardinality(S) # 0
  BY FS_EmptySet
<1>3. Cardinality(S) # 1
  <2>1. ASSUME NEW z, S = {z} PROVE FALSE
    BY <2>1
  <2> QED BY <2>1, FS_Singleton
<1> QED BY <1>1, <1>2, <1>3

\* Induction over what has a depth.
LEMMA DepthInduction ==
  ASSUME NEW X, NEW depth \in [X -> Nat], NEW P,
         \A x \in X : (\A y \in X : depth[y] < depth[x] => y \in P) => x \in P
  PROVE  X \subseteq P
<1> SUFFICES ASSUME X \ P # {} PROVE FALSE
  OBVIOUS
<1> DEFINE S == {depth[x] : x \in X \ P}
<1>1. S \subseteq Nat /\ S # {}
  OBVIOUS
<1>2. PICK m \in S : \A k \in S : m <= k
  BY <1>1, LeastExists
<1>3. PICK x \in X \ P : m = depth[x]
  BY <1>2
<1>4. ASSUME NEW y \in X, depth[y] < depth[x] PROVE y \in P
  <2>1. depth[y] \in Nat /\ depth[x] \in Nat
    OBVIOUS
  <2>2. y \notin P => depth[x] <= depth[y]
    BY <1>2, <1>3
  <2> QED BY <1>4, <2>1, <2>2
<1> QED BY <1>3, <1>4

\* Step[<<x, f>>] depends on f only at what is below x, which is less deep.
IsRecursion(X, V, depth, Below, Step) ==
  /\ V # {}
  /\ depth \in [X -> Nat]
  /\ Below \in [X -> SUBSET X]
  /\ \A x \in X : \A y \in Below[x] : depth[y] < depth[x]
  /\ Step \in [X \X [X -> V] -> V]
  /\ \A x \in X : \A g, h \in [X -> V] :
       (\A y \in Below[x] : g[y] = h[y]) => Step[<<x, g>>] = Step[<<x, h>>]

\* A recursive function exists.
LEMMA RecursionExists ==
  ASSUME NEW X, NEW V, NEW depth, NEW Below, NEW Step, IsRecursion(X, V, depth, Below, Step)
  PROVE  \E f \in [X -> V] : f = [x \in X |-> Step[<<x, f>>]]
<1> USE DEF IsRecursion
<1> DEFINE Approximates(g, n) == \A x \in X : depth[x] < n => g[x] = Step[<<x, g>>]
           A == {n \in Nat : \E g \in [X -> V] : Approximates(g, n)}
           G == [n \in Nat |-> CHOOSE g \in [X -> V] : Approximates(g, n)]
           f == [x \in X |-> G[depth[x] + 1][x]]
<1>1. ASSUME NEW n \in Nat PROVE n \in A
  <2> SUFFICES ASSUME Nat \ A # {} PROVE FALSE
    OBVIOUS
  <2>1. PICK m \in Nat \ A : \A k \in Nat \ A : m <= k
    <3>1. Nat \ A \in SUBSET Nat
      OBVIOUS
    <3> QED BY <3>1, LeastExists
  <2>2. m # 0
    <3>1. PICK v \in V : TRUE
      OBVIOUS
    <3> DEFINE g0 == [x \in X |-> v]
    <3>2. g0 \in [X -> V] /\ Approximates(g0, 0)
      OBVIOUS
    <3>3. 0 \in A
      BY <3>2
    <3> QED BY <2>1, <3>3
  <2>3. m - 1 \in Nat /\ ~(m <= m - 1)
    BY <2>2
  <2>4. m - 1 \in A
    BY <2>1, <2>3
  <2>5. PICK g \in [X -> V] : Approximates(g, m - 1)
    BY <2>4
  <2> DEFINE h == [x \in X |-> Step[<<x, g>>]]
  <2>6. h \in [X -> V]
    OBVIOUS
  <2>7. ASSUME NEW x \in X, depth[x] < m PROVE h[x] = Step[<<x, h>>]
    <3>1. ASSUME NEW y \in Below[x] PROVE g[y] = h[y]
      <4>1. y \in X /\ depth[y] < depth[x]
        OBVIOUS
      <4>2. depth[y] < m - 1
        <5>1. depth[x] \in Nat /\ depth[y] \in Nat
          BY <4>1
        <5> QED BY <2>1, <2>7, <4>1, <5>1
      <4> QED BY <2>5, <4>1, <4>2
    <3> HIDE DEF h
    <3>2. Step[<<x, g>>] = Step[<<x, h>>]
      BY <2>6, <3>1
    <3>3. h[x] = Step[<<x, g>>]
      BY DEF h
    <3> QED BY <3>2, <3>3
  <2>8. Approximates(h, m)
    BY <2>7
  <2>9. m \in A
    BY <2>1, <2>6, <2>8
  <2> QED BY <2>1, <2>9
<1>2. ASSUME NEW n \in Nat PROVE G[n] \in [X -> V] /\ Approximates(G[n], n)
  <2>1. \E g \in [X -> V] : Approximates(g, n)
    BY <1>1
  <2>2. G[n] = CHOOSE g \in [X -> V] : Approximates(g, n)
    OBVIOUS
  <2> HIDE DEF Approximates, G
  <2> QED BY <2>1, <2>2
<1>3. ASSUME NEW n \in Nat, NEW m \in Nat
      PROVE  \A x \in X : depth[x] < n /\ depth[x] < m => G[n][x] = G[m][x]
  <2> DEFINE P == {x \in X : depth[x] < n /\ depth[x] < m => G[n][x] = G[m][x]}
  <2>1. ASSUME NEW x \in X, \A y \in X : depth[y] < depth[x] => y \in P PROVE x \in P
    <3> SUFFICES ASSUME depth[x] < n, depth[x] < m PROVE G[n][x] = G[m][x]
      OBVIOUS
    <3>1. ASSUME NEW y \in Below[x] PROVE G[n][y] = G[m][y]
      <4>1. y \in X /\ depth[y] < depth[x]
        OBVIOUS
      <4>2. depth[x] \in Nat /\ depth[y] \in Nat
        BY <4>1
      <4>3. depth[y] < n /\ depth[y] < m
        BY <4>1, <4>2
      <4>4. y \in P
        <5> HIDE DEF P
        <5> QED BY <2>1, <4>1
      <4> HIDE DEF G
      <4> QED BY <4>3, <4>4
    <3>2. G[n] \in [X -> V] /\ G[m] \in [X -> V]
      BY <1>2
    <3>3. Step[<<x, G[n]>>] = Step[<<x, G[m]>>]
      <4> HIDE DEF G
      <4> QED BY <3>1, <3>2
    <3>4. G[n][x] = Step[<<x, G[n]>>] /\ G[m][x] = Step[<<x, G[m]>>]
      <4> HIDE DEF G
      <4> QED BY <1>2
    <3> QED BY <3>3, <3>4
  <2>2. \A x \in X : (\A y \in X : depth[y] < depth[x] => y \in P) => x \in P
    <3> HIDE DEF P
    <3> QED BY <2>1
  <2> HIDE DEF P, G
  <2>3. X \subseteq P
    BY <2>2, DepthInduction
  <2> QED BY <2>3 DEF P
<1> HIDE DEF G, Approximates
<1>4. f \in [X -> V]
  <2> SUFFICES ASSUME NEW x \in X PROVE G[depth[x] + 1][x] \in V
    OBVIOUS
  <2>1. depth[x] + 1 \in Nat
    OBVIOUS
  <2>2. G[depth[x] + 1] \in [X -> V]
    BY <1>2, <2>1
  <2> QED BY <2>2
<1>5. ASSUME NEW x \in X PROVE f[x] = Step[<<x, f>>]
  <2> DEFINE n == depth[x] + 1
             g == G[n]
  <2>1. n \in Nat /\ depth[x] < n
    OBVIOUS
  <2>2. g \in [X -> V] /\ Approximates(g, n)
    BY <1>2, <2>1
  <2>3. ASSUME NEW y \in Below[x] PROVE f[y] = g[y]
    <3>1. y \in X /\ depth[y] < depth[x]
      OBVIOUS
    <3>2. depth[x] \in Nat /\ depth[y] \in Nat
      BY <3>1
    <3>3. depth[y] < depth[y] + 1 /\ depth[y] < n /\ depth[y] + 1 \in Nat
      BY <3>1, <3>2
    <3>4. G[depth[y] + 1][y] = G[n][y]
      BY <1>3, <2>1, <3>1, <3>3
    <3> QED BY <3>1, <3>4
  <2>4. f[x] = g[x]
    OBVIOUS
  <2>5. g[x] = Step[<<x, g>>]
    BY <2>1, <2>2 DEF Approximates
  <2> HIDE DEF f, g
  <2>6. Step[<<x, f>>] = Step[<<x, g>>]
    BY <1>4, <2>2, <2>3
  <2> QED BY <2>4, <2>5, <2>6
<1>6. f = [x \in X |-> Step[<<x, f>>]]
  <2> HIDE DEF f
  <2> QED BY <1>4, <1>5
<1> QED BY <1>4, <1>6

-----------------------------------------------------------------------------
(* Loops: a recursive function on 0 .. n exists, and what holds of its      *)
(* start and is kept by each step holds of its end.                         *)

LEMMA CountUp ==
  ASSUME NEW n \in Nat, NEW P, 0 \in P, \A i \in 1 .. n : i - 1 \in P => i \in P
  PROVE  \A i \in 0 .. n : i \in P
<1> DEFINE S == {i \in 0 .. n : i \notin P}
<1> SUFFICES ASSUME S # {} PROVE FALSE
  OBVIOUS
<1>1. PICK m \in S : \A i \in S : m <= i
  <2>1. S \in SUBSET Nat
    OBVIOUS
  <2> QED BY <2>1, LeastExists
<1>2. m \in 1 .. n
  BY <1>1
<1>3. m - 1 \in P
  BY <1>1, <1>2
<1> QED BY <1>1, <1>2, <1>3

IsLoop(f, X, first, n, step) ==
  f \in [0 .. n -> X] /\ f[0] = first /\ \A k \in 1 .. n : f[k] = step[k][f[k - 1]]

IsStep(step, X, n) == step \in [1 .. n -> [X -> X]]

LEMMA LoopExists ==
  ASSUME NEW X, NEW first \in X, NEW n \in Nat, NEW step, IsStep(step, X, n)
  PROVE  \E f : IsLoop(f, X, first, n, step)
<1> USE DEF IsStep
<1> DEFINE Good(m, f) == f[0] = first /\ \A k \in 1 .. m : f[k] = step[k][f[k - 1]]
           P == {m \in 0 .. n : \E f \in [0 .. m -> X] : Good(m, f)}
<1>1. 0 \in P
  <2> DEFINE z == [k \in 0 .. 0 |-> first]
  <2>1. z \in [0 .. 0 -> X] /\ Good(0, z)
    OBVIOUS
  <2> HIDE DEF z, Good
  <2> QED BY <2>1
<1>2. ASSUME NEW i \in 1 .. n, i - 1 \in P PROVE i \in P
  <2>1. PICK f \in [0 .. i - 1 -> X] : Good(i - 1, f)
    BY <1>2
  <2> DEFINE g == [k \in 0 .. i |-> IF k = i THEN step[i][f[i - 1]] ELSE f[k]]
  <2>2. step[i][f[i - 1]] \in X
    <3>1. f[i - 1] \in X
      OBVIOUS
    <3> QED BY <3>1
  <2>3. g \in [0 .. i -> X]
    BY <2>2
  <2>4. Good(i, g)
    <3>1. g[0] = first
      BY <2>1
    <3>2. ASSUME NEW k \in 1 .. i PROVE g[k] = step[k][g[k - 1]]
      <4>1. CASE k = i
        BY <4>1
      <4>2. CASE k # i
        <5>1. k \in 1 .. i - 1 /\ k - 1 \in 0 .. i - 1
          BY <4>2
        <5>2. g[k] = f[k] /\ g[k - 1] = f[k - 1]
          BY <5>1, <4>2
        <5> QED BY <5>1, <5>2, <2>1
      <4> QED BY <4>1, <4>2
    <3> QED BY <3>1, <3>2
  <2> HIDE DEF g, Good
  <2> QED BY <2>3, <2>4
<1>3. n \in P
  <2> HIDE DEF P
  <2>1. \A i \in 0 .. n : i \in P
    BY <1>1, <1>2, CountUp
  <2> QED BY <2>1
<1> QED BY <1>3 DEF IsLoop

-----------------------------------------------------------------------------
(* Sequences.                                                               *)

LEMMA ConcatSet ==
  ASSUME NEW S, NEW s \in Seq(S), NEW t \in Seq(S)
  PROVE  s \o t \in Seq(S) /\ ToSet(s \o t) = ToSet(s) \cup ToSet(t)
<1>1. /\ s \o t \in Seq(S) /\ Len(s \o t) = Len(s) + Len(t)
      /\ \A i \in 1 .. Len(s) + Len(t) :
           (s \o t)[i] = IF i <= Len(s) THEN s[i] ELSE t[i - Len(s)]
  BY ConcatProperties
<1>2. DOMAIN (s \o t) = 1 .. Len(s) + Len(t) /\ DOMAIN s = 1 .. Len(s) /\ DOMAIN t = 1 .. Len(t)
  BY <1>1
<1>3. Len(s) \in Nat /\ Len(t) \in Nat
  OBVIOUS
<1> DEFINE st == s \o t
<1>4. /\ \A i \in DOMAIN s : i \in DOMAIN st /\ st[i] = s[i]
      /\ \A i \in DOMAIN t : Len(s) + i \in DOMAIN st /\ st[Len(s) + i] = t[i]
      /\ \A i \in DOMAIN st : i \in DOMAIN s \/ i - Len(s) \in DOMAIN t
  BY <1>1, <1>2, <1>3
<1>5. \A i \in DOMAIN st : i \notin DOMAIN s => st[i] = t[i - Len(s)] /\ i - Len(s) \in DOMAIN t
  BY <1>1, <1>2, <1>3
<1> HIDE DEF st
<1>6. ToSet(st) = ToSet(s) \cup ToSet(t)
  BY <1>4, <1>5 DEF ToSet
<1> QED BY <1>1, <1>6 DEF st

\* The partial results of FlattenSeq.
IsFlattening(flat, ss, n) ==
  \A i \in 1 .. n : flat[i] = IF i = 1 THEN ss[i] ELSE flat[i - 1] \o ss[i]

LEMMA FlattenSteps ==
  ASSUME NEW S, NEW ss \in Seq(Seq(S)), Len(ss) # 0
  PROVE  \E flat : IsFlattening(flat, ss, Len(ss)) /\ FlattenSeq(ss) = flat[Len(ss)]
<1> DEFINE n == Len(ss)
<1>1. n \in Nat /\ n \in 1 .. n /\ DOMAIN ss = 1 .. n /\ \A i \in 1 .. n : ss[i] \in Seq(S)
  OBVIOUS
<1> DEFINE step == [k \in 1 .. n |-> [a \in Seq(S) |-> IF k = 1 THEN ss[1] ELSE a \o ss[k]]]
<1>2. step \in [1 .. n -> [Seq(S) -> Seq(S)]]
  BY <1>1
<1>3. PICK f : IsLoop(f, Seq(S), <<>>, n, step)
  <2>1. <<>> \in Seq(S)
    OBVIOUS
  <2>2. IsStep(step, Seq(S), n)
    BY <1>2 DEF IsStep
  <2> HIDE DEF step, n
  <2> QED BY <2>1, <2>2, <1>1, LoopExists
<1> DEFINE g == [i \in 1 .. n |-> f[i]]
           Loop(h) == h = [i \in 1 .. n |-> IF i = 1 THEN ss[i] ELSE h[i - 1] \o ss[i]]
<1>4. Loop(g)
  <2>1. ASSUME NEW i \in 1 .. n PROVE g[i] = IF i = 1 THEN ss[i] ELSE g[i - 1] \o ss[i]
    <3>1. f[i - 1] \in Seq(S)
      BY <1>3 DEF IsLoop
    <3>2. f[i] = IF i = 1 THEN ss[1] ELSE f[i - 1] \o ss[i]
      BY <1>3, <3>1 DEF IsLoop
    <3>3. i # 1 => g[i - 1] = f[i - 1]
      OBVIOUS
    <3> QED BY <3>2, <3>3
  <2> QED BY <2>1
<1> DEFINE flat == CHOOSE h : Loop(h)
<1>5. Loop(flat)
  <2> HIDE DEF Loop, g
  <2> QED BY <1>4
<1>6. FlattenSeq(ss) = flat[n]
  BY DEF FlattenSeq
<1>7. \A i \in 1 .. n : flat[i] = IF i = 1 THEN ss[i] ELSE flat[i - 1] \o ss[i]
  <2> HIDE DEF flat
  <2>1. flat = [i \in 1 .. n |-> IF i = 1 THEN ss[i] ELSE flat[i - 1] \o ss[i]]
    BY <1>5
  <2> DEFINE h == [i \in 1 .. n |-> IF i = 1 THEN ss[i] ELSE flat[i - 1] \o ss[i]]
  <2>2. \A i \in 1 .. n : h[i] = IF i = 1 THEN ss[i] ELSE flat[i - 1] \o ss[i]
    OBVIOUS
  <2>3. flat = h
    BY <2>1
  <2> HIDE DEF h
  <2> QED BY <2>2, <2>3
<1> HIDE DEF flat, n
<1>8. IsFlattening(flat, ss, n)
  BY <1>7 DEF IsFlattening
<1> QED BY <1>6, <1>8 DEF n

LEMMA FlattenCovers ==
  ASSUME NEW S, NEW ss \in Seq(Seq(S))
  PROVE  /\ FlattenSeq(ss) \in Seq(S)
         /\ ToSet(FlattenSeq(ss)) = UNION {ToSet(ss[i]) : i \in DOMAIN ss}
<1> DEFINE n == Len(ss)
<1>1. CASE n = 0
  <2>1. ss = <<>> /\ FlattenSeq(ss) = <<>>
    BY <1>1 DEF FlattenSeq
  <2>2. <<>> \in Seq(S) /\ DOMAIN ss = {}
    BY <2>1
  <2>3. ToSet(FlattenSeq(ss)) = {}
    BY <2>1 DEF ToSet
  <2>4. UNION {ToSet(ss[i]) : i \in DOMAIN ss} = {}
    BY <2>2
  <2> QED BY <2>1, <2>2, <2>3, <2>4
<1>2. CASE n # 0
  <2>1. n \in Nat /\ n \in 1 .. n /\ DOMAIN ss = 1 .. n /\ \A i \in 1 .. n : ss[i] \in Seq(S)
    BY <1>2
  <2>2. PICK flat : IsFlattening(flat, ss, n) /\ FlattenSeq(ss) = flat[n]
    BY <1>2, FlattenSteps
  <2> USE DEF IsFlattening
  <2> HIDE DEF n
  <2> DEFINE All(i) == UNION {ToSet(ss[m]) : m \in 1 .. i}
             P == {i \in 0 .. n : i # 0 => flat[i] \in Seq(S) /\ ToSet(flat[i]) = All(i)}
  <2>8. 0 \in P
    BY <2>1
  <2>9. ASSUME NEW i \in 1 .. n, i - 1 \in P PROVE i \in P
    <3>1. CASE i = 1
      <4>1. flat[1] = ss[1] /\ flat[1] \in Seq(S)
        BY <2>1, <2>2, <3>1
      <4>2. 1 .. 1 = {1}
        OBVIOUS
      <4>3. All(1) = ToSet(ss[1])
        BY <4>2
      <4> QED BY <3>1, <4>1, <4>3
    <3>2. CASE i # 1
      <4>1. flat[i - 1] \in Seq(S) /\ ToSet(flat[i - 1]) = All(i - 1)
        BY <2>9, <3>2
      <4>2. flat[i] = flat[i - 1] \o ss[i] /\ ss[i] \in Seq(S)
        BY <2>1, <2>2, <3>2
      <4>3. flat[i] \in Seq(S) /\ ToSet(flat[i]) = All(i - 1) \cup ToSet(ss[i])
        BY <4>1, <4>2, ConcatSet
      <4>4. 1 .. i = (1 .. i - 1) \cup {i}
        OBVIOUS
      <4>5. All(i) = All(i - 1) \cup ToSet(ss[i])
        BY <4>4
      <4> HIDE DEF All
      <4>6. i \in 0 .. n
        BY <2>1
      <4> QED BY <4>3, <4>5, <4>6
    <3> QED BY <3>1, <3>2
  <2>10. n \in P
    <3> HIDE DEF P
    <3>1. n \in Nat
      BY <2>1
    <3>2. \A i \in 0 .. n : i \in P
      BY <2>8, <2>9, <3>1, CountUp
    <3> QED BY <3>1, <3>2
  <2> QED BY <2>1, <2>2, <2>10, <1>2
<1> QED BY <1>1, <1>2

LEMMA FlattenAppend ==
  ASSUME NEW S, NEW ss \in Seq(Seq(S)), NEW s \in Seq(S)
  PROVE  FlattenSeq(Append(ss, s)) = FlattenSeq(ss) \o s
<1> DEFINE n == Len(ss)
           tt == Append(ss, s)
<1>1. /\ n \in Nat /\ tt \in Seq(Seq(S)) /\ Len(tt) = n + 1 /\ tt[n + 1] = s
      /\ \A i \in 1 .. n : tt[i] = ss[i]
  OBVIOUS
<1> HIDE DEF tt
<1>2. PICK gg : IsFlattening(gg, tt, n + 1) /\ FlattenSeq(tt) = gg[n + 1]
  <2>1. Len(tt) # 0
    BY <1>1
  <2> QED BY <1>1, <2>1, FlattenSteps
<1>3. CASE n = 0
  <2>1. gg[1] = s
    BY <1>1, <1>2, <1>3 DEF IsFlattening
  <2>2. ss = <<>> /\ FlattenSeq(ss) = <<>>
    BY <1>3 DEF FlattenSeq
  <2>3. <<>> \o s = s
    OBVIOUS
  <2> QED BY <1>2, <1>3, <2>1, <2>2, <2>3 DEF tt
<1>4. CASE n # 0
  <2>1. PICK ff : IsFlattening(ff, ss, n) /\ FlattenSeq(ss) = ff[n]
    BY <1>4, FlattenSteps
  <2> DEFINE P == {i \in 0 .. n : i # 0 => gg[i] = ff[i]}
  <2>2. 0 \in P
    BY <1>1
  <2>3. ASSUME NEW i \in 1 .. n, i - 1 \in P PROVE i \in P
    <3>1. i \in 1 .. n + 1 /\ i \in 0 .. n /\ tt[i] = ss[i]
      BY <1>1
    <3>2. gg[i] = IF i = 1 THEN ss[i] ELSE gg[i - 1] \o ss[i]
      BY <1>2, <3>1 DEF IsFlattening
    <3>3. ff[i] = IF i = 1 THEN ss[i] ELSE ff[i - 1] \o ss[i]
      BY <2>1 DEF IsFlattening
    <3>4. i # 1 => gg[i - 1] = ff[i - 1]
      BY <2>3
    <3> QED BY <3>1, <3>2, <3>3, <3>4
  <2> HIDE DEF P
  <2>4. \A i \in 0 .. n : i \in P
    BY <1>1, <2>2, <2>3, CountUp
  <2>5. gg[n] = ff[n]
    BY <1>1, <1>4, <2>4 DEF P
  <2>6. gg[n + 1] = gg[n] \o s
    <3>1. n + 1 \in 1 .. n + 1 /\ n + 1 # 1 /\ (n + 1) - 1 = n
      BY <1>1, <1>4
    <3> QED BY <1>1, <1>2, <3>1 DEF IsFlattening
  <2> QED BY <1>2, <2>1, <2>5, <2>6 DEF tt
<1> QED BY <1>3, <1>4

=============================================================================

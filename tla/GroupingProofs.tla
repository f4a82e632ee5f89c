---------------------------- MODULE GroupingProofs ----------------------------
(***************************************************************************)
(* Proofs about Grouping: what a query without a diagnostic promises, and  *)
(* that only what is not grouped is reported.                              *)
(***************************************************************************)
EXTENDS Grouping, NaturalSetProofs

-----------------------------------------------------------------------------
(* Trees.                                                                   *)

LEMMA Shapes ==
  ASSUME NEW e \in Expr
  PROVE  /\ e.kind # "call" => DOMAIN e.args = {} /\ ~e.over
         /\ \A i \in DOMAIN e.args : e.args[i] \in Expr /\ Depth[e.args[i]] < Depth[e]
BY TreesAssumption

\* The nodes of a tree are those of its arguments and itself.
LEMMA NodesEquation ==
  /\ Nodes \in [Expr -> SUBSET Expr]
  /\ \A e \in Expr : Nodes[e] = {e} \cup UNION {Nodes[e.args[i]] : i \in DOMAIN e.args}
<1> DEFINE V == SUBSET Expr
           Below == [e \in Expr |-> {e.args[i] : i \in DOMAIN e.args}]
           Body(e, f) == {e} \cup UNION {f[e.args[i]] : i \in DOMAIN e.args}
           Step == [p \in Expr \X [Expr -> V] |-> Body(p[1], p[2])]
<1>1. Depth \in [Expr -> Nat]
  BY TreesAssumption
<1>2. \A e \in Expr : \A i \in DOMAIN e.args : e.args[i] \in Expr /\ Depth[e.args[i]] < Depth[e]
  BY Shapes
<1>3. Below \in [Expr -> SUBSET Expr] /\ \A e \in Expr : \A y \in Below[e] : Depth[y] < Depth[e]
  BY <1>2
<1>4. ASSUME NEW e \in Expr, NEW f \in [Expr -> V] PROVE Body(e, f) \in V
  <2>1. \A i \in DOMAIN e.args : f[e.args[i]] \in SUBSET Expr
    BY <1>2
  <2> QED BY <2>1
<1>5. ASSUME NEW e \in Expr, NEW f, NEW g, \A y \in Below[e] : f[y] = g[y]
      PROVE  Body(e, f) = Body(e, g)
  <2>1. \A i \in DOMAIN e.args : f[e.args[i]] = g[e.args[i]]
    BY <1>5
  <2> QED BY <2>1
<1> HIDE DEF Body
<1>6. Step \in [Expr \X [Expr -> V] -> V]
  BY <1>4
<1>7. \A e \in Expr : \A f \in [Expr -> V] : Step[<<e, f>>] = Body(e, f)
  OBVIOUS
<1>8. V # {}
  OBVIOUS
<1> HIDE DEF Step, V, Below
<1>9. PICK f \in [Expr -> V] : f = [e \in Expr |-> Step[<<e, f>>]]
  <2>1. \A e \in Expr : \A f, g \in [Expr -> V] :
          (\A y \in Below[e] : f[y] = g[y]) => Step[<<e, f>>] = Step[<<e, g>>]
    BY <1>5, <1>7
  <2>2. IsRecursion(Expr, V, Depth, Below, Step)
    BY <1>1, <1>3, <1>6, <1>8, <2>1 DEF IsRecursion
  <2> QED BY <2>2, RecursionExists
<1>10. f = [e \in Expr |-> Body(e, f)]
  <2>1. \A e \in Expr : f[e] = Body(e, f)
    BY <1>7, <1>9
  <2> QED BY <2>1
<1>11. Nodes = [e \in Expr |-> Body(e, Nodes)]
  BY <1>10 DEF Nodes, Body
<1>12. \A e \in Expr : Nodes[e] = Body(e, Nodes)
  BY <1>11
<1>13. \A e \in Expr : Nodes[e] \subseteq Expr
  <2> DEFINE P == {e \in Expr : Nodes[e] \subseteq Expr}
  <2>1. ASSUME NEW e \in Expr, \A y \in Expr : Depth[y] < Depth[e] => y \in P PROVE e \in P
    <3>1. \A i \in DOMAIN e.args : Nodes[e.args[i]] \subseteq Expr
      BY <1>2, <2>1
    <3> QED BY <1>12, <3>1 DEF Body
  <2>2. \A e \in Expr : (\A y \in Expr : Depth[y] < Depth[e] => y \in P) => e \in P
    BY <2>1
  <2> HIDE DEF P
  <2>3. Expr \subseteq P
    BY <1>1, <2>2, DepthInduction
  <2> QED BY <2>3 DEF P
<1> QED BY <1>11, <1>12, <1>13 DEF Body

\* The nodes of a node are nodes.
LEMMA NodesClosed ==
  ASSUME NEW e \in Expr
  PROVE  /\ e \in Nodes[e]
         /\ Nodes[e] \subseteq Expr
         /\ \A x \in Nodes[e] : Nodes[x] \subseteq Nodes[e]
         /\ \A x \in Nodes[e] : \A i \in DOMAIN x.args :
              /\ x.args[i] \in Nodes[e]
              /\ Nodes[x.args[i]] \subseteq Nodes[x]
<1> DEFINE P == {x \in Expr : \A y \in Nodes[x] : Nodes[y] \subseteq Nodes[x]}
<1>1. \A x \in Expr : x \in Nodes[x] /\ Nodes[x] \subseteq Expr
  BY NodesEquation
<1>2. \A x \in Expr : \A i \in DOMAIN x.args :
        x.args[i] \in Expr /\ Nodes[x.args[i]] \subseteq Nodes[x]
  BY NodesEquation, Shapes
<1>3. ASSUME NEW x \in Expr, \A y \in Expr : Depth[y] < Depth[x] => y \in P PROVE x \in P
  <2> SUFFICES ASSUME NEW y \in Nodes[x] PROVE Nodes[y] \subseteq Nodes[x]
    OBVIOUS
  <2>1. CASE y = x
    BY <2>1
  <2>2. CASE y # x
    <3>1. PICK i \in DOMAIN x.args : y \in Nodes[x.args[i]]
      BY <2>2, NodesEquation
    <3>2. x.args[i] \in P
      BY <1>3, Shapes
    <3> QED BY <1>2, <3>1, <3>2
  <2> QED BY <2>1, <2>2
<1>4. \A x \in Expr : (\A y \in Expr : Depth[y] < Depth[x] => y \in P) => x \in P
  BY <1>3
<1> HIDE DEF P
<1>5. Expr \subseteq P
  <2>1. Depth \in [Expr -> Nat]
    BY TreesAssumption
  <2> QED BY <1>4, <2>1, DepthInduction
<1>6. \A x \in Nodes[e] : Nodes[x] \subseteq Nodes[e]
  BY <1>5 DEF P
<1>7. \A x \in Nodes[e] : \A i \in DOMAIN x.args :
        x.args[i] \in Nodes[e] /\ Nodes[x.args[i]] \subseteq Nodes[x]
  BY <1>1, <1>2, <1>6
<1> QED BY <1>1, <1>6, <1>7

\* What a function on the nodes of a tree is at a node, over what it is at its arguments.
IsNodeStep(e, V, At) ==
  V # {} /\ \A x \in Nodes[e] : \A arg \in [DOMAIN x.args -> V] : At[<<x, arg>>] \in V

IsTreeFunction(f, e, V, At) ==
  /\ f \in [Nodes[e] -> V]
  /\ f = [x \in Nodes[e] |-> At[<<x, [i \in DOMAIN x.args |-> f[x.args[i]]]>>]]

LEMMA TreeRecursion ==
  ASSUME NEW e \in Expr, NEW V, NEW At, IsNodeStep(e, V, At)
  PROVE  \E f : IsTreeFunction(f, e, V, At)
<1> DEFINE X == Nodes[e]
           depth == [x \in X |-> Depth[x]]
           Below == [x \in X |-> {x.args[i] : i \in DOMAIN x.args}]
           Args(x, f) == [i \in DOMAIN x.args |-> f[x.args[i]]]
           Step == [p \in X \X [X -> V] |-> At[<<p[1], Args(p[1], p[2])>>]]
<1>1. X \subseteq Expr /\ \A x \in X : \A i \in DOMAIN x.args : x.args[i] \in X
  BY NodesClosed
<1>2. depth \in [X -> Nat]
  BY <1>1, TreesAssumption
<1>3. \A x \in X : \A i \in DOMAIN x.args : Depth[x.args[i]] < Depth[x]
  BY <1>1, Shapes
<1> HIDE DEF X
<1>4. Below \in [X -> SUBSET X] /\ \A x \in X : \A y \in Below[x] : depth[y] < depth[x]
  BY <1>1, <1>3
<1>5. ASSUME NEW x \in X, NEW f \in [X -> V] PROVE Args(x, f) \in [DOMAIN x.args -> V]
  BY <1>1
<1>6. ASSUME NEW x \in X, NEW f, NEW g, \A y \in Below[x] : f[y] = g[y]
      PROVE  Args(x, f) = Args(x, g)
  <2>1. \A i \in DOMAIN x.args : f[x.args[i]] = g[x.args[i]]
    BY <1>6
  <2> QED BY <2>1
<1> HIDE DEF Args
<1>7. Step \in [X \X [X -> V] -> V]
  <2>1. \A x \in X : \A arg \in [DOMAIN x.args -> V] : At[<<x, arg>>] \in V
    BY DEF IsNodeStep, X
  <2> QED BY <1>5, <2>1
<1>8. \A x \in X : \A f \in [X -> V] : Step[<<x, f>>] = At[<<x, Args(x, f)>>]
  OBVIOUS
<1>9. V # {}
  BY DEF IsNodeStep
<1> HIDE DEF Step, Below, depth
<1>10. PICK f \in [X -> V] : f = [x \in X |-> Step[<<x, f>>]]
  <2>1. \A x \in X : \A f, g \in [X -> V] :
          (\A y \in Below[x] : f[y] = g[y]) => Step[<<x, f>>] = Step[<<x, g>>]
    <3> SUFFICES ASSUME NEW x \in X, NEW f \in [X -> V], NEW g \in [X -> V],
                        \A y \in Below[x] : f[y] = g[y]
                 PROVE  Step[<<x, f>>] = Step[<<x, g>>]
      OBVIOUS
    <3>1. Args(x, f) = Args(x, g)
      BY <1>6
    <3> QED BY <1>8, <3>1
  <2>2. IsRecursion(X, V, depth, Below, Step)
    BY <1>2, <1>4, <1>7, <1>9, <2>1 DEF IsRecursion
  <2> QED BY <2>2, RecursionExists
<1>11. f = [x \in X |-> At[<<x, Args(x, f)>>]]
  <2>1. \A x \in X : f[x] = At[<<x, Args(x, f)>>]
    BY <1>8, <1>10
  <2> QED BY <2>1
<1>12. IsTreeFunction(f, e, V, At)
  BY <1>10, <1>11 DEF IsTreeFunction, X, Args
<1> QED BY <1>12

\* What holds of a node when it holds of its arguments holds of all nodes of a tree.
LEMMA TreeInduction ==
  ASSUME NEW e \in Expr, NEW P,
         \A x \in Nodes[e] : (\A i \in DOMAIN x.args : x.args[i] \in P) => x \in P
  PROVE  Nodes[e] \subseteq P
<1> DEFINE X == Nodes[e]
           depth == [x \in X |-> Depth[x]]
<1>1. X \subseteq Expr /\ \A x \in X : \A i \in DOMAIN x.args : x.args[i] \in X
  BY NodesClosed
<1>2. \A x \in X : \A i \in DOMAIN x.args : Depth[x.args[i]] < Depth[x]
  BY <1>1, Shapes
<1> HIDE DEF X
<1>3. depth \in [X -> Nat]
  BY <1>1, TreesAssumption
<1>4. ASSUME NEW x \in X, \A y \in X : depth[y] < depth[x] => y \in P PROVE x \in P
  <2>1. \A i \in DOMAIN x.args : x.args[i] \in P
    BY <1>1, <1>2, <1>4
  <2> QED BY <2>1 DEF X
<1> HIDE DEF depth
<1>5. \A x \in X : (\A y \in X : depth[y] < depth[x] => y \in P) => x \in P
  BY <1>4
<1>6. X \subseteq P
  BY <1>3, <1>5, DepthInduction
<1> QED BY <1>6 DEF X

-----------------------------------------------------------------------------
(* What is computed on trees.                                               *)

\* A set of nodes of one tree for each node of another.
LEMMA NodeSets ==
  ASSUME NEW e \in Expr, NEW N, NEW At,
         \A x \in Nodes[e] : \A arg \in [DOMAIN x.args -> SUBSET N] : At[<<x, arg>>] \in SUBSET N
  PROVE  \E f : IsTreeFunction(f, e, SUBSET N, At)
<1>1. SUBSET N # {}
  OBVIOUS
<1> DEFINE V == SUBSET N
<1>2. IsNodeStep(e, V, At)
  BY <1>1 DEF IsNodeStep
<1> HIDE DEF V
<1>3. \E f : IsTreeFunction(f, e, V, At)
  BY <1>2, TreeRecursion
<1> QED BY <1>3 DEF V

EqualAt(x, k, below) ==
  {y \in Nodes[k] :
     IF {x.kind, y.kind} = {"reference"} THEN KeyMatches(KeyOfNode(y), x)
     ELSE SameNode(x, y) /\ \A i \in DOMAIN x.args : y.args[i] \in below[i]}

IsEquality(f, e, k) ==
  f = [x \in Nodes[e] |->
         {y \in Nodes[k] :
            IF {x.kind, y.kind} = {"reference"} THEN KeyMatches(KeyOfNode(y), x)
            ELSE SameNode(x, y) /\ \A i \in DOMAIN x.args : y.args[i] \in f[x.args[i]]}]

LEMMA EqualityAt ==
  ASSUME NEW e, NEW k, NEW f, IsEquality(f, e, k), NEW x \in Nodes[e], NEW y
  PROVE  y \in f[x] <=>
           /\ y \in Nodes[k]
           /\ IF {x.kind, y.kind} = {"reference"} THEN KeyMatches(KeyOfNode(y), x)
              ELSE SameNode(x, y) /\ \A i \in DOMAIN x.args : y.args[i] \in f[x.args[i]]
<1>1. f[x] = {z \in Nodes[k] :
               IF {x.kind, z.kind} = {"reference"} THEN KeyMatches(KeyOfNode(z), x)
               ELSE SameNode(x, z) /\ \A i \in DOMAIN x.args : z.args[i] \in f[x.args[i]]}
  BY DEF IsEquality
<1> HIDE DEF IsEquality
<1> QED BY <1>1

LEMMA EqualityExists ==
  ASSUME NEW e \in Expr, NEW k
  PROVE  \E f : IsEquality(f, e, k) /\ (GroupExprEqual(e, k) <=> k \in f[e])
<1> DEFINE N == Nodes[k]
           Pairs == UNION {{x} \X [DOMAIN x.args -> SUBSET N] : x \in Nodes[e]}
           At == [p \in Pairs |-> EqualAt(p[1], k, p[2])]
           Is(f) == IsEquality(f, e, k)
<1>1. ASSUME NEW x \in Nodes[e], NEW arg \in [DOMAIN x.args -> SUBSET N]
      PROVE  At[<<x, arg>>] = EqualAt(x, k, arg) /\ At[<<x, arg>>] \in SUBSET N
  <2>1. <<x, arg>> \in Pairs
    OBVIOUS
  <2>2. At[<<x, arg>>] = EqualAt(x, k, arg)
    BY <2>1
  <2> QED BY <2>2 DEF EqualAt
<1> HIDE DEF At
<1>2. PICK f : IsTreeFunction(f, e, SUBSET N, At)
  <2> HIDE DEF N
  <2>1. \A x \in Nodes[e] : \A arg \in [DOMAIN x.args -> SUBSET N] : At[<<x, arg>>] \in SUBSET N
    BY <1>1
  <2> QED BY <2>1, NodeSets
<1>3. Is(f)
  <2>1. f \in [Nodes[e] -> SUBSET N]
        /\ f = [x \in Nodes[e] |-> At[<<x, [i \in DOMAIN x.args |-> f[x.args[i]]]>>]]
    BY <1>2 DEF IsTreeFunction
  <2>2. ASSUME NEW x \in Nodes[e]
        PROVE  f[x] = {y \in Nodes[k] :
            IF {x.kind, y.kind} = {"reference"} THEN KeyMatches(KeyOfNode(y), x)
            ELSE SameNode(x, y) /\ \A i \in DOMAIN x.args : y.args[i] \in f[x.args[i]]}
    <3> DEFINE arg == [i \in DOMAIN x.args |-> f[x.args[i]]]
    <3>1. arg \in [DOMAIN x.args -> SUBSET N]
      BY <2>1, NodesClosed
    <3>2. f[x] = EqualAt(x, k, arg)
      <4>1. f[x] = At[<<x, arg>>]
        BY <2>1
      <4> HIDE DEF arg, N
      <4> QED BY <4>1, <3>1, <1>1
    <3> QED BY <3>2 DEF EqualAt
  <2> QED BY <2>1, <2>2 DEF IsEquality
<1> DEFINE g == CHOOSE g : Is(g)
<1>4. Is(g)
  <2> HIDE DEF Is
  <2> QED BY <1>3
<1>5. GroupExprEqual(e, k) <=> k \in g[e]
  BY DEF GroupExprEqual, IsEquality
<1> HIDE DEF g
<1> QED BY <1>4, <1>5

\* A tree with an aggregate or a window function is equal to no tree without.
LEMMA EqualContain ==
  ASSUME NEW e \in Expr, NEW k \in Expr, GroupExprEqual(e, k)
  PROVE  /\ ContainsAggregate(e) => ContainsAggregate(k)
         /\ ContainsWindow(e) => ContainsWindow(k)
<1>1. PICK f : IsEquality(f, e, k) /\ k \in f[e]
  BY EqualityExists
<1> DEFINE P == {x \in Nodes[e] : \A y \in f[x] :
                   /\ ContainsAggregate(x) => ContainsAggregate(y)
                   /\ ContainsWindow(x) => ContainsWindow(y)}
<1>2. ASSUME NEW x \in Nodes[e], \A i \in DOMAIN x.args : x.args[i] \in P PROVE x \in P
  <2> SUFFICES ASSUME NEW y \in f[x]
               PROVE  /\ ContainsAggregate(x) => ContainsAggregate(y)
                      /\ ContainsWindow(x) => ContainsWindow(y)
    OBVIOUS
  <2>1. /\ y \in Nodes[k]
        /\ IF {x.kind, y.kind} = {"reference"} THEN KeyMatches(KeyOfNode(y), x)
           ELSE SameNode(x, y) /\ \A i \in DOMAIN x.args : y.args[i] \in f[x.args[i]]
    BY <1>1, EqualityAt
  <2>2. x \in Expr /\ y \in Expr /\ y \in Nodes[y]
    BY <2>1, NodesClosed
  <2>3. Nodes[x] = {x} \cup UNION {Nodes[x.args[i]] : i \in DOMAIN x.args}
    BY <2>2, NodesEquation
  <2>4. CASE {x.kind, y.kind} = {"reference"}
    <3>1. x.kind = "reference"
      BY <2>4
    <3>2. Nodes[x] = {x}
      BY <3>1, <2>2, <2>3, Shapes
    <3> QED BY <3>1, <3>2 DEF ContainsAggregate, ContainsWindow, IsAggregate, IsWindow
  <2>5. CASE {x.kind, y.kind} # {"reference"}
    <3>1. SameNode(x, y) /\ \A i \in DOMAIN x.args : y.args[i] \in f[x.args[i]]
      BY <2>1, <2>5
    <3>2. (IsAggregate(x) => IsAggregate(y)) /\ (IsWindow(x) => IsWindow(y))
      BY <3>1 DEF SameNode, IsAggregate, IsWindow
    <3>3. \A i \in DOMAIN x.args : i \in DOMAIN y.args /\ Nodes[y.args[i]] \subseteq Nodes[y]
      BY <2>2, <3>1, NodesClosed DEF SameNode
    <3>4. ASSUME NEW i \in DOMAIN x.args
          PROVE  /\ ContainsAggregate(x.args[i]) => ContainsAggregate(y)
                 /\ ContainsWindow(x.args[i]) => ContainsWindow(y)
      <4>1. /\ ContainsAggregate(x.args[i]) => ContainsAggregate(y.args[i])
            /\ ContainsWindow(x.args[i]) => ContainsWindow(y.args[i])
        BY <1>2, <3>1
      <4> QED BY <4>1, <3>3 DEF ContainsAggregate, ContainsWindow
    <3>5. \A n \in Nodes[x] : n = x \/ \E i \in DOMAIN x.args : n \in Nodes[x.args[i]]
      BY <2>3
    <3> QED BY <2>2, <3>2, <3>4, <3>5 DEF ContainsAggregate, ContainsWindow
  <2> QED BY <2>4, <2>5
<1> HIDE DEF P
<1>3. e \in P
  BY <1>2, TreeInduction, NodesClosed
<1> QED BY <1>1, <1>3 DEF P

Cases(e) == Nodes[e] \X BOOLEAN \X BOOLEAN

Codes == {"NestedAggregate", "NonGroupedColumn"}

Exempted(c) == c[2] \/ IsAggregate(c[1])
Inside(c) == IsAggregate(c[1]) \/ (c[3] /\ ~IsWindow(c[1]))

IsKeyed(x, keys) == \E k \in keys : k.node # None /\ GroupExprEqual(x, k.node)

CheckAt(c, keys, f) ==
  IF ~c[2] /\ IsKeyed(c[1], keys) THEN {}
  ELSE IF c[1].kind = "reference"
  THEN IF c[2] \/ \E k \in keys : KeyMatches(k, c[1]) THEN {} ELSE {"NonGroupedColumn"}
  ELSE (IF IsAggregate(c[1]) /\ c[3] THEN {"NestedAggregate"} ELSE {})
         \cup UNION {f[<<c[1].args[i], Exempted(c), Inside(c)>>] : i \in DOMAIN c[1].args}

IsCheck(f, e, keys) ==
  f \in [Cases(e) -> SUBSET Codes] /\ \A c \in Cases(e) : f[c] = CheckAt(c, keys, f)

LEMMA CasesClosed ==
  ASSUME NEW e \in Expr, NEW c \in Cases(e)
  PROVE  /\ c[1] \in Nodes[e] /\ c[1] \in Expr /\ c[2] \in BOOLEAN /\ c[3] \in BOOLEAN
         /\ \A i \in DOMAIN c[1].args :
              /\ <<c[1].args[i], Exempted(c), Inside(c)>> \in Cases(e)
              /\ Depth[c[1].args[i]] < Depth[c[1]]
<1>1. c[1] \in Nodes[e] /\ c[2] \in BOOLEAN /\ c[3] \in BOOLEAN
  BY DEF Cases
<1>2. c[1] \in Expr /\ \A i \in DOMAIN c[1].args : c[1].args[i] \in Nodes[e]
  BY <1>1, NodesClosed
<1>3. Exempted(c) \in BOOLEAN /\ Inside(c) \in BOOLEAN
  BY <1>1 DEF Exempted, Inside, IsAggregate, IsWindow
<1> QED BY <1>1, <1>2, <1>3, Shapes DEF Cases

LEMMA CheckExists ==
  ASSUME NEW e \in Expr, NEW keys
  PROVE  \E f : IsCheck(f, e, keys) /\ CheckGroupingExpr(e, keys) = f[<<e, FALSE, FALSE>>]
<1> DEFINE C == Cases(e)
           V == SUBSET Codes
           depth == [c \in C |-> Depth[c[1]]]
           Below == [c \in C |-> {<<c[1].args[i], Exempted(c), Inside(c)>> : i \in DOMAIN c[1].args}]
           Step == [p \in C \X [C -> V] |-> CheckAt(p[1], keys, p[2])]
           Is(f) == f = [c \in C |-> CheckAt(c, keys, f)]
<1>1. \A c \in C : /\ c[1] \in Expr
                   /\ \A i \in DOMAIN c[1].args :
                        /\ <<c[1].args[i], Exempted(c), Inside(c)>> \in C
                        /\ Depth[c[1].args[i]] < Depth[c[1]]
  BY CasesClosed
<1> HIDE DEF C
<1>2. depth \in [C -> Nat] /\ V # {}
  BY <1>1, TreesAssumption
<1>3. Below \in [C -> SUBSET C] /\ \A c \in C : \A d \in Below[c] : depth[d] < depth[c]
  BY <1>1
<1>4. ASSUME NEW c \in C, NEW f \in [C -> V] PROVE CheckAt(c, keys, f) \in V
  <2>1. \A i \in DOMAIN c[1].args : f[<<c[1].args[i], Exempted(c), Inside(c)>>] \in SUBSET Codes
    BY <1>1
  <2> QED BY <2>1 DEF CheckAt, Codes
<1>5. ASSUME NEW c \in C, NEW f, NEW g, \A d \in Below[c] : f[d] = g[d]
      PROVE  CheckAt(c, keys, f) = CheckAt(c, keys, g)
  <2>1. \A i \in DOMAIN c[1].args :
          f[<<c[1].args[i], Exempted(c), Inside(c)>>] = g[<<c[1].args[i], Exempted(c), Inside(c)>>]
    BY <1>5
  <2>2. {f[<<c[1].args[i], Exempted(c), Inside(c)>>] : i \in DOMAIN c[1].args}
          = {g[<<c[1].args[i], Exempted(c), Inside(c)>>] : i \in DOMAIN c[1].args}
    BY <2>1
  <2> QED BY <2>2 DEF CheckAt
<1>6. Step \in [C \X [C -> V] -> V] /\ \A c \in C : \A f \in [C -> V] : Step[<<c, f>>] = CheckAt(c, keys, f)
  BY <1>4
<1> HIDE DEF Step, depth, Below, V
<1>7. IsRecursion(C, V, depth, Below, Step)
  <2>1. \A c \in C : \A f, g \in [C -> V] :
          (\A d \in Below[c] : f[d] = g[d]) => Step[<<c, f>>] = Step[<<c, g>>]
    BY <1>5, <1>6
  <2> QED BY <1>2, <1>3, <1>6, <2>1 DEF IsRecursion
<1>8. PICK f \in [C -> V] : f = [c \in C |-> Step[<<c, f>>]]
  BY <1>7, RecursionExists
<1>9. Is(f)
  <2>1. \A c \in C : f[c] = CheckAt(c, keys, f)
    BY <1>6, <1>8
  <2> QED BY <2>1
<1> DEFINE g == CHOOSE g : Is(g)
<1>10. Is(g)
  <2> HIDE DEF Is
  <2> QED BY <1>9
<1>11. CheckGroupingExpr(e, keys) = g[<<e, FALSE, FALSE>>]
  BY DEF CheckGroupingExpr, CheckAt, C, Cases, Exempted, Inside, IsKeyed
<1> HIDE DEF g
<1>12. \A c \in C : g[c] = CheckAt(c, keys, g)
  BY <1>10
<1>13. \A c \in C : g[c] \in V
  <2> DEFINE P == {c \in C : g[c] \in V}
  <2>1. ASSUME NEW c \in C, \A d \in C : depth[d] < depth[c] => d \in P PROVE c \in P
    <3>1. \A i \in DOMAIN c[1].args : g[<<c[1].args[i], Exempted(c), Inside(c)>>] \in SUBSET Codes
      BY <1>1, <2>1 DEF depth, V
    <3>2. g[c] = CheckAt(c, keys, g)
      BY <1>12
    <3> DEFINE below == UNION {g[<<c[1].args[i], Exempted(c), Inside(c)>>] : i \in DOMAIN c[1].args}
    <3>3. below \subseteq Codes
      BY <3>1
    <3> HIDE DEF g
    <3>4. CheckAt(c, keys, g) \in {{}, {"NonGroupedColumn"}, below, {"NestedAggregate"} \cup below}
      BY DEF CheckAt
    <3> HIDE DEF below
    <3> QED BY <3>2, <3>3, <3>4 DEF V, Codes
  <2>2. \A c \in C : (\A d \in C : depth[d] < depth[c] => d \in P) => c \in P
    BY <2>1
  <2> HIDE DEF P
  <2>3. C \subseteq P
    BY <1>2, <2>2, DepthInduction
  <2> QED BY <2>3 DEF P
<1>14. g \in [C -> V]
  BY <1>10, <1>13
<1>15. IsCheck(g, e, keys)
  BY <1>12, <1>14 DEF IsCheck, C, V
<1> QED BY <1>11, <1>15

LEMMA CasesInduction ==
  ASSUME NEW e \in Expr, NEW P,
         \A c \in Cases(e) :
           (\A i \in DOMAIN c[1].args : <<c[1].args[i], Exempted(c), Inside(c)>> \in P) => c \in P
  PROVE  Cases(e) \subseteq P
<1> DEFINE C == Cases(e)
           depth == [c \in C |-> Depth[c[1]]]
<1>1. \A c \in C : /\ c[1] \in Expr
                   /\ \A i \in DOMAIN c[1].args :
                        /\ <<c[1].args[i], Exempted(c), Inside(c)>> \in C
                        /\ Depth[c[1].args[i]] < Depth[c[1]]
  BY CasesClosed
<1>2. depth \in [C -> Nat]
  BY <1>1, TreesAssumption
<1>3. ASSUME NEW c \in C, \A d \in C : depth[d] < depth[c] => d \in P PROVE c \in P
  <2>1. \A i \in DOMAIN c[1].args : <<c[1].args[i], Exempted(c), Inside(c)>> \in P
    <3> HIDE DEF C
    <3> QED BY <1>1, <1>3
  <2> QED BY <2>1
<1>4. \A c \in C : (\A d \in C : depth[d] < depth[c] => d \in P) => c \in P
  BY <1>3
<1> HIDE DEF depth, C
<1>5. C \subseteq P
  BY <1>2, <1>4, DepthInduction
<1> QED BY <1>5 DEF C

\* An aggregate of rows, not of groups or windows.
ReadsRows(e) ==
  \A n \in Nodes[e] : IsAggregate(n) =>
    \A i \in DOMAIN n.args : ~ContainsAggregate(n.args[i]) /\ ~ContainsWindow(n.args[i])

\* The keys that the check compares trees with.
KeysOfTrees(keys) == \A k \in keys : k.node # None => k.node \in Expr

LEMMA NestedIsReported ==
  ASSUME NEW e \in Expr, NEW keys, KeysOfTrees(keys),
         \A k \in keys : k.node # None => ~ContainsAggregate(k.node),
         "NestedAggregate" \notin CheckGroupingExpr(e, keys), ~WindowInAggregate(e)
  PROVE  ReadsRows(e)
<1>1. PICK f : IsCheck(f, e, keys) /\ CheckGroupingExpr(e, keys) = f[<<e, FALSE, FALSE>>]
  BY CheckExists
<1> DEFINE Silent(c) == "NestedAggregate" \notin f[c] /\ (c[3] => c[2])
           Rows1(n) == /\ IsAggregate(n)
                       /\ \A i \in DOMAIN n.args : ~ContainsWindow(n.args[i])
                       => \A i \in DOMAIN n.args : ~ContainsAggregate(n.args[i])
           Holds(c) == /\ c[3] /\ ~ContainsWindow(c[1]) => ~ContainsAggregate(c[1])
                       /\ \A n \in Nodes[c[1]] : Rows1(n)
           P == {c \in Cases(e) : Silent(c) => Holds(c)}
<1>2. ASSUME NEW c \in Cases(e),
             \A i \in DOMAIN c[1].args : <<c[1].args[i], Exempted(c), Inside(c)>> \in P,
             Silent(c)
      PROVE  Holds(c)
  <2> DEFINE x == c[1]
             child(i) == <<x.args[i], Exempted(c), Inside(c)>>
  <2>1. x \in Expr /\ c[2] \in BOOLEAN /\ c[3] \in BOOLEAN /\ \A i \in DOMAIN x.args : child(i) \in Cases(e)
    BY CasesClosed
  <2>2. f[c] = CheckAt(c, keys, f)
    BY <1>1 DEF IsCheck
  <2>3. x \in Nodes[x] /\ \A n \in Nodes[x] : n = x \/ \E i \in DOMAIN x.args : n \in Nodes[x.args[i]]
    BY <2>1, NodesEquation
  <2>4. CASE ~c[2] /\ IsKeyed(x, keys)
    <3>1. PICK k \in keys : k.node # None /\ GroupExprEqual(x, k.node)
      BY <2>4 DEF IsKeyed
    <3>2. k.node \in Expr /\ ~ContainsAggregate(k.node)
      BY <3>1 DEF KeysOfTrees
    <3>3. ~ContainsAggregate(x)
      BY <2>1, <3>1, <3>2, EqualContain
    <3>4. \A n \in Nodes[x] : ~IsAggregate(n)
      BY <3>3 DEF ContainsAggregate
    <3> QED BY <3>3, <3>4
  <2>5. CASE x.kind = "reference"
    <3>1. Nodes[x] = {x} /\ ~IsAggregate(x)
      <4>1. DOMAIN x.args = {}
        BY <2>1, <2>5, Shapes
      <4> QED BY <2>3, <2>5, <4>1 DEF IsAggregate
    <3> QED BY <3>1 DEF ContainsAggregate
  <2>6. CASE ~(~c[2] /\ IsKeyed(x, keys)) /\ x.kind # "reference"
    <3>1. /\ ~(IsAggregate(x) /\ c[3])
          /\ \A i \in DOMAIN x.args : "NestedAggregate" \notin f[child(i)]
      <4>1. f[c] = (IF IsAggregate(x) /\ c[3] THEN {"NestedAggregate"} ELSE {})
                     \cup UNION {f[child(i)] : i \in DOMAIN x.args}
        BY <2>2, <2>6 DEF CheckAt
      <4> QED BY <1>2, <4>1
    <3>2. Inside(c) => Exempted(c)
      BY <1>2 DEF Inside, Exempted
    <3>3. ASSUME NEW i \in DOMAIN x.args PROVE Holds(child(i))
      <4>1. child(i) \in P /\ Silent(child(i))
        BY <1>2, <3>1, <3>2
      <4> HIDE DEF Silent, Holds, child
      <4> QED BY <4>1
    <3>4. \A i \in DOMAIN x.args :
            /\ Inside(c) /\ ~ContainsWindow(x.args[i]) => ~ContainsAggregate(x.args[i])
            /\ \A n \in Nodes[x.args[i]] : Rows1(n)
      BY <3>3
    <3>5. Rows1(x)
      BY <3>4 DEF Inside
    <3>6. \A n \in Nodes[x] : Rows1(n)
      <4> HIDE DEF Rows1
      <4> QED BY <2>3, <3>4, <3>5
    <3>7. ASSUME c[3], ~ContainsWindow(x) PROVE ~ContainsAggregate(x)
      <4>1. ~IsAggregate(x) /\ ~IsWindow(x)
        BY <2>3, <3>1, <3>7 DEF ContainsWindow
      <4>2. Inside(c)
        BY <3>7, <4>1 DEF Inside
      <4>3. \A i \in DOMAIN x.args : ~ContainsWindow(x.args[i])
        BY <2>1, <3>7, NodesEquation DEF ContainsWindow
      <4>4. \A i \in DOMAIN x.args : ~ContainsAggregate(x.args[i])
        BY <3>4, <4>2, <4>3
      <4> QED BY <2>3, <4>1, <4>4 DEF ContainsAggregate
    <3> QED BY <3>6, <3>7
  <2> QED BY <2>4, <2>5, <2>6
<1>3. Cases(e) \subseteq P
  <2>1. \A c \in Cases(e) :
          (\A i \in DOMAIN c[1].args : <<c[1].args[i], Exempted(c), Inside(c)>> \in P) => c \in P
    <3> HIDE DEF Silent, Holds
    <3> QED BY <1>2
  <2> HIDE DEF P
  <2> QED BY <2>1, CasesInduction
<1>4. <<e, FALSE, FALSE>> \in P /\ Silent(<<e, FALSE, FALSE>>)
  <2>1. <<e, FALSE, FALSE>> \in Cases(e)
    BY NodesClosed DEF Cases
  <2> HIDE DEF P
  <2> QED BY <1>1, <1>3, <2>1
<1>5. \A n \in Nodes[e] : Rows1(n)
  BY <1>4
<1> QED BY <1>5 DEF ReadsRows, WindowInAggregate

-----------------------------------------------------------------------------
(* References.                                                              *)

LEMMA LeastIn ==
  ASSUME NEW S \in SUBSET Nat, S # {}
  PROVE  LeastOf(S) \in S
<1>1. \E x \in S : \A y \in S : x <= y
  BY LeastExists
<1> QED BY <1>1 DEF LeastOf

\* The columns of the FROM clause.
Bases == UNION {{i} \X DOMAIN relations[i].columns : i \in DOMAIN relations}

At(p) == relations[p[1]].columns[p[2]]

\* What a reference may refer to.
Fits(e, p) ==
  p \in Bases /\ At(p).name = e.name /\ e.qualifier \in {NoQualifier, relations[p[1]].qualifier}

LEMMA FromFacts ==
  ASSUME relations \in FromClauses
  PROVE  /\ \E n \in Nat : DOMAIN relations = 1 .. n
         /\ \A i \in DOMAIN relations :
              /\ \E n \in Nat : DOMAIN relations[i].columns = 1 .. n
              /\ relations[i].qualifier # NoQualifier
              /\ \A j \in DOMAIN relations : relations[i].qualifier = relations[j].qualifier => i = j
         /\ \A p \in Bases :
              /\ p = <<p[1], p[2]>> /\ p[1] \in DOMAIN relations /\ p[2] \in DOMAIN relations[p[1]].columns
              /\ p[1] \in Nat /\ p[2] \in Nat
              /\ ~At(p).coalesced /\ ~At(p).merged /\ PlaceReference(p) \in Expr
              /\ \A q \in Bases : p[1] = q[1] /\ At(p).name = At(q).name => p = q
<1>1. \E n \in Nat : DOMAIN relations = 1 .. n
  BY FromAssumption
<1>2. ASSUME NEW i \in DOMAIN relations
      PROVE  /\ \E n \in Nat : DOMAIN relations[i].columns = 1 .. n
             /\ relations[i].qualifier # NoQualifier
             /\ \A j \in DOMAIN relations : relations[i].qualifier = relations[j].qualifier => i = j
             /\ \A j, k \in DOMAIN relations[i].columns :
                  relations[i].columns[j].name = relations[i].columns[k].name => j = k
             /\ \A j \in DOMAIN relations[i].columns :
                  /\ ~relations[i].columns[j].coalesced /\ ~relations[i].columns[j].merged
                  /\ Reference(relations[i].qualifier, relations[i].columns[j].name) \in Expr
  BY FromAssumption
<1>3. ASSUME NEW p \in Bases
      PROVE  /\ p = <<p[1], p[2]>> /\ p[1] \in DOMAIN relations /\ p[2] \in DOMAIN relations[p[1]].columns
             /\ p[1] \in Nat /\ p[2] \in Nat
  <2>1. p = <<p[1], p[2]>> /\ p[1] \in DOMAIN relations /\ p[2] \in DOMAIN relations[p[1]].columns
    BY DEF Bases
  <2> QED BY <1>1, <1>2, <2>1
<1>4. ASSUME NEW p \in Bases
      PROVE  /\ ~At(p).coalesced /\ ~At(p).merged /\ PlaceReference(p) \in Expr
             /\ \A q \in Bases : p[1] = q[1] /\ At(p).name = At(q).name => p = q
  <2>1. ~At(p).coalesced /\ ~At(p).merged /\ PlaceReference(p) \in Expr
    BY <1>2, <1>3 DEF At, PlaceReference
  <2>2. ASSUME NEW q \in Bases, p[1] = q[1], At(p).name = At(q).name PROVE p = q
    <3>1. p[2] = q[2]
      BY <1>2, <1>3, <2>2 DEF At
    <3> QED BY <1>3, <2>2, <3>1
  <2> QED BY <2>1, <2>2
<1> QED BY <1>1, <1>2, <1>3, <1>4

\* In one relation.
LEMMA NamedOnce ==
  ASSUME relations \in FromClauses, NEW i \in DOMAIN relations, NEW name
  PROVE  /\ HasColumnNamed(relations[i], name) <=>
              \E j \in DOMAIN relations[i].columns : relations[i].columns[j].name = name
         /\ HasColumnNamed(relations[i], name) =>
              /\ <<i, FindColumnNamed(relations[i], name)>> \in Bases
              /\ At(<<i, FindColumnNamed(relations[i], name)>>).name = name
         /\ ~(CountColumn(relations[i], name) > 1)
<1> DEFINE at == PositionsOf(relations[i], name)
           first == FindColumnNamed(relations[i], name)
           shown == {j \in at : ~relations[i].columns[j].coalesced}
<1>1. at = {j \in DOMAIN relations[i].columns : relations[i].columns[j].name = name}
      /\ (HasColumnNamed(relations[i], name) <=> at # {})
  BY DEF PositionsOf, HasColumnNamed
<1>2. PICK n \in Nat : DOMAIN relations[i].columns = 1 .. n
  BY FromFacts
<1>3. at # {} => first \in at
  <2>1. at \in SUBSET Nat
    BY <1>1, <1>2
  <2>2. first = LeastOf(at)
    BY DEF FindColumnNamed, LeastOf
  <2> HIDE DEF at, first
  <2> QED BY <2>1, <2>2, LeastIn
<1>4. at # {} => <<i, first>> \in Bases /\ At(<<i, first>>).name = name
  <2> HIDE DEF first, at
  <2> QED BY <1>1, <1>3 DEF Bases, At
<1>5. \A j, k \in at : j = k
  <2> SUFFICES ASSUME NEW j \in at, NEW k \in at PROVE j = k
    OBVIOUS
  <2>1. <<i, j>> \in Bases /\ <<i, k>> \in Bases /\ At(<<i, j>>).name = At(<<i, k>>).name
    BY <1>1 DEF Bases, At
  <2>2. <<i, j>> = <<i, k>>
    <3> HIDE DEF at
    <3> QED BY <2>1, FromFacts
  <2> QED BY <2>2
<1>6. ~(Cardinality(shown) > 1)
  <2>1. \E j : shown \in SUBSET {j}
    <3> HIDE DEF at
    <3> QED BY <1>5
  <2>2. PICK j : shown \in SUBSET {j}
    BY <2>1
  <2> HIDE DEF shown
  <2>3. IsFiniteSet({j}) /\ Cardinality({j}) = 1
    BY FS_Singleton
  <2>4. IsFiniteSet(shown) /\ Cardinality(shown) <= Cardinality({j})
    BY <2>2, <2>3, FS_Subset
  <2>5. Cardinality(shown) \in Nat
    BY <2>4, FS_CardinalityType
  <2> QED BY <2>3, <2>4, <2>5
<1>7. CountColumn(relations[i], name) = Cardinality(shown)
  BY DEF CountColumn
<1> HIDE DEF first, shown
<1>8. HasColumnNamed(relations[i], name) <=>
        \E j \in DOMAIN relations[i].columns : relations[i].columns[j].name = name
  BY <1>1
<1> HIDE DEF at
<1> QED BY <1>1, <1>4, <1>6, <1>7, <1>8 DEF first

LEMMA MatchesAll ==
  ASSUME relations \in FromClauses, NEW name
  PROVE  /\ Matches(relations, name) = {i \in DOMAIN relations : HasColumnNamed(relations[i], name)}
         /\ Matches(relations, name) \in SUBSET Nat /\ IsFiniteSet(Matches(relations, name))
<1>1. ASSUME NEW i \in DOMAIN relations, HasColumnNamed(relations[i], name)
      PROVE  ~relations[i].columns[FindColumnNamed(relations[i], name)].coalesced
  <2>1. <<i, FindColumnNamed(relations[i], name)>> \in Bases
    BY <1>1, NamedOnce
  <2>2. ~At(<<i, FindColumnNamed(relations[i], name)>>).coalesced
    BY <2>1, FromFacts
  <2> QED BY <2>2 DEF At
<1>2. Matches(relations, name) = {i \in DOMAIN relations : HasColumnNamed(relations[i], name)}
  BY <1>1 DEF Matches
<1>3. PICK n \in Nat : DOMAIN relations = 1 .. n
  BY FromFacts
<1>4. IsFiniteSet(1 .. n)
  BY FS_Interval
<1> QED BY <1>2, <1>3, <1>4, FS_Subset

LEMMA BareAnswered ==
  ASSUME relations \in FromClauses, NEW name,
         NEW answer, answer = ResolveBare(<<relations>>, name)
  PROVE  /\ answer.status \in {"missing", "ambiguous", "found"}
         /\ answer.status = "missing" <=> Matches(relations, name) = {}
         /\ answer.status = "found" => \E i \in Matches(relations, name) :
              /\ \A k \in Matches(relations, name) : k = i
              /\ answer = Answer(1, i, FindColumnNamed(relations[i], name),
                                 BareNullable(relations[i], FindColumnNamed(relations[i], name)))
<1> DEFINE exposing == {s \in DOMAIN <<relations>> : Matches(<<relations>>[s], name) # {}}
           found == Matches(relations, name)
           i == LeastOf(found)
           j == FindColumnNamed(relations[i], name)
<1>1. DOMAIN <<relations>> = {1} /\ <<relations>>[1] = relations
  OBVIOUS
<1>2. exposing = IF found = {} THEN {} ELSE {1}
  BY <1>1
<1>3. LeastOf({1}) = 1
  BY DEF LeastOf
<1>4. CASE found = {}
  <2>1. answer = Unanswered("missing")
    BY <1>2, <1>4 DEF ResolveBare
  <2> QED BY <1>4, <2>1 DEF Unanswered
<1>5. CASE found # {}
  <2>1. exposing = {1} /\ LeastOf(exposing) = 1
    BY <1>2, <1>3, <1>5
  <2> DEFINE s == LeastOf(exposing)
  <2>2. <<relations>>[s] = relations
    BY <1>1, <2>1
  <2> DEFINE unsure == Cardinality(found) > 1 \/ \E r \in found : CountColumn(relations[r], name) > 1
  <2>3. answer = IF unsure THEN Unanswered("ambiguous")
                 ELSE Answer(s, i, j, BareNullable(relations[i], j))
    <3>1. exposing # {}
      BY <2>1
    <3> QED BY <2>2, <3>1 DEF ResolveBare
  <2>4. s = 1
    BY <2>1
  <2> HIDE DEF s, exposing, j
  <2>5. i \in found
    BY <1>5, MatchesAll, LeastIn
  <2>6. ~unsure => \A k \in found : k = i
    BY <2>5, MatchesAll, TwoAreMore
  <2> HIDE DEF unsure, i, found
  <2>7. CASE unsure
    <3>1. answer = Unanswered("ambiguous")
      BY <2>3, <2>7
    <3> QED BY <1>5, <3>1 DEF Unanswered, found
  <2>8. CASE ~unsure
    <3>1. answer = Answer(1, i, j, BareNullable(relations[i], j))
      BY <2>3, <2>4, <2>8
    <3>2. answer.status = "found"
      BY <3>1 DEF Answer
    <3> QED BY <1>5, <2>5, <2>6, <2>8, <3>1, <3>2 DEF found, j
  <2> QED BY <2>7, <2>8
<1> QED BY <1>4, <1>5

LEMMA QualifiedAnswered ==
  ASSUME relations \in FromClauses, NEW q, NEW name,
         NEW exposing, exposing = {k \in DOMAIN relations :
                                 relations[k].qualifier = q /\ HasColumnNamed(relations[k], name)},
         NEW answer, answer = ResolveQualified(<<relations>>, q, name)
  PROVE  /\ answer.status \in {"missing", "bad_qualifier", "found"}
         /\ answer.status = "found" <=> exposing # {}
         /\ answer.status = "found" => \E i \in exposing :
              answer = Answer(1, i, FindColumnNamed(relations[i], name),
                              QualifiedNullable(relations[i], FindColumnNamed(relations[i], name)))
<1> DEFINE addressed == {k \in DOMAIN relations : relations[k].qualifier = q}
           scopes == {s \in DOMAIN <<relations>> :
                        {k \in {k \in DOMAIN <<relations>>[s] : <<relations>>[s][k].qualifier = q} :
                           HasColumnNamed(<<relations>>[s][k], name)} # {}}
           bad == \A t \in DOMAIN <<relations>> :
                    {k \in DOMAIN <<relations>>[t] : <<relations>>[t][k].qualifier = q} = {}
           s == LeastOf(scopes)
           i == LeastOf(exposing)
           j == FindColumnNamed(relations[i], name)
<1>1. DOMAIN <<relations>> = {1} /\ <<relations>>[1] = relations
  OBVIOUS
<1>2. scopes = (IF exposing = {} THEN {} ELSE {1}) /\ (bad <=> addressed = {})
  BY <1>1
<1>3. LeastOf({1}) = 1
  BY DEF LeastOf
<1>4. CASE exposing = {}
  <2>1. answer \in {Unanswered("bad_qualifier"), Unanswered("missing")}
    <3>1. scopes = {}
      BY <1>2, <1>4
    <3>2. CASE bad
      BY <3>2 DEF ResolveQualified
    <3>3. CASE ~bad
      BY <3>1, <3>3 DEF ResolveQualified
    <3> QED BY <3>2, <3>3
  <2> HIDE DEF scopes, bad
  <2> QED BY <1>4, <2>1 DEF Unanswered
<1>5. CASE exposing # {}
  <2>1. scopes = {1} /\ s = 1 /\ ~bad
    <3>1. addressed # {}
      BY <1>5
    <3> QED BY <1>2, <1>3, <1>5, <3>1
  <2>2. <<relations>>[s] = relations
    BY <1>1, <2>1
  <2>3. exposing = {k \in {k \in DOMAIN <<relations>>[s] : <<relations>>[s][k].qualifier = q} :
                    HasColumnNamed(<<relations>>[s][k], name)}
    BY <2>2
  <2>4. answer = IF CountColumn(relations[i], name) > 1 THEN Unanswered("ambiguous")
                 ELSE Answer(s, i, j, QualifiedNullable(relations[i], j))
    <3>1. scopes # {}
      BY <2>1
    <3> QED BY <2>1, <2>2, <2>3, <3>1 DEF ResolveQualified
  <2>5. exposing \in SUBSET Nat
    <3>1. PICK n \in Nat : DOMAIN relations = 1 .. n
      BY FromFacts
    <3> QED BY <3>1
  <2>6. i \in exposing
    BY <1>5, <2>5, LeastIn
  <2> HIDE DEF scopes, bad, i, s
  <2>7. i \in DOMAIN relations
    BY <2>6
  <2>8. ~(CountColumn(relations[i], name) > 1)
    BY <2>7, NamedOnce
  <2>9. answer = Answer(1, i, j, QualifiedNullable(relations[i], j))
    <3> HIDE DEF j
    <3> QED BY <2>1, <2>4, <2>8
  <2> HIDE DEF j
  <2>10. answer.status = "found"
    BY <2>9 DEF Answer
  <2> QED BY <1>5, <2>6, <2>9, <2>10 DEF j
<1> QED BY <1>4, <1>5

Statuses == {"found", "missing", "ambiguous", "bad_qualifier"}

\* A reference is found if it can mean one column only, and means that one.
LEMMA Referring ==
  ASSUME relations \in FromClauses, NEW e
  PROVE  /\ Resolve(e).status \in Statuses
         /\ Resolve(e).status = "found" =>
              /\ Place(e) \in Bases /\ Fits(e, Place(e))
              /\ \A p : Fits(e, p) => p = Place(e)
              /\ Resolve(e).nullable = QualifiedNullable(relations[Place(e)[1]], Place(e)[2])
         /\ Resolve(e).status = "missing" => \A p : ~Fits(e, p)
<1> DEFINE answer == Resolve(e)
<1>1. ASSUME NEW p, Fits(e, p)
      PROVE  p[1] \in DOMAIN relations /\ HasColumnNamed(relations[p[1]], e.name)
  BY <1>1, FromFacts, NamedOnce DEF Fits, At
<1>2. ASSUME NEW i \in DOMAIN relations, HasColumnNamed(relations[i], e.name),
             NEW j, j = FindColumnNamed(relations[i], e.name),
             e.qualifier \in {NoQualifier, relations[i].qualifier},
             answer.relation = i, answer.column = j,
             answer.nullable = QualifiedNullable(relations[i], j),
             \A p : Fits(e, p) => p[1] = i
      PROVE  /\ Place(e) \in Bases /\ Fits(e, Place(e))
             /\ \A p : Fits(e, p) => p = Place(e)
             /\ Resolve(e).nullable = QualifiedNullable(relations[Place(e)[1]], Place(e)[2])
  <2>1. Place(e) = <<i, j>>
    BY <1>2 DEF Place
  <2>2. <<i, j>> \in Bases /\ At(<<i, j>>).name = e.name
    BY <1>2, NamedOnce
  <2>3. Fits(e, <<i, j>>)
    BY <1>2, <2>2 DEF Fits
  <2>4. ASSUME NEW p, Fits(e, p) PROVE p = <<i, j>>
    <3>1. p \in Bases /\ At(p).name = At(<<i, j>>).name /\ p[1] = i
      BY <1>2, <2>2, <2>4 DEF Fits
    <3> QED BY <2>2, <3>1, FromFacts
  <2> QED BY <1>2, <2>1, <2>2, <2>3, <2>4
<1>3. CASE e.qualifier = NoQualifier
  <2>1. answer = ResolveBare(<<relations>>, e.name)
    BY <1>3 DEF Resolve
  <2>2. /\ answer.status \in {"missing", "ambiguous", "found"}
        /\ answer.status = "missing" <=> Matches(relations, e.name) = {}
        /\ answer.status = "found" => \E i \in Matches(relations, e.name) :
             /\ \A k \in Matches(relations, e.name) : k = i
             /\ answer = Answer(1, i, FindColumnNamed(relations[i], e.name),
                                BareNullable(relations[i], FindColumnNamed(relations[i], e.name)))
    <3> HIDE DEF answer
    <3> QED BY <2>1, BareAnswered
  <2>3. Matches(relations, e.name) = {i \in DOMAIN relations : HasColumnNamed(relations[i], e.name)}
    BY MatchesAll
  <2> HIDE DEF answer
  <2>4. answer.status = "missing" => \A p : ~Fits(e, p)
    BY <1>1, <2>2, <2>3
  <2>5. ASSUME answer.status = "found"
        PROVE  /\ Place(e) \in Bases /\ Fits(e, Place(e))
               /\ \A p : Fits(e, p) => p = Place(e)
               /\ Resolve(e).nullable = QualifiedNullable(relations[Place(e)[1]], Place(e)[2])
    <3>1. PICK i \in Matches(relations, e.name) :
            /\ \A k \in Matches(relations, e.name) : k = i
            /\ answer = Answer(1, i, FindColumnNamed(relations[i], e.name),
                               BareNullable(relations[i], FindColumnNamed(relations[i], e.name)))
      BY <2>2, <2>5
    <3> DEFINE j == FindColumnNamed(relations[i], e.name)
    <3>2. i \in DOMAIN relations /\ HasColumnNamed(relations[i], e.name)
      BY <2>3
    <3>3. <<i, j>> \in Bases
      BY <3>2, NamedOnce
    <3>4. BareNullable(relations[i], j) = QualifiedNullable(relations[i], j)
      <4>1. ~At(<<i, j>>).merged
        BY <3>3, FromFacts
      <4> QED BY <4>1 DEF BareNullable, QualifiedNullable, At
    <3>5. /\ answer.relation = i /\ answer.column = j
          /\ answer.nullable = QualifiedNullable(relations[i], j)
      BY <3>1, <3>4 DEF Answer
    <3>6. \A p : Fits(e, p) => p[1] = i
      BY <1>1, <2>3, <3>1
    <3> HIDE DEF j
    <3> QED BY <1>2, <1>3, <3>2, <3>5, <3>6 DEF j
  <2> QED BY <2>2, <2>4, <2>5 DEF answer, Statuses
<1>4. CASE e.qualifier # NoQualifier
  <2> DEFINE exposing == {k \in DOMAIN relations :
                            relations[k].qualifier = e.qualifier /\ HasColumnNamed(relations[k], e.name)}
  <2>1. answer = ResolveQualified(<<relations>>, e.qualifier, e.name)
    BY <1>4 DEF Resolve
  <2>2. /\ answer.status \in {"missing", "bad_qualifier", "found"}
        /\ answer.status = "found" <=> exposing # {}
        /\ answer.status = "found" => \E i \in exposing :
             answer = Answer(1, i, FindColumnNamed(relations[i], e.name),
                             QualifiedNullable(relations[i], FindColumnNamed(relations[i], e.name)))
    <3>1. exposing = {k \in DOMAIN relations :
                            relations[k].qualifier = e.qualifier /\ HasColumnNamed(relations[k], e.name)}
      OBVIOUS
    <3> HIDE DEF answer, exposing
    <3> QED BY <2>1, <3>1, QualifiedAnswered
  <2> HIDE DEF answer
  <2>3. ASSUME NEW p, Fits(e, p) PROVE p[1] \in exposing
    BY <1>1, <1>4, <2>3 DEF Fits
  <2>4. answer.status = "missing" => \A p : ~Fits(e, p)
    BY <2>2, <2>3
  <2>5. ASSUME answer.status = "found"
        PROVE  /\ Place(e) \in Bases /\ Fits(e, Place(e))
               /\ \A p : Fits(e, p) => p = Place(e)
               /\ Resolve(e).nullable = QualifiedNullable(relations[Place(e)[1]], Place(e)[2])
    <3>1. PICK i \in exposing :
            answer = Answer(1, i, FindColumnNamed(relations[i], e.name),
                            QualifiedNullable(relations[i], FindColumnNamed(relations[i], e.name)))
      BY <2>2, <2>5
    <3> DEFINE j == FindColumnNamed(relations[i], e.name)
    <3>2. i \in DOMAIN relations /\ HasColumnNamed(relations[i], e.name) /\ relations[i].qualifier = e.qualifier
      OBVIOUS
    <3>3. /\ answer.relation = i /\ answer.column = j
          /\ answer.nullable = QualifiedNullable(relations[i], j)
      BY <3>1 DEF Answer
    <3>4. \A p : Fits(e, p) => p[1] = i
      BY <2>3, FromFacts
    <3> HIDE DEF j, exposing
    <3> QED BY <1>2, <3>2, <3>3, <3>4 DEF j
  <2> QED BY <2>2, <2>4, <2>5 DEF answer, Statuses
<1> QED BY <1>3, <1>4

\* References of one name, at most one of them qualified or both alike, mean one column.
LEMMA OnePlace ==
  ASSUME relations \in FromClauses, NEW e, NEW k,
         Resolve(e).status = "found", Resolve(k).status = "found", e.name = k.name,
         NoQualifier \in {e.qualifier, k.qualifier} \/ e.qualifier = k.qualifier
  PROVE  Place(e) = Place(k)
<1>1. Fits(e, Place(e)) /\ Fits(k, Place(k))
  BY Referring
<1>2. Fits(k, Place(e)) \/ Fits(e, Place(k))
  BY <1>1 DEF Fits
<1> QED BY <1>2, Referring

LEMMA PlaceFound ==
  ASSUME relations \in FromClauses, NEW p \in Bases
  PROVE  /\ PlaceReference(p).kind = "reference"
         /\ PlaceReference(p).qualifier = relations[p[1]].qualifier
         /\ PlaceReference(p).name = At(p).name
         /\ PlaceReference(p) \in Expr
         /\ Resolve(PlaceReference(p)).status = "found" /\ Place(PlaceReference(p)) = p
<1> DEFINE e == PlaceReference(p)
<1>1. e.kind = "reference" /\ e.qualifier = relations[p[1]].qualifier /\ e.name = At(p).name
  BY DEF PlaceReference, Reference, Node, At
<1> HIDE DEF e
<1>2. p[1] \in DOMAIN relations /\ e.qualifier # NoQualifier /\ HasColumnNamed(relations[p[1]], e.name)
  <2>1. p[1] \in DOMAIN relations /\ p[2] \in DOMAIN relations[p[1]].columns
    BY FromFacts
  <2>2. relations[p[1]].qualifier # NoQualifier
    BY <2>1, FromFacts
  <2> QED BY <1>1, <2>1, <2>2, NamedOnce DEF At
<1>3. Resolve(e).status = "found"
  <2> DEFINE exposing == {k \in DOMAIN relations :
                            relations[k].qualifier = e.qualifier /\ HasColumnNamed(relations[k], e.name)}
             answer == Resolve(e)
  <2>1. p[1] \in exposing
    BY <1>1, <1>2
  <2>2. answer = ResolveQualified(<<relations>>, e.qualifier, e.name)
    BY <1>2 DEF Resolve
  <2> HIDE DEF answer
  <2>3. answer.status = "found" <=> exposing # {}
    <3>1. exposing = {k \in DOMAIN relations :
                            relations[k].qualifier = e.qualifier /\ HasColumnNamed(relations[k], e.name)}
      OBVIOUS
    <3> HIDE DEF exposing
    <3> QED BY <2>2, <3>1, QualifiedAnswered
  <2> QED BY <2>1, <2>3 DEF answer
<1>4. Fits(e, p)
  BY <1>1 DEF Fits
<1>5. Place(e) = p
  BY <1>3, <1>4, Referring
<1>6. e \in Expr
  BY FromFacts DEF e
<1> QED BY <1>1, <1>3, <1>5, <1>6 DEF e

-----------------------------------------------------------------------------
(* The state.                                                               *)

GroupParts == [expr : Keys, wrapper : {"none", "list", "sets"}]

Typed ==
  /\ relations \in FromClauses /\ clause \in 1 .. 6
  /\ select \in Seq(Items) /\ where \in Seq(Predicates) /\ having \in Seq(Predicates)
  /\ groupBy \in Seq(GroupParts) /\ orderBy \in Seq(OrderKeys)
  /\ groupBy # <<>> => clause >= 3
  /\ orderBy # <<>> => clause >= 5

\* The columns an item projects, as expressions.
ProjectionOf(item) ==
  IF item.expr.kind # "star" THEN <<item.expr>>
  ELSE [n \in DOMAIN StarColumns(item.expr) |-> PlaceReference(StarColumns(item.expr)[n])]

\* An output column is a column of a relation or an item of the list.
Corresponds(out, e) ==
  /\ DOMAIN out = {"name", "nullable", "id", "qualifier", "source"}
  /\ IF out.source = None
     THEN \E p \in Bases :
            /\ e = PlaceReference(p)
            /\ out.name = At(p).name /\ out.id = At(p).id /\ out.qualifier = relations[p[1]].qualifier
            /\ ~out.nullable => ~QualifiedNullable(relations[p[1]], p[2])
     ELSE /\ out.source = e /\ e \in Expr /\ e.kind # "star"
          /\ out.id = IdOf(e) /\ out.qualifier = NoQualifier
          /\ ~out.nullable => ~Nullable(e)

IsSeq(s) == s \in Seq(ToSet(s))

\* At the end a column is marked if it reads a key of subtotals.
Marked(out) == ~out.nullable => ~ReadsGroupingKey(out)

Aligned ==
  /\ IsSeq(output) /\ DOMAIN output = DOMAIN Projection
  /\ \A n \in DOMAIN output : \E out, e : out = output[n] /\ e = Projection[n] /\ Corresponds(out, e)
  /\ clause = 6 => \A n \in DOMAIN output : \E out : out = output[n] /\ Marked(out)

LEMMA Retyped ==
  ASSUME NEW S, NEW T, NEW s \in Seq(T), \A i \in DOMAIN s : s[i] \in S
  PROVE  s \in Seq(S)
<1>1. Len(s) \in Nat /\ s \in [1 .. Len(s) -> S]
  OBVIOUS
<1> QED BY <1>1, SeqDef

LEMMA SeqHas ==
  ASSUME NEW S, NEW s \in Seq(S)
  PROVE  IsSeq(s) /\ \E n \in Nat : DOMAIN s = 1 .. n /\ n = Len(s)
<1>1. \A i \in DOMAIN s : s[i] \in ToSet(s)
  BY DEF ToSet
<1>2. Len(s) \in Nat /\ DOMAIN s = 1 .. Len(s)
  OBVIOUS
<1> HIDE DEF ToSet
<1>3. s \in Seq(ToSet(s))
  BY <1>1, Retyped
<1> QED BY <1>2, <1>3 DEF IsSeq

LEMMA Concatenated ==
  ASSUME NEW s, NEW t, IsSeq(s), IsSeq(t)
  PROVE  /\ IsSeq(s \o t) /\ Len(s) \in Nat /\ Len(t) \in Nat
         /\ DOMAIN s = 1 .. Len(s) /\ DOMAIN t = 1 .. Len(t)
         /\ Len(s \o t) = Len(s) + Len(t) /\ DOMAIN (s \o t) = 1 .. Len(s) + Len(t)
         /\ \A i \in 1 .. Len(s) + Len(t) : (s \o t)[i] = IF i <= Len(s) THEN s[i] ELSE t[i - Len(s)]
<1> DEFINE S == ToSet(s) \cup ToSet(t)
<1>1. s \in Seq(S) /\ t \in Seq(S)
  <2>1. \A i \in DOMAIN s : s[i] \in S
    BY DEF ToSet
  <2>2. \A i \in DOMAIN t : t[i] \in S
    BY DEF ToSet
  <2>3. /\ s \in Seq(ToSet(s)) /\ DOMAIN s = 1 .. Len(s) /\ Len(s) \in Nat
        /\ t \in Seq(ToSet(t)) /\ DOMAIN t = 1 .. Len(t) /\ Len(t) \in Nat
    BY DEF IsSeq
  <2> HIDE DEF S
  <2> QED BY <2>1, <2>2, <2>3, Retyped
<1> HIDE DEF S
<1>2. /\ s \o t \in Seq(S) /\ Len(s \o t) = Len(s) + Len(t)
      /\ \A i \in 1 .. Len(s) + Len(t) : (s \o t)[i] = IF i <= Len(s) THEN s[i] ELSE t[i - Len(s)]
  BY <1>1, ConcatProperties
<1> QED BY <1>1, <1>2, SeqHas

LEMMA AppendedOne ==
  ASSUME NEW s, IsSeq(s), NEW x
  PROVE  Append(s, x) = s \o <<x>> /\ IsSeq(<<x>>) /\ Len(<<x>>) = 1
<1> DEFINE S == ToSet(s) \cup {x}
<1>1. s \in Seq(S)
  <2>1. \A i \in DOMAIN s : s[i] \in S
    BY DEF ToSet
  <2>2. s \in Seq(ToSet(s)) /\ DOMAIN s = 1 .. Len(s) /\ Len(s) \in Nat
    BY DEF IsSeq
  <2> HIDE DEF S
  <2> QED BY <2>1, <2>2, Retyped
<1>2. x \in S
  OBVIOUS
<1> HIDE DEF S
<1>3. <<x>> \in Seq(S) /\ Len(<<x>>) = 1
  BY <1>2
<1> QED BY <1>1, <1>2, <1>3, SeqHas, AppendIsConcat

LEMMA StarFacts ==
  ASSUME relations \in FromClauses, NEW star
  PROVE  /\ IsSeq(StarColumns(star))
         /\ ToSet(StarColumns(star)) = {p \in Bases : p[1] \in StarRelations(star)}
         /\ \A n \in DOMAIN StarColumns(star) : StarColumns(star)[n] \in Bases
<1> DEFINE row(i) == IF i \in StarRelations(star)
                     THEN [j \in DOMAIN relations[i].columns |-> <<i, j>>] ELSE <<>>
           rows == [i \in DOMAIN relations |-> row(i)]
           B == {p \in Bases : p[1] \in StarRelations(star)}
<1>1. ASSUME NEW i \in DOMAIN relations
      PROVE  row(i) \in Seq(Bases) /\ ToSet(row(i)) = {p \in B : p[1] = i}
  <2>1. CASE i \in StarRelations(star)
    <3>1. PICK m \in Nat : DOMAIN relations[i].columns = 1 .. m
      BY FromFacts
    <3>2. \A j \in 1 .. m : <<i, j>> \in Bases
      BY <3>1 DEF Bases
    <3>3. row(i) = [j \in 1 .. m |-> <<i, j>>]
      BY <2>1, <3>1
    <3>4. row(i) \in Seq(Bases)
      <4> HIDE DEF row
      <4> QED BY <3>2, <3>3
    <3>5. ToSet(row(i)) = {<<i, j>> : j \in 1 .. m}
      <4> HIDE DEF row
      <4> QED BY <3>3 DEF ToSet
    <3>6. ASSUME NEW p \in B, p[1] = i PROVE p \in {<<i, j>> : j \in 1 .. m}
      <4>1. p = <<p[1], p[2]>> /\ p[2] \in DOMAIN relations[p[1]].columns
        BY FromFacts
      <4> QED BY <3>1, <3>6, <4>1
    <3>7. ASSUME NEW j \in 1 .. m PROVE <<i, j>> \in {p \in B : p[1] = i}
      BY <2>1, <3>2
    <3> HIDE DEF row, B
    <3> QED BY <3>4, <3>5, <3>6, <3>7
  <2>2. CASE i \notin StarRelations(star)
    <3>1. row(i) = <<>>
      BY <2>2
    <3>2. {p \in B : p[1] = i} = {}
      BY <2>2
    <3> HIDE DEF row, B
    <3> QED BY <3>1, <3>2 DEF ToSet
  <2> QED BY <2>1, <2>2
<1> HIDE DEF row
<1>2. PICK n \in Nat : DOMAIN relations = 1 .. n
  BY FromFacts
<1>3. rows \in Seq(Seq(Bases)) /\ DOMAIN rows = DOMAIN relations
  BY <1>1, <1>2
<1>4. StarColumns(star) = FlattenSeq(rows)
  BY DEF StarColumns, row
<1>5. /\ StarColumns(star) \in Seq(Bases)
      /\ ToSet(StarColumns(star)) = UNION {ToSet(rows[i]) : i \in DOMAIN relations}
  <2> HIDE DEF rows
  <2> QED BY <1>3, <1>4, FlattenCovers
<1>6. \A i \in DOMAIN relations : ToSet(rows[i]) = {p \in B : p[1] = i}
  BY <1>1
<1>7. \A p \in B : p[1] \in DOMAIN relations
  BY FromFacts
<1> HIDE DEF rows, B
<1>8. UNION {ToSet(rows[i]) : i \in DOMAIN relations} = B
  BY <1>6, <1>7
<1> QED BY <1>5, <1>8, SeqHas DEF B

LEMMA ProjectionTyped ==
  ASSUME relations \in FromClauses, NEW item \in Items
  PROVE  ProjectionOf(item) \in Seq(Expr)
<1>1. CASE item.expr.kind # "star"
  <2>1. item.expr \in Expr
    BY QueryAssumption
  <2> QED BY <1>1, <2>1 DEF ProjectionOf
<1>2. CASE item.expr.kind = "star"
  <2> DEFINE s == StarColumns(item.expr)
  <2>1. IsSeq(s) /\ \A n \in DOMAIN s : s[n] \in Bases
    BY StarFacts
  <2>2. ProjectionOf(item) = [n \in DOMAIN s |-> PlaceReference(s[n])]
    BY <1>2 DEF ProjectionOf
  <2>3. PICK m \in Nat : DOMAIN s = 1 .. m
    BY <2>1, SeqHas DEF IsSeq
  <2> HIDE DEF s
  <2>4. \A n \in 1 .. m : PlaceReference(s[n]) \in Expr
    BY <2>1, <2>3, FromFacts
  <2> QED BY <2>2, <2>3, <2>4
<1> QED BY <1>1, <1>2

LEMMA ProjectionParts ==
  ASSUME relations \in FromClauses, select \in Seq(Items)
  PROVE  /\ [i \in DOMAIN select |-> ProjectionOf(select[i])] \in Seq(Seq(Expr))
         /\ Projection = FlattenSeq([i \in DOMAIN select |-> ProjectionOf(select[i])])
         /\ Projection \in Seq(Expr)
         /\ ToSet(Projection) = UNION {ToSet(ProjectionOf(select[i])) : i \in DOMAIN select}
<1> DEFINE parts == [i \in DOMAIN select |-> ProjectionOf(select[i])]
<1>1. parts \in Seq(Seq(Expr)) /\ DOMAIN parts = DOMAIN select
  <2>1. \A i \in DOMAIN select : ProjectionOf(select[i]) \in Seq(Expr)
    BY ProjectionTyped
  <2>2. DOMAIN select = 1 .. Len(select) /\ Len(select) \in Nat
    OBVIOUS
  <2> DEFINE S == Seq(Expr)
  <2>3. \A i \in 1 .. Len(select) : ProjectionOf(select[i]) \in S
    BY <2>1, <2>2
  <2> HIDE DEF S
  <2>4. parts \in Seq(S)
    BY <2>2, <2>3
  <2> QED BY <2>4 DEF S
<1>2. Projection = FlattenSeq(parts)
  BY DEF Projection, ProjectionOf
<1>3. \A i \in DOMAIN select : ToSet(parts[i]) = ToSet(ProjectionOf(select[i]))
  OBVIOUS
<1> HIDE DEF parts
<1>4. Projection \in Seq(Expr) /\ ToSet(Projection) = UNION {ToSet(parts[i]) : i \in DOMAIN parts}
  BY <1>1, <1>2, FlattenCovers
<1>5. {ToSet(parts[i]) : i \in DOMAIN parts} = {ToSet(ProjectionOf(select[i])) : i \in DOMAIN select}
  BY <1>1, <1>3
<1> QED BY <1>1, <1>2, <1>4, <1>5 DEF parts

LEMMA ProjectionGrows ==
  ASSUME relations \in FromClauses, select \in Seq(Items), NEW item \in Items,
         relations' = relations, select' = Append(select, item)
  PROVE  Projection' = Projection \o ProjectionOf(item)
<1> DEFINE parts == [i \in DOMAIN select |-> ProjectionOf(select[i])]
           new == [i \in DOMAIN select' |-> ProjectionOf(select'[i])]
<1>1. parts \in Seq(Seq(Expr)) /\ ProjectionOf(item) \in Seq(Expr) /\ Projection = FlattenSeq(parts)
  BY ProjectionParts, ProjectionTyped
<1>2. Projection' = FlattenSeq(new)
  BY DEF Projection, ProjectionOf, StarColumns, StarRelations, PlaceReference
<1>3. new = Append(parts, ProjectionOf(item))
  <2>1. /\ DOMAIN select = 1 .. Len(select) /\ Len(select) \in Nat
        /\ DOMAIN select' = 1 .. Len(select) + 1
        /\ select'[Len(select) + 1] = item /\ \A i \in DOMAIN select : select'[i] = select[i]
    OBVIOUS
  <2>2. Len(parts) = Len(select) /\ DOMAIN parts = 1 .. Len(select)
    BY <2>1
  <2> DEFINE app == Append(parts, ProjectionOf(item))
  <2>3. app = [i \in 1 .. Len(select) + 1 |-> IF i <= Len(select) THEN parts[i] ELSE ProjectionOf(item)]
    <3> HIDE DEF parts
    <3>1. DOMAIN app = 1 .. Len(select) + 1
      BY <1>1, <2>1, <2>2
    <3>2. \A i \in 1 .. Len(select) + 1 : app[i] = IF i <= Len(select) THEN parts[i] ELSE ProjectionOf(item)
      BY <1>1, <2>1, <2>2
    <3>3. app \in Seq(Seq(Expr))
      BY <1>1
    <3> HIDE DEF app
    <3> QED BY <3>1, <3>2, <3>3
  <2>4. \A i \in 1 .. Len(select) + 1 :
          new[i] = IF i <= Len(select) THEN parts[i] ELSE ProjectionOf(item)
    BY <2>1
  <2> HIDE DEF app, parts
  <2> QED BY <2>1, <2>3, <2>4 DEF app
<1> HIDE DEF parts, new
<1> QED BY <1>1, <1>2, <1>3, FlattenAppend

\* What else than an item a SELECT list adds.
LEMMA ExpandedColumns ==
  ASSUME relations \in FromClauses, NEW star
  PROVE  /\ IsSeq(Expanded(star)) /\ DOMAIN Expanded(star) = DOMAIN StarColumns(star)
         /\ \A n \in DOMAIN StarColumns(star) :
              LET p == StarColumns(star)[n]
              IN Expanded(star)[n] =
                   OutputColumn(At(p).name, QualifiedNullable(relations[p[1]], p[2]), At(p).id,
                                relations[p[1]].qualifier, None)
<1> DEFINE s == StarColumns(star)
           made == Expanded(star)
           col(p) == OutputColumn(At(p).name, QualifiedNullable(relations[p[1]], p[2]), At(p).id,
                                  relations[p[1]].qualifier, None)
<1>1. made = [n \in DOMAIN s |-> col(s[n])]
  BY DEF Expanded, At
<1>2. PICK m \in Nat : DOMAIN s = 1 .. m
  BY StarFacts, SeqHas DEF IsSeq
<1> HIDE DEF made, s, col
<1>3. IsSeq(made)
  <2> DEFINE S == {col(s[n]) : n \in DOMAIN s}
  <2>1. \A n \in 1 .. m : col(s[n]) \in S
    BY <1>2
  <2> HIDE DEF S
  <2>2. made \in Seq(S)
    BY <1>1, <1>2, <2>1
  <2> QED BY <2>2, SeqHas
<1>4. \A n \in DOMAIN s : made[n] = col(s[n])
  BY <1>1
<1> QED BY <1>1, <1>3, <1>4 DEF made, s, col

LEMMA CorrespondsStays ==
  ASSUME relations' = relations
  PROVE  \A out, e : Corresponds(out, e)' <=> Corresponds(out, e)
<1> SUFFICES ASSUME NEW out, NEW e PROVE Corresponds(out, e)' <=> Corresponds(out, e)
  OBVIOUS
<1>1. Nullable(e)' = Nullable(e) /\ IdOf(e)' = IdOf(e)
  BY DEF Nullable, IdOf, Resolve
<1>2. Bases' = Bases /\ \A p : At(p)' = At(p) /\ PlaceReference(p)' = PlaceReference(p)
  BY DEF Bases, At, PlaceReference
<1>3. CASE out.source = None
  BY <1>2, <1>3 DEF Corresponds
<1>4. CASE out.source # None
  BY <1>1, <1>4 DEF Corresponds
<1> QED BY <1>3, <1>4

LEMMA IntervalLength == \A a, b \in Nat : 1 .. a = 1 .. b => a = b
<1> SUFFICES ASSUME NEW a \in Nat, NEW b \in Nat, 1 .. a = 1 .. b PROVE a = b
  OBVIOUS
<1>1. \A i \in Nat : 1 <= i /\ i <= a <=> 1 <= i /\ i <= b
  BY Z3
<1>2. (1 <= a => a <= b) /\ (1 <= b => b <= a)
  BY <1>1
<1> QED BY <1>2

\* Two sequences correspond if they are made of parts that do.
LEMMA AlignedConcat ==
  ASSUME NEW s, NEW t, NEW u, NEW w, IsSeq(s), IsSeq(t), IsSeq(u), IsSeq(w),
         DOMAIN s = DOMAIN u, DOMAIN t = DOMAIN w, NEW R,
         \A n \in DOMAIN s : <<s[n], u[n]>> \in R,
         \A n \in DOMAIN t : <<t[n], w[n]>> \in R
  PROVE  /\ DOMAIN (s \o t) = DOMAIN (u \o w)
         /\ \A n \in DOMAIN (s \o t) : <<(s \o t)[n], (u \o w)[n]>> \in R
<1> DEFINE st == s \o t
           uw == u \o w
<1>1. /\ Len(s) \in Nat /\ Len(t) \in Nat /\ DOMAIN s = 1 .. Len(s) /\ DOMAIN t = 1 .. Len(t)
      /\ DOMAIN st = 1 .. Len(s) + Len(t)
      /\ \A i \in 1 .. Len(s) + Len(t) : st[i] = IF i <= Len(s) THEN s[i] ELSE t[i - Len(s)]
  BY Concatenated
<1>2. /\ Len(u) \in Nat /\ Len(w) \in Nat /\ DOMAIN u = 1 .. Len(u) /\ DOMAIN w = 1 .. Len(w)
      /\ DOMAIN uw = 1 .. Len(u) + Len(w)
      /\ \A i \in 1 .. Len(u) + Len(w) : uw[i] = IF i <= Len(u) THEN u[i] ELSE w[i - Len(u)]
  BY Concatenated
<1> HIDE DEF st, uw
<1>3. \A a, b \in Nat : 1 .. a = 1 .. b => a = b
  BY IntervalLength
<1>4. Len(s) = Len(u) /\ Len(t) = Len(w)
  <2>1. 1 .. Len(s) = 1 .. Len(u) /\ 1 .. Len(t) = 1 .. Len(w)
    BY <1>1, <1>2
  <2> QED BY <1>1, <1>2, <1>3, <2>1
<1>5. ASSUME NEW i \in 1 .. Len(s) + Len(t) PROVE <<st[i], uw[i]>> \in R
  <2>1. CASE i <= Len(s)
    <3>1. i \in DOMAIN s /\ st[i] = s[i] /\ uw[i] = u[i]
      BY <1>1, <1>2, <1>4, <2>1
    <3> QED BY <3>1
  <2>2. CASE ~(i <= Len(s))
    <3>1. i - Len(s) \in DOMAIN t /\ st[i] = t[i - Len(s)] /\ uw[i] = w[i - Len(s)]
      BY <1>1, <1>2, <1>4, <2>2
    <3> QED BY <3>1
  <2> QED BY <2>1, <2>2
<1> QED BY <1>1, <1>2, <1>4, <1>5 DEF st, uw

LEMMA ReachesFacts ==
  ASSUME NEW name, Reaches(name), clause \in 1 .. 6
  PROVE  /\ diagnostics = {} /\ clause' \in clause .. 5 /\ clause' \in 1 .. 5
         /\ clause' # 6 /\ clause' \in 1 .. 6 /\ \A n \in Nat : clause >= n => clause' >= n
         /\ name = "SELECT" => clause' = 1
         /\ name = "WHERE" => clause' = 2
         /\ name = "GROUP BY" => clause' = 3
         /\ name = "HAVING" => clause' = 4
         /\ name = "ORDER BY" => clause' = 5
<1>1. PICK c \in clause .. 5 : Clauses[c] = name /\ clause' = c /\ diagnostics = {}
  BY DEF Reaches
<1>2. c \in 1 .. 5
  BY <1>1
<1>3. /\ Clauses[1] = "SELECT" /\ Clauses[2] = "WHERE" /\ Clauses[3] = "GROUP BY"
      /\ Clauses[4] = "HAVING" /\ Clauses[5] = "ORDER BY"
  BY DEF Clauses
<1>4. c = 1 \/ c = 2 \/ c = 3 \/ c = 4 \/ c = 5
  BY <1>2
<1>5. clause' # 6 /\ clause' \in 1 .. 6 /\ \A n \in Nat : clause >= n => clause' >= n
  BY <1>1, <1>2
<1> QED BY <1>1, <1>2, <1>3, <1>4, <1>5

LEMMA AlignedSelect ==
  ASSUME Typed, Aligned, NEW item \in Items, SelectItem(item)
  PROVE  Aligned'
<1>1. /\ relations' = relations /\ select' = Append(select, item) /\ clause' = 1
      /\ relations \in FromClauses /\ select \in Seq(Items)
  BY ReachesFacts DEF SelectItem, Typed
<1> DEFINE made == IF item.expr.kind = "star" THEN Expanded(item.expr)
                   ELSE <<OutputColumn(OutputName(item), Nullable(item.expr), IdOf(item.expr),
                                       NoQualifier, item.expr)>>
           extra == ProjectionOf(item)
<1>2. output' = output \o made
  BY AppendedOne DEF SelectItem, Aligned
<1>3. Projection' = Projection \o extra
  BY <1>1, ProjectionGrows
<1>4. IsSeq(output) /\ IsSeq(Projection) /\ IsSeq(extra) /\ DOMAIN output = DOMAIN Projection
  BY <1>1, ProjectionParts, ProjectionTyped, SeqHas DEF Aligned
<1>5. IsSeq(made) /\ DOMAIN made = DOMAIN extra /\ \A n \in DOMAIN made : Corresponds(made[n], extra[n])
  <2>1. CASE item.expr.kind = "star"
    <3> DEFINE s == StarColumns(item.expr)
    <3>1. made = Expanded(item.expr) /\ extra = [n \in DOMAIN s |-> PlaceReference(s[n])]
      BY <2>1 DEF ProjectionOf
    <3>2. IsSeq(made) /\ DOMAIN made = DOMAIN s
      BY <1>1, <3>1, ExpandedColumns
    <3>3. ASSUME NEW n \in DOMAIN s PROVE Corresponds(made[n], extra[n])
      <4> DEFINE p == s[n]
      <4>1. p \in Bases
        BY <1>1, StarFacts
      <4>2. made[n] = OutputColumn(At(p).name, QualifiedNullable(relations[p[1]], p[2]), At(p).id,
                                   relations[p[1]].qualifier, None)
        BY <1>1, <3>1, ExpandedColumns
      <4>3. extra[n] = PlaceReference(p)
        BY <3>1
      <4> HIDE DEF made, extra, p, s
      <4> QED BY <4>1, <4>2, <4>3 DEF Corresponds, OutputColumn
    <3> HIDE DEF made, s
    <3>4. DOMAIN extra = DOMAIN s
      BY <3>1
    <3> HIDE DEF extra
    <3> QED BY <3>2, <3>3, <3>4
  <2>2. CASE item.expr.kind # "star"
    <3> DEFINE out == OutputColumn(OutputName(item), Nullable(item.expr), IdOf(item.expr),
                                   NoQualifier, item.expr)
    <3>1. made = <<out>> /\ extra = <<item.expr>>
      BY <2>2 DEF ProjectionOf
    <3>2. IsSeq(made)
      BY <1>4, <3>1, AppendedOne
    <3>3. Corresponds(out, item.expr)
      <4>1. item.expr \in Expr /\ item.expr # None
        BY QueryAssumption
      <4> QED BY <2>2, <4>1 DEF Corresponds, OutputColumn
    <3> HIDE DEF out
    <3>4. DOMAIN made = {1} /\ made[1] = out /\ extra[1] = item.expr /\ DOMAIN extra = {1}
      BY <3>1
    <3> HIDE DEF made, extra
    <3> QED BY <3>2, <3>3, <3>4
  <2> QED BY <2>1, <2>2
<1> HIDE DEF made, extra
<1> DEFINE R == {q \in {<<output[n], Projection[n]>> : n \in DOMAIN output}
                        \cup {<<made[n], extra[n]>> : n \in DOMAIN made} : Corresponds(q[1], q[2])}
<1>6. \A n \in DOMAIN output : <<output[n], Projection[n]>> \in R
  BY DEF Aligned
<1>7. \A n \in DOMAIN made : <<made[n], extra[n]>> \in R
  BY <1>5
<1>8. \A q \in R : Corresponds(q[1], q[2])
  OBVIOUS
<1> HIDE DEF R
<1> DEFINE longer == output \o made
           wider == Projection \o extra
<1>9. DOMAIN longer = DOMAIN wider /\ \A n \in DOMAIN longer : <<longer[n], wider[n]>> \in R
  BY <1>4, <1>5, <1>6, <1>7, AlignedConcat
<1>10. IsSeq(longer)
  BY <1>4, <1>5, Concatenated
<1>11. output' = longer /\ Projection' = wider
  BY <1>2, <1>3
<1> HIDE DEF longer, wider
<1>12. ASSUME NEW n \in DOMAIN output'
       PROVE  \E out, e : out = output'[n] /\ e = Projection'[n] /\ Corresponds(out, e)'
  <2>1. PICK out, e : out = output'[n] /\ e = Projection'[n]
    OBVIOUS
  <2>2. Corresponds(out, e)
    BY <1>8, <1>9, <1>11, <2>1
  <2>3. Corresponds(out, e)'
    BY <1>1, <2>2, CorrespondsStays
  <2> QED BY <2>1, <2>3
<1>13. IsSeq(output)'
  BY <1>10, <1>11 DEF IsSeq
<1>14. DOMAIN output' = DOMAIN Projection' /\ clause' # 6
  BY <1>1, <1>9, <1>11
<1> QED BY <1>12, <1>13, <1>14 DEF Aligned

LEMMA ProjectionStays ==
  ASSUME relations' = relations, select' = select
  PROVE  Projection' = Projection
BY DEF Projection, StarColumns, StarRelations, PlaceReference

\* Only the last two of these change it.
LEMMA AlignedStays ==
  ASSUME Aligned, relations' = relations, select' = select, output' = output, clause' # 6
  PROVE  Aligned'
<1>1. Projection' = Projection
  BY ProjectionStays
<1>2. ASSUME NEW n \in DOMAIN output
      PROVE  \E out, e : out = output'[n] /\ e = Projection'[n] /\ Corresponds(out, e)'
  <2>1. PICK out, e : out = output[n] /\ e = Projection[n] /\ Corresponds(out, e)
    BY DEF Aligned
  <2>2. Corresponds(out, e)'
    BY <2>1, CorrespondsStays
  <2> QED BY <1>1, <2>1, <2>2
<1> QED BY <1>1, <1>2 DEF Aligned, IsSeq

LEMMA ReadsStays ==
  ASSUME relations' = relations, groupBy' = groupBy
  PROVE  /\ \A e : ExprReadsGroupingKey(e)' <=> ExprReadsGroupingKey(e)
         /\ \A out : ReadsGroupingKey(out)' <=> ReadsGroupingKey(out)
<1>1. GroupingSetIds' = GroupingSetIds
  BY DEF GroupingSetIds, IdOf, Resolve
<1>2. ASSUME NEW e PROVE ExprReadsGroupingKey(e)' <=> ExprReadsGroupingKey(e)
  BY <1>1 DEF ExprReadsGroupingKey, IdOf, Resolve
<1> QED BY <1>1, <1>2 DEF ReadsGroupingKey

\* The pass over all clauses touches the nullability of a column only.
LEMMA RemarkedColumn ==
  ASSUME NEW out, NEW e, Corresponds(out, e), NEW new, new = Remarked(out)
  PROVE  /\ Corresponds(new, e) /\ Marked(new)
         /\ new.name = out.name /\ new.id = out.id /\ new.qualifier = out.qualifier
         /\ new.source = out.source
         /\ new.nullable = (out.nullable \/ ReadsGroupingKey(out))
<1>1. DOMAIN out = {"name", "nullable", "id", "qualifier", "source"}
  BY DEF Corresponds
<1>2. /\ DOMAIN new = {"name", "nullable", "id", "qualifier", "source"}
      /\ new.name = out.name /\ new.id = out.id /\ new.qualifier = out.qualifier
      /\ new.source = out.source
      /\ new.nullable = (out.nullable \/ ReadsGroupingKey(out))
  BY <1>1 DEF Remarked
<1>3. ReadsGroupingKey(new) <=> ReadsGroupingKey(out)
  BY <1>2 DEF ReadsGroupingKey
<1>4. Corresponds(new, e)
  BY <1>2 DEF Corresponds
<1> QED BY <1>2, <1>3, <1>4 DEF Marked

LEMMA RemarkedOutputs ==
  ASSUME Aligned, AnalyzeGrouping
  PROVE  /\ DOMAIN output' = DOMAIN output
         /\ \A n \in DOMAIN output : \E out, new, e :
              /\ out = output[n] /\ new = output'[n] /\ e = Projection[n]
              /\ new = Remarked(out) /\ Corresponds(out, e) /\ Corresponds(new, e) /\ Marked(new)
              /\ new.name = out.name /\ new.id = out.id /\ new.qualifier = out.qualifier
              /\ new.source = out.source
              /\ new.nullable = (out.nullable \/ ReadsGroupingKey(out))
<1>1. output' = [n \in DOMAIN output |-> Remarked(output[n])]
  BY DEF AnalyzeGrouping
<1>2. ASSUME NEW n \in DOMAIN output
      PROVE  \E out, new, e :
              /\ out = output[n] /\ new = output'[n] /\ e = Projection[n]
              /\ new = Remarked(out) /\ Corresponds(out, e) /\ Corresponds(new, e) /\ Marked(new)
              /\ new.name = out.name /\ new.id = out.id /\ new.qualifier = out.qualifier
              /\ new.source = out.source
              /\ new.nullable = (out.nullable \/ ReadsGroupingKey(out))
  <2>1. PICK out, e : out = output[n] /\ e = Projection[n] /\ Corresponds(out, e)
    BY DEF Aligned
  <2>2. PICK new : new = Remarked(out)
    OBVIOUS
  <2>3. new = output'[n]
    BY <1>1, <2>1, <2>2
  <2>4. /\ Corresponds(new, e) /\ Marked(new)
        /\ new.name = out.name /\ new.id = out.id /\ new.qualifier = out.qualifier
        /\ new.source = out.source
        /\ new.nullable = (out.nullable \/ ReadsGroupingKey(out))
    BY <2>1, <2>2, RemarkedColumn
  <2> QED BY <2>1, <2>2, <2>3, <2>4
<1> QED BY <1>1, <1>2

LEMMA AlignedAtTheEnd ==
  ASSUME Aligned, AnalyzeGrouping
  PROVE  Aligned'
<1>1. relations' = relations /\ select' = select /\ groupBy' = groupBy
  BY DEF AnalyzeGrouping, query
<1>2. Projection' = Projection
  BY <1>1, ProjectionStays
<1>3. DOMAIN output' = DOMAIN output
  BY RemarkedOutputs
<1>4. ASSUME NEW n \in DOMAIN output'
      PROVE  /\ \E out, e : out = output'[n] /\ e = Projection'[n] /\ Corresponds(out, e)'
             /\ \E out : out = output'[n] /\ Marked(out)'
  <2>1. PICK out, e : out = output'[n] /\ e = Projection[n] /\ Corresponds(out, e) /\ Marked(out)
    BY <1>3, RemarkedOutputs
  <2>2. Corresponds(out, e)'
    BY <1>1, <2>1, CorrespondsStays
  <2>3. Marked(out)'
    BY <1>1, <2>1, ReadsStays DEF Marked
  <2> QED BY <1>2, <2>1, <2>2, <2>3
<1>5. IsSeq(output)'
  <2>1. PICK m \in Nat : DOMAIN output = 1 .. m
    BY SeqHas DEF Aligned, IsSeq
  <2> DEFINE S == ToSet(output)
             T == {output'[i] : i \in 1 .. m}
  <2>2. output' = [i \in 1 .. m |-> output'[i]]
    BY <2>1 DEF AnalyzeGrouping
  <2>3. \A i \in 1 .. m : output'[i] \in T
    OBVIOUS
  <2> HIDE DEF T
  <2>4. output' \in Seq(T)
    BY <2>2, <2>3
  <2>5. IsSeq(output')
    BY <2>4, SeqHas
  <2> QED BY <2>5 DEF IsSeq
<1>6. DOMAIN output' = DOMAIN Projection'
  BY <1>2, <1>3 DEF Aligned
<1> QED BY <1>4, <1>5, <1>6 DEF Aligned

-----------------------------------------------------------------------------
(* Names of output columns.                                                 *)

NamedItems(name) == {i \in DOMAIN select : select[i].expr.kind # "star" /\ OutputName(select[i]) = name}

NamedOutputs(name) == {n \in DOMAIN output : output[n].name = name}

IsColumnName(name) == \E p \in Bases : At(p).name = name

\* A name of no column of the FROM clause is the first item's and the first output column's.
FirstNamed ==
  \A name : ~IsColumnName(name) =>
    /\ NamedItems(name) = {} <=> NamedOutputs(name) = {}
    /\ NamedItems(name) # {} =>
         Projection[LeastOf(NamedOutputs(name))] = select[LeastOf(NamedItems(name))].expr

LEMMA LeastGrows ==
  ASSUME NEW S \in SUBSET Nat, NEW T \in SUBSET Nat, \A x \in S, y \in T : x <= y
  PROVE  S # {} => LeastOf(S \cup T) = LeastOf(S)
<1>2. ASSUME S # {} PROVE LeastOf(S \cup T) = LeastOf(S)
  <2>1. PICK x \in S : \A y \in S : x <= y
    BY <1>2, LeastExists
  <2>2. \A z \in S : (\A y \in S : z <= y) => z = x
    BY <2>1
  <2>3. LeastOf(S) = x
    BY <2>1, <2>2 DEF LeastOf
  <2> DEFINE U == S \cup T
  <2>4. x \in U /\ \A y \in U : x <= y
    BY <2>1
  <2>5. \A z \in U : (\A y \in U : z <= y) => z = x
    BY <2>4
  <2> HIDE DEF U
  <2>6. LeastOf(U) = x
    BY <2>4, <2>5 DEF LeastOf
  <2> QED BY <2>3, <2>6 DEF U
<1> QED BY <1>2

LEMMA LeastOfOne == \A x \in Nat : LeastOf({x}) = x
BY DEF LeastOf

LEMMA FirstNamedSelect ==
  ASSUME Typed, Aligned, FirstNamed, NEW item \in Items, SelectItem(item)
  PROVE  FirstNamed'
<1>1. /\ relations' = relations /\ select' = Append(select, item)
      /\ relations \in FromClauses /\ select \in Seq(Items)
  BY DEF SelectItem, Typed
<1>2. Projection' = Projection \o ProjectionOf(item)
  BY <1>1, ProjectionGrows
<1>3. IsSeq(output) /\ IsSeq(Projection) /\ IsSeq(ProjectionOf(item)) /\ DOMAIN output = DOMAIN Projection
  BY <1>1, ProjectionParts, ProjectionTyped, SeqHas DEF Aligned
<1> SUFFICES ASSUME NEW name, ~IsColumnName(name)'
             PROVE  /\ NamedItems(name)' = {} <=> NamedOutputs(name)' = {}
                    /\ NamedItems(name)' # {} =>
                         Projection'[LeastOf(NamedOutputs(name)')] = select'[LeastOf(NamedItems(name)')].expr
  BY DEF FirstNamed
<1>4. \A p \in Bases : At(p).name # name
  <2>1. Bases' = Bases /\ \A p : At(p)' = At(p)
    BY <1>1 DEF Bases, At
  <2> QED BY <2>1 DEF IsColumnName
<1> DEFINE items == NamedItems(name)
           outs  == NamedOutputs(name)
           k     == Len(select) + 1
           m     == Len(output) + 1
           proj  == Projection'
<1>5. /\ items = {} <=> outs = {}
      /\ items # {} => Projection[LeastOf(outs)] = select[LeastOf(items)].expr
  BY <1>4 DEF FirstNamed, IsColumnName
<1>6. /\ DOMAIN select = 1 .. Len(select) /\ Len(select) \in Nat
      /\ DOMAIN select' = 1 .. k /\ select'[k] = item /\ \A i \in DOMAIN select : select'[i] = select[i]
  BY <1>1
<1>7. /\ Len(output) \in Nat /\ DOMAIN output = 1 .. Len(output)
      /\ \A n \in DOMAIN output : proj[n] = Projection[n]
  <2>1. \A i \in 1 .. Len(Projection) + Len(ProjectionOf(item)) : i <= Len(Projection) => proj[i] = Projection[i]
    BY <1>2, <1>3, Concatenated
  <2>2. /\ DOMAIN Projection = 1 .. Len(Projection) /\ Len(Projection) \in Nat /\ Len(ProjectionOf(item)) \in Nat
        /\ DOMAIN output = 1 .. Len(output) /\ Len(output) \in Nat
    BY <1>3, Concatenated
  <2> HIDE DEF proj
  <2> QED BY <1>3, <2>1, <2>2
<1>8. items \in SUBSET Nat /\ outs \in SUBSET Nat /\ items \subseteq DOMAIN select /\ outs \subseteq DOMAIN output
  BY <1>6, <1>7 DEF NamedItems, NamedOutputs
<1>9. items # {} => LeastOf(items) \in DOMAIN select /\ LeastOf(outs) \in DOMAIN output
  BY <1>5, <1>8, LeastIn
<1>10. NamedItems(name)' = items \cup (IF item.expr.kind # "star" /\ OutputName(item) = name THEN {k} ELSE {})
  BY <1>6 DEF NamedItems, OutputName
<1>11. NamedOutputs(name)' = {n \in DOMAIN output' : output'[n].name = name}
  BY DEF NamedOutputs
<1>12. CASE item.expr.kind = "star"
  <2> DEFINE made == Expanded(item.expr)
  <2>1. output' = output \o made /\ IsSeq(made)
    BY <1>1, <1>12, ExpandedColumns DEF SelectItem
  <2>2. \A n \in DOMAIN made : made[n].name # name
    <3> SUFFICES ASSUME NEW n \in DOMAIN made PROVE made[n].name # name
      OBVIOUS
    <3>1. n \in DOMAIN StarColumns(item.expr)
      BY <1>1, ExpandedColumns
    <3> DEFINE p == StarColumns(item.expr)[n]
    <3>2. p \in Bases
      BY <1>1, <3>1, StarFacts
    <3>3. made[n] = OutputColumn(At(p).name, QualifiedNullable(relations[p[1]], p[2]), At(p).id,
                                 relations[p[1]].qualifier, None)
      BY <1>1, <3>1, ExpandedColumns
    <3> HIDE DEF made, p
    <3> QED BY <1>4, <3>2, <3>3 DEF OutputColumn
  <2> HIDE DEF made
  <2>3. /\ Len(made) \in Nat /\ DOMAIN made = 1 .. Len(made) /\ DOMAIN output' = 1 .. Len(output) + Len(made)
        /\ \A i \in 1 .. Len(output) + Len(made) :
             output'[i] = IF i <= Len(output) THEN output[i] ELSE made[i - Len(output)]
    BY <1>3, <2>1, Concatenated
  <2>4. NamedOutputs(name)' = outs
    <3>1. ASSUME NEW n \in DOMAIN output'
          PROVE  output'[n].name = name <=> n \in DOMAIN output /\ output[n].name = name
      <4>1. CASE n <= Len(output)
        BY <1>7, <2>3, <4>1
      <4>2. CASE ~(n <= Len(output))
        <5>1. n - Len(output) \in DOMAIN made /\ output'[n] = made[n - Len(output)] /\ n \notin DOMAIN output
          BY <1>7, <2>3, <4>2
        <5> QED BY <2>2, <5>1
      <4> QED BY <4>1, <4>2
    <3>2. \A n \in DOMAIN output : n \in DOMAIN output'
      BY <1>7, <2>3
    <3> QED BY <1>11, <3>1, <3>2 DEF NamedOutputs
  <2>5. NamedItems(name)' = items
    BY <1>10, <1>12
  <2> HIDE DEF items, outs, proj
  <2> QED BY <1>5, <1>6, <1>7, <1>9, <2>4, <2>5 DEF proj
<1>13. CASE item.expr.kind # "star"
  <2> DEFINE out == OutputColumn(OutputName(item), Nullable(item.expr), IdOf(item.expr),
                                 NoQualifier, item.expr)
  <2>1. output' = Append(output, out) /\ ProjectionOf(item) = <<item.expr>> /\ out.name = OutputName(item)
    BY <1>13 DEF SelectItem, ProjectionOf, OutputColumn
  <2> HIDE DEF out
  <2>2. /\ DOMAIN output' = 1 .. m /\ output'[m] = out /\ \A n \in DOMAIN output : output'[n] = output[n]
    BY <1>3, <1>7, <2>1, AppendedOne, Concatenated
  <2>3. proj[m] = item.expr
    <3>1. Len(Projection) = Len(output)
      <4>1. \A a, b \in Nat : 1 .. a = 1 .. b => a = b
        BY IntervalLength
      <4>2. DOMAIN Projection = 1 .. Len(Projection) /\ Len(Projection) \in Nat
        BY <1>3, Concatenated
      <4>3. 1 .. Len(Projection) = 1 .. Len(output)
        BY <1>3, <1>7, <4>2
      <4> QED BY <1>7, <4>1, <4>2, <4>3
    <3> DEFINE longer == Projection \o <<item.expr>>
    <3>2. /\ IsSeq(<<item.expr>>) /\ Len(<<item.expr>>) = 1
      BY <1>3, AppendedOne
    <3>3. longer[m] = item.expr
      BY <1>3, <1>7, <3>1, <3>2, Concatenated
    <3> HIDE DEF longer
    <3> QED BY <1>2, <2>1, <3>3 DEF longer
  <2>4. CASE OutputName(item) # name
    <3>1. NamedItems(name)' = items
      BY <1>10, <2>4
    <3>2. NamedOutputs(name)' = outs
      <4>1. \A n \in DOMAIN output' : output'[n].name = name <=> n \in DOMAIN output /\ output[n].name = name
        BY <1>7, <2>1, <2>2, <2>4
      <4>2. \A n \in DOMAIN output : n \in DOMAIN output'
        BY <1>7, <2>2
      <4> QED BY <1>11, <4>1, <4>2 DEF NamedOutputs
    <3> HIDE DEF items, outs, proj
    <3> QED BY <1>5, <1>6, <1>7, <1>9, <3>1, <3>2 DEF proj
  <2>5. CASE OutputName(item) = name
    <3>1. NamedItems(name)' = items \cup {k}
      BY <1>10, <1>13, <2>5
    <3>2. NamedOutputs(name)' = outs \cup {m}
      <4>1. \A n \in DOMAIN output' : output'[n].name = name <=> n = m \/ (n \in DOMAIN output /\ output[n].name = name)
        BY <1>7, <2>1, <2>2, <2>5
      <4>2. m \in DOMAIN output' /\ \A n \in DOMAIN output : n \in DOMAIN output'
        BY <1>7, <2>2
      <4> QED BY <1>11, <4>1, <4>2 DEF NamedOutputs
    <3>3. k \in Nat /\ m \in Nat /\ (\A i \in items : i <= k) /\ (\A n \in outs : n <= m)
      BY <1>6, <1>7, <1>8
    <3>4. items # {} => LeastOf(items \cup {k}) = LeastOf(items) /\ LeastOf(outs \cup {m}) = LeastOf(outs)
      <4> HIDE DEF items, outs, k, m
      <4>1. /\ {k} \in SUBSET Nat /\ \A i \in items, j \in {k} : i <= j
            /\ {m} \in SUBSET Nat /\ \A i \in outs, j \in {m} : i <= j
        BY <3>3
      <4>2. items # {} => LeastOf(items \cup {k}) = LeastOf(items)
        BY <1>8, <4>1, LeastGrows
      <4>3. outs # {} => LeastOf(outs \cup {m}) = LeastOf(outs)
        BY <1>8, <4>1, LeastGrows
      <4> QED BY <1>5, <4>2, <4>3
    <3>5. items = {} => LeastOf(items \cup {k}) = k /\ LeastOf(outs \cup {m}) = m
      <4>1. LeastOf({k}) = k /\ LeastOf({m}) = m
        <5> HIDE DEF k, m
        <5> QED BY <3>3, LeastOfOne
      <4> HIDE DEF items, outs, k, m
      <4>2. items = {} => items \cup {k} = {k} /\ outs \cup {m} = {m}
        BY <1>5
      <4> QED BY <4>1, <4>2
    <3> HIDE DEF items, outs, proj, k, m
    <3> QED BY <1>5, <1>6, <1>7, <1>9, <2>3, <3>1, <3>2, <3>4, <3>5 DEF proj
  <2> QED BY <2>4, <2>5
<1> QED BY <1>12, <1>13

LEMMA FirstNamedStays ==
  ASSUME FirstNamed, relations' = relations, select' = select, DOMAIN output' = DOMAIN output,
         \A n \in DOMAIN output : output'[n].name = output[n].name
  PROVE  FirstNamed'
<1>1. Projection' = Projection
  BY ProjectionStays
<1>2. ASSUME NEW name
      PROVE  /\ NamedItems(name)' = NamedItems(name) /\ NamedOutputs(name)' = NamedOutputs(name)
             /\ IsColumnName(name)' <=> IsColumnName(name)
  BY DEF NamedItems, OutputName, NamedOutputs, IsColumnName, Bases, At
<1> QED BY <1>1, <1>2 DEF FirstNamed

-----------------------------------------------------------------------------
(* What was reported.                                                       *)

\* The codes of what is inferred, and of the last pass alone.
Late == {"NonGroupedColumn"}

\* A part of GROUP BY is inferred, or it is the alias of an item.
KeyIsFine(part) ==
  \/ part.wrapper = "none" /\ GroupKeyAliasItem(part.expr) # None
  \/ InferDiagnostics(part.expr) = {}

OrderKeyIsFine(e) ==
  \/ IsPosition(e)
  \/ e.kind # "integer" /\ (OutputNamed(e) # None \/ InferDiagnostics(e) = {})

PartsAreFine ==
  /\ \A item \in ToSet(select) : item.expr.kind # "star" => InferDiagnostics(item.expr) = {}
  /\ \A e \in ToSet(where) \cup ToSet(having) : InferDiagnostics(e) = {}
  /\ \A part \in ToSet(groupBy) : KeyIsFine(part)
  /\ \A e \in ToSet(orderBy) : OrderKeyIsFine(e)

\* Whatever is wrong with a part has been reported by then.
Quiet == diagnostics \subseteq Late => PartsAreFine

GroupingCodes(keys) ==
  KeyDiagnostics \cup CheckSelect(keys) \cup CheckOrderBy(keys) \cup CheckHaving(keys)

\* What the last pass finds is reported in the end, and not before.
Finished ==
  /\ clause = 6 =>
       /\ PlacementDiagnostics \subseteq diagnostics
       /\ Grouped => \E keys : keys = GroupKeys /\ GroupingCodes(keys) \subseteq diagnostics
  /\ "NonGroupedColumn" \in diagnostics =>
       /\ clause = 6 /\ Grouped
       /\ \E keys : keys = GroupKeys /\ "NonGroupedColumn" \in GroupingCodes(keys)

LEMMA InferredCodes ==
  ASSUME relations \in FromClauses, NEW e
  PROVE  InferDiagnostics(e) \subseteq (Statuses \cup {"WindowInAggregate"}) \ Late
BY Referring DEF InferDiagnostics, Unresolved, Statuses, Late

\* No clause but SELECT changes what a key stands for.
LEMMA MeaningStays ==
  ASSUME relations' = relations, select' = select, DOMAIN output' = DOMAIN output,
         \A n \in DOMAIN output : output'[n].name = output[n].name
  PROVE  \A e : /\ GroupKeyAliasItem(e)' = GroupKeyAliasItem(e)
                /\ OutputNamed(e)' = OutputNamed(e)
                /\ IsPosition(e)' <=> IsPosition(e)
                /\ Resolve(e)' = Resolve(e) /\ IdOf(e)' = IdOf(e)
                /\ InferDiagnostics(e)' = InferDiagnostics(e)
<1> SUFFICES ASSUME NEW e
             PROVE  /\ GroupKeyAliasItem(e)' = GroupKeyAliasItem(e)
                    /\ OutputNamed(e)' = OutputNamed(e)
                    /\ IsPosition(e)' <=> IsPosition(e)
                    /\ Resolve(e)' = Resolve(e) /\ IdOf(e)' = IdOf(e)
                    /\ InferDiagnostics(e)' = InferDiagnostics(e)
  OBVIOUS
<1>1. /\ Resolve(e)' = Resolve(e) /\ IdOf(e)' = IdOf(e)
      /\ InferDiagnostics(e)' = InferDiagnostics(e)
  BY DEF Resolve, IdOf, InferDiagnostics, Unresolved
<1>2. GroupKeyAliasItem(e)' = GroupKeyAliasItem(e)
  BY DEF GroupKeyAliasItem, OutputName, Resolve
<1>3. {i \in DOMAIN output' : output'[i].name = e.name} = {i \in DOMAIN output : output[i].name = e.name}
  OBVIOUS
<1>4. OutputNamed(e)' = OutputNamed(e)
  BY <1>3 DEF OutputNamed
<1>5. IsPosition(e)' <=> IsPosition(e)
  BY DEF IsPosition
<1> QED BY <1>1, <1>2, <1>4, <1>5

LEMMA OneSet == ToSet(<<>>) = {} /\ \A x : ToSet(<<x>>) = {x}
<1>1. DOMAIN <<>> = {} /\ \A x : DOMAIN <<x>> = {1} /\ <<x>>[1] = x
  OBVIOUS
<1> QED BY <1>1 DEF ToSet

LEMMA AppendSet ==
  ASSUME NEW S, NEW s \in Seq(S), NEW x \in S
  PROVE  ToSet(Append(s, x)) = ToSet(s) \cup {x}
<1> DEFINE t == Append(s, x)
<1>1. /\ DOMAIN s = 1 .. Len(s) /\ Len(s) \in Nat /\ DOMAIN t = 1 .. Len(s) + 1
      /\ t[Len(s) + 1] = x /\ \A i \in 1 .. Len(s) : t[i] = s[i]
  OBVIOUS
<1> HIDE DEF t
<1>2. \A i \in 1 .. Len(s) + 1 : i \in 1 .. Len(s) \/ i = Len(s) + 1
  BY <1>1
<1>3. \A i \in 1 .. Len(s) : i \in 1 .. Len(s) + 1
  BY <1>1
<1>4. Len(s) + 1 \in 1 .. Len(s) + 1
  BY <1>1
<1>5. {t[i] : i \in DOMAIN t} = {s[i] : i \in DOMAIN s} \cup {x}
  BY <1>1, <1>2, <1>3, <1>4
<1> QED BY <1>5 DEF ToSet, t

LEMMA FineStays ==
  ASSUME relations' = relations, select' = select, DOMAIN output' = DOMAIN output,
         \A n \in DOMAIN output : output'[n].name = output[n].name
  PROVE  /\ \A part : KeyIsFine(part)' <=> KeyIsFine(part)
         /\ \A e : OrderKeyIsFine(e)' <=> OrderKeyIsFine(e)
<1>1. ASSUME NEW part PROVE KeyIsFine(part)' <=> KeyIsFine(part)
  <2>1. PICK e : e = part.expr
    OBVIOUS
  <2>2. GroupKeyAliasItem(e)' = GroupKeyAliasItem(e) /\ InferDiagnostics(e)' = InferDiagnostics(e)
    BY MeaningStays
  <2> QED BY <2>1, <2>2 DEF KeyIsFine
<1>2. ASSUME NEW e PROVE OrderKeyIsFine(e)' <=> OrderKeyIsFine(e)
  BY MeaningStays DEF OrderKeyIsFine
<1> QED BY <1>1, <1>2

LEMMA QuietStep ==
  ASSUME Typed, Aligned, Quiet, Next
  PROVE  Quiet'
<1> SUFFICES ASSUME diagnostics' \subseteq Late PROVE PartsAreFine'
  BY DEF Quiet
<1>1. relations' = relations /\ relations \in FromClauses /\ clause \in 1 .. 6
      /\ select \in Seq(Items) /\ where \in Seq(Predicates) /\ having \in Seq(Predicates)
      /\ groupBy \in Seq(GroupParts) /\ orderBy \in Seq(OrderKeys)
  BY DEF Next, SelectItem, Where, GroupByKey, Having, OrderItem, AnalyzeGrouping, Typed
<1>2. PartsAreFine
  <2>1. diagnostics \subseteq diagnostics'
    BY DEF Next, SelectItem, Where, GroupByKey, Having, OrderItem, AnalyzeGrouping
  <2> QED BY <2>1 DEF Quiet
<1>3. \A e : InferDiagnostics(e)' = InferDiagnostics(e)
  BY <1>1 DEF InferDiagnostics, Unresolved, Resolve
<1>4. \A e : InferDiagnostics(e) \subseteq Late => InferDiagnostics(e) = {}
  BY <1>1, InferredCodes
<1>5. ASSUME NEW item \in Items, SelectItem(item) PROVE PartsAreFine'
  <2>1. clause' = 1 /\ clause = 1
    <3>1. Reaches("SELECT")
      BY <1>5 DEF SelectItem
    <3>2. clause' = 1 /\ clause' \in clause .. 5
      BY <1>1, <3>1, ReachesFacts
    <3> QED BY <1>1, <3>2
  <2>2. groupBy' = <<>> /\ orderBy' = <<>> /\ where' = where /\ having' = having
    BY <1>5, <2>1 DEF SelectItem, Typed
  <2>3. ToSet(select') = ToSet(select) \cup {item} /\ ToSet(groupBy') = {} /\ ToSet(orderBy') = {}
    <3>1. select' = Append(select, item)
      BY <1>5 DEF SelectItem
    <3>2. ToSet(select') = ToSet(select) \cup {item}
      BY <1>1, <3>1, AppendSet
    <3> QED BY <2>2, <3>2, OneSet
  <2>4. item.expr.kind # "star" => InferDiagnostics(item.expr) = {}
    BY <1>4, <1>5 DEF SelectItem
  <2>5. \A i \in ToSet(select') : i.expr.kind # "star" => InferDiagnostics(i.expr)' = {}
    BY <1>2, <1>3, <2>3, <2>4 DEF PartsAreFine
  <2>6. \A e \in ToSet(where') \cup ToSet(having') : InferDiagnostics(e)' = {}
    BY <1>2, <1>3, <2>2 DEF PartsAreFine
  <2> QED BY <2>3, <2>5, <2>6 DEF PartsAreFine
<1>6. ASSUME select' = select, DOMAIN output' = DOMAIN output,
             \A n \in DOMAIN output : output'[n].name = output[n].name,
             \A e \in (ToSet(where') \cup ToSet(having')) \ (ToSet(where) \cup ToSet(having)) :
               InferDiagnostics(e) = {},
             \A part \in ToSet(groupBy') \ ToSet(groupBy) : KeyIsFine(part),
             \A e \in ToSet(orderBy') \ ToSet(orderBy) : OrderKeyIsFine(e)
      PROVE  PartsAreFine'
  <2>1. \A i \in ToSet(select') : i.expr.kind # "star" => InferDiagnostics(i.expr)' = {}
    BY <1>2, <1>3, <1>6 DEF PartsAreFine
  <2>2. \A e \in ToSet(where') \cup ToSet(having') : InferDiagnostics(e)' = {}
    BY <1>2, <1>3, <1>6 DEF PartsAreFine
  <2>3. \A part \in ToSet(groupBy') : KeyIsFine(part)'
    BY <1>1, <1>2, <1>6, FineStays DEF PartsAreFine
  <2>4. \A e \in ToSet(orderBy') : OrderKeyIsFine(e)'
    BY <1>1, <1>2, <1>6, FineStays DEF PartsAreFine
  <2> QED BY <2>1, <2>2, <2>3, <2>4 DEF PartsAreFine
<1>7. ASSUME NEW pred \in Predicates, Where(pred) PROVE PartsAreFine'
  <2>1. /\ select' = select /\ output' = output /\ groupBy' = groupBy /\ orderBy' = orderBy
        /\ having' = having /\ where' = <<pred>>
        /\ InferDiagnostics(pred) \subseteq Late
    BY <1>7 DEF Where
  <2>2. ToSet(where') = {pred}
    BY <2>1, OneSet
  <2> QED BY <1>4, <1>6, <2>1, <2>2
<1>8. ASSUME NEW pred \in Predicates, Having(pred) PROVE PartsAreFine'
  <2>1. /\ select' = select /\ output' = output /\ groupBy' = groupBy /\ orderBy' = orderBy
        /\ where' = where /\ having' = <<pred>>
        /\ InferDiagnostics(pred) \subseteq Late
    BY <1>8 DEF Having
  <2>2. ToSet(having') = {pred}
    BY <2>1, OneSet
  <2> QED BY <1>4, <1>6, <2>1, <2>2
<1>9. ASSUME NEW key \in Keys, NEW wrapper \in {"none", "list", "sets"}, GroupByKey(key, wrapper)
      PROVE  PartsAreFine'
  <2> DEFINE part == [expr |-> key, wrapper |-> wrapper]
  <2>1. /\ select' = select /\ output' = output /\ where' = where /\ having' = having
        /\ orderBy' = orderBy /\ groupBy' = Append(groupBy, part)
        /\ (IF wrapper = "none" /\ GroupKeyAliasItem(key) # None THEN {} ELSE InferDiagnostics(key))
             \subseteq Late
    BY <1>9 DEF GroupByKey
  <2>2. part \in GroupParts /\ part.expr = key /\ part.wrapper = wrapper
    BY DEF GroupParts
  <2>3. KeyIsFine(part)
    <3>1. CASE wrapper = "none" /\ GroupKeyAliasItem(key) # None
      BY <2>2, <3>1 DEF KeyIsFine
    <3>2. CASE ~(wrapper = "none" /\ GroupKeyAliasItem(key) # None)
      BY <1>4, <2>1, <2>2, <3>2 DEF KeyIsFine
    <3> QED BY <3>1, <3>2
  <2> HIDE DEF part
  <2>4. ToSet(groupBy') = ToSet(groupBy) \cup {part}
    <3>1. groupBy \in Seq(GroupParts) /\ part \in GroupParts
      BY <1>1, <2>2
    <3>2. ToSet(Append(groupBy, part)) = ToSet(groupBy) \cup {part}
      BY <3>1, AppendSet
    <3> QED BY <2>1, <3>2
  <2> QED BY <1>6, <2>1, <2>3, <2>4
<1>10. ASSUME NEW key \in OrderKeys, OrderItem(key) PROVE PartsAreFine'
  <2>1. /\ select' = select /\ output' = output /\ where' = where /\ having' = having
        /\ groupBy' = groupBy /\ orderBy' = <<key>>
        /\ (IF key.kind = "integer" THEN (IF IsPosition(key) THEN {} ELSE {"InvalidOrderByPosition"})
            ELSE IF OutputNamed(key) # None THEN {} ELSE InferDiagnostics(key)) \subseteq Late
    BY <1>10 DEF OrderItem
  <2>2. OrderKeyIsFine(key)
    BY <1>4, <2>1 DEF OrderKeyIsFine, Late
  <2>3. ToSet(orderBy') = {key}
    BY <2>1, OneSet
  <2> QED BY <1>6, <2>1, <2>2, <2>3
<1>11. ASSUME AnalyzeGrouping PROVE PartsAreFine'
  <2>1. /\ select' = select /\ where' = where /\ having' = having
        /\ groupBy' = groupBy /\ orderBy' = orderBy
    BY <1>11 DEF AnalyzeGrouping, query
  <2>2. DOMAIN output' = DOMAIN output /\ \A n \in DOMAIN output : output'[n].name = output[n].name
    BY <1>11, RemarkedOutputs
  <2> QED BY <1>6, <2>1, <2>2
<1> QED BY <1>5, <1>7, <1>8, <1>9, <1>10, <1>11 DEF Next

LEMMA GroupingStays ==
  ASSUME relations' = relations, query' = query, DOMAIN output' = DOMAIN output,
         \A n \in DOMAIN output :
           /\ output'[n].name = output[n].name /\ output'[n].id = output[n].id
           /\ output'[n].qualifier = output[n].qualifier /\ output'[n].source = output[n].source
  PROVE  /\ PlacementDiagnostics' = PlacementDiagnostics
         /\ Grouped' = Grouped /\ GroupKeys' = GroupKeys
         /\ \A keys : GroupingCodes(keys)' = GroupingCodes(keys)
<1>1. select' = select /\ where' = where /\ groupBy' = groupBy /\ having' = having /\ orderBy' = orderBy
  BY DEF query
<1>2. PlacementDiagnostics' = PlacementDiagnostics /\ Grouped' = Grouped
  BY <1>1 DEF PlacementDiagnostics, Grouped
<1>3. \A e : /\ GroupKeyAliasItem(e)' = GroupKeyAliasItem(e) /\ OutputNamed(e)' = OutputNamed(e)
             /\ (IsPosition(e)' <=> IsPosition(e)) /\ IdOf(e)' = IdOf(e)
  BY <1>1, MeaningStays
<1>4. ASSUME NEW key
      PROVE  ItemOf(key)' = ItemOf(key) /\ (IllegalKey(key)' <=> IllegalKey(key))
             /\ (OutOfRange(key)' <=> OutOfRange(key))
  <2>1. ItemOf(key)' = ItemOf(key)
    BY <1>3 DEF ItemOf, IsPosition
  <2>2. OutOfRange(key)' <=> OutOfRange(key)
    BY <1>3 DEF OutOfRange
  <2>3. IllegalKey(key)' <=> IllegalKey(key)
    BY <2>1 DEF IllegalKey
  <2> QED BY <2>1, <2>2, <2>3
<1>5. KeyExprs' = KeyExprs
  BY <1>1 DEF KeyExprs
<1>6. KeyDiagnostics' = KeyDiagnostics
  BY <1>4, <1>5 DEF KeyDiagnostics
<1>7. GroupKeys' = GroupKeys
  <2> DEFINE good == {key \in KeyExprs : ~IllegalKey(key) /\ ~OutOfRange(key)}
             made(key) == IF key.kind = "integer" THEN KeyOfPosition(key.number)
                          ELSE KeyOfNode(IF ItemOf(key) = None THEN key ELSE ItemOf(key))
  <2>1. good' = good
    BY <1>4, <1>5
  <2>2. ASSUME NEW key \in good PROVE made(key)' = made(key)
    <3>1. CASE key.kind = "integer"
      <4>1. key.number \in DOMAIN output
        BY <3>1 DEF OutOfRange, IsPosition
      <4>2. KeyOfPosition(key.number)' = KeyOfPosition(key.number)
        BY <4>1 DEF KeyOfPosition
      <4> QED BY <3>1, <4>2
    <3>2. CASE key.kind # "integer"
      <4>1. PICK e : e = (IF ItemOf(key) = None THEN key ELSE ItemOf(key))
        OBVIOUS
      <4>2. KeyOfNode(e)' = KeyOfNode(e)
        BY <1>3 DEF KeyOfNode
      <4>3. KeyOfNode(IF ItemOf(key) = None THEN key ELSE ItemOf(key))' = KeyOfNode(e)
        BY <1>4, <4>1 DEF KeyOfNode, IdOf, Resolve
      <4> QED BY <3>2, <4>1, <4>3
    <3> QED BY <3>1, <3>2
  <2>3. GroupKeys = {made(key) : key \in good}
    BY DEF GroupKeys
  <2>4. GroupKeys' = {made(key)' : key \in good'}
    BY DEF GroupKeys
  <2> HIDE DEF good, made
  <2> QED BY <2>1, <2>2, <2>3, <2>4
<1>8. ASSUME NEW keys, NEW e PROVE CheckItem(e, keys)' = CheckItem(e, keys)
  BY DEF CheckItem, CheckGroupingExpr, GroupExprEqual, KeyOfNode, KeyMatches, IdOf, Resolve,
         StarColumns, StarRelations, StarColumnGrouped
<1>9. ASSUME NEW keys PROVE GroupingCodes(keys)' = GroupingCodes(keys)
  <2>1. CheckSelect(keys)' = CheckSelect(keys)
    BY <1>1, <1>8 DEF CheckSelect
  <2>2. CheckHaving(keys)' = CheckHaving(keys)
    BY <1>1, <1>8 DEF CheckHaving
  <2>3. CheckOrderBy(keys)' = CheckOrderBy(keys)
    BY <1>1, <1>3, <1>8 DEF CheckOrderBy
  <2> QED BY <1>6, <2>1, <2>2, <2>3 DEF GroupingCodes
<1> QED BY <1>2, <1>7, <1>9

LEMMA FinishedStep ==
  ASSUME Typed, Aligned, Finished, Next
  PROVE  Finished'
<1>1. relations \in FromClauses /\ clause \in 1 .. 6
  BY DEF Typed
<1>2. \A e : "NonGroupedColumn" \notin InferDiagnostics(e)
  BY <1>1, InferredCodes DEF Late
<1>3. ASSUME NEW name, Reaches(name), "NonGroupedColumn" \notin diagnostics' PROVE Finished'
  <2>1. clause' # 6
    BY <1>1, <1>3, ReachesFacts
  <2> QED BY <1>3, <2>1 DEF Finished
<1>4. \A name : Reaches(name) => diagnostics = {}
  BY DEF Reaches
<1>5. ASSUME NEW item \in Items, SelectItem(item) PROVE Finished'
  <2>1. Reaches("SELECT") /\ "NonGroupedColumn" \notin diagnostics'
    BY <1>2, <1>4, <1>5 DEF SelectItem
  <2> QED BY <1>3, <2>1
<1>6. ASSUME NEW pred \in Predicates, Where(pred) PROVE Finished'
  <2>1. Reaches("WHERE") /\ "NonGroupedColumn" \notin diagnostics'
    BY <1>2, <1>4, <1>6 DEF Where
  <2> QED BY <1>3, <2>1
<1>7. ASSUME NEW pred \in Predicates, Having(pred) PROVE Finished'
  <2>1. Reaches("HAVING") /\ "NonGroupedColumn" \notin diagnostics'
    BY <1>2, <1>4, <1>7 DEF Having
  <2> QED BY <1>3, <2>1
<1>8. ASSUME NEW key \in Keys, NEW wrapper \in {"none", "list", "sets"}, GroupByKey(key, wrapper)
      PROVE  Finished'
  <2>1. Reaches("GROUP BY") /\ "NonGroupedColumn" \notin diagnostics'
    BY <1>2, <1>4, <1>8 DEF GroupByKey
  <2> QED BY <1>3, <2>1
<1>9. ASSUME NEW key \in OrderKeys, OrderItem(key) PROVE Finished'
  <2>1. Reaches("ORDER BY") /\ "NonGroupedColumn" \notin diagnostics'
    BY <1>2, <1>4, <1>9 DEF OrderItem
  <2> QED BY <1>3, <2>1
<1>10. ASSUME AnalyzeGrouping PROVE Finished'
  <2>1. /\ relations' = relations /\ query' = query /\ clause' = 6 /\ clause # 6
        /\ diagnostics' = diagnostics \cup PlacementDiagnostics \cup GroupingDiagnostics
    BY <1>1, <1>10 DEF AnalyzeGrouping
  <2>2. DOMAIN output' = DOMAIN output
        /\ \A n \in DOMAIN output :
             /\ output'[n].name = output[n].name /\ output'[n].id = output[n].id
             /\ output'[n].qualifier = output[n].qualifier /\ output'[n].source = output[n].source
    BY <1>10, RemarkedOutputs
  <2>3. /\ PlacementDiagnostics' = PlacementDiagnostics
        /\ Grouped' = Grouped /\ GroupKeys' = GroupKeys
        /\ \A keys : GroupingCodes(keys)' = GroupingCodes(keys)
    BY <2>1, <2>2, GroupingStays
  <2>4. PICK keys : keys = GroupKeys
    OBVIOUS
  <2>5. Grouped => GroupingDiagnostics = GroupingCodes(keys)
    BY <2>4 DEF GroupingDiagnostics, GroupingCodes
  <2>6. "NonGroupedColumn" \notin diagnostics \cup PlacementDiagnostics
        /\ (~Grouped => "NonGroupedColumn" \notin GroupingDiagnostics)
    BY <2>1 DEF Finished, PlacementDiagnostics, GroupingDiagnostics
  <2>7. Grouped => GroupingCodes(keys) \subseteq diagnostics'
    BY <2>1, <2>5
  <2>8. "NonGroupedColumn" \in diagnostics' => Grouped /\ "NonGroupedColumn" \in GroupingCodes(keys)
    BY <2>1, <2>5, <2>6
  <2>9. Grouped' => \E k : k = GroupKeys' /\ GroupingCodes(k)' \subseteq diagnostics'
    BY <2>3, <2>4, <2>7
  <2>10. "NonGroupedColumn" \in diagnostics' =>
           Grouped' /\ \E k : k = GroupKeys' /\ "NonGroupedColumn" \in GroupingCodes(k)'
    BY <2>3, <2>4, <2>8
  <2>11. PlacementDiagnostics' \subseteq diagnostics'
    BY <2>1, <2>3
  <2> QED BY <2>1, <2>9, <2>10, <2>11 DEF Finished
<1> QED BY <1>5, <1>6, <1>7, <1>8, <1>9, <1>10 DEF Next

\* The nullability recorded of a key of ORDER BY.
SortedAs(e, null) ==
  ~null => IF IsPosition(e) THEN ~output[e.number].nullable
           ELSE IF OutputNamed(e) # None THEN ~output[OutputNamed(e)].nullable
           ELSE /\ e.kind # "integer" /\ ~Nullable(e)
                /\ clause = 6 => ~ExprReadsGroupingKey(e)

SortedRight ==
  /\ DOMAIN sorted \subseteq DOMAIN orderBy
  /\ \A i \in DOMAIN sorted : \E e, null : e = orderBy[i] /\ null = sorted[i] /\ SortedAs(e, null)

LEMMA SortedStep ==
  ASSUME Typed, Aligned, SortedRight, Next
  PROVE  SortedRight'
<1>1. relations \in FromClauses /\ clause \in 1 .. 6
  BY DEF Typed
<1>2. ASSUME NEW item \in Items, SelectItem(item) PROVE SortedRight'
  <2>1. Reaches("SELECT")
    BY <1>2 DEF SelectItem
  <2>2. clause' = 1 /\ clause' \in clause .. 5
    BY <1>1, <2>1, ReachesFacts
  <2>3. orderBy = <<>>
    BY <1>1, <2>2 DEF Typed
  <2>4. DOMAIN sorted = {}
    BY <2>3 DEF SortedRight
  <2>5. sorted' = sorted
    BY <1>2 DEF SelectItem
  <2> QED BY <2>4, <2>5 DEF SortedRight
<1>3. ASSUME NEW name, Reaches(name), relations' = relations, select' = select, output' = output,
             orderBy' = orderBy, sorted' = sorted
      PROVE  SortedRight'
  <2>1. clause' # 6
    BY <1>1, <1>3, ReachesFacts
  <2>2. ASSUME NEW e, NEW null, SortedAs(e, null) PROVE SortedAs(e, null)'
    <3>1. Nullable(e)' = Nullable(e)
      BY <1>3 DEF Nullable, Resolve
    <3>2. OutputNamed(e)' = OutputNamed(e) /\ (IsPosition(e)' <=> IsPosition(e))
      BY <1>3, MeaningStays
    <3> QED BY <1>3, <2>1, <2>2, <3>1, <3>2 DEF SortedAs
  <2> QED BY <1>3, <2>2 DEF SortedRight
<1>4. ASSUME NEW key \in OrderKeys, OrderItem(key) PROVE SortedRight'
  <2>1. /\ relations' = relations /\ select' = select /\ output' = output /\ orderBy' = <<key>>
        /\ Reaches("ORDER BY")
        /\ sorted' = <<IF IsPosition(key) THEN output[key.number].nullable
                       ELSE IF OutputNamed(key) # None THEN output[OutputNamed(key)].nullable
                       ELSE key.kind = "integer" \/ Nullable(key)>>
    BY <1>4 DEF OrderItem
  <2>2. clause' # 6
    BY <1>1, <2>1, ReachesFacts
  <2>3. PICK null : null = (IF IsPosition(key) THEN output[key.number].nullable
                            ELSE IF OutputNamed(key) # None THEN output[OutputNamed(key)].nullable
                            ELSE key.kind = "integer" \/ Nullable(key))
    OBVIOUS
  <2>4. DOMAIN sorted' = {1} /\ sorted'[1] = null /\ DOMAIN orderBy' = {1} /\ orderBy'[1] = key
    <3>1. sorted' = <<null>> /\ orderBy' = <<key>>
      BY <2>1, <2>3
    <3> QED BY <3>1
  <2>5. OutputNamed(key)' = OutputNamed(key) /\ (IsPosition(key)' <=> IsPosition(key))
    BY <2>1, MeaningStays
  <2>6. Nullable(key)' = Nullable(key)
    <3>1. relations' = relations
      BY <2>1
    <3> QED BY <3>1 DEF Nullable, Resolve
  <2>7. SortedAs(key, null)'
    <3>1. CASE IsPosition(key)
      BY <2>1, <2>3, <2>5, <3>1 DEF SortedAs
    <3>2. CASE ~IsPosition(key) /\ OutputNamed(key) # None
      BY <2>1, <2>3, <2>5, <3>2 DEF SortedAs
    <3>3. CASE ~IsPosition(key) /\ OutputNamed(key) = None
      BY <2>2, <2>3, <2>5, <2>6, <3>3 DEF SortedAs
    <3> QED BY <3>1, <3>2, <3>3
  <2> QED BY <2>4, <2>7 DEF SortedRight
<1>5. ASSUME AnalyzeGrouping PROVE SortedRight'
  <2>1. /\ relations' = relations /\ select' = select /\ orderBy' = orderBy /\ groupBy' = groupBy
        /\ clause' = 6
    BY <1>5 DEF AnalyzeGrouping, query
  <2>2. DOMAIN output' = DOMAIN output /\ \A n \in DOMAIN output : output'[n].name = output[n].name
    BY <1>5, RemarkedOutputs
  <2>3. sorted' = [i \in DOMAIN sorted |->
                     LET e == orderBy[i]
                     IN IF IsPosition(e) THEN output'[e.number].nullable
                        ELSE IF OutputNamed(e) # None THEN output'[OutputNamed(e)].nullable
                        ELSE sorted[i] \/ ExprReadsGroupingKey(e)]
    BY <1>5 DEF AnalyzeGrouping, Sorted
  <2>4. ASSUME NEW i \in DOMAIN sorted
        PROVE  \E e, null : e = orderBy'[i] /\ null = sorted'[i] /\ SortedAs(e, null)'
    <3>1. PICK e, old : e = orderBy[i] /\ old = sorted[i] /\ SortedAs(e, old)
      BY DEF SortedRight
    <3>2. PICK null : null = (IF IsPosition(e) THEN output'[e.number].nullable
                              ELSE IF OutputNamed(e) # None THEN output'[OutputNamed(e)].nullable
                              ELSE old \/ ExprReadsGroupingKey(e))
      OBVIOUS
    <3>3. e = orderBy'[i] /\ null = sorted'[i]
      BY <2>1, <2>3, <3>1, <3>2
    <3>4. OutputNamed(e)' = OutputNamed(e) /\ (IsPosition(e)' <=> IsPosition(e))
      BY <2>1, <2>2, MeaningStays
    <3>5. Nullable(e)' = Nullable(e) /\ (ExprReadsGroupingKey(e)' <=> ExprReadsGroupingKey(e))
      <4>1. Nullable(e)' = Nullable(e)
        BY <2>1 DEF Nullable, Resolve
      <4> QED BY <2>1, <4>1, ReadsStays
    <3>6. SortedAs(e, null)'
      <4>1. CASE IsPosition(e)
        BY <3>2, <3>4, <4>1 DEF SortedAs
      <4>2. CASE ~IsPosition(e) /\ OutputNamed(e) # None
        BY <3>2, <3>4, <4>2 DEF SortedAs
      <4>3. CASE ~IsPosition(e) /\ OutputNamed(e) = None
        <5>1. ~null => ~old /\ ~ExprReadsGroupingKey(e)
          BY <3>2, <4>3
        <5>2. ~null => e.kind # "integer" /\ ~Nullable(e)
          BY <3>1, <4>3, <5>1 DEF SortedAs
        <5> QED BY <3>4, <3>5, <4>3, <5>1, <5>2 DEF SortedAs
      <4> QED BY <4>1, <4>2, <4>3
    <3> QED BY <3>3, <3>6
  <2>5. DOMAIN sorted' = DOMAIN sorted
    BY <2>3
  <2> QED BY <2>1, <2>4, <2>5 DEF SortedRight
<1>6. ASSUME NEW pred \in Predicates, Where(pred) \/ Having(pred) PROVE SortedRight'
  BY <1>3, <1>6 DEF Where, Having
<1>7. ASSUME NEW key \in Keys, NEW wrapper \in {"none", "list", "sets"}, GroupByKey(key, wrapper)
      PROVE  SortedRight'
  BY <1>3, <1>7 DEF GroupByKey
<1> QED BY <1>2, <1>4, <1>5, <1>6, <1>7 DEF Next

LEMMA TypedStep ==
  ASSUME Typed, Next
  PROVE  Typed'
<1> DEFINE Onward == clause' \in 1 .. 6 /\ (clause >= 3 => clause' >= 3) /\ (clause >= 5 => clause' >= 5)
<1>1. ASSUME NEW name, Reaches(name)
      PROVE  Onward /\ (name = "GROUP BY" => clause' = 3) /\ (name = "ORDER BY" => clause' = 5)
  <2>1. clause \in 1 .. 6
    BY DEF Typed
  <2>2. /\ clause' \in 1 .. 6 /\ \A n \in Nat : clause >= n => clause' >= n
        /\ (name = "GROUP BY" => clause' = 3) /\ (name = "ORDER BY" => clause' = 5)
    BY <1>1, <2>1, ReachesFacts
  <2>3. 3 \in Nat /\ 5 \in Nat
    OBVIOUS
  <2>4. (clause >= 3 => clause' >= 3) /\ (clause >= 5 => clause' >= 5)
    BY <2>2, <2>3
  <2> QED BY <2>2, <2>4
<1> HIDE DEF Onward
<1>2. ASSUME NEW item \in Items, SelectItem(item) PROVE Typed'
  <2>1. Onward
    BY <1>1, <1>2 DEF SelectItem
  <2> QED BY <1>2, <2>1 DEF SelectItem, Typed, Onward
<1>3. ASSUME NEW pred \in Predicates, Where(pred) PROVE Typed'
  <2>1. Onward
    BY <1>1, <1>3 DEF Where
  <2> QED BY <1>3, <2>1 DEF Where, Typed, Onward
<1>4. ASSUME NEW pred \in Predicates, Having(pred) PROVE Typed'
  <2>1. Onward
    BY <1>1, <1>4 DEF Having
  <2> QED BY <1>4, <2>1 DEF Having, Typed, Onward
<1>5. ASSUME NEW key \in Keys, NEW wrapper \in {"none", "list", "sets"}, GroupByKey(key, wrapper)
      PROVE  Typed'
  <2> DEFINE part == [expr |-> key, wrapper |-> wrapper]
  <2>1. part \in GroupParts
    BY DEF GroupParts
  <2>2. groupBy' = Append(groupBy, part)
    BY <1>5 DEF GroupByKey
  <2> HIDE DEF part
  <2>3. groupBy' \in Seq(GroupParts)
    BY <2>1, <2>2 DEF Typed
  <2>4. Onward /\ clause' = 3
    BY <1>1, <1>5 DEF GroupByKey
  <2>5. /\ clause' \in 1 .. 6 /\ clause' >= 3
        /\ orderBy' # <<>> => clause' >= 5
    <3>1. orderBy' = orderBy
      BY <1>5 DEF GroupByKey
    <3>2. orderBy # <<>> => clause >= 5
      BY DEF Typed
    <3>3. clause >= 5 => clause' >= 5
      BY <2>4 DEF Onward
    <3>4. clause' \in 1 .. 6 /\ clause' >= 3
      BY <2>4
    <3> QED BY <3>1, <3>2, <3>3, <3>4
  <2>6. /\ relations' = relations /\ select' = select /\ where' = where /\ having' = having
        /\ orderBy' = orderBy
    BY <1>5 DEF GroupByKey
  <2> QED BY <2>3, <2>5, <2>6 DEF Typed
<1>6. ASSUME NEW key \in OrderKeys, OrderItem(key) PROVE Typed'
  <2>1. Onward /\ clause' = 5
    BY <1>1, <1>6 DEF OrderItem
  <2>2. clause' \in 1 .. 6 /\ clause' >= 3 /\ clause' >= 5
    BY <2>1
  <2>3. /\ relations' = relations /\ select' = select /\ where' = where /\ having' = having
        /\ groupBy' = groupBy /\ orderBy' = <<key>>
    BY <1>6 DEF OrderItem
  <2>4. orderBy' \in Seq(OrderKeys)
    BY <2>3
  <2> QED BY <2>2, <2>3, <2>4 DEF Typed
<1>7. ASSUME AnalyzeGrouping PROVE Typed'
  BY <1>7 DEF AnalyzeGrouping, query, Typed
<1> QED BY <1>2, <1>3, <1>4, <1>5, <1>6, <1>7 DEF Next

LEMMA AlignedStep ==
  ASSUME Typed, Aligned, FirstNamed, Next
  PROVE  Aligned' /\ FirstNamed'
<1>1. clause \in 1 .. 6
  BY DEF Typed
<1>2. ASSUME NEW item \in Items, SelectItem(item) PROVE Aligned' /\ FirstNamed'
  BY <1>2, AlignedSelect, FirstNamedSelect
<1>3. ASSUME NEW name, Reaches(name), relations' = relations, select' = select, output' = output
      PROVE  Aligned' /\ FirstNamed'
  <2>1. clause' # 6
    BY <1>1, <1>3, ReachesFacts
  <2> QED BY <1>3, <2>1, AlignedStays, FirstNamedStays
<1>4. ASSUME AnalyzeGrouping PROVE Aligned' /\ FirstNamed'
  <2>1. relations' = relations /\ select' = select
    BY <1>4 DEF AnalyzeGrouping, query
  <2>2. DOMAIN output' = DOMAIN output /\ \A n \in DOMAIN output : output'[n].name = output[n].name
    BY <1>4, RemarkedOutputs
  <2> QED BY <1>4, <2>1, <2>2, AlignedAtTheEnd, FirstNamedStays
<1>5. ASSUME NEW pred \in Predicates, Where(pred) \/ Having(pred) PROVE Aligned' /\ FirstNamed'
  BY <1>3, <1>5 DEF Where, Having
<1>6. ASSUME NEW key \in Keys, NEW wrapper \in {"none", "list", "sets"}, GroupByKey(key, wrapper)
      PROVE  Aligned' /\ FirstNamed'
  BY <1>3, <1>6 DEF GroupByKey
<1>7. ASSUME NEW key \in OrderKeys, OrderItem(key) PROVE Aligned' /\ FirstNamed'
  BY <1>3, <1>7 DEF OrderItem
<1> QED BY <1>2, <1>4, <1>5, <1>6, <1>7 DEF Next

Inv == Typed /\ Aligned /\ FirstNamed /\ Quiet /\ Finished /\ SortedRight

LEMMA InvHolds == Spec => []Inv
<1>1. Init => Inv
  <2> SUFFICES ASSUME Init PROVE Inv
    OBVIOUS
  <2>1. Typed
    BY DEF Init, Typed
  <2>2. output = <<>> /\ select = <<>> /\ relations \in FromClauses
    BY DEF Init
  <2>3. Projection = <<>>
    <3>1. ToSet(select) = {} /\ select \in Seq(Items) /\ DOMAIN select = {}
      BY <2>2, OneSet
    <3>2. Projection \in Seq(Expr) /\ ToSet(Projection) = UNION {ToSet(ProjectionOf(select[i])) : i \in DOMAIN select}
      BY <2>2, <3>1, ProjectionParts
    <3>3. \A n \in DOMAIN Projection : Projection[n] \in ToSet(Projection)
      BY DEF ToSet
    <3>4. DOMAIN Projection = {}
      BY <3>1, <3>2, <3>3
    <3> QED BY <3>2, <3>4
  <2>4. Aligned
    BY <2>2, <2>3 DEF Aligned, IsSeq, Init
  <2>5. FirstNamed
    BY <2>2 DEF FirstNamed, NamedItems, NamedOutputs
  <2>6. PartsAreFine
    BY OneSet DEF Init, PartsAreFine
  <2>7. Finished /\ SortedRight /\ Quiet
    BY <2>6 DEF Init, Finished, SortedRight, Quiet
  <2> QED BY <2>1, <2>4, <2>5, <2>7 DEF Inv
<1>2. Inv /\ [Next]_vars => Inv'
  <2> SUFFICES ASSUME Inv, [Next]_vars PROVE Inv'
    OBVIOUS
  <2>1. CASE Next
    BY <2>1, TypedStep, AlignedStep, QuietStep, FinishedStep, SortedStep DEF Inv
  <2>2. CASE UNCHANGED vars
    <3>1. /\ relations' = relations /\ clause' = clause /\ query' = query /\ output' = output
          /\ sorted' = sorted /\ diagnostics' = diagnostics
          /\ select' = select /\ where' = where /\ groupBy' = groupBy /\ having' = having
          /\ orderBy' = orderBy
      BY <2>2 DEF vars, query
    <3>2. Typed'
      BY <3>1 DEF Inv, Typed
    <3>3. FirstNamed'
      BY <3>1, FirstNamedStays DEF Inv
    <3>4. Aligned'
      <4>1. Projection' = Projection
        BY <3>1, ProjectionStays
      <4>2. ASSUME NEW n \in DOMAIN output
            PROVE  \E out, e : out = output'[n] /\ e = Projection'[n] /\ Corresponds(out, e)'
        <5>1. PICK out, e : out = output[n] /\ e = Projection[n] /\ Corresponds(out, e)
          BY DEF Inv, Aligned
        <5>2. Corresponds(out, e)'
          BY <3>1, <5>1, CorrespondsStays
        <5> QED BY <3>1, <4>1, <5>1, <5>2
      <4>3. ASSUME clause = 6, NEW n \in DOMAIN output PROVE \E out : out = output'[n] /\ Marked(out)'
        <5>1. PICK out : out = output[n] /\ Marked(out)
          BY <4>3 DEF Inv, Aligned
        <5>2. Marked(out)'
          BY <3>1, <5>1, ReadsStays DEF Marked
        <5> QED BY <3>1, <5>1, <5>2
      <4> QED BY <3>1, <4>1, <4>2, <4>3 DEF Inv, Aligned, IsSeq
    <3>5. Quiet'
      <4>1. \A e : InferDiagnostics(e)' = InferDiagnostics(e)
        BY <3>1, MeaningStays
      <4>2. PartsAreFine => PartsAreFine'
        BY <3>1, <4>1, FineStays DEF PartsAreFine
      <4> QED BY <3>1, <4>2 DEF Inv, Quiet
    <3>6. Finished'
      <4>1. /\ PlacementDiagnostics' = PlacementDiagnostics
            /\ Grouped' = Grouped /\ GroupKeys' = GroupKeys
            /\ \A keys : GroupingCodes(keys)' = GroupingCodes(keys)
        BY <3>1, GroupingStays
      <4> QED BY <3>1, <4>1 DEF Inv, Finished
    <3>7. SortedRight'
      <4>1. ASSUME NEW e, NEW null, SortedAs(e, null) PROVE SortedAs(e, null)'
        <5>1. Nullable(e)' = Nullable(e)
          BY <3>1 DEF Nullable, Resolve
        <5>2. OutputNamed(e)' = OutputNamed(e) /\ (IsPosition(e)' <=> IsPosition(e))
              /\ (ExprReadsGroupingKey(e)' <=> ExprReadsGroupingKey(e))
          BY <3>1, MeaningStays, ReadsStays
        <5> QED BY <3>1, <4>1, <5>1, <5>2 DEF SortedAs
      <4> QED BY <3>1, <4>1 DEF Inv, SortedRight
    <3> QED BY <3>2, <3>3, <3>4, <3>5, <3>6, <3>7 DEF Inv
  <2> QED BY <2>1, <2>2
<1> QED BY <1>1, <1>2, PTL DEF Spec

-----------------------------------------------------------------------------
(* What is known in the end of the parts of a query.                        *)

\* The references of an expression all mean something.
Resolved(e) == \A n \in Nodes[e] : n.kind = "reference" => Resolve(n).status = "found"

LEMMA InferredFacts ==
  ASSUME NEW e \in Expr, InferDiagnostics(e) = {}
  PROVE  Resolved(e) /\ ~WindowInAggregate(e)
BY DEF InferDiagnostics, Unresolved, Resolved

LEMMA PlainPlace ==
  ASSUME relations \in FromClauses, NEW p \in Bases, NEW e, e = PlaceReference(p)
  PROVE  /\ e \in Expr /\ e.kind = "reference" /\ Nodes[e] = {e}
         /\ ~ContainsAggregate(e) /\ ~ContainsWindow(e)
         /\ Resolve(e).status = "found" /\ Place(e) = p /\ Resolved(e) /\ ~WindowInAggregate(e)
<1>1. e \in Expr /\ e.kind = "reference" /\ Resolve(e).status = "found" /\ Place(e) = p
  BY PlaceFound
<1>2. Nodes[e] = {e}
  BY <1>1, NodesEquation, Shapes
<1>3. ~IsAggregate(e) /\ ~IsWindow(e)
  BY <1>1 DEF IsAggregate, IsWindow
<1> QED BY <1>1, <1>2, <1>3 DEF ContainsAggregate, ContainsWindow, WindowInAggregate, Resolved

\* A column that `*` projects.
FromStar(e) ==
  \E item \in ToSet(select), p \in Bases :
    item.expr.kind = "star" /\ p \in ToSet(StarColumns(item.expr)) /\ e = PlaceReference(p)

FromItem(e) == \E item \in ToSet(select) : item.expr.kind # "star" /\ e = item.expr

LEMMA Projected ==
  ASSUME Inv, NEW e \in ToSet(Projection)
  PROVE  FromStar(e) \/ (FromItem(e) /\ e \in Expr /\ e.kind # "star")
<1>1. relations \in FromClauses /\ select \in Seq(Items)
  BY DEF Inv, Typed
<1>2. PICK i \in DOMAIN select : e \in ToSet(ProjectionOf(select[i]))
  BY <1>1, ProjectionParts
<1>3. PICK item : item = select[i]
  OBVIOUS
<1>4. item \in ToSet(select) /\ item \in Items /\ item.expr \in Expr
  BY <1>1, <1>3, QueryAssumption DEF ToSet
<1>5. CASE item.expr.kind = "star"
  <2> DEFINE s == StarColumns(item.expr)
  <2>1. ProjectionOf(item) = [n \in DOMAIN s |-> PlaceReference(s[n])]
    BY <1>5 DEF ProjectionOf
  <2> HIDE DEF s
  <2>2. PICK n \in DOMAIN s : e = PlaceReference(s[n])
    BY <1>2, <1>3, <2>1 DEF ToSet
  <2>3. s[n] \in Bases /\ s[n] \in ToSet(s)
    BY <1>1, StarFacts DEF ToSet, s
  <2> QED BY <1>4, <1>5, <2>2, <2>3 DEF FromStar, s
<1>6. CASE item.expr.kind # "star"
  <2>1. ProjectionOf(item) = <<item.expr>>
    BY <1>6 DEF ProjectionOf
  <2>2. e = item.expr
    BY <1>2, <1>3, <2>1, OneSet
  <2> QED BY <1>4, <1>6, <2>2 DEF FromItem
<1> QED BY <1>5, <1>6

\* Nothing was wrong with the parts.
Settled == Inv /\ clause = 6 /\ diagnostics \subseteq Late

LEMMA ProjectedRight ==
  ASSUME Settled, NEW e \in ToSet(Projection)
  PROVE  e \in Expr /\ e.kind # "star" /\ Resolved(e) /\ ~WindowInAggregate(e)
<1>1. relations \in FromClauses /\ PartsAreFine /\ Inv
  BY DEF Settled, Inv, Typed, Quiet
<1>2. CASE FromStar(e)
  BY <1>1, <1>2, PlainPlace DEF FromStar
<1>3. CASE FromItem(e) /\ e \in Expr /\ e.kind # "star"
  <2>1. InferDiagnostics(e) = {}
    BY <1>1, <1>3 DEF FromItem, PartsAreFine
  <2> QED BY <1>3, <2>1, InferredFacts
<1> QED BY <1>1, <1>2, <1>3, Projected

LEMMA OutputsProjected ==
  ASSUME Inv, NEW n \in DOMAIN output
  PROVE  n \in Nat /\ Projection[n] \in ToSet(Projection)
         /\ \E out : out = output[n] /\ Corresponds(out, Projection[n])
                     /\ (clause = 6 => Marked(out))
<1>1. n \in DOMAIN Projection /\ n \in Nat
  <2>1. PICK m \in Nat : DOMAIN output = 1 .. m
    BY SeqHas DEF Inv, Aligned, IsSeq
  <2> QED BY <2>1 DEF Inv, Aligned
<1> QED BY <1>1 DEF Inv, Aligned, ToSet

LEMMA NamedFacts ==
  ASSUME Inv, NEW e
  PROVE  /\ OutputNamed(e) # None => OutputNamed(e) \in DOMAIN output
         /\ OutputNamed(e) # None <=>
              e.kind = "reference" /\ e.qualifier = NoQualifier /\ NamedOutputs(e.name) # {}
         /\ OutputNamed(e) # None => OutputNamed(e) = LeastOf(NamedOutputs(e.name))
<1> DEFINE outs == NamedOutputs(e.name)
<1>1. PICK m \in Nat : DOMAIN output = 1 .. m
  BY SeqHas DEF Inv, Aligned, IsSeq
<1>2. outs \in SUBSET Nat /\ outs \subseteq DOMAIN output
  BY <1>1 DEF NamedOutputs
<1>3. OutputNamed(e) = IF e.kind = "reference" /\ e.qualifier = NoQualifier /\ outs # {}
                       THEN LeastOf(outs) ELSE None
  BY DEF OutputNamed, NamedOutputs
<1> HIDE DEF outs
<1>4. outs # {} => LeastOf(outs) \in outs
  BY <1>2, LeastIn
<1>5. outs # {} => LeastOf(outs) # None
  <2>1. \A n \in Nat : n # None
    BY QueryAssumption
  <2>2. outs # {} => LeastOf(outs) \in Nat
    BY <1>2, <1>4
  <2> QED BY <2>1, <2>2
<1> QED BY <1>2, <1>3, <1>4, <1>5 DEF outs

-----------------------------------------------------------------------------
(* The keys.                                                                *)

\* A key and the expression it stands for.
Represents(k, m) ==
  IF k.node = None
  THEN \E p \in Bases :
         m = PlaceReference(p)
         /\ k = GroupKey(At(p).id, NoQualifier, At(p).name, relations[p[1]].qualifier, None)
  ELSE /\ k.node = m /\ k.id = IdOf(m) /\ k.instance = NoQualifier
       /\ m.kind = "reference" => k.qualifier = m.qualifier /\ k.name = m.name

IsGroupable(m) == m \in Expr /\ m.kind # "star" /\ Resolved(m) /\ ~IllegalGroupKey(m)

KeyFor(key) ==
  IF key.kind = "integer" THEN KeyOfPosition(key.number)
  ELSE KeyOfNode(IF ItemOf(key) = None THEN key ELSE ItemOf(key))

LEMMA KeyMeans ==
  ASSUME Settled, NEW key \in KeyExprs, ~IllegalKey(key), ~OutOfRange(key)
  PROVE  Represents(KeyFor(key), KeyMeaning(key)) /\ IsGroupable(KeyMeaning(key))
<1>1. relations \in FromClauses /\ PartsAreFine /\ Inv /\ FirstNamed
      /\ select \in Seq(Items) /\ groupBy \in Seq(GroupParts)
  BY DEF Settled, Inv, Typed, Quiet
<1>2. PICK part \in ToSet(groupBy) : part.expr = key /\ part \in GroupParts
  BY <1>1 DEF KeyExprs, ToSet
<1>3. key \in Keys /\ key \in Expr /\ key.kind # "star" /\ KeyIsFine(part)
  BY <1>1, <1>2, QueryAssumption DEF GroupParts, PartsAreFine
<1>4. CASE key.kind = "integer"
  <2>1. IsPosition(key) /\ key.number \in DOMAIN output
    BY <1>4 DEF OutOfRange, IsPosition
  <2>2. PICK out, e : /\ out = output[key.number] /\ e = Projection[key.number] /\ Corresponds(out, e)
                      /\ e \in ToSet(Projection)
    BY <1>1, <2>1, OutputsProjected
  <2>3. KeyMeaning(key) = e /\ ItemOf(key) = out.source
    BY <1>4, <2>1, <2>2 DEF KeyMeaning, ItemOf
  <2>4. KeyFor(key) = IF out.source # None /\ out.source.kind = "reference"
                      THEN GroupKey(out.id, out.source.qualifier, out.source.name, out.qualifier, out.source)
                      ELSE GroupKey(out.id, NoQualifier, out.name, out.qualifier, out.source)
    BY <1>4, <2>2 DEF KeyFor, KeyOfPosition
  <2>5. e \in Expr /\ e.kind # "star" /\ Resolved(e)
    BY <2>2, ProjectedRight
  <2>6. CASE out.source = None
    <3>1. PICK p \in Bases : /\ e = PlaceReference(p) /\ out.name = At(p).name /\ out.id = At(p).id
                             /\ out.qualifier = relations[p[1]].qualifier
      BY <2>2, <2>6 DEF Corresponds
    <3>2. KeyFor(key) = GroupKey(At(p).id, NoQualifier, At(p).name, relations[p[1]].qualifier, None)
      BY <2>4, <2>6, <3>1
    <3>3. ~IllegalGroupKey(e)
      BY <1>1, <3>1, PlainPlace DEF IllegalGroupKey
    <3>4. KeyFor(key).node = None
      BY <3>2 DEF GroupKey
    <3> QED BY <2>3, <2>5, <3>1, <3>2, <3>3, <3>4 DEF Represents, IsGroupable
  <2>7. CASE out.source # None
    <3>1. out.source = e /\ out.id = IdOf(e) /\ out.qualifier = NoQualifier
      BY <2>2, <2>7 DEF Corresponds
    <3>2. ~IllegalGroupKey(e)
      BY <2>3, <2>7, <3>1 DEF IllegalKey
    <3>3. Represents(KeyFor(key), e)
      BY <2>4, <2>7, <3>1 DEF Represents, GroupKey
    <3> QED BY <2>3, <2>5, <3>2, <3>3 DEF IsGroupable
  <2> QED BY <2>6, <2>7
<1>5. CASE key.kind # "integer" /\ GroupKeyAliasItem(key) # None
  <2> DEFINE named == NamedItems(key.name)
             item  == select[LeastOf(named)].expr
  <2>1. /\ key.kind = "reference" /\ key.qualifier = NoQualifier
        /\ Resolve(key).status = "missing" /\ named # {}
        /\ GroupKeyAliasItem(key) = item /\ ItemOf(key) = item
    BY <1>5 DEF GroupKeyAliasItem, ItemOf, NamedItems
  <2>2. ~IsColumnName(key.name)
    <3>1. \A p : ~Fits(key, p)
      BY <1>1, <2>1, Referring
    <3> QED BY <2>1, <3>1 DEF IsColumnName, Fits
  <2>3. NamedOutputs(key.name) # {} /\ Projection[LeastOf(NamedOutputs(key.name))] = item
    BY <1>1, <2>1, <2>2 DEF FirstNamed
  <2>4. OutputNamed(key) # None /\ OutputNamed(key) \in DOMAIN output
        /\ OutputNamed(key) = LeastOf(NamedOutputs(key.name))
    BY <1>1, <2>1, <2>3, NamedFacts
  <2> HIDE DEF named, item
  <2>5. KeyMeaning(key) = item
    BY <2>1, <2>3, <2>4 DEF KeyMeaning, IsPosition
  <2>6. item \in ToSet(Projection)
    BY <1>1, <2>3, <2>4, OutputsProjected
  <2>7. item \in Expr /\ item.kind # "star" /\ Resolved(item)
    BY <2>6, ProjectedRight
  <2>8. item # None /\ ~IllegalGroupKey(item)
    BY <1>5, <2>1 DEF IllegalKey
  <2>9. KeyFor(key) = KeyOfNode(item)
    BY <1>5, <2>1, <2>8 DEF KeyFor
  <2>10. Represents(KeyOfNode(item), item)
    BY <2>8 DEF Represents, KeyOfNode, GroupKey
  <2> QED BY <2>5, <2>7, <2>8, <2>9, <2>10 DEF IsGroupable
<1>6. CASE key.kind # "integer" /\ GroupKeyAliasItem(key) = None
  <2>1. InferDiagnostics(key) = {}
    BY <1>2, <1>3, <1>6 DEF KeyIsFine
  <2>2. Resolved(key) /\ key \in Nodes[key]
    BY <1>3, <2>1, InferredFacts, NodesClosed
  <2>3. KeyMeaning(key) = key
    BY <1>6, <2>2 DEF KeyMeaning, IsPosition, Resolved
  <2>4. ItemOf(key) = None /\ KeyFor(key) = KeyOfNode(key)
    BY <1>6 DEF ItemOf, KeyFor
  <2>5. key # None /\ ~IllegalGroupKey(key)
    BY <1>3, QueryAssumption DEF IllegalKey
  <2>6. Represents(KeyOfNode(key), key)
    BY <2>5 DEF Represents, KeyOfNode, GroupKey
  <2> QED BY <1>3, <2>2, <2>3, <2>4, <2>5, <2>6 DEF IsGroupable
<1> QED BY <1>4, <1>5, <1>6

LEMMA KeysMean ==
  ASSUME Settled, Grouped
  PROVE  /\ \A k \in GroupKeys : \E m \in AllKeys : Represents(k, m)
         /\ \A m \in AllKeys : IsGroupable(m) /\ \E k \in GroupKeys : Represents(k, m)
         /\ KeysOfTrees(GroupKeys)
         /\ \A k \in GroupKeys : k.node # None => ~ContainsAggregate(k.node)
<1>1. KeyDiagnostics = {}
  <2>1. KeyDiagnostics \subseteq diagnostics
    BY DEF Settled, Inv, Finished, GroupingCodes
  <2> QED BY <2>1 DEF Settled, Late, KeyDiagnostics
<1>2. \A key \in KeyExprs : ~IllegalKey(key) /\ ~OutOfRange(key)
  BY <1>1 DEF KeyDiagnostics
<1>3. GroupKeys = {KeyFor(key) : key \in KeyExprs}
  BY <1>2 DEF GroupKeys, KeyFor
<1>4. AllKeys = {KeyMeaning(key) : key \in KeyExprs}
  BY DEF AllKeys, KeyMeanings, KeyExprs
<1>5. \A key \in KeyExprs : Represents(KeyFor(key), KeyMeaning(key)) /\ IsGroupable(KeyMeaning(key))
  BY <1>2, KeyMeans
<1>6. \A k \in GroupKeys : \E m \in AllKeys : Represents(k, m) /\ IsGroupable(m)
  BY <1>3, <1>4, <1>5
<1>7. \A m \in AllKeys : IsGroupable(m) /\ \E k \in GroupKeys : Represents(k, m)
  BY <1>3, <1>4, <1>5
<1>8. ASSUME NEW k \in GroupKeys, k.node # None PROVE k.node \in Expr /\ ~ContainsAggregate(k.node)
  BY <1>6, <1>8 DEF Represents, IsGroupable, IllegalGroupKey
<1> QED BY <1>6, <1>7, <1>8 DEF KeysOfTrees

-----------------------------------------------------------------------------
(* What comes after grouping.                                               *)

LEMMA Sorting ==
  ASSUME Settled, NEW e \in ToSet(orderBy)
  PROVE  \/ SortMeaning(e) \in ToSet(Projection)
         \/ /\ SortMeaning(e) = e /\ ~IsPosition(e) /\ OutputNamed(e) = None
            /\ e \in Expr /\ e.kind # "integer" /\ e.kind # "star"
            /\ Resolved(e) /\ ~WindowInAggregate(e)
<1>1. PartsAreFine /\ Inv /\ orderBy \in Seq(OrderKeys)
  BY DEF Settled, Inv, Typed, Quiet
<1>2. e \in OrderKeys /\ OrderKeyIsFine(e)
  BY <1>1 DEF ToSet, PartsAreFine
<1>3. e \in Expr /\ e.kind # "star"
  BY <1>2, QueryAssumption
<1>4. CASE IsPosition(e)
  <2>1. e.number \in DOMAIN output /\ SortMeaning(e) = Projection[e.number]
    BY <1>4 DEF IsPosition, SortMeaning
  <2> QED BY <1>1, <2>1, OutputsProjected
<1>5. CASE ~IsPosition(e) /\ OutputNamed(e) # None
  <2>1. OutputNamed(e) \in DOMAIN output /\ SortMeaning(e) = Projection[OutputNamed(e)]
    BY <1>1, <1>5, NamedFacts DEF SortMeaning
  <2> QED BY <1>1, <2>1, OutputsProjected
<1>6. CASE ~IsPosition(e) /\ OutputNamed(e) = None
  <2>1. e.kind # "integer" /\ InferDiagnostics(e) = {}
    BY <1>2, <1>6 DEF OrderKeyIsFine
  <2> QED BY <1>3, <1>6, <2>1, InferredFacts DEF SortMeaning
<1> QED BY <1>4, <1>5, <1>6

\* An expression that the last pass looks at, if the query is grouped.
IsChecked(e) == Grouped => \E keys : keys = GroupKeys /\ CheckGroupingExpr(e, keys) \subseteq diagnostics

LEMMA AfterGroupingChecked ==
  ASSUME Settled, NEW e \in AfterGrouping
  PROVE  /\ e \in Expr /\ e.kind # "star" /\ Resolved(e) /\ ~WindowInAggregate(e)
         /\ FromStar(e) \/ IsChecked(e)
         /\ ~Grouped => ~ContainsAggregate(e)
<1>1. relations \in FromClauses /\ PartsAreFine /\ Inv /\ select \in Seq(Items)
      /\ having \in Seq(Predicates) /\ orderBy \in Seq(OrderKeys) /\ Finished /\ clause = 6
  BY DEF Settled, Inv, Typed, Quiet
<1>2. PICK keys : keys = GroupKeys
  OBVIOUS
<1>3. Grouped => CheckSelect(keys) \cup CheckHaving(keys) \cup CheckOrderBy(keys) \subseteq diagnostics
  BY <1>1, <1>2 DEF Finished, GroupingCodes
<1>4. CASE e \in ToSet(Projection)
  <2>1. e \in Expr /\ e.kind # "star" /\ Resolved(e) /\ ~WindowInAggregate(e)
    BY <1>4, ProjectedRight
  <2>2. CASE FromStar(e)
    <3>1. ~ContainsAggregate(e)
      BY <1>1, <2>2, PlainPlace DEF FromStar
    <3> QED BY <2>1, <2>2, <3>1
  <2>3. CASE FromItem(e)
    <3>1. PICK i \in DOMAIN select : select[i].expr = e
      BY <2>3 DEF FromItem, ToSet
    <3>2. CheckGroupingExpr(e, keys) \subseteq CheckSelect(keys)
      BY <2>1, <3>1 DEF CheckSelect, CheckItem
    <3>3. IsChecked(e)
      BY <1>2, <1>3, <3>2 DEF IsChecked
    <3>4. ~Grouped => ~ContainsAggregate(e)
      BY <3>1 DEF Grouped
    <3> QED BY <2>1, <3>3, <3>4
  <2> QED BY <1>1, <1>4, <2>2, <2>3, Projected
<1>5. CASE e \in ToSet(having)
  <2>1. e \in Predicates /\ InferDiagnostics(e) = {} /\ having # <<>>
    BY <1>1, <1>5, OneSet DEF ToSet, PartsAreFine
  <2>2. e \in Expr /\ e.kind # "star"
    BY <2>1, QueryAssumption
  <2>3. CheckGroupingExpr(e, keys) \subseteq CheckHaving(keys)
    BY <1>5, <2>2 DEF CheckHaving, CheckItem
  <2>4. IsChecked(e) /\ Grouped
    BY <1>2, <1>3, <2>1, <2>3 DEF IsChecked, Grouped
  <2> QED BY <2>1, <2>2, <2>4, InferredFacts
<1>6. CASE \E o \in ToSet(orderBy) : e = SortMeaning(o) /\ e \notin ToSet(Projection)
  <2>1. PICK o \in ToSet(orderBy) : e = SortMeaning(o) /\ e \notin ToSet(Projection)
    BY <1>6
  <2>2. /\ e = o /\ OutputNamed(o) = None /\ e \in Expr /\ e.kind # "integer" /\ e.kind # "star"
        /\ Resolved(e) /\ ~WindowInAggregate(e)
    BY <2>1, Sorting
  <2>3. CheckGroupingExpr(e, keys) \subseteq CheckOrderBy(keys)
    BY <2>1, <2>2 DEF CheckOrderBy, CheckItem
  <2>4. IsChecked(e)
    BY <1>2, <1>3, <2>3 DEF IsChecked
  <2>5. ~Grouped => ~ContainsAggregate(e)
    BY <2>1, <2>2 DEF Grouped, ToSet
  <2> QED BY <2>2, <2>4, <2>5
<1> QED BY <1>4, <1>5, <1>6 DEF AfterGrouping

LEMMA SameProbes ==
  /\ \A e : (G!ContainsAggregate(e) <=> ContainsAggregate(e)) /\ (G!ContainsWindow(e) <=> ContainsWindow(e))
  /\ \A e : G!IsAggregate(e) <=> IsAggregate(e)
  /\ \A e : G!SameNode(e, e) <=> SameNode(e, e)
  /\ G!Nodes = Nodes
<1>1. G!Nodes = Nodes
  BY DEF G!Nodes, Nodes
<1>2. \A e : (G!IsAggregate(e) <=> IsAggregate(e)) /\ (G!IsWindow(e) <=> IsWindow(e))
  BY DEF G!IsAggregate, IsAggregate, G!Aggregates, Aggregates, G!IsWindow, IsWindow
<1> QED BY <1>1, <1>2 DEF G!ContainsAggregate, ContainsAggregate, G!ContainsWindow, ContainsWindow,
                          G!SameNode, SameNode

\* The query asks no clause for what is computed after it.
THEOREM StagesRespectedHolds == Spec => []StagesRespected
<1>1. Inv => StagesRespected
  <2> SUFFICES ASSUME Inv, Accepted
               PROVE  /\ \A e \in ToSet(where) \cup AllKeys : G!EvaluableAt(e, "rows")
                      /\ \A e \in ToSet(having) : G!EvaluableAt(e, "groups")
                      /\ \A e \in ToSet(Projection) \cup {SortMeaning(e) : e \in ToSet(orderBy)} :
                           G!EvaluableAt(e, "windows")
    BY DEF StagesRespected
  <2>1. Settled /\ diagnostics = {} /\ PlacementDiagnostics = {}
    BY DEF Accepted, Settled, Inv, Finished
  <2>2. ASSUME NEW e, ~ContainsAggregate(e) PROVE \A n \in Nodes[e] : ~IsAggregate(n)
    BY <2>2 DEF ContainsAggregate
  <2>3. ASSUME NEW e \in ToSet(where) \cup AllKeys PROVE ~ContainsAggregate(e) /\ ~ContainsWindow(e)
    <3>1. CASE e \in ToSet(where)
      BY <2>1, <3>1 DEF PlacementDiagnostics
    <3>2. CASE e \in AllKeys
      <4>1. groupBy # <<>>
        BY <3>2 DEF AllKeys, KeyMeanings
      <4>2. Grouped
        BY <4>1 DEF Grouped
      <4> QED BY <2>1, <3>2, <4>2, KeysMean DEF IsGroupable, IllegalGroupKey
    <3> QED BY <2>3, <3>1, <3>2
  <2>4. \A e \in ToSet(having) : ~ContainsWindow(e)
    BY <2>1 DEF PlacementDiagnostics
  <2>5. ASSUME NEW e \in AfterGrouping PROVE ReadsRows(e)
    <3>1. CASE ~ContainsAggregate(e)
      BY <2>2, <3>1 DEF ReadsRows
    <3>2. CASE ContainsAggregate(e)
      <4>1. e \in Expr /\ ~WindowInAggregate(e) /\ Grouped /\ (FromStar(e) \/ IsChecked(e))
        BY <2>1, <2>5, <3>2, AfterGroupingChecked
      <4>2. IsChecked(e)
        BY <2>1, <3>2, <4>1, PlainPlace DEF FromStar, Settled, Inv, Typed
      <4>3. PICK keys : keys = GroupKeys /\ CheckGroupingExpr(e, keys) \subseteq diagnostics
        BY <4>1, <4>2 DEF IsChecked
      <4>4. KeysOfTrees(keys) /\ \A k \in keys : k.node # None => ~ContainsAggregate(k.node)
        BY <2>1, <4>1, <4>3, KeysMean
      <4> QED BY <2>1, <4>1, <4>3, <4>4, NestedIsReported
    <3> QED BY <3>1, <3>2
  <2>6. ASSUME NEW e \in ToSet(where) \cup AllKeys PROVE G!EvaluableAt(e, "rows")
    BY <2>2, <2>3, SameProbes DEF G!EvaluableAt
  <2>7. ASSUME NEW e \in ToSet(having) PROVE G!EvaluableAt(e, "groups")
    <3>1. ReadsRows(e) /\ ~ContainsWindow(e)
      BY <2>4, <2>5 DEF AfterGrouping
    <3> QED BY <3>1, SameProbes DEF G!EvaluableAt, ReadsRows
  <2>8. ASSUME NEW e \in ToSet(Projection) \cup {SortMeaning(o) : o \in ToSet(orderBy)}
        PROVE  G!EvaluableAt(e, "windows")
    <3>1. ReadsRows(e)
      BY <2>5 DEF AfterGrouping
    <3> QED BY <3>1, SameProbes DEF G!EvaluableAt, ReadsRows
  <2> QED BY <2>6, <2>7, <2>8
<1> QED BY <1>1, InvHolds, PTL

-----------------------------------------------------------------------------
(* One expression.                                                          *)

IsTwinning(f, e, k) ==
  f = [x \in Nodes[e] |->
         {y \in Nodes[k] :
            IF {x.kind, y.kind} = {"reference"} THEN Place(x) = Place(y)
            ELSE SameNode(x, y) /\ \A i \in DOMAIN x.args : y.args[i] \in f[x.args[i]]}]

TwinAt(x, k, below) ==
  {y \in Nodes[k] :
     IF {x.kind, y.kind} = {"reference"} THEN Place(x) = Place(y)
     ELSE SameNode(x, y) /\ \A i \in DOMAIN x.args : y.args[i] \in below[i]}

LEMMA TwinningAt ==
  ASSUME NEW e, NEW k, NEW f, IsTwinning(f, e, k), NEW x \in Nodes[e], NEW y
  PROVE  y \in f[x] <=>
           /\ y \in Nodes[k]
           /\ IF {x.kind, y.kind} = {"reference"} THEN Place(x) = Place(y)
              ELSE SameNode(x, y) /\ \A i \in DOMAIN x.args : y.args[i] \in f[x.args[i]]
<1>1. f[x] = {z \in Nodes[k] :
               IF {x.kind, z.kind} = {"reference"} THEN Place(x) = Place(z)
               ELSE SameNode(x, z) /\ \A i \in DOMAIN x.args : z.args[i] \in f[x.args[i]]}
  BY DEF IsTwinning
<1> HIDE DEF IsTwinning
<1> QED BY <1>1

LEMMA TwinningExists ==
  ASSUME NEW e \in Expr, NEW k
  PROVE  \E f : IsTwinning(f, e, k) /\ (G!Same(e, k) <=> k \in f[e])
<1> DEFINE N == Nodes[k]
           Pairs == UNION {{x} \X [DOMAIN x.args -> SUBSET N] : x \in Nodes[e]}
           Table == [p \in Pairs |-> TwinAt(p[1], k, p[2])]
           Is(f) == IsTwinning(f, e, k)
<1>1. ASSUME NEW x \in Nodes[e], NEW arg \in [DOMAIN x.args -> SUBSET N]
      PROVE  Table[<<x, arg>>] = TwinAt(x, k, arg) /\ Table[<<x, arg>>] \in SUBSET N
  <2>1. <<x, arg>> \in Pairs
    OBVIOUS
  <2>2. Table[<<x, arg>>] = TwinAt(x, k, arg)
    BY <2>1
  <2> QED BY <2>2 DEF TwinAt
<1> HIDE DEF Table
<1>2. PICK f : IsTreeFunction(f, e, SUBSET N, Table)
  <2> HIDE DEF N
  <2>1. \A x \in Nodes[e] : \A arg \in [DOMAIN x.args -> SUBSET N] : Table[<<x, arg>>] \in SUBSET N
    BY <1>1
  <2> QED BY <2>1, NodeSets
<1>3. Is(f)
  <2>1. f \in [Nodes[e] -> SUBSET N]
        /\ f = [x \in Nodes[e] |-> Table[<<x, [i \in DOMAIN x.args |-> f[x.args[i]]]>>]]
    BY <1>2 DEF IsTreeFunction
  <2>2. ASSUME NEW x \in Nodes[e]
        PROVE  f[x] = {y \in Nodes[k] :
            IF {x.kind, y.kind} = {"reference"} THEN Place(x) = Place(y)
            ELSE SameNode(x, y) /\ \A i \in DOMAIN x.args : y.args[i] \in f[x.args[i]]}
    <3> DEFINE arg == [i \in DOMAIN x.args |-> f[x.args[i]]]
    <3>1. arg \in [DOMAIN x.args -> SUBSET N]
      BY <2>1, NodesClosed
    <3>2. f[x] = TwinAt(x, k, arg)
      <4>1. f[x] = Table[<<x, arg>>]
        BY <2>1
      <4> HIDE DEF arg, N
      <4> QED BY <4>1, <3>1, <1>1
    <3> QED BY <3>2 DEF TwinAt
  <2> QED BY <2>1, <2>2 DEF IsTwinning
<1> DEFINE g == CHOOSE g : Is(g)
<1>4. Is(g)
  <2> HIDE DEF Is
  <2> QED BY <1>3
<1>5. G!Same(e, k) <=> k \in g[e]
  <2>1. G!Nodes = Nodes
    BY DEF G!Nodes, Nodes
  <2> QED BY <2>1 DEF G!Same, IsTwinning, G!SameNode, SameNode
<1> HIDE DEF g
<1> QED BY <1>4, <1>5

\* Only a reference is the same as a reference.
LEMMA SameReference ==
  ASSUME NEW e \in Expr, NEW k \in Expr, k.kind = "reference", G!Same(e, k)
  PROVE  e.kind = "reference" /\ Place(e) = Place(k)
<1>1. PICK f : IsTwinning(f, e, k) /\ k \in f[e]
  BY TwinningExists
<1>2. e \in Nodes[e]
  BY NodesClosed
<1>3. IF {e.kind, k.kind} = {"reference"} THEN Place(e) = Place(k) ELSE e.kind = k.kind
  BY <1>1, <1>2, TwinningAt DEF SameNode
<1> QED BY <1>3

LEMMA IdBehind ==
  ASSUME relations \in FromClauses, NEW e, e.kind = "reference", Resolve(e).status = "found"
  PROVE  /\ Place(e) \in Bases /\ IdOf(e) = At(Place(e)).id /\ At(Place(e)).name = e.name
         /\ e.qualifier \in {NoQualifier, relations[Place(e)[1]].qualifier}
         /\ relations[Place(e)[1]].qualifier # NoQualifier
         /\ ColumnsHaveIds => IdOf(e) # NoId
<1>1. Place(e) \in Bases /\ Fits(e, Place(e))
  BY Referring
<1>2. IdOf(e) = At(Place(e)).id
  BY DEF IdOf, At, Place
<1>3. PICK p : p = Place(e)
  OBVIOUS
<1>4. p[1] \in DOMAIN relations /\ p[2] \in DOMAIN relations[p[1]].columns
  BY <1>1, <1>3, FromFacts
<1>5. relations[p[1]].qualifier # NoQualifier
  BY <1>4, FromFacts
<1>6. ColumnsHaveIds => At(p).id # NoId
  BY <1>4 DEF ColumnsHaveIds, At
<1> QED BY <1>1, <1>2, <1>3, <1>5, <1>6 DEF Fits

\* With ids, references to one column match as keys do.
LEMMA PlacesMatch ==
  ASSUME relations \in FromClauses, ColumnsHaveIds, NEW x, NEW y,
         x.kind = "reference", y.kind = "reference",
         Resolve(x).status = "found", Resolve(y).status = "found", Place(x) = Place(y)
  PROVE  KeyMatches(KeyOfNode(y), x)
<1>1. /\ IdOf(x) = IdOf(y) /\ IdOf(x) # NoId /\ x.name = y.name
      /\ x.qualifier \in {NoQualifier, relations[Place(x)[1]].qualifier}
      /\ y.qualifier \in {NoQualifier, relations[Place(x)[1]].qualifier}
  BY IdBehind
<1>2. PICK k : k = KeyOfNode(y)
  OBVIOUS
<1>3. k.id = IdOf(y) /\ k.qualifier = y.qualifier /\ k.name = y.name /\ k.instance = NoQualifier
  BY <1>2 DEF KeyOfNode, GroupKey
<1>4. KeyMatches(k, x)
  BY <1>1, <1>3 DEF KeyMatches, SameColumn, SameRelationInstance, Qualifier
<1> QED BY <1>2, <1>4

LEMMA SameIsEqual ==
  ASSUME relations \in FromClauses, ColumnsHaveIds, NEW e \in Expr, NEW k \in Expr,
         Resolved(e), Resolved(k), G!Same(e, k)
  PROVE  GroupExprEqual(e, k)
<1>1. PICK f : IsTwinning(f, e, k) /\ k \in f[e]
  BY TwinningExists
<1>2. PICK g : IsEquality(g, e, k) /\ (GroupExprEqual(e, k) <=> k \in g[e])
  BY EqualityExists
<1> DEFINE P == {x \in Nodes[e] : f[x] \subseteq g[x]}
<1>3. ASSUME NEW x \in Nodes[e], \A i \in DOMAIN x.args : x.args[i] \in P PROVE x \in P
  <2> SUFFICES ASSUME NEW y \in f[x] PROVE y \in g[x]
    OBVIOUS
  <2>1. /\ y \in Nodes[k]
        /\ IF {x.kind, y.kind} = {"reference"} THEN Place(x) = Place(y)
           ELSE SameNode(x, y) /\ \A i \in DOMAIN x.args : y.args[i] \in f[x.args[i]]
    BY <1>1, TwinningAt
  <2>2. CASE {x.kind, y.kind} = {"reference"}
    <3>1. x.kind = "reference" /\ y.kind = "reference"
      BY <2>2
    <3>2. Resolve(x).status = "found" /\ Resolve(y).status = "found"
      BY <2>1, <3>1 DEF Resolved
    <3>3. KeyMatches(KeyOfNode(y), x)
      BY <2>1, <2>2, <3>1, <3>2, PlacesMatch
    <3> QED BY <1>2, <2>1, <2>2, <3>3, EqualityAt
  <2>3. CASE {x.kind, y.kind} # {"reference"}
    <3>1. SameNode(x, y) /\ \A i \in DOMAIN x.args : y.args[i] \in g[x.args[i]]
      BY <1>3, <2>1, <2>3
    <3> QED BY <1>2, <2>1, <2>3, <3>1, EqualityAt
  <2> QED BY <2>2, <2>3
<1> HIDE DEF P
<1>4. e \in P
  BY <1>3, TreeInduction, NodesClosed
<1> QED BY <1>1, <1>2, <1>4 DEF P

\* A key is found for what is the same as the key.
LEMMA SameIsMatched ==
  ASSUME Settled, Grouped, ColumnsHaveIds, NEW x \in Expr, Resolved(x), NEW m \in AllKeys, G!Same(x, m)
  PROVE  \/ IsKeyed(x, GroupKeys)
         \/ x.kind = "reference" /\ \E k \in GroupKeys : KeyMatches(k, x)
<1>1. relations \in FromClauses
  BY DEF Settled, Inv, Typed
<1>2. PICK k \in GroupKeys : Represents(k, m)
  BY KeysMean
<1>3. m \in Expr /\ Resolved(m)
  BY KeysMean DEF IsGroupable
<1>4. CASE k.node # None
  <2>1. k.node = m
    BY <1>2, <1>4 DEF Represents
  <2> QED BY <1>1, <1>3, <1>4, <2>1, SameIsEqual DEF IsKeyed
<1>5. CASE k.node = None
  <2>1. PICK p \in Bases :
          m = PlaceReference(p)
          /\ k = GroupKey(At(p).id, NoQualifier, At(p).name, relations[p[1]].qualifier, None)
    BY <1>2, <1>5 DEF Represents
  <2>2. m.kind = "reference" /\ Place(m) = p
    BY <1>1, <2>1, PlainPlace
  <2>3. x.kind = "reference" /\ Place(x) = p
    BY <1>3, <2>2, SameReference
  <2>4. Resolve(x).status = "found"
    BY <2>3, NodesClosed DEF Resolved
  <2>5. /\ IdOf(x) = At(p).id /\ IdOf(x) # NoId /\ x.name = At(p).name
        /\ x.qualifier \in {NoQualifier, relations[p[1]].qualifier}
        /\ relations[p[1]].qualifier # NoQualifier
    BY <1>1, <2>3, <2>4, IdBehind
  <2>6. k.id = At(p).id /\ k.name = At(p).name /\ k.instance = relations[p[1]].qualifier
    BY <2>1 DEF GroupKey
  <2>7. KeyMatches(k, x)
    BY <2>5, <2>6 DEF KeyMatches, SameColumn, SameRelationInstance, Qualifier
  <2> QED BY <2>3, <2>7
<1> QED BY <1>4, <1>5

IsCover(h, e, keys) ==
  h = [x \in Nodes[e] |->
         \/ \E k \in keys : G!Same(x, k)
         \/ IsAggregate(x)
         \/ x.kind # "reference" /\ \A i \in DOMAIN x.args : h[x.args[i]]]

LEMMA CoverExists ==
  ASSUME NEW e \in Expr, NEW keys
  PROVE  \E h : IsCover(h, e, keys) /\ (G!Covered(e, keys) <=> h[e])
<1> DEFINE Pairs == UNION {{x} \X [DOMAIN x.args -> BOOLEAN] : x \in Nodes[e]}
           Body(x, below) == \/ \E k \in keys : G!Same(x, k)
                             \/ IsAggregate(x)
                             \/ x.kind # "reference" /\ \A i \in DOMAIN x.args : below[i]
           Table == [p \in Pairs |-> Body(p[1], p[2])]
           Is(h) == IsCover(h, e, keys)
<1>1. ASSUME NEW x \in Nodes[e], NEW arg \in [DOMAIN x.args -> BOOLEAN]
      PROVE  Table[<<x, arg>>] = Body(x, arg) /\ Table[<<x, arg>>] \in BOOLEAN
  <2>1. <<x, arg>> \in Pairs
    OBVIOUS
  <2> HIDE DEF Pairs
  <2>2. Table[<<x, arg>>] = Body(x, arg)
    BY <2>1
  <2>3. Body(x, arg) \in BOOLEAN
    OBVIOUS
  <2> QED BY <2>2, <2>3
<1> HIDE DEF Table
<1>2. PICK f : IsTreeFunction(f, e, BOOLEAN, Table)
  <2>1. BOOLEAN # {}
    OBVIOUS
  <2>2. IsNodeStep(e, BOOLEAN, Table)
    BY <1>1, <2>1 DEF IsNodeStep
  <2> QED BY <2>2, TreeRecursion
<1>3. Is(f)
  <2>1. f \in [Nodes[e] -> BOOLEAN]
        /\ f = [x \in Nodes[e] |-> Table[<<x, [i \in DOMAIN x.args |-> f[x.args[i]]]>>]]
    BY <1>2 DEF IsTreeFunction
  <2>2. ASSUME NEW x \in Nodes[e]
        PROVE  f[x] = (\/ \E k \in keys : G!Same(x, k)
                       \/ IsAggregate(x)
                       \/ x.kind # "reference" /\ \A i \in DOMAIN x.args : f[x.args[i]])
    <3> DEFINE arg == [i \in DOMAIN x.args |-> f[x.args[i]]]
    <3>1. arg \in [DOMAIN x.args -> BOOLEAN]
      BY <2>1, NodesClosed
    <3>2. f[x] = Body(x, arg)
      <4>1. f[x] = Table[<<x, arg>>]
        BY <2>1
      <4> HIDE DEF arg
      <4> QED BY <4>1, <3>1, <1>1
    <3> QED BY <3>2
  <2> QED BY <2>1, <2>2 DEF IsCover
<1> DEFINE g == CHOOSE g : Is(g)
<1>4. Is(g)
  <2> HIDE DEF Is
  <2> QED BY <1>3
<1>5. G!Covered(e, keys) <=> g[e]
  <2>1. G!Nodes = Nodes /\ \A x : G!IsAggregate(x) <=> IsAggregate(x)
    BY SameProbes
  <2> QED BY <2>1 DEF G!Covered, IsCover, G!IsAggregate, IsAggregate, G!Aggregates, Aggregates
<1> HIDE DEF g
<1> QED BY <1>4, <1>5

\* What is made of keys, aggregates and constants is not reported.
LEMMA CoveredIsSilent ==
  ASSUME Settled, Grouped, ColumnsHaveIds, NEW e \in Expr, Resolved(e), G!Covered(e, AllKeys),
         NEW keys, keys = GroupKeys
  PROVE  "NonGroupedColumn" \notin CheckGroupingExpr(e, keys)
<1>1. PICK f : IsCheck(f, e, keys) /\ CheckGroupingExpr(e, keys) = f[<<e, FALSE, FALSE>>]
  BY CheckExists
<1>2. PICK h : IsCover(h, e, AllKeys) /\ h[e]
  BY CoverExists
<1> DEFINE P == {c \in Cases(e) : h[c[1]] \/ c[2] => "NonGroupedColumn" \notin f[c]}
<1>3. ASSUME NEW c \in Cases(e), h[c[1]] \/ c[2],
             \A i \in DOMAIN c[1].args : <<c[1].args[i], Exempted(c), Inside(c)>> \in P
      PROVE  "NonGroupedColumn" \notin f[c]
  <2> DEFINE x == c[1]
             child(i) == <<x.args[i], Exempted(c), Inside(c)>>
  <2>1. x \in Nodes[e] /\ x \in Expr /\ c[2] \in BOOLEAN
    BY CasesClosed
  <2>2. f[c] = CheckAt(c, keys, f)
    BY <1>1 DEF IsCheck
  <2>3. Resolved(x)
    BY <2>1, NodesClosed DEF Resolved
  <2>4. h[x] <=> \/ \E k \in AllKeys : G!Same(x, k)
                 \/ IsAggregate(x)
                 \/ x.kind # "reference" /\ \A i \in DOMAIN x.args : h[x.args[i]]
    BY <1>2, <2>1 DEF IsCover
  <2>5. (\E k \in AllKeys : G!Same(x, k)) =>
          IsKeyed(x, keys) \/ (x.kind = "reference" /\ \E k \in keys : KeyMatches(k, x))
    BY <2>1, <2>3, SameIsMatched
  <2> HIDE DEF x
  <2>6. CASE ~c[2] /\ IsKeyed(x, keys)
    <3>1. f[c] = {}
      BY <2>2, <2>6 DEF CheckAt, x
    <3> QED BY <3>1
  <2>7. CASE ~(~c[2] /\ IsKeyed(x, keys)) /\ x.kind = "reference"
    <3>1. ~IsAggregate(x)
      BY <2>7 DEF IsAggregate
    <3>2. c[2] \/ \E k \in keys : KeyMatches(k, x)
      BY <1>3, <2>4, <2>5, <2>7, <3>1 DEF x
    <3>3. f[c] = {}
      BY <2>2, <2>7, <3>2 DEF CheckAt, x
    <3> QED BY <3>3
  <2>8. CASE ~(~c[2] /\ IsKeyed(x, keys)) /\ x.kind # "reference"
    <3>1. f[c] = (IF IsAggregate(x) /\ c[3] THEN {"NestedAggregate"} ELSE {})
                   \cup UNION {f[child(i)] : i \in DOMAIN x.args}
      BY <2>2, <2>8 DEF CheckAt, x
    <3>2. ASSUME NEW i \in DOMAIN x.args PROVE "NonGroupedColumn" \notin f[child(i)]
      <4>1. child(i) \in P
        BY <1>3 DEF x
      <4>2. Exempted(c) \/ h[x.args[i]]
        BY <1>3, <2>4, <2>5, <2>8 DEF Exempted, x
      <4> QED BY <4>1, <4>2
    <3> QED BY <3>1, <3>2
  <2> QED BY <2>6, <2>7, <2>8
<1>4. Cases(e) \subseteq P
  <2>1. \A c \in Cases(e) :
          (\A i \in DOMAIN c[1].args : <<c[1].args[i], Exempted(c), Inside(c)>> \in P) => c \in P
    BY <1>3
  <2> HIDE DEF P
  <2> QED BY <2>1, CasesInduction
<1>5. <<e, FALSE, FALSE>> \in Cases(e)
  BY NodesClosed DEF Cases
<1>6. "NonGroupedColumn" \notin f[<<e, FALSE, FALSE>>]
  BY <1>2, <1>4, <1>5
<1> QED BY <1>1, <1>6

LEMMA CoveredColumn ==
  ASSUME Settled, Grouped, ColumnsHaveIds, NEW p \in Bases, G!Covered(PlaceReference(p), AllKeys),
         NEW keys, keys = GroupKeys
  PROVE  StarColumnGrouped(p, keys)
<1>1. relations \in FromClauses
  BY DEF Settled, Inv, Typed
<1>2. PICK e : e = PlaceReference(p)
  OBVIOUS
<1>3. e \in Expr /\ e.kind = "reference" /\ Nodes[e] = {e} /\ ~ContainsAggregate(e) /\ Place(e) = p
  BY <1>1, <1>2, PlainPlace
<1>4. PICK h : IsCover(h, e, AllKeys) /\ h[e]
  BY <1>2, <1>3, CoverExists
<1>5. PICK m \in AllKeys : G!Same(e, m)
  <2>1. ~IsAggregate(e)
    BY <1>3 DEF ContainsAggregate
  <2>2. h[e] <=> \/ \E k \in AllKeys : G!Same(e, k)
                 \/ IsAggregate(e)
                 \/ e.kind # "reference" /\ \A i \in DOMAIN e.args : h[e.args[i]]
    BY <1>3, <1>4 DEF IsCover
  <2> QED BY <1>3, <1>4, <2>1, <2>2
<1>6. PICK k \in keys : Represents(k, m)
  BY KeysMean
<1>7. m \in Expr /\ Resolved(m) /\ m \in Nodes[m]
  BY KeysMean, NodesClosed DEF IsGroupable
<1>8. m.kind = "reference" /\ Place(m) = p
  <2>1. PICK f : IsTwinning(f, e, m) /\ m \in f[e]
    BY <1>3, <1>5, TwinningExists
  <2>2. IF {e.kind, m.kind} = {"reference"} THEN Place(e) = Place(m) ELSE e.kind = m.kind
    BY <1>3, <2>1, TwinningAt DEF SameNode
  <2> QED BY <1>3, <2>2
<1>9. Resolve(m).status = "found"
  BY <1>7, <1>8 DEF Resolved
<1>10. /\ IdOf(m) = At(p).id /\ m.name = At(p).name
       /\ m.qualifier \in {NoQualifier, relations[p[1]].qualifier}
       /\ relations[p[1]].qualifier # NoQualifier
  BY <1>1, <1>8, <1>9, IdBehind
<1>11. /\ NoId \notin {At(p).id, k.id} => At(p).id = k.id
       /\ SameRelationInstance(relations[p[1]].qualifier, Qualifier(k))
       /\ At(p).name = k.name
  <2>1. CASE k.node # None
    <3>1. k.id = IdOf(m) /\ k.instance = NoQualifier /\ k.qualifier = m.qualifier /\ k.name = m.name
      BY <1>6, <1>8, <2>1 DEF Represents
    <3> QED BY <1>10, <3>1 DEF SameRelationInstance, Qualifier
  <2>2. CASE k.node = None
    <3>1. PICK q \in Bases :
            m = PlaceReference(q)
            /\ k = GroupKey(At(q).id, NoQualifier, At(q).name, relations[q[1]].qualifier, None)
      BY <1>6, <2>2 DEF Represents
    <3>2. q = p
      BY <1>1, <1>8, <3>1, PlainPlace
    <3> QED BY <1>10, <3>1, <3>2 DEF SameRelationInstance, Qualifier, GroupKey
  <2> QED BY <2>1, <2>2
<1> QED BY <1>11 DEF StarColumnGrouped, At

LEMMA ProjectsAll ==
  ASSUME Inv, NEW i \in DOMAIN select, NEW item, item = select[i]
  PROVE  /\ item.expr.kind # "star" => item.expr \in ToSet(Projection)
         /\ item.expr.kind = "star" =>
              \A p \in ToSet(StarColumns(item.expr)) : p \in Bases /\ PlaceReference(p) \in ToSet(Projection)
<1>1. relations \in FromClauses /\ select \in Seq(Items)
  BY DEF Inv, Typed
<1>2. ToSet(ProjectionOf(item)) \subseteq ToSet(Projection)
  BY <1>1, ProjectionParts
<1>3. ASSUME item.expr.kind # "star" PROVE item.expr \in ToSet(Projection)
  <2>1. ProjectionOf(item) = <<item.expr>>
    BY <1>3 DEF ProjectionOf
  <2> QED BY <1>2, <2>1, OneSet
<1>4. ASSUME item.expr.kind = "star", NEW p \in ToSet(StarColumns(item.expr))
      PROVE  p \in Bases /\ PlaceReference(p) \in ToSet(Projection)
  <2> DEFINE s == StarColumns(item.expr)
  <2>1. ProjectionOf(item) = [n \in DOMAIN s |-> PlaceReference(s[n])]
    BY <1>4 DEF ProjectionOf
  <2>2. PICK n \in DOMAIN s : s[n] = p
    BY DEF ToSet
  <2>3. p \in Bases
    BY <1>1, <2>2, StarFacts
  <2> HIDE DEF s
  <2>4. PlaceReference(p) \in ToSet(ProjectionOf(item))
    BY <2>1, <2>2 DEF ToSet
  <2> QED BY <1>2, <2>3, <2>4
<1> QED BY <1>3, <1>4

\* A column is only reported as not grouped if an expression of the query is not made of keys,
\* aggregates and constants.
THEOREM OnlyUngroupedIsReportedHolds == Spec => []OnlyUngroupedIsReported
<1>1. Inv => OnlyUngroupedIsReported
  <2> SUFFICES ASSUME Inv, clause = 6, ColumnsHaveIds, diagnostics = {"NonGroupedColumn"}
               PROVE  \E e \in AfterGrouping : ~G!Covered(e, AllKeys)
    BY DEF OnlyUngroupedIsReported
  <2>1. Settled
    BY DEF Settled, Late
  <2>2. PICK keys : keys = GroupKeys /\ Grouped /\ "NonGroupedColumn" \in GroupingCodes(keys)
    BY DEF Inv, Finished
  <2>3. "NonGroupedColumn" \in CheckSelect(keys) \cup CheckHaving(keys) \cup CheckOrderBy(keys)
    BY <2>2 DEF GroupingCodes, KeyDiagnostics
  <2>4. ASSUME NEW e \in AfterGrouping, "NonGroupedColumn" \in CheckGroupingExpr(e, keys)
        PROVE  ~G!Covered(e, AllKeys)
    <3>1. e \in Expr /\ Resolved(e)
      BY <2>1, AfterGroupingChecked
    <3> QED BY <2>1, <2>2, <2>4, <3>1, CoveredIsSilent
  <2>5. CASE "NonGroupedColumn" \in CheckSelect(keys)
    <3>1. PICK i \in DOMAIN select : "NonGroupedColumn" \in CheckItem(select[i].expr, keys)
      BY <2>5 DEF CheckSelect
    <3>2. PICK item : item = select[i]
      OBVIOUS
    <3>3. CASE item.expr.kind = "star"
      <4>1. PICK p \in ToSet(StarColumns(item.expr)) : ~StarColumnGrouped(p, keys)
        BY <3>1, <3>2, <3>3 DEF CheckItem
      <4>2. p \in Bases /\ PlaceReference(p) \in AfterGrouping
        BY <3>2, <3>3, ProjectsAll DEF AfterGrouping
      <4>3. ~G!Covered(PlaceReference(p), AllKeys)
        BY <2>1, <2>2, <4>1, <4>2, CoveredColumn
      <4> QED BY <4>2, <4>3
    <3>4. CASE item.expr.kind # "star"
      <4>1. item.expr \in AfterGrouping
        BY <3>2, <3>4, ProjectsAll DEF AfterGrouping
      <4>2. "NonGroupedColumn" \in CheckGroupingExpr(item.expr, keys)
        BY <3>1, <3>2, <3>4 DEF CheckItem
      <4> QED BY <2>4, <4>1, <4>2
    <3> QED BY <3>3, <3>4
  <2>6. CASE "NonGroupedColumn" \in CheckHaving(keys)
    <3>1. PICK e \in ToSet(having) : "NonGroupedColumn" \in CheckItem(e, keys)
      BY <2>6 DEF CheckHaving
    <3>2. e \in AfterGrouping
      BY DEF AfterGrouping
    <3>3. e.kind # "star"
      BY <2>1, <3>2, AfterGroupingChecked
    <3> QED BY <2>4, <3>1, <3>2, <3>3 DEF CheckItem
  <2>7. CASE "NonGroupedColumn" \in CheckOrderBy(keys)
    <3>1. PICK e \in ToSet(orderBy) : /\ e.kind # "integer" /\ OutputNamed(e) = None
                                      /\ "NonGroupedColumn" \in CheckItem(e, keys)
      BY <2>7 DEF CheckOrderBy
    <3>2. SortMeaning(e) = e
      BY <3>1 DEF SortMeaning, IsPosition
    <3>3. e \in AfterGrouping
      BY <3>2 DEF AfterGrouping
    <3>4. e.kind # "star"
      BY <2>1, <3>3, AfterGroupingChecked
    <3> QED BY <2>4, <3>1, <3>3, <3>4 DEF CheckItem
  <2> QED BY <2>3, <2>5, <2>6, <2>7
<1> QED BY <1>1, InvHolds, PTL

-----------------------------------------------------------------------------
(* Values.                                                                  *)

Values == Int \cup {Null}

LEMMA CodeTyped ==
  ASSUME NEW n \in Nat, NEW args \in [1 .. n -> Values]
  PROVE  G!Code(args) \in Int
<1> DEFINE w == [k \in 1 .. n |-> IF args[k] = Null THEN 2 ELSE args[k]]
           step == [k \in 1 .. n |-> [z \in Int |-> 3 * z + w[k]]]
           Is(c) == c = [i \in 0 .. n |->
                           IF i = 0 THEN 0 ELSE 3 * c[i - 1] + (IF args[i] = Null THEN 2 ELSE args[i])]
<1>1. w \in [1 .. n -> Int]
  BY DEF Values
<1>2. PICK f : IsLoop(f, Int, 0, n, step)
  <2>1. 0 \in Int /\ IsStep(step, Int, n)
    <3> HIDE DEF w
    <3> QED BY <1>1 DEF IsStep
  <2> HIDE DEF step
  <2> QED BY <2>1, LoopExists
<1>3. Is(f)
  <2>1. f \in [0 .. n -> Int] /\ f[0] = 0 /\ \A k \in 1 .. n : f[k] = step[k][f[k - 1]]
    BY <1>2 DEF IsLoop
  <2>2. ASSUME NEW i \in 0 .. n
        PROVE  f[i] = IF i = 0 THEN 0 ELSE 3 * f[i - 1] + (IF args[i] = Null THEN 2 ELSE args[i])
    <3>1. CASE i = 0
      BY <2>1, <3>1
    <3>2. CASE i # 0
      <4>1. i \in 1 .. n /\ f[i - 1] \in Int
        BY <2>1, <3>2
      <4>2. f[i] = 3 * f[i - 1] + w[i]
        <5> HIDE DEF w
        <5> QED BY <2>1, <4>1
      <4> QED BY <3>2, <4>1, <4>2
    <3> QED BY <3>1, <3>2
  <2> QED BY <2>1, <2>2
<1> DEFINE g == CHOOSE c : Is(c)
<1>4. Is(g)
  <2> HIDE DEF Is
  <2> QED BY <1>3
<1>5. Len(args) = n
  OBVIOUS
<1>6. G!Code(args) = g[n]
  BY <1>5 DEF G!Code
<1> HIDE DEF g
<1> DEFINE P == {i \in 0 .. n : g[i] \in Int}
<1>7. 0 \in P
  BY <1>4
<1>8. ASSUME NEW i \in 1 .. n, i - 1 \in P PROVE i \in P
  <2>1. g[i] = 3 * g[i - 1] + w[i]
    BY <1>4
  <2>2. g[i - 1] \in Int /\ w[i] \in Int
    <3> HIDE DEF w
    <3> QED BY <1>1, <1>8
  <2> HIDE DEF w
  <2> QED BY <2>1, <2>2
<1> HIDE DEF P
<1>9. n \in P
  BY <1>7, <1>8, CountUp
<1> QED BY <1>6, <1>9 DEF P

LEMMA SumTyped ==
  ASSUME NEW n \in Nat, NEW args \in [1 .. n -> Int]
  PROVE  G!SumOver(args) \in Int
<1> DEFINE step == [k \in 1 .. n |-> [z \in Int |-> z + args[k]]]
           Is(c) == c = [i \in 0 .. n |-> IF i = 0 THEN 0 ELSE c[i - 1] + args[i]]
<1>1. PICK f : IsLoop(f, Int, 0, n, step)
  <2>1. 0 \in Int /\ IsStep(step, Int, n)
    BY DEF IsStep
  <2> HIDE DEF step
  <2> QED BY <2>1, LoopExists
<1>2. Is(f)
  <2>1. f \in [0 .. n -> Int] /\ f[0] = 0 /\ \A k \in 1 .. n : f[k] = step[k][f[k - 1]]
    BY <1>1 DEF IsLoop
  <2>2. ASSUME NEW i \in 0 .. n PROVE f[i] = IF i = 0 THEN 0 ELSE f[i - 1] + args[i]
    <3>1. CASE i = 0
      BY <2>1, <3>1
    <3>2. CASE i # 0
      <4>1. i \in 1 .. n /\ f[i - 1] \in Int
        BY <2>1, <3>2
      <4> QED BY <2>1, <3>2, <4>1
    <3> QED BY <3>1, <3>2
  <2> QED BY <2>1, <2>2
<1> DEFINE g == CHOOSE c : Is(c)
<1>3. Is(g)
  <2> HIDE DEF Is
  <2> QED BY <1>2
<1>4. Len(args) = n
  OBVIOUS
<1>5. G!SumOver(args) = g[n]
  BY <1>4 DEF G!SumOver
<1> HIDE DEF g
<1> DEFINE P == {i \in 0 .. n : g[i] \in Int}
<1>6. 0 \in P
  BY <1>3
<1>7. ASSUME NEW i \in 1 .. n, i - 1 \in P PROVE i \in P
  BY <1>3, <1>7
<1> HIDE DEF P, Is
<1>8. 0 .. n \subseteq P
  BY <1>6, <1>7, CountUp
<1> QED BY <1>5, <1>8 DEF P

LEMMA RowFacts ==
  ASSUME relations \in FromClauses
  PROVE  /\ ToSet(Positions(relations)) = Bases
         /\ \A row \in Rows :
              /\ row \in [Bases -> {0, 1, Null}]
              /\ \A p \in Bases : row[p] = Null => QualifiedNullable(relations[p[1]], p[2])
<1> DEFINE star == Star(NoQualifier)
<1>1. StarRelations(star) = DOMAIN relations
  BY DEF StarRelations, Star, Node
<1>2. [i \in DOMAIN relations |-> IF i \in StarRelations(star)
                                  THEN [j \in DOMAIN relations[i].columns |-> <<i, j>>] ELSE <<>>]
        = [i \in DOMAIN relations |-> [j \in DOMAIN relations[i].columns |-> <<i, j>>]]
  BY <1>1
<1>3. Positions(relations) = StarColumns(star)
  BY <1>2 DEF Positions, StarColumns
<1> HIDE DEF star
<1>4. ToSet(StarColumns(star)) = {p \in Bases : p[1] \in DOMAIN relations}
  BY <1>1, StarFacts
<1>5. ToSet(Positions(relations)) = Bases
  BY <1>3, <1>4, FromFacts
<1> QED BY <1>5 DEF Rows

\* The values of the nodes of an expression.
IsValuation(v, e, row, rolled) ==
  v = [x \in Nodes[e] |->
         IF \E k \in rolled : G!Same(x, k) THEN Null
         ELSE G!ValueNode(x, [i \in DOMAIN x.args |-> v[x.args[i]]], row)]

LEMMA ValueTyped ==
  ASSUME relations \in FromClauses, NEW x \in Expr, NEW row \in Rows,
         x.kind = "reference" => Resolve(x).status = "found",
         NEW args \in [DOMAIN x.args -> Values]
  PROVE  /\ G!ValueNode(x, args, row) \in Values
         /\ x.over \/ x.name = "GROUPING" => G!Code(args) \in Int
         /\ (\A i \in DOMAIN x.args : args[i] # Null) => G!SumOver(args) \in Int
<1>1. PICK n \in Nat : DOMAIN x.args = 1 .. n
  BY TreesAssumption
<1>2. G!Code(args) \in Int
  BY <1>1, CodeTyped
<1>3. (\A i \in DOMAIN x.args : args[i] # Null) => G!SumOver(args) \in Int
  <2> SUFFICES ASSUME \A i \in DOMAIN x.args : args[i] # Null PROVE G!SumOver(args) \in Int
    OBVIOUS
  <2>1. args \in [1 .. n -> Int]
    BY <1>1 DEF Values
  <2> QED BY <2>1, SumTyped
<1>4. x.kind = "reference" => row[Place(x)] \in Values
  BY RowFacts, Referring DEF Values
<1>5. x.number \in Values /\ Null \in Values
  BY TreesAssumption DEF Values
<1>6. DOMAIN args = DOMAIN x.args
  OBVIOUS
<1>7. G!ValueNode(x, args, row) \in Values
  <2>1. CASE x.kind = "reference"
    <3>1. G!ValueNode(x, args, row) = row[Place(x)]
      BY <2>1 DEF G!ValueNode, G!IsAggregate
    <3> QED BY <1>4, <2>1, <3>1
  <2>2. CASE x.kind = "integer"
    BY <1>5, <2>2 DEF G!ValueNode
  <2>3. CASE x.kind # "reference" /\ x.kind # "integer" /\ (x.kind = "subquery" \/ G!IsAggregate(x))
    BY <1>5, <2>3 DEF G!ValueNode
  <2>4. CASE x.kind # "reference" /\ x.kind # "integer" /\ ~(x.kind = "subquery" \/ G!IsAggregate(x))
    <3>1. G!ValueNode(x, args, row) =
            IF x.over \/ x.name = "GROUPING" THEN G!Code(args)
            ELSE IF \E i \in DOMAIN args : args[i] = Null THEN Null ELSE G!SumOver(args)
      BY <2>4 DEF G!ValueNode
    <3> QED BY <1>2, <1>3, <1>5, <1>6, <3>1 DEF Values
  <2> QED BY <2>1, <2>2, <2>3, <2>4
<1> QED BY <1>2, <1>3, <1>7

LEMMA ValuationExists ==
  ASSUME relations \in FromClauses, NEW e \in Expr, Resolved(e), NEW row \in Rows, NEW rolled
  PROVE  \E v : /\ IsValuation(v, e, row, rolled) /\ G!ValueIn(e, row, rolled) = v[e]
                /\ v \in [Nodes[e] -> Values]
<1> DEFINE Pairs == UNION {{x} \X [DOMAIN x.args -> Values] : x \in Nodes[e]}
           Body(x, args) == IF \E k \in rolled : G!Same(x, k) THEN Null ELSE G!ValueNode(x, args, row)
           Table == [p \in Pairs |-> Body(p[1], p[2])]
           Is(v) == IsValuation(v, e, row, rolled)
<1>1. \A x \in Nodes[e] : x \in Expr /\ (x.kind = "reference" => Resolve(x).status = "found")
  BY NodesClosed DEF Resolved
<1>2. ASSUME NEW x \in Nodes[e], NEW args \in [DOMAIN x.args -> Values]
      PROVE  Table[<<x, args>>] = Body(x, args) /\ Body(x, args) \in Values
  <2>1. <<x, args>> \in Pairs
    OBVIOUS
  <2> HIDE DEF Pairs
  <2>2. Table[<<x, args>>] = Body(x, args)
    BY <2>1
  <2>3. G!ValueNode(x, args, row) \in Values
    BY <1>1, ValueTyped
  <2>4. Body(x, args) \in Values
    BY <2>3 DEF Values
  <2> QED BY <2>2, <2>4
<1> HIDE DEF Table
<1>3. PICK f : IsTreeFunction(f, e, Values, Table)
  <2>1. Values # {}
    BY DEF Values
  <2>2. IsNodeStep(e, Values, Table)
    <3> HIDE DEF Body
    <3> QED BY <1>2, <2>1 DEF IsNodeStep
  <2> QED BY <2>2, TreeRecursion
<1>4. Is(f)
  <2>1. f \in [Nodes[e] -> Values]
        /\ f = [x \in Nodes[e] |-> Table[<<x, [i \in DOMAIN x.args |-> f[x.args[i]]]>>]]
    BY <1>3 DEF IsTreeFunction
  <2>2. ASSUME NEW x \in Nodes[e] PROVE f[x] = Body(x, [i \in DOMAIN x.args |-> f[x.args[i]]])
    <3> DEFINE args == [i \in DOMAIN x.args |-> f[x.args[i]]]
    <3>1. args \in [DOMAIN x.args -> Values]
      BY <2>1, NodesClosed
    <3>2. f[x] = Table[<<x, args>>]
      BY <2>1
    <3> HIDE DEF args, Body
    <3>3. f[x] = Body(x, args)
      BY <3>1, <3>2, <1>2
    <3> QED BY <3>3 DEF args
  <2> QED BY <2>1, <2>2 DEF IsValuation
<1> DEFINE v == CHOOSE v : Is(v)
<1>5. Is(v)
  <2> HIDE DEF Is
  <2> QED BY <1>4
<1>6. G!ValueIn(e, row, rolled) = v[e]
  <2>1. G!Nodes = Nodes
    BY DEF G!Nodes, Nodes
  <2> QED BY <2>1 DEF G!ValueIn, IsValuation
<1> HIDE DEF v
<1>7. \A x \in Nodes[e] : v[x] = Body(x, [i \in DOMAIN x.args |-> v[x.args[i]]])
  BY <1>5 DEF IsValuation
<1> DEFINE P == {x \in Nodes[e] : v[x] \in Values}
<1>8. ASSUME NEW x \in Nodes[e], \A i \in DOMAIN x.args : x.args[i] \in P PROVE x \in P
  <2> DEFINE args == [i \in DOMAIN x.args |-> v[x.args[i]]]
  <2>1. args \in [DOMAIN x.args -> Values]
    BY <1>8
  <2>2. v[x] = Body(x, args)
    BY <1>7
  <2> HIDE DEF args, Body
  <2> QED BY <1>2, <2>1, <2>2
<1> HIDE DEF P
<1>9. Nodes[e] \subseteq P
  BY <1>8, TreeInduction
<1>10. v \in [Nodes[e] -> Values]
  <2>1. \A x \in Nodes[e] : v[x] \in Values
    BY <1>9 DEF P
  <2>2. v = [x \in Nodes[e] |-> v[x]]
    BY <1>5 DEF IsValuation
  <2> QED BY <2>1, <2>2
<1> QED BY <1>5, <1>6, <1>10

LEMMA ValuationAt ==
  ASSUME NEW e, NEW row, NEW rolled, NEW v, IsValuation(v, e, row, rolled), NEW x \in Nodes[e],
         NEW args, args = [i \in DOMAIN x.args |-> v[x.args[i]]]
  PROVE  v[x] = IF \E k \in rolled : G!Same(x, k) THEN Null ELSE G!ValueNode(x, args, row)
BY DEF IsValuation

-----------------------------------------------------------------------------
(* NOT NULL.                                                                *)

NullableAt(x, below) ==
  CASE x.kind = "reference" -> Resolve(x).nullable
    [] x.kind = "call" /\ x.name \in {"GROUPING", "RANK"} -> FALSE
    [] x.kind = "subquery" \/ (x.kind = "call" /\ x.name \in Aggregates) -> TRUE
    [] OTHER -> \E i \in DOMAIN x.args : below[i]

IsNullability(f, e) ==
  f = [x \in Nodes[e] |-> NullableAt(x, [i \in DOMAIN x.args |-> f[x.args[i]]])]

\* What is not nullable in each of its forms.
LEMMA NotNullableAt ==
  ASSUME NEW x, NEW below, DOMAIN below = DOMAIN x.args
  PROVE  /\ x.kind = "reference" => NullableAt(x, below) = Resolve(x).nullable
         /\ x.kind = "subquery" \/ IsAggregate(x) => NullableAt(x, below) = TRUE
         /\ x.kind # "reference" /\ ~NullableAt(x, below) =>
              \/ x.kind = "call" /\ x.name \in {"GROUPING", "RANK"}
              \/ \A i \in DOMAIN x.args : ~below[i]
<1>1. CASE x.kind = "reference"
  <2>1. NullableAt(x, below) = Resolve(x).nullable
    BY <1>1 DEF NullableAt
  <2> QED BY <1>1, <2>1 DEF IsAggregate
<1>2. CASE x.kind # "reference" /\ x.kind = "call" /\ x.name \in {"GROUPING", "RANK"}
  BY <1>2 DEF IsAggregate, Aggregates
<1>3. CASE x.kind # "reference" /\ (x.kind = "subquery" \/ (x.kind = "call" /\ x.name \in Aggregates))
  <2>1. NullableAt(x, below) = TRUE
    BY <1>3 DEF NullableAt, Aggregates
  <2> QED BY <1>3, <2>1
<1>4. CASE /\ x.kind # "reference" /\ ~(x.kind = "call" /\ x.name \in {"GROUPING", "RANK"})
           /\ ~(x.kind = "subquery" \/ (x.kind = "call" /\ x.name \in Aggregates))
  <2>1. NullableAt(x, below) = \E i \in DOMAIN x.args : below[i]
    BY <1>4 DEF NullableAt
  <2> QED BY <1>4, <2>1 DEF IsAggregate
<1> QED BY <1>1, <1>2, <1>3, <1>4

LEMMA NullableExists ==
  ASSUME relations \in FromClauses, NEW e \in Expr, Resolved(e)
  PROVE  \E f : IsNullability(f, e) /\ Nullable(e) = f[e]
<1> DEFINE Pairs == UNION {{x} \X [DOMAIN x.args -> BOOLEAN] : x \in Nodes[e]}
           Table == [p \in Pairs |-> NullableAt(p[1], p[2])]
           Is(f) == IsNullability(f, e)
<1>1. ASSUME NEW x \in Nodes[e], NEW arg \in [DOMAIN x.args -> BOOLEAN]
      PROVE  Table[<<x, arg>>] = NullableAt(x, arg) /\ Table[<<x, arg>>] \in BOOLEAN
  <2>1. <<x, arg>> \in Pairs
    OBVIOUS
  <2> HIDE DEF Pairs
  <2>2. Table[<<x, arg>>] = NullableAt(x, arg)
    BY <2>1
  <2>3. CASE x.kind = "reference"
    <3>1. Resolve(x).nullable = QualifiedNullable(relations[Place(x)[1]], Place(x)[2])
      BY <2>3, Referring DEF Resolved
    <3>2. NullableAt(x, arg) = Resolve(x).nullable
      BY <2>3, NotNullableAt
    <3> QED BY <2>2, <3>1, <3>2 DEF QualifiedNullable
  <2>4. CASE x.kind # "reference"
    <3>1. CASE x.kind = "call" /\ x.name \in {"GROUPING", "RANK"}
      <4>1. NullableAt(x, arg) = FALSE
        BY <3>1 DEF NullableAt, Aggregates
      <4> QED BY <2>2, <4>1
    <3>2. CASE x.kind = "subquery" \/ (x.kind = "call" /\ x.name \in Aggregates)
      <4>1. NullableAt(x, arg) = TRUE
        BY <2>4, <3>2 DEF NullableAt, Aggregates
      <4> QED BY <2>2, <4>1
    <3>3. CASE /\ ~(x.kind = "call" /\ x.name \in {"GROUPING", "RANK"})
               /\ ~(x.kind = "subquery" \/ (x.kind = "call" /\ x.name \in Aggregates))
      <4>1. NullableAt(x, arg) = \E i \in DOMAIN x.args : arg[i]
        BY <2>4, <3>3 DEF NullableAt
      <4> QED BY <2>2, <4>1
    <3> QED BY <3>1, <3>2, <3>3
  <2> QED BY <2>3, <2>4
<1> HIDE DEF Table
<1>2. PICK f : IsTreeFunction(f, e, BOOLEAN, Table)
  <2>1. BOOLEAN # {}
    OBVIOUS
  <2>2. IsNodeStep(e, BOOLEAN, Table)
    BY <1>1, <2>1 DEF IsNodeStep
  <2> QED BY <2>2, TreeRecursion
<1>3. Is(f)
  <2>1. f \in [Nodes[e] -> BOOLEAN]
        /\ f = [x \in Nodes[e] |-> Table[<<x, [i \in DOMAIN x.args |-> f[x.args[i]]]>>]]
    BY <1>2 DEF IsTreeFunction
  <2>2. ASSUME NEW x \in Nodes[e]
        PROVE  f[x] = NullableAt(x, [i \in DOMAIN x.args |-> f[x.args[i]]])
    <3> DEFINE arg == [i \in DOMAIN x.args |-> f[x.args[i]]]
    <3>1. arg \in [DOMAIN x.args -> BOOLEAN]
      BY <2>1, NodesClosed
    <3>2. f[x] = Table[<<x, arg>>]
      BY <2>1
    <3> HIDE DEF arg
    <3>3. f[x] = NullableAt(x, arg)
      BY <3>1, <3>2, <1>1
    <3> QED BY <3>3 DEF arg
  <2> QED BY <2>1, <2>2 DEF IsNullability
<1> DEFINE g == CHOOSE g : Is(g)
<1>4. Is(g)
  <2> HIDE DEF Is
  <2> QED BY <1>3
<1> DEFINE Old(h) == h = [x \in Nodes[e] |->
                            CASE x.kind = "reference" -> Resolve(x).nullable
                              [] x.kind = "call" /\ x.name \in {"GROUPING", "RANK"} -> FALSE
                              [] x.kind = "subquery" \/ (x.kind = "call" /\ x.name \in Aggregates) -> TRUE
                              [] OTHER -> \E i \in DOMAIN x.args : h[x.args[i]]]
<1>5. Nullable(e) = (CHOOSE h : Old(h))[e]
  BY DEF Nullable
<1>6. \A h : Old(h) <=> Is(h)
  <2> SUFFICES ASSUME NEW h PROVE Old(h) <=> Is(h)
    OBVIOUS
  <2>1. ASSUME NEW x \in Nodes[e]
        PROVE  NullableAt(x, [i \in DOMAIN x.args |-> h[x.args[i]]])
                 = CASE x.kind = "reference" -> Resolve(x).nullable
                     [] x.kind = "call" /\ x.name \in {"GROUPING", "RANK"} -> FALSE
                     [] x.kind = "subquery" \/ (x.kind = "call" /\ x.name \in Aggregates) -> TRUE
                     [] OTHER -> \E i \in DOMAIN x.args : h[x.args[i]]
    <3>1. (\E i \in DOMAIN x.args : [j \in DOMAIN x.args |-> h[x.args[j]]][i])
            = (\E i \in DOMAIN x.args : h[x.args[i]])
      OBVIOUS
    <3> QED BY <3>1 DEF NullableAt
  <2> QED BY <2>1 DEF IsNullability
<1>7. (CHOOSE h : Old(h)) = g
  <2> HIDE DEF Old, Is
  <2> QED BY <1>6
<1> HIDE DEF g, Old
<1> QED BY <1>4, <1>5, <1>7

IsReading(f, e) ==
  f = [x \in Nodes[e] |->
         \/ x.kind = "reference" /\ IdOf(x) \in GroupingSetIds
         \/ /\ ~IsWindow(x) /\ ~IsAggregate(x) /\ x.name # "GROUPING"
            /\ \E i \in DOMAIN x.args : f[x.args[i]]]

LEMMA ReadingExists ==
  ASSUME NEW e \in Expr
  PROVE  \E f : IsReading(f, e) /\ ExprReadsGroupingKey(e) = f[e]
<1> DEFINE Pairs == UNION {{x} \X [DOMAIN x.args -> BOOLEAN] : x \in Nodes[e]}
           Body(x, below) == \/ x.kind = "reference" /\ IdOf(x) \in GroupingSetIds
                             \/ /\ ~IsWindow(x) /\ ~IsAggregate(x) /\ x.name # "GROUPING"
                                /\ \E i \in DOMAIN x.args : below[i]
           Table == [p \in Pairs |-> Body(p[1], p[2])]
           Is(f) == IsReading(f, e)
<1>1. ASSUME NEW x \in Nodes[e], NEW arg \in [DOMAIN x.args -> BOOLEAN]
      PROVE  Table[<<x, arg>>] = Body(x, arg) /\ Table[<<x, arg>>] \in BOOLEAN
  <2>1. <<x, arg>> \in Pairs
    OBVIOUS
  <2> HIDE DEF Pairs
  <2>2. Table[<<x, arg>>] = Body(x, arg)
    BY <2>1
  <2>3. Body(x, arg) \in BOOLEAN
    OBVIOUS
  <2> QED BY <2>2, <2>3
<1> HIDE DEF Table
<1>2. PICK f : IsTreeFunction(f, e, BOOLEAN, Table)
  <2>1. BOOLEAN # {}
    OBVIOUS
  <2>2. IsNodeStep(e, BOOLEAN, Table)
    BY <1>1, <2>1 DEF IsNodeStep
  <2> QED BY <2>2, TreeRecursion
<1>3. Is(f)
  <2>1. f \in [Nodes[e] -> BOOLEAN]
        /\ f = [x \in Nodes[e] |-> Table[<<x, [i \in DOMAIN x.args |-> f[x.args[i]]]>>]]
    BY <1>2 DEF IsTreeFunction
  <2>2. ASSUME NEW x \in Nodes[e]
        PROVE  f[x] = (\/ x.kind = "reference" /\ IdOf(x) \in GroupingSetIds
                       \/ /\ ~IsWindow(x) /\ ~IsAggregate(x) /\ x.name # "GROUPING"
                          /\ \E i \in DOMAIN x.args : f[x.args[i]])
    <3> DEFINE arg == [i \in DOMAIN x.args |-> f[x.args[i]]]
    <3>1. arg \in [DOMAIN x.args -> BOOLEAN]
      BY <2>1, NodesClosed
    <3>2. f[x] = Body(x, arg)
      <4>1. f[x] = Table[<<x, arg>>]
        BY <2>1
      <4> HIDE DEF arg
      <4> QED BY <4>1, <3>1, <1>1
    <3> QED BY <3>2
  <2> QED BY <2>1, <2>2 DEF IsReading
<1> DEFINE g == CHOOSE g : Is(g)
<1>4. Is(g)
  <2> HIDE DEF Is
  <2> QED BY <1>3
<1>5. ExprReadsGroupingKey(e) = g[e]
  BY DEF ExprReadsGroupingKey, IsReading
<1> HIDE DEF g
<1> QED BY <1>4, <1>5

\* The keys that may be NULL are columns that are known to be so.
AreRolled(rolled) ==
  \A k \in rolled : /\ k \in Expr /\ k.kind = "reference" /\ Resolve(k).status = "found"
                    /\ IdOf(k) \in GroupingSetIds

LEMMA NotNull ==
  ASSUME relations \in FromClauses, NEW e \in Expr, Resolved(e), NEW row \in Rows,
         NEW rolled, AreRolled(rolled), ~Nullable(e), ~ExprReadsGroupingKey(e)
  PROVE  G!ValueIn(e, row, rolled) # Null
<1>1. PICK v : IsValuation(v, e, row, rolled) /\ G!ValueIn(e, row, rolled) = v[e]
               /\ v \in [Nodes[e] -> Values]
  BY ValuationExists
<1>2. PICK f : IsNullability(f, e) /\ Nullable(e) = f[e]
  BY NullableExists
<1>3. PICK g : IsReading(g, e) /\ ExprReadsGroupingKey(e) = g[e]
  BY ReadingExists
<1> DEFINE P == {x \in Nodes[e] : ~f[x] /\ ~g[x] => v[x] # Null}
<1>4. ASSUME NEW x \in Nodes[e], \A i \in DOMAIN x.args : x.args[i] \in P, ~f[x], ~g[x]
      PROVE  v[x] # Null
  <2>1. PICK args, below : /\ args = [i \in DOMAIN x.args |-> v[x.args[i]]]
                           /\ below = [i \in DOMAIN x.args |-> f[x.args[i]]]
    OBVIOUS
  <2>2. x \in Expr /\ (x.kind = "reference" => Resolve(x).status = "found")
        /\ \A i \in DOMAIN x.args : x.args[i] \in Nodes[e]
    BY NodesClosed DEF Resolved
  <2>3. args \in [DOMAIN x.args -> Values]
    BY <1>1, <2>1, <2>2
  <2>4. /\ G!ValueNode(x, args, row) \in Values
        /\ x.over \/ x.name = "GROUPING" => G!Code(args) \in Int
        /\ (\A i \in DOMAIN x.args : args[i] # Null) => G!SumOver(args) \in Int
    BY <2>2, <2>3, ValueTyped
  <2>5. ~NullableAt(x, below)
    BY <1>2, <1>4, <2>1 DEF IsNullability
  <2>6. /\ ~(x.kind = "reference" /\ IdOf(x) \in GroupingSetIds)
        /\ ~IsWindow(x) /\ ~IsAggregate(x) /\ x.name # "GROUPING" =>
             \A i \in DOMAIN x.args : ~g[x.args[i]]
    BY <1>3, <1>4 DEF IsReading
  <2>7. ~\E k \in rolled : G!Same(x, k)
    <3> SUFFICES ASSUME NEW k \in rolled, G!Same(x, k) PROVE FALSE
      OBVIOUS
    <3>1. k \in Expr /\ k.kind = "reference" /\ Resolve(k).status = "found" /\ IdOf(k) \in GroupingSetIds
      BY DEF AreRolled
    <3>2. x.kind = "reference" /\ Place(x) = Place(k)
      BY <2>2, <3>1, SameReference
    <3>3. IdOf(x) = IdOf(k)
      BY <2>2, <3>1, <3>2, IdBehind
    <3> QED BY <2>6, <3>1, <3>2, <3>3
  <2>8. v[x] = G!ValueNode(x, args, row)
    BY <1>1, <2>1, <2>7, ValuationAt
  <2>9. DOMAIN below = DOMAIN x.args /\ DOMAIN args = DOMAIN x.args /\ Null \notin Int /\ x.number \in Int
    BY <2>1, <2>2, QueryAssumption, TreesAssumption
  <2>10. x.kind # "subquery" /\ ~IsAggregate(x)
    BY <2>5, <2>9, NotNullableAt
  <2>11. CASE x.kind = "reference"
    <3>1. G!ValueNode(x, args, row) = row[Place(x)]
      BY <2>11 DEF G!ValueNode, G!IsAggregate
    <3>2. Place(x) \in Bases /\ Resolve(x).nullable = QualifiedNullable(relations[Place(x)[1]], Place(x)[2])
      BY <2>2, <2>11, Referring
    <3>3. ~Resolve(x).nullable
      BY <2>5, <2>9, <2>11, NotNullableAt
    <3>4. row[Place(x)] # Null
      BY <3>2, <3>3, RowFacts
    <3> QED BY <2>8, <3>1, <3>4
  <2>12. CASE x.kind = "integer"
    <3>1. G!ValueNode(x, args, row) = x.number
      BY <2>12 DEF G!ValueNode, G!IsAggregate
    <3> QED BY <2>8, <2>9, <3>1
  <2>13. CASE x.kind # "reference" /\ x.kind # "integer"
    <3>1. G!ValueNode(x, args, row) =
            IF x.over \/ x.name = "GROUPING" THEN G!Code(args)
            ELSE IF \E i \in DOMAIN args : args[i] = Null THEN Null ELSE G!SumOver(args)
      BY <2>10, <2>13, SameProbes DEF G!ValueNode
    <3>2. CASE x.over \/ x.name = "GROUPING"
      BY <2>4, <2>8, <2>9, <3>1, <3>2
    <3>3. CASE ~(x.over \/ x.name = "GROUPING")
      <4>1. ~IsWindow(x)
        BY <3>3 DEF IsWindow
      <4>2. ~(x.kind = "call" /\ x.name \in {"GROUPING", "RANK"})
        BY <2>2, <3>3, TreesAssumption
      <4>3. \A i \in DOMAIN x.args : ~below[i] /\ ~g[x.args[i]]
        BY <2>5, <2>6, <2>9, <2>10, <2>13, <3>3, <4>1, <4>2, NotNullableAt
      <4>4. \A i \in DOMAIN x.args : args[i] # Null
        BY <1>4, <2>1, <4>3
      <4> QED BY <2>4, <2>8, <2>9, <3>1, <3>3, <4>4
    <3> QED BY <3>2, <3>3
  <2> QED BY <2>11, <2>12, <2>13
<1> HIDE DEF P
<1>5. Nodes[e] \subseteq P
  <2>1. \A x \in Nodes[e] : (\A i \in DOMAIN x.args : x.args[i] \in P) => x \in P
    BY <1>4 DEF P
  <2> QED BY <2>1, TreeInduction
<1> QED BY <1>1, <1>2, <1>3, <1>5, NodesClosed DEF P

\* The keys of a row of subtotals that are NULL.
LEMMA RolledKeys ==
  ASSUME Inv, \A i \in SetParts : IdOf(groupBy[i].expr) # NoId, NEW rolled \in RolledUp
  PROVE  AreRolled(rolled)
<1>1. groupBy \in Seq(GroupParts)
  BY DEF Inv, Typed
<1>2. PICK parts \in SUBSET SetParts : rolled \subseteq KeyMeanings(parts)
  BY DEF RolledUp
<1> SUFFICES ASSUME NEW k \in rolled
             PROVE  /\ k \in Expr /\ k.kind = "reference" /\ Resolve(k).status = "found"
                    /\ IdOf(k) \in GroupingSetIds
  BY DEF AreRolled
<1>3. PICK i \in parts : k = KeyMeaning(groupBy[i].expr)
  BY <1>2 DEF KeyMeanings
<1>4. PICK e : e = groupBy[i].expr
  OBVIOUS
<1>5. i \in DOMAIN groupBy /\ groupBy[i].wrapper = "sets" /\ IdOf(e) # NoId
  BY <1>2, <1>4 DEF SetParts
<1>6. e \in Expr
  <2>1. PICK part : part = groupBy[i] /\ part \in GroupParts
    BY <1>1, <1>5
  <2> QED BY <1>4, <2>1, QueryAssumption DEF GroupParts
<1>7. e.kind = "reference" /\ Resolve(e).status = "found"
  BY <1>5 DEF IdOf
<1>8. k = e
  BY <1>3, <1>4, <1>7 DEF KeyMeaning, IsPosition
<1>9. IdOf(e) \in GroupingSetIds
  BY <1>4, <1>5 DEF GroupingSetIds
<1> QED BY <1>6, <1>7, <1>8, <1>9

LEMMA OutputNotNull ==
  ASSUME Settled, NEW n \in DOMAIN output, ~output[n].nullable,
         NEW row \in Rows, NEW rolled, AreRolled(rolled)
  PROVE  G!ValueIn(Projection[n], row, rolled) # Null
<1>1. relations \in FromClauses /\ clause = 6 /\ Inv
  BY DEF Settled, Inv, Typed
<1>2. PICK e : e = Projection[n]
  OBVIOUS
<1>3. PICK out : out = output[n] /\ Corresponds(out, e) /\ Marked(out)
  BY <1>1, <1>2, OutputsProjected
<1>4. e \in Expr /\ Resolved(e)
  BY <1>1, <1>2, OutputsProjected, ProjectedRight
<1>5. ~out.nullable /\ ~ReadsGroupingKey(out)
  BY <1>3 DEF Marked
<1>6. ~Nullable(e) /\ ~ExprReadsGroupingKey(e)
  <2>1. CASE out.source = None
    <3>1. PICK p \in Bases : /\ e = PlaceReference(p) /\ out.id = At(p).id
                             /\ ~QualifiedNullable(relations[p[1]], p[2])
      BY <1>3, <1>5, <2>1 DEF Corresponds
    <3>2. e.kind = "reference" /\ Resolve(e).status = "found" /\ Place(e) = p /\ e \in Nodes[e]
      BY <1>1, <1>4, <3>1, PlainPlace, NodesClosed
    <3>3. IdOf(e) \notin GroupingSetIds
      <4>1. IdOf(e) = At(p).id
        BY <1>1, <3>2, IdBehind
      <4> QED BY <1>5, <3>1, <4>1 DEF ReadsGroupingKey
    <3>4. ~Resolve(e).nullable
      BY <1>1, <3>1, <3>2, Referring
    <3>5. ~Nullable(e)
      <4>1. PICK f : IsNullability(f, e) /\ Nullable(e) = f[e]
        BY <1>1, <1>4, NullableExists
      <4>2. PICK below : below = [i \in DOMAIN e.args |-> f[e.args[i]]]
        OBVIOUS
      <4>3. f[e] = NullableAt(e, below)
        BY <3>2, <4>1, <4>2 DEF IsNullability
      <4>4. NullableAt(e, below) = Resolve(e).nullable
        BY <3>2, <4>2, NotNullableAt
      <4> QED BY <3>4, <4>1, <4>3, <4>4
    <3>6. ~ExprReadsGroupingKey(e)
      <4>1. PICK f : IsReading(f, e) /\ ExprReadsGroupingKey(e) = f[e]
        BY <1>4, ReadingExists
      <4>2. DOMAIN e.args = {}
        BY <1>4, <3>2, Shapes
      <4>3. ~f[e]
        BY <3>2, <3>3, <4>1, <4>2 DEF IsReading
      <4> QED BY <4>1, <4>3
    <3> QED BY <3>5, <3>6
  <2>2. CASE out.source # None
    BY <1>3, <1>5, <2>2 DEF Corresponds, ReadsGroupingKey
  <2> QED BY <2>1, <2>2
<1> QED BY <1>1, <1>2, <1>4, <1>6, NotNull

\* What is reported NOT NULL is NULL in no row of groups or subtotals.
THEOREM SubtotalsAreNullableHolds == Spec => []SubtotalsAreNullable
<1>1. Inv => SubtotalsAreNullable
  <2> SUFFICES ASSUME Inv, Accepted, \A i \in SetParts : IdOf(groupBy[i].expr) # NoId
               PROVE  NotNullHolds
    BY DEF SubtotalsAreNullable
  <2>1. Settled /\ clause = 6 /\ relations \in FromClauses
    BY DEF Settled, Accepted, Inv, Typed
  <2>2. ASSUME NEW n \in DOMAIN output, ~output[n].nullable, NEW row \in Rows, NEW rolled \in RolledUp
        PROVE  G!ValueIn(Projection[n], row, rolled) # Null
    BY <2>1, <2>2, RolledKeys, OutputNotNull
  <2>3. ASSUME NEW i \in DOMAIN sorted, ~sorted[i], NEW row \in Rows, NEW rolled \in RolledUp
        PROVE  G!ValueIn(SortMeaning(orderBy[i]), row, rolled) # Null
    <3>1. PICK e : /\ e = orderBy[i]
                   /\ IF IsPosition(e) THEN ~output[e.number].nullable
                      ELSE IF OutputNamed(e) # None THEN ~output[OutputNamed(e)].nullable
                      ELSE e.kind # "integer" /\ ~Nullable(e) /\ ~ExprReadsGroupingKey(e)
      BY <2>1, <2>3 DEF Inv, SortedRight, SortedAs
    <3>2. e \in ToSet(orderBy)
      BY <3>1 DEF Inv, SortedRight, ToSet
    <3>3. CASE IsPosition(e)
      <4>1. e.number \in DOMAIN output /\ SortMeaning(e) = Projection[e.number]
        BY <3>3 DEF IsPosition, SortMeaning
      <4> QED BY <2>2, <3>1, <3>3, <4>1
    <3>4. CASE ~IsPosition(e) /\ OutputNamed(e) # None
      <4>1. OutputNamed(e) \in DOMAIN output /\ SortMeaning(e) = Projection[OutputNamed(e)]
        BY <3>4, NamedFacts DEF SortMeaning
      <4> QED BY <2>2, <3>1, <3>4, <4>1
    <3>5. CASE ~IsPosition(e) /\ OutputNamed(e) = None
      <4>1. SortMeaning(e) = e
        BY <3>5 DEF SortMeaning
      <4>2. e \in Expr /\ Resolved(e)
        BY <2>1, <3>2, <4>1, Sorting, ProjectedRight
      <4>3. G!ValueIn(e, row, rolled) # Null
        BY <2>1, <3>1, <3>5, <4>2, RolledKeys, NotNull
      <4> QED BY <3>1, <4>1, <4>3
    <3> QED BY <3>3, <3>4, <3>5
  <2> QED BY <2>2, <2>3 DEF NotNullHolds
<1> QED BY <1>1, InvHolds, PTL

-----------------------------------------------------------------------------
(* Groups.                                                                  *)

\* A value of each row that is one in each group is counted once for each group.
LEMMA OneForEach ==
  ASSUME NEW R, IsFiniteSet(R), NEW g, NEW w, \A r, s \in R : g[r] = g[s] => w[r] = w[s]
  PROVE  Cardinality({<<g[r], w[r]>> : r \in R}) = Cardinality({g[r] : r \in R})
<1> DEFINE A == {<<g[r], w[r]>> : r \in R}
           B == {g[r] : r \in R}
           pair == [r \in R |-> <<g[r], w[r]>>]
           first == [a \in A |-> a[1]]
<1>1. pair \in Surjection(R, A)
  BY DEF Surjection
<1>2. IsFiniteSet(A)
  <2> HIDE DEF pair, A
  <2> QED BY <1>1, FS_Surjection
<1>3. first \in Surjection(A, B)
  <2>1. first \in [A -> B]
    OBVIOUS
  <2>2. \A b \in B : \E a \in A : first[a] = b
    <3> SUFFICES ASSUME NEW b \in B PROVE \E a \in A : first[a] = b
      OBVIOUS
    <3>1. PICK r \in R : b = g[r]
      OBVIOUS
    <3>2. PICK a : a = <<g[r], w[r]>>
      OBVIOUS
    <3>3. a \in A /\ a[1] = b
      BY <3>1, <3>2
    <3> HIDE DEF A
    <3> QED BY <3>3
  <2> QED BY <2>1, <2>2 DEF Surjection
<1>4. first \in Injection(A, B)
  <2>1. first \in [A -> B]
    OBVIOUS
  <2>2. ASSUME NEW a \in A, NEW b \in A, first[a] = first[b] PROVE a = b
    <3>1. PICK r \in R : a = <<g[r], w[r]>>
      OBVIOUS
    <3>2. PICK s \in R : b = <<g[s], w[s]>>
      OBVIOUS
    <3>3. g[r] = g[s]
      BY <2>2, <3>1, <3>2
    <3> QED BY <3>1, <3>2, <3>3
  <2> QED BY <2>1, <2>2 DEF Injection, IsInjective
<1> HIDE DEF first, A, B
<1>5. Cardinality(B) = Cardinality(A)
  BY <1>2, <1>3, <1>4, FS_Surjection
<1> QED BY <1>5 DEF A, B

LEMMA FiniteRows ==
  ASSUME relations \in FromClauses
  PROVE  IsFiniteSet(Rows)
<1>1. PICK n \in Nat : DOMAIN relations = 1 .. n
  BY FromFacts
<1>2. IsFiniteSet(Bases)
  <2> DEFINE base == [i \in 1 .. n |-> {i} \X DOMAIN relations[i].columns]
             parts == {{i} \X DOMAIN relations[i].columns : i \in 1 .. n}
  <2>1. base \in Surjection(1 .. n, parts)
    BY DEF Surjection
  <2>2. IsFiniteSet(1 .. n)
    BY FS_Interval
  <2>3. ASSUME NEW i \in 1 .. n PROVE IsFiniteSet({i} \X DOMAIN relations[i].columns)
    <3>1. PICK m \in Nat : DOMAIN relations[i].columns = 1 .. m
      BY <1>1, FromFacts
    <3>2. IsFiniteSet(1 .. m)
      BY FS_Interval
    <3>3. IsFiniteSet({i})
      BY FS_Singleton
    <3>4. IsFiniteSet({i} \X (1 .. m))
      BY <3>2, <3>3, FS_Product
    <3> QED BY <3>1, <3>4
  <2>4. \A part \in parts : IsFiniteSet(part)
    BY <2>3
  <2>5. Bases = UNION parts
    BY <1>1 DEF Bases
  <2> HIDE DEF base, parts
  <2>6. IsFiniteSet(parts)
    BY <2>1, <2>2, FS_Surjection
  <2> QED BY <2>4, <2>5, <2>6, FS_UNION
<1> DEFINE Cells == Bases \X {0, 1, Null}
           graph == [row \in Rows |-> {<<p, row[p]>> : p \in Bases}]
<1>3. IsFiniteSet({0, 1, Null})
  <2>1. IsFiniteSet({0}) /\ IsFiniteSet({1}) /\ IsFiniteSet({Null})
    BY FS_Singleton
  <2>2. IsFiniteSet({0} \cup {1})
    BY <2>1, FS_Union
  <2>3. IsFiniteSet(({0} \cup {1}) \cup {Null})
    BY <2>1, <2>2, FS_Union
  <2>4. {0, 1, Null} = ({0} \cup {1}) \cup {Null}
    OBVIOUS
  <2> QED BY <2>3, <2>4
<1>4. IsFiniteSet(SUBSET Cells)
  <2>1. IsFiniteSet(Cells)
    BY <1>2, <1>3, FS_Product
  <2> HIDE DEF Cells
  <2> QED BY <2>1, FS_SUBSET
<1>5. graph \in Injection(Rows, SUBSET Cells)
  <2>0. \A row \in Rows : row \in [Bases -> {0, 1, Null}]
    BY RowFacts
  <2>1. graph \in [Rows -> SUBSET Cells]
    <3> SUFFICES ASSUME NEW row \in Rows PROVE {<<p, row[p]>> : p \in Bases} \subseteq Cells
      OBVIOUS
    <3> QED BY <2>0
  <2>2. ASSUME NEW r \in Rows, NEW s \in Rows, graph[r] = graph[s] PROVE r = s
    <3>1. {<<p, r[p]>> : p \in Bases} = {<<p, s[p]>> : p \in Bases}
      BY <2>2
    <3>2. ASSUME NEW p \in Bases PROVE r[p] = s[p]
      <4>1. <<p, r[p]>> \in {<<q, s[q]>> : q \in Bases}
        BY <3>1
      <4> QED BY <4>1
    <3>3. r \in [Bases -> {0, 1, Null}] /\ s \in [Bases -> {0, 1, Null}]
      BY <2>0
    <3> QED BY <3>2, <3>3
  <2> HIDE DEF graph, Cells
  <2> QED BY <2>1, <2>2 DEF Injection, IsInjective
<1> HIDE DEF graph, Cells
<1> QED BY <1>4, <1>5, FS_Injection

-----------------------------------------------------------------------------
(* One value in each group.                                                 *)

\* The value of an expression is that of its root over those of its arguments.
LEMMA ValueStep ==
  ASSUME relations \in FromClauses, NEW x \in Expr, Resolved(x), NEW row \in Rows,
         NEW args, args = [i \in DOMAIN x.args |-> G!ValueIn(x.args[i], row, {})]
  PROVE  G!ValueIn(x, row, {}) = G!ValueNode(x, args, row)
<1>1. PICK v : IsValuation(v, x, row, {}) /\ G!ValueIn(x, row, {}) = v[x]
  BY ValuationExists
<1>2. ASSUME NEW i \in DOMAIN x.args PROVE G!ValueIn(x.args[i], row, {}) = v[x.args[i]]
  <2>1. PICK y : y = x.args[i]
    OBVIOUS
  <2>2. y \in Expr /\ y \in Nodes[x] /\ Nodes[y] \subseteq Nodes[x] /\ y \in Nodes[y]
    BY <2>1, Shapes, NodesClosed
  <2>3. Resolved(y)
    BY <2>2 DEF Resolved
  <2>4. PICK w : IsValuation(w, y, row, {}) /\ G!ValueIn(y, row, {}) = w[y]
    BY <2>2, <2>3, ValuationExists
  <2> DEFINE P == {z \in Nodes[y] : w[z] = v[z]}
  <2>5. ASSUME NEW z \in Nodes[y], \A j \in DOMAIN z.args : z.args[j] \in P PROVE z \in P
    <3>1. z \in Nodes[x]
      BY <2>2
    <3>2. [j \in DOMAIN z.args |-> w[z.args[j]]] = [j \in DOMAIN z.args |-> v[z.args[j]]]
      BY <2>5
    <3>3. w[z] = G!ValueNode(z, [j \in DOMAIN z.args |-> w[z.args[j]]], row)
      BY <2>4 DEF IsValuation
    <3>4. v[z] = G!ValueNode(z, [j \in DOMAIN z.args |-> v[z.args[j]]], row)
      BY <1>1, <3>1 DEF IsValuation
    <3> QED BY <3>2, <3>3, <3>4
  <2> HIDE DEF P
  <2>6. y \in P
    BY <2>2, <2>5, TreeInduction
  <2> QED BY <2>1, <2>4, <2>6 DEF P
<1>3. args = [i \in DOMAIN x.args |-> v[x.args[i]]]
  BY <1>2
<1>4. x \in Nodes[x]
  BY NodesClosed
<1>5. v[x] = G!ValueNode(x, args, row)
  BY <1>1, <1>3, <1>4, ValuationAt
<1> QED BY <1>1, <1>5

\* The value of a reference is that of its column.
LEMMA ValueOfReference ==
  ASSUME relations \in FromClauses, NEW x \in Expr, x.kind = "reference",
         Resolve(x).status = "found", NEW row \in Rows
  PROVE  G!ValueIn(x, row, {}) = row[Place(x)]
<1>1. Nodes[x] = {x}
  BY NodesEquation, Shapes
<1>2. Resolved(x)
  BY <1>1 DEF Resolved
<1>3. PICK args : args = [i \in DOMAIN x.args |-> G!ValueIn(x.args[i], row, {})]
  OBVIOUS
<1>4. G!ValueNode(x, args, row) = row[Place(x)]
  BY DEF G!ValueNode, G!IsAggregate
<1> QED BY <1>2, <1>3, <1>4, ValueStep

LEMMA SubtreesResolved ==
  ASSUME NEW e \in Expr, Resolved(e), NEW x \in Nodes[e]
  PROVE  x \in Expr /\ Resolved(x) /\ (x.kind = "reference" => Resolve(x).status = "found")
BY NodesClosed DEF Resolved

\* References that match as keys do mean one column.
LEMMA MatchingPlaces ==
  ASSUME relations \in FromClauses, NEW x, NEW y,
         Resolve(x).status = "found", Resolve(y).status = "found", KeyMatches(KeyOfNode(y), x)
  PROVE  Place(x) = Place(y)
<1>1. PICK k : k = KeyOfNode(y)
  OBVIOUS
<1>2. k.qualifier = y.qualifier /\ k.name = y.name /\ k.instance = NoQualifier
  BY <1>1 DEF KeyOfNode, GroupKey
<1>3. x.name = y.name /\ (NoQualifier \in {x.qualifier, y.qualifier} \/ x.qualifier = y.qualifier)
  BY <1>1, <1>2 DEF KeyMatches, SameColumn, SameRelationInstance, Qualifier
<1> QED BY <1>3, OnePlace

\* Nodes that differ in their arguments at most have the values of one node.
LEMMA AlikeNodes ==
  ASSUME NEW x, NEW y, SameNode(x, y), x.kind # "reference", NEW args, NEW row
  PROVE  G!ValueNode(x, args, row) = G!ValueNode(y, args, row)
BY DEF G!ValueNode, G!IsAggregate, SameNode

\* Expressions that are equal for the check are equal in each row.
LEMMA EqualValues ==
  ASSUME relations \in FromClauses, NEW e \in Expr, NEW k \in Expr, Resolved(e), Resolved(k),
         GroupExprEqual(e, k), NEW row \in Rows
  PROVE  G!ValueIn(e, row, {}) = G!ValueIn(k, row, {})
<1>1. PICK f : IsEquality(f, e, k) /\ k \in f[e]
  BY EqualityExists
<1> DEFINE P == {x \in Nodes[e] : \A y \in f[x] : G!ValueIn(x, row, {}) = G!ValueIn(y, row, {})}
<1>2. ASSUME NEW x \in Nodes[e], \A i \in DOMAIN x.args : x.args[i] \in P, NEW y \in f[x]
      PROVE  G!ValueIn(x, row, {}) = G!ValueIn(y, row, {})
  <2>1. /\ y \in Nodes[k]
        /\ IF {x.kind, y.kind} = {"reference"} THEN KeyMatches(KeyOfNode(y), x)
           ELSE SameNode(x, y) /\ \A i \in DOMAIN x.args : y.args[i] \in f[x.args[i]]
    BY <1>1, EqualityAt
  <2>2. /\ x \in Expr /\ Resolved(x) /\ (x.kind = "reference" => Resolve(x).status = "found")
        /\ y \in Expr /\ Resolved(y) /\ (y.kind = "reference" => Resolve(y).status = "found")
    BY <2>1, SubtreesResolved
  <2>3. CASE {x.kind, y.kind} = {"reference"}
    <3>1. x.kind = "reference" /\ y.kind = "reference"
      BY <2>3
    <3>2. Place(x) = Place(y)
      BY <2>1, <2>2, <2>3, <3>1, MatchingPlaces
    <3>3. G!ValueIn(x, row, {}) = row[Place(x)] /\ G!ValueIn(y, row, {}) = row[Place(y)]
      BY <2>2, <3>1, ValueOfReference
    <3> QED BY <3>2, <3>3
  <2>4. CASE {x.kind, y.kind} # {"reference"}
    <3>1. SameNode(x, y) /\ \A i \in DOMAIN x.args : y.args[i] \in f[x.args[i]]
      BY <2>1, <2>4
    <3>2. x.kind # "reference" /\ DOMAIN x.args = DOMAIN y.args
      BY <2>4, <3>1 DEF SameNode
    <3>3. PICK xs, ys : /\ xs = [i \in DOMAIN x.args |-> G!ValueIn(x.args[i], row, {})]
                        /\ ys = [i \in DOMAIN y.args |-> G!ValueIn(y.args[i], row, {})]
      OBVIOUS
    <3>4. xs = ys
      BY <1>2, <3>1, <3>2, <3>3
    <3>5. G!ValueIn(x, row, {}) = G!ValueNode(x, xs, row) /\ G!ValueIn(y, row, {}) = G!ValueNode(y, ys, row)
      BY <2>2, <3>3, ValueStep
    <3>6. G!ValueNode(x, xs, row) = G!ValueNode(y, xs, row)
      BY <3>1, <3>2, AlikeNodes
    <3> QED BY <3>4, <3>5, <3>6
  <2> QED BY <2>3, <2>4
<1> HIDE DEF P
<1>3. Nodes[e] \subseteq P
  <2>1. \A x \in Nodes[e] : (\A i \in DOMAIN x.args : x.args[i] \in P) => x \in P
    BY <1>2 DEF P
  <2> QED BY <2>1, TreeInduction
<1> QED BY <1>1, <1>3, NodesClosed DEF P

\* Rows of one group.
Together(r, s) == \A m \in AllKeys : G!ValueIn(m, r, {}) = G!ValueIn(m, s, {})

\* A column that a key matches by its id or its text is a key.
LEMMA KeyOfColumn ==
  ASSUME Settled, Grouped, KeysNamedApart, NEW k \in GroupKeys, NEW m \in AllKeys, Represents(k, m),
         NEW p \in Bases, At(p).name = k.name,
         SameRelationInstance(relations[p[1]].qualifier, Qualifier(k))
  PROVE  m.kind = "reference" /\ Resolve(m).status = "found" /\ Place(m) = p
<1>1. relations \in FromClauses
  BY DEF Settled, Inv, Typed
<1>2. m \in Expr /\ Resolved(m) /\ m \in Nodes[m]
  BY KeysMean, NodesClosed DEF IsGroupable
<1>3. p[1] \in DOMAIN relations /\ p[2] \in DOMAIN relations[p[1]].columns
      /\ relations[p[1]].qualifier # NoQualifier
  BY <1>1, FromFacts
<1>4. CASE k.node = None
  <2>1. PICK q \in Bases :
          m = PlaceReference(q)
          /\ k = GroupKey(At(q).id, NoQualifier, At(q).name, relations[q[1]].qualifier, None)
    BY <1>4 DEF Represents
  <2>2. q[1] \in DOMAIN relations /\ relations[q[1]].qualifier # NoQualifier
    BY <1>1, FromFacts
  <2>3. k.name = At(q).name /\ Qualifier(k) = relations[q[1]].qualifier
    BY <2>1, <2>2 DEF GroupKey, Qualifier
  <2>4. relations[p[1]].qualifier = relations[q[1]].qualifier
    BY <1>3, <2>2, <2>3 DEF SameRelationInstance
  <2>5. p[1] = q[1]
    BY <1>1, <1>3, <2>2, <2>4, FromFacts
  <2>6. p = q
    BY <1>1, <2>3, <2>5, FromFacts
  <2> QED BY <1>1, <2>1, <2>6, PlainPlace
<1>5. CASE k.node # None /\ m.kind = "reference"
  <2>1. k.qualifier = m.qualifier /\ k.name = m.name /\ k.instance = NoQualifier
    BY <1>5 DEF Represents
  <2>2. Resolve(m).status = "found"
    BY <1>2, <1>5 DEF Resolved
  <2>3. Fits(m, p)
    BY <1>3, <2>1 DEF Fits, SameRelationInstance, Qualifier
  <2> QED BY <1>1, <1>5, <2>2, <2>3, Referring
<1>6. CASE k.node # None /\ m.kind # "reference"
  <2>1. k.node = m
    BY <1>6 DEF Represents
  <2>2. ~HasColumnNamed(relations[p[1]], k.name)
    BY <1>3, <1>6, <2>1 DEF KeysNamedApart
  <2>3. HasColumnNamed(relations[p[1]], k.name)
    BY <1>1, <1>3, NamedOnce DEF At
  <2> QED BY <2>2, <2>3
<1> QED BY <1>4, <1>5, <1>6

\* A reference that a key matches is a key.
LEMMA KeyOfReference ==
  ASSUME Settled, Grouped, KeysNamedApart, NEW k \in GroupKeys, NEW m \in AllKeys, Represents(k, m),
         NEW x, x.kind = "reference", Resolve(x).status = "found", KeyMatches(k, x)
  PROVE  m.kind = "reference" /\ Resolve(m).status = "found" /\ Place(m) = Place(x)
<1>1. relations \in FromClauses
  BY DEF Settled, Inv, Typed
<1>2. PICK p : p = Place(x) /\ p \in Bases /\ Fits(x, p) /\ \A q : Fits(x, q) => q = p
  BY <1>1, Referring
<1>3. p[1] \in DOMAIN relations /\ relations[p[1]].qualifier # NoQualifier /\ At(p).name = x.name
      /\ x.qualifier \in {NoQualifier, relations[p[1]].qualifier}
  BY <1>1, <1>2, FromFacts DEF Fits
<1>4. x.name = k.name /\ (SameRelationInstance(x.qualifier, Qualifier(k)) \/ x.qualifier = k.qualifier)
  BY DEF KeyMatches, SameColumn
<1>5. m \in Expr /\ Resolved(m) /\ m \in Nodes[m]
  BY KeysMean, NodesClosed DEF IsGroupable
<1>6. CASE k.node = None
  <2>1. PICK q \in Bases :
          m = PlaceReference(q)
          /\ k = GroupKey(At(q).id, NoQualifier, At(q).name, relations[q[1]].qualifier, None)
    BY <1>6 DEF Represents
  <2>2. k.name = At(q).name /\ k.qualifier = NoQualifier /\ k.instance = relations[q[1]].qualifier
    BY <2>1 DEF GroupKey
  <2>3. Fits(x, q)
    <3>1. relations[q[1]].qualifier # NoQualifier
      BY <1>1, FromFacts
    <3>2. x.qualifier \in {NoQualifier, relations[q[1]].qualifier}
      BY <1>4, <2>2, <3>1 DEF SameRelationInstance, Qualifier
    <3> QED BY <1>4, <2>2, <3>2 DEF Fits
  <2> QED BY <1>1, <1>2, <2>1, <2>3, PlainPlace
<1>7. CASE k.node # None /\ m.kind = "reference"
  <2>1. k.qualifier = m.qualifier /\ k.name = m.name /\ k.instance = NoQualifier
    BY <1>7 DEF Represents
  <2>2. Resolve(m).status = "found"
    BY <1>5, <1>7 DEF Resolved
  <2>3. NoQualifier \in {x.qualifier, m.qualifier} \/ x.qualifier = m.qualifier
    BY <1>4, <2>1 DEF SameRelationInstance, Qualifier
  <2> QED BY <1>1, <1>4, <1>7, <2>1, <2>2, <2>3, OnePlace
<1>8. CASE k.node # None /\ m.kind # "reference"
  <2>1. k.node = m
    BY <1>8 DEF Represents
  <2>2. ~HasColumnNamed(relations[p[1]], k.name)
    BY <1>3, <1>8, <2>1 DEF KeysNamedApart
  <2>3. p[2] \in DOMAIN relations[p[1]].columns
    BY <1>1, <1>2, FromFacts
  <2>4. HasColumnNamed(relations[p[1]], k.name)
    BY <1>1, <1>3, <1>4, <2>3, NamedOnce DEF At
  <2> QED BY <2>2, <2>4
<1> QED BY <1>6, <1>7, <1>8

\* What the check says nothing about has one value in rows of one group.
LEMMA SilentIsOne ==
  ASSUME Settled, Grouped, KeysNamedApart, NEW e \in Expr, Resolved(e),
         NEW keys, keys = GroupKeys, "NonGroupedColumn" \notin CheckGroupingExpr(e, keys),
         NEW r \in Rows, NEW s \in Rows, Together(r, s)
  PROVE  G!ValueIn(e, r, {}) = G!ValueIn(e, s, {})
<1>0. relations \in FromClauses
  BY DEF Settled, Inv, Typed
<1>1. PICK f : IsCheck(f, e, keys) /\ CheckGroupingExpr(e, keys) = f[<<e, FALSE, FALSE>>]
  BY CheckExists
<1> DEFINE One(x) == G!ValueIn(x, r, {}) = G!ValueIn(x, s, {})
           P == {c \in Cases(e) : ~c[2] /\ "NonGroupedColumn" \notin f[c] => One(c[1])}
<1>2. ASSUME NEW c \in Cases(e), ~c[2], "NonGroupedColumn" \notin f[c],
             \A i \in DOMAIN c[1].args : <<c[1].args[i], Exempted(c), Inside(c)>> \in P
      PROVE  One(c[1])
  <2> DEFINE child(i) == <<c[1].args[i], Exempted(c), Inside(c)>>
  <2>1. PICK x : x = c[1]
    OBVIOUS
  <2>2. x \in Nodes[e] /\ x \in Expr
    BY <2>1, CasesClosed
  <2>3. Resolved(x) /\ (x.kind = "reference" => Resolve(x).status = "found")
    BY <2>2, SubtreesResolved
  <2>4. f[c] = CheckAt(c, keys, f)
    BY <1>1 DEF IsCheck
  <2>5. CASE IsKeyed(x, keys)
    <3>1. PICK k \in keys : k.node # None /\ GroupExprEqual(x, k.node)
      BY <2>5 DEF IsKeyed
    <3>2. PICK m \in AllKeys : Represents(k, m)
      BY KeysMean
    <3>3. k.node = m /\ m \in Expr /\ Resolved(m)
      BY <3>1, <3>2, KeysMean DEF Represents, IsGroupable
    <3>4. G!ValueIn(x, r, {}) = G!ValueIn(m, r, {}) /\ G!ValueIn(x, s, {}) = G!ValueIn(m, s, {})
      BY <1>0, <2>2, <2>3, <3>1, <3>3, EqualValues
    <3> QED BY <2>1, <3>4 DEF Together
  <2>6. CASE ~IsKeyed(x, keys) /\ x.kind = "reference"
    <3>1. PICK k \in keys : KeyMatches(k, x)
      BY <1>2, <2>1, <2>4, <2>6 DEF CheckAt
    <3>2. PICK m \in AllKeys : Represents(k, m)
      BY KeysMean
    <3>3. m.kind = "reference" /\ Resolve(m).status = "found" /\ Place(m) = Place(x) /\ m \in Expr
      BY <2>3, <2>6, <3>1, <3>2, KeyOfReference, KeysMean DEF IsGroupable
    <3>4. /\ G!ValueIn(x, r, {}) = r[Place(x)] /\ G!ValueIn(x, s, {}) = s[Place(x)]
          /\ G!ValueIn(m, r, {}) = r[Place(x)] /\ G!ValueIn(m, s, {}) = s[Place(x)]
      BY <1>0, <2>2, <2>3, <2>6, <3>3, ValueOfReference
    <3> QED BY <2>1, <3>4 DEF Together
  <2>7. CASE ~IsKeyed(x, keys) /\ x.kind # "reference"
    <3>1. PICK a, b : /\ a = [i \in DOMAIN x.args |-> G!ValueIn(x.args[i], r, {})]
                      /\ b = [i \in DOMAIN x.args |-> G!ValueIn(x.args[i], s, {})]
      OBVIOUS
    <3>2. G!ValueIn(x, r, {}) = G!ValueNode(x, a, r) /\ G!ValueIn(x, s, {}) = G!ValueNode(x, b, s)
      BY <1>0, <2>2, <2>3, <3>1, ValueStep
    <3>3. CASE IsAggregate(x)
      <4>1. x.kind = "call" /\ G!IsAggregate(x)
        BY <3>3, SameProbes DEF IsAggregate
      <4>2. G!ValueNode(x, a, r) = Null /\ G!ValueNode(x, b, s) = Null
        BY <4>1 DEF G!ValueNode
      <4> QED BY <2>1, <3>2, <4>2
    <3>4. CASE ~IsAggregate(x)
      <4>1. f[c] = (IF IsAggregate(x) /\ c[3] THEN {"NestedAggregate"} ELSE {})
                     \cup UNION {f[child(i)] : i \in DOMAIN x.args}
        BY <2>1, <2>4, <2>7 DEF CheckAt
      <4>2. ASSUME NEW i \in DOMAIN x.args PROVE One(x.args[i])
        <5>1. child(i) \in P
          BY <1>2, <2>1
        <5>2. "NonGroupedColumn" \notin f[child(i)]
          BY <1>2, <4>1
        <5>3. ~Exempted(c)
          BY <1>2, <2>1, <3>4 DEF Exempted
        <5> QED BY <2>1, <5>1, <5>2, <5>3
      <4>3. a = b
        BY <3>1, <4>2
      <4>4. G!ValueNode(x, a, r) = G!ValueNode(x, a, s)
        BY <2>7 DEF G!ValueNode
      <4> QED BY <2>1, <3>2, <4>3, <4>4
    <3> QED BY <3>3, <3>4
  <2> QED BY <2>5, <2>6, <2>7
<1> HIDE DEF P
<1>3. Cases(e) \subseteq P
  <2>1. \A c \in Cases(e) :
          (\A i \in DOMAIN c[1].args : <<c[1].args[i], Exempted(c), Inside(c)>> \in P) => c \in P
    BY <1>2 DEF P
  <2> QED BY <2>1, CasesInduction
<1>4. <<e, FALSE, FALSE>> \in Cases(e)
  BY NodesClosed DEF Cases
<1> QED BY <1>1, <1>3, <1>4 DEF P

LEMMA ColumnIsOne ==
  ASSUME Settled, Grouped, KeysNamedApart, NEW p \in Bases, NEW keys, keys = GroupKeys,
         StarColumnGrouped(p, keys), NEW r \in Rows, NEW s \in Rows, Together(r, s)
  PROVE  G!ValueIn(PlaceReference(p), r, {}) = G!ValueIn(PlaceReference(p), s, {})
<1>1. relations \in FromClauses
  BY DEF Settled, Inv, Typed
<1>2. PICK k \in keys : SameRelationInstance(relations[p[1]].qualifier, Qualifier(k)) /\ At(p).name = k.name
  BY DEF StarColumnGrouped, At
<1>3. PICK m \in AllKeys : Represents(k, m)
  BY KeysMean
<1>4. m.kind = "reference" /\ Resolve(m).status = "found" /\ Place(m) = p /\ m \in Expr
  BY <1>2, <1>3, KeyOfColumn, KeysMean DEF IsGroupable
<1>5. PICK e : e = PlaceReference(p)
  OBVIOUS
<1>6. e \in Expr /\ e.kind = "reference" /\ Resolve(e).status = "found" /\ Place(e) = p
  BY <1>1, <1>5, PlainPlace
<1>7. /\ G!ValueIn(e, r, {}) = r[p] /\ G!ValueIn(e, s, {}) = s[p]
      /\ G!ValueIn(m, r, {}) = r[p] /\ G!ValueIn(m, s, {}) = s[p]
  BY <1>1, <1>4, <1>6, ValueOfReference
<1> QED BY <1>5, <1>7 DEF Together

\* A grouped query without a diagnostic has one value of each expression in each of its groups.
THEOREM UngroupedIsReportedHolds == Spec => []UngroupedIsReported
<1>1. Inv => UngroupedIsReported
  <2> SUFFICES ASSUME Inv, Accepted, Grouped, KeysNamedApart, NEW e \in AfterGrouping
               PROVE  G!Determined(e, AllKeys, Rows)
    BY DEF UngroupedIsReported
  <2>1. Settled /\ clause = 6 /\ relations \in FromClauses /\ diagnostics = {}
    BY DEF Settled, Accepted, Inv, Typed
  <2>2. PICK keys : keys = GroupKeys /\ GroupingCodes(keys) = {}
    BY <2>1 DEF Inv, Finished
  <2>3. e \in Expr /\ Resolved(e) /\ (FromStar(e) \/ IsChecked(e))
    BY <2>1, AfterGroupingChecked
  <2>4. ASSUME NEW r \in Rows, NEW s \in Rows, Together(r, s)
        PROVE  G!ValueIn(e, r, {}) = G!ValueIn(e, s, {})
    <3>1. CASE FromStar(e)
      <4>1. PICK item \in ToSet(select), p \in Bases :
              item.expr.kind = "star" /\ p \in ToSet(StarColumns(item.expr)) /\ e = PlaceReference(p)
        BY <3>1 DEF FromStar
      <4>2. CheckItem(item.expr, keys) = {}
        BY <2>2, <4>1 DEF GroupingCodes, CheckSelect, ToSet
      <4>3. StarColumnGrouped(p, keys)
        BY <4>1, <4>2 DEF CheckItem
      <4> QED BY <2>1, <2>2, <2>4, <4>1, <4>3, ColumnIsOne
    <3>2. CASE IsChecked(e)
      <4>1. CheckGroupingExpr(e, keys) = {}
        BY <2>1, <2>2, <3>2 DEF IsChecked
      <4> QED BY <2>1, <2>2, <2>3, <2>4, <4>1, SilentIsOne
    <3> QED BY <2>3, <3>1, <3>2
  <2> DEFINE group(row) == {<<k, G!ValueIn(k, row, {})>> : k \in AllKeys}
             g == [row \in Rows |-> group(row)]
             w == [row \in Rows |-> G!ValueIn(e, row, {})]
  <2>5. ASSUME NEW r \in Rows, NEW s \in Rows, g[r] = g[s] PROVE w[r] = w[s]
    <3>1. group(r) = group(s)
      BY <2>5
    <3>2. ASSUME NEW m \in AllKeys PROVE G!ValueIn(m, r, {}) = G!ValueIn(m, s, {})
      <4>1. <<m, G!ValueIn(m, r, {})>> \in group(s)
        BY <3>1
      <4> QED BY <4>1
    <3>3. G!ValueIn(e, r, {}) = G!ValueIn(e, s, {})
      BY <2>4, <3>2 DEF Together
    <3> QED BY <3>3
  <2>6. /\ {<<group(row), G!ValueIn(e, row, {})>> : row \in Rows} = {<<g[row], w[row]>> : row \in Rows}
        /\ {group(row) : row \in Rows} = {g[row] : row \in Rows}
    OBVIOUS
  <2>7. IsFiniteSet(Rows)
    BY <2>1, FiniteRows
  <2> HIDE DEF group, g, w
  <2>8. Cardinality({<<g[row], w[row]>> : row \in Rows}) = Cardinality({g[row] : row \in Rows})
    BY <2>5, <2>7, OneForEach
  <2>9. \A S : G!Cardinality(S) = Cardinality(S)
    BY DEF G!Cardinality, Cardinality
  <2>10. G!Cardinality({<<group(row), G!ValueIn(e, row, {})>> : row \in Rows})
           = G!Cardinality({group(row) : row \in Rows})
    BY <2>6, <2>8, <2>9
  <2> QED BY <2>10 DEF G!Determined, group
<1> QED BY <1>1, InvHolds, PTL

=============================================================================

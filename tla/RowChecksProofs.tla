--------------------------- MODULE RowChecksProofs ---------------------------
(***************************************************************************)
(* Proofs about RowChecks: what the evaluator of CHECK folds is the value  *)
(* the engine computes, so that a reported violation is one.               *)
(***************************************************************************)
EXTENDS RowChecks, NaturalSetProofs, TLAPS

-----------------------------------------------------------------------------
(* Values.                                                                  *)

LEMMA TruthIsTrueOrFalse ==
  ASSUME NEW p
  PROVE  Truth(p) \in {True, False}
BY DEF Truth, True, False, Value

LEMMA TruthOf ==
  /\ Truth(TRUE) = True /\ Truth(FALSE) = False
  /\ True # False /\ True # NullValue /\ False # NullValue
  /\ True # Fail /\ False # Fail /\ NullValue # Fail
  /\ True # Error /\ False # Error /\ NullValue # Error
  /\ True.k = "Bool" /\ False.k = "Bool" /\ NullValue.k = "Null" /\ Fail.k = "Fail" /\ Error.k = "Error"
  /\ True.v = 1 /\ False.v = 0
BY DEF Truth, True, False, Value, NullValue, Fail, Error

LEMMA EvalValueFacts ==
  ASSUME NEW x \in EvalValues
  PROVE  /\ x.v \in Int
         /\ x.k \in {"Fail", "Null", "Bool", "Int", "Dbl", "Str"}
         /\ x.k = "Fail" <=> x = Fail
         /\ x.k = "Null" <=> x = NullValue
         /\ x.k = "Bool" <=> x \in {True, False}
         /\ x = Value(x.k, x.v)
BY DEF EvalValues, Fail, NullValue, True, False, Truth, Value

LEMMA RowValueFacts ==
  ASSUME NEW x \in RowValues
  PROVE  /\ x.v \in Int
         /\ x.k \in {"Error", "Null", "Bool", "Int", "Dbl", "Str", "Time"}
         /\ x.k = "Error" <=> x = Error
         /\ x.k = "Null" <=> x = NullValue
         /\ x.k = "Bool" <=> x \in {True, False}
         /\ x = Value(x.k, x.v)
BY DEF RowValues, Error, NullValue, True, False, Truth, Value

\* Both sides have a value for each of these.
LEMMA SharedValues ==
  ASSUME NEW x \in EvalValues, x # Fail
  PROVE  x \in RowValues
BY DEF EvalValues, RowValues

LEMMA MakeValues ==
  ASSUME NEW n \in Int
  PROVE  /\ Value("Int", n) \in EvalValues /\ Value("Dbl", n) \in EvalValues
         /\ Value("Int", n) \in RowValues /\ Value("Dbl", n) \in RowValues
         /\ Value("Time", n) \in RowValues
BY DEF EvalValues, RowValues, Value

LEMMA LiteralsAreValues ==
  ASSUME NEW x \in LiteralValues
  PROVE  x \in EvalValues /\ x \in RowValues /\ x # Fail /\ x # Error
<1>1. Int64 \subseteq Int
  BY WidthAssumption DEF Int64, MinBig
<1>2. x \in EvalValues /\ x \in RowValues
  BY <1>1 DEF LiteralValues, EvalValues, RowValues
<1>3. x # Fail /\ x # Error
  BY TruthOf DEF LiteralValues, Fail, Error, Value
<1> QED BY <1>2, <1>3

-----------------------------------------------------------------------------
(* Arithmetic.                                                              *)

LEMMA QuotientType ==
  ASSUME NEW a \in Int, NEW b \in Int, b # 0
  PROVE  Quotient(a, b) \in Int
<1>1. Magnitude(a) \in Nat /\ Magnitude(b) \in Nat \ {0}
  BY DEF Magnitude
<1> DEFINE s == IF (a < 0) = (b < 0) THEN 1 ELSE -1
           q == Magnitude(a) \div Magnitude(b)
<1>2. q \in Int
  BY <1>1
<1>3. s \in Int
  OBVIOUS
<1> HIDE DEF s, q
<1>4. s * q \in Int
  BY <1>2, <1>3
<1> QED BY <1>4 DEF Quotient, s, q

LEMMA ExactType ==
  ASSUME NEW op \in ArithmeticOps, NEW a \in Int, NEW b \in Int, op \in {"/", "%"} => b # 0
  PROVE  Exact(op, a, b) \in Int
<1>1. CASE op \in {"/", "%"}
  <2>1. Quotient(a, b) \in Int
    BY <1>1, QuotientType
  <2>2. b * Quotient(a, b) \in Int
    BY <2>1
  <2> DEFINE q == Quotient(a, b)
             p == b * Quotient(a, b)
  <2>3. Exact(op, a, b) = IF op = "/" THEN q ELSE a - p
    BY <1>1 DEF Exact
  <2> HIDE DEF q, p
  <2>4. q \in Int /\ p \in Int
    BY <2>1, <2>2 DEF q, p
  <2> QED BY <2>3, <2>4
<1>2. CASE op = "*"
  <2>1. Exact(op, a, b) = a * b
    BY <1>2 DEF Exact
  <2> QED BY <2>1
<1>3. CASE op \in {"+", "-"}
  BY <1>3 DEF Exact
<1> QED BY <1>1, <1>2, <1>3 DEF ArithmeticOps

LEMMA ExactDoubleType ==
  ASSUME NEW op \in ArithmeticOps, NEW a \in Int, NEW b \in Int, op \in {"/", "%"} => b # 0
  PROVE  ExactDouble(op, a, b) \in Int
<1>1. CASE op = "*"
  <2>1. a * b \in Int /\ Unit \in Int /\ Unit # 0
    BY WidthAssumption
  <2>2. Quotient(a * b, Unit) \in Int
    BY <2>1, QuotientType
  <2> QED BY <1>1, <2>2 DEF ExactDouble
<1>2. CASE op = "/"
  <2>1. a * Unit \in Int
    BY WidthAssumption
  <2>2. Quotient(a * Unit, b) \in Int
    BY <1>2, <2>1, QuotientType
  <2> QED BY <1>2, <2>2 DEF ExactDouble
<1>3. CASE op \notin {"*", "/"}
  <2>1. ExactDouble(op, a, b) = Exact(op, a, b)
    BY <1>3 DEF ExactDouble
  <2> QED BY <2>1, ExactType
<1> QED BY <1>1, <1>2, <1>3

LEMMA AsDoubleType ==
  ASSUME NEW x, x.v \in Int
  PROVE  AsDouble(x) \in Int /\ (x.v # 0 => AsDouble(x) # 0)
<1> DEFINE n == x.v
<1>1. n \in Int /\ Unit \in Int /\ Unit > 0
  BY WidthAssumption
<1> HIDE DEF n
<1>2. n * Unit \in Int /\ (n # 0 => n * Unit # 0)
  BY <1>1
<1> QED BY <1>1, <1>2 DEF AsDouble, n

-----------------------------------------------------------------------------
(* Trees.                                                                   *)

IsUnaryMinus(e) == e.op = "-" /\ DOMAIN e.args = {1}
IsBinary(e)     == e.op \in ArithmeticOps /\ DOMAIN e.args = {1, 2}

LEMMA Shapes ==
  ASSUME NEW e \in Expr
  PROVE  /\ e.op \in {"literal", "column", "opaque"} => DOMAIN e.args = {}
         /\ e.op \in {"NOT"} \cup NullTests => DOMAIN e.args = {1}
         /\ e.op \in BetweenOps => DOMAIN e.args = {1, 2, 3}
         /\ e.op \in {"AND", "OR"} \cup ComparisonOps => DOMAIN e.args = {1, 2}
         /\ e.op \in ArithmeticOps => IsUnaryMinus(e) \/ IsBinary(e)
         /\ e.op \in {"literal", "column", "opaque"} \cup {"NOT", "AND", "OR"} \cup NullTests
                      \cup BetweenOps \cup ComparisonOps \cup ArithmeticOps
         /\ \A i \in DOMAIN e.args : e.args[i] \in Expr /\ Depth[e.args[i]] < Depth[e]
<1>1. PICK n \in ArgumentCounts(e.op) : DOMAIN e.args = 1 .. n
  BY TreesAssumption
<1>2. 1 .. 0 = {} /\ 1 .. 1 = {1} /\ 1 .. 2 = {1, 2} /\ 1 .. 3 = {1, 2, 3}
  OBVIOUS
<1>3. e.op \in {"literal", "column", "opaque"} \cup ConstantOps
  BY TreesAssumption
<1>4. e.op \in {"literal", "column", "opaque"} => n = 0
  BY DEF ArgumentCounts, NullTests, BetweenOps, ComparisonOps, ArithmeticOps
<1>5. e.op \in {"NOT"} \cup NullTests => n = 1
  BY DEF ArgumentCounts, NullTests, BetweenOps, ComparisonOps, ArithmeticOps
<1>6. e.op \in BetweenOps => n = 3
  BY DEF ArgumentCounts, NullTests, BetweenOps, ComparisonOps, ArithmeticOps
<1>7. e.op \in {"AND", "OR"} \cup ComparisonOps => n = 2
  BY DEF ArgumentCounts, NullTests, BetweenOps, ComparisonOps, ArithmeticOps
<1>8. e.op \in ArithmeticOps => n = 2 \/ (e.op = "-" /\ n = 1)
  BY DEF ArgumentCounts, NullTests, BetweenOps, ComparisonOps, ArithmeticOps
<1>9. \A i \in DOMAIN e.args : e.args[i] \in Expr /\ Depth[e.args[i]] < Depth[e]
  BY TreesAssumption
<1>10. e.op \in {"literal", "column", "opaque"} \cup {"NOT", "AND", "OR"} \cup NullTests
                 \cup BetweenOps \cup ComparisonOps \cup ArithmeticOps
  BY <1>3 DEF ConstantOps, LogicalOps
<1>11. e.op \in ArithmeticOps => IsUnaryMinus(e) \/ IsBinary(e)
  BY <1>1, <1>2, <1>8 DEF IsUnaryMinus, IsBinary
<1> QED BY <1>1, <1>2, <1>4, <1>5, <1>6, <1>7, <1>9, <1>10, <1>11

\* The nodes of a tree are those of its arguments and itself.
LEMMA NodesEquation ==
  /\ NodesOf \in [Expr -> SUBSET Expr]
  /\ \A e \in Expr : NodesOf[e] = {e} \cup UNION {NodesOf[e.args[i]] : i \in DOMAIN e.args}
<1> DEFINE V == SUBSET Expr
           Below == [e \in Expr |-> {e.args[i] : i \in DOMAIN e.args}]
           Body(e, f) == {e} \cup UNION {f[e.args[i]] : i \in DOMAIN e.args}
           Step == [p \in Expr \X [Expr -> V] |-> Body(p[1], p[2])]
<1>1. Depth \in [Expr -> Nat]
  BY TreesAssumption
<1>2. \A e \in Expr : \A i \in DOMAIN e.args : e.args[i] \in Expr /\ Depth[e.args[i]] < Depth[e]
  BY Shapes
<1>3. Below \in [Expr -> SUBSET Expr] /\ \A e \in Expr : \A y \in Below[e] : Depth[y] < Depth[e]
  BY <1>2
<1>4. ASSUME NEW e \in Expr, NEW f \in [Expr -> V] PROVE Body(e, f) \in V
  <2>1. \A i \in DOMAIN e.args : f[e.args[i]] \in SUBSET Expr
    BY <1>2
  <2> QED BY <2>1
<1>5. ASSUME NEW e \in Expr, NEW f, NEW g, \A y \in Below[e] : f[y] = g[y]
      PROVE  Body(e, f) = Body(e, g)
  <2>1. \A i \in DOMAIN e.args : f[e.args[i]] = g[e.args[i]]
    BY <1>5
  <2> QED BY <2>1
<1> HIDE DEF Body
<1>6. Step \in [Expr \X [Expr -> V] -> V]
  BY <1>4
<1>7. \A e \in Expr : \A f \in [Expr -> V] : Step[<<e, f>>] = Body(e, f)
  OBVIOUS
<1>8. V # {}
  OBVIOUS
<1> HIDE DEF Step, V, Below
<1>9. PICK f \in [Expr -> V] : f = [e \in Expr |-> Step[<<e, f>>]]
  <2>1. \A e \in Expr : \A f, g \in [Expr -> V] :
          (\A y \in Below[e] : f[y] = g[y]) => Step[<<e, f>>] = Step[<<e, g>>]
    BY <1>5, <1>7
  <2>2. IsRecursion(Expr, V, Depth, Below, Step)
    BY <1>1, <1>3, <1>6, <1>8, <2>1 DEF IsRecursion
  <2> QED BY <2>2, RecursionExists
<1>10. f = [e \in Expr |-> Body(e, f)]
  <2>1. \A e \in Expr : f[e] = Body(e, f)
    BY <1>7, <1>9
  <2> QED BY <2>1
<1>11. NodesOf = [e \in Expr |-> Body(e, NodesOf)]
  BY <1>10 DEF NodesOf, Body
<1>12. \A e \in Expr : NodesOf[e] = Body(e, NodesOf)
  BY <1>11
<1>13. \A e \in Expr : NodesOf[e] \subseteq Expr
  <2> DEFINE P == {e \in Expr : NodesOf[e] \subseteq Expr}
  <2>1. ASSUME NEW e \in Expr, \A y \in Expr : Depth[y] < Depth[e] => y \in P PROVE e \in P
    <3>1. \A i \in DOMAIN e.args : NodesOf[e.args[i]] \subseteq Expr
      BY <1>2, <2>1
    <3> QED BY <1>12, <3>1 DEF Body
  <2>2. \A e \in Expr : (\A y \in Expr : Depth[y] < Depth[e] => y \in P) => e \in P
    BY <2>1
  <2> HIDE DEF P
  <2>3. Expr \subseteq P
    BY <1>1, <2>2, DepthInduction
  <2> QED BY <2>3 DEF P
<1> QED BY <1>11, <1>12, <1>13 DEF Body

\* The nodes of a node are nodes.
LEMMA NodesClosed ==
  ASSUME NEW e \in Expr
  PROVE  /\ e \in NodesOf[e]
         /\ NodesOf[e] \subseteq Expr
         /\ \A x \in NodesOf[e] : NodesOf[x] \subseteq NodesOf[e]
         /\ \A x \in NodesOf[e] : \A i \in DOMAIN x.args :
              /\ x.args[i] \in NodesOf[e]
              /\ NodesOf[x.args[i]] \subseteq NodesOf[x]
<1> DEFINE P == {x \in Expr : \A y \in NodesOf[x] : NodesOf[y] \subseteq NodesOf[x]}
<1>1. \A x \in Expr : x \in NodesOf[x] /\ NodesOf[x] \subseteq Expr
  BY NodesEquation
<1>2. \A x \in Expr : \A i \in DOMAIN x.args :
        x.args[i] \in Expr /\ NodesOf[x.args[i]] \subseteq NodesOf[x]
  BY NodesEquation, Shapes
<1>3. ASSUME NEW x \in Expr, \A y \in Expr : Depth[y] < Depth[x] => y \in P PROVE x \in P
  <2> SUFFICES ASSUME NEW y \in NodesOf[x] PROVE NodesOf[y] \subseteq NodesOf[x]
    OBVIOUS
  <2>1. CASE y = x
    BY <2>1
  <2>2. CASE y # x
    <3>1. PICK i \in DOMAIN x.args : y \in NodesOf[x.args[i]]
      BY <2>2, NodesEquation
    <3>2. x.args[i] \in P
      BY <1>3, Shapes
    <3> QED BY <1>2, <3>1, <3>2
  <2> QED BY <2>1, <2>2
<1>4. \A x \in Expr : (\A y \in Expr : Depth[y] < Depth[x] => y \in P) => x \in P
  BY <1>3
<1> HIDE DEF P
<1>5. Expr \subseteq P
  BY <1>4, DepthInduction, TreesAssumption
<1>6. \A x \in NodesOf[e] : NodesOf[x] \subseteq NodesOf[e]
  BY <1>5 DEF P
<1>7. \A x \in NodesOf[e] : \A i \in DOMAIN x.args :
        x.args[i] \in NodesOf[e] /\ NodesOf[x.args[i]] \subseteq NodesOf[x]
  BY <1>1, <1>2, <1>6
<1> QED BY <1>1, <1>6, <1>7

\* What a function on the nodes of a tree is at a node, over what it is at its arguments.
IsNodeStep(e, V, Node) ==
  V # {} /\ \A x \in NodesOf[e] : \A arg \in [DOMAIN x.args -> V] : Node[<<x, arg>>] \in V

IsTreeFunction(f, e, V, Node) ==
  /\ f \in [NodesOf[e] -> V]
  /\ f = [x \in NodesOf[e] |-> Node[<<x, [i \in DOMAIN x.args |-> f[x.args[i]]]>>]]

LEMMA TreeRecursion ==
  ASSUME NEW e \in Expr, NEW V, NEW Node, IsNodeStep(e, V, Node)
  PROVE  \E f : IsTreeFunction(f, e, V, Node)
<1> DEFINE X == NodesOf[e]
           depth == [x \in X |-> Depth[x]]
           Below == [x \in X |-> {x.args[i] : i \in DOMAIN x.args}]
           Args(x, f) == [i \in DOMAIN x.args |-> f[x.args[i]]]
           Step == [p \in X \X [X -> V] |-> Node[<<p[1], Args(p[1], p[2])>>]]
<1>1. X \subseteq Expr /\ \A x \in X : \A i \in DOMAIN x.args : x.args[i] \in X
  BY NodesClosed
<1>2. depth \in [X -> Nat]
  BY <1>1, TreesAssumption
<1>3. \A x \in X : \A i \in DOMAIN x.args : Depth[x.args[i]] < Depth[x]
  BY <1>1, Shapes
<1> HIDE DEF X
<1>4. Below \in [X -> SUBSET X] /\ \A x \in X : \A y \in Below[x] : depth[y] < depth[x]
  BY <1>1, <1>3
<1>5. ASSUME NEW x \in X, NEW f \in [X -> V] PROVE Args(x, f) \in [DOMAIN x.args -> V]
  BY <1>1
<1>6. ASSUME NEW x \in X, NEW f, NEW g, \A y \in Below[x] : f[y] = g[y]
      PROVE  Args(x, f) = Args(x, g)
  <2>1. \A i \in DOMAIN x.args : f[x.args[i]] = g[x.args[i]]
    BY <1>6
  <2> QED BY <2>1
<1> HIDE DEF Args
<1>7. Step \in [X \X [X -> V] -> V]
  <2>1. \A x \in X : \A arg \in [DOMAIN x.args -> V] : Node[<<x, arg>>] \in V
    BY DEF IsNodeStep, X
  <2> QED BY <1>5, <2>1
<1>8. \A x \in X : \A f \in [X -> V] : Step[<<x, f>>] = Node[<<x, Args(x, f)>>]
  OBVIOUS
<1>9. V # {}
  BY DEF IsNodeStep
<1> HIDE DEF Step, Below, depth
<1>10. PICK f \in [X -> V] : f = [x \in X |-> Step[<<x, f>>]]
  <2>1. \A x \in X : \A f, g \in [X -> V] :
          (\A y \in Below[x] : f[y] = g[y]) => Step[<<x, f>>] = Step[<<x, g>>]
    <3> SUFFICES ASSUME NEW x \in X, NEW f \in [X -> V], NEW g \in [X -> V],
                        \A y \in Below[x] : f[y] = g[y]
                 PROVE  Step[<<x, f>>] = Step[<<x, g>>]
      OBVIOUS
    <3>1. Args(x, f) = Args(x, g)
      BY <1>6
    <3> QED BY <1>8, <3>1
  <2>2. IsRecursion(X, V, depth, Below, Step)
    BY <1>2, <1>4, <1>7, <1>9, <2>1 DEF IsRecursion
  <2> QED BY <2>2, RecursionExists
<1>11. f = [x \in X |-> Node[<<x, Args(x, f)>>]]
  <2>1. \A x \in X : f[x] = Node[<<x, Args(x, f)>>]
    BY <1>8, <1>10
  <2> QED BY <2>1
<1>12. IsTreeFunction(f, e, V, Node)
  BY <1>10, <1>11 DEF IsTreeFunction, X, Args
<1> QED BY <1>12

\* What holds of a node when it holds of its arguments holds of all nodes of a tree.
LEMMA TreeInduction ==
  ASSUME NEW e \in Expr, NEW P,
         \A x \in NodesOf[e] : (\A i \in DOMAIN x.args : x.args[i] \in P) => x \in P
  PROVE  NodesOf[e] \subseteq P
<1> DEFINE X == NodesOf[e]
           depth == [x \in X |-> Depth[x]]
<1>1. X \subseteq Expr /\ \A x \in X : \A i \in DOMAIN x.args : x.args[i] \in X
  BY NodesClosed
<1>2. \A x \in X : \A i \in DOMAIN x.args : Depth[x.args[i]] < Depth[x]
  BY <1>1, Shapes
<1> HIDE DEF X
<1>3. depth \in [X -> Nat]
  BY <1>1, TreesAssumption
<1>4. ASSUME NEW x \in X, \A y \in X : depth[y] < depth[x] => y \in P PROVE x \in P
  <2>1. \A i \in DOMAIN x.args : x.args[i] \in P
    BY <1>1, <1>2, <1>4
  <2> QED BY <2>1 DEF X
<1> HIDE DEF depth
<1>5. \A x \in X : (\A y \in X : depth[y] < depth[x] => y \in P) => x \in P
  BY <1>4
<1>6. X \subseteq P
  BY <1>3, <1>5, DepthInduction
<1> QED BY <1>6 DEF X

-----------------------------------------------------------------------------
(* The evaluator.                                                           *)

LEMMA CompareType ==
  ASSUME NEW op, NEW l, NEW r
  PROVE  Compare(op, l, r) \in {Fail, True, False}
BY TruthIsTrueOrFalse DEF Compare

LEMMA InsideType ==
  ASSUME NEW n \in Int
  PROVE  Inside(n) \in EvalValues
BY MakeValues DEF Inside, EvalValues

LEMMA EvalArithmeticType ==
  ASSUME NEW op \in ArithmeticOps, NEW l \in EvalValues, NEW r \in EvalValues
  PROVE  EvalArithmetic(op, l, r) \in EvalValues
<1> DEFINE ints == l.k = "Int" /\ r.k = "Int"
           failed == \/ ~IsNumeric(l) \/ ~IsNumeric(r)
                     \/ op \in {"/", "%"} /\ r.v = 0
                     \/ op = "%" /\ ~ints
           x == Exact(op, l.v, r.v)
           d == ExactDouble(op, AsDouble(l), AsDouble(r))
<1>1. EvalArithmetic(op, l, r) =
        IF failed THEN Fail ELSE IF ints THEN Inside(x) ELSE Value("Dbl", d)
  BY DEF EvalArithmetic
<1>2. l.v \in Int /\ r.v \in Int
  BY EvalValueFacts
<1>3. ~failed => x \in Int /\ d \in Int
  <2> SUFFICES ASSUME ~failed PROVE x \in Int /\ d \in Int
    OBVIOUS
  <2>1. op \in {"/", "%"} => r.v # 0
    OBVIOUS
  <2>2. AsDouble(l) \in Int /\ AsDouble(r) \in Int /\ (r.v # 0 => AsDouble(r) # 0)
    BY <1>2, AsDoubleType
  <2>3. x \in Int
    BY <1>2, <2>1, ExactType
  <2>4. d \in Int
    BY <2>1, <2>2, ExactDoubleType
  <2> QED BY <2>3, <2>4
<1>4. Fail \in EvalValues
  BY DEF EvalValues
<1> HIDE DEF failed, x, d, ints
<1> QED BY <1>1, <1>3, <1>4, InsideType, MakeValues

LEMMA PropagateType ==
  ASSUME NEW S, NEW x
  PROVE  Propagate(S, x) \in {Fail, NullValue, x}
BY DEF Propagate

LEMMA ConstantsAreValues ==
  /\ {Fail, NullValue, True, False} \subseteq EvalValues
  /\ {Error, NullValue, True, False} \subseteq RowValues
BY DEF EvalValues, RowValues

\* EvalNode, some operators at a time.
LEMMA EvalLeaf ==
  ASSUME NEW e \in Expr, NEW arg, NEW columns
  PROVE  /\ e.op = "literal" => EvalNode(e, arg, columns) = e.leaf
         /\ e.op = "column" => EvalNode(e, arg, columns) =
              IF e.leaf \in DOMAIN columns THEN columns[e.leaf] ELSE Fail
         /\ e.op = "opaque" => EvalNode(e, arg, columns) = Fail
<1> USE DEF EvalNode, NullTests, BetweenOps, ComparisonOps, ArithmeticOps
<1>1. e.op = "literal" => EvalNode(e, arg, columns) = e.leaf
  OBVIOUS
<1>2. e.op = "column" => EvalNode(e, arg, columns) =
        IF e.leaf \in DOMAIN columns THEN columns[e.leaf] ELSE Fail
  OBVIOUS
<1>3. e.op = "opaque" => EvalNode(e, arg, columns) = Fail
  OBVIOUS
<1> QED BY <1>1, <1>2, <1>3

LEMMA EvalUnary ==
  ASSUME NEW e \in Expr, NEW arg, NEW columns
  PROVE  /\ e.op = "NOT" => EvalNode(e, arg, columns) = EvalNot(arg[1])
         /\ IsUnaryMinus(e) => EvalNode(e, arg, columns) = EvalMinus(arg[1])
         /\ e.op \in NullTests => EvalNode(e, arg, columns) = EvalIsNull(e.op = "IS NOT NULL", arg[1])
<1> USE DEF EvalNode, NullTests, BetweenOps, ComparisonOps, ArithmeticOps
<1>4. e.op = "NOT" => EvalNode(e, arg, columns) = EvalNot(arg[1])
  OBVIOUS
<1>5. IsUnaryMinus(e) => EvalNode(e, arg, columns) = EvalMinus(arg[1])
  BY DEF IsUnaryMinus
<1>6. e.op \in NullTests => EvalNode(e, arg, columns) = EvalIsNull(e.op = "IS NOT NULL", arg[1])
  OBVIOUS
<1> QED BY <1>4, <1>5, <1>6

LEMMA EvalRange ==
  ASSUME NEW e \in Expr, NEW arg, NEW columns, e.op \in BetweenOps
  PROVE  EvalNode(e, arg, columns) = EvalBetween(e.op = "NOT BETWEEN", arg[1], arg[2], arg[3])
BY DEF EvalNode, NullTests, BetweenOps, ComparisonOps, ArithmeticOps

LEMMA EvalBinary ==
  ASSUME NEW e \in Expr, NEW arg, NEW columns
  PROVE  /\ e.op \in {"AND", "OR"} => EvalNode(e, arg, columns) = EvalLogical(e.op, arg[1], arg[2])
         /\ e.op \in ComparisonOps => EvalNode(e, arg, columns) =
              Propagate({arg[1], arg[2]}, Compare(e.op, arg[1], arg[2]))
         /\ IsBinary(e) => EvalNode(e, arg, columns) =
              Propagate({arg[1], arg[2]}, EvalArithmetic(e.op, arg[1], arg[2]))
<1> USE DEF EvalNode, NullTests, BetweenOps, ComparisonOps, ArithmeticOps
<1>8. e.op \in {"AND", "OR"} => EvalNode(e, arg, columns) = EvalLogical(e.op, arg[1], arg[2])
  OBVIOUS
<1>9. e.op \in ComparisonOps => EvalNode(e, arg, columns) =
        Propagate({arg[1], arg[2]}, Compare(e.op, arg[1], arg[2]))
  OBVIOUS
<1>10. IsBinary(e) => EvalNode(e, arg, columns) =
         Propagate({arg[1], arg[2]}, EvalArithmetic(e.op, arg[1], arg[2]))
  <2>1. 2 \in {1, 2} /\ 2 \notin {1}
    OBVIOUS
  <2>2. IsBinary(e) => DOMAIN e.args # {1}
    BY <2>1 DEF IsBinary
  <2> QED BY <2>2 DEF IsBinary
<1> QED BY <1>8, <1>9, <1>10

LEMMA EvalLogicalType ==
  ASSUME NEW op, NEW l \in EvalValues, NEW r \in EvalValues
  PROVE  EvalLogical(op, l, r) \in {Fail, NullValue, True, False}
BY TruthIsTrueOrFalse DEF EvalLogical, Propagate

LEMMA EvalNodeType ==
  ASSUME NEW e \in Expr, NEW arg \in [DOMAIN e.args -> EvalValues], NEW columns,
         \A c \in DOMAIN columns : columns[c] \in EvalValues
  PROVE  EvalNode(e, arg, columns) \in EvalValues
<1> DEFINE v == EvalNode(e, arg, columns)
<1>1. CASE e.op = "literal"
  <2>1. e.leaf \in LiteralValues
    BY <1>1, TreesAssumption
  <2> QED BY <1>1, <2>1, LiteralsAreValues, EvalLeaf
<1>2. CASE e.op = "column"
  <2>1. v = IF e.leaf \in DOMAIN columns THEN columns[e.leaf] ELSE Fail
    BY <1>2, EvalLeaf
  <2> QED BY <2>1, ConstantsAreValues
<1>3. CASE e.op = "opaque"
  <2>1. v = Fail
    BY <1>3, EvalLeaf
  <2> QED BY <2>1, ConstantsAreValues
<1>4. CASE e.op = "NOT"
  <2>1. v = EvalNot(arg[1])
    BY <1>4, EvalUnary
  <2> QED BY <2>1, TruthIsTrueOrFalse, ConstantsAreValues DEF EvalNot
<1>5. CASE IsUnaryMinus(e)
  <2>1. v = EvalMinus(arg[1]) /\ arg[1] \in EvalValues
    BY <1>5, EvalUnary DEF IsUnaryMinus
  <2> DEFINE n == arg[1].v
  <2>2. n \in Int
    BY <2>1, EvalValueFacts
  <2>3. Inside(-n) \in EvalValues /\ Value("Dbl", -n) \in EvalValues
    <3>1. -n \in Int
      BY <2>2
    <3> QED BY <3>1, InsideType, MakeValues
  <2> QED BY <2>1, <2>3, ConstantsAreValues DEF EvalMinus
<1>6. CASE e.op \in NullTests
  <2>1. v = EvalIsNull(e.op = "IS NOT NULL", arg[1])
    BY <1>6, EvalUnary
  <2> QED BY <2>1, TruthIsTrueOrFalse, ConstantsAreValues DEF EvalIsNull
<1>7. CASE e.op \in BetweenOps
  <2>1. v = EvalBetween(e.op = "NOT BETWEEN", arg[1], arg[2], arg[3])
    BY <1>7, EvalRange
  <2>2. v \in {Fail, NullValue, True, False}
    BY <2>1, TruthIsTrueOrFalse DEF EvalBetween, Propagate
  <2> QED BY <2>2, ConstantsAreValues
<1>8. CASE e.op \in {"AND", "OR"}
  <2>1. v = EvalLogical(e.op, arg[1], arg[2])
    BY <1>8, EvalBinary
  <2>2. arg[1] \in EvalValues /\ arg[2] \in EvalValues
    BY <1>8, Shapes
  <2> QED BY <2>1, <2>2, EvalLogicalType, ConstantsAreValues
<1>9. CASE e.op \in ComparisonOps
  <2>1. v = Propagate({arg[1], arg[2]}, Compare(e.op, arg[1], arg[2]))
    BY <1>9, EvalBinary
  <2> QED BY <2>1, PropagateType, CompareType, ConstantsAreValues
<1>10. CASE IsBinary(e)
  <2>1. v = Propagate({arg[1], arg[2]}, EvalArithmetic(e.op, arg[1], arg[2]))
    BY <1>10, EvalBinary
  <2>2. arg[1] \in EvalValues /\ arg[2] \in EvalValues /\ e.op \in ArithmeticOps
    BY <1>10 DEF IsBinary
  <2>3. EvalArithmetic(e.op, arg[1], arg[2]) \in EvalValues
    BY <2>2, EvalArithmeticType
  <2> QED BY <2>1, <2>3, PropagateType, ConstantsAreValues
<1> QED BY <1>1, <1>2, <1>3, <1>4, <1>5, <1>6, <1>7, <1>8, <1>9, <1>10, Shapes

\* What the evaluator says of every node of a tree.
IsEvaluation(f, e, columns) ==
  /\ f \in [NodesOf[e] -> EvalValues]
  /\ \A x \in NodesOf[e] : f[x] = EvalNode(x, [i \in DOMAIN x.args |-> f[x.args[i]]], columns)
  /\ Evaluated(e, columns) = f[e]

LEMMA EvaluationExists ==
  ASSUME NEW e \in Expr, NEW columns, \A c \in DOMAIN columns : columns[c] \in EvalValues
  PROVE  \E f : IsEvaluation(f, e, columns)
<1> DEFINE X == NodesOf[e]
           Args(x, f) == [i \in DOMAIN x.args |-> f[x.args[i]]]
           Pairs == UNION {{x} \X [DOMAIN x.args -> EvalValues] : x \in X}
           Node == [p \in Pairs |-> EvalNode(p[1], p[2], columns)]
           IsEval(f) == f = [x \in X |-> EvalNode(x, Args(x, f), columns)]
<1>1. X \subseteq Expr /\ \A x \in X : \A i \in DOMAIN x.args : x.args[i] \in X
  BY NodesClosed
<1>2. ASSUME NEW x \in X, NEW arg \in [DOMAIN x.args -> EvalValues]
      PROVE  Node[<<x, arg>>] = EvalNode(x, arg, columns) /\ Node[<<x, arg>>] \in EvalValues
  <2>1. <<x, arg>> \in Pairs
    OBVIOUS
  <2>2. Node[<<x, arg>>] = EvalNode(x, arg, columns)
    BY <2>1
  <2>3. EvalNode(x, arg, columns) \in EvalValues
    BY <1>1, EvalNodeType
  <2> QED BY <2>2, <2>3
<1> HIDE DEF Node
<1>3. IsNodeStep(e, EvalValues, Node)
  BY <1>2, ConstantsAreValues DEF IsNodeStep
<1>4. PICK f \in [X -> EvalValues] : f = [x \in X |-> Node[<<x, Args(x, f)>>]]
  <2>1. PICK f : IsTreeFunction(f, e, EvalValues, Node)
    BY <1>3, TreeRecursion
  <2>2. f \in [X -> EvalValues] /\ f = [x \in X |-> Node[<<x, Args(x, f)>>]]
    BY <2>1 DEF IsTreeFunction
  <2> QED BY <2>2
<1>5. \A x \in X : Args(x, f) \in [DOMAIN x.args -> EvalValues]
  BY <1>1
<1> HIDE DEF Args, X
<1>6. IsEval(f)
  <2>1. \A x \in X : f[x] = EvalNode(x, Args(x, f), columns)
    BY <1>2, <1>4, <1>5
  <2> QED BY <2>1
<1> DEFINE g == CHOOSE g : IsEval(g)
<1>7. IsEval(g)
  BY <1>6
<1>8. Evaluated(e, columns) = g[e]
  BY DEF Evaluated, Args, X
<1>9. g \in [X -> EvalValues]
  <2> DEFINE P == {x \in X : g[x] \in EvalValues}
  <2> HIDE DEF g
  <2>1. \A x \in X : g[x] = EvalNode(x, Args(x, g), columns)
    BY <1>7
  <2>2. ASSUME NEW x \in X, \A i \in DOMAIN x.args : x.args[i] \in P PROVE x \in P
    <3>1. \A i \in DOMAIN x.args : g[x.args[i]] \in EvalValues
      BY <2>2
    <3>2. Args(x, g) \in [DOMAIN x.args -> EvalValues]
      BY <3>1 DEF Args
    <3> QED BY <1>1, <2>1, <3>2, EvalNodeType
  <2>3. X \subseteq P
    <3>1. \A x \in X : (\A i \in DOMAIN x.args : x.args[i] \in P) => x \in P
      BY <2>2
    <3> HIDE DEF P
    <3> QED BY <3>1, TreeInduction DEF X
  <2>4. g = [x \in X |-> g[x]]
    BY <1>7
  <2> QED BY <2>3, <2>4
<1>10. \A x \in X : g[x] = EvalNode(x, Args(x, g), columns)
  <2> HIDE DEF g
  <2> QED BY <1>7
<1> HIDE DEF g
<1> QED BY <1>8, <1>9, <1>10 DEF IsEvaluation, Args, X

-----------------------------------------------------------------------------
(* The engine.                                                              *)

LEMMA StoredType ==
  ASSUME NEW type, NEW x \in RowValues
  PROVE  Stored(type, x) \in RowValues
<1> DEFINE n == (2 * x.v + Unit) \div (2 * Unit)
           v == Stored(type, x)
<1>1. x.v \in Int
  BY RowValueFacts
<1>2. n \in Int
  <2> DEFINE p == 2 * x.v + Unit
             q == 2 * Unit
  <2>1. p \in Int /\ q \in Int /\ q > 0
    BY <1>1, WidthAssumption
  <2> HIDE DEF p, q
  <2>2. p \div q \in Int
    BY <2>1
  <2> QED BY <2>2 DEF p, q
<1>3. Value("Int", n) \in RowValues
  BY <1>2, MakeValues
<1> HIDE DEF n
<1>4. Value("Dbl", AsDouble(x)) \in RowValues
  BY <1>1, AsDoubleType, MakeValues
<1>5. x.v \in DOMAIN InstantOf => Value("Time", InstantOf[x.v]) \in RowValues
  BY InstantsAssumption, MakeValues
<1>6. Truth(x.v \in TrueString) \in RowValues
  BY TruthIsTrueOrFalse, ConstantsAreValues
<1>7. Error \in RowValues
  BY ConstantsAreValues
<1>8. \/ v = x
      \/ v = Value("Dbl", AsDouble(x))
      \/ v = Value("Int", n)
      \/ x.v \in DOMAIN InstantOf /\ v = Value("Time", InstantOf[x.v])
      \/ v = Truth(x.v \in TrueString)
      \/ v = Error
  BY DEF Stored, n
<1> QED BY <1>3, <1>4, <1>5, <1>6, <1>7, <1>8

LEMMA RelatedType ==
  ASSUME NEW op, NEW x, NEW y
  PROVE  Related(op, x, y) \in {Error, NullValue, True, False}
BY TruthIsTrueOrFalse DEF Related, Strict

LEMMA CalculatedType ==
  ASSUME NEW op \in ArithmeticOps, NEW x \in RowValues, NEW y \in RowValues
  PROVE  Calculated(op, x, y) \in RowValues
<1> DEFINE ints == x.k = "Int" /\ y.k = "Int"
           n == Exact(op, x.v, y.v)
           d == ExactDouble(op, AsDouble(x), AsDouble(y))
           v == Calculated(op, x, y)
           exact == IF ints THEN Value("Int", n) ELSE Value("Dbl", d)
           zero == op \in {"/", "%"} /\ y.v = 0
<1>1. \/ v \in {Error, NullValue}
      \/ ~zero /\ v = exact
  BY DEF Calculated, Strict
<1>2. x.v \in Int /\ y.v \in Int
  BY RowValueFacts
<1>3. ~zero => n \in Int /\ d \in Int
  <2> SUFFICES ASSUME ~zero PROVE n \in Int /\ d \in Int
    OBVIOUS
  <2>1. op \in {"/", "%"} => y.v # 0
    OBVIOUS
  <2>2. AsDouble(x) \in Int /\ AsDouble(y) \in Int /\ (y.v # 0 => AsDouble(y) # 0)
    BY <1>2, AsDoubleType
  <2>3. n \in Int
    BY <1>2, <2>1, ExactType
  <2>4. d \in Int
    BY <2>1, <2>2, ExactDoubleType
  <2> QED BY <2>3, <2>4
<1> HIDE DEF zero, n, d, v, ints
<1>4. ~zero => exact \in RowValues
  BY <1>3, MakeValues
<1> QED BY <1>1, <1>4, ConstantsAreValues DEF v

LEMMA NegationType ==
  ASSUME NEW S, NEW x \in S, {True, False} \subseteq S
  PROVE  Negation(x) \in S
BY TruthIsTrueOrFalse DEF Negation

LEMMA ConjunctionType ==
  ASSUME NEW S
  PROVE  Conjunction(S) \in {Error, NullValue, True, False}
BY DEF Conjunction, Strict

LEMMA ValueLeaf ==
  ASSUME NEW e \in Expr, NEW arg, NEW r, NEW outcome
  PROVE  /\ e.op = "literal" => ValueNode(e, arg, r, outcome) = e.leaf
         /\ e.op = "column" => ValueNode(e, arg, r, outcome) =
              IF e.leaf \in DOMAIN r THEN r[e.leaf] ELSE Error
         /\ e.op = "opaque" => ValueNode(e, arg, r, outcome) = outcome
<1> USE DEF ValueNode, ComparisonOps
<1>1. e.op = "literal" => ValueNode(e, arg, r, outcome) = e.leaf
  OBVIOUS
<1>2. e.op = "column" => ValueNode(e, arg, r, outcome) =
        IF e.leaf \in DOMAIN r THEN r[e.leaf] ELSE Error
  OBVIOUS
<1>3. e.op = "opaque" => ValueNode(e, arg, r, outcome) = outcome
  OBVIOUS
<1> QED BY <1>1, <1>2, <1>3

LEMMA ValueUnary ==
  ASSUME NEW e \in Expr, NEW arg, NEW r, NEW outcome
  PROVE  /\ e.op = "NOT" => ValueNode(e, arg, r, outcome) = Negation(AsTruth(arg[1]))
         /\ IsUnaryMinus(e) =>
              ValueNode(e, arg, r, outcome) = Calculated("-", Value("Int", 0), arg[1])
         /\ e.op = "IS NULL" => ValueNode(e, arg, r, outcome) =
              IF arg[1] = Error THEN Error ELSE Truth(arg[1] = NullValue)
         /\ e.op = "IS NOT NULL" => ValueNode(e, arg, r, outcome) =
              IF arg[1] = Error THEN Error ELSE Truth(arg[1] # NullValue)
<1> USE DEF ValueNode, ComparisonOps
<1>1. e.op = "NOT" => ValueNode(e, arg, r, outcome) = Negation(AsTruth(arg[1]))
  OBVIOUS
<1>2. IsUnaryMinus(e) => ValueNode(e, arg, r, outcome) = Calculated("-", Value("Int", 0), arg[1])
  BY DEF IsUnaryMinus
<1>3. e.op = "IS NULL" => ValueNode(e, arg, r, outcome) =
        IF arg[1] = Error THEN Error ELSE Truth(arg[1] = NullValue)
  OBVIOUS
<1>4. e.op = "IS NOT NULL" => ValueNode(e, arg, r, outcome) =
        IF arg[1] = Error THEN Error ELSE Truth(arg[1] # NullValue)
  OBVIOUS
<1> QED BY <1>1, <1>2, <1>3, <1>4

LEMMA ValueRange ==
  ASSUME NEW e \in Expr, NEW arg, NEW r, NEW outcome, e.op \in BetweenOps
  PROVE  LET between == Conjunction({Related(">=", arg[1], arg[2]), Related("<=", arg[1], arg[3])})
         IN ValueNode(e, arg, r, outcome) =
              IF e.op = "BETWEEN" THEN between ELSE Negation(between)
BY DEF ValueNode, BetweenOps, ComparisonOps

LEMMA ValueBinary ==
  ASSUME NEW e \in Expr, NEW arg, NEW r, NEW outcome
  PROVE  /\ e.op = "AND" => ValueNode(e, arg, r, outcome) =
              Conjunction({AsTruth(arg[1]), AsTruth(arg[2])})
         /\ e.op = "OR" => ValueNode(e, arg, r, outcome) =
              Negation(Conjunction({Negation(AsTruth(arg[1])), Negation(AsTruth(arg[2]))}))
         /\ e.op \in ComparisonOps => ValueNode(e, arg, r, outcome) = Related(e.op, arg[1], arg[2])
         /\ IsBinary(e) => ValueNode(e, arg, r, outcome) = Calculated(e.op, arg[1], arg[2])
<1> USE DEF ValueNode, ComparisonOps, ArithmeticOps
<1>1. e.op = "AND" => ValueNode(e, arg, r, outcome) =
        Conjunction({AsTruth(arg[1]), AsTruth(arg[2])})
  OBVIOUS
<1>2. e.op = "OR" => ValueNode(e, arg, r, outcome) =
        Negation(Conjunction({Negation(AsTruth(arg[1])), Negation(AsTruth(arg[2]))}))
  OBVIOUS
<1>3. e.op \in ComparisonOps => ValueNode(e, arg, r, outcome) = Related(e.op, arg[1], arg[2])
  OBVIOUS
<1>4. IsBinary(e) => ValueNode(e, arg, r, outcome) = Calculated(e.op, arg[1], arg[2])
  <2>1. 2 \in {1, 2} /\ 2 \notin {1}
    OBVIOUS
  <2>2. IsBinary(e) => DOMAIN e.args # {1}
    BY <2>1 DEF IsBinary
  <2> QED BY <2>2 DEF IsBinary
<1> QED BY <1>1, <1>2, <1>3, <1>4

LEMMA ValueNodeType ==
  ASSUME NEW e \in Expr, NEW arg \in [DOMAIN e.args -> RowValues], NEW r, NEW outcome \in RowValues,
         \A c \in DOMAIN r : r[c] \in RowValues
  PROVE  ValueNode(e, arg, r, outcome) \in RowValues
<1> DEFINE v == ValueNode(e, arg, r, outcome)
<1> USE ConstantsAreValues
<1>1. CASE e.op = "literal"
  <2>1. e.leaf \in LiteralValues
    BY <1>1, TreesAssumption
  <2> QED BY <1>1, <2>1, LiteralsAreValues, ValueLeaf
<1>2. CASE e.op = "column"
  <2>1. v = IF e.leaf \in DOMAIN r THEN r[e.leaf] ELSE Error
    BY <1>2, ValueLeaf
  <2> QED BY <2>1
<1>3. CASE e.op = "opaque"
  BY <1>3, ValueLeaf
<1>4. CASE e.op = "NOT"
  <2>1. v = Negation(AsTruth(arg[1]))
    BY <1>4, ValueUnary
  <2>2. arg[1] \in RowValues
    BY <1>4, Shapes
  <2>3. AsTruth(arg[1]) \in RowValues
    BY <2>2, StoredType DEF AsTruth
  <2> QED BY <2>1, <2>3, NegationType
<1>5. CASE IsUnaryMinus(e)
  <2>1. v = Calculated("-", Value("Int", 0), arg[1])
    BY <1>5, ValueUnary
  <2>2. arg[1] \in RowValues
    BY <1>5 DEF IsUnaryMinus
  <2>3. Value("Int", 0) \in RowValues /\ "-" \in ArithmeticOps
    BY MakeValues DEF ArithmeticOps
  <2> QED BY <2>1, <2>2, <2>3, CalculatedType
<1>6. CASE e.op \in NullTests
  <2>1. v \in {Error, Truth(arg[1] = NullValue), Truth(arg[1] # NullValue)}
    BY <1>6, ValueUnary DEF NullTests
  <2> QED BY <2>1, TruthIsTrueOrFalse
<1>7. CASE e.op \in BetweenOps
  <2> DEFINE w == Conjunction({Related(">=", arg[1], arg[2]), Related("<=", arg[1], arg[3])})
  <2>1. v = IF e.op = "BETWEEN" THEN w ELSE Negation(w)
    BY <1>7, ValueRange
  <2>2. w \in RowValues
    BY ConjunctionType
  <2> HIDE DEF w
  <2> QED BY <2>1, <2>2, NegationType
<1>8. CASE e.op = "AND"
  <2>1. v = Conjunction({AsTruth(arg[1]), AsTruth(arg[2])})
    BY <1>8, ValueBinary
  <2> QED BY <2>1, ConjunctionType
<1>9. CASE e.op = "OR"
  <2> DEFINE w == Conjunction({Negation(AsTruth(arg[1])), Negation(AsTruth(arg[2]))})
  <2>1. v = Negation(w)
    BY <1>9, ValueBinary
  <2>2. w \in RowValues
    BY ConjunctionType
  <2> HIDE DEF w
  <2> QED BY <2>1, <2>2, NegationType
<1>10. CASE e.op \in ComparisonOps
  <2>1. v = Related(e.op, arg[1], arg[2])
    BY <1>10, ValueBinary
  <2> QED BY <2>1, RelatedType
<1>11. CASE IsBinary(e)
  <2>1. v = Calculated(e.op, arg[1], arg[2])
    BY <1>11, ValueBinary
  <2>2. arg[1] \in RowValues /\ arg[2] \in RowValues /\ e.op \in ArithmeticOps
    BY <1>11 DEF IsBinary
  <2> QED BY <2>1, <2>2, CalculatedType
<1> QED BY <1>1, <1>2, <1>3, <1>4, <1>5, <1>6, <1>7, <1>8, <1>9, <1>10, <1>11, Shapes

\* What the engine computes at every node of a tree.
IsValuation(g, e, r, outcome) ==
  /\ g \in [NodesOf[e] -> RowValues]
  /\ \A x \in NodesOf[e] :
       g[x] = ValueNode(x, [i \in DOMAIN x.args |-> g[x.args[i]]], r, outcome)
  /\ ValueIn(e, r, outcome) = g[e]

LEMMA ValuationExists ==
  ASSUME NEW e \in Expr, NEW r, NEW outcome \in RowValues,
         \A c \in DOMAIN r : r[c] \in RowValues
  PROVE  \E g : IsValuation(g, e, r, outcome)
<1> DEFINE X == NodesOf[e]
           Args(x, f) == [i \in DOMAIN x.args |-> f[x.args[i]]]
           Pairs == UNION {{x} \X [DOMAIN x.args -> RowValues] : x \in X}
           Node == [p \in Pairs |-> ValueNode(p[1], p[2], r, outcome)]
           IsEval(f) == f = [x \in X |-> ValueNode(x, Args(x, f), r, outcome)]
<1>1. X \subseteq Expr /\ \A x \in X : \A i \in DOMAIN x.args : x.args[i] \in X
  BY NodesClosed
<1>2. ASSUME NEW x \in X, NEW arg \in [DOMAIN x.args -> RowValues]
      PROVE  Node[<<x, arg>>] = ValueNode(x, arg, r, outcome) /\ Node[<<x, arg>>] \in RowValues
  <2>1. <<x, arg>> \in Pairs
    OBVIOUS
  <2>2. Node[<<x, arg>>] = ValueNode(x, arg, r, outcome)
    BY <2>1
  <2>3. ValueNode(x, arg, r, outcome) \in RowValues
    BY <1>1, ValueNodeType
  <2> QED BY <2>2, <2>3
<1> HIDE DEF Node
<1>3. IsNodeStep(e, RowValues, Node)
  BY <1>2, ConstantsAreValues DEF IsNodeStep
<1>4. PICK f \in [X -> RowValues] : f = [x \in X |-> Node[<<x, Args(x, f)>>]]
  <2>1. PICK f : IsTreeFunction(f, e, RowValues, Node)
    BY <1>3, TreeRecursion
  <2>2. f \in [X -> RowValues] /\ f = [x \in X |-> Node[<<x, Args(x, f)>>]]
    BY <2>1 DEF IsTreeFunction
  <2> QED BY <2>2
<1>5. \A x \in X : Args(x, f) \in [DOMAIN x.args -> RowValues]
  BY <1>1
<1> HIDE DEF Args, X
<1>6. IsEval(f)
  <2>1. \A x \in X : f[x] = ValueNode(x, Args(x, f), r, outcome)
    BY <1>2, <1>4, <1>5
  <2> QED BY <2>1
<1> DEFINE g == CHOOSE g : IsEval(g)
<1>7. IsEval(g)
  BY <1>6
<1>8. ValueIn(e, r, outcome) = g[e]
  BY DEF ValueIn, Args, X
<1>9. g \in [X -> RowValues]
  <2> DEFINE P == {x \in X : g[x] \in RowValues}
  <2> HIDE DEF g
  <2>1. \A x \in X : g[x] = ValueNode(x, Args(x, g), r, outcome)
    BY <1>7
  <2>2. ASSUME NEW x \in X, \A i \in DOMAIN x.args : x.args[i] \in P PROVE x \in P
    <3>1. \A i \in DOMAIN x.args : g[x.args[i]] \in RowValues
      BY <2>2
    <3>2. Args(x, g) \in [DOMAIN x.args -> RowValues]
      BY <3>1 DEF Args
    <3> QED BY <1>1, <2>1, <3>2, ValueNodeType
  <2>3. X \subseteq P
    <3>1. \A x \in X : (\A i \in DOMAIN x.args : x.args[i] \in P) => x \in P
      BY <2>2
    <3> HIDE DEF P
    <3> QED BY <3>1, TreeInduction DEF X
  <2>4. g = [x \in X |-> g[x]]
    BY <1>7
  <2> QED BY <2>3, <2>4
<1>10. \A x \in X : g[x] = ValueNode(x, Args(x, g), r, outcome)
  <2> HIDE DEF g
  <2> QED BY <1>7
<1> HIDE DEF g
<1> QED BY <1>8, <1>9, <1>10 DEF IsValuation, Args, X

-----------------------------------------------------------------------------
(* What the evaluator folds is what the engine computes.                    *)

\* `p` is the value the evaluator gives where the engine has `q`.
UpToNull(p, q)    == p \in {Fail, NullValue} \/ q = p
Convertible(p, q) == UpToNull(p, q) \/ (p.k = "Str" /\ q.k = "Bool")
NullKept(p, q)    == p = NullValue => q = NullValue

\* The result `p` of the evaluator from `l` and `r`, and `q` of the engine from `x` and `y`.
ResultSound(l, x, r, y, p, q) ==
  UpToNull(p, q) /\ (NullKept(l, x) /\ NullKept(r, y) => NullKept(p, q))

LEMMA FailIsSound ==
  ASSUME NEW l, NEW r, NEW x, NEW y, NEW p, NEW q, p = Fail
  PROVE  ResultSound(l, x, r, y, p, q)
BY TruthOf DEF ResultSound, UpToNull, NullKept

LEMMA EqualIsSound ==
  ASSUME NEW l, NEW r, NEW x, NEW y, NEW p, NEW q, q = p
  PROVE  ResultSound(l, x, r, y, p, q)
BY DEF ResultSound, UpToNull, NullKept

LEMMA PropagateCases ==
  ASSUME NEW l, NEW r, NEW v
  PROVE  /\ l = Fail \/ r = Fail => Propagate({l, r}, v) = Fail
         /\ l # Fail /\ r # Fail /\ (l = NullValue \/ r = NullValue) => Propagate({l, r}, v) = NullValue
         /\ l # Fail /\ r # Fail /\ l # NullValue /\ r # NullValue => Propagate({l, r}, v) = v
BY DEF Propagate

LEMMA StrictCases ==
  ASSUME NEW x, NEW y, NEW v
  PROVE  /\ x = Error \/ y = Error => Strict({x, y}, v) = Error
         /\ x # Error /\ y # Error /\ (x = NullValue \/ y = NullValue) => Strict({x, y}, v) = NullValue
         /\ x # Error /\ y # Error /\ x # NullValue /\ y # NullValue => Strict({x, y}, v) = v
BY DEF Strict

\* A value that is neither Fail nor NULL is a value of the engine, and no error.
LEMMA FoldedValue ==
  ASSUME NEW p \in EvalValues, p # Fail
  PROVE  /\ p \in RowValues /\ p # Error
         /\ p.k \in {"Null", "Bool", "Int", "Dbl", "Str"}
         /\ p.k = "Null" <=> p = NullValue
<1>1. p.k # "Fail" /\ p.k \in {"Fail", "Null", "Bool", "Int", "Dbl", "Str"}
  BY EvalValueFacts
<1>2. p # Error
  BY <1>1, TruthOf
<1> QED BY <1>1, <1>2, EvalValueFacts, SharedValues

LEMMA CommonKind ==
  ASSUME NEW l, NEW r
  PROVE  /\ l.k = r.k /\ l.k \in {"Int", "Dbl", "Str", "Bool"} => Common(l, r) = l.k
         /\ l.k = "Int" /\ r.k = "Dbl" => Common(l, r) = "Dbl"
         /\ l.k = "Dbl" /\ r.k = "Int" => Common(l, r) = "Dbl"
<1> DEFINE Fits(k) == (k # "Str" \/ {l.k, r.k} = {"Str"}) /\ (k # "Int" \/ {l.k, r.k} = {"Int"})
<1>1. Common(l, r) = CHOOSE k \in {l.k, r.k} : Fits(k)
  BY DEF Common
<1>2. ASSUME l.k = r.k, l.k \in {"Int", "Dbl", "Str", "Bool"} PROVE Common(l, r) = l.k
  <2>1. {l.k, r.k} = {l.k}
    BY <1>2
  <2>2. Fits(l.k)
    BY <1>2
  <2> HIDE DEF Fits
  <2> QED BY <1>1, <2>1, <2>2
<1>3. ASSUME {l.k, r.k} = {"Int", "Dbl"} PROVE Common(l, r) = "Dbl"
  <2>1. Fits("Dbl") /\ ~Fits("Int")
    <3>1. {l.k, r.k} # {"Int"}
      BY <1>3
    <3> QED BY <3>1
  <2> HIDE DEF Fits
  <2> QED BY <1>1, <1>3, <2>1
<1> QED BY <1>2, <1>3

\* Two values that the evaluator compares.
LEMMA ComparedAlike ==
  ASSUME NEW op, NEW l \in EvalValues, NEW r \in EvalValues, Compare(op, l, r) # Fail
  PROVE  /\ l # Fail /\ r # Fail /\ l # NullValue /\ r # NullValue
         /\ Related(op, l, r) = Compare(op, l, r)
<1> DEFINE same == l.k = r.k /\ l.k \in {"Int", "Dbl", "Str", "Bool"}
           mixed == {l.k, r.k} = {"Int", "Dbl"}
<1>1. same \/ mixed
  <2>1. same \/ (IsNumeric(l) /\ IsNumeric(r))
    BY DEF Compare
  <2> QED BY <2>1 DEF IsNumeric
<1>2. l.k \in {"Int", "Dbl", "Str", "Bool"} /\ r.k \in {"Int", "Dbl", "Str", "Bool"}
  BY <1>1
<1>3. l # Fail /\ r # Fail /\ l # NullValue /\ r # NullValue
  BY <1>2, TruthOf
<1>4. l # Error /\ r # Error
  BY <1>2, TruthOf
<1> DEFINE kind == Common(l, r)
           left == Stored(kind, l)
           right == Stored(kind, r)
<1>5. Error \notin {left, right} => Related(op, l, r) = Truth(Holds(op, left.v, right.v))
  <2>1. Related(op, l, r) = Strict({l, r}, IF Error \in {left, right} THEN Error
                                              ELSE Truth(Holds(op, left.v, right.v)))
    BY DEF Related
  <2> QED BY <1>3, <1>4, <2>1, StrictCases
<1>6. CASE same
  <2>1. kind = l.k
    BY <1>6, CommonKind
  <2>2. left = l /\ right = r
    BY <1>6, <2>1 DEF Stored
  <2>3. Compare(op, l, r) = Truth(Holds(op, l.v, r.v))
    BY <1>6 DEF Compare
  <2> HIDE DEF left, right, kind
  <2> QED BY <1>3, <1>4, <1>5, <2>2, <2>3
<1>7. CASE mixed /\ ~same
  <2>1. (l.k = "Int" /\ r.k = "Dbl") \/ (l.k = "Dbl" /\ r.k = "Int")
    BY <1>7
  <2>2. kind = "Dbl"
    BY <2>1, CommonKind
  <2>3. Compare(op, l, r) = Truth(Holds(op, AsDouble(l), AsDouble(r)))
    BY <1>7, <2>1 DEF Compare, IsNumeric
  <2>4. \A v \in {l, r} : Stored("Dbl", v).v = AsDouble(v) /\ Stored("Dbl", v).k = "Dbl"
    <3> SUFFICES ASSUME NEW v \in {l, r}
                 PROVE  Stored("Dbl", v).v = AsDouble(v) /\ Stored("Dbl", v).k = "Dbl"
      OBVIOUS
    <3>1. CASE v.k = "Dbl"
      BY <3>1 DEF Stored, AsDouble
    <3>2. CASE v.k = "Int"
      <4>1. Stored("Dbl", v) = Value("Dbl", AsDouble(v))
        BY <3>2 DEF Stored
      <4> QED BY <4>1 DEF Value
    <3> QED BY <2>1, <3>1, <3>2
  <2>5. left.v = AsDouble(l) /\ right.v = AsDouble(r) /\ left.k = "Dbl" /\ right.k = "Dbl"
    BY <2>2, <2>4
  <2>6. Error \notin {left, right}
    BY <2>5, TruthOf
  <2> HIDE DEF left, right, kind
  <2> QED BY <1>3, <1>5, <2>3, <2>5, <2>6
<1> HIDE DEF left, right, kind
<1> QED BY <1>1, <1>6, <1>7

LEMMA CompareSound ==
  ASSUME NEW op, NEW l \in EvalValues, NEW r \in EvalValues, NEW x \in RowValues, NEW y \in RowValues,
         UpToNull(l, x), UpToNull(r, y)
  PROVE  ResultSound(l, x, r, y, Propagate({l, r}, Compare(op, l, r)), Related(op, x, y))
<1> DEFINE v == Compare(op, l, r)
           p == Propagate({l, r}, v)
           q == Related(op, x, y)
<1> SUFFICES ResultSound(l, x, r, y, p, q)
  OBVIOUS
<1>1. CASE l = Fail \/ r = Fail
  <2> HIDE DEF v, q
  <2>1. p = Fail
    BY <1>1, PropagateCases
  <2> HIDE DEF p
  <2> QED BY <2>1, FailIsSound
<1>2. CASE l # Fail /\ r # Fail /\ (l = NullValue \/ r = NullValue)
  <2>1. p = NullValue
    <3> HIDE DEF v
    <3> QED BY <1>2, PropagateCases
  <2>2. ASSUME NullKept(l, x), NullKept(r, y) PROVE q = NullValue
    <3>1. x = l /\ y = r
      BY <1>2, <2>2 DEF NullKept, UpToNull
    <3>2. x # Error /\ y # Error /\ (x = NullValue \/ y = NullValue)
      BY <1>2, <3>1, FoldedValue
    <3>3. \A w : Strict({x, y}, w) = NullValue
      BY <3>2, StrictCases
    <3> QED BY <3>3 DEF Related
  <2> HIDE DEF p, q
  <2> QED BY <2>1, <2>2 DEF UpToNull, NullKept, ResultSound
<1>3. CASE l # Fail /\ r # Fail /\ l # NullValue /\ r # NullValue
  <2>1. p = v
    <3> HIDE DEF v
    <3> QED BY <1>3, PropagateCases
  <2>2. x = l /\ y = r
    BY <1>3 DEF UpToNull
  <2>3. v = Fail \/ q = v
    BY <2>2, ComparedAlike
  <2> HIDE DEF p, q, v
  <2> QED BY <2>1, <2>3, FailIsSound, EqualIsSound
<1> QED BY <1>1, <1>2, <1>3

LEMMA InsideCases ==
  ASSUME NEW n
  PROVE  /\ n \in Int64 => Inside(n) = Value("Int", n)
         /\ n \notin Int64 => Inside(n) = Fail
BY DEF Inside

\* Two values that the evaluator calculates with.
LEMMA CalculatedAlike ==
  ASSUME NEW op \in ArithmeticOps, NEW l \in EvalValues, NEW r \in EvalValues,
         EvalArithmetic(op, l, r) # Fail
  PROVE  /\ l # Fail /\ r # Fail /\ l # NullValue /\ r # NullValue
         /\ Calculated(op, l, r) = EvalArithmetic(op, l, r)
<1> DEFINE ints == l.k = "Int" /\ r.k = "Int"
           n == Exact(op, l.v, r.v)
           d == ExactDouble(op, AsDouble(l), AsDouble(r))
           exact == IF ints THEN Value("Int", n) ELSE Value("Dbl", d)
           zero == op \in {"/", "%"} /\ r.v = 0
<1>1. IsNumeric(l) /\ IsNumeric(r) /\ ~zero
  BY DEF EvalArithmetic
<1>2. EvalArithmetic(op, l, r) = IF ints THEN Inside(n) ELSE Value("Dbl", d)
  BY DEF EvalArithmetic
<1>3. l.k \in {"Int", "Dbl"} /\ r.k \in {"Int", "Dbl"}
  BY <1>1 DEF IsNumeric
<1>4. /\ l # Fail /\ r # Fail /\ l # NullValue /\ r # NullValue
      /\ l # Error /\ r # Error
  BY <1>3, TruthOf
<1>5. Calculated(op, l, r) =
        Strict({l, r}, IF zero THEN Error ELSE IF ints /\ exact.v \notin Int64 THEN Error ELSE exact)
  BY DEF Calculated
<1>6. Calculated(op, l, r) = IF ints /\ exact.v \notin Int64 THEN Error ELSE exact
  BY <1>1, <1>4, <1>5, StrictCases
<1> HIDE DEF n, d, zero
<1>7. CASE ints
  <2>1. n \in Int64 /\ Inside(n) = Value("Int", n)
    BY <1>2, <1>7, InsideCases
  <2>2. exact = Value("Int", n) /\ exact.v = n
    BY <1>7 DEF Value
  <2> QED BY <1>2, <1>4, <1>6, <1>7, <2>1, <2>2
<1>8. CASE ~ints
  BY <1>2, <1>4, <1>6, <1>8
<1> QED BY <1>7, <1>8

LEMMA ArithmeticSound ==
  ASSUME NEW op \in ArithmeticOps, NEW l \in EvalValues, NEW r \in EvalValues,
         NEW x \in RowValues, NEW y \in RowValues,
         UpToNull(l, x), UpToNull(r, y)
  PROVE  ResultSound(l, x, r, y, Propagate({l, r}, EvalArithmetic(op, l, r)), Calculated(op, x, y))
<1> DEFINE v == EvalArithmetic(op, l, r)
           p == Propagate({l, r}, v)
           q == Calculated(op, x, y)
<1> SUFFICES ResultSound(l, x, r, y, p, q)
  OBVIOUS
<1>1. CASE l = Fail \/ r = Fail
  <2> HIDE DEF v, q
  <2>1. p = Fail
    BY <1>1, PropagateCases
  <2> HIDE DEF p
  <2> QED BY <2>1, FailIsSound
<1>2. CASE l # Fail /\ r # Fail /\ (l = NullValue \/ r = NullValue)
  <2>1. p = NullValue
    <3> HIDE DEF v
    <3> QED BY <1>2, PropagateCases
  <2>2. ASSUME NullKept(l, x), NullKept(r, y) PROVE q = NullValue
    <3>1. x = l /\ y = r
      BY <1>2, <2>2 DEF NullKept, UpToNull
    <3>2. x # Error /\ y # Error /\ (x = NullValue \/ y = NullValue)
      BY <1>2, <3>1, FoldedValue
    <3>3. \A w : Strict({x, y}, w) = NullValue
      BY <3>2, StrictCases
    <3> QED BY <3>3 DEF Calculated
  <2> HIDE DEF p, q
  <2> QED BY <2>1, <2>2 DEF UpToNull, NullKept, ResultSound
<1>3. CASE l # Fail /\ r # Fail /\ l # NullValue /\ r # NullValue
  <2>1. p = v
    <3> HIDE DEF v
    <3> QED BY <1>3, PropagateCases
  <2>2. x = l /\ y = r
    BY <1>3 DEF UpToNull
  <2>3. v = Fail \/ q = v
    BY <2>2, CalculatedAlike
  <2> HIDE DEF p, q, v
  <2> QED BY <2>1, <2>3, FailIsSound, EqualIsSound
<1> QED BY <1>1, <1>2, <1>3

LEMMA MinusSound ==
  ASSUME NEW l \in EvalValues, NEW x \in RowValues, UpToNull(l, x)
  PROVE  ResultSound(l, x, l, x, EvalMinus(l), Calculated("-", Value("Int", 0), x))
<1> DEFINE p == EvalMinus(l)
           zero == Value("Int", 0)
           q == Calculated("-", zero, x)
<1> SUFFICES ResultSound(l, x, l, x, p, q)
  OBVIOUS
<1>1. zero # Error /\ zero # NullValue /\ zero # Fail /\ zero.k = "Int" /\ zero.v = 0
  BY DEF Value, Error, NullValue, Fail
<1>2. l.v \in Int
  BY EvalValueFacts
<1>3. CASE l.k = "Null"
  <2>1. p = NullValue /\ l = NullValue
    BY <1>3, FoldedValue, TruthOf DEF EvalMinus
  <2>2. ASSUME NullKept(l, x) PROVE q = NullValue
    <3>1. x = NullValue
      BY <2>1, <2>2 DEF NullKept
    <3> HIDE DEF zero
    <3>2. \A w : Strict({zero, x}, w) = NullValue
      BY <1>1, <3>1, StrictCases, TruthOf
    <3> QED BY <3>2 DEF Calculated
  <2> HIDE DEF p, q
  <2> QED BY <2>1, <2>2 DEF UpToNull, NullKept, ResultSound
<1>4. CASE l.k \in {"Int", "Dbl"}
  <2>1. x = l /\ x # Error /\ x # NullValue
    BY <1>4, TruthOf DEF UpToNull
  <2> DEFINE exact == IF x.k = "Int" THEN Value("Int", Exact("-", 0, x.v))
                      ELSE Value("Dbl", ExactDouble("-", AsDouble(zero), AsDouble(x)))
             checked == IF x.k = "Int" /\ exact.v \notin Int64 THEN Error ELSE exact
  <2>2. q = Strict({zero, x}, checked)
    BY <1>1 DEF Calculated
  <2>3. q = checked
    <3> HIDE DEF zero, checked, q
    <3> QED BY <1>1, <2>1, <2>2, StrictCases
  <2>4. CASE l.k = "Int"
    <3>1. p = Inside(-l.v)
      BY <2>4 DEF EvalMinus
    <3>2. Exact("-", 0, l.v) = -l.v
      BY <1>2 DEF Exact
    <3>3. exact = Value("Int", -l.v) /\ exact.v = -l.v
      BY <2>1, <2>4, <3>2 DEF Value
    <3>4. q = IF -l.v \notin Int64 THEN Error ELSE Value("Int", -l.v)
      BY <2>1, <2>3, <2>4, <3>3
    <3>5. p = Fail \/ q = p
      BY <3>1, <3>4, InsideCases
    <3> HIDE DEF p, q
    <3> QED BY <3>5, FailIsSound, EqualIsSound
  <2>5. CASE l.k = "Dbl"
    <3>1. p = Value("Dbl", -l.v)
      BY <2>5 DEF EvalMinus
    <3>2. AsDouble(zero) = 0
      BY <1>1, WidthAssumption DEF AsDouble
    <3>3. AsDouble(x) = l.v
      BY <2>1, <2>5 DEF AsDouble
    <3>4. ExactDouble("-", 0, l.v) = -l.v
      BY <1>2 DEF ExactDouble, Exact
    <3>5. exact = Value("Dbl", -l.v)
      BY <2>1, <2>5, <3>2, <3>3, <3>4
    <3>6. q = Value("Dbl", -l.v)
      BY <2>1, <2>3, <2>5, <3>5
    <3> HIDE DEF p, q
    <3> QED BY <3>1, <3>6, EqualIsSound
  <2> QED BY <1>4, <2>4, <2>5
<1>5. CASE l.k \notin {"Null", "Int", "Dbl"}
  <2>1. p = Fail
    BY <1>5 DEF EvalMinus
  <2> HIDE DEF p, q
  <2> QED BY <2>1, FailIsSound
<1> QED BY <1>3, <1>4, <1>5

\* The truth of a condition, or of its negation.
LEMMA TruthNegated ==
  ASSUME NEW a \in BOOLEAN, NEW n \in BOOLEAN
  PROVE  Truth(a # n) = IF n THEN Truth(~a) ELSE Truth(a)
<1>1. CASE n
  <2>1. (a # n) = ~a
    BY <1>1, Zenon
  <2> QED BY <1>1, <2>1
<1>2. CASE ~n
  <2>1. (a # n) = a
    BY <1>2, Zenon
  <2> QED BY <1>2, <2>1
<1> QED BY <1>1, <1>2

LEMMA ConjunctionCases ==
  ASSUME NEW x, NEW y
  PROVE  /\ x = False \/ y = False => Conjunction({x, y}) = False
         /\ x = True /\ y = True => Conjunction({x, y}) = True
         /\ /\ x # False /\ y # False /\ x # Error /\ y # Error
            /\ x = NullValue \/ y = NullValue
            => Conjunction({x, y}) = NullValue
<1>1. x = False \/ y = False => Conjunction({x, y}) = False
  BY DEF Conjunction
<1>2. x # False /\ y # False => Conjunction({x, y}) = Strict({x, y}, True)
  BY DEF Conjunction
<1>3. ASSUME x = True, y = True PROVE Conjunction({x, y}) = True
  <2>1. x # False /\ y # False /\ x # Error /\ y # Error /\ x # NullValue /\ y # NullValue
    BY <1>3, TruthOf
  <2>2. Strict({x, y}, True) = True
    BY <2>1, StrictCases
  <2> QED BY <1>2, <2>1, <2>2
<1>4. ASSUME x # False, y # False, x # Error, y # Error, x = NullValue \/ y = NullValue
      PROVE  Conjunction({x, y}) = NullValue
  <2>1. Strict({x, y}, True) = NullValue
    BY <1>4, StrictCases
  <2> QED BY <1>2, <1>4, <2>1
<1> QED BY <1>1, <1>3, <1>4

LEMMA NegationOf ==
  /\ Negation(True) = False /\ Negation(False) = True /\ Negation(NullValue) = NullValue
BY TruthOf DEF Negation

EvalRanged(op, l, low, high) == EvalBetween(op = "NOT BETWEEN", l, low, high)

\* The engine's BETWEEN.
Within(x, y, z) == Conjunction({Related(">=", x, y), Related("<=", x, z)})

Ranged(op, x, y, z) == IF op = "BETWEEN" THEN Within(x, y, z) ELSE Negation(Within(x, y, z))

\* Between two values that the evaluator compares.
LEMMA BetweenAlike ==
  ASSUME NEW op \in BetweenOps, NEW l \in EvalValues, NEW low \in EvalValues, NEW high \in EvalValues,
         EvalRanged(op, l, low, high) \notin {Fail, NullValue}
  PROVE  /\ Fail \notin {l, low, high} /\ NullValue \notin {l, low, high}
         /\ EvalRanged(op, l, low, high) = Ranged(op, l, low, high)
<1> DEFINE ge == Compare(">=", l, low)
           le == Compare("<=", l, high)
           n == op = "NOT BETWEEN"
           both == ge = True /\ le = True
           v == EvalRanged(op, l, low, high)
           w == Within(l, low, high)
<1>1. v = Propagate({l, low, high}, IF Fail \in {ge, le} THEN Fail ELSE Truth(both # n))
  BY DEF EvalRanged, EvalBetween
<1>2. Fail \notin {l, low, high} /\ NullValue \notin {l, low, high}
  BY <1>1 DEF Propagate
<1>3. Fail \notin {ge, le} /\ v = Truth(both # n)
  BY <1>1, <1>2 DEF Propagate
<1>4. ge \in {True, False} /\ le \in {True, False}
  BY <1>3, CompareType
<1>5. Related(">=", l, low) = ge /\ Related("<=", l, high) = le
  BY <1>3, ComparedAlike
<1> HIDE DEF ge, le
<1>6. w = IF both THEN True ELSE False
  BY <1>4, <1>5, ConjunctionCases DEF Within
<1>7. both \in BOOLEAN /\ n \in BOOLEAN
  OBVIOUS
<1>8. v = IF n THEN Truth(~both) ELSE Truth(both)
  BY <1>3, <1>7, TruthNegated
<1>9. CASE both
  <2>1. v = IF n THEN False ELSE True
    BY <1>8, <1>9, TruthOf
  <2> HIDE DEF v, w
  <2> QED BY <1>2, <1>6, <1>9, <2>1, NegationOf DEF BetweenOps, Ranged, v, w
<1>10. CASE ~both
  <2>1. v = IF n THEN True ELSE False
    BY <1>8, <1>10, TruthOf
  <2> HIDE DEF v, w
  <2> QED BY <1>2, <1>6, <1>10, <2>1, NegationOf DEF BetweenOps, Ranged, v, w
<1> QED BY <1>9, <1>10

LEMMA BetweenSound ==
  ASSUME NEW op \in BetweenOps, NEW l \in EvalValues, NEW low \in EvalValues, NEW high \in EvalValues,
         NEW x, NEW y, NEW z,
         UpToNull(l, x), UpToNull(low, y), UpToNull(high, z)
  PROVE  UpToNull(EvalRanged(op, l, low, high), Ranged(op, x, y, z))
<1> DEFINE p == EvalRanged(op, l, low, high)
           q == Ranged(op, x, y, z)
<1> SUFFICES ASSUME p \notin {Fail, NullValue} PROVE q = p
  BY DEF UpToNull
<1>1. Fail \notin {l, low, high} /\ NullValue \notin {l, low, high}
  BY BetweenAlike
<1>2. x = l /\ y = low /\ z = high
  BY <1>1 DEF UpToNull
<1>3. p = Ranged(op, l, low, high)
  BY BetweenAlike
<1> QED BY <1>2, <1>3

\* A truth value is itself when it is read as one.
LEMMA AsTruthOf ==
  /\ AsTruth(True) = True /\ AsTruth(False) = False /\ AsTruth(NullValue) = NullValue
BY TruthOf DEF AsTruth, Stored

\* What a logical operator takes of each side.
LEMMA TruthOperand ==
  ASSUME NEW l \in EvalValues, NEW x, Convertible(l, x)
  PROVE  /\ l \in {True, False} => AsTruth(x) = l
         /\ l = NullValue /\ NullKept(l, x) => AsTruth(x) = NullValue
         /\ l.k \in {"Bool", "Null"} => l \in {True, False, NullValue}
<1>1. l.k \in {"Bool", "Null"} => l \in {True, False, NullValue}
  BY EvalValueFacts
<1>2. l \in {True, False} => x = l
  BY TruthOf DEF Convertible, UpToNull
<1>3. l = NullValue /\ NullKept(l, x) => x = NullValue
  BY DEF NullKept
<1> QED BY <1>1, <1>2, <1>3, AsTruthOf

LEMMA NotSound ==
  ASSUME NEW l \in EvalValues, NEW x, Convertible(l, x)
  PROVE  ResultSound(l, x, l, x, EvalNot(l), Negation(AsTruth(x)))
<1> DEFINE p == EvalNot(l)
           q == Negation(AsTruth(x))
<1> SUFFICES ResultSound(l, x, l, x, p, q)
  OBVIOUS
<1>1. CASE l.k = "Bool"
  <2>1. l \in {True, False} /\ p = Truth(l = False)
    BY <1>1, EvalValueFacts DEF EvalNot
  <2>2. p = Negation(l)
    BY <2>1, NegationOf, TruthOf
  <2>3. q = p
    BY <2>1, <2>2, TruthOperand
  <2> HIDE DEF p, q
  <2> QED BY <2>3, EqualIsSound
<1>2. CASE l.k = "Null"
  <2>1. p = NullValue /\ l = NullValue
    BY <1>2, EvalValueFacts DEF EvalNot
  <2>2. NullKept(l, x) => q = NullValue
    BY <2>1, TruthOperand, NegationOf
  <2> HIDE DEF p, q
  <2> QED BY <2>1, <2>2 DEF ResultSound, UpToNull, NullKept
<1>3. CASE l.k \notin {"Bool", "Null"}
  <2>1. p = Fail
    BY <1>3 DEF EvalNot
  <2> HIDE DEF p, q
  <2> QED BY <2>1, FailIsSound
<1> QED BY <1>1, <1>2, <1>3

LEMMA AndSound ==
  ASSUME NEW l \in EvalValues, NEW r \in EvalValues, NEW x, NEW y,
         Convertible(l, x), Convertible(r, y)
  PROVE  ResultSound(l, x, r, y, EvalLogical("AND", l, r), Conjunction({AsTruth(x), AsTruth(y)}))
<1> DEFINE p == EvalLogical("AND", l, r)
           s == AsTruth(x)
           t == AsTruth(y)
           q == Conjunction({s, t})
<1>1. /\ False \in {l, r} => p = False
      /\ False \notin {l, r} /\ (l.k \notin {"Bool", "Null"} \/ r.k \notin {"Bool", "Null"}) => p = Fail
      /\ False \notin {l, r} /\ l.k \in {"Bool", "Null"} /\ r.k \in {"Bool", "Null"}
           => p = Propagate({l, r}, True)
  BY TruthOf DEF EvalLogical
<1>2. /\ l \in {True, False} => s = l
      /\ r \in {True, False} => t = r
      /\ l = NullValue /\ NullKept(l, x) => s = NullValue
      /\ r = NullValue /\ NullKept(r, y) => t = NullValue
      /\ l.k \in {"Bool", "Null"} => l \in {True, False, NullValue}
      /\ r.k \in {"Bool", "Null"} => r \in {True, False, NullValue}
  BY TruthOperand
<1> HIDE DEF p, s, t
<1>3. CASE False \in {l, r}
  <2>1. q = p
    BY <1>1, <1>2, <1>3, ConjunctionCases
  <2> QED BY <2>1, EqualIsSound DEF p, s, t
<1>4. CASE False \notin {l, r} /\ (l.k \notin {"Bool", "Null"} \/ r.k \notin {"Bool", "Null"})
  <2>1. p = Fail
    BY <1>1, <1>4
  <2> QED BY <2>1, FailIsSound DEF p, s, t
<1>5. CASE False \notin {l, r} /\ l.k \in {"Bool", "Null"} /\ r.k \in {"Bool", "Null"}
  <2>1. l \in {True, NullValue} /\ r \in {True, NullValue}
    BY <1>2, <1>5
  <2>2. p = Propagate({l, r}, True) /\ l # Fail /\ r # Fail
    BY <1>1, <1>5, TruthOf
  <2>3. CASE l = True /\ r = True
    <3>1. p = True
      BY <2>2, <2>3, PropagateCases, TruthOf
    <3>2. q = True
      BY <1>2, <2>3, ConjunctionCases
    <3> QED BY <3>1, <3>2, EqualIsSound DEF p, s, t
  <2>4. CASE l = NullValue \/ r = NullValue
    <3>1. p = NullValue
      BY <2>2, <2>4, PropagateCases
    <3>2. ASSUME NullKept(l, x), NullKept(r, y) PROVE q = NullValue
      <4>1. s = l /\ t = r
        BY <1>2, <2>1, <3>2
      <4> QED BY <2>1, <2>4, <4>1, ConjunctionCases, TruthOf
    <3> QED BY <3>1, <3>2 DEF ResultSound, UpToNull, NullKept, p, s, t
  <2> QED BY <2>1, <2>3, <2>4
<1> QED BY <1>3, <1>4, <1>5

LEMMA OrSound ==
  ASSUME NEW l \in EvalValues, NEW r \in EvalValues, NEW x, NEW y,
         Convertible(l, x), Convertible(r, y)
  PROVE  ResultSound(l, x, r, y, EvalLogical("OR", l, r),
                     Negation(Conjunction({Negation(AsTruth(x)), Negation(AsTruth(y))})))
<1> DEFINE p == EvalLogical("OR", l, r)
           s == Negation(AsTruth(x))
           t == Negation(AsTruth(y))
           q == Negation(Conjunction({s, t}))
<1>1. /\ True \in {l, r} => p = True
      /\ True \notin {l, r} /\ (l.k \notin {"Bool", "Null"} \/ r.k \notin {"Bool", "Null"}) => p = Fail
      /\ True \notin {l, r} /\ l.k \in {"Bool", "Null"} /\ r.k \in {"Bool", "Null"}
           => p = Propagate({l, r}, False)
  BY TruthOf DEF EvalLogical
<1>2. /\ l \in {True, False} => s = Negation(l)
      /\ r \in {True, False} => t = Negation(r)
      /\ l = NullValue /\ NullKept(l, x) => s = NullValue
      /\ r = NullValue /\ NullKept(r, y) => t = NullValue
      /\ l.k \in {"Bool", "Null"} => l \in {True, False, NullValue}
      /\ r.k \in {"Bool", "Null"} => r \in {True, False, NullValue}
  BY TruthOperand, NegationOf
<1> HIDE DEF p, s, t
<1>3. CASE True \in {l, r}
  <2>1. s = False \/ t = False
    BY <1>2, <1>3, NegationOf
  <2>2. Conjunction({s, t}) = False
    BY <2>1, ConjunctionCases
  <2>3. q = p
    BY <1>1, <1>3, <2>2, NegationOf
  <2> QED BY <2>3, EqualIsSound DEF p, s, t
<1>4. CASE True \notin {l, r} /\ (l.k \notin {"Bool", "Null"} \/ r.k \notin {"Bool", "Null"})
  <2>1. p = Fail
    BY <1>1, <1>4
  <2> QED BY <2>1, FailIsSound DEF p, s, t
<1>5. CASE True \notin {l, r} /\ l.k \in {"Bool", "Null"} /\ r.k \in {"Bool", "Null"}
  <2>1. l \in {False, NullValue} /\ r \in {False, NullValue}
    BY <1>2, <1>5
  <2>2. p = Propagate({l, r}, False) /\ l # Fail /\ r # Fail
    BY <1>1, <1>5, TruthOf
  <2>3. CASE l = False /\ r = False
    <3>1. p = False
      BY <2>2, <2>3, PropagateCases, TruthOf
    <3>2. s = True /\ t = True
      BY <1>2, <2>3, NegationOf
    <3>3. q = False
      BY <3>2, ConjunctionCases, NegationOf
    <3> QED BY <3>1, <3>3, EqualIsSound DEF p, s, t
  <2>4. CASE l = NullValue \/ r = NullValue
    <3>1. p = NullValue
      BY <2>2, <2>4, PropagateCases
    <3>2. ASSUME NullKept(l, x), NullKept(r, y) PROVE q = NullValue
      <4>1. s \in {True, NullValue} /\ t \in {True, NullValue} /\ NullValue \in {s, t}
        BY <1>2, <2>1, <2>4, <3>2, NegationOf
      <4>2. Conjunction({s, t}) = NullValue
        BY <4>1, ConjunctionCases, TruthOf
      <4> QED BY <4>2, NegationOf
    <3> QED BY <3>1, <3>2 DEF ResultSound, UpToNull, NullKept, p, s, t
  <2> QED BY <2>1, <2>3, <2>4
<1> QED BY <1>3, <1>4, <1>5

\* IS [NOT] NULL of what is NULL only where the engine has NULL.
LEMMA NullTestSound ==
  ASSUME NEW op \in NullTests, NEW l \in EvalValues, NEW x \in RowValues,
         Convertible(l, x), NullKept(l, x)
  PROVE  LET p == EvalIsNull(op = "IS NOT NULL", l)
             q == IF x = Error THEN Error
                  ELSE IF op = "IS NULL" THEN Truth(x = NullValue) ELSE Truth(x # NullValue)
         IN p = Fail \/ q = p
<1> DEFINE n == op = "IS NOT NULL"
           p == EvalIsNull(n, l)
           q == IF x = Error THEN Error
                ELSE IF op = "IS NULL" THEN Truth(x = NullValue) ELSE Truth(x # NullValue)
<1> SUFFICES ASSUME l # Fail PROVE q = p
  BY DEF EvalIsNull
<1>1. p = IF n THEN Truth(l # NullValue) ELSE Truth(l = NullValue)
  <2>1. p = Truth((l = NullValue) # n)
    BY DEF EvalIsNull
  <2>2. (l = NullValue) \in BOOLEAN /\ n \in BOOLEAN
    OBVIOUS
  <2>3. Truth((l = NullValue) # n) = IF n THEN Truth(~(l = NullValue)) ELSE Truth(l = NullValue)
    BY <2>2, TruthNegated
  <2> QED BY <2>1, <2>3
<1>2. x # Error /\ (l = NullValue <=> x = NullValue)
  <2>1. CASE l.k = "Str" /\ x.k = "Bool"
    BY <2>1, TruthOf
  <2>2. CASE x = l
    BY <2>2, FoldedValue
  <2>3. CASE l = NullValue
    BY <2>3, TruthOf DEF NullKept
  <2> QED BY <2>1, <2>2, <2>3 DEF Convertible, UpToNull
<1>3. q = IF op = "IS NULL" THEN Truth(l = NullValue) ELSE Truth(l # NullValue)
  <2>1. CASE l = NullValue
    BY <1>2, <2>1
  <2>2. CASE l # NullValue
    <3>1. x # NullValue
      BY <1>2, <2>2
    <3> QED BY <1>2, <2>2, <3>1
  <2> QED BY <2>1, <2>2
<1> QED BY <1>1, <1>3 DEF NullTests

-----------------------------------------------------------------------------
(* The evaluator is sound at every node.                                    *)

\* The columns' values as the evaluator knows them and as the row `r` has them: a string may
\* stand for a truth value in the columns `conv`.
ColumnsSound(columns, r, conv) ==
  \A c \in DOMAIN columns :
    /\ columns[c] \in EvalValues
    /\ c \in DOMAIN r /\ r[c] \in RowValues
    /\ \/ columns[c] = Fail
       \/ r[c] = columns[c]
       \/ c \in conv /\ columns[c].k = "Str" /\ r[c].k = "Bool"

IsConverted(x, conv) == x.op = "column" /\ x.leaf \in conv

HoldsRange(x) == OpsOf(x) \cap BetweenOps # {}

\* `p` is the evaluator's value of the node x, and `q` the engine's.
NodeSound(x, p, q, conv) ==
  /\ Convertible(p, q)
  /\ ~IsConverted(x, conv) => UpToNull(p, q)
  /\ ~HoldsRange(x) => NullKept(p, q)

\* Nothing compares or calculates with a converted column, nor asks whether a range is NULL.
NodeAllowed(x, conv) ==
  /\ x.op \notin LogicalOps \cup NullTests => \A i \in DOMAIN x.args : ~IsConverted(x.args[i], conv)
  /\ x.op \in NullTests => ~HoldsRange(x)

LEMMA OpsOfNode ==
  ASSUME NEW x \in Expr
  PROVE  /\ x.op \in OpsOf(x)
         /\ x.op \in BetweenOps => HoldsRange(x)
         /\ \A i \in DOMAIN x.args : OpsOf(x.args[i]) \subseteq OpsOf(x)
         /\ \A i \in DOMAIN x.args : HoldsRange(x.args[i]) => HoldsRange(x)
<1>1. x.op \in OpsOf(x)
  BY NodesClosed DEF OpsOf
<1>2. \A i \in DOMAIN x.args : OpsOf(x.args[i]) \subseteq OpsOf(x)
  BY NodesClosed DEF OpsOf
<1> QED BY <1>1, <1>2 DEF HoldsRange

LEMMA ResultIsSound ==
  ASSUME NEW x \in Expr, NEW i \in DOMAIN x.args, NEW j \in DOMAIN x.args, NEW conv,
         NEW l, NEW r, NEW y, NEW z, NEW p, NEW q,
         NodeSound(x.args[i], l, y, conv), NodeSound(x.args[j], r, z, conv),
         ResultSound(l, y, r, z, p, q)
  PROVE  NodeSound(x, p, q, conv)
<1>1. ~HoldsRange(x) => NullKept(l, y) /\ NullKept(r, z)
  BY OpsOfNode DEF NodeSound
<1> QED BY <1>1 DEF NodeSound, ResultSound, Convertible

LEMMA NodeStepSound ==
  ASSUME NEW x \in Expr, NEW columns, NEW r, NEW conv, NEW outcome,
         NEW farg \in [DOMAIN x.args -> EvalValues], NEW garg \in [DOMAIN x.args -> RowValues],
         ColumnsSound(columns, r, conv), NodeAllowed(x, conv),
         \A i \in DOMAIN x.args : NodeSound(x.args[i], farg[i], garg[i], conv)
  PROVE  NodeSound(x, EvalNode(x, farg, columns), ValueNode(x, garg, r, outcome), conv)
<1> DEFINE p == EvalNode(x, farg, columns)
           q == ValueNode(x, garg, r, outcome)
<1> SUFFICES NodeSound(x, p, q, conv)
  OBVIOUS
<1>1. CASE x.op = "literal"
  <2>1. p = x.leaf /\ q = x.leaf
    BY <1>1, EvalLeaf, ValueLeaf
  <2> HIDE DEF p, q
  <2> QED BY <2>1 DEF NodeSound, Convertible, UpToNull, NullKept
<1>2. CASE x.op = "column"
  <2>1. p = IF x.leaf \in DOMAIN columns THEN columns[x.leaf] ELSE Fail
    BY <1>2, EvalLeaf
  <2>2. q = IF x.leaf \in DOMAIN r THEN r[x.leaf] ELSE Error
    BY <1>2, ValueLeaf
  <2> HIDE DEF p, q
  <2>3. CASE p = Fail
    BY <2>3, TruthOf DEF NodeSound, Convertible, UpToNull, NullKept
  <2>4. CASE q = p
    BY <2>4 DEF NodeSound, Convertible, UpToNull, NullKept
  <2>5. CASE x.leaf \in conv /\ p.k = "Str" /\ q.k = "Bool"
    <3>1. IsConverted(x, conv) /\ p # NullValue
      BY <1>2, <2>5, TruthOf DEF IsConverted
    <3> QED BY <2>5, <3>1 DEF NodeSound, Convertible, NullKept
  <2> QED BY <2>1, <2>2, <2>3, <2>4, <2>5 DEF ColumnsSound
<1>3. CASE x.op = "opaque"
  <2>1. p = Fail
    BY <1>3, EvalLeaf
  <2> HIDE DEF p, q
  <2> QED BY <2>1, TruthOf DEF NodeSound, Convertible, UpToNull, NullKept
<1>4. CASE x.op = "NOT"
  <2>1. p = EvalNot(farg[1]) /\ q = Negation(AsTruth(garg[1]))
    BY <1>4, EvalUnary, ValueUnary
  <2>2. 1 \in DOMAIN x.args
    BY <1>4, Shapes
  <2>3. farg[1] \in EvalValues /\ Convertible(farg[1], garg[1])
    BY <2>2 DEF NodeSound
  <2>4. ResultSound(farg[1], garg[1], farg[1], garg[1], p, q)
    BY <2>1, <2>3, NotSound
  <2> HIDE DEF p, q
  <2> QED BY <2>2, <2>4, ResultIsSound
<1>5. CASE IsUnaryMinus(x)
  <2>1. p = EvalMinus(farg[1]) /\ q = Calculated("-", Value("Int", 0), garg[1])
    BY <1>5, EvalUnary, ValueUnary
  <2>2. 1 \in DOMAIN x.args /\ x.op \notin LogicalOps \cup NullTests
    BY <1>5 DEF IsUnaryMinus, LogicalOps, NullTests
  <2>3. farg[1] \in EvalValues /\ garg[1] \in RowValues /\ UpToNull(farg[1], garg[1])
    BY <2>2 DEF NodeSound, NodeAllowed
  <2>4. ResultSound(farg[1], garg[1], farg[1], garg[1], p, q)
    BY <2>1, <2>3, MinusSound
  <2> HIDE DEF p, q
  <2> QED BY <2>2, <2>4, ResultIsSound
<1>6. CASE x.op \in NullTests
  <2>1. p = EvalIsNull(x.op = "IS NOT NULL", farg[1])
    BY <1>6, EvalUnary
  <2>2. q = IF garg[1] = Error THEN Error
            ELSE IF x.op = "IS NULL" THEN Truth(garg[1] = NullValue) ELSE Truth(garg[1] # NullValue)
    BY <1>6, ValueUnary DEF NullTests
  <2>3. 1 \in DOMAIN x.args /\ ~HoldsRange(x)
    BY <1>6, Shapes DEF NodeAllowed
  <2>4. ~HoldsRange(x.args[1])
    BY <2>3, OpsOfNode
  <2>5. /\ farg[1] \in EvalValues /\ garg[1] \in RowValues
        /\ Convertible(farg[1], garg[1]) /\ NullKept(farg[1], garg[1])
    BY <2>3, <2>4 DEF NodeSound
  <2>6. p = Fail \/ q = p
    BY <1>6, <2>1, <2>2, <2>5, NullTestSound
  <2> HIDE DEF p, q
  <2> QED BY <2>6, TruthOf DEF NodeSound, Convertible, UpToNull, NullKept
<1>7. CASE x.op \in BetweenOps
  <2>1. p = EvalRanged(x.op, farg[1], farg[2], farg[3])
    BY <1>7, EvalRange DEF EvalRanged
  <2>2. q = Ranged(x.op, garg[1], garg[2], garg[3])
    BY <1>7, ValueRange DEF Ranged, Within
  <2>3. {1, 2, 3} \subseteq DOMAIN x.args /\ x.op \notin LogicalOps \cup NullTests
    BY <1>7, Shapes DEF BetweenOps, LogicalOps, NullTests
  <2>4. \A i \in {1, 2, 3} : farg[i] \in EvalValues /\ UpToNull(farg[i], garg[i])
    BY <2>3 DEF NodeSound, NodeAllowed
  <2>5. UpToNull(p, q)
    BY <1>7, <2>1, <2>2, <2>4, BetweenSound
  <2>6. HoldsRange(x)
    BY <1>7, OpsOfNode
  <2> HIDE DEF p, q
  <2> QED BY <2>5, <2>6 DEF NodeSound, Convertible
<1>8. CASE x.op \in {"AND", "OR"}
  <2>1. p = EvalLogical(x.op, farg[1], farg[2])
    BY <1>8, EvalBinary
  <2>2. 1 \in DOMAIN x.args /\ 2 \in DOMAIN x.args
    BY <1>8, Shapes
  <2>3. /\ farg[1] \in EvalValues /\ Convertible(farg[1], garg[1])
        /\ farg[2] \in EvalValues /\ Convertible(farg[2], garg[2])
    BY <2>2 DEF NodeSound
  <2>4. ResultSound(farg[1], garg[1], farg[2], garg[2], p, q)
    <3>1. CASE x.op = "AND"
      <4>1. q = Conjunction({AsTruth(garg[1]), AsTruth(garg[2])})
        BY <3>1, ValueBinary
      <4> QED BY <2>1, <2>3, <3>1, <4>1, AndSound
    <3>2. CASE x.op = "OR"
      <4>1. q = Negation(Conjunction({Negation(AsTruth(garg[1])), Negation(AsTruth(garg[2]))}))
        BY <3>2, ValueBinary
      <4> QED BY <2>1, <2>3, <3>2, <4>1, OrSound
    <3> QED BY <1>8, <3>1, <3>2
  <2> HIDE DEF p, q
  <2> QED BY <2>2, <2>4, ResultIsSound
<1>9. CASE x.op \in ComparisonOps
  <2>1. /\ p = Propagate({farg[1], farg[2]}, Compare(x.op, farg[1], farg[2]))
        /\ q = Related(x.op, garg[1], garg[2])
    BY <1>9, EvalBinary, ValueBinary
  <2>2. 1 \in DOMAIN x.args /\ 2 \in DOMAIN x.args /\ x.op \notin LogicalOps \cup NullTests
    BY <1>9, Shapes DEF ComparisonOps, LogicalOps, NullTests
  <2>3. /\ farg[1] \in EvalValues /\ garg[1] \in RowValues /\ UpToNull(farg[1], garg[1])
        /\ farg[2] \in EvalValues /\ garg[2] \in RowValues /\ UpToNull(farg[2], garg[2])
    BY <2>2 DEF NodeSound, NodeAllowed
  <2>4. ResultSound(farg[1], garg[1], farg[2], garg[2], p, q)
    BY <2>1, <2>3, CompareSound
  <2> HIDE DEF p, q
  <2> QED BY <2>2, <2>4, ResultIsSound
<1>10. CASE IsBinary(x)
  <2>1. /\ p = Propagate({farg[1], farg[2]}, EvalArithmetic(x.op, farg[1], farg[2]))
        /\ q = Calculated(x.op, garg[1], garg[2])
    BY <1>10, EvalBinary, ValueBinary
  <2>2. 1 \in DOMAIN x.args /\ 2 \in DOMAIN x.args /\ x.op \in ArithmeticOps
    BY <1>10 DEF IsBinary
  <2>3. x.op \notin LogicalOps \cup NullTests
    BY <2>2 DEF ArithmeticOps, LogicalOps, NullTests
  <2>4. /\ farg[1] \in EvalValues /\ garg[1] \in RowValues /\ UpToNull(farg[1], garg[1])
        /\ farg[2] \in EvalValues /\ garg[2] \in RowValues /\ UpToNull(farg[2], garg[2])
    BY <2>2, <2>3 DEF NodeSound, NodeAllowed
  <2>5. ResultSound(farg[1], garg[1], farg[2], garg[2], p, q)
    BY <2>1, <2>2, <2>4, ArithmeticSound
  <2> HIDE DEF p, q
  <2> QED BY <2>2, <2>5, ResultIsSound
<1> HIDE DEF p, q
<1> QED BY <1>1, <1>2, <1>3, <1>4, <1>5, <1>6, <1>7, <1>8, <1>9, <1>10, Shapes

\* What the evaluator folds of a tree is what the engine computes of it.
LEMMA EvaluationSound ==
  ASSUME NEW e \in Expr, NEW columns, NEW r, NEW conv, NEW outcome \in RowValues,
         \A c \in DOMAIN r : r[c] \in RowValues,
         ColumnsSound(columns, r, conv), \A x \in NodesOf[e] : NodeAllowed(x, conv)
  PROVE  NodeSound(e, Evaluated(e, columns), ValueIn(e, r, outcome), conv)
<1>1. PICK f : IsEvaluation(f, e, columns)
  <2>1. \A c \in DOMAIN columns : columns[c] \in EvalValues
    BY DEF ColumnsSound
  <2> QED BY <2>1, EvaluationExists
<1>2. PICK g : IsValuation(g, e, r, outcome)
  BY ValuationExists
<1> DEFINE P == {x \in NodesOf[e] : NodeSound(x, f[x], g[x], conv)}
<1>3. ASSUME NEW x \in NodesOf[e], \A i \in DOMAIN x.args : x.args[i] \in P PROVE x \in P
  <2> DEFINE farg == [i \in DOMAIN x.args |-> f[x.args[i]]]
             garg == [i \in DOMAIN x.args |-> g[x.args[i]]]
  <2>1. x \in Expr /\ \A i \in DOMAIN x.args : x.args[i] \in NodesOf[e]
    BY NodesClosed
  <2>2. farg \in [DOMAIN x.args -> EvalValues]
    BY <1>1, <2>1 DEF IsEvaluation
  <2>3. garg \in [DOMAIN x.args -> RowValues]
    BY <1>2, <2>1 DEF IsValuation
  <2>4. \A i \in DOMAIN x.args : NodeSound(x.args[i], farg[i], garg[i], conv)
    BY <1>3
  <2>5. f[x] = EvalNode(x, farg, columns)
    BY <1>1 DEF IsEvaluation
  <2>6. g[x] = ValueNode(x, garg, r, outcome)
    BY <1>2 DEF IsValuation
  <2> HIDE DEF farg, garg
  <2>7. NodeSound(x, f[x], g[x], conv)
    BY <2>1, <2>2, <2>3, <2>4, <2>5, <2>6, NodeStepSound
  <2> QED BY <2>7
<1>4. \A x \in NodesOf[e] : (\A i \in DOMAIN x.args : x.args[i] \in P) => x \in P
  BY <1>3
<1>5. NodesOf[e] \subseteq P
  <2> HIDE DEF P
  <2> QED BY <1>4, TreeInduction
<1>6. NodeSound(e, f[e], g[e], conv)
  BY <1>5, NodesClosed
<1> QED BY <1>1, <1>2, <1>6 DEF IsEvaluation, IsValuation

-----------------------------------------------------------------------------
(* What is bound to a column, and what the column holds.                    *)

IsRow(r) == \A c \in DOMAIN r : r[c] \in RowValues

LEMMA NoRowIsRow == IsRow(NoRow)
BY DEF IsRow, NoRow

LEMMA ValueInType ==
  ASSUME NEW e \in Expr, NEW r, IsRow(r), NEW outcome \in RowValues
  PROVE  ValueIn(e, r, outcome) \in RowValues
<1>1. PICK g : IsValuation(g, e, r, outcome)
  BY ValuationExists DEF IsRow
<1> QED BY <1>1, NodesClosed DEF IsValuation

LEMMA EvaluatedType ==
  ASSUME NEW e \in Expr, NEW columns, \A c \in DOMAIN columns : columns[c] \in EvalValues
  PROVE  Evaluated(e, columns) \in EvalValues
<1>1. PICK f : IsEvaluation(f, e, columns)
  BY EvaluationExists
<1> QED BY <1>1, NodesClosed DEF IsEvaluation

\* A constant has the value it is folded to.
LEMMA ConstantSound ==
  ASSUME NEW e \in Expr, NEW r, IsRow(r), NEW outcome \in RowValues, ~HoldsRange(e)
  PROVE  /\ Evaluated(e, <<>>) \in EvalValues
         /\ Evaluated(e, <<>>) = Fail \/ ValueIn(e, r, outcome) = Evaluated(e, <<>>)
<1> DEFINE p == Evaluated(e, <<>>)
           q == ValueIn(e, r, outcome)
<1>1. p \in EvalValues
  BY EvaluatedType
<1>2. ColumnsSound(<<>>, r, {})
  BY DEF ColumnsSound
<1>3. \A x \in NodesOf[e] : NodeAllowed(x, {})
  <2> SUFFICES ASSUME NEW x \in NodesOf[e] PROVE NodeAllowed(x, {})
    OBVIOUS
  <2>1. OpsOf(x) \subseteq OpsOf(e)
    BY NodesClosed DEF OpsOf
  <2>2. ~HoldsRange(x)
    BY <2>1 DEF HoldsRange
  <2> QED BY <2>2 DEF NodeAllowed, IsConverted
<1>4. NodeSound(e, p, q, {})
  BY <1>2, <1>3, EvaluationSound DEF IsRow
<1> HIDE DEF p, q
<1>5. p = Fail \/ q = p
  BY <1>4 DEF NodeSound, UpToNull, NullKept, IsConverted
<1> QED BY <1>1, <1>5 DEF p, q

\* A column whose constant is folded to `p` holds `q`: a string may be a truth value that no
\* CHECK compares.
FoldedAs(c, p, q) ==
  /\ p \in EvalValues /\ q \in RowValues
  /\ \/ p = Fail
     \/ q = p
     \/ p.k = "Str" /\ q.k = "Bool" /\ \A check \in table.checks : c \notin OperandColumns(check)

LEMMA StoredUnconverted ==
  ASSUME NEW type, NEW p, p.k \in {type, "Null"}
  PROVE  Stored(type, p) = p
BY DEF Stored

LEMMA StoredTruth ==
  ASSUME NEW p, p.k = "Str"
  PROVE  Stored("Bool", p).k = "Bool"
<1>1. Stored("Bool", p) = Truth(p.v \in TrueString)
  BY DEF Stored
<1> QED BY <1>1, TruthIsTrueOrFalse, TruthOf

LEMMA BoundColumn ==
  ASSUME table \in Tables, NEW c \in DOMAIN table.column, NEW e \in Expr, e \in GivenTo(table, c),
         Bindable(TypeOf(c), e), NEW r, IsRow(r), NEW outcome \in RowValues
  PROVE  FoldedAs(c, Evaluated(e, <<>>), Stored(TypeOf(c), ValueIn(e, r, outcome)))
<1> DEFINE p == Evaluated(e, <<>>)
           v == ValueIn(e, r, outcome)
           q == Stored(TypeOf(c), v)
<1>1. Unconverted(table, c, e)
  BY ConversionAssumption DEF TypeOf, Description
<1>2. ~HoldsRange(e)
  BY <1>1 DEF Unconverted, HoldsRange
<1>3. p \in EvalValues /\ (p = Fail \/ v = p)
  BY <1>2, ConstantSound
<1>4. q \in RowValues
  BY ValueInType, StoredType
<1>5. \/ p.k \in {TypeOf(c), "Null", "Fail"}
      \/ /\ p.k = "Str" /\ TypeOf(c) = "Bool"
         /\ \A check \in table.checks : c \notin OperandColumns(check)
  BY <1>1 DEF Unconverted, TypeOf, Description
<1> HIDE DEF p, v
<1>6. CASE p = Fail
  BY <1>3, <1>4, <1>6 DEF FoldedAs, p, v
<1>7. CASE p # Fail /\ p.k \in {TypeOf(c), "Null", "Fail"}
  <2>1. p.k \in {TypeOf(c), "Null"}
    BY <1>3, <1>7, EvalValueFacts
  <2>2. q = p
    BY <1>3, <1>7, <2>1, StoredUnconverted
  <2> QED BY <1>3, <1>4, <2>2 DEF FoldedAs, p, v
<1>8. CASE p # Fail /\ p.k = "Str" /\ TypeOf(c) = "Bool"
             /\ \A check \in table.checks : c \notin OperandColumns(check)
  <2>1. q.k = "Bool"
    BY <1>3, <1>8, StoredTruth
  <2> QED BY <1>3, <1>4, <1>8, <2>1 DEF FoldedAs, p, v
<1> QED BY <1>5, <1>6, <1>7, <1>8

\* Every column that is bound holds what it is bound to.
BindsHeld(binds, new) ==
  \A c \in DOMAIN binds :
    /\ c \in DOMAIN new
    /\ FoldedAs(c, Evaluated(binds[c], <<>>), new[c])

\* A CHECK that the evaluator decides is FALSE is FALSE in the row.
LEMMA CheckSound ==
  ASSUME table \in Tables, NEW check \in table.checks, NEW binds, NEW new, IsRow(new),
         BindsHeld(binds, new), EvaluateCheck(check, binds) = False
  PROVE  ValueIn(check, new, NullValue) = False
<1> DEFINE conv == {c \in DOMAIN binds : c \notin OperandColumns(check)}
           columns == Folded(binds)
           p == Eval(check, binds)
           q == ValueIn(check, new, NullValue)
<1>1. check \in Expr
  BY TablesAssumption
<1>2. ColumnsSound(columns, new, conv)
  <2> SUFFICES ASSUME NEW c \in DOMAIN columns
               PROVE  /\ columns[c] \in EvalValues
                      /\ c \in DOMAIN new /\ new[c] \in RowValues
                      /\ \/ columns[c] = Fail
                         \/ new[c] = columns[c]
                         \/ c \in conv /\ columns[c].k = "Str" /\ new[c].k = "Bool"
    BY DEF ColumnsSound
  <2>1. c \in DOMAIN binds /\ columns[c] = Evaluated(binds[c], <<>>)
    BY DEF Folded
  <2>2. c \in DOMAIN new /\ FoldedAs(c, columns[c], new[c])
    BY <2>1 DEF BindsHeld
  <2> HIDE DEF columns
  <2> QED BY <2>1, <2>2 DEF FoldedAs, IsRow
<1>3. \A x \in NodesOf[check] : NodeAllowed(x, conv)
  <2> SUFFICES ASSUME NEW x \in NodesOf[check] PROVE NodeAllowed(x, conv)
    OBVIOUS
  <2>1. x.op \in NullTests => ~HoldsRange(x)
    BY ConversionAssumption DEF HoldsRange
  <2>2. ASSUME x.op \notin LogicalOps \cup NullTests, NEW i \in DOMAIN x.args,
               IsConverted(x.args[i], conv)
        PROVE  FALSE
    <3> DEFINE c == x.args[i].leaf
    <3>1. x.args[i] \in NodesOf[check] /\ x.args[i].op = "column" /\ c \in conv
      BY <1>1, <2>2, NodesClosed DEF IsConverted
    <3>2. c \in ColumnsOf(check)
      BY <3>1 DEF ColumnsOf
    <3>3. c \in OperandColumns(check)
      BY <2>2, <3>1, <3>2 DEF OperandColumns
    <3> QED BY <3>1, <3>3
  <2> QED BY <2>1, <2>2 DEF NodeAllowed
<1>4. NodeSound(check, p, q, conv)
  <2>1. NullValue \in RowValues
    BY ConstantsAreValues
  <2>2. p = Evaluated(check, columns)
    BY DEF Eval
  <2> HIDE DEF conv, columns, p
  <2> QED BY <1>1, <1>2, <1>3, <2>1, <2>2, EvaluationSound DEF IsRow
<1>5. p = False
  BY TruthOf DEF EvaluateCheck
<1> HIDE DEF p, q, conv
<1>6. q = False
  BY <1>4, <1>5, TruthOf DEF NodeSound, Convertible, UpToNull
<1> QED BY <1>6 DEF q

\* A row that is not refused.
LEMMA NotRefused ==
  ASSUME NEW t, NEW new, Refusal(t, new) = "none"
  PROVE  /\ \A c \in DOMAIN new : new[c] # Error
         /\ \A c \in DOMAIN new : new[c] = NullValue => t.column[c].nullable
         /\ \A check \in t.checks : ValueIn(check, new, NullValue) \notin {False, Error}
<1> DEFINE failed == \E c \in DOMAIN new : new[c] = Error
           null == \E c \in DOMAIN new : new[c] = NullValue /\ ~t.column[c].nullable
           checked == {ValueIn(check, new, NullValue) : check \in t.checks}
<1>1. (\A c \in DOMAIN new : new[c] # Error) <=> ~failed
  OBVIOUS
<1>2. Refusal(t, new) =
        CASE failed -> "error"
          [] (\A c \in DOMAIN new : new[c] # Error) /\ null -> "null"
          [] OTHER -> IF False \in checked THEN "check"
                      ELSE IF Error \in checked THEN "error" ELSE "none"
  BY DEF Refusal
<1> HIDE DEF failed, null, checked
<1>3. ~failed /\ ~null /\ False \notin checked /\ Error \notin checked
  BY <1>1, <1>2
<1> QED BY <1>1, <1>3 DEF null, checked

-----------------------------------------------------------------------------
(* The values of a statement.                                               *)

\* One expression for each of some distinct columns of the table.
ValuesGiven(targets, values) ==
  /\ IsInjective(targets)
  /\ DOMAIN targets \subseteq Nat /\ DOMAIN values = DOMAIN targets
  /\ \A i \in DOMAIN targets :
       IsColumn(targets[i]) /\ values[i] \in Expr /\ values[i] \in GivenTo(table, targets[i])

\* The row `new` holds the values given, evaluated in the row `r`.
GivenHeld(new, targets, values, r, outcome) ==
  \A i \in DOMAIN targets :
    new[targets[i]] = Stored(TypeOf(targets[i]), ValueIn(values[i], r, outcome))

\* And the defaults of the other columns.
DefaultsHeld(new, targets, outcome) ==
  \A c \in DOMAIN table.column \ ToSet(targets) :
    new[c] = Stored(TypeOf(c), IF Description(c).hasDefault
                               THEN ValueIn(Description(c).default, NoRow, outcome) ELSE NullValue)

LEMMA TableFacts ==
  ASSUME table \in Tables
  PROVE  /\ table.checks \subseteq Expr /\ Outcomes \subseteq RowValues
         /\ DOMAIN table.order \subseteq Nat /\ \A list \in Lists(table) : DOMAIN list \subseteq Nat
         /\ \A c \in DOMAIN table.column :
              /\ Given(TypeOf(c)) \subseteq Expr /\ Given(TypeOf(c)) \subseteq GivenTo(table, c)
              /\ Description(c).hasDefault =>
                   Description(c).default \in Expr /\ Description(c).default \in GivenTo(table, c)
         /\ \A sets \in SetLists(table) :
              /\ DOMAIN sets \subseteq Nat
              /\ \A i \in DOMAIN sets :
                   sets[i][2] \in Expr /\ sets[i][2] \in GivenTo(table, sets[i][1])
<1>1. /\ table.checks \subseteq Expr /\ Outcomes \subseteq RowValues
      /\ DOMAIN table.order \subseteq Nat /\ \A list \in Lists(table) : DOMAIN list \subseteq Nat
  BY TablesAssumption
<1>2. ASSUME NEW c \in DOMAIN table.column
      PROVE  /\ Given(TypeOf(c)) \subseteq Expr /\ Given(TypeOf(c)) \subseteq GivenTo(table, c)
             /\ Description(c).hasDefault =>
                  Description(c).default \in Expr /\ Description(c).default \in GivenTo(table, c)
  <2>1. Given(TypeOf(c)) \subseteq Expr
    BY TablesAssumption DEF TypeOf, Description
  <2>2. Description(c).hasDefault => Description(c).default \in Expr
    BY TablesAssumption DEF Description
  <2>3. Given(TypeOf(c)) \subseteq GivenTo(table, c)
    BY DEF GivenTo, TypeOf, Description
  <2>4. Description(c).hasDefault => Description(c).default \in GivenTo(table, c)
    BY DEF GivenTo, Description
  <2> QED BY <2>1, <2>2, <2>3, <2>4
<1>3. ASSUME NEW sets \in SetLists(table)
      PROVE  /\ DOMAIN sets \subseteq Nat
             /\ \A i \in DOMAIN sets :
                  sets[i][2] \in Expr /\ sets[i][2] \in GivenTo(table, sets[i][1])
  <2>1. DOMAIN sets \subseteq Nat /\ \A i \in DOMAIN sets : sets[i][2] \in Expr
    BY TablesAssumption
  <2>2. ASSUME NEW i \in DOMAIN sets PROVE sets[i][2] \in GivenTo(table, sets[i][1])
    <3> DEFINE c == sets[i][1]
               Of(s) == {s[j][2] : j \in {j \in DOMAIN s : s[j][1] = c}}
    <3>1. sets[i][2] \in Of(sets)
      OBVIOUS
    <3>2. sets[i][2] \in UNION {Of(s) : s \in SetLists(table)}
      BY <3>1
    <3> QED BY <3>2 DEF GivenTo
  <2> QED BY <2>1, <2>2
<1> QED BY <1>1, <1>2, <1>3

\* What is bound to a column is what it is given, or its default.
LEMMA BindingsFacts ==
  ASSUME NEW targets, NEW values, NEW applyDefaults, ValuesGiven(targets, values),
         NEW c \in DOMAIN Bindings(targets, values, applyDefaults)
  PROVE  LET e == Bindings(targets, values, applyDefaults)[c]
         IN /\ IsColumn(c) /\ Bindable(TypeOf(c), e)
            /\ \/ \E i \in DOMAIN targets : targets[i] = c /\ values[i] = e
               \/ /\ applyDefaults /\ c \in DOMAIN table.column \ ToSet(targets)
                  /\ Description(c).hasDefault /\ e = Description(c).default
<1> DEFINE shared == {i \in DOMAIN targets : i \in DOMAIN values /\ IsColumn(targets[i])}
           bound == {i \in shared : Bindable(Description(targets[i]).type, values[i])}
           Least(d, i) == targets[i] = d /\ \A j \in bound : targets[j] = d => i <= j
           first(d) == CHOOSE i \in bound : Least(d, i)
           given == {targets[i] : i \in bound}
           defaulted == {d \in DOMAIN table.column \ ToSet(targets) :
                           /\ applyDefaults /\ Description(d).hasDefault
                           /\ Bindable(Description(d).type, Description(d).default)}
           e == Bindings(targets, values, applyDefaults)[c]
<1>1. /\ c \in given \cup defaulted
      /\ e = IF c \in given THEN values[first(c)] ELSE Description(c).default
  BY DEF Bindings
<1>2. CASE c \in given
  <2>1. PICK i \in bound : targets[i] = c
    BY <1>2
  <2>2. \A j \in bound : targets[j] = c => j = i
    BY <2>1 DEF ValuesGiven, IsInjective
  <2>3. i \in Nat
    BY <2>1 DEF ValuesGiven
  <2> HIDE DEF bound
  <2>4. Least(c, i) /\ \A j \in bound : Least(c, j) => j = i
    BY <2>1, <2>2, <2>3
  <2> HIDE DEF Least
  <2>5. first(c) = i
    BY <2>4
  <2>6. e = values[i]
    BY <1>1, <1>2, <2>5
  <2> HIDE DEF e
  <2>7. i \in DOMAIN targets /\ IsColumn(c) /\ Bindable(TypeOf(c), e)
    BY <2>1, <2>6 DEF bound, TypeOf
  <2> QED BY <2>1, <2>6, <2>7 DEF e
<1>3. CASE c \notin given
  <2>1. c \in defaulted /\ e = Description(c).default
    BY <1>1, <1>3
  <2> HIDE DEF e
  <2> QED BY <2>1 DEF TypeOf, IsColumn, e
<1> QED BY <1>2, <1>3

LEMMA BindingsHeld ==
  ASSUME table \in Tables, NEW targets, NEW values, NEW applyDefaults, ValuesGiven(targets, values),
         NEW new, DOMAIN new = DOMAIN table.column,
         NEW r, IsRow(r), NEW outcome \in RowValues,
         GivenHeld(new, targets, values, r, outcome),
         applyDefaults => DefaultsHeld(new, targets, outcome)
  PROVE  BindsHeld(Bindings(targets, values, applyDefaults), new)
<1> DEFINE binds == Bindings(targets, values, applyDefaults)
<1> SUFFICES ASSUME NEW c \in DOMAIN binds
             PROVE  c \in DOMAIN new /\ FoldedAs(c, Evaluated(binds[c], <<>>), new[c])
  BY DEF BindsHeld
<1> DEFINE e == binds[c]
<1>1. /\ IsColumn(c) /\ Bindable(TypeOf(c), e)
      /\ \/ \E i \in DOMAIN targets : targets[i] = c /\ values[i] = e
         \/ /\ applyDefaults /\ c \in DOMAIN table.column \ ToSet(targets)
            /\ Description(c).hasDefault /\ e = Description(c).default
  BY BindingsFacts
<1> HIDE DEF e, binds
<1>2. c \in DOMAIN table.column
  BY <1>1 DEF IsColumn
<1>3. CASE \E i \in DOMAIN targets : targets[i] = c /\ values[i] = e
  <2>1. PICK i \in DOMAIN targets : targets[i] = c /\ values[i] = e
    BY <1>3
  <2>2. e \in Expr /\ e \in GivenTo(table, c)
    BY <2>1 DEF ValuesGiven
  <2>3. new[c] = Stored(TypeOf(c), ValueIn(e, r, outcome))
    BY <2>1 DEF GivenHeld
  <2>4. FoldedAs(c, Evaluated(e, <<>>), new[c])
    BY <1>1, <1>2, <2>2, <2>3, BoundColumn
  <2> QED BY <1>2, <2>4 DEF e
<1>4. CASE /\ applyDefaults /\ c \in DOMAIN table.column \ ToSet(targets)
           /\ Description(c).hasDefault /\ e = Description(c).default
  <2>1. e \in Expr /\ e \in GivenTo(table, c)
    BY <1>2, <1>4, TableFacts
  <2>2. new[c] = Stored(TypeOf(c), ValueIn(e, NoRow, outcome))
    BY <1>4 DEF DefaultsHeld
  <2>3. FoldedAs(c, Evaluated(e, <<>>), new[c])
    BY <1>1, <1>2, <2>1, <2>2, BoundColumn, NoRowIsRow
  <2> QED BY <1>2, <2>3 DEF e
<1> QED BY <1>1, <1>3, <1>4

\* A literal NULL is stored as NULL.
LEMMA NullIsStored ==
  ASSUME Literal(NullValue) \in Expr, NEW r, IsRow(r), NEW outcome \in RowValues, NEW type
  PROVE  Stored(type, ValueIn(Literal(NullValue), r, outcome)) = NullValue
<1> DEFINE e == Literal(NullValue)
<1>1. e.op = "literal" /\ e.leaf = NullValue
  BY DEF Literal
<1> HIDE DEF e
<1>2. PICK g : IsValuation(g, e, r, outcome)
  BY ValuationExists DEF IsRow, e
<1>3. g[e] = ValueNode(e, [i \in DOMAIN e.args |-> g[e.args[i]]], r, outcome)
  BY <1>2, NodesClosed DEF IsValuation, e
<1>4. g[e] = NullValue
  BY <1>1, <1>3, ValueLeaf DEF e
<1>5. ValueIn(e, r, outcome) = NullValue
  BY <1>2, <1>4 DEF IsValuation
<1> QED BY <1>5, StoredUnconverted, TruthOf DEF e

LEMMA NullStored ==
  ASSUME NEW type
  PROVE  Stored(type, NullValue) = NullValue
BY StoredUnconverted, TruthOf

\* A violation reported of the values is one of the row.
LEMMA RowDiagnosticsSound ==
  ASSUME table \in Tables, NEW targets, NEW values, NEW applyDefaults, ValuesGiven(targets, values),
         NEW new, DOMAIN new = DOMAIN table.column, IsRow(new),
         NEW r, IsRow(r), NEW outcome \in RowValues,
         GivenHeld(new, targets, values, r, outcome),
         applyDefaults => DefaultsHeld(new, targets, outcome),
         RowDiagnostics(targets, values, applyDefaults) # {}
  PROVE  Refusal(table, new) # "none"
<1> SUFFICES ASSUME Refusal(table, new) = "none" PROVE FALSE
  OBVIOUS
<1>1. CASE NullGiven(targets, values) # {}
  <2>1. PICK i \in DOMAIN targets : ~Description(targets[i]).nullable /\ values[i] = Literal(NullValue)
    BY <1>1 DEF NullGiven
  <2> DEFINE c == targets[i]
  <2>2. c \in DOMAIN new /\ Literal(NullValue) \in Expr
    BY <2>1 DEF ValuesGiven, IsColumn
  <2>3. new[c] = Stored(TypeOf(c), ValueIn(Literal(NullValue), r, outcome))
    BY <2>1 DEF GivenHeld
  <2>4. new[c] = NullValue
    BY <2>2, <2>3, NullIsStored
  <2> QED BY <2>1, <2>2, <2>4, NotRefused DEF Description
<1>2. CASE CheckViolations(targets, values, applyDefaults) # {}
  <2> DEFINE binds == Bindings(targets, values, applyDefaults)
  <2>1. PICK check \in table.checks : EvaluateCheck(check, binds) = False
    BY <1>2 DEF CheckViolations
  <2>2. BindsHeld(binds, new)
    BY BindingsHeld
  <2> HIDE DEF binds
  <2>3. ValueIn(check, new, NullValue) = False
    BY <2>1, <2>2, CheckSound
  <2> QED BY <2>3, NotRefused
<1> QED BY <1>1, <1>2 DEF RowDiagnostics

\* A column of neither value nor default holds NULL.
LEMMA NullLeftSound ==
  ASSUME NEW targets, NEW new, DOMAIN new = DOMAIN table.column, NEW outcome,
         DefaultsHeld(new, targets, outcome), NullLeft(targets) # {}
  PROVE  Refusal(table, new) # "none"
<1> SUFFICES ASSUME Refusal(table, new) = "none" PROVE FALSE
  OBVIOUS
<1>1. PICK c \in DOMAIN table.column \ ToSet(targets) :
        ~Description(c).nullable /\ ~Description(c).hasDefault
  BY DEF NullLeft
<1>2. new[c] = Stored(TypeOf(c), NullValue)
  BY <1>1 DEF DefaultsHeld
<1>3. new[c] = NullValue
  BY <1>2, NullStored
<1> QED BY <1>1, <1>3, NotRefused DEF Description

-----------------------------------------------------------------------------
(* The statements.                                                          *)

LEMMA ProposedRow ==
  ASSUME table \in Tables, NEW targets, NEW values, ValuesGiven(targets, values),
         NEW outcome \in RowValues
  PROVE  LET new == Proposed(targets, values, outcome)
         IN /\ DOMAIN new = DOMAIN table.column /\ IsRow(new)
            /\ GivenHeld(new, targets, values, NoRow, outcome)
            /\ DefaultsHeld(new, targets, outcome)
<1> DEFINE new == Proposed(targets, values, outcome)
           At(c) == {i \in DOMAIN targets : targets[i] = c}
           Chosen(c) == CHOOSE i \in At(c) : TRUE
           Default(c) == IF Description(c).hasDefault
                         THEN ValueIn(Description(c).default, NoRow, outcome) ELSE NullValue
<1>1. /\ DOMAIN new = DOMAIN table.column
      /\ \A c \in DOMAIN table.column :
           new[c] = Stored(TypeOf(c), IF At(c) # {} THEN ValueIn(values[Chosen(c)], NoRow, outcome)
                                      ELSE Default(c))
  BY DEF Proposed, TypeOf
<1>2. ASSUME NEW i \in DOMAIN targets PROVE At(targets[i]) # {} /\ Chosen(targets[i]) = i
  <2>1. \A j \in At(targets[i]) : j = i
    BY DEF ValuesGiven, IsInjective
  <2>2. i \in At(targets[i])
    OBVIOUS
  <2> HIDE DEF At
  <2> QED BY <2>1, <2>2
<1>3. ASSUME NEW c \in DOMAIN table.column \ ToSet(targets) PROVE At(c) = {}
  BY DEF ToSet
<1> HIDE DEF At, Chosen, new
<1>4. ASSUME NEW c \in DOMAIN table.column PROVE Default(c) \in RowValues
  BY TableFacts, ValueInType, NoRowIsRow, ConstantsAreValues
<1> HIDE DEF Default
<1>5. GivenHeld(new, targets, values, NoRow, outcome)
  <2> SUFFICES ASSUME NEW i \in DOMAIN targets
               PROVE  new[targets[i]] = Stored(TypeOf(targets[i]), ValueIn(values[i], NoRow, outcome))
    BY DEF GivenHeld
  <2>1. targets[i] \in DOMAIN table.column
    BY DEF ValuesGiven, IsColumn
  <2> QED BY <1>1, <1>2, <2>1
<1>6. DefaultsHeld(new, targets, outcome)
  BY <1>1, <1>3 DEF DefaultsHeld, Default
<1>7. IsRow(new)
  <2> SUFFICES ASSUME NEW c \in DOMAIN table.column PROVE new[c] \in RowValues
    BY <1>1 DEF IsRow
  <2>1. CASE c \in ToSet(targets)
    <3>1. PICK i \in DOMAIN targets : targets[i] = c
      BY <2>1 DEF ToSet
    <3>2. values[i] \in Expr
      BY DEF ValuesGiven
    <3>3. new[c] = Stored(TypeOf(c), ValueIn(values[i], NoRow, outcome))
      BY <1>5, <3>1 DEF GivenHeld
    <3> QED BY <3>2, <3>3, ValueInType, NoRowIsRow, StoredType
  <2>2. CASE c \notin ToSet(targets)
    <3>1. new[c] = Stored(TypeOf(c), Default(c))
      BY <1>1, <1>3, <2>2
    <3> QED BY <1>4, <3>1, StoredType
  <2> QED BY <2>1, <2>2
<1> QED BY <1>1, <1>5, <1>6, <1>7 DEF new

\* The row that is stored, if there is one.
RowTyped == row = NoRow \/ row \in [DOMAIN table.column -> RowValues]

LEMMA StoredRowIsRow ==
  ASSUME RowTyped
  PROVE  IsRow(row)
BY NoRowIsRow DEF RowTyped, IsRow

LEMMA SetGiven ==
  ASSUME table \in Tables, NEW sets \in SetLists(table), Assignable(sets)
  PROVE  /\ ValuesGiven(SetColumns(sets), SetValues(sets))
         /\ DOMAIN SetColumns(sets) = DOMAIN sets
         /\ \A i \in DOMAIN sets : SetColumns(sets)[i] = sets[i][1] /\ SetValues(sets)[i] = sets[i][2]
<1>1. /\ DOMAIN SetColumns(sets) = DOMAIN sets /\ DOMAIN SetValues(sets) = DOMAIN sets
      /\ \A i \in DOMAIN sets : SetColumns(sets)[i] = sets[i][1] /\ SetValues(sets)[i] = sets[i][2]
  BY DEF SetColumns, SetValues
<1>2. DOMAIN sets \subseteq Nat /\ \A i \in DOMAIN sets :
        sets[i][2] \in Expr /\ sets[i][2] \in GivenTo(table, sets[i][1])
  BY TableFacts
<1>3. IsInjective(SetColumns(sets)) /\ \A i \in DOMAIN sets : IsColumn(sets[i][1])
  BY DEF Assignable
<1> QED BY <1>1, <1>2, <1>3 DEF ValuesGiven

LEMMA UpdatedRow ==
  ASSUME table \in Tables, NEW sets \in SetLists(table), Assignable(sets),
         row \in [DOMAIN table.column -> RowValues], NEW outcome \in RowValues
  PROVE  LET new == Updated(sets, outcome)
         IN /\ DOMAIN new = DOMAIN table.column /\ IsRow(new)
            /\ GivenHeld(new, SetColumns(sets), SetValues(sets), row, outcome)
<1> DEFINE new == Updated(sets, outcome)
           Set(c) == {i \in DOMAIN sets : sets[i][1] = c}
           Chosen(c) == CHOOSE i \in Set(c) : TRUE
<1>1. /\ DOMAIN new = DOMAIN table.column
      /\ \A c \in DOMAIN table.column :
           new[c] = IF Set(c) = {} THEN row[c]
                    ELSE Stored(TypeOf(c), ValueIn(sets[Chosen(c)][2], row, outcome))
  BY DEF Updated, TypeOf
<1>2. ASSUME NEW i \in DOMAIN sets PROVE Set(sets[i][1]) # {} /\ Chosen(sets[i][1]) = i
  <2>1. \A j \in Set(sets[i][1]) : j = i
    BY SetGiven DEF ValuesGiven, IsInjective
  <2>2. i \in Set(sets[i][1])
    OBVIOUS
  <2> HIDE DEF Set
  <2> QED BY <2>1, <2>2
<1> HIDE DEF new, Chosen
<1>3. ASSUME NEW i \in DOMAIN sets
      PROVE  /\ sets[i][1] \in DOMAIN table.column
             /\ new[sets[i][1]] = Stored(TypeOf(sets[i][1]), ValueIn(sets[i][2], row, outcome))
  <2>1. sets[i][1] \in DOMAIN table.column
    BY DEF Assignable, IsColumn
  <2> QED BY <1>1, <1>2, <2>1
<1>4. GivenHeld(new, SetColumns(sets), SetValues(sets), row, outcome)
  BY <1>3, SetGiven DEF GivenHeld
<1>5. IsRow(new)
  <2> SUFFICES ASSUME NEW c \in DOMAIN table.column PROVE new[c] \in RowValues
    BY <1>1 DEF IsRow
  <2>1. CASE Set(c) = {}
    BY <1>1, <2>1
  <2>2. CASE Set(c) # {}
    <3>1. PICK i \in DOMAIN sets : sets[i][1] = c
      BY <2>2
    <3>2. sets[i][2] \in Expr /\ IsRow(row)
      BY TableFacts, StoredRowIsRow DEF RowTyped
    <3> QED BY <1>3, <3>1, <3>2, ValueInType, StoredType
  <2> QED BY <2>1, <2>2
<1> QED BY <1>1, <1>4, <1>5 DEF new

LEMMA InsertGiven ==
  ASSUME table \in Tables, NEW list \in Lists(table), NEW values \in ValueLists(Targets(list)),
         Malformed(Targets(list), values) = {}
  PROVE  ValuesGiven(Targets(list), values)
<1> DEFINE targets == Targets(list)
           Wrong(code) ==
             CASE code = "DuplicateColumn" -> ~IsInjective(targets)
               [] code = "UnresolvedColumn" ->
                    (\E i \in DOMAIN targets : ~IsColumn(targets[i]))
                      \/ \E i \in DOMAIN values : ColumnsOf(values[i]) # {}
               [] code = "InsertArityMismatch" -> DOMAIN targets # DOMAIN values
<1>1. DOMAIN targets \subseteq Nat
  BY TableFacts DEF Targets
<1>2. \A code \in {"DuplicateColumn", "UnresolvedColumn", "InsertArityMismatch"} : ~Wrong(code)
  BY DEF Malformed
<1>3. IsInjective(targets)
  <2>1. Wrong("DuplicateColumn") <=> ~IsInjective(targets)
    OBVIOUS
  <2> HIDE DEF Wrong
  <2> QED BY <1>2, <2>1
<1>4. \A i \in DOMAIN targets : IsColumn(targets[i])
  <2>1. Wrong("UnresolvedColumn") <=>
          \/ \E i \in DOMAIN targets : ~IsColumn(targets[i])
          \/ \E i \in DOMAIN values : ColumnsOf(values[i]) # {}
    OBVIOUS
  <2> HIDE DEF Wrong
  <2> QED BY <1>2, <2>1
<1>5. DOMAIN targets = DOMAIN values
  <2>1. Wrong("InsertArityMismatch") <=> DOMAIN targets # DOMAIN values
    OBVIOUS
  <2> HIDE DEF Wrong
  <2> QED BY <1>2, <2>1
<1>6. \A i \in DOMAIN values :
        values[i] \in Given(IF IsColumn(targets[i]) THEN TypeOf(targets[i]) ELSE "Int")
  BY DEF ValueLists
<1> HIDE DEF targets, Wrong
<1>7. ASSUME NEW i \in DOMAIN targets
      PROVE  IsColumn(targets[i]) /\ values[i] \in Expr /\ values[i] \in GivenTo(table, targets[i])
  <2>1. IsColumn(targets[i]) /\ targets[i] \in DOMAIN table.column
    BY <1>4 DEF IsColumn
  <2>2. values[i] \in Given(TypeOf(targets[i]))
    BY <1>5, <1>6, <2>1
  <2> QED BY <2>1, <2>2, TableFacts
<1> QED BY <1>1, <1>3, <1>5, <1>7 DEF ValuesGiven, targets

\* What an INSERT reports of the row it proposes.
LEMMA InsertSound ==
  ASSUME table \in Tables, NEW targets, NEW values, ValuesGiven(targets, values),
         NEW outcome \in RowValues,
         RowDiagnostics(targets, values, TRUE) \cup NullLeft(targets) # {}
  PROVE  Refusal(table, Proposed(targets, values, outcome)) # "none"
<1> DEFINE new == Proposed(targets, values, outcome)
<1>1. /\ DOMAIN new = DOMAIN table.column /\ IsRow(new)
      /\ GivenHeld(new, targets, values, NoRow, outcome)
      /\ DefaultsHeld(new, targets, outcome)
  BY ProposedRow
<1> HIDE DEF new
<1>2. CASE RowDiagnostics(targets, values, TRUE) # {}
  <2>1. Refusal(table, new) # "none"
    BY <1>1, <1>2, NoRowIsRow, RowDiagnosticsSound
  <2> QED BY <2>1 DEF new
<1>3. CASE NullLeft(targets) # {}
  <2>1. Refusal(table, new) # "none"
    BY <1>1, <1>3, NullLeftSound
  <2> QED BY <2>1 DEF new
<1> QED BY <1>2, <1>3

\* What a SET clause reports of the row it makes.
LEMMA SetSound ==
  ASSUME table \in Tables, NEW sets \in SetLists(table), Assignable(sets),
         row \in [DOMAIN table.column -> RowValues], NEW outcome \in RowValues,
         SetDiagnostics(sets) \cap Violations # {}
  PROVE  Refusal(table, Updated(sets, outcome)) # "none"
<1> DEFINE new == Updated(sets, outcome)
           found == {i \in DOMAIN sets : IsColumn(sets[i][1])}
           columns == SetColumns(sets)
           values == SetValues(sets)
           reported == RowDiagnostics(columns, values, FALSE)
<1>1. SetDiagnostics(sets) = (IF found = DOMAIN sets THEN {} ELSE {"UnresolvedColumn"})
                               \cup (IF found = {} THEN {} ELSE reported)
  BY DEF SetDiagnostics
<1>2. found = DOMAIN sets
  BY DEF Assignable
<1> HIDE DEF reported, found
<1>3. reported # {}
  BY <1>1, <1>2
<1>4. /\ DOMAIN new = DOMAIN table.column /\ IsRow(new)
      /\ GivenHeld(new, columns, values, row, outcome)
  BY UpdatedRow
<1>5. ValuesGiven(columns, values)
  BY SetGiven
<1>6. IsRow(row)
  BY StoredRowIsRow DEF RowTyped
<1> HIDE DEF new, columns, values
<1>7. Refusal(table, new) # "none"
  BY <1>3, <1>4, <1>5, <1>6, RowDiagnosticsSound DEF reported
<1> QED BY <1>7 DEF new

-----------------------------------------------------------------------------
(* No false alarm.                                                          *)

SafeInv == table \in Tables /\ RowTyped /\ NoFalseAlarm

LEMMA StoreCases ==
  ASSUME NEW new, NEW why, Store(new, why)
  PROVE  reason' = why /\ (why = "none" => row' = new) /\ (why # "none" => row' = row)
BY DEF Store

\* A row that is stored is one, so that the invariant's first two parts are kept.
LEMMA RowTypedKept ==
  ASSUME RowTyped, UNCHANGED table, NEW new, NEW why, Store(new, why),
         why = "none" => DOMAIN new = DOMAIN table.column /\ IsRow(new) /\ new = [c \in DOMAIN new |-> new[c]]
  PROVE  RowTyped'
<1>1. CASE why = "none"
  <2>1. row' = new
    BY <1>1, StoreCases
  <2>2. new \in [DOMAIN table.column -> RowValues]
    BY <1>1 DEF IsRow
  <2> QED BY <2>1, <2>2 DEF RowTyped
<1>2. CASE why # "none"
  <2>1. row' = row
    BY <1>2, StoreCases
  <2> QED BY <2>1 DEF RowTyped
<1> QED BY <1>1, <1>2

LEMMA InsertValuesSafe ==
  ASSUME SafeInv, NEW outcome \in Outcomes, NEW list \in Lists(table),
         NEW sets \in {<<>>} \cup (IF row = NoRow THEN {} ELSE SetLists(table)),
         NEW values \in ValueLists(Targets(list)),
         InsertValues(list, values, sets, outcome)
  PROVE  SafeInv'
<1> DEFINE targets  == Targets(list)
           wrong    == Malformed(targets, values)
           reported == RowDiagnostics(targets, values, TRUE) \cup NullLeft(targets)
           set      == SetDiagnostics(sets)
           proposed == Proposed(targets, values, outcome)
           updated  == Updated(sets, outcome)
           first    == Refusal(table, proposed)
           updates  == sets # <<>> /\ row # NoRow
<1>1. outcome \in RowValues /\ table \in Tables /\ RowTyped
  BY TablesAssumption DEF SafeInv
<1>2. UNCHANGED table
  BY DEF InsertValues
<1>3. \/ Store(row, "error")
      \/ /\ wrong = {} /\ Assignable(sets) /\ first = "none" /\ updates
         /\ Store(updated, Refusal(table, updated))
         /\ alarms' = reported \cup set
      \/ /\ wrong = {}
         /\ Store(proposed, first)
         /\ alarms' = reported
  <2> HIDE DEF targets
  <2>1. CASE wrong # {} \/ ~Assignable(sets)
    BY <2>1 DEF InsertValues, targets
  <2>2. CASE wrong = {} /\ Assignable(sets) /\ first = "none" /\ updates
    BY <2>2 DEF InsertValues, targets
  <2>3. CASE wrong = {} /\ Assignable(sets) /\ ~(first = "none" /\ updates)
    BY <2>3 DEF InsertValues, targets
  <2> QED BY <2>1, <2>2, <2>3
<1>4. wrong = {} => ValuesGiven(targets, values)
  BY <1>1, InsertGiven
<1>5. wrong = {} => DOMAIN proposed = DOMAIN table.column /\ IsRow(proposed)
  BY <1>1, <1>4, ProposedRow
<1>6. wrong = {} /\ reported # {} => first # "none"
  BY <1>1, <1>4, InsertSound
<1>7. updates => sets \in SetLists(table) /\ row \in [DOMAIN table.column -> RowValues]
  BY <1>1 DEF RowTyped
<1>8. updates /\ Assignable(sets) => DOMAIN updated = DOMAIN table.column /\ IsRow(updated)
  BY <1>1, <1>7, UpdatedRow
<1>9. updates /\ Assignable(sets) /\ set \cap Violations # {} => Refusal(table, updated) # "none"
  BY <1>1, <1>7, SetSound
<1>10. /\ proposed = [c \in DOMAIN proposed |-> proposed[c]]
       /\ updated = [c \in DOMAIN updated |-> updated[c]]
  BY DEF Proposed, Updated
<1> HIDE DEF targets, wrong, reported, set, proposed, updated, first, updates
<1>11. CASE Store(row, "error")
  BY <1>1, <1>2, <1>11, StoreCases, RowTypedKept DEF SafeInv, NoFalseAlarm
<1>12. CASE /\ wrong = {} /\ Assignable(sets) /\ first = "none" /\ updates
            /\ Store(updated, Refusal(table, updated))
            /\ alarms' = reported \cup set
  <2>1. RowTyped'
    BY <1>1, <1>2, <1>8, <1>10, <1>12, RowTypedKept
  <2>2. reported = {}
    BY <1>6, <1>12
  <2>3. NoFalseAlarm'
    BY <1>9, <1>12, <2>2, StoreCases DEF NoFalseAlarm, Violations
  <2> QED BY <1>1, <1>2, <2>1, <2>3 DEF SafeInv
<1>13. CASE wrong = {} /\ Store(proposed, first) /\ alarms' = reported
  <2>1. RowTyped'
    BY <1>1, <1>2, <1>5, <1>10, <1>13, RowTypedKept
  <2>2. NoFalseAlarm'
    BY <1>6, <1>13, StoreCases DEF NoFalseAlarm, Violations
  <2> QED BY <1>1, <1>2, <2>1, <2>2 DEF SafeInv
<1> QED BY <1>3, <1>11, <1>12, <1>13

LEMMA InsertDefaultValuesSafe ==
  ASSUME SafeInv, NEW outcome \in Outcomes, InsertDefaultValues(outcome)
  PROVE  SafeInv'
<1> DEFINE proposed == Proposed(<<>>, <<>>, outcome)
<1>1. outcome \in RowValues /\ table \in Tables /\ RowTyped
  BY TablesAssumption DEF SafeInv
<1>2. UNCHANGED table /\ Store(proposed, Refusal(table, proposed)) /\ alarms' = NullLeft(<<>>)
  BY DEF InsertDefaultValues
<1>3. ValuesGiven(<<>>, <<>>)
  BY DEF ValuesGiven, IsInjective
<1>4. DOMAIN proposed = DOMAIN table.column /\ IsRow(proposed)
  BY <1>1, <1>3, ProposedRow
<1>5. NullLeft(<<>>) # {} => Refusal(table, proposed) # "none"
  BY <1>1, <1>3, InsertSound
<1>6. proposed = [c \in DOMAIN proposed |-> proposed[c]]
  BY DEF Proposed
<1> HIDE DEF proposed
<1>7. RowTyped'
  BY <1>1, <1>2, <1>4, <1>6, RowTypedKept
<1>8. NoFalseAlarm'
  BY <1>2, <1>5, StoreCases DEF NoFalseAlarm
<1> QED BY <1>1, <1>2, <1>7, <1>8 DEF SafeInv

LEMMA UpdateSetSafe ==
  ASSUME SafeInv, NEW outcome \in Outcomes, NEW sets \in SetLists(table), UpdateSet(sets, outcome)
  PROVE  SafeInv'
<1> DEFINE new == Updated(sets, outcome)
           set == SetDiagnostics(sets)
<1>1. outcome \in RowValues /\ table \in Tables /\ RowTyped
  BY TablesAssumption DEF SafeInv
<1>2. /\ UNCHANGED table /\ row # NoRow /\ alarms' = set
      /\ (Assignable(sets) /\ Store(new, Refusal(table, new))) \/ Store(row, "error")
  BY DEF UpdateSet
<1>3. row \in [DOMAIN table.column -> RowValues]
  BY <1>1, <1>2 DEF RowTyped
<1>4. Assignable(sets) => DOMAIN new = DOMAIN table.column /\ IsRow(new)
  BY <1>1, <1>3, UpdatedRow
<1>5. Assignable(sets) /\ set \cap Violations # {} => Refusal(table, new) # "none"
  BY <1>1, <1>3, SetSound
<1>6. new = [c \in DOMAIN new |-> new[c]]
  BY DEF Updated
<1> HIDE DEF new, set
<1>7. CASE Store(row, "error")
  BY <1>1, <1>2, <1>7, StoreCases, RowTypedKept DEF SafeInv, NoFalseAlarm
<1>8. CASE Assignable(sets) /\ Store(new, Refusal(table, new))
  <2>1. RowTyped'
    BY <1>1, <1>2, <1>4, <1>6, <1>8, RowTypedKept
  <2>2. NoFalseAlarm'
    BY <1>2, <1>5, <1>8, StoreCases DEF NoFalseAlarm
  <2> QED BY <1>1, <1>2, <2>1, <2>2 DEF SafeInv
<1> QED BY <1>2, <1>7, <1>8

LEMMA SafeInvInit == Init => SafeInv
BY DEF Init, SafeInv, RowTyped, NoFalseAlarm

LEMMA SafeInvNext == SafeInv /\ [Next]_vars => SafeInv'
<1> SUFFICES ASSUME SafeInv, [Next]_vars PROVE SafeInv'
  OBVIOUS
<1>1. ASSUME NEW outcome \in Outcomes, NEW list \in Lists(table),
             NEW sets \in {<<>>} \cup (IF row = NoRow THEN {} ELSE SetLists(table)),
             NEW values \in ValueLists(Targets(list)),
             InsertValues(list, values, sets, outcome)
      PROVE  SafeInv'
  BY <1>1, InsertValuesSafe
<1>2. ASSUME NEW outcome \in Outcomes, InsertDefaultValues(outcome) PROVE SafeInv'
  BY <1>2, InsertDefaultValuesSafe
<1>3. ASSUME NEW outcome \in Outcomes, NEW sets \in SetLists(table), UpdateSet(sets, outcome)
      PROVE  SafeInv'
  BY <1>3, UpdateSetSafe
<1>4. CASE UNCHANGED vars
  BY <1>4 DEF vars, SafeInv, RowTyped, NoFalseAlarm
<1> QED BY <1>1, <1>2, <1>3, <1>4 DEF Next

\* A violation that analyze_insert or analyze_update reports before the statement runs makes the
\* statement fail, whatever the stored row holds and opaque expressions yield, for all tables and
\* statements whose constants are stored as they are read (ConversionAssumption).
THEOREM NoFalseAlarmHolds == Spec => []NoFalseAlarm
<1>1. SafeInv => NoFalseAlarm
  BY DEF SafeInv
<1> QED BY <1>1, SafeInvInit, SafeInvNext, PTL DEF Spec

-----------------------------------------------------------------------------
(* Certain violations.                                                      *)

\* A node of kind K has the same value on both sides, or none on either.
Kinded(K, p, q) == (p # Fail /\ q = p /\ p.k \in {K, "Null"}) \/ (p = Fail /\ q = Error)

\* Operands that are compared without a conversion.
Alike(K, L) == {K, L} \subseteq {"Int", "Dbl", "Null"} \/ \E k \in {"Str", "Bool"} : {K, L} \subseteq {k, "Null"}

KindOfTwo(K, L) == IF "Null" \in {K, L} THEN "Null" ELSE IF "Dbl" \in {K, L} THEN "Dbl" ELSE "Int"

LEMMA KindedFacts ==
  ASSUME NEW K, NEW p, NEW q, Kinded(K, p, q)
  PROVE  UpToNull(p, q) /\ NullKept(p, q) /\ Convertible(p, q) /\ (p = Fail => q = Error)
BY TruthOf DEF Kinded, UpToNull, NullKept, Convertible

\* A result that is sound, is no value where the engine has none, and has the kind K.
LEMMA KindedResult ==
  ASSUME NEW K, NEW l, NEW r, NEW x, NEW y, NEW p, NEW q,
         ResultSound(l, x, r, y, p, q), NullKept(l, x), NullKept(r, y),
         p = Fail => q = Error, p # Fail => p.k \in {K, "Null"}
  PROVE  Kinded(K, p, q)
BY DEF ResultSound, UpToNull, NullKept, Kinded

LEMMA TruthKind ==
  ASSUME NEW p, p \in {NullValue, True, False}
  PROVE  p.k \in {"Bool", "Null"}
BY TruthOf

LEMMA CompareComplete ==
  ASSUME NEW op, NEW K, NEW L, Alike(K, L),
         NEW l \in EvalValues, NEW r \in EvalValues, NEW x \in RowValues, NEW y \in RowValues,
         Kinded(K, l, x), Kinded(L, r, y)
  PROVE  Kinded("Bool", Propagate({l, r}, Compare(op, l, r)), Related(op, x, y))
<1> DEFINE v == Compare(op, l, r)
           p == Propagate({l, r}, v)
           q == Related(op, x, y)
<1>1. /\ UpToNull(l, x) /\ NullKept(l, x) /\ (l = Fail => x = Error)
      /\ UpToNull(r, y) /\ NullKept(r, y) /\ (r = Fail => y = Error)
  BY KindedFacts
<1>2. ResultSound(l, x, r, y, p, q)
  BY <1>1, CompareSound
<1>3. p \in {Fail, NullValue, True, False}
  <2>1. v \in {Fail, True, False}
    BY CompareType
  <2> HIDE DEF v
  <2> QED BY <2>1, PropagateType
<1>4. ASSUME p = Fail PROVE q = Error
  <2>1. CASE l = Fail \/ r = Fail
    <3>1. \A w : Strict({x, y}, w) = Error
      BY <1>1, <2>1, StrictCases
    <3> QED BY <3>1 DEF Related
  <2>2. CASE l # Fail /\ r # Fail
    <3>1. l # NullValue /\ r # NullValue
      <4>1. l = NullValue \/ r = NullValue => p = NullValue
        <5> HIDE DEF v
        <5> QED BY <2>2, PropagateCases
      <4> HIDE DEF p
      <4> QED BY <1>4, <4>1, TruthOf
    <3>2. l.k \in {K} /\ r.k \in {L}
      BY <2>2, <3>1, EvalValueFacts DEF Kinded
    <3>3. (l.k = r.k /\ l.k \in {"Int", "Dbl", "Str", "Bool"}) \/ (IsNumeric(l) /\ IsNumeric(r))
      <4>1. l.k # "Null" /\ r.k # "Null"
        BY <3>1, EvalValueFacts
      <4> QED BY <3>2, <4>1 DEF Alike, IsNumeric
    <3>4. v \in {True, False}
      BY <3>3, TruthIsTrueOrFalse DEF Compare
    <3>5. p = v
      <4> HIDE DEF v
      <4> QED BY <2>2, <3>1, PropagateCases
    <3> QED BY <1>4, <3>4, <3>5, TruthOf
  <2> QED BY <2>1, <2>2
<1> HIDE DEF p, q
<1>5. p # Fail => p.k \in {"Bool", "Null"}
  BY <1>3, TruthKind
<1>6. Kinded("Bool", p, q)
  BY <1>1, <1>2, <1>4, <1>5, KindedResult
<1> QED BY <1>6 DEF p, q, v

LEMMA ArithmeticComplete ==
  ASSUME NEW op \in ArithmeticOps, NEW K \in {"Int", "Dbl", "Null"}, NEW L \in {"Int", "Dbl", "Null"},
         ~(op = "%" /\ "Dbl" \in {K, L}),
         NEW l \in EvalValues, NEW r \in EvalValues, NEW x \in RowValues, NEW y \in RowValues,
         Kinded(K, l, x), Kinded(L, r, y)
  PROVE  Kinded(KindOfTwo(K, L), Propagate({l, r}, EvalArithmetic(op, l, r)), Calculated(op, x, y))
<1> DEFINE v == EvalArithmetic(op, l, r)
           p == Propagate({l, r}, v)
           q == Calculated(op, x, y)
           ints == l.k = "Int" /\ r.k = "Int"
           zero == op \in {"/", "%"} /\ r.v = 0
           n == Exact(op, l.v, r.v)
           d == ExactDouble(op, AsDouble(l), AsDouble(r))
<1>1. /\ UpToNull(l, x) /\ NullKept(l, x) /\ (l = Fail => x = Error)
      /\ UpToNull(r, y) /\ NullKept(r, y) /\ (r = Fail => y = Error)
  BY KindedFacts
<1>2. ResultSound(l, x, r, y, p, q)
  BY <1>1, ArithmeticSound
<1>3. CASE l = Fail \/ r = Fail
  <2>1. p = Fail
    <3> HIDE DEF v
    <3> QED BY <1>3, PropagateCases
  <2>2. \A w : Strict({x, y}, w) = Error
    BY <1>1, <1>3, StrictCases
  <2>3. q = Error
    BY <2>2 DEF Calculated
  <2> HIDE DEF p, q
  <2> QED BY <2>1, <2>3 DEF Kinded, p, q, v
<1>4. CASE l # Fail /\ r # Fail /\ (l = NullValue \/ r = NullValue)
  <2>1. p = NullValue
    <3> HIDE DEF v
    <3> QED BY <1>4, PropagateCases
  <2> HIDE DEF p, q
  <2>2. p # Fail /\ p.k \in {KindOfTwo(K, L), "Null"}
    BY <2>1, TruthOf
  <2>3. Kinded(KindOfTwo(K, L), p, q)
    BY <1>1, <1>2, <2>2, KindedResult
  <2> QED BY <2>3 DEF p, q, v
<1>5. CASE l # Fail /\ r # Fail /\ l # NullValue /\ r # NullValue
  <2>1. x = l /\ y = r /\ l.k = K /\ r.k = L /\ K # "Null" /\ L # "Null"
    <3>1. l.k # "Null" /\ r.k # "Null"
      BY <1>5, EvalValueFacts
    <3> QED BY <1>5, <3>1 DEF Kinded
  <2>2. p = v
    <3> HIDE DEF v
    <3> QED BY <1>5, PropagateCases
  <2>3. IsNumeric(l) /\ IsNumeric(r) /\ ~(op = "%" /\ ~ints)
    BY <2>1 DEF IsNumeric
  <2>4. v = IF zero THEN Fail ELSE IF ints THEN Inside(n) ELSE Value("Dbl", d)
    BY <2>3 DEF EvalArithmetic
  <2>5. q = IF zero THEN Error
            ELSE IF ints /\ n \notin Int64 THEN Error
            ELSE IF ints THEN Value("Int", n) ELSE Value("Dbl", d)
    <3> DEFINE exact == IF ints THEN Value("Int", n) ELSE Value("Dbl", d)
               w == IF zero THEN Error ELSE IF ints /\ exact.v \notin Int64 THEN Error ELSE exact
    <3>1. q = Strict({x, y}, w)
      BY <2>1 DEF Calculated
    <3>2. x # Error /\ y # Error /\ x # NullValue /\ y # NullValue
      BY <1>5, <2>1, TruthOf
    <3>3. q = w
      <4> HIDE DEF w, q
      <4> QED BY <3>1, <3>2, StrictCases
    <3>4. ints => exact.v = n
      BY DEF Value
    <3> HIDE DEF n, d, zero, ints
    <3> QED BY <3>3, <3>4
  <2>6. ints => KindOfTwo(K, L) = "Int"
    BY <2>1 DEF KindOfTwo
  <2>7. ~ints => KindOfTwo(K, L) = "Dbl"
    BY <2>1 DEF KindOfTwo
  <2>8. Value("Int", n).k = "Int" /\ Value("Dbl", d).k = "Dbl"
    BY DEF Value
  <2>9. v = IF zero THEN Fail
            ELSE IF ints /\ n \notin Int64 THEN Fail
            ELSE IF ints THEN Value("Int", n) ELSE Value("Dbl", d)
    <3> HIDE DEF n, d, zero, ints, v
    <3> QED BY <2>4, InsideCases
  <2> HIDE DEF n, d, zero, ints, v, q
  <2>10. Kinded(KindOfTwo(K, L), v, q)
    BY <2>5, <2>6, <2>7, <2>8, <2>9, TruthOf DEF Kinded
  <2> QED BY <2>2, <2>10 DEF q, v
<1> QED BY <1>3, <1>4, <1>5

LEMMA MinusComplete ==
  ASSUME NEW K \in {"Int", "Dbl", "Null"}, NEW l \in EvalValues, NEW x \in RowValues, Kinded(K, l, x)
  PROVE  Kinded(K, EvalMinus(l), Calculated("-", Value("Int", 0), x))
<1> DEFINE p == EvalMinus(l)
           zero == Value("Int", 0)
           q == Calculated("-", zero, x)
<1>1. UpToNull(l, x) /\ NullKept(l, x) /\ (l = Fail => x = Error)
  BY KindedFacts
<1>2. ResultSound(l, x, l, x, p, q)
  BY <1>1, MinusSound
<1>3. CASE l = Fail
  <2>1. p = Fail
    BY <1>3, TruthOf DEF EvalMinus
  <2>2. \A w : Strict({zero, x}, w) = Error
    BY <1>1, <1>3, StrictCases
  <2>3. q = Error
    BY <2>2 DEF Calculated
  <2> HIDE DEF p, q
  <2> QED BY <2>1, <2>3 DEF Kinded, p, q, zero
<1>4. CASE l # Fail
  <2>1. l.k \in {"Int", "Dbl", "Null"} /\ l.k \in {K, "Null"} /\ x = l /\ l.v \in Int
    BY <1>4, EvalValueFacts DEF Kinded
  <2>2. p = Fail => q = Error
    <3> SUFFICES ASSUME p = Fail PROVE q = Error
      OBVIOUS
    <3>1. l.k = "Int" /\ Inside(-l.v) = Fail
      BY <2>1, TruthOf DEF EvalMinus, Value, Fail
    <3>2. -l.v \notin Int64
      <4>1. Value("Int", -l.v) # Fail
        BY DEF Value, Fail
      <4> QED BY <3>1, <4>1, InsideCases
    <3>3. zero.k = "Int" /\ zero.v = 0 /\ zero # Error /\ zero # NullValue
      BY DEF Value, Error, NullValue
    <3>4. x # Error /\ x # NullValue
      BY <2>1, <3>1, TruthOf
    <3>5. Exact("-", 0, l.v) = -l.v
      BY <2>1 DEF Exact
    <3> DEFINE exact == Value("Int", Exact("-", zero.v, x.v))
    <3>6. exact.v = -l.v
      BY <2>1, <3>3, <3>5 DEF Value
    <3>7. q = Strict({zero, x}, IF exact.v \notin Int64 THEN Error ELSE exact)
      <4> HIDE DEF zero
      <4> QED BY <2>1, <3>1, <3>3 DEF Calculated
    <3> HIDE DEF exact, zero
    <3>8. q = Strict({zero, x}, Error)
      BY <3>2, <3>6, <3>7
    <3> QED BY <3>3, <3>4, <3>8, StrictCases
  <2>3. p # Fail => p.k \in {K, "Null"}
    <3>1. CASE l.k = "Int"
      <4>1. p = Inside(-l.v)
        BY <3>1 DEF EvalMinus
      <4> QED BY <2>1, <3>1, <4>1 DEF Inside, Value
    <3>2. CASE l.k = "Dbl"
      BY <2>1, <3>2 DEF EvalMinus, Value
    <3>3. CASE l.k = "Null"
      BY <3>3, TruthOf DEF EvalMinus
    <3> QED BY <2>1, <3>1, <3>2, <3>3
  <2> HIDE DEF p, q
  <2>4. Kinded(K, p, q)
    BY <1>1, <1>2, <2>2, <2>3, KindedResult
  <2> QED BY <2>4 DEF p, q, zero
<1> QED BY <1>3, <1>4

LEMMA NotComplete ==
  ASSUME NEW K \in {"Bool", "Null"}, NEW l \in EvalValues, NEW x, Kinded(K, l, x)
  PROVE  Kinded("Bool", EvalNot(l), Negation(AsTruth(x)))
<1> DEFINE p == EvalNot(l)
           q == Negation(AsTruth(x))
<1>1. UpToNull(l, x) /\ NullKept(l, x) /\ Convertible(l, x) /\ (l = Fail => x = Error)
  BY KindedFacts
<1>2. ResultSound(l, x, l, x, p, q)
  BY <1>1, NotSound
<1>3. CASE l = Fail
  <2>1. p = Fail
    BY <1>3, TruthOf DEF EvalNot
  <2>2. q = Error
    BY <1>1, <1>3, AsTruthOf, TruthOf DEF AsTruth, Stored, Negation
  <2> HIDE DEF p, q
  <2> QED BY <2>1, <2>2 DEF Kinded, p, q
<1>4. CASE l # Fail
  <2>1. l.k \in {"Bool", "Null"}
    BY <1>4 DEF Kinded
  <2>2. p \in {NullValue, True, False}
    BY <2>1, TruthIsTrueOrFalse DEF EvalNot
  <2> HIDE DEF p, q
  <2>3. p # Fail /\ p.k \in {"Bool", "Null"}
    BY <2>2, TruthKind, TruthOf
  <2>4. Kinded("Bool", p, q)
    BY <1>1, <1>2, <2>3, KindedResult
  <2> QED BY <2>4 DEF p, q
<1> QED BY <1>3, <1>4

\* Of an error, an error is made.
LEMMA ErrorPropagates ==
  /\ AsTruth(Error) = Error /\ Negation(Error) = Error
  /\ \A x, y : x # False /\ y # False /\ (x = Error \/ y = Error) => Conjunction({x, y}) = Error
<1>1. AsTruth(Error) = Error /\ Negation(Error) = Error
  BY TruthOf DEF AsTruth, Stored, Negation
<1>2. ASSUME NEW x, NEW y, x # False, y # False, x = Error \/ y = Error
      PROVE  Conjunction({x, y}) = Error
  <2>1. Conjunction({x, y}) = Strict({x, y}, True)
    BY <1>2 DEF Conjunction
  <2> QED BY <1>2, <2>1, StrictCases
<1> QED BY <1>1, <1>2

\* What AND and OR take of an operand of kind K.
LEMMA TruthComplete ==
  ASSUME NEW K \in {"Bool", "Null"}, NEW l \in EvalValues, NEW x, Kinded(K, l, x)
  PROVE  /\ l \in {Fail, NullValue, True, False}
         /\ AsTruth(x) = IF l = Fail THEN Error ELSE l
         /\ l \in {NullValue, True, False} <=> l.k \in {"Bool", "Null"}
<1>1. UpToNull(l, x) /\ NullKept(l, x) /\ Convertible(l, x) /\ (l = Fail => x = Error)
  BY KindedFacts
<1>2. l # Fail => l \in {NullValue, True, False}
  BY EvalValueFacts DEF Kinded
<1>3. AsTruth(x) = IF l = Fail THEN Error ELSE l
  BY <1>1, <1>2, TruthOperand, ErrorPropagates
<1>4. l \in {NullValue, True, False} <=> l.k \in {"Bool", "Null"}
  BY <1>2, TruthOf
<1> QED BY <1>2, <1>3, <1>4

LEMMA AndComplete ==
  ASSUME NEW K \in {"Bool", "Null"}, NEW L \in {"Bool", "Null"},
         NEW l \in EvalValues, NEW r \in EvalValues, NEW x, NEW y, Kinded(K, l, x), Kinded(L, r, y)
  PROVE  Kinded("Bool", EvalLogical("AND", l, r), Conjunction({AsTruth(x), AsTruth(y)}))
<1> DEFINE p == EvalLogical("AND", l, r)
           s == AsTruth(x)
           t == AsTruth(y)
           q == Conjunction({s, t})
<1>1. /\ UpToNull(l, x) /\ NullKept(l, x) /\ Convertible(l, x)
      /\ UpToNull(r, y) /\ NullKept(r, y) /\ Convertible(r, y)
  BY KindedFacts
<1>2. ResultSound(l, x, r, y, p, q)
  BY <1>1, AndSound
<1>3. p \in {Fail, NullValue, True, False}
  BY EvalLogicalType
<1>4. p = Fail => False \notin {l, r} /\ Fail \in {l, r}
  <2>1. False \in {l, r} => p = False
    BY TruthOf DEF EvalLogical
  <2>2. ASSUME l \in {True, NullValue}, r \in {True, NullValue} PROVE p \in {True, NullValue}
    <3>1. False \notin {l, r} /\ Fail \notin {l, r} /\ l.k \in {"Bool", "Null"} /\ r.k \in {"Bool", "Null"}
      BY <2>2, TruthOf
    <3>2. p = Propagate({l, r}, True)
      BY <3>1, TruthOf DEF EvalLogical
    <3> HIDE DEF p
    <3> QED BY <3>1, <3>2 DEF Propagate
  <2>3. l \in {Fail, NullValue, True, False} /\ r \in {Fail, NullValue, True, False}
    BY TruthComplete
  <2> HIDE DEF p
  <2> QED BY <2>1, <2>2, <2>3, TruthOf
<1>5. s = (IF l = Fail THEN Error ELSE l) /\ t = (IF r = Fail THEN Error ELSE r)
  BY TruthComplete
<1> HIDE DEF p, s, t
<1>6. p = Fail => q = Error
  BY <1>4, <1>5, ErrorPropagates, TruthOf
<1>7. p # Fail => p.k \in {"Bool", "Null"}
  BY <1>3, TruthKind
<1> HIDE DEF q
<1>8. Kinded("Bool", p, q)
  BY <1>1, <1>2, <1>6, <1>7, KindedResult
<1> QED BY <1>8 DEF p, q, s, t

LEMMA OrComplete ==
  ASSUME NEW K \in {"Bool", "Null"}, NEW L \in {"Bool", "Null"},
         NEW l \in EvalValues, NEW r \in EvalValues, NEW x, NEW y, Kinded(K, l, x), Kinded(L, r, y)
  PROVE  Kinded("Bool", EvalLogical("OR", l, r),
                Negation(Conjunction({Negation(AsTruth(x)), Negation(AsTruth(y))})))
<1> DEFINE p == EvalLogical("OR", l, r)
           s == Negation(AsTruth(x))
           t == Negation(AsTruth(y))
           q == Negation(Conjunction({s, t}))
<1>1. /\ UpToNull(l, x) /\ NullKept(l, x) /\ Convertible(l, x)
      /\ UpToNull(r, y) /\ NullKept(r, y) /\ Convertible(r, y)
  BY KindedFacts
<1>2. ResultSound(l, x, r, y, p, q)
  BY <1>1, OrSound
<1>3. p \in {Fail, NullValue, True, False}
  BY EvalLogicalType
<1>4. p = Fail => True \notin {l, r} /\ Fail \in {l, r}
  <2>1. True \in {l, r} => p = True
    BY TruthOf DEF EvalLogical
  <2>2. ASSUME l \in {False, NullValue}, r \in {False, NullValue} PROVE p \in {False, NullValue}
    <3>1. True \notin {l, r} /\ Fail \notin {l, r} /\ l.k \in {"Bool", "Null"} /\ r.k \in {"Bool", "Null"}
      BY <2>2, TruthOf
    <3>2. p = Propagate({l, r}, False)
      BY <3>1, TruthOf DEF EvalLogical
    <3> HIDE DEF p
    <3> QED BY <3>1, <3>2 DEF Propagate
  <2>3. l \in {Fail, NullValue, True, False} /\ r \in {Fail, NullValue, True, False}
    BY TruthComplete
  <2> HIDE DEF p
  <2> QED BY <2>1, <2>2, <2>3, TruthOf
<1>5. /\ AsTruth(x) = (IF l = Fail THEN Error ELSE l) /\ AsTruth(y) = (IF r = Fail THEN Error ELSE r)
      /\ l \in {Fail, NullValue, True, False} /\ r \in {Fail, NullValue, True, False}
  BY TruthComplete
<1>6. /\ l = Fail => s = Error
      /\ r = Fail => t = Error
      /\ l # True => s # False
      /\ r # True => t # False
  BY <1>5, ErrorPropagates, NegationOf, TruthOf
<1> HIDE DEF p, s, t
<1>7. p = Fail => q = Error
  BY <1>4, <1>6, ErrorPropagates
<1>8. p # Fail => p.k \in {"Bool", "Null"}
  BY <1>3, TruthKind
<1> HIDE DEF q
<1>9. Kinded("Bool", p, q)
  BY <1>1, <1>2, <1>7, <1>8, KindedResult
<1> QED BY <1>9 DEF p, q, s, t

EvalNullTest(op, l) == EvalIsNull(op = "IS NOT NULL", l)

NullTest(op, x) ==
  IF x = Error THEN Error ELSE IF op = "IS NULL" THEN Truth(x = NullValue) ELSE Truth(x # NullValue)

LEMMA NullTestComplete ==
  ASSUME NEW op \in NullTests, NEW K, NEW l \in EvalValues, NEW x \in RowValues, Kinded(K, l, x)
  PROVE  Kinded("Bool", EvalNullTest(op, l), NullTest(op, x))
<1> DEFINE p == EvalNullTest(op, l)
           q == NullTest(op, x)
<1>1. p = Fail \/ q = p
  BY KindedFacts, NullTestSound DEF EvalNullTest, NullTest
<1>2. CASE l = Fail
  <2>1. p = Fail
    BY <1>2 DEF EvalNullTest, EvalIsNull
  <2>2. q = Error
    BY <1>2, KindedFacts DEF NullTest
  <2> HIDE DEF p, q
  <2> QED BY <2>1, <2>2 DEF Kinded, p, q
<1>3. CASE l # Fail
  <2>1. p \in {True, False}
    BY <1>3, TruthIsTrueOrFalse DEF EvalNullTest, EvalIsNull
  <2> HIDE DEF p, q
  <2>2. Kinded("Bool", p, q)
    BY <1>1, <2>1, TruthOf DEF Kinded
  <2> QED BY <2>2 DEF p, q
<1> QED BY <1>2, <1>3

\* The kinds of a node and of its arguments, where it has one.
LEMMA KindLeaf ==
  ASSUME NEW x \in Expr, NEW arg, NEW kinds, KindNode(x, arg, kinds) # "None"
  PROVE  /\ x.op = "literal" => KindNode(x, arg, kinds) = x.leaf.k
         /\ x.op = "column" => x.leaf \in DOMAIN kinds /\ KindNode(x, arg, kinds) = kinds[x.leaf]
         /\ x.op # "opaque" /\ x.op \notin BetweenOps
<1> USE DEF KindNode, LogicalOps, NullTests, BetweenOps, ComparisonOps, ArithmeticOps
<1>1. x.op = "literal" => KindNode(x, arg, kinds) = x.leaf.k
  OBVIOUS
<1>2. x.op = "column" => x.leaf \in DOMAIN kinds /\ KindNode(x, arg, kinds) = kinds[x.leaf]
  OBVIOUS
<1>3. x.op # "opaque" /\ x.op \notin BetweenOps
  OBVIOUS
<1> QED BY <1>1, <1>2, <1>3

LEMMA KindOne ==
  ASSUME NEW x \in Expr, NEW arg, NEW kinds, KindNode(x, arg, kinds) # "None", DOMAIN x.args = {1}
  PROVE  /\ x.op = "NOT" => KindNode(x, arg, kinds) = "Bool" /\ arg[1] \in {"Bool", "Null"}
         /\ x.op \in NullTests => KindNode(x, arg, kinds) = "Bool" /\ arg[1] # "None"
         /\ x.op = "-" => KindNode(x, arg, kinds) = arg[1] /\ arg[1] \in {"Int", "Dbl", "Null"}
<1> DEFINE all == {arg[i] : i \in DOMAIN x.args}
           numbers == all \subseteq {"Int", "Dbl", "Null"} /\ ~(x.op = "%" /\ "Dbl" \in all)
           alike == numbers \/ \E k \in {"Str", "Bool"} : all \subseteq {k, "Null"}
           K == KindNode(x, arg, kinds)
<1>1. K = CASE x.op = "literal" -> x.leaf.k
            [] x.op = "column" /\ x.leaf \in DOMAIN kinds -> kinds[x.leaf]
            [] x.op \in LogicalOps /\ all \subseteq {"Bool", "Null"} -> "Bool"
            [] x.op \in NullTests /\ "None" \notin all -> "Bool"
            [] x.op \in ComparisonOps /\ alike -> "Bool"
            [] x.op \in ArithmeticOps /\ numbers ->
                 IF "Null" \in all THEN "Null" ELSE IF "Dbl" \in all THEN "Dbl" ELSE "Int"
            [] OTHER -> "None"
  BY DEF KindNode
<1>2. all = {arg[1]}
  OBVIOUS
<1> HIDE DEF all, alike, K
<1> USE DEF LogicalOps, NullTests, ComparisonOps, ArithmeticOps
<1>3. K # "None"
  BY DEF K
<1>4. ASSUME x.op = "NOT" PROVE K = "Bool" /\ arg[1] \in {"Bool", "Null"}
  BY <1>1, <1>2, <1>3, <1>4
<1>5. ASSUME x.op \in NullTests PROVE K = "Bool" /\ arg[1] # "None"
  BY <1>1, <1>2, <1>3, <1>5
<1>6. ASSUME x.op = "-" PROVE K = arg[1] /\ arg[1] \in {"Int", "Dbl", "Null"}
  <2>1. numbers /\ K = IF "Null" \in all THEN "Null" ELSE IF "Dbl" \in all THEN "Dbl" ELSE "Int"
    BY <1>1, <1>3, <1>6
  <2> QED BY <1>2, <2>1
<1> QED BY <1>4, <1>5, <1>6 DEF K

LEMMA KindTwo ==
  ASSUME NEW x \in Expr, NEW arg, NEW kinds, KindNode(x, arg, kinds) # "None", DOMAIN x.args = {1, 2}
  PROVE  /\ x.op \in {"AND", "OR"} =>
              /\ KindNode(x, arg, kinds) = "Bool"
              /\ arg[1] \in {"Bool", "Null"} /\ arg[2] \in {"Bool", "Null"}
         /\ x.op \in ComparisonOps => KindNode(x, arg, kinds) = "Bool" /\ Alike(arg[1], arg[2])
         /\ x.op \in ArithmeticOps =>
              /\ arg[1] \in {"Int", "Dbl", "Null"} /\ arg[2] \in {"Int", "Dbl", "Null"}
              /\ ~(x.op = "%" /\ "Dbl" \in {arg[1], arg[2]})
              /\ KindNode(x, arg, kinds) = KindOfTwo(arg[1], arg[2])
<1> DEFINE all == {arg[i] : i \in DOMAIN x.args}
           numbers == all \subseteq {"Int", "Dbl", "Null"} /\ ~(x.op = "%" /\ "Dbl" \in all)
           alike == numbers \/ \E k \in {"Str", "Bool"} : all \subseteq {k, "Null"}
           K == KindNode(x, arg, kinds)
<1>1. K = CASE x.op = "literal" -> x.leaf.k
            [] x.op = "column" /\ x.leaf \in DOMAIN kinds -> kinds[x.leaf]
            [] x.op \in LogicalOps /\ all \subseteq {"Bool", "Null"} -> "Bool"
            [] x.op \in NullTests /\ "None" \notin all -> "Bool"
            [] x.op \in ComparisonOps /\ alike -> "Bool"
            [] x.op \in ArithmeticOps /\ numbers ->
                 IF "Null" \in all THEN "Null" ELSE IF "Dbl" \in all THEN "Dbl" ELSE "Int"
            [] OTHER -> "None"
  BY DEF KindNode
<1>2. all = {arg[1], arg[2]}
  OBVIOUS
<1> HIDE DEF all, alike, numbers, K
<1>3. K # "None"
  BY DEF K
<1>4. ASSUME x.op \in {"AND", "OR"}
      PROVE  K = "Bool" /\ arg[1] \in {"Bool", "Null"} /\ arg[2] \in {"Bool", "Null"}
  BY <1>1, <1>2, <1>3, <1>4 DEF LogicalOps, NullTests, ComparisonOps, ArithmeticOps
<1>5. ASSUME x.op \in ComparisonOps PROVE K = "Bool" /\ Alike(arg[1], arg[2])
  <2>1. K = "Bool" /\ alike
    BY <1>1, <1>3, <1>5 DEF LogicalOps, NullTests, ComparisonOps, ArithmeticOps
  <2> QED BY <1>2, <2>1 DEF alike, numbers, Alike
<1>6. ASSUME x.op \in ArithmeticOps
      PROVE  /\ arg[1] \in {"Int", "Dbl", "Null"} /\ arg[2] \in {"Int", "Dbl", "Null"}
             /\ ~(x.op = "%" /\ "Dbl" \in {arg[1], arg[2]})
             /\ K = KindOfTwo(arg[1], arg[2])
  <2>1. numbers /\ K = IF "Null" \in all THEN "Null" ELSE IF "Dbl" \in all THEN "Dbl" ELSE "Int"
    BY <1>1, <1>3, <1>6 DEF LogicalOps, NullTests, ComparisonOps, ArithmeticOps
  <2> QED BY <1>2, <2>1 DEF numbers, KindOfTwo
<1> QED BY <1>4, <1>5, <1>6 DEF K

\* A node that has a kind has arguments that do.
LEMMA KindOfArguments ==
  ASSUME NEW x \in Expr, NEW arg, NEW kinds, KindNode(x, arg, kinds) # "None"
  PROVE  \A i \in DOMAIN x.args : arg[i] # "None"
<1>1. CASE x.op \in {"literal", "column", "opaque"}
  BY <1>1, Shapes
<1>2. CASE x.op \in {"NOT"} \cup NullTests
  BY <1>2, Shapes, KindOne
<1>3. CASE IsUnaryMinus(x)
  BY <1>3, KindOne DEF IsUnaryMinus
<1>4. CASE x.op \in {"AND", "OR"}
  BY <1>4, Shapes, KindTwo
<1>5. CASE x.op \in ComparisonOps
  <2>1. Alike(arg[1], arg[2]) /\ DOMAIN x.args = {1, 2}
    BY <1>5, Shapes, KindTwo
  <2> QED BY <2>1 DEF Alike
<1>6. CASE IsBinary(x)
  BY <1>6, KindTwo DEF IsBinary
<1> QED BY <1>1, <1>2, <1>3, <1>4, <1>5, <1>6, Shapes, KindLeaf

\* The kinds of all nodes of a tree.
IsKinding(h, e, kinds) ==
  /\ \A x \in NodesOf[e] : h[x] = KindNode(x, [i \in DOMAIN x.args |-> h[x.args[i]]], kinds)
  /\ KindOf(e, kinds) = h[e]

KindSet(kinds) == {"Int", "Dbl", "Str", "Bool", "Null", "None"} \cup {kinds[c] : c \in DOMAIN kinds}

LEMMA KindNodeType ==
  ASSUME NEW x \in Expr, NEW arg, NEW kinds
  PROVE  KindNode(x, arg, kinds) \in KindSet(kinds)
<1>1. CASE KindNode(x, arg, kinds) = "None"
  BY <1>1 DEF KindSet
<1>2. CASE KindNode(x, arg, kinds) # "None"
  <2> DEFINE K == KindNode(x, arg, kinds)
  <2>1. CASE x.op = "literal"
    <3>1. K = x.leaf.k
      BY <1>2, <2>1, KindLeaf
    <3>2. x.leaf \in LiteralValues
      BY <2>1, TreesAssumption
    <3>3. x.leaf.k \in {"Int", "Dbl", "Str", "Bool", "Null"}
      BY <3>2, TruthOf DEF LiteralValues
    <3> QED BY <3>1, <3>3 DEF KindSet
  <2>2. CASE x.op = "column"
    BY <1>2, <2>2, KindLeaf DEF KindSet
  <2>3. CASE x.op \notin {"literal", "column"}
    <3>1. K \in {"Bool", "Null", "Dbl", "Int"}
      BY <1>2, <2>3 DEF KindNode
    <3> QED BY <3>1 DEF KindSet
  <2> QED BY <2>1, <2>2, <2>3
<1> QED BY <1>1, <1>2

LEMMA KindingExists ==
  ASSUME NEW e \in Expr, NEW kinds
  PROVE  \E h : IsKinding(h, e, kinds)
<1> DEFINE X == NodesOf[e]
           V == KindSet(kinds)
           Args(x, f) == [i \in DOMAIN x.args |-> f[x.args[i]]]
           Pairs == UNION {{x} \X [DOMAIN x.args -> V] : x \in X}
           Node == [p \in Pairs |-> KindNode(p[1], p[2], kinds)]
           IsKind(f) == f = [x \in X |-> KindNode(x, Args(x, f), kinds)]
<1>1. X \subseteq Expr /\ \A x \in X : \A i \in DOMAIN x.args : x.args[i] \in X
  BY NodesClosed
<1>2. ASSUME NEW x \in X, NEW arg \in [DOMAIN x.args -> V]
      PROVE  Node[<<x, arg>>] = KindNode(x, arg, kinds) /\ Node[<<x, arg>>] \in V
  <2>1. <<x, arg>> \in Pairs
    OBVIOUS
  <2>2. Node[<<x, arg>>] = KindNode(x, arg, kinds)
    BY <2>1
  <2>3. KindNode(x, arg, kinds) \in V
    BY <1>1, KindNodeType
  <2> QED BY <2>2, <2>3
<1>3. V # {}
  BY DEF KindSet
<1> HIDE DEF Node, V
<1>4. IsNodeStep(e, V, Node)
  BY <1>2, <1>3 DEF IsNodeStep
<1>5. PICK f \in [X -> V] : f = [x \in X |-> Node[<<x, Args(x, f)>>]]
  <2>1. PICK f : IsTreeFunction(f, e, V, Node)
    BY <1>4, TreeRecursion
  <2>2. f \in [X -> V] /\ f = [x \in X |-> Node[<<x, Args(x, f)>>]]
    BY <2>1 DEF IsTreeFunction
  <2> QED BY <2>2
<1>6. \A x \in X : Args(x, f) \in [DOMAIN x.args -> V]
  BY <1>1
<1> HIDE DEF Args, X
<1>7. IsKind(f)
  <2>1. \A x \in X : f[x] = KindNode(x, Args(x, f), kinds)
    BY <1>2, <1>5, <1>6
  <2> QED BY <2>1
<1> DEFINE h == CHOOSE h : IsKind(h)
<1>8. IsKind(h)
  BY <1>7
<1>9. KindOf(e, kinds) = h[e]
  BY DEF KindOf, Args, X
<1>10. \A x \in X : h[x] = KindNode(x, Args(x, h), kinds)
  <2> HIDE DEF h
  <2> QED BY <1>8
<1> HIDE DEF h
<1> QED BY <1>9, <1>10 DEF IsKinding, Args, X

\* The columns' values as the evaluator knows them and as the row has them, of these kinds.
KindsHeld(kinds, columns, r) ==
  \A c \in DOMAIN kinds :
    /\ c \in DOMAIN columns /\ columns[c] \in EvalValues
    /\ c \in DOMAIN r /\ r[c] \in RowValues
    /\ Kinded(kinds[c], columns[c], r[c])

NodeComplete(x, K, p, q, kinds) ==
  K # "None" => Kinded(K, p, q) /\ ColumnsOf(x) \subseteq DOMAIN kinds

LEMMA ColumnsOfNode ==
  ASSUME NEW x \in Expr, NEW S,
         x.op = "column" => x.leaf \in S,
         \A i \in DOMAIN x.args : ColumnsOf(x.args[i]) \subseteq S
  PROVE  ColumnsOf(x) \subseteq S
<1> SUFFICES ASSUME NEW y \in NodesOf[x], y.op = "column" PROVE y.leaf \in S
  BY DEF ColumnsOf
<1>1. CASE y = x
  BY <1>1
<1>2. CASE y # x
  <2>1. PICK i \in DOMAIN x.args : y \in NodesOf[x.args[i]]
    BY <1>2, NodesEquation
  <2>2. y.leaf \in ColumnsOf(x.args[i])
    BY <2>1 DEF ColumnsOf
  <2> QED BY <2>2
<1> QED BY <1>1, <1>2

LEMMA NodeStepKinded ==
  ASSUME NEW x \in Expr, NEW columns, NEW r, NEW outcome, NEW kinds,
         NEW farg \in [DOMAIN x.args -> EvalValues], NEW garg \in [DOMAIN x.args -> RowValues],
         NEW harg, KindsHeld(kinds, columns, r), KindNode(x, harg, kinds) # "None",
         \A i \in DOMAIN x.args : Kinded(harg[i], farg[i], garg[i])
  PROVE  Kinded(KindNode(x, harg, kinds), EvalNode(x, farg, columns), ValueNode(x, garg, r, outcome))
<1> DEFINE p == EvalNode(x, farg, columns)
           q == ValueNode(x, garg, r, outcome)
           K == KindNode(x, harg, kinds)
<1> SUFFICES Kinded(K, p, q)
  OBVIOUS
<1>1. CASE x.op = "literal"
  <2>1. p = x.leaf /\ q = x.leaf /\ K = x.leaf.k
    BY <1>1, EvalLeaf, ValueLeaf, KindLeaf
  <2>2. x.leaf # Fail
    BY <1>1, TreesAssumption, LiteralsAreValues
  <2> HIDE DEF p, q, K
  <2> QED BY <2>1, <2>2 DEF Kinded
<1>2. CASE x.op = "column"
  <2>1. x.leaf \in DOMAIN kinds /\ K = kinds[x.leaf]
    BY <1>2, KindLeaf
  <2>2. /\ x.leaf \in DOMAIN columns /\ x.leaf \in DOMAIN r
        /\ Kinded(kinds[x.leaf], columns[x.leaf], r[x.leaf])
    BY <2>1 DEF KindsHeld
  <2>3. p = columns[x.leaf] /\ q = r[x.leaf]
    BY <1>2, <2>2, EvalLeaf, ValueLeaf
  <2> HIDE DEF p, q, K
  <2> QED BY <2>1, <2>2, <2>3
<1>3. CASE x.op = "NOT"
  <2>1. p = EvalNot(farg[1]) /\ q = Negation(AsTruth(garg[1])) /\ DOMAIN x.args = {1}
    BY <1>3, EvalUnary, ValueUnary, Shapes
  <2>2. K = "Bool" /\ harg[1] \in {"Bool", "Null"}
    BY <1>3, <2>1, KindOne
  <2>3. farg[1] \in EvalValues /\ Kinded(harg[1], farg[1], garg[1])
    BY <2>1
  <2> HIDE DEF p, q, K
  <2> QED BY <2>1, <2>2, <2>3, NotComplete
<1>4. CASE IsUnaryMinus(x)
  <2>1. p = EvalMinus(farg[1]) /\ q = Calculated("-", Value("Int", 0), garg[1])
    BY <1>4, EvalUnary, ValueUnary
  <2>2. K = harg[1] /\ harg[1] \in {"Int", "Dbl", "Null"} /\ 1 \in DOMAIN x.args
    BY <1>4, KindOne DEF IsUnaryMinus
  <2>3. farg[1] \in EvalValues /\ garg[1] \in RowValues /\ Kinded(harg[1], farg[1], garg[1])
    BY <2>2
  <2> HIDE DEF p, q, K
  <2> QED BY <2>1, <2>2, <2>3, MinusComplete
<1>5. CASE x.op \in NullTests
  <2>1. p = EvalNullTest(x.op, farg[1])
    BY <1>5, EvalUnary DEF EvalNullTest
  <2>2. q = NullTest(x.op, garg[1])
    BY <1>5, ValueUnary DEF NullTests, NullTest
  <2>3. K = "Bool" /\ 1 \in DOMAIN x.args
    BY <1>5, Shapes, KindOne
  <2>4. farg[1] \in EvalValues /\ garg[1] \in RowValues /\ Kinded(harg[1], farg[1], garg[1])
    BY <2>3
  <2> HIDE DEF p, q, K
  <2> QED BY <1>5, <2>1, <2>2, <2>3, <2>4, NullTestComplete
<1>6. CASE x.op \in {"AND", "OR"}
  <2>1. p = EvalLogical(x.op, farg[1], farg[2]) /\ DOMAIN x.args = {1, 2}
    BY <1>6, EvalBinary, Shapes
  <2>2. K = "Bool" /\ harg[1] \in {"Bool", "Null"} /\ harg[2] \in {"Bool", "Null"}
    BY <1>6, <2>1, KindTwo
  <2>3. /\ farg[1] \in EvalValues /\ Kinded(harg[1], farg[1], garg[1])
        /\ farg[2] \in EvalValues /\ Kinded(harg[2], farg[2], garg[2])
    BY <2>1
  <2>4. CASE x.op = "AND"
    <3>1. q = Conjunction({AsTruth(garg[1]), AsTruth(garg[2])})
      BY <2>4, ValueBinary
    <3> HIDE DEF p, q, K
    <3> QED BY <2>1, <2>2, <2>3, <2>4, <3>1, AndComplete
  <2>5. CASE x.op = "OR"
    <3>1. q = Negation(Conjunction({Negation(AsTruth(garg[1])), Negation(AsTruth(garg[2]))}))
      BY <2>5, ValueBinary
    <3> HIDE DEF p, q, K
    <3> QED BY <2>1, <2>2, <2>3, <2>5, <3>1, OrComplete
  <2> QED BY <1>6, <2>4, <2>5
<1>7. CASE x.op \in ComparisonOps
  <2>1. /\ p = Propagate({farg[1], farg[2]}, Compare(x.op, farg[1], farg[2]))
        /\ q = Related(x.op, garg[1], garg[2]) /\ DOMAIN x.args = {1, 2}
    BY <1>7, EvalBinary, ValueBinary, Shapes
  <2>2. K = "Bool" /\ Alike(harg[1], harg[2])
    BY <1>7, <2>1, KindTwo
  <2>3. /\ farg[1] \in EvalValues /\ garg[1] \in RowValues /\ Kinded(harg[1], farg[1], garg[1])
        /\ farg[2] \in EvalValues /\ garg[2] \in RowValues /\ Kinded(harg[2], farg[2], garg[2])
    BY <2>1
  <2> HIDE DEF p, q, K
  <2> QED BY <2>1, <2>2, <2>3, CompareComplete
<1>8. CASE IsBinary(x)
  <2>1. /\ p = Propagate({farg[1], farg[2]}, EvalArithmetic(x.op, farg[1], farg[2]))
        /\ q = Calculated(x.op, garg[1], garg[2])
    BY <1>8, EvalBinary, ValueBinary
  <2>2. x.op \in ArithmeticOps /\ DOMAIN x.args = {1, 2}
    BY <1>8 DEF IsBinary
  <2>3. /\ harg[1] \in {"Int", "Dbl", "Null"} /\ harg[2] \in {"Int", "Dbl", "Null"}
        /\ ~(x.op = "%" /\ "Dbl" \in {harg[1], harg[2]})
        /\ K = KindOfTwo(harg[1], harg[2])
    BY <2>2, KindTwo
  <2>4. /\ farg[1] \in EvalValues /\ garg[1] \in RowValues /\ Kinded(harg[1], farg[1], garg[1])
        /\ farg[2] \in EvalValues /\ garg[2] \in RowValues /\ Kinded(harg[2], farg[2], garg[2])
    BY <2>2
  <2> HIDE DEF p, q, K
  <2> QED BY <2>1, <2>2, <2>3, <2>4, ArithmeticComplete
<1> HIDE DEF p, q
<1> QED BY <1>1, <1>2, <1>3, <1>4, <1>5, <1>6, <1>7, <1>8, Shapes, KindLeaf

\* A tree that has a kind refers to known columns only, and both sides agree on it.
LEMMA EvaluationComplete ==
  ASSUME NEW e \in Expr, NEW columns, NEW r, IsRow(r), NEW outcome \in RowValues, NEW kinds,
         \A c \in DOMAIN columns : columns[c] \in EvalValues,
         KindsHeld(kinds, columns, r), KindOf(e, kinds) # "None"
  PROVE  /\ Kinded(KindOf(e, kinds), Evaluated(e, columns), ValueIn(e, r, outcome))
         /\ ColumnsOf(e) \subseteq DOMAIN kinds
<1>1. PICK f : IsEvaluation(f, e, columns)
  BY EvaluationExists
<1>2. PICK g : IsValuation(g, e, r, outcome)
  BY ValuationExists DEF IsRow
<1>3. PICK h : IsKinding(h, e, kinds)
  BY KindingExists
<1> DEFINE P == {x \in NodesOf[e] : NodeComplete(x, h[x], f[x], g[x], kinds)}
<1>4. ASSUME NEW x \in NodesOf[e], \A i \in DOMAIN x.args : x.args[i] \in P PROVE x \in P
  <2> DEFINE farg == [i \in DOMAIN x.args |-> f[x.args[i]]]
             garg == [i \in DOMAIN x.args |-> g[x.args[i]]]
             harg == [i \in DOMAIN x.args |-> h[x.args[i]]]
  <2>1. x \in Expr /\ \A i \in DOMAIN x.args : x.args[i] \in NodesOf[e]
    BY NodesClosed
  <2>2. farg \in [DOMAIN x.args -> EvalValues]
    BY <1>1, <2>1 DEF IsEvaluation
  <2>3. garg \in [DOMAIN x.args -> RowValues]
    BY <1>2, <2>1 DEF IsValuation
  <2>4. \A i \in DOMAIN x.args : NodeComplete(x.args[i], harg[i], farg[i], garg[i], kinds)
    BY <1>4
  <2>5. f[x] = EvalNode(x, farg, columns)
    BY <1>1 DEF IsEvaluation
  <2>6. g[x] = ValueNode(x, garg, r, outcome)
    BY <1>2 DEF IsValuation
  <2>7. h[x] = KindNode(x, harg, kinds)
    BY <1>3 DEF IsKinding
  <2> HIDE DEF farg, garg, harg
  <2>8. ASSUME h[x] # "None" PROVE Kinded(h[x], f[x], g[x]) /\ ColumnsOf(x) \subseteq DOMAIN kinds
    <3>1. \A i \in DOMAIN x.args : harg[i] # "None"
      BY <2>1, <2>7, <2>8, KindOfArguments
    <3>2. \A i \in DOMAIN x.args :
            Kinded(harg[i], farg[i], garg[i]) /\ ColumnsOf(x.args[i]) \subseteq DOMAIN kinds
      BY <2>4, <3>1 DEF NodeComplete
    <3>3. Kinded(h[x], f[x], g[x])
      BY <2>1, <2>2, <2>3, <2>5, <2>6, <2>7, <2>8, <3>2, NodeStepKinded
    <3>4. x.op = "column" => x.leaf \in DOMAIN kinds
      BY <2>1, <2>7, <2>8, KindLeaf
    <3>5. ColumnsOf(x) \subseteq DOMAIN kinds
      BY <2>1, <3>2, <3>4, ColumnsOfNode
    <3> QED BY <3>3, <3>5
  <2> QED BY <2>8 DEF NodeComplete
<1>5. \A x \in NodesOf[e] : (\A i \in DOMAIN x.args : x.args[i] \in P) => x \in P
  BY <1>4
<1>6. NodesOf[e] \subseteq P
  <2> HIDE DEF P
  <2> QED BY <1>5, TreeInduction
<1>7. NodeComplete(e, h[e], f[e], g[e], kinds)
  BY <1>6, NodesClosed
<1> QED BY <1>1, <1>2, <1>3, <1>7 DEF IsEvaluation, IsValuation, IsKinding, NodeComplete

-----------------------------------------------------------------------------
(* A row of known values.                                                   *)

LEMMA EvaluatedNull ==
  ASSUME Literal(NullValue) \in Expr
  PROVE  Evaluated(Literal(NullValue), <<>>) = NullValue
<1> DEFINE e == Literal(NullValue)
<1>1. e.op = "literal" /\ e.leaf = NullValue
  BY DEF Literal
<1> HIDE DEF e
<1>2. PICK f : IsEvaluation(f, e, <<>>)
  BY EvaluationExists DEF e
<1>3. f[e] = EvalNode(e, [i \in DOMAIN e.args |-> f[e.args[i]]], <<>>)
  BY <1>2, NodesClosed DEF IsEvaluation, e
<1>4. f[e] = NullValue
  BY <1>1, <1>3, EvalLeaf DEF e
<1> QED BY <1>2, <1>4 DEF IsEvaluation, e

\* What is known of a column that is given `e`: `p` is folded of it and `q` is stored.
ColumnKnown(c, e, p, q) ==
  /\ Bindable(TypeOf(c), e)
  /\ p \in EvalValues /\ p # Fail /\ q = p
  /\ p.k \in {TypeOf(c), "Null"}
  /\ p = NullValue => e = Literal(NullValue)

LEMMA KnownConstant ==
  ASSUME table \in Tables, NEW c \in DOMAIN table.column, NEW e \in Expr, Known(TypeOf(c), e),
         NEW r, IsRow(r), NEW outcome \in RowValues
  PROVE  ColumnKnown(c, e, Evaluated(e, <<>>), Stored(TypeOf(c), ValueIn(e, r, outcome)))
<1> DEFINE type == TypeOf(c)
           p == Evaluated(e, <<>>)
           v == ValueIn(e, r, outcome)
           q == Stored(type, v)
<1>1. IsConstantExpr(e) /\ type \in {"Int", "Dbl", "Str", "Bool", "Time"}
  BY TablesAssumption DEF Known, TypeOf, Description
<1>2. CASE e = Literal(NullValue)
  <2>1. p = NullValue
    BY <1>2, EvaluatedNull
  <2>2. q = NullValue
    BY <1>2, NullIsStored
  <2>3. Bindable(type, e)
    <3>1. e.leaf = NullValue
      BY <1>2 DEF Literal
    <3>2. e.leaf.k # "Str"
      BY <3>1, TruthOf
    <3> QED BY <1>1, <3>2 DEF Bindable, CheckBindingIsSound
  <2> HIDE DEF p, q
  <2>4. ColumnKnown(c, e, p, q)
    BY <1>2, <2>1, <2>2, <2>3, TruthOf, ConstantsAreValues DEF ColumnKnown
  <2> QED BY <2>4 DEF p, q
<1>3. CASE KindOf(e, <<>>) = type /\ ValueIn(e, NoRow, NullValue).k = type
  <2> DEFINE w == ValueIn(e, NoRow, NullValue)
  <2>1. KindsHeld(<<>>, <<>>, r) /\ KindsHeld(<<>>, <<>>, NoRow)
    BY DEF KindsHeld
  <2>2. KindOf(e, <<>>) # "None" /\ NullValue \in RowValues
    BY <1>1, <1>3, ConstantsAreValues
  <2>3. Kinded(type, p, v)
    <3>1. Kinded(KindOf(e, <<>>), p, v)
      BY <2>1, <2>2, EvaluationComplete
    <3> QED BY <1>3, <3>1
  <2>4. Kinded(type, p, w)
    <3>1. Kinded(KindOf(e, <<>>), p, w)
      BY <2>1, <2>2, NoRowIsRow, EvaluationComplete
    <3> QED BY <1>3, <3>1
  <2>5. p \in EvalValues
    BY EvaluatedType
  <2>6. w.k = type
    BY <1>3
  <2> HIDE DEF p, v, w, type
  <2>7. p # Fail /\ v = p /\ p.k = type
    BY <1>1, <2>3, <2>4, <2>6, TruthOf DEF Kinded
  <2>8. type # "Time" /\ type # "Null"
    BY <1>1, <2>5, <2>7, EvalValueFacts
  <2>9. q = p
    BY <2>7, StoredUnconverted
  <2>10. Bindable(type, e)
    BY <1>1, <2>8 DEF Bindable, CheckBindingIsSound
  <2>11. p # NullValue
    BY <2>7, <2>8, TruthOf
  <2> HIDE DEF q
  <2>12. ColumnKnown(c, e, p, q)
    BY <2>5, <2>7, <2>9, <2>10, <2>11 DEF ColumnKnown, type
  <2> QED BY <2>12 DEF p, v, q, type
<1> QED BY <1>2, <1>3 DEF Known

\* Every column is given a known value, or has a known default other than NULL.
RowKnown(targets, values, applyDefaults) ==
  /\ \A i \in DOMAIN targets : Known(TypeOf(targets[i]), values[i])
  /\ \A c \in DOMAIN table.column \ ToSet(targets) :
       /\ applyDefaults /\ Description(c).hasDefault
       /\ Known(TypeOf(c), Description(c).default) /\ Description(c).default # Literal(NullValue)

LEMMA BindingsDomain ==
  ASSUME NEW targets, NEW values, NEW applyDefaults, NEW c \in DOMAIN table.column,
         DOMAIN values = DOMAIN targets,
         \/ \E i \in DOMAIN targets : targets[i] = c /\ Bindable(TypeOf(c), values[i])
         \/ /\ applyDefaults /\ c \notin ToSet(targets)
            /\ Description(c).hasDefault /\ Bindable(TypeOf(c), Description(c).default)
  PROVE  c \in DOMAIN Bindings(targets, values, applyDefaults)
BY DEF Bindings, TypeOf, IsColumn

LEMMA ColumnIsKnown ==
  ASSUME table \in Tables, NEW targets, NEW values, NEW applyDefaults, ValuesGiven(targets, values),
         RowKnown(targets, values, applyDefaults),
         NEW new, NEW r, IsRow(r), NEW outcome \in RowValues,
         GivenHeld(new, targets, values, r, outcome),
         applyDefaults => DefaultsHeld(new, targets, outcome),
         NEW c \in DOMAIN table.column
  PROVE  LET binds == Bindings(targets, values, applyDefaults)
         IN /\ c \in DOMAIN binds
            /\ ColumnKnown(c, binds[c], Evaluated(binds[c], <<>>), new[c])
            /\ binds[c] = Literal(NullValue) =>
                 \E i \in DOMAIN targets : targets[i] = c /\ values[i] = Literal(NullValue)
<1> DEFINE binds == Bindings(targets, values, applyDefaults)
<1>1. CASE c \in ToSet(targets)
  <2>1. PICK i \in DOMAIN targets : targets[i] = c
    BY <1>1 DEF ToSet
  <2> DEFINE e == values[i]
  <2>2. e \in Expr /\ Known(TypeOf(c), e) /\ DOMAIN values = DOMAIN targets
    BY <2>1 DEF ValuesGiven, RowKnown
  <2>3. new[c] = Stored(TypeOf(c), ValueIn(e, r, outcome))
    BY <2>1 DEF GivenHeld
  <2>4. ColumnKnown(c, e, Evaluated(e, <<>>), new[c])
    BY <2>2, <2>3, KnownConstant
  <2>5. c \in DOMAIN binds
    BY <2>1, <2>2, <2>4, BindingsDomain DEF ColumnKnown
  <2>6. binds[c] = e
    <3>1. \/ \E j \in DOMAIN targets : targets[j] = c /\ values[j] = binds[c]
          \/ c \in DOMAIN table.column \ ToSet(targets)
      BY <2>5, BindingsFacts
    <3>2. PICK j \in DOMAIN targets : targets[j] = c /\ values[j] = binds[c]
      BY <1>1, <3>1
    <3>3. j = i
      BY <2>1, <3>2 DEF ValuesGiven, IsInjective
    <3> QED BY <3>2, <3>3
  <2> HIDE DEF binds
  <2> QED BY <2>1, <2>4, <2>5, <2>6 DEF binds
<1>2. CASE c \notin ToSet(targets)
  <2> DEFINE e == Description(c).default
  <2>1. applyDefaults /\ Description(c).hasDefault /\ Known(TypeOf(c), e) /\ e # Literal(NullValue)
    BY <1>2 DEF RowKnown
  <2>2. e \in Expr /\ DOMAIN values = DOMAIN targets
    BY <2>1, TableFacts DEF ValuesGiven
  <2>3. new[c] = Stored(TypeOf(c), ValueIn(e, NoRow, outcome))
    BY <1>2, <2>1 DEF DefaultsHeld
  <2>4. ColumnKnown(c, e, Evaluated(e, <<>>), new[c])
    BY <2>1, <2>2, <2>3, NoRowIsRow, KnownConstant
  <2>5. c \in DOMAIN binds
    BY <1>2, <2>1, <2>2, <2>4, BindingsDomain DEF ColumnKnown
  <2>6. binds[c] = e
    <3>1. \/ \E j \in DOMAIN targets : targets[j] = c /\ values[j] = binds[c]
          \/ binds[c] = e
      BY <2>5, BindingsFacts
    <3> QED BY <1>2, <3>1 DEF ToSet
  <2> HIDE DEF binds, e
  <2> QED BY <2>1, <2>4, <2>5, <2>6 DEF binds
<1> QED BY <1>1, <1>2

LEMMA RefusalReasons ==
  ASSUME NEW t, NEW new
  PROVE  /\ Refusal(t, new) = "null" => \E c \in DOMAIN new : new[c] = NullValue /\ ~t.column[c].nullable
         /\ Refusal(t, new) = "check" => \E check \in t.checks : ValueIn(check, new, NullValue) = False
<1> DEFINE failed == \E c \in DOMAIN new : new[c] = Error
           held == \A c \in DOMAIN new : new[c] # Error
           null == \E c \in DOMAIN new : new[c] = NullValue /\ ~t.column[c].nullable
           checked == {ValueIn(check, new, NullValue) : check \in t.checks}
<1>1. Refusal(t, new) =
        CASE failed -> "error"
          [] held /\ null -> "null"
          [] OTHER -> IF False \in checked THEN "check"
                      ELSE IF Error \in checked THEN "error" ELSE "none"
  BY DEF Refusal
<1> HIDE DEF failed, held, null, checked
<1>2. Refusal(t, new) = "null" => null
  BY <1>1
<1>3. Refusal(t, new) = "check" => False \in checked
  BY <1>1
<1> QED BY <1>2, <1>3 DEF null, checked

ColumnTypes == [d \in DOMAIN table.column |-> TypeOf(d)]

LEMMA KnownReported ==
  ASSUME table \in Tables, NEW targets, NEW values, NEW applyDefaults, ValuesGiven(targets, values),
         RowKnown(targets, values, applyDefaults),
         NEW new, DOMAIN new = DOMAIN table.column, IsRow(new),
         NEW r, IsRow(r), NEW outcome \in RowValues,
         GivenHeld(new, targets, values, r, outcome),
         applyDefaults => DefaultsHeld(new, targets, outcome),
         \A check \in table.checks : KindOf(check, ColumnTypes) # "None",
         Refusal(table, new) \in {"check", "null"}
  PROVE  RowDiagnostics(targets, values, applyDefaults) # {}
<1> DEFINE binds == Bindings(targets, values, applyDefaults)
           columns == Folded(binds)
<1>1. ASSUME NEW c \in DOMAIN table.column
      PROVE  /\ c \in DOMAIN binds
             /\ ColumnKnown(c, binds[c], Evaluated(binds[c], <<>>), new[c])
             /\ binds[c] = Literal(NullValue) =>
                  \E i \in DOMAIN targets : targets[i] = c /\ values[i] = Literal(NullValue)
  BY ColumnIsKnown
<1>2. CASE Refusal(table, new) = "null"
  <2>1. PICK c \in DOMAIN new : new[c] = NullValue /\ ~table.column[c].nullable
    BY <1>2, RefusalReasons
  <2> HIDE DEF binds
  <2>2. PICK i \in DOMAIN targets : targets[i] = c /\ values[i] = Literal(NullValue)
    BY <1>1, <2>1 DEF ColumnKnown
  <2>3. i \in DOMAIN values /\ IsColumn(targets[i]) /\ ~Description(targets[i]).nullable
    BY <2>1, <2>2 DEF ValuesGiven, IsColumn, Description
  <2>4. NullGiven(targets, values) # {}
    BY <2>2, <2>3 DEF NullGiven
  <2> QED BY <2>4 DEF RowDiagnostics
<1>3. CASE Refusal(table, new) = "check"
  <2>1. PICK check \in table.checks : ValueIn(check, new, NullValue) = False
    BY <1>3, RefusalReasons
  <2>2. \A c \in DOMAIN binds : c \in DOMAIN table.column /\ columns[c] = Evaluated(binds[c], <<>>)
    BY BindingsFacts DEF Folded, IsColumn
  <2>3. DOMAIN columns = DOMAIN binds
    BY DEF Folded
  <2>4. \A c \in DOMAIN columns : columns[c] \in EvalValues
    <3> HIDE DEF columns, binds
    <3> QED BY <1>1, <2>2, <2>3 DEF ColumnKnown
  <2>5. KindsHeld(ColumnTypes, columns, new)
    <3> SUFFICES ASSUME NEW c \in DOMAIN table.column
                 PROVE  /\ c \in DOMAIN columns /\ columns[c] \in EvalValues
                        /\ c \in DOMAIN new /\ new[c] \in RowValues
                        /\ Kinded(TypeOf(c), columns[c], new[c])
      BY DEF KindsHeld, ColumnTypes
    <3>1. c \in DOMAIN binds /\ columns[c] = Evaluated(binds[c], <<>>)
      BY <1>1, <2>2
    <3> HIDE DEF columns, binds
    <3>2. ColumnKnown(c, binds[c], columns[c], new[c])
      BY <1>1, <3>1
    <3> QED BY <2>3, <3>1, <3>2 DEF ColumnKnown, Kinded, IsRow
  <2>6. check \in Expr /\ NullValue \in RowValues
    BY TableFacts, ConstantsAreValues
  <2>7. Eval(check, binds) = Evaluated(check, columns)
    BY DEF Eval
  <2> HIDE DEF columns, binds
  <2>8. /\ Kinded(KindOf(check, ColumnTypes), Evaluated(check, columns), ValueIn(check, new, NullValue))
        /\ ColumnsOf(check) \subseteq DOMAIN ColumnTypes
    BY <2>4, <2>5, <2>6, EvaluationComplete
  <2>9. Eval(check, binds) = False
    BY <2>1, <2>7, <2>8, TruthOf DEF Kinded
  <2>10. EvaluateCheck(check, binds) = False
    BY <2>9 DEF EvaluateCheck
  <2>11. ColumnsOf(check) \subseteq DOMAIN binds
    BY <1>1, <2>8 DEF ColumnTypes
  <2>12. CheckViolations(targets, values, applyDefaults) # {}
    BY <2>10, <2>11 DEF CheckViolations, binds
  <2> QED BY <2>12 DEF RowDiagnostics
<1> QED BY <1>2, <1>3

ChecksKinded == \A check \in table.checks : KindOf(check, ColumnTypes) # "None"

\* A statement that stores a row of known values, and may be refused for it.
LEMMA InsertReported ==
  ASSUME table \in Tables, NEW targets, NEW values, ValuesGiven(targets, values),
         NEW outcome \in RowValues, KnownInsert(targets, values), ChecksKinded,
         Refusal(table, Proposed(targets, values, outcome)) \in {"check", "null"}
  PROVE  (RowDiagnostics(targets, values, TRUE) \cup NullLeft(targets)) \cap Violations # {}
<1> DEFINE new == Proposed(targets, values, outcome)
<1>1. NullLeft(targets) \subseteq Violations /\ RowDiagnostics(targets, values, TRUE) \subseteq Violations
  BY DEF NullLeft, RowDiagnostics, NullGiven, CheckViolations, Violations
<1>2. CASE NullLeft(targets) # {}
  BY <1>1, <1>2
<1>3. CASE NullLeft(targets) = {}
  <2>1. \A c \in DOMAIN table.column \ ToSet(targets) :
          Description(c).nullable \/ Description(c).hasDefault
    BY <1>3 DEF NullLeft
  <2>2. RowKnown(targets, values, TRUE)
    <3>1. ASSUME NEW c \in DOMAIN table.column \ ToSet(targets)
          PROVE  /\ Description(c).hasDefault /\ Known(TypeOf(c), Description(c).default)
                 /\ Description(c).default # Literal(NullValue)
      <4>1. KnownDefault(c)
        BY DEF KnownInsert
      <4>2. Description(c).nullable \/ Description(c).hasDefault
        BY <2>1
      <4> QED BY <4>1, <4>2 DEF KnownDefault
    <3>2. \A i \in DOMAIN targets : Known(TypeOf(targets[i]), values[i])
      BY DEF KnownInsert
    <3> QED BY <3>1, <3>2 DEF RowKnown
  <2>3. /\ DOMAIN new = DOMAIN table.column /\ IsRow(new)
        /\ GivenHeld(new, targets, values, NoRow, outcome)
        /\ DefaultsHeld(new, targets, outcome)
    BY ProposedRow
  <2> HIDE DEF new
  <2>4. RowDiagnostics(targets, values, TRUE) # {}
    BY <2>2, <2>3, NoRowIsRow, KnownReported DEF ChecksKinded, new
  <2> QED BY <1>1, <2>4
<1> QED BY <1>2, <1>3

LEMMA SetReported ==
  ASSUME table \in Tables, NEW sets \in SetLists(table), Assignable(sets),
         row \in [DOMAIN table.column -> RowValues], row # NoRow, NEW outcome \in RowValues,
         KnownUpdate(sets), ChecksKinded,
         Refusal(table, Updated(sets, outcome)) \in {"check", "null"}
  PROVE  SetDiagnostics(sets) \cap Violations # {}
<1> DEFINE new == Updated(sets, outcome)
           found == {i \in DOMAIN sets : IsColumn(sets[i][1])}
           columns == SetColumns(sets)
           values == SetValues(sets)
<1>1. RowDiagnostics(columns, values, FALSE) \subseteq Violations
  BY DEF RowDiagnostics, NullGiven, CheckViolations, Violations
<1>2. ValuesGiven(columns, values) /\ DOMAIN columns = DOMAIN sets
      /\ \A i \in DOMAIN sets : columns[i] = sets[i][1] /\ values[i] = sets[i][2]
  BY SetGiven
<1>3. /\ DOMAIN new = DOMAIN table.column /\ IsRow(new)
      /\ GivenHeld(new, columns, values, row, outcome)
  BY UpdatedRow
<1>4. RowKnown(columns, values, FALSE)
  <2>1. ToSet(columns) = DOMAIN table.column
    BY DEF KnownUpdate
  <2>2. \A i \in DOMAIN columns : Known(TypeOf(columns[i]), values[i])
    BY <1>2 DEF KnownUpdate
  <2> HIDE DEF columns, values
  <2> QED BY <2>1, <2>2 DEF RowKnown
<1>5. IsRow(row)
  BY StoredRowIsRow DEF RowTyped
<1>6. Refusal(table, new) \in {"check", "null"}
  OBVIOUS
<1> HIDE DEF new, columns, values
<1>7. RowDiagnostics(columns, values, FALSE) # {}
  BY <1>2, <1>3, <1>4, <1>5, <1>6, KnownReported DEF ChecksKinded
<1>8. found # {}
  <2>1. CASE DOMAIN sets = {}
    <3>1. DOMAIN columns = {} /\ DOMAIN values = {}
      BY <1>2, <2>1 DEF ValuesGiven
    <3>2. ToSet(columns) = {}
      BY <3>1 DEF ToSet
    <3>3. DOMAIN table.column = {}
      BY <3>2 DEF KnownUpdate, columns
    <3>4. row = [i \in 1 .. 0 |-> row[i]]
      BY <3>3
    <3>5. NoRow = [i \in 1 .. 0 |-> row[i]]
      BY DEF NoRow
    <3> QED BY <3>4, <3>5
  <2>2. CASE DOMAIN sets # {}
    BY <2>2 DEF Assignable
  <2> QED BY <2>1, <2>2
<1>9. RowDiagnostics(columns, values, FALSE) \subseteq SetDiagnostics(sets)
  BY <1>8 DEF SetDiagnostics, columns, values
<1> QED BY <1>1, <1>7, <1>9

\* The invariant of both properties.
CompleteInv == SafeInv /\ CertainViolationsAreReported

\* What a statement that knew what it stored says, in the next state.
LEMMA ReportedNext ==
  ASSUME UNCHANGED table,
         sure' => (reason' \in {"check", "null"} /\ ChecksKinded => alarms' \cap Violations # {})
  PROVE  CertainViolationsAreReported'
<1>1. ColumnTypes' = ColumnTypes
  BY DEF ColumnTypes, TypeOf, Description
<1>2. [d \in DOMAIN table.column |-> TypeOf(d)]' = ColumnTypes
  BY <1>1 DEF ColumnTypes
<1>3. ChecksKinded <=> \A check \in table'.checks : KindOf(check, ColumnTypes) # "None"
  BY DEF ChecksKinded
<1> QED BY <1>2, <1>3 DEF CertainViolationsAreReported

LEMMA InsertValuesReported ==
  ASSUME SafeInv, NEW outcome \in Outcomes, NEW list \in Lists(table),
         NEW sets \in {<<>>} \cup (IF row = NoRow THEN {} ELSE SetLists(table)),
         NEW values \in ValueLists(Targets(list)),
         InsertValues(list, values, sets, outcome)
  PROVE  CertainViolationsAreReported'
<1> DEFINE targets  == Targets(list)
           wrong    == Malformed(targets, values)
           reported == RowDiagnostics(targets, values, TRUE) \cup NullLeft(targets)
           proposed == Proposed(targets, values, outcome)
           first    == Refusal(table, proposed)
           updates  == sets # <<>> /\ row # NoRow
           known    == KnownInsert(targets, values)
<1>1. outcome \in RowValues /\ table \in Tables
  BY TablesAssumption DEF SafeInv
<1>2. UNCHANGED table
  BY DEF InsertValues
<1>3. sure' => wrong = {} /\ known /\ Store(proposed, first) /\ alarms' = reported
  <2> HIDE DEF targets
  <2>1. CASE wrong # {} \/ ~Assignable(sets)
    BY <2>1 DEF InsertValues, targets
  <2>2. CASE wrong = {} /\ Assignable(sets) /\ first = "none" /\ updates
    BY <2>2 DEF InsertValues, targets
  <2>3. CASE wrong = {} /\ Assignable(sets) /\ ~(first = "none" /\ updates)
    BY <2>3 DEF InsertValues, targets
  <2> QED BY <2>1, <2>2, <2>3
<1>4. wrong = {} => ValuesGiven(targets, values)
  BY <1>1, InsertGiven
<1>5. ASSUME wrong = {}, known, ChecksKinded, first \in {"check", "null"}
      PROVE  reported \cap Violations # {}
  BY <1>1, <1>4, <1>5, InsertReported
<1> HIDE DEF targets, wrong, reported, proposed, first, known
<1>6. sure' => (reason' \in {"check", "null"} /\ ChecksKinded => alarms' \cap Violations # {})
  BY <1>3, <1>5, StoreCases
<1> QED BY <1>2, <1>6, ReportedNext

LEMMA UpdateSetReported ==
  ASSUME SafeInv, NEW outcome \in Outcomes, NEW sets \in SetLists(table), UpdateSet(sets, outcome)
  PROVE  CertainViolationsAreReported'
<1> DEFINE new == Updated(sets, outcome)
           set == SetDiagnostics(sets)
           known == Assignable(sets) /\ KnownUpdate(sets)
<1>1. outcome \in RowValues /\ table \in Tables
  BY TablesAssumption DEF SafeInv
<1>2. UNCHANGED table /\ row # NoRow /\ alarms' = set
  BY DEF UpdateSet
<1>3. sure' => known
  BY DEF UpdateSet
<1>4. known => Store(new, Refusal(table, new))
  BY DEF UpdateSet
<1>5. row \in [DOMAIN table.column -> RowValues]
  BY <1>2 DEF SafeInv, RowTyped
<1>6. ASSUME known, ChecksKinded, Refusal(table, new) \in {"check", "null"}
      PROVE  set \cap Violations # {}
  BY <1>1, <1>2, <1>5, <1>6, SetReported
<1> HIDE DEF new, set, known
<1>7. sure' => (reason' \in {"check", "null"} /\ ChecksKinded => alarms' \cap Violations # {})
  BY <1>2, <1>3, <1>4, <1>6, StoreCases
<1> QED BY <1>2, <1>7, ReportedNext

LEMMA CompleteInvNext == CompleteInv /\ [Next]_vars => CompleteInv'
<1> SUFFICES ASSUME CompleteInv, [Next]_vars PROVE CompleteInv'
  OBVIOUS
<1>1. SafeInv /\ SafeInv'
  BY SafeInvNext DEF CompleteInv
<1>2. ASSUME NEW outcome \in Outcomes, NEW list \in Lists(table),
             NEW sets \in {<<>>} \cup (IF row = NoRow THEN {} ELSE SetLists(table)),
             NEW values \in ValueLists(Targets(list)),
             InsertValues(list, values, sets, outcome)
      PROVE  CertainViolationsAreReported'
  BY <1>1, <1>2, InsertValuesReported
<1>3. ASSUME NEW outcome \in Outcomes, InsertDefaultValues(outcome)
      PROVE  CertainViolationsAreReported'
  BY <1>3 DEF InsertDefaultValues, CertainViolationsAreReported
<1>4. ASSUME NEW outcome \in Outcomes, NEW sets \in SetLists(table), UpdateSet(sets, outcome)
      PROVE  CertainViolationsAreReported'
  BY <1>1, <1>4, UpdateSetReported
<1>5. ASSUME UNCHANGED vars PROVE CertainViolationsAreReported'
  <2>1. UNCHANGED <<table, alarms, reason, sure>>
    BY <1>5 DEF vars
  <2>2. CertainViolationsAreReported
    BY DEF CompleteInv
  <2>3. sure' => (reason' \in {"check", "null"} /\ ChecksKinded => alarms' \cap Violations # {})
    BY <2>1, <2>2 DEF CertainViolationsAreReported, ChecksKinded, ColumnTypes
  <2> QED BY <2>1, <2>3, ReportedNext
<1>6. CertainViolationsAreReported'
  BY <1>2, <1>3, <1>4, <1>5 DEF Next
<1> QED BY <1>1, <1>6 DEF CompleteInv

\* A statement that stores only values the analyzer knows, and that a NOT NULL column or a CHECK
\* refuses, has been reported by analyze_insert or analyze_update, for all tables whose CHECKs
\* convert no operand.
THEOREM CertainViolationsAreReportedHold == Spec => []CertainViolationsAreReported
<1>1. Init => CompleteInv
  BY SafeInvInit DEF CompleteInv, Init, CertainViolationsAreReported
<1>2. CompleteInv => CertainViolationsAreReported
  BY DEF CompleteInv
<1> QED BY <1>1, <1>2, CompleteInvNext, PTL DEF Spec

=============================================================================

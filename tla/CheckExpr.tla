----------------------------- MODULE CheckExpr -----------------------------
(***************************************************************************)
(* Values and expression trees, shared by the constant evaluator of CHECK  *)
(* and by the reference semantics it is compared with.                     *)
(*                                                                         *)
(* A value has a kind and an integer: a string its rank among the strings, *)
(* a truth value 0 or 1, and a double its number of units of 1/Unit. An    *)
(* expression has an operator, arguments, and the value or column of a     *)
(* leaf; what recurs over trees is a function on the set of them.          *)
(***************************************************************************)
EXTENDS Integers, Sequences, FiniteSets, SequencesExt

CONSTANTS
  MaxBig,   \* the largest 64-bit integer
  Unit,     \* units of a double in 1
  Expr,     \* the trees the parser makes of the statements and of the catalog's texts
  Depth     \* their depths: [Expr -> Nat]

ASSUME WidthAssumption == MaxBig \in Nat /\ Unit \in Nat \ {0}

MinBig == -MaxBig - 1
Int64 == MinBig .. MaxBig

Value(kind, v) == [k |-> kind, v |-> v]

NullValue == Value("Null", 0)
Truth(p) == Value("Bool", IF p THEN 1 ELSE 0)
True == Truth(TRUE)
False == Truth(FALSE)

LiteralValues ==
  {NullValue, True, False} \cup [k : {"Int"}, v : Int64] \cup [k : {"Dbl", "Str"}, v : Int]

IsNumeric(x) == x.k \in {"Int", "Dbl"}

\* A number in units of a double.
AsDouble(x) == IF x.k = "Int" THEN x.v * Unit ELSE x.v

\* Division toward zero; defined for a divisor that is not 0.
Magnitude(n) == IF n < 0 THEN -n ELSE n
Quotient(a, b) ==
  (IF (a < 0) = (b < 0) THEN 1 ELSE -1) * (Magnitude(a) \div Magnitude(b))

Exact(op, a, b) ==
  CASE op = "+" -> a + b
    [] op = "-" -> a - b
    [] op = "*" -> a * b
    [] op = "/" -> Quotient(a, b)
    [] op = "%" -> a - b * Quotient(a, b)

ExactDouble(op, a, b) ==
  CASE op = "*" -> Quotient(a * b, Unit)
    [] op = "/" -> Quotient(a * Unit, b)
    [] OTHER -> Exact(op, a, b)

Holds(op, a, b) ==
  CASE op = "=" -> a = b
    [] op = "<>" -> a # b
    [] op = "<" -> a < b
    [] op = "<=" -> a <= b
    [] op = ">" -> a > b
    [] op = ">=" -> a >= b

ArithmeticOps == {"+", "-", "*", "/", "%"}
ComparisonOps == {"=", "<>", "<", "<=", ">", ">="}

-----------------------------------------------------------------------------
(* Trees.                                                                   *)

Literal(value) == [op |-> "literal", args |-> <<>>, leaf |-> value]
Column(name)   == [op |-> "column", args |-> <<>>, leaf |-> name]
Apply(op, args) == [op |-> op, args |-> args, leaf |-> NullValue]

\* A call, a subquery or anything else that has no value before the statement runs.
Opaque == [op |-> "opaque", args |-> <<>>, leaf |-> NullValue]

LogicalOps == {"NOT", "AND", "OR"}
NullTests  == {"IS NULL", "IS NOT NULL"}
BetweenOps == {"BETWEEN", "NOT BETWEEN"}
ConstantOps == LogicalOps \cup NullTests \cup BetweenOps \cup ArithmeticOps \cup ComparisonOps

\* How many arguments an operator takes.
ArgumentCounts(op) ==
  {n \in 0 .. 3 : \/ n = 0 /\ op \in {"literal", "column", "opaque"}
                  \/ n = 1 /\ op \in {"NOT", "-"} \cup NullTests
                  \/ n = 2 /\ op \in {"AND", "OR"} \cup ComparisonOps \cup ArithmeticOps
                  \/ n = 3 /\ op \in BetweenOps}

\* Trees are finite, and each node has the arguments of its operator.
ASSUME TreesAssumption ==
  /\ Depth \in [Expr -> Nat]
  /\ \A e \in Expr :
       /\ e.op \in {"literal", "column", "opaque"} \cup ConstantOps
       /\ \E n \in ArgumentCounts(e.op) : DOMAIN e.args = 1 .. n
       /\ \A i \in DOMAIN e.args : e.args[i] \in Expr /\ Depth[e.args[i]] < Depth[e]
       /\ e.op = "literal" => e.leaf \in LiteralValues

\* A tree and all its subtrees.
NodesOf[e \in Expr] == {e} \cup UNION {NodesOf[e.args[i]] : i \in DOMAIN e.args}

ColumnsOf(e) == {n.leaf : n \in {n \in NodesOf[e] : n.op = "column"}}
OpsOf(e) == {n.op : n \in NodesOf[e]}

=============================================================================

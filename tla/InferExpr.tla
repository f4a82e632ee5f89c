----------------------------- MODULE InferExpr -----------------------------
(***************************************************************************)
(* The inference over an expression, node by node: infer_expr with its     *)
(* constant folding, its nullability rules and its warnings.               *)
(*                                                                         *)
(* infer_expr visits a node's operands and then records what it infers of  *)
(* the node. Here a node is an action: it takes the operands it needs from *)
(* `stack` and puts back the node they make, so that the runs of the       *)
(* machine are the expressions. CASE is visited between its operands too,  *)
(* and has an entry in `cases` from its operand to its end.                *)
(*                                                                         *)
(* A node carries what the analyzer infers (type, nullability, the integer *)
(* and the truth value it folds to) and what SQL says it is: its value in  *)
(* each row, where Fault is a failure of literal arithmetic and Abort a    *)
(* failure that depends on data. `plain` and `literal` tell how a node is  *)
(* built, `arrays` that a constructed array was searched, `untyped` that a *)
(* value of no known type may be the node's own.                           *)
(*                                                                         *)
(* Integers stand for all numbers and 1 and 0 for the truth values. Only   *)
(* expressions without a type mismatch are built: such a statement does    *)
(* not run. The depth limit of 400 is out of the model's bounds.           *)
(***************************************************************************)
EXTENDS Integers, Sequences, FiniteSets

CONSTANTS
  Column,             \* integer columns
  NullableColumn,     \* those that may be NULL
  Domain,             \* the values of a column
  Outcomes, Answers,  \* what parameters, subqueries and unknown functions, and EXISTS, may yield
  OpaqueTypes,        \* the types of parameters and subqueries
  Literals,           \* integer literals
  ArithmeticOps,
  CastTypes,
  SubqueryResults,    \* the values a subquery on the right of IN yields
  MaxInt, MaxBig,     \* the largest Integer and BigInt
  Null,               \* SQL's NULL
  Fault, Abort,       \* failed evaluations
  Pending,            \* a CASE no arm of which has matched
  None,               \* no constant
  MaxLeaves, MaxCases \* bounds on an expression

MinInt == -MaxInt - 1
MinBig == -MaxBig - 1

Marks == {Null, Fault, Abort, Pending, None}

ASSUME InferAssumption ==
  /\ IsFiniteSet(Column) /\ MaxLeaves \in Nat
  /\ MaxInt \in Nat /\ MaxBig \in Nat /\ MaxInt <= MaxBig
  /\ NullableColumn \subseteq Column
  /\ Domain \subseteq MinInt .. MaxInt /\ Literals \subseteq Int
  /\ Outcomes \subseteq Domain \cup {Null} /\ Answers \subseteq {0, 1}
  /\ OpaqueTypes \subseteq {"Unknown", "Integer"}
  /\ ArithmeticOps \subseteq {"+", "-", "*", "/", "%"}
  /\ CastTypes \subseteq {"Integer", "BigInt"}
  /\ SubqueryResults \subseteq SUBSET (Domain \cup {Null})
  /\ {0, 1} \subseteq MinInt .. MaxInt
  /\ Marks \cap Int = {}
  /\ Null \notin {Fault, Abort, Pending, None}
  /\ Fault \notin {Abort, Pending, None} /\ Abort \notin {Pending, None}

VARIABLES stack, cases, div0Suppress, warnings, leaves

vars == <<stack, cases, div0Suppress, warnings, leaves>>

\* The rows the columns' constraints admit.
Rows ==
  {row \in [Column -> Domain \cup {Null}] :
     \A c \in Column \ NullableColumn : row[c] # Null}

Init ==
  /\ stack = <<>> /\ cases = <<>>
  /\ div0Suppress = 0 /\ warnings = {}
  /\ leaves = 0

-----------------------------------------------------------------------------
(* What SQL computes. A failed operand fails the operation, a NULL operand  *)
(* makes it NULL.                                                           *)

Failed(operands) ==
  IF Abort \in operands THEN Abort ELSE Fault

Strict(operands, result) ==
  IF operands \cap {Fault, Abort} # {} THEN Failed(operands)
  ELSE IF Null \in operands THEN Null ELSE result

Truth(p) == IF p THEN 1 ELSE 0

\* Three-valued AND: false wins, then a failure, then NULL. OR is its dual.
And(operands) == IF 0 \in operands THEN 0 ELSE Strict(operands, 1)
Or(operands)  == IF 1 \in operands THEN 1 ELSE Strict(operands, 0)

Equals(a, b)   == Strict({a, b}, Truth(a = b))
LessEqual(a, b) == Strict({a, b}, IF {a, b} \subseteq Int THEN Truth(a <= b) ELSE 0)

\* Division and remainder round toward zero.
Magnitude(n) == IF n < 0 THEN -n ELSE n
Quotient(a, b) ==
  (IF (a < 0) = (b < 0) THEN 1 ELSE -1) * (Magnitude(a) \div Magnitude(b))

Exact(op, a, b) ==
  CASE op = "+" -> a + b
    [] op = "-" -> a - b
    [] op = "*" -> a * b
    [] op = "/" -> Quotient(a, b)
    [] op = "%" -> a - b * Quotient(a, b)

-----------------------------------------------------------------------------
(* What the analyzer infers.                                                *)

Numeric == {"Integer", "BigInt", "Decimal"}
Wildcard == {"Null", "Unknown"}

(* A wrong version: every literal is an Integer.                            *)
LiteralTypeInteger(n) == "Integer"

\* By magnitude; negatives reach one further.
LiteralType(n) ==
  LET extra == IF n < 0 THEN 1 ELSE 0
  IN CASE Magnitude(n) <= MaxInt + extra -> "Integer"
       [] Magnitude(n) <= MaxBig + extra /\ Magnitude(n) > MaxInt + extra -> "BigInt"
       [] OTHER -> "Decimal"

Rank(t) == CASE t = "Integer" -> 1 [] t = "BigInt" -> 2 [] OTHER -> 3

Promote(a, b) == IF Rank(a) >= Rank(b) THEN a ELSE b

Compatible(a, b) ==
  a = b \/ {a, b} \cap Wildcard # {} \/ {a, b} \subseteq Numeric

\* The common type of two compatible types.
Coerce(a, b) ==
  IF a = b \/ (b \in Wildcard /\ a \notin Wildcard) THEN a
  ELSE IF a \in Wildcard THEN b ELSE Promote(a, b)

IntegerRange(t) ==
  CASE t = "Integer" -> MinInt .. MaxInt
    [] t = "BigInt" -> MinBig .. MaxBig
    [] OTHER -> Int

\* 1 is NOT NULL, 2 nullable, 0 unknown.
CombineNullableAny(nulls) ==
  IF 2 \in nulls THEN 2 ELSE IF nulls = {1} THEN 1 ELSE 0

\* COALESCE, GREATEST and LEAST are NULL only if every argument is.
CoalesceNullability(nulls) ==
  IF 1 \in nulls THEN 1 ELSE IF 2 \in nulls THEN 2 ELSE 0

\* eval_const_int of + - * and of the unary minus.
FoldArithmetic(op, a, b) ==
  IF /\ None \notin {a, b} /\ op \in {"+", "-", "*"}
     /\ Exact(op, a, b) \in MinBig .. MaxBig
  THEN Exact(op, a, b) ELSE None

(* A wrong version: the sign is not looked at.                              *)
FoldMinusSignless(a) == a

FoldMinus(a) == IF a \in {None, MinBig} THEN None ELSE -a

\* eval_const_bool of a comparison.
FoldComparison(op, a, b) ==
  IF None \in {a, b} THEN None
  ELSE Truth(IF op = "=" THEN a = b ELSE a <= b)

(* A wrong version: a result beyond BigInt is taken for no constant.        *)
ConstantIntArithOverflowsInside(op, a, b, type) ==
  /\ None \notin {a, b} /\ op \in {"+", "-", "*"} /\ type \in {"Integer", "BigInt"}
  /\ Exact(op, a, b) \in (MinBig .. MaxBig) \ IntegerRange(type)

ConstantIntArithOverflows(op, a, b, type) ==
  /\ None \notin {a, b} /\ op \in {"+", "-", "*"} /\ type \in {"Integer", "BigInt"}
  /\ Exact(op, a, b) \notin IntegerRange(type)

-----------------------------------------------------------------------------
(* Nodes.                                                                   *)

\* A node nothing is folded of.
Node(type, null, value, operands) ==
  [type |-> type, null |-> null, int |-> None, bool |-> None, value |-> value,
   literal |-> FALSE, plain |-> FALSE, arrays |-> \E x \in operands : x.arrays,
   untyped |-> type = "Unknown" \/ \E x \in operands : x.untyped]

\* The operands of the node being visited: the last n, above those of the open CASE.
Base == IF cases = <<>> THEN 0 ELSE cases[Len(cases)].height

Has(n) == Len(stack) - n >= Base

Operand(n, i) == stack[Len(stack) - n + i]

Replace(n, node) == stack' = Append(SubSeq(stack, 1, Len(stack) - n), node)

\* A node that changes nothing but the stack.
Visit(n, node) == Replace(n, node) /\ UNCHANGED <<cases, div0Suppress, warnings, leaves>>

Leaf(node) ==
  /\ leaves < MaxLeaves
  /\ leaves' = leaves + 1
  /\ stack' = Append(stack, node)
  /\ UNCHANGED <<cases, div0Suppress, warnings>>

Constant(v) == [row \in Rows |-> v]

IntegerLiteral(n) ==
  LET folded == IF n \in MinBig .. MaxBig THEN n ELSE None
  IN Leaf([Node(LiteralType(n), 1, Constant(n), {}) EXCEPT
             !.int = folded, !.literal = folded # None, !.plain = TRUE])

BooleanLiteral(b) ==
  Leaf([Node("Boolean", 1, Constant(b), {}) EXCEPT !.bool = b, !.plain = TRUE])

NullLiteral == Leaf(Node("Null", 2, Constant(Null), {}))

ColumnRef(c) ==
  Leaf(Node("Integer", IF c \in NullableColumn THEN 2 ELSE 1, [row \in Rows |-> row[c]], {}))

\* A parameter, or the value of a scalar subquery.
Parameter(type, v) == Leaf(Node(type, 2, Constant(v), {}))

Exists(b) == Leaf(Node("Boolean", 1, Constant(b), {}))

Not ==
  LET x == Operand(1, 1)
  IN /\ Has(1) /\ x.type \in {"Boolean"} \cup Wildcard
     /\ Visit(1, Node("Boolean", x.null,
                      [row \in Rows |-> Strict({x.value[row]}, Truth(x.value[row] = 0))], {x}))

Within(t, v) == IF v \in Marks \/ v \in IntegerRange(t) THEN v ELSE Abort

Negated(v) == IF v \in Int THEN -v ELSE v

Minus ==
  LET x == Operand(1, 1)
  IN /\ Has(1) /\ x.type \in Numeric
     /\ Visit(1, [Node(x.type, x.null, [row \in Rows |-> Within(x.type, Negated(x.value[row]))], {x})
                    EXCEPT !.int = FoldMinus(x.int), !.literal = x.literal, !.plain = x.plain])

\* IS NULL, and IS [NOT] TRUE, FALSE or UNKNOWN: never NULL.
Test(of) ==
  LET x == Operand(1, 1)
      answer(v) == IF v \in {Fault, Abort} THEN v ELSE Truth(v = of)
  IN /\ Has(1)
     /\ of # Null => x.type \in {"Boolean"} \cup Wildcard
     /\ Visit(1, Node("Boolean", 1, [row \in Rows |-> answer(x.value[row])], {x}))

\* CAST keeps the operand's nullability, as COLLATE and the known functions of one argument.
Cast(type) ==
  LET x == Operand(1, 1)
  IN /\ Has(1) /\ Compatible(x.type, type)
     /\ Visit(1, [Node(type, x.null, [row \in Rows |-> Within(type, x.value[row])], {x})
                    EXCEPT !.untyped = FALSE])

\* What an unknown function answers for its argument is not known.
UnknownFunction(v) ==
  /\ Has(1)
  /\ Visit(1, Node("Unknown", 2, Constant(v), {Operand(1, 1)}))

\* An aggregate over a group that may be empty; COUNT answers for an empty group too.
Aggregate(name, group) ==
  LET x == Operand(1, 1)
      values == {x.value[row] : row \in group}
      count == Cardinality({row \in group : x.value[row] # Null})
      answer == CASE values \cap {Fault, Abort} # {} -> Failed(values)
                  [] values \cap {Fault, Abort} = {} /\ name = "COUNT" -> Within("BigInt", count)
                  [] OTHER -> IF values \subseteq {Null} THEN Null
                              ELSE CHOOSE v \in values \ {Null} : \A w \in values \ {Null} : w <= v
  IN /\ Has(1) /\ x.type \in Numeric
     /\ Visit(1, Node(IF name = "COUNT" THEN "BigInt" ELSE x.type,
                      IF name = "COUNT" THEN 1 ELSE 2, Constant(answer), {x}))

-----------------------------------------------------------------------------
(* Operators of two and more operands.                                      *)

Arithmetic(op) ==
  LET x == Operand(2, 1)
      y == Operand(2, 2)
      type == Coerce(x.type, y.type)
      divides == op \in {"/", "%"}
      result(a, b) == IF divides /\ b = 0 THEN (IF y.literal THEN Fault ELSE Abort)
                      ELSE IF Exact(op, a, b) \in IntegerRange(type) THEN Exact(op, a, b)
                      ELSE IF x.literal /\ y.literal /\ ~divides THEN Fault ELSE Abort
      value(a, b) == IF {a, b} \subseteq Int THEN result(a, b) ELSE Strict({a, b}, Null)
      warned == {w \in {"DivisionByZero", "IntegerOverflow"} :
                   /\ div0Suppress = 0
                   /\ IF w = "DivisionByZero" THEN divides /\ y.int = 0
                      ELSE ConstantIntArithOverflows(op, x.int, y.int, type)}
  IN /\ Has(2) /\ {x.type, y.type} \subseteq Numeric \cup Wildcard
     /\ Replace(2, [Node(type, CombineNullableAny({x.null, y.null}),
                         [row \in Rows |-> value(x.value[row], y.value[row])], {x, y})
                      EXCEPT !.int = FoldArithmetic(op, x.int, y.int),
                             !.literal = x.literal /\ y.literal /\ ~divides,
                             !.plain = /\ x.plain /\ y.plain
                                       /\ \A row \in Rows : Null \notin {x.value[row], y.value[row]}])
     /\ warnings' = warnings \cup warned
     /\ UNCHANGED <<cases, div0Suppress, leaves>>

Comparison(op) ==
  LET x == Operand(2, 1)
      y == Operand(2, 2)
      value(a, b) == IF op = "=" THEN Equals(a, b) ELSE LessEqual(a, b)
  IN /\ Has(2) /\ Compatible(x.type, y.type)
     /\ Visit(2, [Node("Boolean", CombineNullableAny({x.null, y.null}),
                       [row \in Rows |-> value(x.value[row], y.value[row])], {x, y})
                    EXCEPT !.bool = FoldComparison(op, x.int, y.int),
                           !.plain = x.literal /\ y.literal])

Logical(op) ==
  LET x == Operand(2, 1)
      y == Operand(2, 2)
      value(operands) == IF op = "AND" THEN And(operands) ELSE Or(operands)
  IN /\ Has(2) /\ {x.type, y.type} \subseteq {"Boolean"} \cup Wildcard
     /\ Visit(2, Node("Boolean", CombineNullableAny({x.null, y.null}),
                      [row \in Rows |-> value({x.value[row], y.value[row]})], {x, y}))

DistinctFrom ==
  LET x == Operand(2, 1)
      y == Operand(2, 2)
      value(a, b) == IF {a, b} \cap {Fault, Abort} # {} THEN Failed({a, b}) ELSE Truth(a # b)
  IN /\ Has(2) /\ Compatible(x.type, y.type)
     /\ Visit(2, Node("Boolean", 1, [row \in Rows |-> value(x.value[row], y.value[row])], {x, y}))

\* The first argument that is not NULL, or with GREATEST the largest such.
Coalesce(name) ==
  LET x == Operand(2, 1)
      y == Operand(2, 2)
      value(a, b) ==
        IF a \in {Fault, Abort} THEN a
        ELSE IF (name = "COALESCE" /\ a # Null) \/ b = Null THEN a
        ELSE IF a \notin Int \/ b \notin Int THEN b
        ELSE IF a <= b THEN b ELSE a
  IN /\ Has(2) /\ Compatible(x.type, y.type)
     /\ Visit(2, Node(Coerce(x.type, y.type), CoalesceNullability({x.null, y.null}),
                      [row \in Rows |-> value(x.value[row], y.value[row])], {x, y}))

NullIf ==
  LET x == Operand(2, 1)
      y == Operand(2, 2)
      value(a, b) == IF {a, b} \cap {Fault, Abort} # {} THEN Failed({a, b})
                     ELSE IF a = b THEN Null ELSE a
  IN /\ Has(2) /\ Compatible(x.type, y.type)
     /\ Visit(2, Node(x.type, 2, [row \in Rows |-> value(x.value[row], y.value[row])], {x, y}))

Between ==
  LET x == Operand(3, 1)
      low == Operand(3, 2)
      high == Operand(3, 3)
  IN /\ Has(3) /\ Compatible(x.type, low.type) /\ Compatible(x.type, high.type)
     /\ Compatible(low.type, high.type)
     /\ Visit(3, Node("Boolean", CombineNullableAny({x.null, low.null, high.null}),
                      [row \in Rows |-> And({LessEqual(low.value[row], x.value[row]),
                                             LessEqual(x.value[row], high.value[row])})],
                      {x, low, high}))

\* The operands but the first, and a search for the first among them.
Elements(n) == {Operand(n, i) : i \in 2 .. n}

Found(n, row) ==
  Or({Equals(Operand(n, 1).value[row], e.value[row]) : e \in Elements(n)})

Comparable(n) ==
  Has(n) /\ \A i, j \in 1 .. n : Compatible(Operand(n, i).type, Operand(n, j).type)

(* A wrong version: the list's elements do not count.                       *)
InListLeft(n) ==
  /\ Comparable(n)
  /\ Visit(n, Node("Boolean", Operand(n, 1).null, [row \in Rows |-> Found(n, row)],
                   {Operand(n, 1)} \cup Elements(n)))

InList(n) ==
  /\ Comparable(n)
  /\ Visit(n, Node("Boolean", CombineNullableAny({Operand(n, i).null : i \in 1 .. n}),
                   [row \in Rows |-> Found(n, row)], {Operand(n, 1)} \cup Elements(n)))

\* A subquery of one column, what it yields, and whether the column is nullable.
InSubquery(result, nullable) ==
  LET x == Operand(1, 1)
  IN /\ Has(1) /\ x.type \in Numeric \cup Wildcard
     /\ Null \in result => nullable
     /\ Visit(1, Node("Boolean", CombineNullableAny({x.null, IF nullable THEN 2 ELSE 1}),
                      [row \in Rows |-> Or({Equals(x.value[row], v) : v \in result})], {x}))

\* x = ANY (ARRAY[...]): the constructor is NOT NULL, whatever its elements are.
EqualsAnyArray(n) ==
  /\ Comparable(n)
  /\ Visit(n, [Node("Boolean", CombineNullableAny({Operand(n, 1).null, 1}),
                    [row \in Rows |-> Found(n, row)], {}) EXCEPT !.arrays = TRUE])

-----------------------------------------------------------------------------
(* CASE. An arm is dead if its guard is a constant FALSE or an earlier      *)
(* guard a constant TRUE; div0Suppress counts the dead arms around a node.  *)

Open == cases[Len(cases)]

Top == stack[Len(stack)]

Popped == SubSeq(stack, 1, Len(stack) - 1)

Change(frame) == cases' = [cases EXCEPT ![Len(cases)] = frame]

\* The values so far: of the first guard that matched, and Pending where none did.
Frame(simple, operand, height) ==
  [phase |-> "guard", simple |-> simple, operand |-> operand, height |-> height,
   guard |-> Constant(Pending), folded |-> None, dead |-> FALSE, priorTaken |-> FALSE,
   type |-> "Unknown", nulls |-> {}, value |-> Constant(Pending),
   plain |-> simple => operand.literal, arrays |-> operand.arrays, untyped |-> FALSE]

OpenCase ==
  /\ leaves < MaxLeaves /\ Len(cases) < MaxCases
  /\ cases' = Append(cases, Frame(FALSE, Node("Boolean", 1, Constant(1), {}), Len(stack)))
  /\ UNCHANGED <<stack, div0Suppress, warnings, leaves>>

OpenSimpleCase ==
  /\ Has(1) /\ leaves < MaxLeaves /\ Len(cases) < MaxCases
  /\ cases' = Append(cases, Frame(TRUE, Top, Len(stack) - 1))
  /\ stack' = Popped
  /\ UNCHANGED <<div0Suppress, warnings, leaves>>

\* The part of the open CASE that is due has been visited.
Part(phase) == cases # <<>> /\ Open.phase = phase /\ Len(stack) = Open.height + 1

Guard(frame, cond) ==
  [row \in Rows |-> IF frame.simple THEN Equals(frame.operand.value[row], cond.value[row])
                    ELSE cond.value[row]]

FoldGuard(frame, cond) ==
  IF frame.simple THEN FoldComparison("=", frame.operand.int, cond.int) ELSE cond.bool

(* A wrong version: an arm with a constant FALSE guard is live.             *)
EnterArmLive ==
  LET folded == FoldGuard(Open, Top)
      dead   == Open.priorTaken
  IN /\ Part("guard")
     /\ IF Open.simple THEN Compatible(Open.operand.type, Top.type)
        ELSE Top.type \in {"Boolean"} \cup Wildcard
     /\ Change([Open EXCEPT !.phase = "result", !.guard = Guard(Open, Top),
                            !.folded = folded, !.dead = dead,
                            !.plain = /\ @ /\ Top.plain /\ folded # None
                                      /\ \A row \in Rows : Top.value[row] \in Int,
                            !.arrays = @ \/ Top.arrays])
     /\ div0Suppress' = div0Suppress + (IF dead THEN 1 ELSE 0)
     /\ stack' = Popped
     /\ UNCHANGED <<warnings, leaves>>

EnterArm ==
  LET folded == FoldGuard(Open, Top)
      dead   == Open.priorTaken \/ folded = 0
  IN /\ Part("guard")
     /\ IF Open.simple THEN Compatible(Open.operand.type, Top.type)
        ELSE Top.type \in {"Boolean"} \cup Wildcard
     /\ Change([Open EXCEPT !.phase = "result", !.guard = Guard(Open, Top),
                            !.folded = folded, !.dead = dead,
                            !.plain = /\ @ /\ Top.plain /\ folded # None
                                      /\ \A row \in Rows : Top.value[row] \in Int,
                            !.arrays = @ \/ Top.arrays])
     /\ div0Suppress' = div0Suppress + (IF dead THEN 1 ELSE 0)
     /\ stack' = Popped
     /\ UNCHANGED <<warnings, leaves>>

\* The value where this arm is the first that matches or fails.
Taken(frame, result) ==
  [row \in Rows |->
     IF frame.value[row] # Pending THEN frame.value[row]
     ELSE IF frame.guard[row] \in {Fault, Abort} THEN frame.guard[row]
     ELSE IF frame.guard[row] = 1 THEN result.value[row] ELSE Pending]

(* A wrong version: what follows a dead arm stays suppressed.               *)
LeaveArmSuppressed ==
  /\ Part("result") /\ Compatible(Open.type, Top.type)
  /\ Change([Open EXCEPT !.phase = "guard", !.dead = FALSE, !.guard = Constant(Pending),
                         !.folded = None,
                         !.priorTaken = @ \/ Open.folded = 1,
                         !.type = Coerce(@, Top.type), !.nulls = @ \cup {Top.null},
                         !.value = Taken(Open, Top), !.plain = @ /\ Top.plain,
                         !.arrays = @ \/ Top.arrays, !.untyped = @ \/ Top.untyped])
  /\ stack' = Popped
  /\ UNCHANGED <<div0Suppress, warnings, leaves>>

LeaveArm ==
  /\ Part("result") /\ Compatible(Open.type, Top.type)
  /\ Change([Open EXCEPT !.phase = "guard", !.dead = FALSE, !.guard = Constant(Pending),
                         !.folded = None,
                         !.priorTaken = @ \/ Open.folded = 1,
                         !.type = Coerce(@, Top.type), !.nulls = @ \cup {Top.null},
                         !.value = Taken(Open, Top), !.plain = @ /\ Top.plain,
                         !.arrays = @ \/ Top.arrays, !.untyped = @ \/ Top.untyped])
  /\ div0Suppress' = div0Suppress - (IF Open.dead THEN 1 ELSE 0)
  /\ stack' = Popped
  /\ UNCHANGED <<warnings, leaves>>

EnterElse ==
  /\ cases # <<>> /\ Open.phase = "guard" /\ Open.nulls # {} /\ Len(stack) = Open.height
  /\ Change([Open EXCEPT !.phase = "else", !.dead = Open.priorTaken])
  /\ div0Suppress' = div0Suppress + (IF Open.priorTaken THEN 1 ELSE 0)
  /\ UNCHANGED <<stack, warnings, leaves>>

CaseNode(frame, type, null, otherwise) ==
  [type |-> type, null |-> null, int |-> None, bool |-> None, literal |-> FALSE,
   plain |-> frame.plain, arrays |-> frame.arrays, untyped |-> frame.untyped,
   value |-> [row \in Rows |-> IF frame.value[row] = Pending THEN otherwise[row]
                               ELSE frame.value[row]]]

LeaveElse ==
  /\ Part("else") /\ Compatible(Open.type, Top.type)
  /\ stack' = Append(Popped,
                [CaseNode(Open, Coerce(Open.type, Top.type),
                          CombineNullableAny(Open.nulls \cup {Top.null}), Top.value)
                   EXCEPT !.plain = @ /\ Top.plain, !.arrays = @ \/ Top.arrays,
                          !.untyped = @ \/ Top.untyped])
  /\ cases' = SubSeq(cases, 1, Len(cases) - 1)
  /\ div0Suppress' = div0Suppress - (IF Open.dead THEN 1 ELSE 0)
  /\ UNCHANGED <<warnings, leaves>>

\* Without ELSE, a CASE that matches nothing is NULL.
EndCase ==
  /\ cases # <<>> /\ Open.phase = "guard" /\ Open.nulls # {} /\ Len(stack) = Open.height
  /\ stack' = Append(stack, CaseNode(Open, Open.type, 2, Constant(Null)))
  /\ cases' = SubSeq(cases, 1, Len(cases) - 1)
  /\ UNCHANGED <<div0Suppress, warnings, leaves>>

-----------------------------------------------------------------------------

Next ==
  \/ \E n \in Literals : IntegerLiteral(n)
  \/ \E b \in {0, 1} : BooleanLiteral(b)
  \/ NullLiteral
  \/ \E c \in Column : ColumnRef(c)
  \/ \E v \in Outcomes :
       UnknownFunction(v) \/ \E type \in OpaqueTypes : Parameter(type, v)
  \/ \E b \in Answers : Exists(b)
  \/ Not \/ Minus
  \/ \E of \in {Null, 0, 1} : Test(of)
  \/ \E type \in CastTypes : Cast(type)
  \/ \E name \in {"COUNT", "MAX"}, group \in {{}, Rows} : Aggregate(name, group)
  \/ \E op \in ArithmeticOps : Arithmetic(op)
  \/ \E op \in {"=", "<="} : Comparison(op)
  \/ \E op \in {"AND", "OR"} : Logical(op)
  \/ DistinctFrom
  \/ \E name \in {"COALESCE", "GREATEST"} : Coalesce(name)
  \/ NullIf
  \/ Between
  \/ \E n \in 2 .. 3 : InList(n) \/ EqualsAnyArray(n)
  \/ \E result \in SubqueryResults, nullable \in BOOLEAN : InSubquery(result, nullable)
  \/ OpenCase \/ OpenSimpleCase
  \/ EnterArm \/ LeaveArm
  \/ EnterElse \/ LeaveElse \/ EndCase

Spec == Init /\ [][Next]_vars

-----------------------------------------------------------------------------
(* Properties.                                                              *)

Complete == cases = <<>> /\ Len(stack) = 1

Values == Int \cup {Null, Fault, Abort}

(* The inference's state stays in its types, and the suppression counts the *)
(* dead arms that are open.                                                 *)
TypeOK ==
  /\ \A i \in DOMAIN stack :
       /\ stack[i].type \in Numeric \cup Wildcard \cup {"Boolean"}
       /\ stack[i].null \in {1, 2}
       /\ \A row \in Rows : stack[i].value[row] \in Values
  /\ \A d \in DOMAIN cases : cases[d].height \in 0 .. Len(stack)
  /\ div0Suppress = Cardinality({d \in DOMAIN cases : cases[d].dead})
  /\ warnings \subseteq {"DivisionByZero", "IntegerOverflow"}
  /\ leaves \in 0 .. MaxLeaves

NotNullHolds(node) == node.null = 1 => \A row \in Rows : node.value[row] # Null

(* An expression the analyzer calls NOT NULL is NULL in no row: the         *)
(* nullability rules of infer_expr. An array searched with ANY is excepted. *)
NotNullIsSound ==
  \A i \in DOMAIN stack : ~stack[i].arrays => NotNullHolds(stack[i])

(* The inferred integer type holds every value the expression has: literals *)
(* at the ends of a width, and the reconciled types of CASE and COALESCE.   *)
(* Where a value of no known type goes in, nothing can be said of it.       *)
TypeHoldsValues ==
  \A i \in DOMAIN stack : ~stack[i].untyped /\ stack[i].type \in {"Integer", "BigInt"} =>
    \A row \in Rows : stack[i].value[row] \in Int =>
      stack[i].value[row] \in IntegerRange(stack[i].type)

(* A constant the analyzer folds is the value in every row in which the     *)
(* evaluation does not fail: eval_const_int and eval_const_bool, on which   *)
(* dead arms and warnings rest.                                             *)
FoldedIsValue ==
  \A i \in DOMAIN stack, row \in Rows :
    \/ stack[i].value[row] \in {Fault, Abort}
    \/ /\ stack[i].int  \in {None, stack[i].value[row]}
       /\ stack[i].bool \in {None, stack[i].value[row]}

(* If literal arithmetic fails where an evaluation gets to, the analyzer    *)
(* warned: an arm of CASE whose warnings it suppressed is not evaluated.    *)
FaultsAreWarned ==
  Complete /\ (\E row \in Rows : stack[1].value[row] = Fault) => warnings # {}

(* And the other way round: of an expression made of literals, a warning    *)
(* is only given if it does fail. Arms behind a constant guard are silent.  *)
DeadArmsAreSilent ==
  Complete /\ stack[1].plain /\ warnings # {} =>
    \A row \in Rows : stack[1].value[row] \in {Fault, Abort}

=============================================================================

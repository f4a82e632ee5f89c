----------------------------- MODULE CheckEval -----------------------------
(***************************************************************************)
(* The constant evaluator of CHECK constraints, check_eval.cpp: a          *)
(* predicate over columns that are bound to constant expressions. Fail     *)
(* stands for whatever it does not fold. The text of a predicate and of a  *)
(* literal, and the depth limit of 200, are left out.                      *)
(***************************************************************************)
EXTENDS CheckExpr

Fail == Value("Fail", 0)

EvalValues == {Fail, NullValue, True, False} \cup [k : {"Int", "Dbl", "Str"}, v : Int]

\* Any operand that fails, then any that is NULL.
Propagate(operands, otherwise) ==
  IF Fail \in operands THEN Fail
  ELSE IF NullValue \in operands THEN NullValue ELSE otherwise

\* Values of different kinds are not compared, except numbers.
Compare(op, l, r) ==
  IF l.k = r.k /\ l.k \in {"Int", "Dbl", "Str", "Bool"} THEN Truth(Holds(op, l.v, r.v))
  ELSE IF IsNumeric(l) /\ IsNumeric(r) THEN Truth(Holds(op, AsDouble(l), AsDouble(r)))
  ELSE Fail

Inside(n) == IF n \in Int64 THEN Value("Int", n) ELSE Fail

EvalArithmetic(op, l, r) ==
  LET ints == l.k = "Int" /\ r.k = "Int"
  IN IF \/ ~IsNumeric(l) \/ ~IsNumeric(r)
        \/ op \in {"/", "%"} /\ r.v = 0
        \/ op = "%" /\ ~ints
     THEN Fail
     ELSE IF ints THEN Inside(Exact(op, l.v, r.v))
          ELSE Value("Dbl", ExactDouble(op, AsDouble(l), AsDouble(r)))

(* A wrong version: an operand that is no truth value counts as false.      *)
EvalLogicalLenient(op, l, r) ==
  LET decisive == Truth(op = "OR")
  IN IF decisive \in {l, r} THEN decisive
     ELSE Propagate({l, r}, Truth(op = "AND" /\ l = True /\ r = True))

EvalLogical(op, l, r) ==
  LET decisive == Truth(op = "OR")
  IN IF decisive \in {l, r} THEN decisive
     ELSE IF \E x \in {l, r} : x.k \notin {"Bool", "Null"} THEN Fail
     ELSE Propagate({l, r}, Truth(op = "AND"))

EvalNot(x) ==
  CASE x.k = "Bool" -> Truth(x = False)
    [] x.k = "Null" -> NullValue
    [] OTHER -> Fail

EvalMinus(x) ==
  CASE x.k = "Int" -> Inside(-x.v)
    [] x.k = "Dbl" -> Value("Dbl", -x.v)
    [] x.k = "Null" -> NullValue
    [] OTHER -> Fail

EvalBetween(negated, x, low, high) ==
  LET ge == Compare(">=", x, low)
      le == Compare("<=", x, high)
  IN Propagate({x, low, high},
               IF Fail \in {ge, le} THEN Fail
               ELSE Truth((ge = True /\ le = True) # negated))

EvalIsNull(negated, x) == IF x = Fail THEN Fail ELSE Truth((x = NullValue) # negated)

\* The value of a node: `arg` holds its arguments' values, `columns` those of bound columns.
EvalNode(e, arg, columns) ==
  CASE e.op = "literal" -> e.leaf
    [] e.op = "column" -> IF e.leaf \in DOMAIN columns THEN columns[e.leaf] ELSE Fail
    [] e.op = "NOT" -> EvalNot(arg[1])
    [] e.op = "-" /\ DOMAIN e.args = {1} -> EvalMinus(arg[1])
    [] e.op \in NullTests -> EvalIsNull(e.op = "IS NOT NULL", arg[1])
    [] e.op \in BetweenOps -> EvalBetween(e.op = "NOT BETWEEN", arg[1], arg[2], arg[3])
    [] e.op \in {"AND", "OR"} -> EvalLogical(e.op, arg[1], arg[2])
    [] e.op \in ComparisonOps -> Propagate({arg[1], arg[2]}, Compare(e.op, arg[1], arg[2]))
    [] e.op \in ArithmeticOps /\ DOMAIN e.args # {1} ->
         Propagate({arg[1], arg[2]}, EvalArithmetic(e.op, arg[1], arg[2]))
    [] OTHER -> Fail

\* The value of a tree over columns of known values.
Evaluated(e, columns) ==
  LET eval[x \in NodesOf[e]] == EvalNode(x, [i \in DOMAIN x.args |-> eval[x.args[i]]], columns)
  IN eval[e]

\* The expressions bound to columns are constant: no column is looked up in them.
Folded(binds) == [c \in DOMAIN binds |-> Evaluated(binds[c], <<>>)]

Eval(e, binds) == Evaluated(e, Folded(binds))

\* Only a truth value decides.
EvaluateCheck(e, binds) ==
  LET v == Eval(e, binds)
  IN IF v \in {True, False} THEN v ELSE Fail

=============================================================================

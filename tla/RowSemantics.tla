---------------------------- MODULE RowSemantics ----------------------------
(***************************************************************************)
(* What SQL says of a row that is stored: the conversion of a value to its *)
(* column's type, the value of an expression in a row, and the reasons to  *)
(* refuse the row. Error is an evaluation that fails the statement.        *)
(***************************************************************************)
EXTENDS CheckExpr

CONSTANTS
  InstantOf,  \* the instant a string denotes, where it denotes one: [ranks -> Int]
  TrueString  \* the ranks of the strings that denote TRUE; all others denote FALSE

ASSUME InstantsAssumption == \A s \in DOMAIN InstantOf : InstantOf[s] \in Int

Error == Value("Error", 0)

RowValues == {Error, NullValue, True, False} \cup [k : {"Int", "Dbl", "Str", "Time"}, v : Int]

\* The value a column of a type holds once `x` is assigned to it. Numbers round to nearest.
Stored(type, x) ==
  CASE x.k \in {"Null", "Error", type} -> x
    [] x.k = "Int" /\ type = "Dbl" -> Value("Dbl", AsDouble(x))
    [] x.k = "Dbl" /\ type = "Int" -> Value("Int", (2 * x.v + Unit) \div (2 * Unit))
    [] x.k = "Str" /\ type = "Time" /\ x.v \in DOMAIN InstantOf -> Value("Time", InstantOf[x.v])
    [] x.k = "Str" /\ type = "Bool" -> Truth(x.v \in TrueString)
    [] OTHER -> Error

\* Two operands are converted to the more specific kind of the two.
Common(x, y) ==
  CHOOSE k \in {x.k, y.k} :
    /\ k # "Str" \/ {x.k, y.k} = {"Str"}
    /\ k # "Int" \/ {x.k, y.k} = {"Int"}

Strict(operands, result) ==
  IF Error \in operands THEN Error
  ELSE IF NullValue \in operands THEN NullValue ELSE result

Related(op, x, y) ==
  LET kind == Common(x, y)
      left == Stored(kind, x)
      right == Stored(kind, y)
  IN Strict({x, y}, IF Error \in {left, right} THEN Error ELSE Truth(Holds(op, left.v, right.v)))

Calculated(op, x, y) ==
  LET ints == x.k = "Int" /\ y.k = "Int"
      exact == IF ints THEN Value("Int", Exact(op, x.v, y.v))
               ELSE Value("Dbl", ExactDouble(op, AsDouble(x), AsDouble(y)))
  IN Strict({x, y},
       IF op \in {"/", "%"} /\ y.v = 0 THEN Error
       ELSE IF ints /\ exact.v \notin Int64 THEN Error ELSE exact)

\* FALSE before an error before NULL before TRUE; OR by De Morgan.
Conjunction(operands) == IF False \in operands THEN False ELSE Strict(operands, True)

Negation(x) == IF x.k = "Bool" THEN Truth(x = False) ELSE x

AsTruth(x) == Stored("Bool", x)

\* The value of a node in a row [columns -> values]: `arg` holds its arguments' values, and
\* `outcome` is the value of an opaque expression.
ValueNode(e, arg, row, outcome) ==
  LET truth(i) == AsTruth(arg[i])
      between == Conjunction({Related(">=", arg[1], arg[2]), Related("<=", arg[1], arg[3])})
  IN CASE e.op = "literal" -> e.leaf
       [] e.op = "column" -> IF e.leaf \in DOMAIN row THEN row[e.leaf] ELSE Error
       [] e.op = "opaque" -> outcome
       [] e.op = "NOT" -> Negation(truth(1))
       [] e.op = "-" /\ DOMAIN e.args = {1} -> Calculated("-", Value("Int", 0), arg[1])
       [] e.op = "IS NULL" -> IF arg[1] = Error THEN Error ELSE Truth(arg[1] = NullValue)
       [] e.op = "IS NOT NULL" -> IF arg[1] = Error THEN Error ELSE Truth(arg[1] # NullValue)
       [] e.op = "BETWEEN" -> between
       [] e.op = "NOT BETWEEN" -> Negation(between)
       [] e.op = "AND" -> Conjunction({truth(1), truth(2)})
       [] e.op = "OR" -> Negation(Conjunction({Negation(truth(1)), Negation(truth(2))}))
       [] e.op \in ComparisonOps -> Related(e.op, arg[1], arg[2])
       [] OTHER -> Calculated(e.op, arg[1], arg[2])

ValueIn(e, row, outcome) ==
  LET value[x \in NodesOf[e]] ==
        ValueNode(x, [i \in DOMAIN x.args |-> value[x.args[i]]], row, outcome)
  IN value[e]

\* Why a table refuses a row.
Refusal(table, row) ==
  LET checked == {ValueIn(c, row, NullValue) : c \in table.checks}
  IN CASE \E c \in DOMAIN row : row[c] = Error -> "error"
       [] (\A c \in DOMAIN row : row[c] # Error)
            /\ \E c \in DOMAIN row : row[c] = NullValue /\ ~table.column[c].nullable -> "null"
       [] OTHER -> IF False \in checked THEN "check"
                   ELSE IF Error \in checked THEN "error" ELSE "none"

=============================================================================

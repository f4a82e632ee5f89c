---------------------------- MODULE MCRowChecks ----------------------------
(***************************************************************************)
(* Tables and statements for the runs of RowChecks. A table has an integer *)
(* column a and a column b of some type.                                   *)
(***************************************************************************)
EXTENDS RowChecks

CONSTANTS a, b, c

I(n) == Literal(Value("Int", n))
S(n) == Literal(Value("Str", n))
D(n) == Literal(Value("Dbl", n))
A == Column(a)
B == Column(b)
On(op, l, r) == Apply(op, <<l, r>>)

Described(type, nullable, default) ==
  [type |-> type, nullable |-> nullable, hasDefault |-> default # Opaque, default |-> default]

\* a is NOT NULL, b is of a type and has a default unless that is opaque.
TableOf(type, nullable, default, checks) ==
  [order |-> <<a, b>>,
   column |-> (a :> Described("Int", FALSE, Opaque)) @@ (b :> Described(type, nullable, default)),
   checks |-> checks]

IntegerChecks ==
  {On(">=", A, I(0)),
   On("<", On("+", A, B), I(2)),
   Apply("BETWEEN", <<A, I(0), B>>),
   Apply("NOT BETWEEN", <<B, I(0), I(1)>>),
   Apply("NOT", <<On("=", A, B)>>),
   On("AND", Apply("IS NOT NULL", <<B>>), On(">", A, I(0))),
   On("OR", On("<>", On("/", A, B), I(0)), Apply("IS NULL", <<B>>)),
   On("<=", Apply("-", <<On("*", A, B)>>), I(1)),
   On("=", On("%", A, I(2)), I(0))}

TableSet ==
  {TableOf("Int", n, d, {e}) : n \in BOOLEAN, d \in {Opaque, I(1)}, e \in IntegerChecks}
    \cup {TableOf("Str", TRUE, S(1), {On("<", B, S(2)), On(">", A, I(0))})}
    \cup {TableOf("Time", TRUE, d, {On("<", B, S(2))}) : d \in {Opaque, S(1)}}
    \cup {TableOf("Bool", TRUE, Opaque, {e}) :
            e \in {On("AND", B, On(">", A, I(0))), On("OR", B, On("=", A, I(0)))}}
    \cup {TableOf("Dbl", TRUE, D(1), {On(">", On("/", B, I(2)), I(0))})}

Negative(n) == Apply("-", <<I(n)>>)

\* Literals of the column's own kind, strings for instants and truth values, and what is not
\* constant.
TypedGiven(type) ==
  {Literal(NullValue), Opaque} \cup
  CASE type = "Int" -> {I(0), I(3), Negative(1), On("+", I(1), I(1))}
    [] type = "Dbl" -> {D(0), D(3)}
    [] type = "Bool" -> {Literal(True), Literal(False), S(1)}
    [] OTHER -> {S(1), S(2)}

ColumnLists(t) == {<<>>, <<a>>, <<b, a>>, <<a, a>>, <<c>>}

Assignments(t) ==
  {<< <<a, B>>, <<b, I(1)>> >>, << <<a, I(0)>> >>, << <<a, Negative(1)>> >>,
   << <<b, A>>, <<a, I(3)>> >>, << <<a, I(3)>>, <<b, Literal(NullValue)>> >>,
   << <<b, Opaque>> >>, << <<a, I(0)>>, <<a, Negative(1)>> >>, << <<c, I(0)>> >>}

TypedAssignments(t) ==
  IF t.column[b].type = "Int" THEN Assignments(t)
  ELSE {<< <<a, I(0)>> >>} \cup {<< <<b, e>> >> : e \in TypedGiven(t.column[b].type)}

OutcomeSet == {NullValue, Value("Int", 1)}

\* Strings that denote instants in another order than their own.
Instants == <<2, 1>>

-----------------------------------------------------------------------------
(* The trees of these tables and statements.                                *)

RECURSIVE Subtrees(_), DepthOf(_)

Subtrees(e) == {e} \cup UNION {Subtrees(e.args[i]) : i \in DOMAIN e.args}

DepthOf(e) ==
  IF e.args = <<>> THEN 0
  ELSE 1 + FoldLeft(LAMBDA n, x : IF DepthOf(x) > n THEN DepthOf(x) ELSE n, 0, e.args)

Roots ==
  UNION {Given(type) : type \in {"Int", "Dbl", "Bool", "Str", "Time"}}
    \cup UNION {t.checks \cup {t.column[b].default} : t \in TableSet}
    \cup UNION {UNION {{sets[i][2] : i \in DOMAIN sets} : sets \in SetLists(t)} : t \in TableSet}

Trees == UNION {Subtrees(e) : e \in Roots}

Depths == [e \in Trees |-> DepthOf(e)]

=============================================================================

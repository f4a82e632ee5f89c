--------------------------- MODULE GroupSemantics ---------------------------
(***************************************************************************)
(* What GROUP BY means, without ids and texts to compare. A reference is a *)
(* place, a column of a relation; `Place(e)` is where the scope resolves   *)
(* it. A group is a class of rows on which the keys agree, so that an      *)
(* expression has a value for a group if it does not vary within one.      *)
(***************************************************************************)
EXTENDS QueryExpr

CONSTANTS Place(_), Null

\* Two expressions are one: the same tree over the same columns. `twins` are the nodes of the one
\* that are the same as a node of the other.
Same(e, k) ==
  LET twins[x \in Nodes[e]] ==
        {y \in Nodes[k] :
           IF {x.kind, y.kind} = {"reference"} THEN Place(x) = Place(y)
           ELSE SameNode(x, y) /\ \A i \in DOMAIN x.args : y.args[i] \in twins[x.args[i]]}
  IN k \in twins[e]

\* The rule of SQL: an expression is made of keys, aggregates and constants.
Covered(e, keys) ==
  LET covered[x \in Nodes[e]] ==
        \/ \E k \in keys : Same(x, k)
        \/ IsAggregate(x)
        \/ x.kind # "reference" /\ \A i \in DOMAIN x.args : covered[x.args[i]]
  IN covered[e]

\* A number for a sequence of values, and the sum of one without Null.
Code(args) ==
  LET code[i \in 0 .. Len(args)] ==
        IF i = 0 THEN 0 ELSE 3 * code[i - 1] + (IF args[i] = Null THEN 2 ELSE args[i])
  IN code[Len(args)]

SumOver(args) ==
  LET sum[i \in 0 .. Len(args)] == IF i = 0 THEN 0 ELSE sum[i - 1] + args[i]
  IN sum[Len(args)]

\* In a row of the places, where the keys `rolled` are NULL, as in a row of subtotals. An
\* aggregate has some value, the same for a group, and may be NULL.
ValueNode(e, args, row) ==
  CASE e.kind = "reference" -> row[Place(e)]
    [] e.kind = "integer" -> e.number
    [] e.kind = "subquery" \/ IsAggregate(e) -> Null
    [] OTHER -> IF e.over \/ e.name = "GROUPING" THEN Code(args)
                ELSE IF \E i \in DOMAIN args : args[i] = Null THEN Null ELSE SumOver(args)

ValueIn(e, row, rolled) ==
  LET value[x \in Nodes[e]] ==
        IF \E k \in rolled : Same(x, k) THEN Null
        ELSE ValueNode(x, [i \in DOMAIN x.args |-> value[x.args[i]]], row)
  IN value[e]

\* Within each group of rows the expression has one value.
Determined(e, keys, rows) ==
  LET group(row) == {<<k, ValueIn(k, row, {})>> : k \in keys}
  IN Cardinality({<<group(row), ValueIn(e, row, {})>> : row \in rows})
       = Cardinality({group(row) : row \in rows})

\* Rows are filtered, then grouped, then windows are computed over the groups. What an aggregate
\* reads are rows. A window over a window is not ruled out.
EvaluableAt(e, stage) ==
  /\ stage = "rows" => ~ContainsAggregate(e)
  /\ stage # "windows" => ~ContainsWindow(e)
  /\ \A n \in Nodes[e] : IsAggregate(n) =>
       \A i \in DOMAIN n.args : ~ContainsAggregate(n.args[i]) /\ ~ContainsWindow(n.args[i])

=============================================================================

----------------------------- MODULE MCGrouping -----------------------------
(***************************************************************************)
(* FROM clauses and expressions for the runs of Grouping.                  *)
(***************************************************************************)
EXTENDS Grouping, TLC

Col(name, nullable, id) == ResolvedColumn(name, nullable) @@ [id |-> id]

\* A table, the same table twice, and a derived table with one catalog column under two names.
Users(alias) ==
  RelationBinding(alias, <<Col("a", FALSE, <<1, 1>>), Col("b", FALSE, <<1, 2>>)>>)
DerivedTwice ==
  RelationBinding("d", <<Col("a", FALSE, <<1, 1>>), Col("b", TRUE, <<1, 1>>)>>)

CatalogFroms == {<<Users("t")>>, <<Users("t"), Users("u")>>, <<DerivedTwice>>}

A == Reference(NoQualifier, "a")
B == Reference(NoQualifier, "b")
X == Reference(NoQualifier, "x")
TA == Reference("t", "a")
TB == Reference("t", "b")
UA == Reference("u", "a")
Plus(e, f) == Call("+", <<e, f>>)
SumOf(e) == Call("SUM", <<e>>)
RankOver(e) == Over("RANK", <<e>>)
GroupingOf(e) == Call("GROUPING", <<e>>)

Item(e) == [expr |-> e, alias |-> NoAlias]
As(e, alias) == [expr |-> e, alias |-> alias]

ItemSet ==
  {As(Plus(A, B), "b")} \cup
  {Item(e) : e \in {A, B, TB, UA, SumOf(SumOf(TA)), SumOf(RankOver(TA)), RankOver(SumOf(TB)),
                    GroupingOf(TA), Subquery, Star(NoQualifier), Star("t")}}
    \cup {As(e, "x") : e \in {TA, Plus(A, B), SumOf(TA), RankOver(TA)}}

KeySet == {A, TB, X, Plus(A, B), SumOf(TA), RankOver(A), Integer(1), Integer(2)}

PredicateSet == {Plus(A, TB), SumOf(TA), RankOver(TA)}

OrderSet == {A, TB, X, Plus(A, B), Integer(1), Integer(9)}

-----------------------------------------------------------------------------
(* The trees of these queries.                                              *)

RECURSIVE Subtrees(_), DepthOf(_)

Subtrees(e) == {e} \cup UNION {Subtrees(e.args[i]) : i \in DOMAIN e.args}

DepthOf(e) ==
  IF e.args = <<>> THEN 0
  ELSE 1 + FoldLeft(LAMBDA n, x : IF DepthOf(x) > n THEN DepthOf(x) ELSE n, 0, e.args)

Trees ==
  UNION {Subtrees(e) : e \in {item.expr : item \in Items} \cup Keys \cup Predicates \cup OrderKeys}
    \cup {Reference(q, name) : q \in {"t", "u", "d"}, name \in {"a", "b"}}

Depths == [e \in Trees |-> DepthOf(e)]

=============================================================================

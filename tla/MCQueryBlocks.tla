--------------------------- MODULE MCQueryBlocks ---------------------------
(***************************************************************************)
(* Tables, SELECT lists and contents for the runs of QueryBlocks.          *)
(***************************************************************************)
EXTENDS QueryBlocks

Column(name, nullable) == [name |-> name, nullable |-> nullable]

\* t(a NOT NULL), u(b)
TwoTables ==
  [name \in {"t", "u"} |-> IF name = "t" THEN <<Column("a", FALSE)>> ELSE <<Column("b", TRUE)>>]

ListA == <<Item("a", "a")>>
ListB == <<Item("b", "a")>>
ListNull == <<Item(NullItem, "a")>>
ListTwo == <<Item("a", "a"), Item("a", "b")>>

ListSet == {ListA, ListB, ListTwo}

ListTwoNull == <<Item("a", "a"), Item(NullItem, "b")>>

From(name, lists) == {Select(<<TableRef(name)>>, list) : list \in lists}

\* u has no a, which an outer block may have; c is a table only if some WITH defines it.
LeafSet ==
  From("t", {ListA, ListNull, ListTwo}) \cup From("u", {ListA, ListB})
    \cup From("c", {ListA, ListB, ListNull, ListTwo, ListTwoNull})
    \cup {Where(q, Item("b", Anonymous)) : q \in From("t", {ListA})}

\* VALUES (a), (NULL); and VALUES (NULL, NULL), (NULL)
ValuesSet ==
  LET null == Item(NullItem, Anonymous)
  IN {Values(<<<<Item("a", Anonymous)>>, <<null>>>>), Values(<<<<null, null>>, <<null>>>>)}

ColumnListSet == {<<>>, <<"b", "a">>}

Rows(values) == {<<v>> : v \in values}

Contents ==
  {[t |-> Rows({1, 2}), u |-> Rows({1, Null})], [t |-> Rows({1}), u |-> {}]}

=============================================================================

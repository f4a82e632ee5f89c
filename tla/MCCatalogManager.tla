-------------------------- MODULE MCCatalogManager --------------------------
(***************************************************************************)
(* Inputs for the runs of CatalogManager: the CREATE TABLE bodies and the  *)
(* ALTER TABLE arguments a run enumerates.                                 *)
(***************************************************************************)
EXTENDS CatalogManager

CONSTANTS t1, t2, a, b, k

Column(name, nullable) == [name |-> name, nullable |-> nullable, hasDefault |-> FALSE]

Key(kind, name, cols) ==
  [kind |-> kind, name |-> name, columns |-> cols, refTable |-> NoTable, refColumns |-> {}]

ForeignKey(name, cols, ref, refCols) ==
  [kind |-> "ForeignKey", name |-> name, columns |-> cols,
   refTable |-> ref, refColumns |-> refCols]

Body(cols, constraints) == [columns |-> cols, constraints |-> constraints]

AB == <<Column(a, TRUE), Column(b, TRUE)>>

-----------------------------------------------------------------------------
(* Two tables that can reference t1 and themselves, by a primary key, by a *)
(* UNIQUE and by a column that is neither, and an index.  No body names a  *)
(* column or a constraint twice.                                           *)

Tables ==
  {Body(AB, {Key("PrimaryKey", Unnamed, {a}), Key("Unique", k, {b})}),
   Body(AB, {ForeignKey(Unnamed, {a}, t1, {a}), ForeignKey(Unnamed, {b}, t1, {b}),
             Key("Check", k, {b})}),
   Body(<<Column(b, FALSE)>>,
        {Key("PrimaryKey", Unnamed, {}), ForeignKey(k, {b}, t2, {b})})}

Columns == {Column(b, TRUE)}

Constraints ==
  {Key("PrimaryKey", k, {a, b}), Key("Unique", k, {a, b}), Key("Unique", k, {}),
   ForeignKey(k, {a, b}, t1, {a, b})}

IndexKeys == {{}, {a, b}}

=============================================================================

---------------------------- MODULE MCDdlFrontend ----------------------------
(***************************************************************************)
(* The statements the runs of DdlFrontend execute.                         *)
(***************************************************************************)
EXTENDS DdlFrontend

CONSTANTS t1, t2, a, A, b, column1, k, i1

\* a and A are two spellings of one name.
FoldCase(x) == IF x = A THEN a ELSE x

ColumnN(n) == column1

Plain(name) ==
  [name |-> name, typeKnown |-> TRUE, notNull |-> FALSE, primaryKey |-> FALSE,
   unique |-> FALSE, defaults |-> {}, checks |-> {}, references |-> {}]

Value(reads, ok) == {[columns |-> reads, typeOk |-> ok]}

Declare(kind, name, cols) ==
  [kind |-> kind, name |-> name, columns |-> cols, refTable |-> NoTable,
   refColumns |-> {}, typeOk |-> TRUE]

Reference(name, cols, ref, refCols) ==
  [Declare("ForeignKey", name, cols) EXCEPT !.refTable = ref, !.refColumns = refCols]

IllTyped(d) == [d EXCEPT !.typeOk = FALSE]

CreateT(table, cols, constraints) ==
  [kind |-> "create table", complete |-> TRUE, table |-> table, ifNotExists |-> FALSE,
   columns |-> cols, constraints |-> constraints]

Select(table, from, projection) ==
  [kind |-> "create table as", complete |-> TRUE, table |-> table, ifNotExists |-> FALSE,
   clean |-> TRUE, from |-> from, projection |-> projection]

Item(name, source) == [name |-> name, source |-> source, nullable |-> TRUE]

IfNotExists(s) == [s EXCEPT !.ifNotExists = TRUE]

Incomplete(s) == [s EXCEPT !.complete = FALSE]

Index(ifNotExists) ==
  [kind |-> "create index", complete |-> TRUE, name |-> i1, table |-> t1,
   columns |-> {A, b}, unique |-> TRUE, ifNotExists |-> ifNotExists]

AddC(column) == [kind |-> "add column", complete |-> TRUE, table |-> t1, column |-> column]

AddK(constraint) ==
  [kind |-> "add constraint", complete |-> TRUE, table |-> t1, constraint |-> constraint]

Alter(change, defaults) ==
  [kind |-> "alter column", complete |-> TRUE, table |-> t1, column |-> A,
   change |-> change, defaults |-> defaults]

DropC(cascade) ==
  [kind |-> "drop column", complete |-> TRUE, table |-> t1, column |-> a, cascade |-> cascade]

DropK(cascade) ==
  [kind |-> "drop constraint", complete |-> TRUE, table |-> t1, name |-> k,
   cascade |-> cascade]

DropObject(object, name, cascade) ==
  [kind |-> "drop", complete |-> TRUE, object |-> object, name |-> name,
   ifExists |-> cascade, cascade |-> cascade]

-----------------------------------------------------------------------------
(* CREATE TABLE with keys, checks and references on columns and on tables,  *)
(* in either spelling, and one of each that is refused.                     *)

Keyed   == [Plain(a) EXCEPT !.primaryKey = TRUE, !.checks = {Declare("Check", k, {a})}]
Strict  == [Plain(b) EXCEPT !.notNull = TRUE, !.unique = TRUE, !.defaults = Value({}, TRUE)]
Pointer == [Plain(b) EXCEPT !.references = {Reference(Unnamed, {b}, t1, {A})}]

Creations ==
  {CreateT(t1, <<Keyed, Strict>>, {}),
   IfNotExists(CreateT(t1, <<Plain(b), Plain(a)>>, {Declare("PrimaryKey", k, {A, b})})),
   CreateT(t2, <<Pointer, Plain(A)>>,
           {Declare("Unique", k, {a}), Reference(k, {b}, t2, {a})})}

RefusedCreations ==
  {Incomplete(CreateT(t2, <<Plain(a)>>, {})),
   CreateT(t2, <<>>, {}),
   CreateT(t2, <<Plain(a), Plain(a)>>, {}),
   CreateT(t2, <<[Plain(a) EXCEPT !.typeKnown = FALSE]>>, {}),
   CreateT(t2, <<[Plain(a) EXCEPT !.defaults = Value({a}, TRUE)]>>, {}),
   CreateT(t2, <<[Plain(a) EXCEPT !.defaults = Value({}, FALSE)]>>, {}),
   CreateT(t2, <<Plain(a)>>, {Declare("Check", Unnamed, {A})}),
   CreateT(t2, <<Plain(a)>>, {IllTyped(Declare("Check", Unnamed, {a}))}),
   CreateT(t2, <<Keyed, Plain(b)>>, {Declare("PrimaryKey", k, {b})})}

Queries ==
  {Select(t2, t1, <<Item(A, a), Item(Anonymous, Anonymous)>>),
   IfNotExists(Select(t2, t1, <<Item(b, b)>>)),
   Select(t1, t2, <<Item(a, column1)>>),
   Select(t2, t1, <<>>),
   [Select(t2, t1, <<Item(a, a)>>) EXCEPT !.clean = FALSE]}

Alterations ==
  {AddC([Plain(column1) EXCEPT !.notNull = TRUE, !.defaults = Value({}, TRUE)]),
   AddC([Plain(column1) EXCEPT !.unique = TRUE]),
   AddC([Plain(column1) EXCEPT !.defaults = Value({}, FALSE)]),
   AddC([Plain(column1) EXCEPT !.typeKnown = FALSE]),
   AddK(Declare("PrimaryKey", Unnamed, {A})),
   AddK(Declare("Unique", k, {A, b})),
   AddK(Declare("Check", k, {A, b})),
   AddK(IllTyped(Declare("Check", k, {b}))),
   AddK(Reference(k, {b}, t2, {a})),
   Alter("set not null", {}), Alter("drop not null", {}),
   Alter("set default", Value({}, TRUE)), Alter("set default", Value({}, FALSE)),
   Alter("drop default", {}), Alter("other", {})}
  \cup {DropC(cascade) : cascade \in BOOLEAN}
  \cup {DropK(cascade) : cascade \in BOOLEAN}

Others ==
  {Index(ifNotExists) : ifNotExists \in BOOLEAN}
  \cup {DropObject(object, IF object = "index" THEN i1 ELSE t1, cascade) :
          object \in {"index", "table", "other"}, cascade \in BOOLEAN}

AllStatements == Creations \cup RefusedCreations \cup Queries \cup Alterations \cup Others

(* The manager is called by statements only.                                *)

None == {}

=============================================================================

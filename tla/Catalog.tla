------------------------------ MODULE Catalog ------------------------------
(***************************************************************************)
(* The schema catalog as data: tables, their columns and constraints, and  *)
(* the secondary indexes (include/db25/semantic/catalog.hpp), with the     *)
(* lookups and the cascade helpers the catalog manager is built from.      *)
(*                                                                         *)
(* What is abstracted:                                                     *)
(*  - An identifier stands for its case-folded class: every comparison in  *)
(*    the catalog goes through iequals (identifier.hpp), so the spelling   *)
(*    never decides anything here.                                         *)
(*  - Column types and the texts of DEFAULT and CHECK expressions are left *)
(*    out; the catalog stores them and no operation reads them.            *)
(*  - A table's vector of columns is a function from column_id to column.  *)
(*    add_table numbers the columns 1, 2, ... in order and add_column      *)
(*    appends one above the greatest, so vector order is id order.         *)
(*  - A constraint's columns are the set of their ids: no list names a     *)
(*    column twice.  Its vector position among the table's constraints     *)
(*    matters only to DROP CONSTRAINT, which takes the first of a name; see*)
(*    FirstNamed.  Two equal constraints of a table are one.               *)
(***************************************************************************)
EXTENDS Naturals, FiniteSets, FiniteSetsExt, Functions

CONSTANTS
  TableName,       \* identifiers of tables
  ColumnName,      \* identifiers of columns
  ConstraintName,  \* identifiers of constraints
  IndexName,       \* identifiers of indexes
  Unnamed,         \* the empty constraint name
  NoTable          \* the ref_table of a constraint that is no foreign key

ASSUME CatalogAssumption ==
  /\ Unnamed \notin ConstraintName
  /\ NoTable \notin TableName

Id == Nat \ {0}

ConstraintKind == {"PrimaryKey", "Unique", "ForeignKey", "Check"}

ColumnInfo == [name : ColumnName, nullable : BOOLEAN, hasDefault : BOOLEAN]

\* A constraint as stored: columns by id.
Constraint == [kind       : ConstraintKind,
               name       : ConstraintName \cup {Unnamed},
               columns    : SUBSET Id,
               refTable   : TableName \cup {NoTable},
               refColumns : SUBSET Id]

\* A constraint as a statement gives it: columns by name.
ConstraintSpec == [kind       : ConstraintKind,
                   name       : ConstraintName \cup {Unnamed},
                   columns    : SUBSET ColumnName,
                   refTable   : TableName \cup {NoTable},
                   refColumns : SUBSET ColumnName]

IsColumns(cols) ==
  /\ DOMAIN cols \subseteq Id
  /\ IsFiniteSet(DOMAIN cols)
  /\ cols = [i \in DOMAIN cols |-> cols[i]]
  /\ \A i \in DOMAIN cols : cols[i] \in ColumnInfo

IsTableInfo(t) ==
  /\ t = [id |-> t.id, columns |-> t.columns, constraints |-> t.constraints]
  /\ t.id \in Id
  /\ IsColumns(t.columns)
  /\ t.constraints \subseteq Constraint

IndexInfo == [id : Id, table : TableName, columns : SUBSET Id, unique : BOOLEAN]

-----------------------------------------------------------------------------
(* The maps.                                                               *)

\* insert_or_assign, and the emplace of a key known to be absent
Put(f, key, val) == [k \in DOMAIN f \cup {key} |-> IF k = key THEN val ELSE f[k]]

Erase(f, key) == Restrict(f, DOMAIN f \ {key})

-----------------------------------------------------------------------------
(* Columns.                                                                *)

HasColumn(cols, name) == \E i \in DOMAIN cols : cols[i].name = name

\* The id of the first column of that name.
FindColumn(cols, name) == Min({i \in DOMAIN cols : cols[i].name = name})

HasColumns(cols, names) == \A n \in names : HasColumn(cols, n)

FindColumns(cols, names) == {FindColumn(cols, n) : n \in names}

\* The greatest id in use, 0 for none: ids are max + 1, not a counter.
LastColumnId(cols) == Max(DOMAIN cols \cup {0})

ForceNotNull(cols, ids) ==
  [i \in DOMAIN cols |->
     IF i \in ids THEN [cols[i] EXCEPT !.nullable = FALSE] ELSE cols[i]]

RelaxNotNull(cols, ids) ==
  [i \in DOMAIN cols |->
     IF i \in ids THEN [cols[i] EXCEPT !.nullable = TRUE] ELSE cols[i]]

-----------------------------------------------------------------------------
(* Constraints.                                                            *)

IsForeignKeyTo(c, ref) == c.kind = "ForeignKey" /\ c.refTable = ref

\* Rank of a kind in the vector a CREATE TABLE builds.
KindRank == [PrimaryKey |-> 1, Unique |-> 2, ForeignKey |-> 3, Check |-> 4]

\* The constraints of a name that can stand first in the vector.  Only CREATE
\* TABLE puts two of one name in a table, by kind and then in statement order.
\* Which of two of one kind came first is left open at each use: that allows
\* DROP CONSTRAINT, its one reader, what either order allows.
FirstNamed(constraints, name) ==
  LET named == {c \in constraints : c.name = name}
  IN  {c \in named : \A d \in named : KindRank[c.kind] <= KindRank[d.kind]}

ConstraintNameFree(constraints, name) ==
  name = Unnamed \/ \A c \in constraints : c.name # name

\* The names of spec are found: its columns among cols, a foreign key's target
\* among tabs, which already holds the table being created or altered.
Resolves(spec, cols, tabs) ==
  /\ HasColumns(cols, spec.columns)
  /\ spec.kind = "ForeignKey" =>
       /\ spec.columns # {}
       /\ Cardinality(spec.columns) = Cardinality(spec.refColumns)
       /\ spec.refTable \in DOMAIN tabs
       /\ HasColumns(tabs[spec.refTable].columns, spec.refColumns)

\* The id-based constraint for a by-name one that resolves.
Resolved(spec, cols, tabs) ==
  [kind       |-> spec.kind,
   name       |-> spec.name,
   columns    |-> FindColumns(cols, spec.columns),
   refTable   |-> IF spec.kind = "ForeignKey" THEN spec.refTable ELSE NoTable,
   refColumns |-> IF spec.kind = "ForeignKey"
                    THEN FindColumns(tabs[spec.refTable].columns, spec.refColumns)
                    ELSE {}]

-----------------------------------------------------------------------------
(* The cascade helpers, as functions of the table map or the index map.    *)

DropForeignKeysReferencing(tabs, ref) ==
  [t \in DOMAIN tabs |->
     [tabs[t] EXCEPT !.constraints = {c \in @ : ~IsForeignKeyTo(c, ref)}]]

\* A wrong detaching: any foreign key to columns of those ids, of whatever table.
DropForeignKeysReferencingIds(tabs, ref, ids) ==
  [t \in DOMAIN tabs |->
     IF t = ref THEN tabs[t]
     ELSE [tabs[t] EXCEPT !.constraints =
             {c \in @ : ~(c.kind = "ForeignKey" /\ c.refColumns \cap ids # {})}]]

\* In every table but ref itself, those that reference a column in ids.
DropForeignKeysReferencingColumns(tabs, ref, ids) ==
  [t \in DOMAIN tabs |->
     IF t = ref THEN tabs[t]
     ELSE [tabs[t] EXCEPT !.constraints =
             {c \in @ : ~(IsForeignKeyTo(c, ref) /\ c.refColumns \cap ids # {})}]]

DropIndexesOn(idxs, table) ==
  Restrict(idxs, {i \in DOMAIN idxs : idxs[i].table # table})

\* A wrong one: only the indexes on that column alone.
DropIndexesOnColumnAlone(idxs, table, id) ==
  Restrict(idxs, {i \in DOMAIN idxs : ~(idxs[i].table = table /\ {id} = idxs[i].columns)})

DropIndexesOnColumn(idxs, table, id) ==
  Restrict(idxs, {i \in DOMAIN idxs : ~(idxs[i].table = table /\ id \in idxs[i].columns)})

=============================================================================

--------------------------- MODULE CatalogManager ---------------------------
(***************************************************************************)
(* The single writer of the schema (include/db25/semantic/                 *)
(* catalog_manager.hpp): every DDL operation, from the call to the result  *)
(* it returns.  The manager is single-threaded and each operation copies   *)
(* the catalog, changes the copy, saves it and only then swaps it in, so an*)
(* operation is one step here.  How the save goes about it, and what a     *)
(* crash does to it, is module SnapshotStore; here a save succeeds or not. *)
(*                                                                         *)
(* An operation is a disjunction with one disjunct per early return of its *)
(* function and one for the change it commits.                             *)
(***************************************************************************)
EXTENDS Catalog, Sequences

CONSTANTS
  TableSpecs,      \* the bodies CREATE TABLE is called with
  ColumnSpecs,     \* the columns ADD COLUMN is called with
  ConstraintSpecs, \* the constraints ALTER TABLE ... ADD is called with
  IndexColumns,    \* the column lists CREATE INDEX is called with
  MaxVersion       \* bound: no more commits than this

\* A CREATE TABLE body: the columns in order, and constraints by name of which
\* at most one is a primary key.  Two columns, or two constraints, may have
\* the same name: create_table does not look.
IsTableSpec(s) ==
  /\ s.columns \in Seq(ColumnInfo)
  /\ s.constraints \subseteq ConstraintSpec
  /\ \A c, d \in s.constraints :
       c.kind = "PrimaryKey" /\ d.kind = "PrimaryKey" => c = d

ASSUME ManagerAssumption ==
  /\ \A s \in TableSpecs : IsTableSpec(s)
  /\ ColumnSpecs \subseteq ColumnInfo
  /\ ConstraintSpecs \subseteq ConstraintSpec
  /\ IndexColumns \subseteq SUBSET ColumnName
  /\ MaxVersion \in Nat

VARIABLES
  tables,         \* table name -> TableInfo
  indexes,        \* index name -> IndexInfo
  nextTableId,    \* the allocator of table ids
  nextIndexId,    \* the allocator of index ids
  schemaVersion,  \* bumped by each commit
  result          \* what the last call came to

catalog == <<tables, indexes, nextTableId, nextIndexId, schemaVersion>>
vars == <<tables, indexes, nextTableId, nextIndexId, schemaVersion, result>>

\* DdlResult, with the reason for its ok told apart: a commit is "cascaded"
\* when the call asked for CASCADE, and "noop" is the ok that changes nothing.
\* The version it carries is always the catalog's own.
Result == {"none", "committed", "cascaded", "noop", "refused", "unsaved"}

TypeOK ==
  /\ DOMAIN tables \subseteq TableName
  /\ \A t \in DOMAIN tables : IsTableInfo(tables[t])
  /\ tables = [t \in DOMAIN tables |-> tables[t]]
  /\ DOMAIN indexes \subseteq IndexName
  /\ indexes \in [DOMAIN indexes -> IndexInfo]
  /\ nextTableId \in Id
  /\ nextIndexId \in Id
  /\ schemaVersion \in 0 .. MaxVersion
  /\ result \in Result

\* A wrong Init: 0 is reserved.
InitFromZero ==
  /\ tables = <<>>
  /\ indexes = <<>>
  /\ nextTableId = 0
  /\ nextIndexId = 0
  /\ schemaVersion = 0
  /\ result = "none"

Init ==
  /\ tables = <<>>
  /\ indexes = <<>>
  /\ nextTableId = 1
  /\ nextIndexId = 1
  /\ schemaVersion = 0
  /\ result = "none"

-----------------------------------------------------------------------------
(* The ways an operation ends.                                             *)

Refuse == result' = "refused" /\ UNCHANGED catalog

NoOp == result' = "noop" /\ UNCHANGED catalog

\* The save failed: memory keeps the old catalog.
Unsaved == result' = "unsaved" /\ UNCHANGED catalog

Swap(tabs, idxs, cascade) ==
  /\ schemaVersion < MaxVersion
  /\ tables' = tabs
  /\ indexes' = idxs
  /\ schemaVersion' = schemaVersion + 1
  /\ result' = IF cascade THEN "cascaded" ELSE "committed"

\* A wrong Commit: the allocator follows the number of tables.
CommitCounting(tabs, idxs, cascade) ==
  \/ /\ Swap(tabs, idxs, cascade)
     /\ nextTableId' = Cardinality(DOMAIN tabs) + 1
     /\ UNCHANGED nextIndexId
  \/ Unsaved

\* What every operation but the two that allocate an id commits.
Commit(tabs, idxs, cascade) ==
  \/ Swap(tabs, idxs, cascade) /\ UNCHANGED <<nextTableId, nextIndexId>>
  \/ Unsaved

\* The commit of an ALTER TABLE that changes the table and no index.
CommitTable(table, info) == Commit(Put(tables, table, info), indexes, FALSE)

\* The tables but ref with a foreign key to it.
Dependents(ref) ==
  {t \in DOMAIN tables \ {ref} :
     \E c \in tables[t].constraints : IsForeignKeyTo(c, ref)}

\* A wrong one: a composite foreign key is not seen to depend on one column.
ColumnDependentsExactly(ref, ids) ==
  {t \in DOMAIN tables \ {ref} :
     \E c \in tables[t].constraints :
       IsForeignKeyTo(c, ref) /\ c.refColumns = ids}

\* Those with a foreign key to one of the columns ids of ref.
ColumnDependents(ref, ids) ==
  {t \in DOMAIN tables \ {ref} :
     \E c \in tables[t].constraints :
       IsForeignKeyTo(c, ref) /\ c.refColumns \cap ids # {}}

-----------------------------------------------------------------------------
(* Tables.                                                                 *)

\* The constraints create_table keeps: a PRIMARY KEY or UNIQUE over no columns
\* is no constraint.
Kept(specs) ==
  {c \in specs : c.kind \in {"PrimaryKey", "Unique"} => c.columns # {}}

\* The ids of a new table's primary key.
PrimaryKeyColumns(spec) ==
  UNION {FindColumns(spec.columns, c.columns) :
           c \in {d \in spec.constraints : d.kind = "PrimaryKey"}}

NewTable(name, spec) ==
  LET cols == ForceNotNull(spec.columns, PrimaryKeyColumns(spec))
      bare == [id |-> nextTableId, columns |-> cols, constraints |-> {}]
      next == Put(tables, name, bare)
  IN  [id          |-> nextTableId,
       columns     |-> cols,
       constraints |-> {Resolved(c, cols, next) : c \in Kept(spec.constraints)}]

SpecResolves(name, spec) ==
  LET next == Put(tables, name, [columns |-> spec.columns])
  IN  \A c \in spec.constraints : Resolves(c, spec.columns, next)

CreateTable(name, spec) ==
  \/ name \in DOMAIN tables /\ Refuse
  \/ name \notin DOMAIN tables /\ ~SpecResolves(name, spec) /\ Refuse
  \/ /\ name \notin DOMAIN tables
     /\ SpecResolves(name, spec)
     /\ \/ /\ Swap(Put(tables, name, NewTable(name, spec)), indexes, FALSE)
           /\ nextTableId' = nextTableId + 1
           /\ UNCHANGED nextIndexId
        \/ Unsaved

\* A self-reference is no dependency: its referrer goes with the table.
DropTable(name, ifExists, cascade) ==
  \/ name \notin DOMAIN tables /\ ifExists /\ NoOp
  \/ name \notin DOMAIN tables /\ ~ifExists /\ Refuse
  \/ name \in DOMAIN tables /\ ~cascade /\ Dependents(name) # {} /\ Refuse
  \/ LET rest == Erase(tables, name)
     IN  /\ name \in DOMAIN tables
         /\ cascade \/ Dependents(name) = {}
         /\ Commit(IF cascade THEN DropForeignKeysReferencing(rest, name) ELSE rest,
                   DropIndexesOn(indexes, name), cascade)

-----------------------------------------------------------------------------
(* Indexes.                                                                *)

CreateIndex(name, table, names, unique, ifNotExists) ==
  \/ name \in DOMAIN indexes /\ ifNotExists /\ NoOp
  \/ name \in DOMAIN indexes /\ ~ifNotExists /\ Refuse
  \/ name \notin DOMAIN indexes /\ table \notin DOMAIN tables /\ Refuse
  \/ /\ name \notin DOMAIN indexes
     /\ table \in DOMAIN tables
     /\ names = {} \/ ~HasColumns(tables[table].columns, names)
     /\ Refuse
  \/ /\ name \notin DOMAIN indexes
     /\ table \in DOMAIN tables
     /\ names # {}
     /\ HasColumns(tables[table].columns, names)
     /\ \/ /\ Swap(tables,
                   Put(indexes, name,
                       [id      |-> nextIndexId,
                        table   |-> table,
                        columns |-> FindColumns(tables[table].columns, names),
                        unique  |-> unique]),
                   FALSE)
           /\ nextIndexId' = nextIndexId + 1
           /\ UNCHANGED nextTableId
        \/ Unsaved

DropIndex(name, ifExists) ==
  \/ name \notin DOMAIN indexes /\ ifExists /\ NoOp
  \/ name \notin DOMAIN indexes /\ ~ifExists /\ Refuse
  \/ name \in DOMAIN indexes /\ Commit(tables, Erase(indexes, name), FALSE)

-----------------------------------------------------------------------------
(* Columns.                                                                *)

\* The column is there, so an ALTER COLUMN goes on.
HasTableColumn(table, col) ==
  table \in DOMAIN tables /\ HasColumn(tables[table].columns, col)

AddColumn(table, column) ==
  \/ table \notin DOMAIN tables /\ Refuse
  \/ HasTableColumn(table, column.name) /\ Refuse
  \/ /\ table \in DOMAIN tables
     /\ ~HasTableColumn(table, column.name)
     /\ LET cols == tables[table].columns
        IN  CommitTable(table,
              [tables[table] EXCEPT !.columns = Put(cols, LastColumnId(cols) + 1, column)])

\* The table without the columns of that name, and without those of its
\* constraints that list the column id.  A self-referencing foreign key that
\* only references the column is not looked for.
WithoutColumn(info, col, id) ==
  [info EXCEPT
     !.columns     = Restrict(@, {i \in DOMAIN @ : @[i].name # col}),
     !.constraints = {c \in @ : id \notin c.columns}]

\* A wrong guard: the last column goes, and then nothing can be dropped.
NoColumnIsLeft(table) == Cardinality(DOMAIN tables[table].columns) = 0

OneColumnIsLeft(table) == Cardinality(DOMAIN tables[table].columns) = 1

DropColumn(table, col, ifExists, cascade) ==
  \/ table \notin DOMAIN tables /\ Refuse
  \/ table \in DOMAIN tables /\ ~HasTableColumn(table, col) /\ ifExists /\ NoOp
  \/ table \in DOMAIN tables /\ ~HasTableColumn(table, col) /\ ~ifExists /\ Refuse
  \/ /\ HasTableColumn(table, col)
     /\ OneColumnIsLeft(table)
     /\ Refuse
  \/ /\ HasTableColumn(table, col)
     /\ ~OneColumnIsLeft(table)
     /\ LET id   == FindColumn(tables[table].columns, col)
            next == IF cascade
                      THEN DropForeignKeysReferencingColumns(tables, table, {id})
                      ELSE tables
        IN  \/ ~cascade /\ ColumnDependents(table, {id}) # {} /\ Refuse
            \/ /\ cascade \/ ColumnDependents(table, {id}) = {}
               /\ Commit(Put(next, table, WithoutColumn(next[table], col, id)),
                         DropIndexesOnColumn(indexes, table, id), cascade)

\* The table with field of its first column of that name set to value.
WithColumnSet(table, col, field, value) ==
  LET id == FindColumn(tables[table].columns, col)
  IN  [tables[table] EXCEPT !.columns[id][field] = value]

SetColumnDefault(table, col) ==
  \/ ~HasTableColumn(table, col) /\ Refuse
  \/ /\ HasTableColumn(table, col)
     /\ CommitTable(table, WithColumnSet(table, col, "hasDefault", TRUE))

DropColumnDefault(table, col) ==
  LET cols == tables[table].columns
  IN  \/ ~HasTableColumn(table, col) /\ Refuse
      \/ /\ HasTableColumn(table, col)
         /\ \/ ~cols[FindColumn(cols, col)].hasDefault /\ NoOp
            \/ /\ cols[FindColumn(cols, col)].hasDefault
               /\ CommitTable(table, WithColumnSet(table, col, "hasDefault", FALSE))

\* The column is in the table's primary key.
InPrimaryKey(info, id) ==
  \E c \in info.constraints : c.kind = "PrimaryKey" /\ id \in c.columns

SetColumnNullable(table, col, nullable) ==
  LET info == tables[table]
      id   == FindColumn(info.columns, col)
  IN  \/ ~HasTableColumn(table, col) /\ Refuse
      \/ /\ HasTableColumn(table, col)
         /\ \/ nullable /\ InPrimaryKey(info, id) /\ Refuse
            \/ /\ ~(nullable /\ InPrimaryKey(info, id))
               /\ \/ info.columns[id].nullable = nullable /\ NoOp
                  \/ /\ info.columns[id].nullable # nullable
                     /\ CommitTable(table, WithColumnSet(table, col, "nullable", nullable))

-----------------------------------------------------------------------------
(* Constraints.                                                            *)

\* What ALTER TABLE ... ADD checks before it resolves the columns.
CanAdd(table, spec) ==
  /\ table \in DOMAIN tables
  /\ spec.kind = "PrimaryKey" =>
       \A c \in tables[table].constraints : c.kind # "PrimaryKey"
  /\ ConstraintNameFree(tables[table].constraints, spec.name)
  /\ spec.kind \in {"PrimaryKey", "Unique"} => spec.columns # {}
  /\ Resolves(spec, tables[table].columns, tables)

\* add_primary_key, add_unique, add_check and add_foreign_key
AddConstraint(table, spec) ==
  \/ ~CanAdd(table, spec) /\ Refuse
  \/ /\ CanAdd(table, spec)
     /\ LET cols == tables[table].columns
            new  == Resolved(spec, cols, tables)
        IN  CommitTable(table,
              [tables[table] EXCEPT
                 !.columns     = IF spec.kind = "PrimaryKey"
                                   THEN ForceNotNull(cols, new.columns) ELSE cols,
                 !.constraints = @ \cup {new}])

\* A wrong one: dropping a UNIQUE lets its columns be null too.
WithoutConstraintRelaxed(info, target) ==
  [info EXCEPT
     !.columns     = IF target.kind \in {"PrimaryKey", "Unique"}
                       THEN RelaxNotNull(@, target.columns) ELSE @,
     !.constraints = {c \in @ : c.name # target.name}]

\* The table without its constraints of that name; the columns of the primary
\* key that target is can be null again.
WithoutConstraint(info, target) ==
  [info EXCEPT
     !.columns     = IF target.kind = "PrimaryKey"
                       THEN RelaxNotNull(@, target.columns) ELSE @,
     !.constraints = {c \in @ : c.name # target.name}]

\* A wrong one: a UNIQUE is not taken for a key.
PrimaryKeyColumnsLost(target) ==
  IF target.kind = "PrimaryKey" THEN target.columns ELSE {}

\* The columns whose key goes with target.
KeyColumnsLost(target) ==
  IF target.kind \in {"PrimaryKey", "Unique"} THEN target.columns ELSE {}

\* Only the first constraint of the name decides whether a key goes, and with
\* it what depends on it; all of the name are removed.
DropConstraint(table, cname, cascade) ==
  \/ table \notin DOMAIN tables /\ Refuse
  \/ /\ table \in DOMAIN tables
     /\ FirstNamed(tables[table].constraints, cname) = {} \/ cname = Unnamed
     /\ Refuse
  \/ /\ table \in DOMAIN tables
     /\ cname # Unnamed
     /\ \E target \in FirstNamed(tables[table].constraints, cname) :
          LET lost == KeyColumnsLost(target)
              next == DropForeignKeysReferencingColumns(tables, table, lost)
          IN  \/ ~cascade /\ ColumnDependents(table, lost) # {} /\ Refuse
              \/ /\ cascade \/ ColumnDependents(table, lost) = {}
                 /\ Commit(Put(next, table, WithoutConstraint(next[table], target)),
                           indexes, cascade)

-----------------------------------------------------------------------------

TableStep(t) ==
  \/ \E spec \in TableSpecs : CreateTable(t, spec)
  \/ \E ifExists, cascade \in BOOLEAN : DropTable(t, ifExists, cascade)
  \/ \E spec \in ConstraintSpecs : AddConstraint(t, spec)
  \/ \E k \in ConstraintName \cup {Unnamed}, cascade \in BOOLEAN :
       DropConstraint(t, k, cascade)

ColumnStep(t) ==
  \/ \E column \in ColumnSpecs : AddColumn(t, column)
  \/ \E c \in ColumnName :
       \/ \E ifExists, cascade \in BOOLEAN : DropColumn(t, c, ifExists, cascade)
       \/ SetColumnDefault(t, c)
       \/ DropColumnDefault(t, c)
       \/ \E nullable \in BOOLEAN : SetColumnNullable(t, c, nullable)

IndexStep(i) ==
  \/ \E t \in TableName, names \in IndexColumns, unique, ifNotExists \in BOOLEAN :
       CreateIndex(i, t, names, unique, ifNotExists)
  \/ \E ifExists \in BOOLEAN : DropIndex(i, ifExists)

Next ==
  \/ \E t \in TableName : TableStep(t) \/ ColumnStep(t)
  \/ \E i \in IndexName : IndexStep(i)

Spec == Init /\ [][Next]_vars

-----------------------------------------------------------------------------
(* What the manager promises of every catalog it commits.                  *)

\* A foreign key is never left without its target: the table it references
\* exists, and when that is another table, so do the columns it references
\* (drop_table and drop_column refuse under RESTRICT and detach under CASCADE).
ForeignKeysResolve ==
  \A t \in DOMAIN tables : \A c \in tables[t].constraints :
    c.kind = "ForeignKey" =>
      /\ c.refTable \in DOMAIN tables
      /\ c.refTable # t => c.refColumns \subseteq DOMAIN tables[c.refTable].columns

\* The columns a constraint or an index is made of are there: it goes when the
\* first of them goes, and an index goes with its table.
OwnColumnsExist ==
  /\ \A t \in DOMAIN tables : \A c \in tables[t].constraints :
       c.columns \subseteq DOMAIN tables[t].columns
  /\ \A i \in DOMAIN indexes :
       /\ indexes[i].table \in DOMAIN tables
       /\ indexes[i].columns \subseteq DOMAIN tables[indexes[i].table].columns

\* A table has one primary key at most and none of its columns can be null,
\* whichever of CREATE, ADD, SET / DROP NOT NULL, DROP COLUMN and DROP
\* CONSTRAINT came when.
PrimaryKeySound ==
  \A t \in DOMAIN tables :
    /\ Cardinality({c \in tables[t].constraints : c.kind = "PrimaryKey"}) <= 1
    /\ \A i \in DOMAIN tables[t].columns :
         InPrimaryKey(tables[t], i) => ~tables[t].columns[i].nullable

\* A table keeps a column: the last one cannot be dropped.
LastColumnStays == \A t \in DOMAIN tables : DOMAIN tables[t].columns # {}

\* No id comes back: the ids below the allocator are those given out, one to
\* an object, and a new object takes the allocator's.
IdsNeverReused ==
  [][ /\ \A t \in DOMAIN tables' :
           \/ t \in DOMAIN tables /\ tables'[t].id = tables[t].id
           \/ tables'[t].id >= nextTableId /\ tables'[t].id < nextTableId'
      /\ \A i \in DOMAIN indexes' :
           \/ i \in DOMAIN indexes /\ indexes'[i].id = indexes[i].id
           \/ indexes'[i].id >= nextIndexId /\ indexes'[i].id < nextIndexId'
      /\ nextTableId' >= nextTableId
      /\ nextIndexId' >= nextIndexId ]_vars

\* An operation changes one table.  Every other keeps its columns and its
\* constraints, but for foreign keys to that one table, and those it loses only
\* to a CASCADE.
OthersOnlyDetached ==
  [][ \E x \in TableName :
        /\ DOMAIN tables' \ {x} = DOMAIN tables \ {x}
        /\ \A t \in DOMAIN tables \ {x} :
             /\ tables'[t].columns = tables[t].columns
             /\ tables'[t].constraints \subseteq tables[t].constraints
             /\ \A c \in tables[t].constraints \ tables'[t].constraints :
                  IsForeignKeyTo(c, x) /\ result' = "cascaded" ]_vars

\* A key does not go before the foreign keys of other tables that reference
\* exactly its columns: DROP CONSTRAINT and DROP COLUMN refuse, or under CASCADE
\* detach them in the same commit.
KeysOutliveDependents ==
  [][ \A t \in DOMAIN tables \cap DOMAIN tables' :
        \A k \in tables[t].constraints \ tables'[t].constraints :
          k.kind \in {"PrimaryKey", "Unique"} =>
            \A u \in DOMAIN tables' \ {t} : \A c \in tables'[u].constraints :
              ~(IsForeignKeyTo(c, t) /\ c.refColumns = k.columns) ]_vars

=============================================================================

----------------------------- MODULE DdlFrontend -----------------------------
(***************************************************************************)
(* DDL statements on their way to the catalog manager (src/ddl.cpp):       *)
(* validate_ddl, which looks at the statement alone, and execute_ddl,      *)
(* which calls the manager's operation.  Both run inside one call, so a    *)
(* statement is one step.                                                  *)
(*                                                                         *)
(* A column name in a statement is a spelling.  validate_ddl compares      *)
(* spellings; everything after it compares what they fold to.  The other   *)
(* names are folded from the start, as nothing here compares them.         *)
(*                                                                         *)
(* An expression is the columns it reads and whether the type the analyzer *)
(* infers for it is one its place allows.  The query of a CREATE TABLE AS  *)
(* reads one table: an item of its projection is a column of it or is      *)
(* computed, and clean says that nothing else in the query is wrong.       *)
(***************************************************************************)
EXTENDS CatalogManager

CONSTANTS
  Spelling,       \* the spellings of column names
  Fold(_),        \* the name a spelling folds to
  Anonymous,      \* the empty name of a computed column
  Positional(_),  \* "column1", "column2", ...
  Statements      \* the statements executed

Expression == [columns : SUBSET Spelling, typeOk : BOOLEAN]

\* A constraint as written.  typeOk is about a CHECK's predicate.
Declaration == [kind       : ConstraintKind,
                name       : ConstraintName \cup {Unnamed},
                columns    : SUBSET Spelling,
                refTable   : TableName \cup {NoTable},
                refColumns : SUBSET Spelling,
                typeOk     : BOOLEAN]

ColumnDefinition == [name : Spelling, typeKnown : BOOLEAN,
                     notNull : BOOLEAN, primaryKey : BOOLEAN, unique : BOOLEAN,
                     defaults : SUBSET Expression,
                     checks : SUBSET {d \in Declaration : d.kind = "Check"},
                     references : SUBSET {d \in Declaration : d.kind = "ForeignKey"}]

ProjectionItem ==
  [name : Spelling \cup {Anonymous}, source : Spelling \cup {Anonymous}, nullable : BOOLEAN]

\* What the parser makes of a statement of each kind.
IsStatement(s) ==
  /\ s.complete \in BOOLEAN
  /\ s.kind \in {"create table", "create table as"} =>
       s.table \in TableName /\ s.ifNotExists \in BOOLEAN
  /\ s.kind = "create table" =>
       /\ s.columns \in Seq(ColumnDefinition)
       /\ s.constraints \subseteq Declaration
       /\ IsFiniteSet(s.constraints)
  /\ s.kind = "create table as" =>
       /\ s.from \in TableName
       /\ s.projection \in Seq(ProjectionItem)
       /\ \A n \in DOMAIN s.projection : Positional(n) \in Spelling
  /\ s.kind = "create index" =>
       /\ s.name \in IndexName /\ s.table \in TableName
       /\ s.columns \subseteq Spelling
       /\ s.unique \in BOOLEAN /\ s.ifNotExists \in BOOLEAN
  /\ s.kind = "add column" => s.table \in TableName /\ s.column \in ColumnDefinition
  /\ s.kind = "add constraint" => s.table \in TableName /\ s.constraint \in Declaration
  /\ s.kind \in {"alter column", "drop column"} =>
       s.table \in TableName /\ s.column \in Spelling
  /\ s.kind = "alter column" => s.defaults \subseteq Expression
  /\ s.kind = "drop constraint" => s.table \in TableName
  /\ s.kind \in {"drop column", "drop constraint", "drop"} => s.cascade \in BOOLEAN
  /\ s.kind = "drop" =>
       /\ s.ifExists \in BOOLEAN
       /\ s.object = "table" => s.name \in TableName
       /\ s.object = "index" => s.name \in IndexName

ASSUME FrontAssumption ==
  /\ \A x \in Spelling : Fold(x) \in ColumnName
  /\ \A s \in Statements : IsStatement(s)

VARIABLE statement  \* history: the last statement executed

frontVars == <<vars, statement>>

Names(spellings) == {Fold(x) : x \in spellings}

\* A constraint of a statement, as the manager takes it.
SpecOf(d) ==
  [kind       |-> d.kind,
   name       |-> d.name,
   columns    |-> Names(d.columns),
   refTable   |-> d.refTable,
   refColumns |-> Names(d.refColumns)]

\* A key a column definition declares on its column.
ColumnKey(kind, c) ==
  [kind |-> kind, name |-> Unnamed, columns |-> {c.name},
   refTable |-> NoTable, refColumns |-> {}, typeOk |-> TRUE]

\* What a column definition declares beside the column: PRIMARY KEY, UNIQUE,
\* CHECK and REFERENCES.
Inline(c) ==
  (IF c.primaryKey THEN {ColumnKey("PrimaryKey", c)} ELSE {})
  \cup (IF c.unique THEN {ColumnKey("Unique", c)} ELSE {})
  \cup c.checks
  \cup c.references

\* The constraints a CREATE TABLE declares, on its columns and of its own.
Declared(s) == s.constraints \cup UNION {Inline(s.columns[i]) : i \in DOMAIN s.columns}

-----------------------------------------------------------------------------
(* validate_ddl.  A statement is complete when the names and parts its kind *)
(* needs are there.                                                         *)

\* The columns a CREATE TABLE defines, by spelling.
Pending(s) == {s.columns[i].name : i \in DOMAIN s.columns}

ValidColumn(s, c) ==
  /\ c.typeKnown
  /\ \A d \in c.defaults : d.columns \cap Pending(s) = {} /\ d.typeOk

\* A wrong one: the columns are counted as defined, with their keys unseen.
ValidCreateTableUncounted(s) ==
  /\ s.columns # <<>>
  /\ \A i, j \in DOMAIN s.columns :
       s.columns[i].name = s.columns[j].name => i = j
  /\ \A i \in DOMAIN s.columns : ValidColumn(s, s.columns[i])
  /\ \A d \in Declared(s) : d.kind = "Check" => d.columns \subseteq Pending(s) /\ d.typeOk

ValidCreateTable(s) ==
  /\ s.columns # <<>>
  /\ \A i, j \in DOMAIN s.columns :
       s.columns[i].name = s.columns[j].name => i = j
  /\ \A i \in DOMAIN s.columns : ValidColumn(s, s.columns[i])
  /\ Cardinality({d \in Declared(s) : d.kind = "PrimaryKey"}) <= 1
  /\ \A d \in Declared(s) : d.kind = "Check" => d.columns \subseteq Pending(s) /\ d.typeOk

\* Only NOT NULL and DEFAULT may stand inline.
ValidAddColumn(s) ==
  /\ s.column.typeKnown
  /\ Inline(s.column) = {}
  /\ \A d \in s.column.defaults : d.typeOk

Valid(s) ==
  /\ s.complete
  /\ s.kind = "create table" => ValidCreateTable(s)
  /\ s.kind = "create index" => s.columns # {}
  /\ s.kind = "add column" => ValidAddColumn(s)
  /\ s.kind = "alter column" => s.change # "other"
  /\ s.kind = "drop" => s.object # "other"

-----------------------------------------------------------------------------
(* execute_ddl.                                                            *)

\* A wrong one: NOT NULL is read off the PRIMARY KEY alone.
BuildColumnOfKey(c) ==
  [name       |-> Fold(c.name),
   nullable   |-> ~c.primaryKey,
   hasDefault |-> c.defaults # {}]

\* PRIMARY KEY implies NOT NULL.
BuildColumn(c) ==
  [name       |-> Fold(c.name),
   nullable   |-> ~(c.notNull \/ c.primaryKey),
   hasDefault |-> c.defaults # {}]

\* The keys of a table are merged into one list, which is the declared key as
\* long as there is one at most.
PrimaryKeys(s) ==
  LET keys == {d \in Declared(s) : d.kind = "PrimaryKey"}
      own  == {d \in keys : d \in s.constraints}
  IN  IF keys = {} THEN {}
      ELSE {[kind       |-> "PrimaryKey",
             name       |-> IF own = {} THEN Unnamed ELSE (CHOOSE d \in own : TRUE).name,
             columns    |-> Names(UNION {d.columns : d \in keys}),
             refTable   |-> NoTable,
             refColumns |-> {}]}

Body(s) ==
  [columns     |-> [i \in DOMAIN s.columns |-> BuildColumn(s.columns[i])],
   constraints |-> PrimaryKeys(s)
                     \cup {SpecOf(d) : d \in {e \in Declared(s) : e.kind # "PrimaryKey"}}]

\* CREATE TABLE, unless IF NOT EXISTS finds it.
Create(s, body) ==
  IF s.ifNotExists /\ s.table \in DOMAIN tables THEN NoOp ELSE CreateTable(s.table, body)

\* The defining query analyzes against the catalog as it is now.
Analyzes(s) ==
  /\ s.clean
  /\ s.from \in DOMAIN tables
  /\ \A i \in DOMAIN s.projection :
       s.projection[i].source = Anonymous \/ HasTableColumn(s.from, Fold(s.projection[i].source))

ProjectedNullable(s, item) ==
  LET cols == tables[s.from].columns
  IN  IF item.source = Anonymous
        THEN item.nullable
        ELSE cols[FindColumn(cols, Fold(item.source))].nullable

\* The columns of the query's projection: an item without a name takes its
\* number among those for a name.
Projected(s) ==
  LET item(i)    == s.projection[i]
      unnamed(i) == {j \in 1 .. i : item(j).name = Anonymous}
  IN  [i \in DOMAIN s.projection |->
         [name       |-> Fold(IF item(i).name = Anonymous
                                THEN Positional(Cardinality(unnamed(i))) ELSE item(i).name),
          nullable   |-> ProjectedNullable(s, item(i)),
          hasDefault |-> FALSE]]

CreateTableAs(s) ==
  IF s.ifNotExists /\ s.table \in DOMAIN tables THEN NoOp
  ELSE IF ~Analyzes(s) \/ s.projection = <<>> THEN Refuse
  ELSE CreateTable(s.table, [columns |-> Projected(s), constraints |-> {}])

\* ADD CHECK needs the table for its type check, which comes first.
AddTableConstraint(s) ==
  IF s.constraint.kind = "Check" /\ ~(s.table \in DOMAIN tables /\ s.constraint.typeOk)
    THEN Refuse
    ELSE AddConstraint(s.table, SpecOf(s.constraint))

\* SET DEFAULT is checked against the type of a column that is there.
AlterColumn(s) ==
  LET col == Fold(s.column)
  IN  \/ s.change = "set not null" /\ SetColumnNullable(s.table, col, FALSE)
      \/ s.change = "drop not null" /\ SetColumnNullable(s.table, col, TRUE)
      \/ s.change = "drop default" /\ DropColumnDefault(s.table, col)
      \/ /\ s.change = "set default"
         /\ IF HasTableColumn(s.table, col) /\ \E d \in s.defaults : ~d.typeOk
              THEN Refuse
              ELSE SetColumnDefault(s.table, col)

Drop(s) ==
  \/ s.object = "index" /\ DropIndex(s.name, s.ifExists)
  \/ s.object = "table" /\ DropTable(s.name, s.ifExists, s.cascade)

Dispatch(s) ==
  \/ s.kind = "create table" /\ Create(s, Body(s))
  \/ s.kind = "create table as" /\ CreateTableAs(s)
  \/ s.kind = "create index"
     /\ CreateIndex(s.name, s.table, Names(s.columns), s.unique, s.ifNotExists)
  \/ s.kind = "add column" /\ AddColumn(s.table, BuildColumn(s.column))
  \/ s.kind = "add constraint" /\ AddTableConstraint(s)
  \/ s.kind = "alter column" /\ AlterColumn(s)
  \/ s.kind = "drop column" /\ DropColumn(s.table, Fold(s.column), FALSE, s.cascade)
  \/ s.kind = "drop constraint" /\ DropConstraint(s.table, s.name, s.cascade)
  \/ s.kind = "drop" /\ Drop(s)

ExecuteDdl(s) ==
  /\ statement' = s
  /\ \/ ~Valid(s) /\ Refuse
     \/ Valid(s) /\ Dispatch(s)

FrontInit == Init /\ statement = [kind |-> "none"]

FrontNext == \E s \in Statements : ExecuteDdl(s)

FrontSpec == FrontInit /\ [][FrontNext]_frontVars

-----------------------------------------------------------------------------
(* What a statement may rely on.                                           *)

DeclaredBy(s) ==
  IF s.kind = "create table" THEN Declared(s)
  ELSE IF s.kind = "add column" THEN Inline(s.column)
  ELSE IF s.kind = "add constraint" THEN {s.constraint}
  ELSE {}

NamesOf(info, ids) == {info.columns[i].name : i \in ids}

\* The constraint d stands in table t of tabs, column for column.
Stands(d, t, tabs) ==
  \E c \in tabs[t].constraints :
    /\ c.kind = d.kind
    /\ c.name = d.name
    /\ NamesOf(tabs[t], c.columns) = Names(d.columns)
    /\ d.kind = "ForeignKey" =>
         /\ c.refTable = d.refTable
         /\ NamesOf(tabs[d.refTable], c.refColumns) = Names(d.refColumns)

\* Nothing a statement declares is lost on the way: every PRIMARY KEY, UNIQUE,
\* CHECK and REFERENCES of a CREATE TABLE or an ALTER TABLE ... ADD that
\* commits, wherever it was written, stands in the table as declared.  What the
\* front end cannot pass on it refuses.
NothingDeclaredIsLost ==
  [][ result' = "committed" =>
        \A d \in DeclaredBy(statement') : Stands(d, statement'.table, tables') ]_frontVars

\* The columns a CREATE TABLE defines.
DefinedAs(s, cols) ==
  LET keys  == {d \in Declared(s) : d.kind = "PrimaryKey"}
      keyed == Names(UNION {d.columns : d \in keys})
  IN  /\ DOMAIN cols = DOMAIN s.columns
      /\ \A i \in DOMAIN cols :
           LET c == s.columns[i]
           IN  /\ cols[i].name = Fold(c.name)
               /\ cols[i].nullable <=> ~c.notNull /\ Fold(c.name) \notin keyed
               /\ cols[i].hasDefault <=> c.defaults # {}

\* The columns the query of a CREATE TABLE AS projects.
ProjectedAs(s, cols) ==
  /\ DOMAIN cols = DOMAIN s.projection
  /\ \A i \in DOMAIN cols :
       LET item == s.projection[i]
       IN  /\ item.name # Anonymous => cols[i].name = Fold(item.name)
           /\ cols[i].nullable <=> ProjectedNullable(s, item)

\* The columns a CREATE TABLE defines, or a CREATE TABLE AS projects, are the
\* table's, in order, under their folded names and numbered from 1, and the
\* ones that can be null are those declared so: neither NOT NULL nor in a
\* primary key, inline or not; or null in the query.
ColumnsAsDeclared ==
  [][ result' = "committed" =>
        LET s    == statement'
            cols == tables'[s.table].columns
        IN  /\ s.kind = "create table" => DefinedAs(s, cols)
            /\ s.kind = "create table as" => ProjectedAs(s, cols) ]_frontVars

=============================================================================

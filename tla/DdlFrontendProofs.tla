-------------------------- MODULE DdlFrontendProofs --------------------------
(***************************************************************************)
(* Proofs about CatalogManager, for every set of names and every input: no *)
(* sequence of DDL operations leaves a foreign key, a constraint or an     *)
(* index without what it refers to; and what one operation may change: ids *)
(* are not reused, other tables lose nothing but what a CASCADE detaches,  *)
(* primary keys stay sound, a key does not go before the foreign keys that *)
(* reference it, and a table keeps a column.                               *)
(*                                                                         *)
(* The invariant that carries the references is Sound: every column id a   *)
(* constraint or an index refers to is not only there, it is the first of  *)
(* its name in its table.  Without that it is not inductive, for DROP      *)
(* COLUMN removes every column of a name and looks after the first one's   *)
(* referrers only. First come the lemmas about the data of the catalog:    *)
(* what the column lookups return, and what the cascade helpers and map    *)
(* updates preserve. For the action properties, every operation that       *)
(* commits has one of three shapes: it creates a table, drops one, or      *)
(* alters one, and a lemma for each operation says which and how; the      *)
(* theorems are about the shapes.                                          *)
(*                                                                         *)
(* What is proved is about any caller. At the end, what the front end      *)
(* makes of its statements is what the theorems ask of a caller, so that   *)
(* they hold of SQL.                                                       *)
(***************************************************************************)
EXTENDS DdlFrontend, NaturalSetProofs

-----------------------------------------------------------------------------
(* Column lookups.                                                         *)

\* The columns a lookup by name can return: those first of their name.
Firsts(cols) ==
  {i \in DOMAIN cols :
     \A j \in DOMAIN cols : cols[j].name = cols[i].name => i <= j}

\* The first column of a name is there, has the name and is first of it.
LEMMA FindColumnFirst ==
  ASSUME NEW cols, IsColumns(cols), NEW n, HasColumn(cols, n)
  PROVE  /\ FindColumn(cols, n) \in Firsts(cols)
         /\ cols[FindColumn(cols, n)].name = n
<1> DEFINE S == {i \in DOMAIN cols : cols[i].name = n}
<1>1. S \in SUBSET Nat /\ S # {}
  BY DEF HasColumn, IsColumns, Id
<1>2. \E x \in S : \A y \in S : x <= y
  BY <1>1, LeastExists
<1>3. FindColumn(cols, n) \in S /\ \A y \in S : FindColumn(cols, n) <= y
  BY <1>2 DEF FindColumn, Min
<1> QED BY <1>3 DEF Firsts

LEMMA FindColumnsFirst ==
  ASSUME NEW cols, IsColumns(cols), NEW names, HasColumns(cols, names)
  PROVE  FindColumns(cols, names) \subseteq Firsts(cols)
BY FindColumnFirst DEF FindColumns, HasColumns

\* A column first of its name is the one its name finds.
LEMMA FirstIsFound ==
  ASSUME NEW cols, IsColumns(cols), NEW i \in Firsts(cols)
  PROVE  i = FindColumn(cols, cols[i].name)
<1>1. HasColumn(cols, cols[i].name)
  BY DEF HasColumn, Firsts
<1> DEFINE f == FindColumn(cols, cols[i].name)
<1>2. f \in Firsts(cols) /\ cols[f].name = cols[i].name
  BY <1>1, FindColumnFirst
<1>3. i <= f /\ f <= i /\ i \in Nat /\ f \in Nat
  BY <1>2 DEF Firsts, IsColumns, Id
<1> QED BY <1>3

LEMMA FirstsAreColumns ==
  ASSUME NEW cols PROVE Firsts(cols) \subseteq DOMAIN cols
BY DEF Firsts

\* Changing anything of the columns but their names moves no lookup.
LEMMA SameNamesSameFirsts ==
  ASSUME NEW cols, NEW new, DOMAIN new = DOMAIN cols,
         \A i \in DOMAIN cols : new[i].name = cols[i].name
  PROVE  Firsts(new) = Firsts(cols)
BY DEF Firsts

\* The id ADD COLUMN takes is new to the table, and the columns with it.
LEMMA NextColumnId ==
  ASSUME NEW cols, IsColumns(cols), NEW column \in ColumnInfo
  PROVE  LET new == LastColumnId(cols) + 1
         IN  /\ new \in Id
             /\ \A i \in DOMAIN cols : i < new
             /\ IsColumns(Put(cols, new, column))
<1> DEFINE S == DOMAIN cols \cup {0}
           new == LastColumnId(cols) + 1
<1>1. IsFiniteSet(S) /\ S \subseteq Nat /\ S # {}
  BY FS_AddElement DEF IsColumns, Id
<1>2. Max(S) \in S /\ \A k \in S : k <= Max(S)
  BY <1>1, MaxIsGreatest
<1>3. new \in Id /\ \A i \in DOMAIN cols : i < new
  BY <1>1, <1>2 DEF LastColumnId, Id
<1>4. IsFiniteSet(DOMAIN cols \cup {new})
  BY FS_AddElement DEF IsColumns
<1>5. IsColumns(Put(cols, new, column))
  BY <1>3, <1>4 DEF IsColumns, Put
<1> QED BY <1>3, <1>5

\* A new column of a new name moves no lookup.
LEMMA PutKeepsFirsts ==
  ASSUME NEW cols, IsColumns(cols), NEW new \in Id, NEW column \in ColumnInfo,
         \A i \in DOMAIN cols : i < new, ~HasColumn(cols, column.name)
  PROVE  Firsts(cols) \subseteq Firsts(Put(cols, new, column))
BY DEF Firsts, Put, HasColumn, IsColumns, Id

\* Dropping the columns of a name moves no lookup of another.
LEMMA DropKeepsFirsts ==
  ASSUME NEW cols, IsColumns(cols), NEW n
  PROVE  LET rest == Restrict(cols, {i \in DOMAIN cols : cols[i].name # n})
         IN  /\ IsColumns(rest)
             /\ \A i \in Firsts(cols) : i # FindColumn(cols, n) => i \in Firsts(rest)
<1> DEFINE keep == {i \in DOMAIN cols : cols[i].name # n}
           rest == Restrict(cols, keep)
<1>1. rest = [i \in keep |-> cols[i]] /\ DOMAIN rest = keep
  BY DEF Restrict
<1>2. IsFiniteSet(keep)
  BY FS_Subset DEF IsColumns
<1>3. IsColumns(rest)
  BY <1>1, <1>2 DEF IsColumns
<1>4. ASSUME NEW i \in Firsts(cols), i # FindColumn(cols, n) PROVE i \in Firsts(rest)
  <2>1. cols[i].name # n
    BY <1>4, FirstIsFound
  <2>2. i \in keep
    BY <2>1 DEF Firsts
  <2> QED BY <1>1, <2>2 DEF Firsts
<1> QED BY <1>3, <1>4

LEMMA ForceNotNullKeeps ==
  ASSUME NEW cols, IsColumns(cols), NEW ids
  PROVE  /\ IsColumns(ForceNotNull(cols, ids))
         /\ Firsts(ForceNotNull(cols, ids)) = Firsts(cols)
<1> DEFINE new == ForceNotNull(cols, ids)
<1>1. DOMAIN new = DOMAIN cols
  BY DEF ForceNotNull
<1>2. \A i \in DOMAIN cols : new[i] \in ColumnInfo /\ new[i].name = cols[i].name
  BY DEF ForceNotNull, IsColumns, ColumnInfo
<1>3. IsColumns(new)
  BY <1>1, <1>2 DEF IsColumns, ForceNotNull
<1> QED BY <1>1, <1>2, <1>3, SameNamesSameFirsts

LEMMA RelaxNotNullKeeps ==
  ASSUME NEW cols, IsColumns(cols), NEW ids
  PROVE  /\ IsColumns(RelaxNotNull(cols, ids))
         /\ Firsts(RelaxNotNull(cols, ids)) = Firsts(cols)
<1> DEFINE new == RelaxNotNull(cols, ids)
<1>1. DOMAIN new = DOMAIN cols
  BY DEF RelaxNotNull
<1>2. \A i \in DOMAIN cols : new[i] \in ColumnInfo /\ new[i].name = cols[i].name
  BY DEF RelaxNotNull, IsColumns, ColumnInfo
<1>3. IsColumns(new)
  BY <1>1, <1>2 DEF IsColumns, RelaxNotNull
<1> QED BY <1>1, <1>2, <1>3, SameNamesSameFirsts

-----------------------------------------------------------------------------
(* What the invariant is made of.                                          *)

TypedTables(tabs) ==
  /\ DOMAIN tabs \subseteq TableName
  /\ \A t \in DOMAIN tabs : IsTableInfo(tabs[t])
  /\ tabs = [t \in DOMAIN tabs |-> tabs[t]]

TypedIndexes(idxs) ==
  /\ DOMAIN idxs \subseteq IndexName
  /\ idxs \in [DOMAIN idxs -> IndexInfo]

\* A table's constraints are over first columns.
Owned(info) ==
  \A c \in info.constraints : c.columns \subseteq Firsts(info.columns)

\* The foreign keys of table t are to tables of tabs and, but for t itself, to
\* first columns of theirs.
Referring(tabs, t) ==
  \A c \in tabs[t].constraints : c.kind = "ForeignKey" =>
    /\ c.refTable \in DOMAIN tabs
    /\ c.refTable # t => c.refColumns \subseteq Firsts(tabs[c.refTable].columns)

\* An index is over first columns of a table.
Indexing(tabs, i) ==
  i.table \in DOMAIN tabs /\ i.columns \subseteq Firsts(tabs[i.table].columns)

Sound(tabs, idxs) ==
  /\ TypedTables(tabs)
  /\ TypedIndexes(idxs)
  /\ \A t \in DOMAIN tabs : Owned(tabs[t]) /\ Referring(tabs, t)
  /\ \A i \in DOMAIN idxs : Indexing(tabs, idxs[i])

\* What the cascades do to the tables they do not drop: constraints go.
Thinner(next, tabs) ==
  /\ DOMAIN next = DOMAIN tabs
  /\ next = [t \in DOMAIN next |-> next[t]]
  /\ \A t \in DOMAIN tabs :
       /\ next[t].id = tabs[t].id
       /\ next[t].columns = tabs[t].columns
       /\ next[t].constraints \subseteq tabs[t].constraints
       /\ IsTableInfo(next[t])

\* What the cascades do to the indexes: some go.
Fewer(idxs, old) ==
  /\ DOMAIN idxs \subseteq DOMAIN old
  /\ idxs = [i \in DOMAIN idxs |-> old[i]]

-----------------------------------------------------------------------------
(* What the parts of an operation preserve.                                *)

LEMMA PutTyped ==
  ASSUME NEW tabs, TypedTables(tabs), NEW x \in TableName, NEW info, IsTableInfo(info)
  PROVE  TypedTables(Put(tabs, x, info))
BY DEF TypedTables, Put

LEMMA SameTablesThinner ==
  ASSUME NEW tabs, TypedTables(tabs) PROVE Thinner(tabs, tabs)
BY DEF TypedTables, Thinner

LEMMA ThinnerTyped ==
  ASSUME NEW tabs, TypedTables(tabs), NEW next, Thinner(next, tabs)
  PROVE  TypedTables(next)
BY DEF TypedTables, Thinner

LEMMA WithFewerConstraints ==
  ASSUME NEW info, IsTableInfo(info), NEW cons, cons \subseteq info.constraints
  PROVE  LET new == [info EXCEPT !.constraints = cons]
         IN  /\ IsTableInfo(new)
             /\ new.id = info.id /\ new.columns = info.columns /\ new.constraints = cons
BY DEF IsTableInfo

LEMMA CascadeThins ==
  ASSUME NEW tabs, TypedTables(tabs), NEW ref
  PROVE  /\ Thinner(DropForeignKeysReferencing(tabs, ref), tabs)
         /\ \A t \in DOMAIN tabs :
              \A c \in DropForeignKeysReferencing(tabs, ref)[t].constraints :
                ~IsForeignKeyTo(c, ref)
<1> DEFINE kept(t) == {c \in tabs[t].constraints : ~IsForeignKeyTo(c, ref)}
           next == DropForeignKeysReferencing(tabs, ref)
<1>1. next = [t \in DOMAIN tabs |-> [tabs[t] EXCEPT !.constraints = kept(t)]]
  BY DEF DropForeignKeysReferencing
<1>2. ASSUME NEW t \in DOMAIN tabs
      PROVE  /\ IsTableInfo(next[t])
             /\ next[t].id = tabs[t].id
             /\ next[t].columns = tabs[t].columns
             /\ next[t].constraints = kept(t)
  <2>1. next[t] = [tabs[t] EXCEPT !.constraints = kept(t)]
    BY <1>1
  <2>2. kept(t) \subseteq tabs[t].constraints /\ IsTableInfo(tabs[t])
    BY DEF TypedTables
  <2> QED BY <2>1, <2>2, WithFewerConstraints
<1>3. DOMAIN next = DOMAIN tabs /\ next = [t \in DOMAIN next |-> next[t]]
  BY <1>1
<1> QED BY <1>2, <1>3 DEF Thinner

LEMMA ColumnCascadeThins ==
  ASSUME NEW tabs, TypedTables(tabs), NEW ref, NEW ids
  PROVE  LET next == DropForeignKeysReferencingColumns(tabs, ref, ids)
         IN  /\ Thinner(next, tabs)
             /\ ref \in DOMAIN tabs => next[ref] = tabs[ref]
             /\ \A t \in DOMAIN tabs \ {ref} : \A c \in next[t].constraints :
                  ~(IsForeignKeyTo(c, ref) /\ c.refColumns \cap ids # {})
<1> DEFINE kept(t) == {c \in tabs[t].constraints :
                         ~(IsForeignKeyTo(c, ref) /\ c.refColumns \cap ids # {})}
           next == DropForeignKeysReferencingColumns(tabs, ref, ids)
<1>1. next = [t \in DOMAIN tabs |->
                IF t = ref THEN tabs[t] ELSE [tabs[t] EXCEPT !.constraints = kept(t)]]
  BY DEF DropForeignKeysReferencingColumns
<1>2. ASSUME NEW t \in DOMAIN tabs, t # ref
      PROVE  /\ IsTableInfo(next[t])
             /\ next[t].id = tabs[t].id
             /\ next[t].columns = tabs[t].columns
             /\ next[t].constraints = kept(t)
  <2>1. next[t] = [tabs[t] EXCEPT !.constraints = kept(t)]
    BY <1>1, <1>2
  <2>2. kept(t) \subseteq tabs[t].constraints /\ IsTableInfo(tabs[t])
    BY DEF TypedTables
  <2> QED BY <2>1, <2>2, WithFewerConstraints
<1>3. ASSUME ref \in DOMAIN tabs PROVE next[ref] = tabs[ref] /\ IsTableInfo(next[ref])
  BY <1>1, <1>3 DEF TypedTables
<1>4. DOMAIN next = DOMAIN tabs /\ next = [t \in DOMAIN next |-> next[t]]
  BY <1>1
<1>5. Thinner(next, tabs)
  BY <1>2, <1>3, <1>4 DEF Thinner
<1> QED BY <1>2, <1>3, <1>5

\* The one argument behind all operations that create or alter a table x: the
\* rest is thinner, x's own constraints are over its first columns and refer to
\* first columns, and what still refers to x does too.
LEMMA OneTableChanges ==
  ASSUME NEW tabs, NEW idxs, Sound(tabs, idxs),
         NEW next, Thinner(next, tabs),
         NEW x \in TableName, NEW info, IsTableInfo(info), Owned(info),
         \A c \in info.constraints : c.kind = "ForeignKey" =>
           \/ c.refTable = x
           \/ /\ c.refTable \in DOMAIN tabs
              /\ c.refColumns \subseteq Firsts(tabs[c.refTable].columns),
         \A t \in DOMAIN tabs \ {x} : \A c \in next[t].constraints :
           IsForeignKeyTo(c, x) => c.refColumns \subseteq Firsts(info.columns),
         NEW fewer, Fewer(fewer, idxs),
         \A i \in DOMAIN fewer :
           fewer[i].table = x => fewer[i].columns \subseteq Firsts(info.columns)
  PROVE  Sound(Put(next, x, info), fewer)
<1> DEFINE new == Put(next, x, info)
<1>1. DOMAIN new = DOMAIN tabs \cup {x} /\ new[x] = info
  BY DEF Put, Thinner
<1>2. ASSUME NEW t \in DOMAIN tabs, t # x
      PROVE  /\ new[t].columns = tabs[t].columns
             /\ new[t].constraints = next[t].constraints
             /\ new[t].constraints \subseteq tabs[t].constraints
  BY <1>2 DEF Put, Thinner
<1>3. TypedTables(new)
  BY ThinnerTyped, PutTyped DEF Sound
<1>4. TypedIndexes(fewer)
  BY DEF Sound, TypedIndexes, Fewer
<1>5. ASSUME NEW t \in DOMAIN new PROVE Owned(new[t])
  <2>1. CASE t = x
    BY <1>1, <2>1
  <2>2. CASE t # x
    BY <1>1, <1>2, <2>2 DEF Sound, Owned
  <2> QED BY <2>1, <2>2
<1>6. ASSUME NEW t \in DOMAIN new, NEW c \in new[t].constraints, c.kind = "ForeignKey"
      PROVE  /\ c.refTable \in DOMAIN new
             /\ c.refTable # t => c.refColumns \subseteq Firsts(new[c.refTable].columns)
  <2>1. CASE t = x
    BY <1>1, <1>2, <1>6, <2>1
  <2>2. CASE t # x
    <3>1. t \in DOMAIN tabs /\ c \in tabs[t].constraints /\ c \in next[t].constraints
      BY <1>1, <1>2, <2>2
    <3>2. /\ c.refTable \in DOMAIN tabs
          /\ c.refTable # t => c.refColumns \subseteq Firsts(tabs[c.refTable].columns)
      BY <1>6, <3>1 DEF Sound, Referring
    <3>3. CASE c.refTable = x
      BY <1>1, <1>6, <2>2, <3>1, <3>3 DEF IsForeignKeyTo
    <3>4. CASE c.refTable # x
      BY <1>1, <1>2, <3>2, <3>4
    <3> QED BY <3>3, <3>4
  <2> QED BY <2>1, <2>2
<1>7. ASSUME NEW i \in DOMAIN fewer PROVE Indexing(new, fewer[i])
  <2>1. i \in DOMAIN idxs /\ fewer[i] = idxs[i] /\ Indexing(tabs, idxs[i])
    BY DEF Sound, Fewer
  <2> QED BY <1>1, <1>2, <2>1 DEF Indexing
<1> QED BY <1>3, <1>4, <1>5, <1>6, <1>7 DEF Sound, Referring

LEMMA ResolvedSound ==
  ASSUME NEW spec \in ConstraintSpec, NEW cols, IsColumns(cols),
         NEW tabs, DOMAIN tabs \subseteq TableName,
         \A t \in DOMAIN tabs : IsColumns(tabs[t].columns),
         Resolves(spec, cols, tabs)
  PROVE  LET c == Resolved(spec, cols, tabs)
         IN  /\ c \in Constraint
             /\ c.columns \subseteq Firsts(cols)
             /\ c.kind = "ForeignKey" =>
                  /\ c.refTable \in DOMAIN tabs
                  /\ c.refColumns \subseteq Firsts(tabs[c.refTable].columns)
<1> DEFINE c == Resolved(spec, cols, tabs)
<1>1. c.columns \subseteq Firsts(cols) /\ c.columns \subseteq Id
  <2>1. FindColumns(cols, spec.columns) \subseteq Firsts(cols)
    BY FindColumnsFirst DEF Resolves
  <2> QED BY <2>1, FirstsAreColumns DEF Resolved, IsColumns
<1>2. CASE spec.kind = "ForeignKey"
  <2>1. /\ spec.refTable \in DOMAIN tabs
        /\ HasColumns(tabs[spec.refTable].columns, spec.refColumns)
    BY <1>2 DEF Resolves
  <2>2. c.refTable = spec.refTable
        /\ c.refColumns = FindColumns(tabs[spec.refTable].columns, spec.refColumns)
    BY <1>2 DEF Resolved
  <2>3. /\ c.refColumns \subseteq Firsts(tabs[c.refTable].columns)
        /\ c.refColumns \subseteq Id
    <3> DEFINE ref == tabs[spec.refTable].columns
    <3>1. IsColumns(ref) /\ HasColumns(ref, spec.refColumns)
      BY <2>1
    <3>2. FindColumns(ref, spec.refColumns) \subseteq Firsts(ref)
      BY <3>1, FindColumnsFirst
    <3>3. Firsts(ref) \subseteq Id
      BY <3>1, FirstsAreColumns DEF IsColumns
    <3> QED BY <2>2, <3>2, <3>3
  <2> QED BY <1>1, <1>2, <2>1, <2>2, <2>3 DEF Resolved, Constraint, ConstraintSpec
<1>3. CASE spec.kind # "ForeignKey"
  BY <1>1, <1>3 DEF Resolved, Constraint, ConstraintSpec
<1> QED BY <1>2, <1>3

-----------------------------------------------------------------------------
(* The invariant, and the ways an operation ends.                          *)

IInv == TypeOK /\ Sound(tables, indexes)

LEMMA NothingChanged ==
  ASSUME IInv, Refuse \/ NoOp \/ Unsaved PROVE IInv'
BY DEF IInv, TypeOK, Refuse, NoOp, Unsaved, catalog, Result, Sound, TypedTables,
       TypedIndexes, Referring, Indexing

LEMMA Swapped ==
  ASSUME IInv, NEW tabs, NEW idxs, NEW cascade \in BOOLEAN, Swap(tabs, idxs, cascade),
         Sound(tabs, idxs), nextTableId' \in Id, nextIndexId' \in Id
  PROVE  IInv'
<1>1. tables' = tabs /\ indexes' = idxs
  BY DEF Swap
<1>2. schemaVersion' \in 0 .. MaxVersion
  BY ManagerAssumption DEF Swap, IInv, TypeOK
<1>3. result' \in Result
  BY DEF Swap, Result
<1>4. Sound(tables', indexes')
  BY <1>1
<1>5. TypeOK'
  BY <1>2, <1>3, <1>4 DEF TypeOK, Sound, TypedTables, TypedIndexes
<1> QED BY <1>4, <1>5 DEF IInv

LEMMA Committed ==
  ASSUME IInv, NEW tabs, NEW idxs, NEW cascade \in BOOLEAN, Commit(tabs, idxs, cascade),
         Sound(tabs, idxs)
  PROVE  IInv'
<1>1. CASE Unsaved
  BY <1>1, NothingChanged
<1>2. CASE Swap(tabs, idxs, cascade) /\ UNCHANGED <<nextTableId, nextIndexId>>
  BY <1>2, Swapped DEF IInv, TypeOK
<1> QED BY <1>1, <1>2 DEF Commit

\* An operation on table x that only changes x and leaves what refers to it.
LEMMA TableCommitted ==
  ASSUME IInv, NEW x \in DOMAIN tables, NEW info, IsTableInfo(info), Owned(info),
         \A c \in info.constraints : c.kind = "ForeignKey" =>
           \/ c.refTable = x
           \/ /\ c.refTable \in DOMAIN tables
              /\ c.refColumns \subseteq Firsts(tables[c.refTable].columns),
         Firsts(tables[x].columns) \subseteq Firsts(info.columns),
         CommitTable(x, info)
  PROVE  IInv'
<1>1. Sound(tables, indexes) /\ Thinner(tables, tables) /\ x \in TableName
  BY SameTablesThinner DEF IInv, Sound, TypedTables
<1>2. Fewer(indexes, indexes)
  BY <1>1 DEF Fewer, Sound, TypedIndexes
<1>3. \A t \in DOMAIN tables \ {x} : \A c \in tables[t].constraints :
        IsForeignKeyTo(c, x) => c.refColumns \subseteq Firsts(info.columns)
  BY <1>1 DEF Sound, Referring, IsForeignKeyTo
<1>4. \A i \in DOMAIN indexes :
        indexes[i].table = x => indexes[i].columns \subseteq Firsts(info.columns)
  BY <1>1 DEF Sound, Indexing
<1>5. Sound(Put(tables, x, info), indexes)
  BY <1>1, <1>2, <1>3, <1>4, OneTableChanges
<1> QED BY <1>5, Committed DEF CommitTable

-----------------------------------------------------------------------------
(* The operations.                                                         *)

LEMMA CreateTableSound ==
  ASSUME IInv, NEW name \in TableName, NEW spec, IsTableSpec(spec),
         CreateTable(name, spec)
  PROVE  IInv'
<1>1. CASE Refuse \/ Unsaved
  BY <1>1, NothingChanged
<1>2. CASE /\ name \notin DOMAIN tables
           /\ SpecResolves(name, spec)
           /\ Swap(Put(tables, name, NewTable(name, spec)), indexes, FALSE)
           /\ nextTableId' = nextTableId + 1
           /\ UNCHANGED nextIndexId
  <2> DEFINE cols == ForceNotNull(spec.columns, PrimaryKeyColumns(spec))
             bare == [id |-> nextTableId, columns |-> cols, constraints |-> {}]
             next == Put(tables, name, bare)
             named == Put(tables, name, [columns |-> spec.columns])
             cons == {Resolved(c, cols, next) : c \in Kept(spec.constraints)}
             info == NewTable(name, spec)
  <2>1. IsTableSpec(spec) /\ IsColumns(spec.columns)
    <3>1. IsTableSpec(spec)
      OBVIOUS
    <3>2. DOMAIN spec.columns = 1 .. Len(spec.columns) /\ Len(spec.columns) \in Nat
      BY <3>1 DEF IsTableSpec
    <3>3. IsFiniteSet(DOMAIN spec.columns)
      BY <3>2, FS_Interval
    <3> QED BY <3>1, <3>2, <3>3 DEF IsTableSpec, IsColumns, Id
  <2>2. IsColumns(cols) /\ DOMAIN cols = DOMAIN spec.columns
        /\ \A i \in DOMAIN cols : cols[i].name = spec.columns[i].name
    <3>1. \A i \in DOMAIN cols : cols[i].name = spec.columns[i].name
      BY <2>1 DEF ForceNotNull, IsColumns, ColumnInfo
    <3> QED BY <2>1, <3>1, ForceNotNullKeeps DEF ForceNotNull
  <2>3. Sound(tables, indexes) /\ DOMAIN next = DOMAIN tables \cup {name}
        /\ DOMAIN named = DOMAIN next /\ DOMAIN next \subseteq TableName
    BY DEF IInv, Sound, TypedTables, Put
  <2>4. next[name].columns = cols /\ named[name].columns = spec.columns
        /\ \A t \in DOMAIN tables : next[t] = tables[t] /\ named[t] = tables[t]
    BY <1>2 DEF Put
  <2>5. \A t \in DOMAIN next : IsColumns(next[t].columns)
    BY <2>2, <2>3, <2>4 DEF Sound, TypedTables, IsTableInfo
  <2>6. ASSUME NEW c \in spec.constraints PROVE Resolves(c, cols, next)
    <3>1. Resolves(c, spec.columns, named)
      BY <1>2 DEF SpecResolves
    <3>2. HasColumns(cols, c.columns)
      BY <2>2, <3>1 DEF Resolves, HasColumns, HasColumn
    <3>3. ASSUME c.kind = "ForeignKey"
          PROVE  HasColumns(next[c.refTable].columns, c.refColumns)
      <4>1. c.refTable \in DOMAIN next
            /\ HasColumns(named[c.refTable].columns, c.refColumns)
        BY <2>3, <3>1, <3>3 DEF Resolves
      <4>2. CASE c.refTable = name
        BY <2>2, <2>4, <4>1, <4>2 DEF HasColumns, HasColumn
      <4>3. CASE c.refTable # name
        BY <2>3, <2>4, <4>1, <4>3
      <4> QED BY <4>2, <4>3
    <3> QED BY <2>3, <3>1, <3>2, <3>3 DEF Resolves
  <2>7. ASSUME NEW k \in cons
        PROVE  /\ k \in Constraint
               /\ k.columns \subseteq Firsts(cols)
               /\ k.kind = "ForeignKey" =>
                    /\ k.refTable \in DOMAIN next
                    /\ k.refColumns \subseteq Firsts(next[k.refTable].columns)
    <3>1. PICK c \in spec.constraints : k = Resolved(c, cols, next)
      BY DEF Kept
    <3>2. c \in ConstraintSpec
      BY <2>1 DEF IsTableSpec
    <3> QED BY <2>2, <2>3, <2>5, <2>6, <3>1, <3>2, ResolvedSound
  <2>8. info = [id |-> nextTableId, columns |-> cols, constraints |-> cons]
    BY DEF NewTable
  <2> HIDE DEF cols, next, named, cons, info
  <2>9. IsTableInfo(info) /\ Owned(info)
    BY <2>2, <2>7, <2>8 DEF IsTableInfo, Owned, IInv, TypeOK
  <2>10. \A k \in info.constraints : k.kind = "ForeignKey" =>
           \/ k.refTable = name
           \/ /\ k.refTable \in DOMAIN tables
              /\ k.refColumns \subseteq Firsts(tables[k.refTable].columns)
    BY <2>3, <2>4, <2>7, <2>8
  <2>11. \A t \in DOMAIN tables \ {name} : \A k \in tables[t].constraints :
           IsForeignKeyTo(k, name) => k.refColumns \subseteq Firsts(info.columns)
    BY <1>2, <2>3 DEF Sound, Referring, IsForeignKeyTo
  <2>12. Thinner(tables, tables) /\ Fewer(indexes, indexes)
    BY <2>3, SameTablesThinner DEF Fewer, Sound, TypedIndexes
  <2>13. \A i \in DOMAIN indexes :
           indexes[i].table = name => indexes[i].columns \subseteq Firsts(info.columns)
    BY <1>2, <2>3 DEF Sound, Indexing
  <2>14. Sound(Put(tables, name, info), indexes)
    BY <2>3, <2>9, <2>10, <2>11, <2>12, <2>13, OneTableChanges
  <2>15. nextTableId' \in Id /\ nextIndexId' \in Id
    BY <1>2 DEF IInv, TypeOK, Id
  <2>16. Swap(Put(tables, name, info), indexes, FALSE)
    BY <1>2 DEF info
  <2> QED BY <2>14, <2>15, <2>16, Swapped
<1> QED BY <1>1, <1>2 DEF CreateTable

LEMMA DropTableSound ==
  ASSUME IInv, NEW name \in TableName, NEW ifExists \in BOOLEAN, NEW cascade \in BOOLEAN,
         DropTable(name, ifExists, cascade)
  PROVE  IInv'
<1> DEFINE rest == Erase(tables, name)
           left == DropForeignKeysReferencing(rest, name)
           tabs == IF cascade THEN left ELSE rest
           idxs == DropIndexesOn(indexes, name)
<1>1. CASE Refuse \/ NoOp
  BY <1>1, NothingChanged
<1>2. CASE /\ name \in DOMAIN tables
           /\ cascade \/ Dependents(name) = {}
           /\ Commit(tabs, idxs, cascade)
  <2>1. Sound(tables, indexes)
    BY DEF IInv
  <2>2. DOMAIN rest = DOMAIN tables \ {name} /\ TypedTables(rest)
        /\ \A t \in DOMAIN rest : rest[t] = tables[t]
    BY <2>1 DEF Erase, Restrict, Sound, TypedTables
  <2>3. Thinner(tabs, rest)
        /\ \A t \in DOMAIN rest : \A c \in tabs[t].constraints : ~IsForeignKeyTo(c, name)
    <3>1. CASE cascade
      BY <2>2, <3>1, CascadeThins
    <3>2. CASE ~cascade
      BY <1>2, <2>2, <3>2, SameTablesThinner DEF Dependents
    <3> QED BY <3>1, <3>2
  <2> HIDE DEF rest, left, tabs
  <2>4. ASSUME NEW t \in DOMAIN tabs
        PROVE  /\ t \in DOMAIN tables /\ t # name
               /\ tabs[t].columns = tables[t].columns
               /\ tabs[t].constraints \subseteq tables[t].constraints
    BY <2>2, <2>3 DEF Thinner
  <2>5. DOMAIN tabs = DOMAIN tables \ {name} /\ TypedTables(tabs)
    BY <2>2, <2>3, ThinnerTyped DEF Thinner
  <2>6. ASSUME NEW t \in DOMAIN tabs PROVE Owned(tabs[t]) /\ Referring(tabs, t)
    <3>1. Owned(tabs[t])
      BY <2>1, <2>4 DEF Sound, Owned
    <3>2. ASSUME NEW c \in tabs[t].constraints, c.kind = "ForeignKey"
          PROVE  /\ c.refTable \in DOMAIN tabs
                 /\ c.refTable # t => c.refColumns \subseteq Firsts(tabs[c.refTable].columns)
      <4>1. c.refTable # name
        BY <2>2, <2>3, <2>4, <2>5, <3>2 DEF IsForeignKeyTo
      <4>2. /\ c.refTable \in DOMAIN tables
            /\ c.refTable # t => c.refColumns \subseteq Firsts(tables[c.refTable].columns)
        BY <2>1, <2>4, <3>2 DEF Sound, Referring
      <4> QED BY <2>4, <2>5, <4>1, <4>2
    <3> QED BY <3>1, <3>2 DEF Referring
  <2>7. TypedIndexes(idxs) /\ DOMAIN idxs \subseteq DOMAIN indexes
        /\ \A i \in DOMAIN idxs : idxs[i] = indexes[i] /\ idxs[i].table # name
    BY <2>1 DEF DropIndexesOn, Restrict, Sound, TypedIndexes
  <2>8. ASSUME NEW i \in DOMAIN idxs PROVE Indexing(tabs, idxs[i])
    BY <2>1, <2>4, <2>5, <2>7 DEF Sound, Indexing
  <2>9. Sound(tabs, idxs)
    BY <2>5, <2>6, <2>7, <2>8 DEF Sound
  <2> QED BY <1>2, <2>9, Committed
<1> QED BY <1>1, <1>2 DEF DropTable

LEMMA CreateIndexSound ==
  ASSUME IInv, NEW name \in IndexName, NEW table \in TableName, NEW names,
         NEW unique \in BOOLEAN, NEW ifNotExists \in BOOLEAN,
         CreateIndex(name, table, names, unique, ifNotExists)
  PROVE  IInv'
<1> DEFINE index == [id      |-> nextIndexId,
                     table   |-> table,
                     columns |-> FindColumns(tables[table].columns, names),
                     unique  |-> unique]
           idxs == Put(indexes, name, index)
<1>1. CASE Refuse \/ NoOp \/ Unsaved
  BY <1>1, NothingChanged
<1>2. CASE /\ name \notin DOMAIN indexes
           /\ table \in DOMAIN tables
           /\ HasColumns(tables[table].columns, names)
           /\ Swap(tables, idxs, FALSE)
           /\ nextIndexId' = nextIndexId + 1
           /\ UNCHANGED nextTableId
  <2>1. Sound(tables, indexes) /\ IsColumns(tables[table].columns)
    BY <1>2 DEF IInv, Sound, TypedTables, IsTableInfo
  <2>2. index.columns \subseteq Firsts(tables[table].columns)
    BY <1>2, <2>1, FindColumnsFirst
  <2>3. index.columns \subseteq Id
    BY <2>1, <2>2, FirstsAreColumns DEF IsColumns
  <2>4. index \in IndexInfo
    BY <2>3 DEF IndexInfo, IInv, TypeOK
  <2>5. index.table = table
    OBVIOUS
  <2> HIDE DEF index
  <2>6. TypedIndexes(idxs)
    BY <2>1, <2>4 DEF Sound, TypedIndexes, Put
  <2>7. ASSUME NEW i \in DOMAIN idxs PROVE Indexing(tables, idxs[i])
    <3>1. CASE i = name
      BY <1>2, <2>2, <2>5, <3>1 DEF Put, Indexing
    <3>2. CASE i # name
      BY <2>1, <3>2 DEF Put, Sound
    <3> QED BY <3>1, <3>2
  <2>8. Sound(tables, idxs)
    BY <2>1, <2>6, <2>7 DEF Sound
  <2>9. nextTableId' \in Id /\ nextIndexId' \in Id
    BY <1>2 DEF IInv, TypeOK, Id
  <2> QED BY <1>2, <2>8, <2>9, Swapped
<1> QED BY <1>1, <1>2 DEF CreateIndex

LEMMA DropIndexSound ==
  ASSUME IInv, NEW name \in IndexName, NEW ifExists \in BOOLEAN, DropIndex(name, ifExists)
  PROVE  IInv'
<1>1. CASE Refuse \/ NoOp
  BY <1>1, NothingChanged
<1>2. CASE Commit(tables, Erase(indexes, name), FALSE)
  <2>1. Sound(tables, Erase(indexes, name))
    BY DEF IInv, Sound, TypedIndexes, Erase, Restrict
  <2> QED BY <1>2, <2>1, Committed
<1> QED BY <1>1, <1>2 DEF DropIndex

LEMMA AddColumnSound ==
  ASSUME IInv, NEW table \in TableName, NEW column \in ColumnInfo,
         AddColumn(table, column)
  PROVE  IInv'
<1> DEFINE cols == tables[table].columns
           new  == Put(cols, LastColumnId(cols) + 1, column)
           info == [tables[table] EXCEPT !.columns = new]
<1>1. CASE Refuse
  BY <1>1, NothingChanged
<1>2. CASE /\ table \in DOMAIN tables
           /\ ~HasTableColumn(table, column.name)
           /\ CommitTable(table, info)
  <2>1. Sound(tables, indexes) /\ IsTableInfo(tables[table]) /\ IsColumns(cols)
    BY <1>2 DEF IInv, Sound, TypedTables, IsTableInfo
  <2>2. column \in ColumnInfo /\ ~HasColumn(cols, column.name)
    BY <1>2 DEF HasTableColumn
  <2>3. IsColumns(new) /\ Firsts(cols) \subseteq Firsts(new)
    BY <2>1, <2>2, NextColumnId, PutKeepsFirsts
  <2> HIDE DEF new
  <2>4. IsTableInfo(info) /\ info.columns = new
        /\ info.constraints = tables[table].constraints
    BY <2>1, <2>3 DEF IsTableInfo
  <2>5. Owned(tables[table]) /\ Referring(tables, table)
    BY <1>2, <2>1 DEF Sound
  <2> HIDE DEF info
  <2>6. Owned(info)
    BY <2>3, <2>4, <2>5 DEF Owned
  <2>7. \A c \in info.constraints : c.kind = "ForeignKey" =>
          \/ c.refTable = table
          \/ /\ c.refTable \in DOMAIN tables
             /\ c.refColumns \subseteq Firsts(tables[c.refTable].columns)
    BY <2>4, <2>5 DEF Referring
  <2> QED BY <1>2, <2>3, <2>4, <2>6, <2>7, TableCommitted
<1> QED BY <1>1, <1>2 DEF AddColumn

LEMMA ColumnSetSound ==
  ASSUME IInv, NEW table \in DOMAIN tables, NEW col, HasColumn(tables[table].columns, col),
         NEW field \in {"hasDefault", "nullable"}, NEW value \in BOOLEAN,
         CommitTable(table, WithColumnSet(table, col, field, value))
  PROVE  IInv'
<1> DEFINE cols == tables[table].columns
           id   == FindColumn(cols, col)
           set  == [cols[id] EXCEPT ![field] = value]
           new  == [cols EXCEPT ![id] = set]
           info == [tables[table] EXCEPT !.columns = new]
<1>1. Sound(tables, indexes) /\ IsTableInfo(tables[table]) /\ IsColumns(cols)
  BY DEF IInv, Sound, TypedTables, IsTableInfo
<1>2. id \in DOMAIN cols
  BY <1>1, FindColumnFirst DEF Firsts
<1>3. cols[id] \in ColumnInfo
  BY <1>1, <1>2 DEF IsColumns
<1>4. set \in ColumnInfo /\ set.name = cols[id].name
  <2> HIDE DEF id
  <2>1. CASE field = "hasDefault"
    BY <1>3, <2>1 DEF ColumnInfo
  <2>2. CASE field = "nullable"
    BY <1>3, <2>2 DEF ColumnInfo
  <2> QED BY <2>1, <2>2
<1>5. WithColumnSet(table, col, field, value) = info
  BY DEF WithColumnSet
<1> HIDE DEF set, id
<1>6. DOMAIN new = DOMAIN cols /\ new[id] = set /\ \A i \in DOMAIN cols \ {id} : new[i] = cols[i]
  BY <1>2
<1>7. IsColumns(new)
  BY <1>1, <1>2, <1>4 DEF IsColumns
<1>8. Firsts(new) = Firsts(cols)
  BY <1>4, <1>6, SameNamesSameFirsts
<1> HIDE DEF new
<1>9. IsTableInfo(info) /\ info.columns = new /\ info.constraints = tables[table].constraints
  BY <1>1, <1>7 DEF IsTableInfo
<1>10. Owned(tables[table]) /\ Referring(tables, table)
  BY <1>1 DEF Sound
<1> HIDE DEF info
<1>11. Owned(info)
  BY <1>8, <1>9, <1>10 DEF Owned
<1>12. \A c \in info.constraints : c.kind = "ForeignKey" =>
         \/ c.refTable = table
         \/ /\ c.refTable \in DOMAIN tables
            /\ c.refColumns \subseteq Firsts(tables[c.refTable].columns)
  BY <1>9, <1>10 DEF Referring
<1> QED BY <1>5, <1>8, <1>9, <1>11, <1>12, TableCommitted

LEMMA AlterColumnSound ==
  ASSUME IInv, NEW table \in TableName, NEW col \in ColumnName,
         \/ SetColumnDefault(table, col)
         \/ DropColumnDefault(table, col)
         \/ \E nullable \in BOOLEAN : SetColumnNullable(table, col, nullable)
  PROVE  IInv'
<1>1. CASE Refuse \/ NoOp
  BY <1>1, NothingChanged
<1>2. ASSUME HasTableColumn(table, col), NEW field \in {"hasDefault", "nullable"},
             NEW value \in BOOLEAN,
             CommitTable(table, WithColumnSet(table, col, field, value))
      PROVE  IInv'
  BY <1>2, ColumnSetSound DEF HasTableColumn
<1>3. CASE SetColumnDefault(table, col)
  BY <1>1, <1>2, <1>3 DEF SetColumnDefault
<1>4. CASE DropColumnDefault(table, col)
  BY <1>1, <1>2, <1>4 DEF DropColumnDefault
<1>5. CASE \E nullable \in BOOLEAN : SetColumnNullable(table, col, nullable)
  BY <1>1, <1>2, <1>5 DEF SetColumnNullable
<1> QED BY <1>3, <1>4, <1>5

LEMMA DropColumnSound ==
  ASSUME IInv, NEW table \in TableName, NEW col \in ColumnName,
         NEW ifExists \in BOOLEAN, NEW cascade \in BOOLEAN,
         DropColumn(table, col, ifExists, cascade)
  PROVE  IInv'
<1> DEFINE cols == tables[table].columns
           id   == FindColumn(cols, col)
           cut  == DropForeignKeysReferencingColumns(tables, table, {id})
           next == IF cascade THEN cut ELSE tables
           rest == Restrict(cols, {i \in DOMAIN cols : cols[i].name # col})
           cons == {c \in tables[table].constraints : id \notin c.columns}
           info == WithoutColumn(next[table], col, id)
           idxs == DropIndexesOnColumn(indexes, table, id)
<1>1. CASE Refuse \/ NoOp
  BY <1>1, NothingChanged
<1>2. CASE /\ HasTableColumn(table, col)
           /\ cascade \/ ColumnDependents(table, {id}) = {}
           /\ Commit(Put(next, table, info), idxs, cascade)
  <2>1. Sound(tables, indexes) /\ table \in DOMAIN tables /\ HasColumn(cols, col)
        /\ IsTableInfo(tables[table]) /\ IsColumns(cols)
    BY <1>2 DEF IInv, Sound, TypedTables, IsTableInfo, HasTableColumn
  <2>2. IsColumns(rest) /\ \A i \in Firsts(cols) : i # id => i \in Firsts(rest)
    BY <2>1, DropKeepsFirsts
  <2>3. Thinner(next, tables) /\ next[table] = tables[table]
        /\ \A t \in DOMAIN tables \ {table} : \A c \in next[t].constraints :
             IsForeignKeyTo(c, table) => id \notin c.refColumns
    <3> HIDE DEF id
    <3>1. CASE cascade
      <4>1. TypedTables(tables)
        BY <2>1 DEF Sound
      <4>2. /\ Thinner(cut, tables) /\ cut[table] = tables[table]
            /\ \A t \in DOMAIN tables \ {table} : \A c \in cut[t].constraints :
                 ~(IsForeignKeyTo(c, table) /\ c.refColumns \cap {id} # {})
        BY <2>1, <4>1, ColumnCascadeThins
      <4> HIDE DEF cut
      <4> QED BY <3>1, <4>2
    <3>2. CASE ~cascade
      <4>1. Thinner(tables, tables)
        BY <2>1, SameTablesThinner DEF Sound
      <4>2. ColumnDependents(table, {id}) = {}
        BY <1>2, <3>2
      <4> QED BY <3>2, <4>1, <4>2 DEF ColumnDependents
    <3> QED BY <3>1, <3>2
  <2>4. info = [tables[table] EXCEPT !.columns = rest, !.constraints = cons]
    BY <2>3 DEF WithoutColumn
  <2> HIDE DEF next, rest, cons, info, id
  <2>5. IsTableInfo(info) /\ info.columns = rest /\ info.constraints = cons
    BY <2>1, <2>2, <2>4 DEF IsTableInfo, cons
  <2>6. \A c \in cons : c \in tables[table].constraints /\ id \notin c.columns
    BY DEF cons
  <2>7. Owned(info)
    BY <2>1, <2>2, <2>5, <2>6 DEF Owned, Sound
  <2>8. \A c \in info.constraints : c.kind = "ForeignKey" =>
          \/ c.refTable = table
          \/ /\ c.refTable \in DOMAIN tables
             /\ c.refColumns \subseteq Firsts(tables[c.refTable].columns)
    BY <2>1, <2>5, <2>6 DEF Sound, Referring
  <2>9. \A t \in DOMAIN tables \ {table} : \A c \in next[t].constraints :
          IsForeignKeyTo(c, table) => c.refColumns \subseteq Firsts(info.columns)
    <3> SUFFICES ASSUME NEW t \in DOMAIN tables \ {table}, NEW c \in next[t].constraints,
                        IsForeignKeyTo(c, table)
                 PROVE  c.refColumns \subseteq Firsts(info.columns)
      OBVIOUS
    <3>1. c \in tables[t].constraints /\ id \notin c.refColumns
      BY <2>3 DEF Thinner
    <3>2. c.refColumns \subseteq Firsts(cols)
      BY <2>1, <3>1 DEF Sound, Referring, IsForeignKeyTo
    <3> QED BY <2>2, <2>5, <3>1, <3>2
  <2>10. Fewer(idxs, indexes)
         /\ \A i \in DOMAIN idxs : idxs[i] = indexes[i]
                                   /\ (idxs[i].table = table => id \notin idxs[i].columns)
    BY <2>1 DEF DropIndexesOnColumn, Restrict, Fewer
  <2>11. \A i \in DOMAIN idxs :
           idxs[i].table = table => idxs[i].columns \subseteq Firsts(info.columns)
    <3> SUFFICES ASSUME NEW i \in DOMAIN idxs, idxs[i].table = table
                 PROVE  idxs[i].columns \subseteq Firsts(info.columns)
      OBVIOUS
    <3>1. i \in DOMAIN indexes /\ idxs[i] = indexes[i] /\ id \notin idxs[i].columns
      BY <2>10 DEF Fewer
    <3>2. idxs[i].columns \subseteq Firsts(cols)
      BY <2>1, <3>1 DEF Sound, Indexing
    <3> QED BY <2>2, <2>5, <3>1, <3>2
  <2> HIDE DEF idxs
  <2>12. Sound(Put(next, table, info), idxs)
    BY <2>1, <2>3, <2>5, <2>7, <2>8, <2>9, <2>10, <2>11, OneTableChanges
  <2>13. Commit(Put(next, table, info), idxs, cascade)
    BY <1>2 DEF next, info, idxs, id
  <2> QED BY <2>12, <2>13, Committed
<1> QED BY <1>1, <1>2 DEF DropColumn

LEMMA AddConstraintSound ==
  ASSUME IInv, NEW table \in TableName, NEW spec \in ConstraintSpec,
         AddConstraint(table, spec)
  PROVE  IInv'
<1> DEFINE cols   == tables[table].columns
           added  == Resolved(spec, cols, tables)
           forced == IF spec.kind = "PrimaryKey" THEN ForceNotNull(cols, added.columns) ELSE cols
           extended   == tables[table].constraints \cup {added}
           altered   == [tables[table] EXCEPT !.columns = forced, !.constraints = extended]
<1>1. CASE Refuse
  BY <1>1, NothingChanged
<1>2. CASE CanAdd(table, spec) /\ CommitTable(table, altered)
  <2>1. Sound(tables, indexes) /\ table \in DOMAIN tables
        /\ IsTableInfo(tables[table]) /\ IsColumns(cols)
    BY <1>2 DEF IInv, Sound, TypedTables, IsTableInfo, CanAdd
  <2>2. /\ added \in Constraint
        /\ added.columns \subseteq Firsts(cols)
        /\ added.kind = "ForeignKey" =>
             /\ added.refTable \in DOMAIN tables
             /\ added.refColumns \subseteq Firsts(tables[added.refTable].columns)
    <3>1. spec \in ConstraintSpec /\ Resolves(spec, cols, tables)
      BY <1>2 DEF CanAdd
    <3>2. DOMAIN tables \subseteq TableName
          /\ \A t \in DOMAIN tables : IsColumns(tables[t].columns)
      BY <2>1 DEF Sound, TypedTables, IsTableInfo
    <3> QED BY <2>1, <3>1, <3>2, ResolvedSound
  <2>3. IsColumns(forced) /\ Firsts(forced) = Firsts(cols)
    BY <2>1, ForceNotNullKeeps
  <2>4. extended \subseteq Constraint
    BY <2>1, <2>2 DEF IsTableInfo
  <2>5. altered = [tables[table] EXCEPT !.columns = forced, !.constraints = extended]
    OBVIOUS
  <2>6. \A c \in extended : c \in tables[table].constraints \/ c = added
    OBVIOUS
  <2> HIDE DEF altered, added, forced, extended
  <2>7. IsTableInfo(altered) /\ altered.columns = forced /\ altered.constraints = extended
    <3>1. IsTableInfo(tables[table]) /\ IsColumns(forced)
      BY <2>1, <2>3
    <3> QED BY <2>4, <2>5, <3>1 DEF IsTableInfo
  <2>8. Owned(tables[table]) /\ Referring(tables, table)
    BY <2>1 DEF Sound
  <2>9. Owned(altered)
    BY <2>2, <2>3, <2>6, <2>7, <2>8 DEF Owned
  <2>10. \A c \in altered.constraints : c.kind = "ForeignKey" =>
           \/ c.refTable = table
           \/ /\ c.refTable \in DOMAIN tables
              /\ c.refColumns \subseteq Firsts(tables[c.refTable].columns)
    BY <2>2, <2>6, <2>7, <2>8 DEF Referring
  <2>11. CommitTable(table, altered)
    BY <1>2
  <2> QED BY <2>1, <2>3, <2>7, <2>9, <2>10, <2>11, TableCommitted
<1>3. CanAdd(table, spec) /\ ~Refuse => CommitTable(table, altered)
  BY DEF AddConstraint
<1> QED BY <1>1, <1>2, <1>3 DEF AddConstraint

LEMMA DropConstraintSound ==
  ASSUME IInv, NEW table \in TableName, NEW cname, NEW cascade \in BOOLEAN,
         DropConstraint(table, cname, cascade)
  PROVE  IInv'
<1>1. CASE Refuse
  BY <1>1, NothingChanged
<1>2. ASSUME table \in DOMAIN tables,
             NEW target \in FirstNamed(tables[table].constraints, cname), NEW lost,
             Commit(Put(DropForeignKeysReferencingColumns(tables, table, lost), table,
                        WithoutConstraint(
                          DropForeignKeysReferencingColumns(tables, table, lost)[table],
                          target)),
                    indexes, cascade)
      PROVE  IInv'
  <2> DEFINE cols    == tables[table].columns
             next    == DropForeignKeysReferencingColumns(tables, table, lost)
             relaxed == IF target.kind = "PrimaryKey"
                          THEN RelaxNotNull(cols, target.columns) ELSE cols
             cons    == {c \in tables[table].constraints : c.name # target.name}
             info    == WithoutConstraint(next[table], target)
  <2>1. Sound(tables, indexes) /\ IsTableInfo(tables[table]) /\ IsColumns(cols)
    BY <1>2 DEF IInv, Sound, TypedTables, IsTableInfo
  <2>2. Thinner(next, tables) /\ next[table] = tables[table]
    BY <1>2, <2>1, ColumnCascadeThins DEF Sound
  <2>3. IsColumns(relaxed) /\ Firsts(relaxed) = Firsts(cols)
    BY <2>1, RelaxNotNullKeeps
  <2>4. info = [tables[table] EXCEPT !.columns = relaxed, !.constraints = cons]
    BY <2>2 DEF WithoutConstraint
  <2>5. cons \subseteq tables[table].constraints
    OBVIOUS
  <2> HIDE DEF next, relaxed, cons, info
  <2>6. IsTableInfo(info) /\ info.columns = relaxed /\ info.constraints = cons
    BY <2>1, <2>3, <2>4, <2>5 DEF IsTableInfo
  <2>7. Owned(info)
    BY <1>2, <2>1, <2>3, <2>5, <2>6 DEF Owned, Sound
  <2>8. \A c \in info.constraints : c.kind = "ForeignKey" =>
          \/ c.refTable = table
          \/ /\ c.refTable \in DOMAIN tables
             /\ c.refColumns \subseteq Firsts(tables[c.refTable].columns)
    BY <1>2, <2>1, <2>5, <2>6 DEF Sound, Referring
  <2>9. \A t \in DOMAIN tables \ {table} : \A c \in next[t].constraints :
          IsForeignKeyTo(c, table) => c.refColumns \subseteq Firsts(info.columns)
    BY <2>1, <2>2, <2>3, <2>6 DEF Thinner, Sound, Referring, IsForeignKeyTo
  <2>10. Fewer(indexes, indexes)
         /\ \A i \in DOMAIN indexes :
              indexes[i].table = table => indexes[i].columns \subseteq Firsts(info.columns)
    BY <2>1, <2>3, <2>6 DEF Sound, TypedIndexes, Indexing, Fewer
  <2>11. Sound(Put(next, table, info), indexes)
    BY <2>1, <2>2, <2>6, <2>7, <2>8, <2>9, <2>10, OneTableChanges
  <2>12. Commit(Put(next, table, info), indexes, cascade)
    BY <1>2 DEF next, info
  <2> QED BY <2>11, <2>12, Committed
<1> QED BY <1>1, <1>2 DEF DropConstraint

-----------------------------------------------------------------------------
(* The theorem.                                                            *)

LEMMA StepSound == IInv /\ [Next]_vars => IInv'
<1> SUFFICES ASSUME IInv, [Next]_vars PROVE IInv'
  OBVIOUS
<1>1. ASSUME NEW t \in TableName, TableStep(t) PROVE IInv'
  <2>1. \A k, cascade : cascade \in BOOLEAN /\ DropConstraint(t, k, cascade) => IInv'
    BY DropConstraintSound
  <2> QED
    BY <1>1, <2>1, ManagerAssumption, CreateTableSound, DropTableSound, AddConstraintSound
    DEF TableStep
<1>2. ASSUME NEW t \in TableName, ColumnStep(t) PROVE IInv'
  BY <1>2, ManagerAssumption, AddColumnSound, DropColumnSound, AlterColumnSound
  DEF ColumnStep
<1>3. ASSUME NEW i \in IndexName, IndexStep(i) PROVE IInv'
  BY <1>3, CreateIndexSound, DropIndexSound DEF IndexStep
<1>4. CASE UNCHANGED vars
  BY <1>4 DEF vars, IInv, TypeOK, Sound, TypedTables, TypedIndexes, Referring, Indexing
<1> QED BY <1>1, <1>2, <1>3, <1>4 DEF Next

LEMMA InitSound == Init => IInv
<1> SUFFICES ASSUME Init PROVE IInv
  OBVIOUS
<1>1. DOMAIN tables = {} /\ DOMAIN indexes = {}
  BY DEF Init
<1>2. tables = [t \in DOMAIN tables |-> tables[t]] /\ indexes \in [DOMAIN indexes -> IndexInfo]
  BY DEF Init
<1>3. TypeOK
  BY <1>1, <1>2, ManagerAssumption DEF Init, TypeOK, Id, Result
<1> QED BY <1>1, <1>2, <1>3 DEF IInv, Sound, TypedTables, TypedIndexes

\* Every reachable catalog has its type: in particular every column keeps a
\* distinct id, and what was found by name is an id.
THEOREM TypeCorrect == Spec => []TypeOK
<1>1. IInv => TypeOK
  BY DEF IInv
<1> QED BY <1>1, InitSound, StepSound, PTL DEF Spec

\* Whatever DDL runs in whatever order, the table a foreign key references is
\* there, and the columns it references in another table are there.
THEOREM ReferencesResolve == Spec => []ForeignKeysResolve
<1>1. IInv => ForeignKeysResolve
  BY FirstsAreColumns DEF IInv, Sound, Referring, ForeignKeysResolve
<1> QED BY <1>1, InitSound, StepSound, PTL DEF Spec

\* And the columns every constraint and every index is made of are in its own
\* table.
THEOREM OwnColumnsResolve == Spec => []OwnColumnsExist
<1>1. IInv => OwnColumnsExist
  BY FirstsAreColumns DEF IInv, Sound, Owned, Indexing, OwnColumnsExist
<1> QED BY <1>1, InitSound, StepSound, PTL DEF Spec


-----------------------------------------------------------------------------
(* The shapes.                                                             *)

\* Tables other than x keep their ids and columns, and lose foreign keys to x
\* at most, by a CASCADE.
OthersDetached(x) ==
  \A t \in DOMAIN tables \ {x} :
    /\ t \in DOMAIN tables'
    /\ tables'[t].id = tables[t].id
    /\ tables'[t].columns = tables[t].columns
    /\ tables'[t].constraints \subseteq tables[t].constraints
    /\ \A c \in tables[t].constraints \ tables'[t].constraints :
         IsForeignKeyTo(c, x) /\ result' = "cascaded"

Creates(x, spec) ==
  /\ x \notin DOMAIN tables
  /\ SpecResolves(x, spec)
  /\ DOMAIN tables' = DOMAIN tables \cup {x}
  /\ tables'[x] = NewTable(x, spec)
  /\ OthersDetached(x)
  /\ result' = "committed"
  /\ nextTableId' = nextTableId + 1

Drops(x) ==
  /\ DOMAIN tables' = DOMAIN tables \ {x}
  /\ OthersDetached(x)
  /\ nextTableId' = nextTableId

Alters(x, info) ==
  /\ x \in DOMAIN tables
  /\ DOMAIN tables' = DOMAIN tables
  /\ tables'[x] = info
  /\ OthersDetached(x)
  /\ nextTableId' = nextTableId

\* Nothing that was there has changed.
SameTables == tables' = tables /\ nextTableId' = nextTableId

\* Nor was anything committed.
Uncommitted == SameTables /\ result' # "committed"

LEMMA EndsWithoutChange ==
  ASSUME Refuse \/ NoOp \/ Unsaved PROVE Uncommitted
BY DEF Refuse, NoOp, Unsaved, catalog, SameTables, Uncommitted

\* next is the tables of which those other than x lost the foreign keys to the
\* columns ids of x, and lost any by a CASCADE only.
Detached(next, x, ids, cascade) ==
  /\ DOMAIN next = DOMAIN tables
  /\ next[x] = tables[x]
  /\ \A t \in DOMAIN tables \ {x} :
       /\ next[t].id = tables[t].id
       /\ next[t].columns = tables[t].columns
       /\ next[t].constraints \subseteq tables[t].constraints
       /\ \A c \in tables[t].constraints \ next[t].constraints :
            IsForeignKeyTo(c, x) /\ cascade
       /\ \A c \in next[t].constraints :
            ~(IsForeignKeyTo(c, x) /\ c.refColumns \cap ids # {})

\* No foreign key of another table to the columns ids of x is left.
Unreferenced(x, ids) ==
  \A t \in DOMAIN tables' \ {x} : \A c \in tables'[t].constraints :
    ~(IsForeignKeyTo(c, x) /\ c.refColumns \cap ids # {})

LEMMA CommittedAlters ==
  ASSUME NEW x \in DOMAIN tables, NEW info, NEW next, NEW idxs, NEW ids,
         NEW cascade \in BOOLEAN, Detached(next, x, ids, cascade),
         Commit(Put(next, x, info), idxs, cascade)
  PROVE  Uncommitted \/ (Alters(x, info) /\ Unreferenced(x, ids))
<1>1. CASE Unsaved
  BY <1>1, EndsWithoutChange
<1>2. CASE Swap(Put(next, x, info), idxs, cascade) /\ UNCHANGED <<nextTableId, nextIndexId>>
  <2>1. tables' = Put(next, x, info) /\ nextTableId' = nextTableId
        /\ (cascade => result' = "cascaded")
    BY <1>2 DEF Swap
  <2>2. DOMAIN tables' = DOMAIN tables /\ tables'[x] = info
        /\ \A t \in DOMAIN tables \ {x} : tables'[t] = next[t]
    BY <2>1 DEF Put, Detached
  <2>3. OthersDetached(x)
    BY <2>1, <2>2 DEF OthersDetached, Detached
  <2>4. Unreferenced(x, ids)
    BY <2>2 DEF Unreferenced, Detached
  <2> QED BY <2>1, <2>2, <2>3, <2>4 DEF Alters
<1> QED BY <1>1, <1>2 DEF Commit

LEMMA CommittedTable ==
  ASSUME NEW x \in DOMAIN tables, NEW info, CommitTable(x, info)
  PROVE  Uncommitted \/ Alters(x, info)
<1>1. Detached(tables, x, {}, FALSE)
  BY DEF Detached
<1> QED BY <1>1, CommittedAlters DEF CommitTable

LEMMA CreateTableShape ==
  ASSUME NEW name, NEW spec, CreateTable(name, spec)
  PROVE  Uncommitted \/ Creates(name, spec)
<1>1. CASE Refuse \/ Unsaved
  BY <1>1, EndsWithoutChange
<1>2. CASE /\ name \notin DOMAIN tables
           /\ SpecResolves(name, spec)
           /\ Swap(Put(tables, name, NewTable(name, spec)), indexes, FALSE)
           /\ nextTableId' = nextTableId + 1
  <2> DEFINE info == NewTable(name, spec)
  <2> HIDE DEF info
  <2>1. tables' = Put(tables, name, info) /\ result' = "committed"
    BY <1>2 DEF Swap, info
  <2>2. DOMAIN tables' = DOMAIN tables \cup {name} /\ tables'[name] = info
        /\ \A t \in DOMAIN tables \ {name} : tables'[t] = tables[t]
    BY <2>1 DEF Put
  <2>3. OthersDetached(name)
    BY <2>2 DEF OthersDetached
  <2> QED BY <1>2, <2>1, <2>2, <2>3 DEF Creates, info
<1> QED BY <1>1, <1>2 DEF CreateTable

LEMMA DropTableShape ==
  ASSUME TypedTables(tables), NEW name, NEW ifExists \in BOOLEAN, NEW cascade \in BOOLEAN,
         DropTable(name, ifExists, cascade)
  PROVE  Uncommitted \/ Drops(name)
<1> DEFINE rest == Erase(tables, name)
           left == DropForeignKeysReferencing(rest, name)
           tabs == IF cascade THEN left ELSE rest
<1>1. CASE Refuse \/ NoOp \/ Unsaved
  BY <1>1, EndsWithoutChange
<1>2. CASE /\ name \in DOMAIN tables
           /\ Swap(tabs, DropIndexesOn(indexes, name), cascade)
           /\ UNCHANGED <<nextTableId, nextIndexId>>
  <2>1. tables' = tabs /\ nextTableId' = nextTableId /\ (cascade => result' = "cascaded")
    BY <1>2 DEF Swap
  <2>2. DOMAIN rest = DOMAIN tables \ {name} /\ \A t \in DOMAIN rest : rest[t] = tables[t]
    BY DEF Erase, Restrict
  <2>3. \A t \in DOMAIN rest :
          /\ DOMAIN left = DOMAIN rest
          /\ left[t].id = rest[t].id /\ left[t].columns = rest[t].columns
          /\ left[t].constraints = {c \in rest[t].constraints : ~IsForeignKeyTo(c, name)}
    <3> SUFFICES ASSUME NEW t \in DOMAIN rest
                 PROVE  /\ DOMAIN left = DOMAIN rest
                        /\ left[t].id = rest[t].id /\ left[t].columns = rest[t].columns
                        /\ left[t].constraints =
                             {c \in rest[t].constraints : ~IsForeignKeyTo(c, name)}
      OBVIOUS
    <3> DEFINE cons == {c \in rest[t].constraints : ~IsForeignKeyTo(c, name)}
    <3>1. DOMAIN left = DOMAIN rest /\ left[t] = [rest[t] EXCEPT !.constraints = cons]
      BY DEF DropForeignKeysReferencing
    <3>2. IsTableInfo(rest[t]) /\ cons \subseteq rest[t].constraints
      BY <2>2 DEF TypedTables
    <3> HIDE DEF cons, left, rest
    <3>3. left[t].constraints = cons /\ left[t].id = rest[t].id
          /\ left[t].columns = rest[t].columns
      BY <3>1, <3>2, WithFewerConstraints
    <3> QED BY <3>1, <3>3 DEF cons
  <2> HIDE DEF rest, left
  <2>4. DOMAIN tables' = DOMAIN tables \ {name}
    <3>1. DOMAIN left = DOMAIN rest
      BY DEF DropForeignKeysReferencing, left
    <3> QED BY <2>1, <2>2, <3>1
  <2>5. OthersDetached(name)
    BY <2>1, <2>2, <2>3 DEF OthersDetached
  <2> QED BY <2>1, <2>4, <2>5 DEF Drops
<1> QED BY <1>1, <1>2 DEF DropTable, Commit

LEMMA AddColumnShape ==
  ASSUME TypedTables(tables), NEW table, NEW column, AddColumn(table, column)
  PROVE  \/ Uncommitted
         \/ /\ ~HasColumn(tables[table].columns, column.name)
            /\ Alters(table, [tables[table] EXCEPT !.columns =
                                Put(@, LastColumnId(@) + 1, column)])
<1> DEFINE cols == tables[table].columns
           info == [tables[table] EXCEPT !.columns = Put(cols, LastColumnId(cols) + 1, column)]
<1>1. CASE Refuse
  BY <1>1, EndsWithoutChange
<1>2. CASE /\ table \in DOMAIN tables
           /\ ~HasTableColumn(table, column.name)
           /\ CommitTable(table, info)
  <2>1. Uncommitted \/ Alters(table, info)
    BY <1>2, CommittedTable
  <2> QED BY <1>2, <2>1 DEF HasTableColumn
<1> QED BY <1>1, <1>2 DEF AddColumn

\* Under RESTRICT an operation goes on only when nothing depends on the columns,
\* so that what a cascade would detach is nothing.
LEMMA DetachedOthers ==
  ASSUME TypedTables(tables), NEW x \in DOMAIN tables, NEW ids, NEW cascade \in BOOLEAN,
         cascade \/ ColumnDependents(x, ids) = {}
  PROVE  Detached(DropForeignKeysReferencingColumns(tables, x, ids), x, ids, cascade)
<1> DEFINE next == DropForeignKeysReferencingColumns(tables, x, ids)
<1>1. Thinner(next, tables) /\ next[x] = tables[x]
      /\ \A t \in DOMAIN tables \ {x} : \A c \in next[t].constraints :
           ~(IsForeignKeyTo(c, x) /\ c.refColumns \cap ids # {})
  BY ColumnCascadeThins
<1>2. ASSUME NEW t \in DOMAIN tables \ {x},
             NEW c \in tables[t].constraints \ next[t].constraints
      PROVE  IsForeignKeyTo(c, x) /\ cascade
  <2> DEFINE kept == {d \in tables[t].constraints :
                        ~(IsForeignKeyTo(d, x) /\ d.refColumns \cap ids # {})}
  <2>1. next[t] = [tables[t] EXCEPT !.constraints = kept]
    BY DEF DropForeignKeysReferencingColumns
  <2>2. IsTableInfo(tables[t]) /\ kept \subseteq tables[t].constraints
    BY DEF TypedTables
  <2> HIDE DEF kept, next
  <2>3. next[t].constraints = kept
    BY <2>1, <2>2, WithFewerConstraints
  <2>4. IsForeignKeyTo(c, x) /\ c.refColumns \cap ids # {}
    BY <1>2, <2>3 DEF kept
  <2> QED BY <2>4 DEF ColumnDependents
<1> HIDE DEF next
<1>3. DOMAIN next = DOMAIN tables
      /\ \A t \in DOMAIN tables \ {x} :
           /\ next[t].id = tables[t].id
           /\ next[t].columns = tables[t].columns
           /\ next[t].constraints \subseteq tables[t].constraints
  BY <1>1 DEF Thinner
<1>4. Detached(next, x, ids, cascade)
  BY <1>1, <1>2, <1>3 DEF Detached
<1> QED BY <1>4 DEF next

LEMMA DropColumnShape ==
  ASSUME TypedTables(tables), NEW table \in TableName, NEW col \in ColumnName,
         NEW ifExists \in BOOLEAN, NEW cascade \in BOOLEAN,
         DropColumn(table, col, ifExists, cascade)
  PROVE  \/ Uncommitted
         \/ LET id == FindColumn(tables[table].columns, col)
            IN  /\ HasTableColumn(table, col)
                /\ ~OneColumnIsLeft(table)
                /\ Alters(table, WithoutColumn(tables[table], col, id))
                /\ Unreferenced(table, {id})
<1> DEFINE id   == FindColumn(tables[table].columns, col)
           cut  == DropForeignKeysReferencingColumns(tables, table, {id})
           next == IF cascade THEN cut ELSE tables
           info == WithoutColumn(next[table], col, id)
           idxs == DropIndexesOnColumn(indexes, table, id)
<1>1. CASE Refuse \/ NoOp
  BY <1>1, EndsWithoutChange
<1>2. CASE /\ HasTableColumn(table, col)
           /\ ~OneColumnIsLeft(table)
           /\ cascade \/ ColumnDependents(table, {id}) = {}
           /\ Commit(Put(next, table, info), idxs, cascade)
  <2>1. table \in DOMAIN tables /\ (cascade \/ ColumnDependents(table, {id}) = {})
    BY <1>2 DEF HasTableColumn
  <2> HIDE DEF id
  <2>2. Detached(cut, table, {id}, cascade)
    BY <2>1, DetachedOthers
  <2> HIDE DEF cut
  <2>3. Detached(next, table, {id}, cascade)
    <3>1. CASE cascade
      BY <2>2, <3>1
    <3>2. CASE ~cascade
      BY <2>1, <3>2 DEF ColumnDependents, Detached
    <3> QED BY <3>1, <3>2
  <2> HIDE DEF next, idxs
  <2>4. Commit(Put(next, table, info), idxs, cascade)
    BY <1>2 DEF next, cut, id, idxs
  <2>5. info = WithoutColumn(tables[table], col, id)
    BY <2>3 DEF Detached
  <2> HIDE DEF info
  <2>6. Uncommitted \/ (Alters(table, info) /\ Unreferenced(table, {id}))
    BY <2>1, <2>3, <2>4, CommittedAlters
  <2> QED BY <1>2, <2>5, <2>6 DEF id
<1> QED BY <1>1, <1>2 DEF DropColumn

\* SET and DROP DEFAULT change no column's nullability, SET and DROP NOT NULL
\* one column's, and no constraint changes.
LEMMA AlterColumnShape ==
  ASSUME TypedTables(tables), NEW table \in TableName, NEW col \in ColumnName,
         \/ SetColumnDefault(table, col)
         \/ DropColumnDefault(table, col)
         \/ \E nullable \in BOOLEAN : SetColumnNullable(table, col, nullable)
  PROVE  \/ Uncommitted
         \/ \E field \in {"hasDefault", "nullable"}, value \in BOOLEAN :
              /\ HasTableColumn(table, col)
              /\ field = "nullable" /\ value =>
                   ~InPrimaryKey(tables[table], FindColumn(tables[table].columns, col))
              /\ Alters(table, WithColumnSet(table, col, field, value))
<1>1. CASE Refuse \/ NoOp
  BY <1>1, EndsWithoutChange
<1>2. ASSUME HasTableColumn(table, col), NEW field \in {"hasDefault", "nullable"},
             NEW value \in BOOLEAN,
             CommitTable(table, WithColumnSet(table, col, field, value))
      PROVE  Uncommitted \/ Alters(table, WithColumnSet(table, col, field, value))
  BY <1>2, CommittedTable DEF HasTableColumn
<1>3. CASE SetColumnDefault(table, col)
  BY <1>1, <1>2, <1>3 DEF SetColumnDefault
<1>4. CASE DropColumnDefault(table, col)
  BY <1>1, <1>2, <1>4 DEF DropColumnDefault
<1>5. CASE \E nullable \in BOOLEAN : SetColumnNullable(table, col, nullable)
  BY <1>1, <1>2, <1>5 DEF SetColumnNullable
<1> QED BY <1>3, <1>4, <1>5

\* The table with the constraint spec added.
WithConstraint(table, spec) ==
  LET cols == tables[table].columns
      new  == Resolved(spec, cols, tables)
  IN  [tables[table] EXCEPT
         !.columns     = IF spec.kind = "PrimaryKey"
                           THEN ForceNotNull(cols, new.columns) ELSE cols,
         !.constraints = @ \cup {new}]

LEMMA AddConstraintShape ==
  ASSUME TypedTables(tables), NEW table \in TableName, NEW spec, AddConstraint(table, spec)
  PROVE  \/ Uncommitted
         \/ CanAdd(table, spec) /\ Alters(table, WithConstraint(table, spec))
<1>1. CASE Refuse
  BY <1>1, EndsWithoutChange
<1>2. CASE CanAdd(table, spec) /\ CommitTable(table, WithConstraint(table, spec))
  <2>1. table \in DOMAIN tables
    BY <1>2 DEF CanAdd
  <2> QED BY <1>2, <2>1, CommittedTable
<1>3. CanAdd(table, spec) /\ ~Refuse => CommitTable(table, WithConstraint(table, spec))
  BY DEF AddConstraint, WithConstraint
<1> QED BY <1>1, <1>2, <1>3 DEF AddConstraint

LEMMA DropConstraintShape ==
  ASSUME TypedTables(tables), NEW table \in TableName, NEW cname, NEW cascade \in BOOLEAN,
         DropConstraint(table, cname, cascade)
  PROVE  \/ Uncommitted
         \/ \E target \in FirstNamed(tables[table].constraints, cname) :
              /\ cname # Unnamed
              /\ Alters(table, WithoutConstraint(tables[table], target))
              /\ Unreferenced(table, KeyColumnsLost(target))
<1>1. CASE Refuse
  BY <1>1, EndsWithoutChange
<1>2. ASSUME table \in DOMAIN tables,
             NEW target \in FirstNamed(tables[table].constraints, cname), NEW lost,
             cascade \/ ColumnDependents(table, lost) = {},
             Commit(Put(DropForeignKeysReferencingColumns(tables, table, lost), table,
                        WithoutConstraint(
                          DropForeignKeysReferencingColumns(tables, table, lost)[table],
                          target)),
                    indexes, cascade)
      PROVE  \/ Uncommitted
             \/ /\ Alters(table, WithoutConstraint(tables[table], target))
                /\ Unreferenced(table, lost)
  <2> DEFINE next == DropForeignKeysReferencingColumns(tables, table, lost)
             info == WithoutConstraint(next[table], target)
  <2>1. Detached(next, table, lost, cascade)
    BY <1>2, DetachedOthers
  <2>2. Commit(Put(next, table, info), indexes, cascade)
    BY <1>2
  <2>3. info = WithoutConstraint(tables[table], target)
    BY <2>1 DEF Detached
  <2> HIDE DEF next, info
  <2>4. Uncommitted \/ (Alters(table, info) /\ Unreferenced(table, lost))
    BY <1>2, <2>1, <2>2, CommittedAlters
  <2> QED BY <2>3, <2>4
<1> QED BY <1>1, <1>2 DEF DropConstraint

\* The two operations on indexes leave the tables alone.
LEMMA IndexShape ==
  ASSUME NEW i, IndexStep(i)
  PROVE  SameTables
BY EndsWithoutChange
DEF IndexStep, CreateIndex, DropIndex, Swap, Commit, SameTables, Uncommitted

\* One of the ALTER TABLE forms on x, as committed.
AltersTable(x) ==
  LET info == tables[x]
      cols == info.columns
  IN  \/ \E column \in ColumnInfo :
           /\ ~HasColumn(cols, column.name)
           /\ Alters(x, [info EXCEPT !.columns = Put(@, LastColumnId(@) + 1, column)])
      \/ \E col \in ColumnName :
           /\ HasColumn(cols, col)
           /\ ~OneColumnIsLeft(x)
           /\ Alters(x, WithoutColumn(info, col, FindColumn(cols, col)))
           /\ Unreferenced(x, {FindColumn(cols, col)})
      \/ \E col \in ColumnName, field \in {"hasDefault", "nullable"}, value \in BOOLEAN :
           /\ HasColumn(cols, col)
           /\ field = "nullable" /\ value => ~InPrimaryKey(info, FindColumn(cols, col))
           /\ Alters(x, WithColumnSet(x, col, field, value))
      \/ \E spec \in ConstraintSpec : CanAdd(x, spec) /\ Alters(x, WithConstraint(x, spec))
      \/ \E cname : \E target \in FirstNamed(info.constraints, cname) :
           /\ cname # Unnamed
           /\ Alters(x, WithoutConstraint(info, target))
           /\ Unreferenced(x, KeyColumnsLost(target))

\* What a step may do to the tables, when those it creates are among specs.
Shape(specs) ==
  \/ SameTables
  \/ \E x \in TableName :
       \/ \E spec \in specs : Creates(x, spec)
       \/ Drops(x)
       \/ AltersTable(x)

LEMMA AlterShape ==
  ASSUME IInv, NEW x \in TableName, NEW specs,
         \/ \E column \in ColumnInfo : AddColumn(x, column)
         \/ \E col \in ColumnName :
              \/ \E ifExists, cascade \in BOOLEAN : DropColumn(x, col, ifExists, cascade)
              \/ SetColumnDefault(x, col)
              \/ DropColumnDefault(x, col)
              \/ \E nullable \in BOOLEAN : SetColumnNullable(x, col, nullable)
         \/ \E spec \in ConstraintSpec : AddConstraint(x, spec)
         \/ \E cname, cascade : cascade \in BOOLEAN /\ DropConstraint(x, cname, cascade)
  PROVE  Shape(specs)
<1>1. TypedTables(tables)
  BY DEF IInv, Sound
<1>2. SUFFICES SameTables \/ AltersTable(x)
  BY DEF Shape
<1>3. ASSUME NEW column \in ColumnInfo, AddColumn(x, column)
      PROVE  SameTables \/ AltersTable(x)
  BY <1>1, <1>3, AddColumnShape, Zenon DEF Uncommitted, AltersTable
<1>4. ASSUME NEW col \in ColumnName, NEW ifExists \in BOOLEAN, NEW cascade \in BOOLEAN,
             DropColumn(x, col, ifExists, cascade)
      PROVE  SameTables \/ AltersTable(x)
  BY <1>1, <1>4, DropColumnShape, Zenon DEF Uncommitted, AltersTable, HasTableColumn
<1>5. ASSUME NEW col \in ColumnName,
             \/ SetColumnDefault(x, col)
             \/ DropColumnDefault(x, col)
             \/ \E nullable \in BOOLEAN : SetColumnNullable(x, col, nullable)
      PROVE  SameTables \/ AltersTable(x)
  BY <1>1, <1>5, AlterColumnShape, Zenon DEF Uncommitted, AltersTable, HasTableColumn
<1>6. ASSUME NEW spec \in ConstraintSpec, AddConstraint(x, spec)
      PROVE  SameTables \/ AltersTable(x)
  BY <1>1, <1>6, AddConstraintShape, Zenon DEF Uncommitted, AltersTable
<1>7. ASSUME NEW cname, NEW cascade \in BOOLEAN, DropConstraint(x, cname, cascade)
      PROVE  SameTables \/ AltersTable(x)
  BY <1>1, <1>7, DropConstraintShape, Zenon DEF Uncommitted, AltersTable
<1> QED BY <1>3, <1>4, <1>5, <1>6, <1>7, Zenon

LEMMA NextShape == IInv /\ [Next]_vars => Shape(TableSpecs)
<1> SUFFICES ASSUME IInv, [Next]_vars PROVE Shape(TableSpecs)
  OBVIOUS
<1>1. ASSUME NEW t \in TableName, TableStep(t) PROVE Shape(TableSpecs)
  <2>1. TypedTables(tables)
    BY DEF IInv, Sound
  <2>2. CASE \E spec \in TableSpecs : CreateTable(t, spec)
    BY <2>2, CreateTableShape DEF Shape, Uncommitted
  <2>3. CASE \E ifExists, cascade \in BOOLEAN : DropTable(t, ifExists, cascade)
    BY <2>1, <2>3, DropTableShape DEF Shape, Uncommitted
  <2>4. CASE \E spec \in ConstraintSpecs : AddConstraint(t, spec)
    BY <2>4, AlterShape, ManagerAssumption
  <2>5. CASE \E k \in ConstraintName \cup {Unnamed}, cascade \in BOOLEAN :
               DropConstraint(t, k, cascade)
    BY <2>5, AlterShape
  <2> QED BY <1>1, <2>2, <2>3, <2>4, <2>5 DEF TableStep
<1>2. ASSUME NEW t \in TableName, ColumnStep(t) PROVE Shape(TableSpecs)
  <2>1. CASE \E column \in ColumnSpecs : AddColumn(t, column)
    BY <2>1, AlterShape, ManagerAssumption
  <2>2. CASE \E c \in ColumnName :
               \/ \E ifExists, cascade \in BOOLEAN : DropColumn(t, c, ifExists, cascade)
               \/ SetColumnDefault(t, c)
               \/ DropColumnDefault(t, c)
               \/ \E nullable \in BOOLEAN : SetColumnNullable(t, c, nullable)
    BY <2>2, AlterShape
  <2> QED BY <1>2, <2>1, <2>2 DEF ColumnStep
<1>3. ASSUME NEW i \in IndexName, IndexStep(i) PROVE Shape(TableSpecs)
  BY <1>3, IndexShape DEF Shape
<1>4. CASE UNCHANGED vars
  BY <1>4 DEF vars, Shape, SameTables
<1> QED BY <1>1, <1>2, <1>3, <1>4 DEF Next

-----------------------------------------------------------------------------
(* One table changes.                                                      *)

\* Altering a table keeps its id.
LEMMA AlteredId ==
  ASSUME IInv, NEW x \in TableName, AltersTable(x)
  PROVE  /\ x \in DOMAIN tables
         /\ tables'[x].id = tables[x].id
         /\ Alters(x, tables'[x])
<1>1. PICK info : Alters(x, info)
  BY Zenon DEF AltersTable
<1>2. x \in DOMAIN tables /\ tables'[x] = info
  BY <1>1 DEF Alters
<1>3. IsTableInfo(tables[x])
  BY <1>2 DEF IInv, Sound, TypedTables
<1>4. tables'[x].id = tables[x].id
  <2>1. CASE \E column \in ColumnInfo :
               Alters(x, [tables[x] EXCEPT !.columns = Put(@, LastColumnId(@) + 1, column)])
    BY <1>3, <2>1 DEF Alters, IsTableInfo
  <2>2. CASE \E col \in ColumnName :
               Alters(x, WithoutColumn(tables[x], col, FindColumn(tables[x].columns, col)))
    BY <1>3, <2>2 DEF Alters, IsTableInfo, WithoutColumn
  <2>3. CASE \E col \in ColumnName, field \in {"hasDefault", "nullable"}, value \in BOOLEAN :
               Alters(x, WithColumnSet(x, col, field, value))
    BY <1>3, <2>3 DEF Alters, IsTableInfo, WithColumnSet
  <2>4. CASE \E spec \in ConstraintSpec : Alters(x, WithConstraint(x, spec))
    BY <1>3, <2>4 DEF Alters, IsTableInfo, WithConstraint
  <2>5. CASE \E cname : \E target \in FirstNamed(tables[x].constraints, cname) :
               Alters(x, WithoutConstraint(tables[x], target))
    BY <1>3, <2>5 DEF Alters, IsTableInfo, WithoutConstraint
  <2> QED BY <2>1, <2>2, <2>3, <2>4, <2>5, Zenon DEF AltersTable
<1> QED BY <1>1, <1>2, <1>4

\* What a step leaves of every table but one.
LEMMA OneTableChanged ==
  ASSUME IInv, NEW specs, Shape(specs), TableName # {}
  PROVE  \E x \in TableName :
           DOMAIN tables' \ {x} = DOMAIN tables \ {x} /\ OthersDetached(x)
<1>1. CASE SameTables
  BY <1>1 DEF SameTables, OthersDetached
<1>2. ASSUME NEW x \in TableName, NEW spec, Creates(x, spec)
      PROVE  DOMAIN tables' \ {x} = DOMAIN tables \ {x} /\ OthersDetached(x)
  BY <1>2 DEF Creates
<1>3. ASSUME NEW x \in TableName, Drops(x)
      PROVE  DOMAIN tables' \ {x} = DOMAIN tables \ {x} /\ OthersDetached(x)
  BY <1>3 DEF Drops
<1>4. ASSUME NEW x \in TableName, AltersTable(x)
      PROVE  DOMAIN tables' \ {x} = DOMAIN tables \ {x} /\ OthersDetached(x)
  BY <1>4, AlteredId DEF Alters
<1> QED BY <1>1, <1>2, <1>3, <1>4 DEF Shape

\* An operation reaches into no table but its own, except that a CASCADE detaches
\* the foreign keys that reference it.
THEOREM CascadesOnlyDetach ==
  ASSUME TableName # {} PROVE Spec => OthersOnlyDetached
<1>1. IInv /\ [Next]_vars =>
        \E x \in TableName :
          /\ DOMAIN tables' \ {x} = DOMAIN tables \ {x}
          /\ \A t \in DOMAIN tables \ {x} :
               /\ tables'[t].columns = tables[t].columns
               /\ tables'[t].constraints \subseteq tables[t].constraints
               /\ \A c \in tables[t].constraints \ tables'[t].constraints :
                    IsForeignKeyTo(c, x) /\ result' = "cascaded"
  BY NextShape, OneTableChanged DEF OthersDetached
<1> QED BY <1>1, InitSound, StepSound, PTL DEF Spec, OthersOnlyDetached

-----------------------------------------------------------------------------
(* Ids.                                                                    *)

\* An operation drops indexes, or creates one and gives it the allocator's id.
IndexesAllocated ==
  /\ nextIndexId' \in {nextIndexId, nextIndexId + 1}
  /\ \A i \in DOMAIN indexes' :
       \/ i \in DOMAIN indexes /\ indexes'[i] = indexes[i]
       \/ indexes'[i].id = nextIndexId /\ nextIndexId' = nextIndexId + 1

LEMMA CommittedIndexes ==
  ASSUME NEW tabs, NEW idxs, NEW cascade,
         DOMAIN idxs \subseteq DOMAIN indexes, \A i \in DOMAIN idxs : idxs[i] = indexes[i],
         Commit(tabs, idxs, cascade)
  PROVE  IndexesAllocated
BY DEF Commit, Swap, Unsaved, catalog, IndexesAllocated

LEMMA FewerIndexes ==
  ASSUME NEW idxs,
         \/ \E t : idxs = DropIndexesOn(indexes, t)
         \/ \E t, id : idxs = DropIndexesOnColumn(indexes, t, id)
         \/ \E name : idxs = Erase(indexes, name)
         \/ idxs = indexes
  PROVE  DOMAIN idxs \subseteq DOMAIN indexes /\ \A i \in DOMAIN idxs : idxs[i] = indexes[i]
<1>1. CASE \E t : idxs = DropIndexesOn(indexes, t)
  BY <1>1 DEF DropIndexesOn, Restrict
<1>2. CASE \E t, id : idxs = DropIndexesOnColumn(indexes, t, id)
  BY <1>2 DEF DropIndexesOnColumn, Restrict
<1>3. CASE \E name : idxs = Erase(indexes, name)
  BY <1>3 DEF Erase, Restrict
<1> QED BY <1>1, <1>2, <1>3

LEMMA NoIndexChange ==
  ASSUME Refuse \/ NoOp \/ Unsaved PROVE IndexesAllocated
BY DEF Refuse, NoOp, Unsaved, catalog, IndexesAllocated

LEMMA TableStepIndexes ==
  ASSUME NEW t, TableStep(t) PROVE IndexesAllocated
<1>1. ASSUME NEW tabs, NEW cascade, Commit(tabs, indexes, cascade) PROVE IndexesAllocated
  BY <1>1, CommittedIndexes
<1>2. ASSUME NEW spec, CreateTable(t, spec) PROVE IndexesAllocated
  BY <1>2, NoIndexChange DEF CreateTable, Swap, IndexesAllocated
<1>3. ASSUME NEW ifExists, NEW cascade, DropTable(t, ifExists, cascade) PROVE IndexesAllocated
  BY <1>3, NoIndexChange, FewerIndexes, CommittedIndexes DEF DropTable
<1>4. ASSUME NEW spec, AddConstraint(t, spec) PROVE IndexesAllocated
  BY <1>1, <1>4, NoIndexChange DEF AddConstraint, CommitTable
<1>5. ASSUME NEW k, NEW cascade, DropConstraint(t, k, cascade) PROVE IndexesAllocated
  BY <1>1, <1>5, NoIndexChange DEF DropConstraint
<1> QED BY <1>2, <1>3, <1>4, <1>5, Zenon DEF TableStep

LEMMA ColumnStepIndexes ==
  ASSUME NEW t, ColumnStep(t) PROVE IndexesAllocated
<1>1. ASSUME NEW info, CommitTable(t, info) PROVE IndexesAllocated
  BY <1>1, CommittedIndexes DEF CommitTable
<1>2. ASSUME NEW column, AddColumn(t, column) PROVE IndexesAllocated
  BY <1>1, <1>2, NoIndexChange DEF AddColumn
<1>3. ASSUME NEW c, NEW ifExists, NEW cascade, DropColumn(t, c, ifExists, cascade)
      PROVE  IndexesAllocated
  BY <1>3, NoIndexChange, FewerIndexes, CommittedIndexes DEF DropColumn
<1>4. ASSUME NEW c, SetColumnDefault(t, c) PROVE IndexesAllocated
  BY <1>1, <1>4, NoIndexChange DEF SetColumnDefault
<1>5. ASSUME NEW c, DropColumnDefault(t, c) PROVE IndexesAllocated
  BY <1>1, <1>5, NoIndexChange DEF DropColumnDefault
<1>6. ASSUME NEW c, NEW nullable, SetColumnNullable(t, c, nullable) PROVE IndexesAllocated
  BY <1>1, <1>6, NoIndexChange DEF SetColumnNullable
<1> QED BY <1>2, <1>3, <1>4, <1>5, <1>6, Zenon DEF ColumnStep

LEMMA IndexStepIndexes ==
  ASSUME NEW i, IndexStep(i) PROVE IndexesAllocated
<1>1. ASSUME NEW t, NEW names, NEW unique, NEW ifNotExists,
             CreateIndex(i, t, names, unique, ifNotExists)
      PROVE  IndexesAllocated
  <2> DEFINE index == [id      |-> nextIndexId,
                       table   |-> t,
                       columns |-> FindColumns(tables[t].columns, names),
                       unique  |-> unique]
  <2>1. CASE Refuse \/ NoOp \/ Unsaved
    BY <2>1, NoIndexChange
  <2>2. CASE Swap(tables, Put(indexes, i, index), FALSE) /\ nextIndexId' = nextIndexId + 1
    <3>1. index.id = nextIndexId
      OBVIOUS
    <3> HIDE DEF index
    <3> QED BY <2>2, <3>1 DEF Swap, Put, IndexesAllocated
  <2> HIDE DEF index
  <2>3. Refuse \/ NoOp \/ Unsaved
        \/ (Swap(tables, Put(indexes, i, index), FALSE) /\ nextIndexId' = nextIndexId + 1)
    BY <1>1, Zenon DEF CreateIndex, index
  <2> QED BY <2>1, <2>2, <2>3
<1>2. ASSUME NEW ifExists, DropIndex(i, ifExists) PROVE IndexesAllocated
  BY <1>2, NoIndexChange, FewerIndexes, CommittedIndexes DEF DropIndex
<1> QED BY <1>1, <1>2, Zenon DEF IndexStep

LEMMA NextIndexes == [Next]_vars => IndexesAllocated
<1>1. CASE UNCHANGED vars
  BY <1>1 DEF vars, IndexesAllocated
<1> QED BY <1>1, TableStepIndexes, ColumnStepIndexes, IndexStepIndexes DEF Next

\* What a step does to the ids of the tables.
LEMMA TablesAllocated ==
  ASSUME IInv, NEW specs, Shape(specs)
  PROVE  /\ nextTableId' \in {nextTableId, nextTableId + 1}
         /\ \A t \in DOMAIN tables' :
              \/ t \in DOMAIN tables /\ tables'[t].id = tables[t].id
              \/ tables'[t].id = nextTableId /\ nextTableId' = nextTableId + 1
<1>1. CASE SameTables
  BY <1>1 DEF SameTables
<1>2. ASSUME NEW x \in TableName, NEW spec, Creates(x, spec)
      PROVE  /\ nextTableId' = nextTableId + 1
             /\ \A t \in DOMAIN tables' :
                  \/ t \in DOMAIN tables /\ tables'[t].id = tables[t].id
                  \/ tables'[t].id = nextTableId
  <2>1. tables'[x].id = nextTableId
    BY <1>2 DEF Creates, NewTable
  <2> QED BY <1>2, <2>1 DEF Creates, OthersDetached
<1>3. ASSUME NEW x \in TableName, Drops(x)
      PROVE  /\ nextTableId' = nextTableId
             /\ \A t \in DOMAIN tables' : t \in DOMAIN tables /\ tables'[t].id = tables[t].id
  BY <1>3 DEF Drops, OthersDetached
<1>4. ASSUME NEW x \in TableName, AltersTable(x)
      PROVE  /\ nextTableId' = nextTableId
             /\ \A t \in DOMAIN tables' : t \in DOMAIN tables /\ tables'[t].id = tables[t].id
  <2>1. x \in DOMAIN tables /\ tables'[x].id = tables[x].id /\ Alters(x, tables'[x])
    BY <1>4, AlteredId
  <2> QED BY <2>1 DEF Alters, OthersDetached
<1> QED BY <1>1, <1>2, <1>3, <1>4 DEF Shape

\* An id once given to a table or an index is not given again: a new object takes
\* its allocator's, and the allocators, which the snapshot saves, only grow.
THEOREM IdsAreNeverReused == Spec => IdsNeverReused
<1>1. IInv /\ [Next]_vars =>
        /\ \A t \in DOMAIN tables' :
             \/ t \in DOMAIN tables /\ tables'[t].id = tables[t].id
             \/ tables'[t].id >= nextTableId /\ tables'[t].id < nextTableId'
        /\ \A i \in DOMAIN indexes' :
             \/ i \in DOMAIN indexes /\ indexes'[i].id = indexes[i].id
             \/ indexes'[i].id >= nextIndexId /\ indexes'[i].id < nextIndexId'
        /\ nextTableId' >= nextTableId
        /\ nextIndexId' >= nextIndexId
  <2> SUFFICES ASSUME IInv, [Next]_vars
               PROVE  /\ \A t \in DOMAIN tables' :
                           \/ t \in DOMAIN tables /\ tables'[t].id = tables[t].id
                           \/ tables'[t].id >= nextTableId /\ tables'[t].id < nextTableId'
                      /\ \A i \in DOMAIN indexes' :
                           \/ i \in DOMAIN indexes /\ indexes'[i].id = indexes[i].id
                           \/ indexes'[i].id >= nextIndexId /\ indexes'[i].id < nextIndexId'
                      /\ nextTableId' >= nextTableId
                      /\ nextIndexId' >= nextIndexId
    OBVIOUS
  <2>1. nextTableId \in Nat /\ nextIndexId \in Nat
    BY DEF IInv, TypeOK, Id
  <2>2. IndexesAllocated
    BY NextIndexes
  <2>3. Shape(TableSpecs)
    BY NextShape
  <2> QED BY <2>1, <2>2, <2>3, TablesAllocated DEF IndexesAllocated
<1> QED BY <1>1, InitSound, StepSound, PTL DEF Spec, IdsNeverReused

-----------------------------------------------------------------------------
(* Primary keys.                                                           *)

KeySound(info) ==
  /\ \A c, d \in info.constraints : c.kind = "PrimaryKey" /\ d.kind = "PrimaryKey" => c = d
  /\ \A i \in DOMAIN info.columns : InPrimaryKey(info, i) => ~info.columns[i].nullable

KeysSound == \A t \in DOMAIN tables : KeySound(tables[t])

\* The columns of a body are numbered from 1.
LEMMA BodyColumns ==
  ASSUME NEW spec, IsTableSpec(spec) PROVE IsColumns(spec.columns)
<1>1. DOMAIN spec.columns = 1 .. Len(spec.columns) /\ Len(spec.columns) \in Nat
  BY DEF IsTableSpec
<1>2. IsFiniteSet(DOMAIN spec.columns)
  BY <1>1, FS_Interval
<1> QED BY <1>1, <1>2 DEF IsTableSpec, IsColumns, Id

\* What ForceNotNull and RelaxNotNull make of the columns.
LEMMA ForcedColumns ==
  ASSUME NEW cols, IsColumns(cols), NEW ids
  PROVE  LET new == ForceNotNull(cols, ids)
         IN  /\ DOMAIN new = DOMAIN cols
             /\ \A i \in DOMAIN cols :
                  /\ new[i].name = cols[i].name
                  /\ new[i].hasDefault = cols[i].hasDefault
                  /\ new[i].nullable <=> i \notin ids /\ cols[i].nullable
<1>1. \A i \in DOMAIN cols : cols[i] \in ColumnInfo
  BY DEF IsColumns
<1> QED BY <1>1 DEF ForceNotNull, ColumnInfo

LEMMA RelaxedColumns ==
  ASSUME NEW cols, IsColumns(cols), NEW ids
  PROVE  LET new == RelaxNotNull(cols, ids)
         IN  /\ DOMAIN new = DOMAIN cols
             /\ \A i \in DOMAIN cols :
                  new[i].name = cols[i].name /\ (i \notin ids => new[i] = cols[i])
<1>1. \A i \in DOMAIN cols : cols[i] \in ColumnInfo
  BY DEF IsColumns
<1> QED BY <1>1 DEF RelaxNotNull, ColumnInfo

LEMMA SameNamesSameLookup ==
  ASSUME NEW cols, NEW new, DOMAIN new = DOMAIN cols,
         \A i \in DOMAIN cols : new[i].name = cols[i].name
  PROVE  \A names : FindColumns(new, names) = FindColumns(cols, names)
<1>1. ASSUME NEW n PROVE FindColumn(new, n) = FindColumn(cols, n)
  <2>1. {i \in DOMAIN new : new[i].name = n} = {i \in DOMAIN cols : cols[i].name = n}
    OBVIOUS
  <2> QED BY <2>1 DEF FindColumn
<1> QED BY <1>1 DEF FindColumns

\* SET and DROP of a default or of NOT NULL touch one field of one column.
LEMMA ColumnSetInfo ==
  ASSUME NEW x \in DOMAIN tables, IsTableInfo(tables[x]), NEW col,
         HasColumn(tables[x].columns, col),
         NEW field \in {"hasDefault", "nullable"}, NEW value \in BOOLEAN
  PROVE  LET old == tables[x]
             new == WithColumnSet(x, col, field, value)
             id  == FindColumn(old.columns, col)
         IN  /\ new.constraints = old.constraints
             /\ DOMAIN new.columns = DOMAIN old.columns
             /\ \A i \in DOMAIN old.columns :
                  /\ new.columns[i].name = old.columns[i].name
                  /\ new.columns[i].nullable =
                       IF i = id /\ field = "nullable" THEN value ELSE old.columns[i].nullable
<1> DEFINE cols == tables[x].columns
           id   == FindColumn(cols, col)
           set  == [cols[id] EXCEPT ![field] = value]
           new  == [cols EXCEPT ![id] = set]
<1>1. IsColumns(cols)
  BY DEF IsTableInfo
<1>2. id \in DOMAIN cols
  BY <1>1, FindColumnFirst DEF Firsts
<1>3. cols[id] \in ColumnInfo
  BY <1>1, <1>2 DEF IsColumns
<1>4. /\ set.name = cols[id].name
      /\ set.nullable = IF field = "nullable" THEN value ELSE cols[id].nullable
  <2> HIDE DEF id
  <2>1. CASE field = "hasDefault"
    BY <1>3, <2>1 DEF ColumnInfo
  <2>2. CASE field = "nullable"
    BY <1>3, <2>2 DEF ColumnInfo
  <2> QED BY <2>1, <2>2
<1>5. WithColumnSet(x, col, field, value) = [tables[x] EXCEPT !.columns = new]
  BY DEF WithColumnSet
<1> HIDE DEF set, id
<1>6. DOMAIN new = DOMAIN cols /\ new[id] = set /\ \A i \in DOMAIN cols \ {id} : new[i] = cols[i]
  BY <1>2
<1> HIDE DEF new
<1>7. LET info == WithColumnSet(x, col, field, value)
      IN  info.columns = new /\ info.constraints = tables[x].constraints
  BY <1>5 DEF IsTableInfo
<1> QED BY <1>4, <1>6, <1>7 DEF id

\* Fewer constraints, and no column more that can be null.
LEMMA KeySoundFewer ==
  ASSUME NEW old, NEW new, KeySound(old),
         new.constraints \subseteq old.constraints,
         \A i \in DOMAIN new.columns :
           InPrimaryKey(old, i) =>
             i \in DOMAIN old.columns
             /\ (new.columns[i].nullable => old.columns[i].nullable)
  PROVE  KeySound(new)
BY DEF KeySound, InPrimaryKey

LEMMA CreatedKeySound ==
  ASSUME NEW x, NEW spec, IsTableSpec(spec), Creates(x, spec)
  PROVE  KeySound(tables'[x])
<1> DEFINE ids  == PrimaryKeyColumns(spec)
           cols == ForceNotNull(spec.columns, ids)
           bare == [id |-> nextTableId, columns |-> cols, constraints |-> {}]
           next == Put(tables, x, bare)
           cons == {Resolved(c, cols, next) : c \in Kept(spec.constraints)}
           info == NewTable(x, spec)
<1>1. IsColumns(spec.columns)
  BY BodyColumns
<1>2. info.columns = cols /\ info.constraints = cons
  BY DEF NewTable
<1>3. /\ DOMAIN cols = DOMAIN spec.columns
      /\ \A i \in DOMAIN cols : i \in ids => ~cols[i].nullable
      /\ \A names : FindColumns(cols, names) = FindColumns(spec.columns, names)
  <2> HIDE DEF ids
  <2>1. /\ DOMAIN cols = DOMAIN spec.columns
        /\ \A i \in DOMAIN spec.columns :
             cols[i].name = spec.columns[i].name
             /\ (cols[i].nullable <=> i \notin ids /\ spec.columns[i].nullable)
    BY <1>1, ForcedColumns
  <2> HIDE DEF cols
  <2> QED BY <2>1, SameNamesSameLookup
<1> HIDE DEF cols, next
<1>4. ASSUME NEW k \in cons, k.kind = "PrimaryKey"
      PROVE  \E c \in spec.constraints :
               c.kind = "PrimaryKey" /\ k = Resolved(c, cols, next) /\ k.columns \subseteq ids
  <2>1. PICK c \in Kept(spec.constraints) : k = Resolved(c, cols, next)
    OBVIOUS
  <2>2. c \in spec.constraints /\ c.kind = "PrimaryKey"
    BY <1>4, <2>1 DEF Kept, Resolved
  <2>3. k.columns = FindColumns(spec.columns, c.columns)
    BY <1>3, <2>1 DEF Resolved
  <2> QED BY <2>1, <2>2, <2>3 DEF PrimaryKeyColumns
<1>5. \A c, d \in spec.constraints : c.kind = "PrimaryKey" /\ d.kind = "PrimaryKey" => c = d
  BY DEF IsTableSpec
<1> HIDE DEF cons, ids, info
<1>6. KeySound(info)
  <2>1. \A c, d \in cons : c.kind = "PrimaryKey" /\ d.kind = "PrimaryKey" => c = d
    BY <1>4, <1>5
  <2>2. \A i \in DOMAIN cols : InPrimaryKey(info, i) => ~cols[i].nullable
    BY <1>2, <1>3, <1>4 DEF InPrimaryKey
  <2> QED BY <1>2, <2>1, <2>2 DEF KeySound
<1> QED BY <1>6 DEF Creates, info

LEMMA AlteredKeySound ==
  ASSUME IInv, NEW x \in TableName, KeysSound, AltersTable(x)
  PROVE  KeySound(tables'[x])
<1> DEFINE old  == tables[x]
           cols == old.columns
<1>1. x \in DOMAIN tables
  BY AlteredId
<1>2. IsTableInfo(old) /\ IsColumns(cols) /\ KeySound(old) /\ Owned(old)
  BY <1>1 DEF IInv, Sound, TypedTables, IsTableInfo, KeysSound
<1>3. ASSUME NEW i, InPrimaryKey(old, i) PROVE i \in DOMAIN cols
  BY <1>2, <1>3, FirstsAreColumns DEF Owned, InPrimaryKey
<1>4. ASSUME NEW column \in ColumnInfo,
             Alters(x, [old EXCEPT !.columns = Put(@, LastColumnId(@) + 1, column)])
      PROVE  KeySound(tables'[x])
  <2> DEFINE added == Put(cols, LastColumnId(cols) + 1, column)
             info  == [old EXCEPT !.columns = added]
  <2>1. \A i \in DOMAIN cols : i \in Id /\ i < LastColumnId(cols) + 1
    BY <1>2, NextColumnId DEF IsColumns
  <2>2. \A i \in DOMAIN cols : added[i] = cols[i]
    BY <2>1 DEF Put, Id
  <2> HIDE DEF added
  <2>3. info.columns = added /\ info.constraints = old.constraints
    BY <1>2 DEF IsTableInfo
  <2> HIDE DEF info
  <2>4. \A i \in DOMAIN added : InPrimaryKey(old, i) =>
          i \in DOMAIN cols /\ (added[i].nullable => cols[i].nullable)
    BY <1>3, <2>2
  <2>5. KeySound(info)
    BY <1>2, <2>3, <2>4, KeySoundFewer
  <2> QED BY <1>4, <2>5 DEF Alters, info, added
<1>5. ASSUME NEW col, Alters(x, WithoutColumn(old, col, FindColumn(cols, col)))
      PROVE  KeySound(tables'[x])
  <2> DEFINE info == WithoutColumn(old, col, FindColumn(cols, col))
             rest == Restrict(cols, {i \in DOMAIN cols : cols[i].name # col})
             left == {c \in old.constraints : FindColumn(cols, col) \notin c.columns}
  <2>1. info.columns = rest /\ info.constraints = left
    BY <1>2 DEF WithoutColumn, IsTableInfo
  <2>2. \A i \in DOMAIN rest : i \in DOMAIN cols /\ rest[i] = cols[i]
    BY DEF Restrict
  <2>3. left \subseteq old.constraints
    OBVIOUS
  <2> HIDE DEF info, rest, left
  <2>4. KeySound(info)
    BY <1>2, <2>1, <2>2, <2>3, KeySoundFewer
  <2> QED BY <1>5, <2>4 DEF Alters, info
<1>6. ASSUME NEW col, NEW field \in {"hasDefault", "nullable"}, NEW value \in BOOLEAN,
             HasColumn(cols, col),
             field = "nullable" /\ value => ~InPrimaryKey(old, FindColumn(cols, col)),
             Alters(x, WithColumnSet(x, col, field, value))
      PROVE  KeySound(tables'[x])
  <2> DEFINE info == WithColumnSet(x, col, field, value)
             id   == FindColumn(cols, col)
  <2>1. /\ info.constraints = old.constraints
        /\ DOMAIN info.columns = DOMAIN cols
        /\ \A i \in DOMAIN cols :
             info.columns[i].nullable =
               IF i = id /\ field = "nullable" THEN value ELSE cols[i].nullable
    BY <1>1, <1>2, <1>6, ColumnSetInfo
  <2>2. field = "nullable" /\ value => ~InPrimaryKey(old, id)
    BY <1>6
  <2> HIDE DEF info, id
  <2>3. \A i \in DOMAIN info.columns : InPrimaryKey(old, i) =>
          i \in DOMAIN cols /\ (info.columns[i].nullable => cols[i].nullable)
    BY <2>1, <2>2
  <2>4. KeySound(info)
    BY <1>2, <2>1, <2>3, KeySoundFewer
  <2> QED BY <1>6, <2>4 DEF Alters, info
<1>7. ASSUME NEW spec \in ConstraintSpec, CanAdd(x, spec), Alters(x, WithConstraint(x, spec))
      PROVE  KeySound(tables'[x])
  <2> DEFINE new    == Resolved(spec, cols, tables)
             forced == IF spec.kind = "PrimaryKey" THEN ForceNotNull(cols, new.columns) ELSE cols
             more   == old.constraints \cup {new}
             info   == WithConstraint(x, spec)
  <2>1. info.columns = forced /\ info.constraints = more
    <3>1. info = [old EXCEPT !.columns = forced, !.constraints = more]
      BY DEF WithConstraint
    <3> HIDE DEF forced, more, info
    <3> QED BY <1>2, <3>1 DEF IsTableInfo
  <2>2. new.kind = spec.kind
    BY DEF Resolved
  <2> HIDE DEF new, info
  <2>3. CASE spec.kind = "PrimaryKey"
    <3>1. \A c \in more : c.kind = "PrimaryKey" => c = new
      BY <1>7, <2>3 DEF CanAdd
    <3>2. \A i \in DOMAIN forced : i \in new.columns => ~forced[i].nullable
      BY <1>2, <2>3, ForcedColumns
    <3> HIDE DEF forced, more
    <3>3. KeySound(info)
      BY <2>1, <3>1, <3>2 DEF KeySound, InPrimaryKey
    <3> QED BY <1>7, <3>3 DEF Alters, info
  <2>4. CASE spec.kind # "PrimaryKey"
    <3>1. \A c \in more : c.kind = "PrimaryKey" => c \in old.constraints
      BY <2>2, <2>4
    <3>2. forced = cols
      BY <2>4
    <3> HIDE DEF forced, more
    <3>3. KeySound(info)
      BY <1>2, <2>1, <3>1, <3>2 DEF KeySound, InPrimaryKey
    <3> QED BY <1>7, <3>3 DEF Alters, info
  <2> QED BY <2>3, <2>4
<1>8. ASSUME NEW cname, NEW target \in FirstNamed(old.constraints, cname),
             Alters(x, WithoutConstraint(old, target))
      PROVE  KeySound(tables'[x])
  <2> DEFINE relaxed == IF target.kind = "PrimaryKey"
                          THEN RelaxNotNull(cols, target.columns) ELSE cols
             left    == {c \in old.constraints : c.name # target.name}
             info    == WithoutConstraint(old, target)
  <2>1. info.columns = relaxed /\ info.constraints = left
    <3>1. info = [old EXCEPT !.columns = relaxed, !.constraints = left]
      BY DEF WithoutConstraint
    <3> HIDE DEF relaxed, left, info
    <3> QED BY <1>2, <3>1 DEF IsTableInfo
  <2>2. target \in old.constraints
    BY DEF FirstNamed
  <2> HIDE DEF info
  <2>3. CASE target.kind = "PrimaryKey"
    <3>1. \A c \in left : c.kind # "PrimaryKey"
      BY <1>2, <2>2, <2>3 DEF KeySound
    <3> HIDE DEF relaxed, left
    <3>2. KeySound(info)
      BY <2>1, <3>1 DEF KeySound, InPrimaryKey
    <3> QED BY <1>8, <3>2 DEF Alters, info
  <2>4. CASE target.kind # "PrimaryKey"
    <3>1. relaxed = cols /\ left \subseteq old.constraints
      BY <2>4
    <3> HIDE DEF relaxed, left
    <3>2. KeySound(info)
      BY <1>2, <1>3, <2>1, <3>1, KeySoundFewer
    <3> QED BY <1>8, <3>2 DEF Alters, info
  <2> QED BY <2>3, <2>4
<1> QED BY <1>4, <1>5, <1>6, <1>7, <1>8, Zenon DEF AltersTable

\* The tables a step does not create or alter keep their primary keys.
LEMMA OthersKeySound ==
  ASSUME NEW x, KeysSound, OthersDetached(x)
  PROVE  \A t \in DOMAIN tables \ {x} : t \in DOMAIN tables' /\ KeySound(tables'[t])
<1> SUFFICES ASSUME NEW t \in DOMAIN tables \ {x}
             PROVE  t \in DOMAIN tables' /\ KeySound(tables'[t])
  OBVIOUS
<1>1. /\ KeySound(tables[t])
      /\ tables'[t].columns = tables[t].columns
      /\ tables'[t].constraints \subseteq tables[t].constraints
  BY DEF KeysSound, OthersDetached
<1>2. KeySound(tables'[t])
  BY <1>1, KeySoundFewer
<1> QED BY <1>2 DEF OthersDetached

LEMMA StepKeysSound ==
  ASSUME IInv, KeysSound, NEW specs, \A s \in specs : IsTableSpec(s), Shape(specs)
  PROVE  KeysSound'
<1>1. CASE SameTables
  BY <1>1 DEF SameTables, KeysSound
<1>2. ASSUME NEW x \in TableName, NEW spec \in specs, Creates(x, spec) PROVE KeysSound'
  <2>1. KeySound(tables'[x])
    BY <1>2, CreatedKeySound
  <2> QED BY <1>2, <2>1, OthersKeySound DEF Creates, KeysSound
<1>3. ASSUME NEW x \in TableName, Drops(x) PROVE KeysSound'
  BY <1>3, OthersKeySound DEF Drops, KeysSound
<1>4. ASSUME NEW x \in TableName, AltersTable(x) PROVE KeysSound'
  <2>1. KeySound(tables'[x]) /\ Alters(x, tables'[x])
    BY <1>4, AlteredKeySound, AlteredId
  <2> QED BY <2>1, OthersKeySound DEF Alters, KeysSound
<1> QED BY <1>1, <1>2, <1>3, <1>4 DEF Shape

LEMMA KeysSoundSuffices == IInv /\ KeysSound => PrimaryKeySound
<1> SUFFICES ASSUME IInv, KeysSound, NEW t \in DOMAIN tables
             PROVE  /\ Cardinality({c \in tables[t].constraints : c.kind = "PrimaryKey"}) <= 1
                    /\ \A i \in DOMAIN tables[t].columns :
                         InPrimaryKey(tables[t], i) => ~tables[t].columns[i].nullable
  BY DEF PrimaryKeySound
<1> DEFINE keys == {c \in tables[t].constraints : c.kind = "PrimaryKey"}
<1>1. KeySound(tables[t])
  BY DEF KeysSound
<1>2. Cardinality(keys) <= 1
  <2>1. CASE keys = {}
    BY <2>1, FS_EmptySet
  <2>2. ASSUME NEW k \in keys PROVE Cardinality(keys) <= 1
    <3>1. keys = {k}
      BY <1>1 DEF KeySound
    <3> QED BY <3>1, FS_Singleton
  <2> QED BY <2>1, <2>2
<1> QED BY <1>1, <1>2 DEF KeySound

\* A table never has a second primary key, nor one with a column that can be null,
\* whichever of CREATE, ADD, SET and DROP NOT NULL, DROP COLUMN and DROP CONSTRAINT
\* came in which order.
THEOREM PrimaryKeysSound == Spec => []PrimaryKeySound
<1>1. Init => IInv /\ KeysSound
  BY InitSound DEF Init, KeysSound
<1>2. IInv /\ KeysSound /\ [Next]_vars => (IInv /\ KeysSound)'
  BY StepSound, NextShape, StepKeysSound, ManagerAssumption
<1> QED BY <1>1, <1>2, KeysSoundSuffices, PTL DEF Spec

-----------------------------------------------------------------------------
(* Keys and their dependents, and a table's columns.                       *)

SameColumnNames(new, old) ==
  DOMAIN new = DOMAIN old /\ \A i \in DOMAIN old : new[i].name = old[i].name

\* What each ALTER TABLE form makes of the columns' names and of the constraints.
LEMMA AlteredParts ==
  ASSUME IInv, NEW x \in TableName, AltersTable(x)
  PROVE  LET old  == tables[x]
             new  == tables'[x]
             cols == old.columns
         IN  \/ \E column \in ColumnInfo :
                  /\ ~HasColumn(cols, column.name)
                  /\ new.columns = Put(cols, LastColumnId(cols) + 1, column)
                  /\ new.constraints = old.constraints
             \/ \E col \in ColumnName :
                  /\ HasColumn(cols, col)
                  /\ ~OneColumnIsLeft(x)
                  /\ new.columns = Restrict(cols, {i \in DOMAIN cols : cols[i].name # col})
                  /\ new.constraints =
                       {c \in old.constraints : FindColumn(cols, col) \notin c.columns}
                  /\ Unreferenced(x, {FindColumn(cols, col)})
             \/ SameColumnNames(new.columns, cols) /\ new.constraints = old.constraints
             \/ \E spec \in ConstraintSpec :
                  /\ CanAdd(x, spec)
                  /\ SameColumnNames(new.columns, cols)
                  /\ new.constraints = old.constraints \cup {Resolved(spec, cols, tables)}
             \/ \E cname : \E target \in FirstNamed(old.constraints, cname) :
                  /\ cname # Unnamed
                  /\ SameColumnNames(new.columns, cols)
                  /\ new.constraints = {c \in old.constraints : c.name # target.name}
                  /\ Unreferenced(x, KeyColumnsLost(target))
<1> DEFINE old  == tables[x]
           new  == tables'[x]
           cols == old.columns
<1>1. x \in DOMAIN tables
  BY AlteredId
<1>2. IsTableInfo(old) /\ IsColumns(cols)
  BY <1>1 DEF IInv, Sound, TypedTables, IsTableInfo
<1>3. ASSUME NEW column, Alters(x, [old EXCEPT !.columns = Put(@, LastColumnId(@) + 1, column)])
      PROVE  /\ new.columns = Put(cols, LastColumnId(cols) + 1, column)
             /\ new.constraints = old.constraints
  BY <1>2, <1>3 DEF Alters, IsTableInfo
<1>4. ASSUME NEW col, Alters(x, WithoutColumn(old, col, FindColumn(cols, col)))
      PROVE  /\ new.columns = Restrict(cols, {i \in DOMAIN cols : cols[i].name # col})
             /\ new.constraints =
                  {c \in old.constraints : FindColumn(cols, col) \notin c.columns}
  BY <1>2, <1>4 DEF Alters, WithoutColumn, IsTableInfo
<1>5. ASSUME NEW col, NEW field \in {"hasDefault", "nullable"}, NEW value \in BOOLEAN,
             HasColumn(cols, col), Alters(x, WithColumnSet(x, col, field, value))
      PROVE  SameColumnNames(new.columns, cols) /\ new.constraints = old.constraints
  <2> DEFINE info == WithColumnSet(x, col, field, value)
  <2>1. /\ info.constraints = old.constraints
        /\ DOMAIN info.columns = DOMAIN cols
        /\ \A i \in DOMAIN cols :
             /\ info.columns[i].name = cols[i].name
             /\ info.columns[i].nullable =
                  IF i = FindColumn(cols, col) /\ field = "nullable"
                    THEN value ELSE cols[i].nullable
    BY <1>1, <1>2, <1>5, ColumnSetInfo
  <2> HIDE DEF info
  <2>2. new = info
    BY <1>5 DEF Alters, info
  <2> QED BY <2>1, <2>2 DEF SameColumnNames
<1>6. ASSUME NEW spec, Alters(x, WithConstraint(x, spec))
      PROVE  /\ SameColumnNames(new.columns, cols)
             /\ new.constraints = old.constraints \cup {Resolved(spec, cols, tables)}
  <2> DEFINE added  == Resolved(spec, cols, tables)
             forced == IF spec.kind = "PrimaryKey"
                         THEN ForceNotNull(cols, added.columns) ELSE cols
             more   == old.constraints \cup {added}
  <2>1. SameColumnNames(forced, cols)
    <3> HIDE DEF added
    <3> QED BY <1>2, ForcedColumns DEF SameColumnNames
  <2>2. new = [old EXCEPT !.columns = forced, !.constraints = more]
    BY <1>6 DEF Alters, WithConstraint
  <2> HIDE DEF forced, more
  <2>3. new.columns = forced /\ new.constraints = more
    BY <1>2, <2>2 DEF IsTableInfo
  <2> QED BY <2>1, <2>3 DEF more
<1>7. ASSUME NEW target, Alters(x, WithoutConstraint(old, target))
      PROVE  /\ SameColumnNames(new.columns, cols)
             /\ new.constraints = {c \in old.constraints : c.name # target.name}
  <2> DEFINE relaxed == IF target.kind = "PrimaryKey"
                          THEN RelaxNotNull(cols, target.columns) ELSE cols
             left    == {c \in old.constraints : c.name # target.name}
  <2>1. SameColumnNames(relaxed, cols)
    BY <1>2, RelaxedColumns DEF SameColumnNames
  <2>2. new = [old EXCEPT !.columns = relaxed, !.constraints = left]
    BY <1>7 DEF Alters, WithoutConstraint
  <2> HIDE DEF relaxed, left
  <2>3. new.columns = relaxed /\ new.constraints = left
    BY <1>2, <2>2 DEF IsTableInfo
  <2> QED BY <2>1, <2>3 DEF left
<1>8. CASE \E column \in ColumnInfo :
             /\ ~HasColumn(cols, column.name)
             /\ Alters(x, [old EXCEPT !.columns = Put(@, LastColumnId(@) + 1, column)])
  BY <1>3, <1>8, Zenon
<1>9. CASE \E col \in ColumnName :
             /\ HasColumn(cols, col)
             /\ ~OneColumnIsLeft(x)
             /\ Alters(x, WithoutColumn(old, col, FindColumn(cols, col)))
             /\ Unreferenced(x, {FindColumn(cols, col)})
  BY <1>4, <1>9, Zenon
<1>10. CASE \E col \in ColumnName, field \in {"hasDefault", "nullable"}, value \in BOOLEAN :
              /\ HasColumn(cols, col)
              /\ Alters(x, WithColumnSet(x, col, field, value))
  BY <1>5, <1>10, Zenon
<1>11. CASE \E spec \in ConstraintSpec : CanAdd(x, spec) /\ Alters(x, WithConstraint(x, spec))
  BY <1>6, <1>11, Zenon
<1>12. CASE \E cname : \E target \in FirstNamed(old.constraints, cname) :
              /\ cname # Unnamed
              /\ Alters(x, WithoutConstraint(old, target))
              /\ Unreferenced(x, KeyColumnsLost(target))
  BY <1>7, <1>12, Zenon
<1> QED BY <1>8, <1>9, <1>10, <1>11, <1>12, Zenon DEF AltersTable

\* No name is given to two constraints, and a key is over some column.
KeyNamesSound(info) ==
  /\ \A c, d \in info.constraints : c.name = d.name /\ c.name # Unnamed => c = d
  /\ \A c \in info.constraints : c.kind \in {"PrimaryKey", "Unique"} => c.columns # {}

KeyNames == \A t \in DOMAIN tables : KeyNamesSound(tables[t])

\* CREATE TABLE does not look for a constraint's name given twice: this is for its
\* callers to see to.
NamesConstraintsOnce(spec) ==
  \A c, d \in spec.constraints : c.name = d.name /\ c.name # Unnamed => c = d

LEMMA CreatedKeyNames ==
  ASSUME NEW x, NEW spec, NamesConstraintsOnce(spec), Creates(x, spec)
  PROVE  KeyNamesSound(tables'[x])
<1> DEFINE cols == ForceNotNull(spec.columns, PrimaryKeyColumns(spec))
           bare == [id |-> nextTableId, columns |-> cols, constraints |-> {}]
           next == Put(tables, x, bare)
           cons == {Resolved(c, cols, next) : c \in Kept(spec.constraints)}
           info == NewTable(x, spec)
<1>1. info.constraints = cons
  BY DEF NewTable
<1> HIDE DEF cols, next
<1>2. ASSUME NEW k \in cons
      PROVE  \E c \in Kept(spec.constraints) :
               /\ k = Resolved(c, cols, next)
               /\ k.name = c.name
               /\ k.kind = c.kind
               /\ k.columns = FindColumns(cols, c.columns)
  BY DEF Resolved
<1>3. \A c \in Kept(spec.constraints) :
        /\ c \in spec.constraints
        /\ c.kind \in {"PrimaryKey", "Unique"} => FindColumns(cols, c.columns) # {}
  BY DEF Kept, FindColumns
<1> HIDE DEF cons, info
<1>4. KeyNamesSound(info)
  BY <1>1, <1>2, <1>3 DEF KeyNamesSound, NamesConstraintsOnce
<1> QED BY <1>4 DEF Creates, info

LEMMA AlteredKeyNames ==
  ASSUME IInv, NEW x \in TableName, KeyNames, AltersTable(x)
  PROVE  KeyNamesSound(tables'[x])
<1> DEFINE old == tables[x]
           new == tables'[x]
<1>1. KeyNamesSound(old)
  BY AlteredId DEF KeyNames
<1>2. CASE new.constraints \subseteq old.constraints
  BY <1>1, <1>2 DEF KeyNamesSound
<1>3. ASSUME NEW spec, CanAdd(x, spec),
             new.constraints = old.constraints \cup {Resolved(spec, old.columns, tables)}
      PROVE  KeyNamesSound(new)
  <2> DEFINE added == Resolved(spec, old.columns, tables)
  <2>1. /\ added.name = spec.name
        /\ added.kind = spec.kind
        /\ added.columns = FindColumns(old.columns, spec.columns)
    BY DEF Resolved
  <2>2. added.kind \in {"PrimaryKey", "Unique"} => added.columns # {}
    BY <1>3, <2>1 DEF CanAdd, FindColumns
  <2>3. \A c \in old.constraints : c.name = added.name => added.name = Unnamed
    BY <1>3, <2>1 DEF CanAdd, ConstraintNameFree
  <2> HIDE DEF added
  <2>4. new.constraints = old.constraints \cup {added}
    BY <1>3 DEF added
  <2> QED BY <1>1, <2>2, <2>3, <2>4 DEF KeyNamesSound
<1>4. \/ new.constraints \subseteq old.constraints
      \/ \E spec : /\ CanAdd(x, spec)
                   /\ new.constraints =
                        old.constraints \cup {Resolved(spec, old.columns, tables)}
  BY AlteredParts
<1> QED BY <1>2, <1>3, <1>4

LEMMA OthersKeyNames ==
  ASSUME NEW x, KeyNames, OthersDetached(x)
  PROVE  \A t \in DOMAIN tables \ {x} : KeyNamesSound(tables'[t])
BY DEF KeyNames, KeyNamesSound, OthersDetached

LEMMA StepKeyNames ==
  ASSUME IInv, KeyNames, NEW specs, \A s \in specs : NamesConstraintsOnce(s), Shape(specs)
  PROVE  KeyNames'
<1>1. CASE SameTables
  BY <1>1 DEF SameTables, KeyNames
<1>2. ASSUME NEW x \in TableName, NEW spec \in specs, Creates(x, spec) PROVE KeyNames'
  <2>1. KeyNamesSound(tables'[x])
    BY <1>2, CreatedKeyNames
  <2> QED BY <1>2, <2>1, OthersKeyNames DEF Creates, KeyNames
<1>3. ASSUME NEW x \in TableName, Drops(x) PROVE KeyNames'
  BY <1>3, OthersKeyNames DEF Drops, KeyNames
<1>4. ASSUME NEW x \in TableName, AltersTable(x) PROVE KeyNames'
  <2>1. KeyNamesSound(tables'[x]) /\ Alters(x, tables'[x])
    BY <1>4, AlteredKeyNames, AlteredId
  <2> QED BY <2>1, OthersKeyNames DEF Alters, KeyNames
<1> QED BY <1>1, <1>2, <1>3, <1>4 DEF Shape

\* When a key goes, so has every foreign key of another table to its columns.
LEMMA KeyGoesLast ==
  ASSUME IInv, KeyNames, NEW specs, Shape(specs),
         NEW t \in DOMAIN tables \cap DOMAIN tables',
         NEW k \in tables[t].constraints \ tables'[t].constraints,
         k.kind \in {"PrimaryKey", "Unique"},
         NEW u \in DOMAIN tables' \ {t}, NEW c \in tables'[u].constraints
  PROVE  ~(IsForeignKeyTo(c, t) /\ c.refColumns = k.columns)
<1>1. KeyNamesSound(tables[t])
  BY DEF KeyNames
<1>2. k.columns # {}
  BY <1>1 DEF KeyNamesSound
<1>3. ASSUME NEW x, OthersDetached(x), t # x PROVE FALSE
  BY <1>3 DEF OthersDetached, IsForeignKeyTo
<1>4. CASE SameTables
  BY <1>4 DEF SameTables
<1>5. ASSUME NEW x, NEW spec, Creates(x, spec) PROVE FALSE
  BY <1>3, <1>5 DEF Creates
<1>6. ASSUME NEW x, Drops(x) PROVE FALSE
  BY <1>3, <1>6 DEF Drops
<1>7. ASSUME NEW x \in TableName, AltersTable(x)
      PROVE  ~(IsForeignKeyTo(c, t) /\ c.refColumns = k.columns)
  <2>1. t = x
    BY <1>3, <1>7, AlteredId DEF Alters
  <2>2. PICK ids : Unreferenced(x, ids) /\ ids \cap k.columns # {}
    <3> DEFINE old  == tables[x]
               new  == tables'[x]
               cols == old.columns
    <3>1. CASE \E col : /\ new.constraints =
                             {d \in old.constraints : FindColumn(cols, col) \notin d.columns}
                        /\ Unreferenced(x, {FindColumn(cols, col)})
      BY <2>1, <3>1
    <3>2. CASE \E cname : \E target \in FirstNamed(old.constraints, cname) :
                 /\ cname # Unnamed
                 /\ new.constraints = {d \in old.constraints : d.name # target.name}
                 /\ Unreferenced(x, KeyColumnsLost(target))
      <4>1. PICK cname, target :
              /\ target \in old.constraints
              /\ target.name # Unnamed
              /\ new.constraints = {d \in old.constraints : d.name # target.name}
              /\ Unreferenced(x, KeyColumnsLost(target))
        BY <3>2 DEF FirstNamed
      <4>2. k = target
        BY <1>1, <2>1, <4>1 DEF KeyNamesSound
      <4> QED BY <1>2, <4>1, <4>2 DEF KeyColumnsLost
    <3>3. CASE old.constraints \subseteq new.constraints
      BY <2>1, <3>3
    <3>4. \/ old.constraints \subseteq new.constraints
          \/ \E col : /\ new.constraints =
                           {d \in old.constraints : FindColumn(cols, col) \notin d.columns}
                      /\ Unreferenced(x, {FindColumn(cols, col)})
          \/ \E cname : \E target \in FirstNamed(old.constraints, cname) :
                 /\ cname # Unnamed
                 /\ new.constraints = {d \in old.constraints : d.name # target.name}
                 /\ Unreferenced(x, KeyColumnsLost(target))
      <4> HIDE DEF cols
      <4>1. old.constraints = new.constraints \/
            (\E spec : new.constraints = old.constraints \cup {Resolved(spec, cols, tables)})
            => old.constraints \subseteq new.constraints
        OBVIOUS
      <4> QED BY <1>7, <4>1, AlteredParts DEF cols
    <3> QED BY <3>1, <3>2, <3>3, <3>4
  <2> QED BY <2>1, <2>2 DEF Unreferenced
<1> QED BY <1>4, <1>5, <1>6, <1>7 DEF Shape

\* No key goes before the foreign keys of other tables that reference it, as long
\* as no CREATE TABLE gives two constraints one name: DROP CONSTRAINT asks only
\* the first constraint of the name which columns its key covers.
THEOREM KeysGoLast ==
  ASSUME \A s \in TableSpecs : NamesConstraintsOnce(s)
  PROVE  Spec => KeysOutliveDependents
<1>1. Init => IInv /\ KeyNames
  BY InitSound DEF Init, KeyNames
<1>2. IInv /\ KeyNames /\ [Next]_vars => (IInv /\ KeyNames)'
  BY StepSound, NextShape, StepKeyNames
<1>3. IInv /\ KeyNames /\ [Next]_vars =>
        \A t \in DOMAIN tables \cap DOMAIN tables' :
          \A k \in tables[t].constraints \ tables'[t].constraints :
            k.kind \in {"PrimaryKey", "Unique"} =>
              \A u \in DOMAIN tables' \ {t} : \A c \in tables'[u].constraints :
                ~(IsForeignKeyTo(c, t) /\ c.refColumns = k.columns)
  BY NextShape, KeyGoesLast
<1> QED BY <1>1, <1>2, <1>3, PTL DEF Spec, KeysOutliveDependents

\* A table has columns, each of its own name.
ColumnsNamed(cols) ==
  /\ DOMAIN cols # {}
  /\ \A i, j \in DOMAIN cols : cols[i].name = cols[j].name => i = j

TablesNamed == \A t \in DOMAIN tables : ColumnsNamed(tables[t].columns)

LEMMA SameNamesNamed ==
  ASSUME NEW new, NEW old, SameColumnNames(new, old), ColumnsNamed(old)
  PROVE  ColumnsNamed(new)
BY DEF SameColumnNames, ColumnsNamed

LEMMA CreatedNamed ==
  ASSUME NEW x, NEW spec, IsTableSpec(spec), ColumnsNamed(spec.columns), Creates(x, spec)
  PROVE  ColumnsNamed(tables'[x].columns)
<1> DEFINE ids  == PrimaryKeyColumns(spec)
           cols == ForceNotNull(spec.columns, ids)
<1>1. IsColumns(spec.columns)
  BY BodyColumns
<1>2. tables'[x].columns = cols
  BY DEF Creates, NewTable
<1> HIDE DEF ids
<1>3. SameColumnNames(cols, spec.columns)
  BY <1>1, ForcedColumns DEF SameColumnNames
<1> HIDE DEF cols
<1> QED BY <1>2, <1>3, SameNamesNamed

LEMMA AlteredNamed ==
  ASSUME IInv, NEW x \in TableName, TablesNamed, AltersTable(x)
  PROVE  ColumnsNamed(tables'[x].columns)
<1> DEFINE cols == tables[x].columns
           new  == tables'[x].columns
<1>1. x \in DOMAIN tables /\ ColumnsNamed(cols)
  BY AlteredId DEF TablesNamed
<1>2. IsColumns(cols)
  BY <1>1 DEF IInv, Sound, TypedTables, IsTableInfo
<1>3. ASSUME NEW column \in ColumnInfo, ~HasColumn(cols, column.name),
             new = Put(cols, LastColumnId(cols) + 1, column)
      PROVE  ColumnsNamed(new)
  <2> DEFINE id == LastColumnId(cols) + 1
  <2>1. id \notin DOMAIN cols
    <3>1. \A i \in DOMAIN cols : i \in Nat /\ i < LastColumnId(cols) + 1
      BY <1>2, NextColumnId DEF IsColumns, Id
    <3> QED BY <3>1
  <2> HIDE DEF id
  <2>2. new = Put(cols, id, column)
    BY <1>3 DEF id
  <2> QED BY <1>1, <1>3, <2>1, <2>2 DEF Put, ColumnsNamed, HasColumn
<1>4. ASSUME NEW col, HasColumn(cols, col), ~OneColumnIsLeft(x),
             new = Restrict(cols, {i \in DOMAIN cols : cols[i].name # col})
      PROVE  ColumnsNamed(new)
  <2>1. PICK i \in DOMAIN cols : cols[i].name = col
    BY <1>4 DEF HasColumn
  <2>2. DOMAIN cols # {i}
    BY <1>4, FS_Singleton DEF OneColumnIsLeft
  <2>3. PICK j \in DOMAIN cols : j # i
    BY <2>2
  <2>4. cols[j].name # col
    BY <1>1, <2>1, <2>3 DEF ColumnsNamed
  <2> QED BY <1>1, <1>4, <2>4 DEF Restrict, ColumnsNamed
<1>5. CASE SameColumnNames(new, cols)
  BY <1>1, <1>5, SameNamesNamed
<1>6. \/ \E column \in ColumnInfo :
           /\ ~HasColumn(cols, column.name)
           /\ new = Put(cols, LastColumnId(cols) + 1, column)
      \/ \E col : /\ HasColumn(cols, col)
                  /\ ~OneColumnIsLeft(x)
                  /\ new = Restrict(cols, {i \in DOMAIN cols : cols[i].name # col})
      \/ SameColumnNames(new, cols)
  BY AlteredParts, Zenon
<1> QED BY <1>3, <1>4, <1>5, <1>6

LEMMA OthersNamed ==
  ASSUME NEW x, TablesNamed, OthersDetached(x)
  PROVE  \A t \in DOMAIN tables \ {x} : ColumnsNamed(tables'[t].columns)
BY DEF TablesNamed, OthersDetached

LEMMA StepNamed ==
  ASSUME IInv, TablesNamed, NEW specs,
         \A s \in specs : IsTableSpec(s) /\ ColumnsNamed(s.columns), Shape(specs)
  PROVE  TablesNamed'
<1>1. CASE SameTables
  BY <1>1 DEF SameTables, TablesNamed
<1>2. ASSUME NEW x \in TableName, NEW spec \in specs, Creates(x, spec) PROVE TablesNamed'
  <2>1. ColumnsNamed(tables'[x].columns)
    BY <1>2, CreatedNamed
  <2> QED BY <1>2, <2>1, OthersNamed DEF Creates, TablesNamed
<1>3. ASSUME NEW x \in TableName, Drops(x) PROVE TablesNamed'
  BY <1>3, OthersNamed DEF Drops, TablesNamed
<1>4. ASSUME NEW x \in TableName, AltersTable(x) PROVE TablesNamed'
  <2>1. ColumnsNamed(tables'[x].columns) /\ Alters(x, tables'[x])
    BY <1>4, AlteredNamed, AlteredId
  <2> QED BY <2>1, OthersNamed DEF Alters, TablesNamed
<1> QED BY <1>1, <1>2, <1>3, <1>4 DEF Shape

\* A table always keeps a column, as long as every CREATE TABLE gives it one and
\* gives no two one name: DROP COLUMN counts the columns, and then removes all of
\* the name.
THEOREM TablesKeepAColumn ==
  ASSUME \A s \in TableSpecs : ColumnsNamed(s.columns)
  PROVE  Spec => []LastColumnStays
<1>1. Init => IInv /\ TablesNamed
  BY InitSound DEF Init, TablesNamed
<1>2. IInv /\ TablesNamed /\ [Next]_vars => (IInv /\ TablesNamed)'
  BY StepSound, NextShape, StepNamed, ManagerAssumption
<1>3. TablesNamed => LastColumnStays
  BY DEF TablesNamed, ColumnsNamed, LastColumnStays
<1> QED BY <1>1, <1>2, <1>3, PTL DEF Spec

-----------------------------------------------------------------------------
(* What the front end makes of well-formed parts is well formed.           *)

LEMMA Entries ==
  ASSUME NEW S, NEW q \in Seq(S) PROVE \A i \in DOMAIN q : q[i] \in S
OBVIOUS

LEMMA SequenceDomain ==
  ASSUME NEW S, NEW q \in Seq(S)
  PROVE  DOMAIN q = 1 .. Len(q) /\ Len(q) \in Nat
OBVIOUS

LEMMA MappedSequence ==
  ASSUME NEW S, NEW T, NEW q \in Seq(S), NEW f, f = [i \in DOMAIN q |-> f[i]],
         \A i \in DOMAIN q : f[i] \in T
  PROVE  f \in Seq(T)
OBVIOUS

LEMMA NamesTyped ==
  ASSUME NEW spellings, spellings \subseteq Spelling
  PROVE  Names(spellings) \subseteq ColumnName
BY FrontAssumption DEF Names

LEMMA SpecOfTyped ==
  ASSUME NEW d \in Declaration PROVE SpecOf(d) \in ConstraintSpec
<1>1. Names(d.columns) \subseteq ColumnName /\ Names(d.refColumns) \subseteq ColumnName
  BY NamesTyped DEF Declaration
<1>2. /\ d.kind \in ConstraintKind
      /\ d.name \in ConstraintName \cup {Unnamed}
      /\ d.refTable \in TableName \cup {NoTable}
  BY DEF Declaration
<1> QED BY <1>1, <1>2 DEF SpecOf, ConstraintSpec

LEMMA BuildColumnTyped ==
  ASSUME NEW c \in ColumnDefinition PROVE BuildColumn(c) \in ColumnInfo
<1>1. Fold(c.name) \in ColumnName
  BY FrontAssumption DEF ColumnDefinition
<1>2. (~(c.notNull \/ c.primaryKey)) \in BOOLEAN /\ (c.defaults # {}) \in BOOLEAN
  BY Zenon
<1> QED BY <1>1, <1>2 DEF BuildColumn, ColumnInfo

LEMMA InlineTyped ==
  ASSUME NEW c \in ColumnDefinition PROVE Inline(c) \subseteq Declaration
<1>1. \A kind \in {"PrimaryKey", "Unique"} : ColumnKey(kind, c) \in Declaration
  <2>1. {c.name} \subseteq Spelling
    BY DEF ColumnDefinition
  <2> QED BY <2>1 DEF ColumnKey, Declaration, ConstraintKind
<1>2. c.checks \subseteq Declaration /\ c.references \subseteq Declaration
  BY DEF ColumnDefinition
<1> QED BY <1>1, <1>2 DEF Inline

LEMMA DeclaredTyped ==
  ASSUME NEW s, IsStatement(s), s.kind = "create table"
  PROVE  Declared(s) \subseteq Declaration
<1>1. s.columns \in Seq(ColumnDefinition) /\ s.constraints \subseteq Declaration
  BY DEF IsStatement
<1>2. \A i \in DOMAIN s.columns : s.columns[i] \in ColumnDefinition
  BY <1>1, Entries
<1>3. \A i \in DOMAIN s.columns : Inline(s.columns[i]) \subseteq Declaration
  BY <1>2, InlineTyped
<1> QED BY <1>1, <1>3 DEF Declared

\* The primary keys of a statement come out as one constraint at most.
LEMMA PrimaryKeysTyped ==
  ASSUME NEW s, IsStatement(s), s.kind = "create table"
  PROVE  /\ PrimaryKeys(s) \subseteq ConstraintSpec
         /\ \A c, d \in PrimaryKeys(s) : c = d
<1> DEFINE keys == {d \in Declared(s) : d.kind = "PrimaryKey"}
           own  == {d \in keys : d \in s.constraints}
           name == IF own = {} THEN Unnamed ELSE (CHOOSE d \in own : TRUE).name
           cols == Names(UNION {d.columns : d \in keys})
           key  == [kind |-> "PrimaryKey", name |-> name, columns |-> cols,
                    refTable |-> NoTable, refColumns |-> {}]
<1>1. keys \subseteq Declaration
  BY DeclaredTyped
<1>2. cols \subseteq ColumnName
  <2>1. UNION {d.columns : d \in keys} \subseteq Spelling
    BY <1>1 DEF Declaration
  <2> QED BY <2>1, NamesTyped
<1>3. name \in ConstraintName \cup {Unnamed}
  <2>1. CASE own = {}
    BY <2>1
  <2>2. CASE own # {}
    <3>1. (CHOOSE d \in own : TRUE) \in own
      BY <2>2
    <3> QED BY <1>1, <2>2, <3>1 DEF Declaration
  <2> QED BY <2>1, <2>2
<1>4. PrimaryKeys(s) \subseteq {key}
  BY DEF PrimaryKeys
<1> HIDE DEF name, cols
<1>5. key \in ConstraintSpec
  BY <1>2, <1>3 DEF ConstraintSpec, ConstraintKind
<1> QED BY <1>4, <1>5

LEMMA BodyIsTableSpec ==
  ASSUME NEW s, IsStatement(s), s.kind = "create table"
  PROVE  IsTableSpec(Body(s))
<1> DEFINE cols == [i \in DOMAIN s.columns |-> BuildColumn(s.columns[i])]
           rest == {SpecOf(d) : d \in {e \in Declared(s) : e.kind # "PrimaryKey"}}
<1>1. Body(s).columns = cols /\ Body(s).constraints = PrimaryKeys(s) \cup rest
  BY DEF Body
<1>2. cols \in Seq(ColumnInfo)
  <2>1. s.columns \in Seq(ColumnDefinition)
    BY DEF IsStatement
  <2>2. \A i \in DOMAIN s.columns : BuildColumn(s.columns[i]) \in ColumnInfo
    BY <2>1, Entries, BuildColumnTyped
  <2> QED BY <2>1, <2>2, MappedSequence
<1>3. rest \subseteq ConstraintSpec /\ \A c \in rest : c.kind # "PrimaryKey"
  <2>1. \A d \in Declared(s) : SpecOf(d) \in ConstraintSpec
    BY DeclaredTyped, SpecOfTyped
  <2>2. \A d \in Declared(s) : SpecOf(d).kind = d.kind
    BY DEF SpecOf
  <2> QED BY <2>1, <2>2
<1> HIDE DEF cols, rest
<1> QED BY <1>1, <1>2, <1>3, PrimaryKeysTyped DEF IsTableSpec

\* A number counted up to i is one of 1 .. n when i is.
LEMMA CountWithin ==
  ASSUME NEW n \in Nat, NEW i \in 1 .. n,
         NEW S, S \subseteq 1 .. i, i \in 1 .. i => i \in S
  PROVE  Cardinality(S) \in 1 .. n
<1>1. i \in Nat /\ 1 <= i /\ i <= n
  OBVIOUS
<1>2. IsFiniteSet(1 .. i) /\ Cardinality(1 .. i) = i
  <2>1. 1 \in Int /\ i \in Int /\ ~(1 > i) /\ i - 1 + 1 = i
    BY <1>1
  <2> QED BY <2>1, FS_Interval
<1>3. IsFiniteSet(S) /\ Cardinality(S) <= i
  BY <1>2, FS_Subset
<1>4. S # {}
  BY <1>1
<1>5. Cardinality(S) \in Nat /\ Cardinality(S) # 0
  BY <1>3, <1>4, FS_CardinalityType, FS_EmptySet
<1> QED BY <1>1, <1>3, <1>5

\* So is the projection of a query that analyzes: a computed column's number is
\* one of the projection's.
LEMMA ProjectedTyped ==
  ASSUME TypeOK, NEW s, IsStatement(s), s.kind = "create table as", Analyzes(s)
  PROVE  IsTableSpec([columns |-> Projected(s), constraints |-> {}])
<1> DEFINE item(i)    == s.projection[i]
           unnamed(i) == {j \in 1 .. i : item(j).name = Anonymous}
           name(i)    == IF item(i).name = Anonymous
                           THEN Positional(Cardinality(unnamed(i))) ELSE item(i).name
           column(i)  == [name |-> Fold(name(i)), nullable |-> ProjectedNullable(s, item(i)),
                          hasDefault |-> FALSE]
           cols       == Projected(s)
<1>1. /\ s.projection \in Seq(ProjectionItem)
      /\ \A n \in DOMAIN s.projection : Positional(n) \in Spelling
  BY DEF IsStatement
<1>2. \A i \in DOMAIN s.projection : item(i) \in ProjectionItem
  BY <1>1, Entries
<1>3. DOMAIN s.projection = 1 .. Len(s.projection) /\ Len(s.projection) \in Nat
  BY <1>1, SequenceDomain
<1>4. ASSUME NEW i \in DOMAIN s.projection PROVE Fold(name(i)) \in ColumnName
  <2> DEFINE last == Len(s.projection)
  <2>3. last \in Nat /\ i \in 1 .. last /\ DOMAIN s.projection = 1 .. last
    BY <1>3, <1>4
  <2> HIDE DEF last
  <2>1. CASE item(i).name = Anonymous
    <3>1. unnamed(i) \subseteq 1 .. i /\ (i \in 1 .. i => i \in unnamed(i))
      BY <2>1
    <3> HIDE DEF unnamed
    <3>2. Cardinality(unnamed(i)) \in DOMAIN s.projection
      BY <2>3, <3>1, CountWithin
    <3> QED BY <1>1, <2>1, <3>2, FrontAssumption
  <2>2. CASE item(i).name # Anonymous
    BY <1>2, <2>2, FrontAssumption DEF ProjectionItem
  <2> QED BY <2>1, <2>2
<1>5. ASSUME NEW i \in DOMAIN s.projection PROVE ProjectedNullable(s, item(i)) \in BOOLEAN
  <2> DEFINE from == tables[s.from].columns
             col  == Fold(item(i).source)
  <2>1. CASE item(i).source = Anonymous
    BY <1>2, <2>1 DEF ProjectedNullable, ProjectionItem
  <2>2. CASE item(i).source # Anonymous
    <3>1. IsColumns(from) /\ HasColumn(from, col)
      BY <2>2 DEF Analyzes, HasTableColumn, TypeOK, IsTableInfo
    <3>2. FindColumn(from, col) \in DOMAIN from
      BY <3>1, FindColumnFirst, FirstsAreColumns
    <3>3. from[FindColumn(from, col)].nullable \in BOOLEAN
      BY <3>1, <3>2 DEF IsColumns, ColumnInfo
    <3> QED BY <2>2, <3>3 DEF ProjectedNullable
  <2> QED BY <2>1, <2>2
<1>6. cols = [i \in DOMAIN s.projection |-> column(i)]
  BY DEF Projected
<1>7. \A i \in DOMAIN s.projection : column(i) \in ColumnInfo
  BY <1>4, <1>5 DEF ColumnInfo
<1> HIDE DEF column, cols
<1>8. cols \in Seq(ColumnInfo)
  BY <1>1, <1>6, <1>7, MappedSequence
<1> QED BY <1>8 DEF IsTableSpec, cols

-----------------------------------------------------------------------------
(* Every statement keeps the manager's invariant.                          *)

LEMMA DispatchSound ==
  ASSUME IInv, NEW s, IsStatement(s), Dispatch(s) PROVE IInv'
<1>1. CASE s.kind = "create table" /\ Create(s, Body(s))
  <2>1. s.table \in TableName /\ IsTableSpec(Body(s))
    BY <1>1, BodyIsTableSpec DEF IsStatement
  <2> QED BY <1>1, <2>1, NothingChanged, CreateTableSound DEF Create
<1>2. CASE s.kind = "create table as" /\ CreateTableAs(s)
  <2> DEFINE spec == [columns |-> Projected(s), constraints |-> {}]
  <2>1. s.table \in TableName /\ TypeOK
    BY <1>2 DEF IsStatement, IInv
  <2>2. CASE NoOp \/ Refuse
    BY <2>2, NothingChanged
  <2>3. CASE Analyzes(s) /\ CreateTable(s.table, spec)
    <3>1. IsTableSpec(spec)
      BY <1>2, <2>1, <2>3, ProjectedTyped
    <3> HIDE DEF spec
    <3> QED BY <2>1, <2>3, <3>1, CreateTableSound
  <2> QED BY <1>2, <2>2, <2>3 DEF CreateTableAs
<1>3. CASE /\ s.kind = "create index"
           /\ CreateIndex(s.name, s.table, Names(s.columns), s.unique, s.ifNotExists)
  BY <1>3, CreateIndexSound DEF IsStatement
<1>4. CASE s.kind = "add column" /\ AddColumn(s.table, BuildColumn(s.column))
  <2>1. s.table \in TableName /\ BuildColumn(s.column) \in ColumnInfo
    BY <1>4, BuildColumnTyped DEF IsStatement
  <2> QED BY <1>4, <2>1, AddColumnSound
<1>5. CASE s.kind = "add constraint" /\ AddTableConstraint(s)
  <2>1. s.table \in TableName /\ SpecOf(s.constraint) \in ConstraintSpec
    BY <1>5, SpecOfTyped DEF IsStatement
  <2> QED BY <1>5, <2>1, NothingChanged, AddConstraintSound DEF AddTableConstraint
<1>6. CASE s.kind = "alter column" /\ AlterColumn(s)
  <2>1. s.table \in TableName /\ Fold(s.column) \in ColumnName
    BY <1>6, FrontAssumption DEF IsStatement
  <2> QED BY <1>6, <2>1, NothingChanged, AlterColumnSound DEF AlterColumn
<1>7. CASE s.kind = "drop column" /\ DropColumn(s.table, Fold(s.column), FALSE, s.cascade)
  <2>1. s.table \in TableName /\ Fold(s.column) \in ColumnName /\ s.cascade \in BOOLEAN
    BY <1>7, FrontAssumption DEF IsStatement
  <2> QED BY <1>7, <2>1, DropColumnSound
<1>8. CASE s.kind = "drop constraint" /\ DropConstraint(s.table, s.name, s.cascade)
  BY <1>8, DropConstraintSound DEF IsStatement
<1>9. CASE s.kind = "drop" /\ Drop(s)
  BY <1>9, DropIndexSound, DropTableSound DEF IsStatement, Drop
<1> QED BY <1>1, <1>2, <1>3, <1>4, <1>5, <1>6, <1>7, <1>8, <1>9 DEF Dispatch

LEMMA FrontStepSound == IInv /\ [FrontNext]_frontVars => IInv'
<1> SUFFICES ASSUME IInv, [FrontNext]_frontVars PROVE IInv'
  OBVIOUS
<1>1. ASSUME NEW s \in Statements, ExecuteDdl(s) PROVE IInv'
  <2>1. IsStatement(s)
    BY FrontAssumption
  <2> QED BY <1>1, <2>1, NothingChanged, DispatchSound DEF ExecuteDdl
<1>2. CASE UNCHANGED frontVars
  BY <1>2, StepSound DEF frontVars
<1> QED BY <1>1, <1>2 DEF FrontNext

\* Whatever statements are executed in whatever order, in any spelling and with
\* CREATE TABLE AS among them, the catalog stays well formed and no foreign key,
\* constraint or index is left without what it refers to.
THEOREM StatementsKeepReferences ==
  FrontSpec => [](TypeOK /\ ForeignKeysResolve /\ OwnColumnsExist)
<1>1. FrontInit => IInv
  BY InitSound DEF FrontInit
<1>2. IInv => TypeOK /\ ForeignKeysResolve /\ OwnColumnsExist
  BY FirstsAreColumns
  DEF IInv, Sound, Owned, Referring, Indexing, ForeignKeysResolve, OwnColumnsExist
<1> QED BY <1>1, <1>2, FrontStepSound, PTL DEF FrontSpec

-----------------------------------------------------------------------------
(* A statement has the shape of the operation it calls.                    *)

\* The body of the table a statement creates.
Bodies(s) ==
  IF s.kind = "create table" THEN {Body(s)}
  ELSE IF s.kind = "create table as" /\ Analyzes(s)
         THEN {[columns |-> Projected(s), constraints |-> {}]}
         ELSE {}

LEMMA BodiesTyped ==
  ASSUME TypeOK, NEW s, IsStatement(s)
  PROVE  \A spec \in Bodies(s) : IsTableSpec(spec)
BY BodyIsTableSpec, ProjectedTyped, Zenon DEF Bodies

LEMMA IdleShape ==
  ASSUME Refuse \/ NoOp \/ Unsaved, NEW specs PROVE Shape(specs)
BY EndsWithoutChange DEF Shape, Uncommitted

LEMMA DispatchShape ==
  ASSUME IInv, NEW s, IsStatement(s), Dispatch(s) PROVE Shape(Bodies(s))
<1>1. CASE s.kind = "create table" /\ Create(s, Body(s))
  <2>1. s.table \in TableName /\ Body(s) \in Bodies(s)
    BY <1>1 DEF IsStatement, Bodies
  <2> QED BY <1>1, <2>1, IdleShape, CreateTableShape DEF Create, Shape, Uncommitted
<1>2. CASE s.kind = "create table as" /\ CreateTableAs(s)
  <2> DEFINE spec == [columns |-> Projected(s), constraints |-> {}]
  <2>1. s.table \in TableName
    BY <1>2 DEF IsStatement
  <2>2. CASE NoOp \/ Refuse
    BY <2>2, IdleShape
  <2>3. CASE Analyzes(s) /\ CreateTable(s.table, spec)
    <3>1. spec \in Bodies(s)
      BY <1>2, <2>3 DEF Bodies
    <3> HIDE DEF spec
    <3> QED BY <2>1, <2>3, <3>1, CreateTableShape DEF Shape, Uncommitted
  <2> QED BY <1>2, <2>2, <2>3 DEF CreateTableAs
<1>3. CASE /\ s.kind = "create index"
           /\ CreateIndex(s.name, s.table, Names(s.columns), s.unique, s.ifNotExists)
  BY <1>3, EndsWithoutChange DEF CreateIndex, Swap, Shape, SameTables, Uncommitted
<1>4. CASE s.kind = "add column" /\ AddColumn(s.table, BuildColumn(s.column))
  <2>1. s.table \in TableName /\ BuildColumn(s.column) \in ColumnInfo
    BY <1>4, BuildColumnTyped DEF IsStatement
  <2> QED BY <1>4, <2>1, AlterShape
<1>5. CASE s.kind = "add constraint" /\ AddTableConstraint(s)
  <2>1. s.table \in TableName /\ SpecOf(s.constraint) \in ConstraintSpec
    BY <1>5, SpecOfTyped DEF IsStatement
  <2> QED BY <1>5, <2>1, IdleShape, AlterShape DEF AddTableConstraint
<1>6. CASE s.kind = "alter column" /\ AlterColumn(s)
  <2>1. s.table \in TableName /\ Fold(s.column) \in ColumnName
    BY <1>6, FrontAssumption DEF IsStatement
  <2> QED BY <1>6, <2>1, IdleShape, AlterShape DEF AlterColumn
<1>7. CASE s.kind = "drop column" /\ DropColumn(s.table, Fold(s.column), FALSE, s.cascade)
  <2>1. s.table \in TableName /\ Fold(s.column) \in ColumnName /\ s.cascade \in BOOLEAN
    BY <1>7, FrontAssumption DEF IsStatement
  <2> QED BY <1>7, <2>1, AlterShape
<1>8. CASE s.kind = "drop constraint" /\ DropConstraint(s.table, s.name, s.cascade)
  <2>1. s.table \in TableName /\ s.cascade \in BOOLEAN
    BY <1>8 DEF IsStatement
  <2> QED BY <1>8, <2>1, AlterShape
<1>9. CASE s.kind = "drop" /\ Drop(s)
  <2>1. CASE s.object = "index" /\ DropIndex(s.name, s.ifExists)
    BY <2>1, EndsWithoutChange DEF DropIndex, Commit, Swap, Shape, SameTables, Uncommitted
  <2>2. CASE s.object = "table" /\ DropTable(s.name, s.ifExists, s.cascade)
    <3>1. s.name \in TableName /\ s.ifExists \in BOOLEAN /\ s.cascade \in BOOLEAN
      BY <1>9, <2>2 DEF IsStatement
    <3>2. TypedTables(tables)
      BY DEF IInv, Sound
    <3> QED BY <2>2, <3>1, <3>2, DropTableShape DEF Shape, Uncommitted
  <2> QED BY <1>9, <2>1, <2>2 DEF Drop
<1> QED BY <1>1, <1>2, <1>3, <1>4, <1>5, <1>6, <1>7, <1>8, <1>9 DEF Dispatch

\* What holds of a step of a shape holds of a step of the front end.
LEMMA FrontShape ==
  ASSUME IInv, [FrontNext]_frontVars
  PROVE  \E specs : (\A spec \in specs : IsTableSpec(spec)) /\ Shape(specs)
<1>1. ASSUME NEW s \in Statements, ExecuteDdl(s)
      PROVE  \E specs : (\A spec \in specs : IsTableSpec(spec)) /\ Shape(specs)
  <2>1. IsStatement(s) /\ TypeOK
    BY FrontAssumption DEF IInv
  <2>2. Shape(Bodies(s))
    BY <1>1, <2>1, IdleShape, DispatchShape DEF ExecuteDdl
  <2> QED BY <2>1, <2>2, BodiesTyped
<1>2. CASE UNCHANGED frontVars
  <2>1. Shape({})
    BY <1>2 DEF frontVars, vars, Shape, SameTables
  <2> QED BY <2>1
<1> QED BY <1>1, <1>2 DEF FrontNext

\* No sequence of statements leaves a table with two primary keys or with a key
\* column that can be null.
THEOREM StatementsKeepPrimaryKeys == FrontSpec => []PrimaryKeySound
<1>1. FrontInit => IInv /\ KeysSound
  BY InitSound DEF FrontInit, Init, KeysSound
<1>2. IInv /\ KeysSound /\ [FrontNext]_frontVars => (IInv /\ KeysSound)'
  BY FrontStepSound, FrontShape, StepKeysSound
<1> QED BY <1>1, <1>2, KeysSoundSuffices, PTL DEF FrontSpec

-----------------------------------------------------------------------------
(* What a statement declares arrives.                                      *)

LEMMA NamesFound ==
  ASSUME NEW cols, IsColumns(cols), NEW names, HasColumns(cols, names),
         NEW info, SameColumnNames(info.columns, cols)
  PROVE  NamesOf(info, FindColumns(cols, names)) = names
<1>1. \A n \in names : FindColumn(cols, n) \in DOMAIN cols /\ cols[FindColumn(cols, n)].name = n
  BY FindColumnFirst, FirstsAreColumns DEF HasColumns
<1>2. \A n \in names : info.columns[FindColumn(cols, n)].name = n
  BY <1>1 DEF SameColumnNames
<1> QED BY <1>2 DEF NamesOf, FindColumns

\* The constraint spec, resolved among cols and the columns of tabs, stands in t.
LEMMA ResolvedStands ==
  ASSUME NEW spec, NEW cols, NEW tabs, NEW next, NEW t,
         Resolved(spec, cols, tabs) \in next[t].constraints,
         IsColumns(cols), HasColumns(cols, spec.columns), SameColumnNames(next[t].columns, cols),
         spec.kind = "ForeignKey" =>
           /\ IsColumns(tabs[spec.refTable].columns)
           /\ HasColumns(tabs[spec.refTable].columns, spec.refColumns)
           /\ SameColumnNames(next[spec.refTable].columns, tabs[spec.refTable].columns)
  PROVE  \E c \in next[t].constraints :
           /\ c.kind = spec.kind
           /\ c.name = spec.name
           /\ NamesOf(next[t], c.columns) = spec.columns
           /\ spec.kind = "ForeignKey" =>
                /\ c.refTable = spec.refTable
                /\ NamesOf(next[spec.refTable], c.refColumns) = spec.refColumns
<1> DEFINE c == Resolved(spec, cols, tabs)
<1>1. /\ c.kind = spec.kind
      /\ c.name = spec.name
      /\ c.columns = FindColumns(cols, spec.columns)
      /\ spec.kind = "ForeignKey" =>
           /\ c.refTable = spec.refTable
           /\ c.refColumns = FindColumns(tabs[spec.refTable].columns, spec.refColumns)
  BY DEF Resolved
<1> HIDE DEF c
<1>2. c \in next[t].constraints
  BY DEF c
<1>3. NamesOf(next[t], c.columns) = spec.columns
  BY <1>1, NamesFound
<1>4. spec.kind = "ForeignKey" => NamesOf(next[spec.refTable], c.refColumns) = spec.refColumns
  BY <1>1, NamesFound
<1> QED BY <1>1, <1>2, <1>3, <1>4

\* Every constraint a new table's body keeps stands in the table.
LEMMA CreatedStands ==
  ASSUME IInv, NEW x, NEW spec, IsTableSpec(spec), Creates(x, spec),
         NEW b \in Kept(spec.constraints)
  PROVE  \E c \in tables'[x].constraints :
           /\ c.kind = b.kind
           /\ c.name = b.name
           /\ NamesOf(tables'[x], c.columns) = b.columns
           /\ b.kind = "ForeignKey" =>
                /\ c.refTable = b.refTable
                /\ NamesOf(tables'[b.refTable], c.refColumns) = b.refColumns
<1> DEFINE ids   == PrimaryKeyColumns(spec)
           cols  == ForceNotNull(spec.columns, ids)
           bare  == [id |-> nextTableId, columns |-> cols, constraints |-> {}]
           next  == Put(tables, x, bare)
           named == Put(tables, x, [columns |-> spec.columns])
           cons  == {Resolved(c, cols, next) : c \in Kept(spec.constraints)}
<1>1. IsColumns(spec.columns)
  BY BodyColumns
<1>2. tables'[x].columns = cols /\ tables'[x].constraints = cons
  BY DEF Creates, NewTable
<1>3. x \notin DOMAIN tables /\ Resolves(b, spec.columns, named)
  BY DEF Creates, SpecResolves, Kept
<1> HIDE DEF ids
<1>4. IsColumns(cols) /\ SameColumnNames(cols, spec.columns)
  BY <1>1, ForceNotNullKeeps, ForcedColumns DEF SameColumnNames
<1>5. /\ next[x].columns = cols /\ named[x].columns = spec.columns
      /\ DOMAIN named = DOMAIN tables \cup {x}
      /\ \A t \in DOMAIN tables : next[t] = tables[t] /\ named[t] = tables[t]
  BY <1>3 DEF Put
<1>6. Resolved(b, cols, next) \in tables'[x].constraints
  BY <1>2
<1> HIDE DEF cols, next, named, cons
<1>7. HasColumns(cols, b.columns)
  BY <1>3, <1>4 DEF Resolves, HasColumns, HasColumn, SameColumnNames
<1>8. SameColumnNames(tables'[x].columns, cols)
  BY <1>2 DEF SameColumnNames
<1>9. ASSUME b.kind = "ForeignKey"
      PROVE  /\ IsColumns(next[b.refTable].columns)
             /\ HasColumns(next[b.refTable].columns, b.refColumns)
             /\ SameColumnNames(tables'[b.refTable].columns, next[b.refTable].columns)
  <2>1. b.refTable \in DOMAIN named /\ HasColumns(named[b.refTable].columns, b.refColumns)
    BY <1>3, <1>9 DEF Resolves
  <2>2. CASE b.refTable = x
    <3>1. HasColumns(cols, b.refColumns)
      BY <1>4, <1>5, <2>1, <2>2 DEF HasColumns, HasColumn, SameColumnNames
    <3> QED BY <1>4, <1>5, <1>8, <2>2, <3>1
  <2>3. CASE b.refTable # x
    <3>1. b.refTable \in DOMAIN tables /\ next[b.refTable] = tables[b.refTable]
          /\ named[b.refTable] = tables[b.refTable]
      BY <1>5, <2>1, <2>3
    <3>2. IsColumns(tables[b.refTable].columns)
      BY <3>1 DEF IInv, Sound, TypedTables, IsTableInfo
    <3>3. tables'[b.refTable].columns = tables[b.refTable].columns
      BY <2>3, <3>1 DEF Creates, OthersDetached
    <3> QED BY <2>1, <3>1, <3>2, <3>3 DEF SameColumnNames
  <2> QED BY <2>2, <2>3
<1> QED BY <1>4, <1>6, <1>7, <1>8, <1>9, ResolvedStands

\* So does one that ALTER TABLE ... ADD adds.
LEMMA AddedStands ==
  ASSUME IInv, NEW x \in TableName, NEW spec \in ConstraintSpec, CanAdd(x, spec),
         Alters(x, WithConstraint(x, spec))
  PROVE  \E c \in tables'[x].constraints :
           /\ c.kind = spec.kind
           /\ c.name = spec.name
           /\ NamesOf(tables'[x], c.columns) = spec.columns
           /\ spec.kind = "ForeignKey" =>
                /\ c.refTable = spec.refTable
                /\ NamesOf(tables'[spec.refTable], c.refColumns) = spec.refColumns
<1> DEFINE old    == tables[x]
           cols   == old.columns
           added  == Resolved(spec, cols, tables)
           forced == IF spec.kind = "PrimaryKey" THEN ForceNotNull(cols, added.columns) ELSE cols
           more   == old.constraints \cup {added}
<1>1. x \in DOMAIN tables /\ Resolves(spec, cols, tables)
  BY DEF CanAdd
<1>2. \A t \in DOMAIN tables : IsTableInfo(tables[t]) /\ IsColumns(tables[t].columns)
  BY DEF IInv, Sound, TypedTables, IsTableInfo
<1>3. SameColumnNames(forced, cols)
  <2> HIDE DEF added
  <2> QED BY <1>1, <1>2, ForcedColumns DEF SameColumnNames
<1>4. tables'[x] = [old EXCEPT !.columns = forced, !.constraints = more]
  BY DEF Alters, WithConstraint
<1> HIDE DEF forced, more
<1>5. tables'[x].columns = forced /\ tables'[x].constraints = more
  BY <1>1, <1>2, <1>4 DEF IsTableInfo
<1>6. Resolved(spec, cols, tables) \in tables'[x].constraints
  BY <1>5 DEF more
<1>7. \A t \in DOMAIN tables : SameColumnNames(tables'[t].columns, tables[t].columns)
  <2>1. \A t \in DOMAIN tables \ {x} : tables'[t].columns = tables[t].columns
    BY DEF Alters, OthersDetached
  <2> QED BY <1>3, <1>5, <2>1 DEF SameColumnNames
<1>8. HasColumns(cols, spec.columns)
      /\ (spec.kind = "ForeignKey" =>
            spec.refTable \in DOMAIN tables
            /\ HasColumns(tables[spec.refTable].columns, spec.refColumns))
  BY <1>1 DEF Resolves
<1> QED BY <1>1, <1>2, <1>6, <1>7, <1>8, ResolvedStands

LEMMA SequenceFinite ==
  ASSUME NEW S, NEW q \in Seq(S) PROVE IsFiniteSet(DOMAIN q)
<1> DEFINE n == Len(q)
<1>1. DOMAIN q = 1 .. n /\ n \in Nat
  OBVIOUS
<1> HIDE DEF n
<1>2. IsFiniteSet(1 .. n)
  BY <1>1, FS_Interval
<1> QED BY <1>1, <1>2

LEMMA RangeFinite ==
  ASSUME NEW f, IsFiniteSet(DOMAIN f) PROVE IsFiniteSet({f[i] : i \in DOMAIN f})
<1> DEFINE T == {f[i] : i \in DOMAIN f}
           g == [i \in DOMAIN f |-> f[i]]
<1>1. g \in Surjection(DOMAIN f, T)
  BY DEF Surjection
<1> QED BY <1>1, FS_Surjection

LEMMA AtMostOne ==
  ASSUME NEW S, IsFiniteSet(S), Cardinality(S) <= 1, NEW x \in S, NEW y \in S
  PROVE  x = y
<1> SUFFICES ASSUME x # y PROVE FALSE
  OBVIOUS
<1>1. IsFiniteSet({x}) /\ Cardinality({x}) = 1 /\ y \notin {x}
  BY FS_Singleton
<1> DEFINE two == {x} \cup {y}
<1>2. Cardinality(two) = 1 + 1
  BY <1>1, FS_AddElement
<1>3. two \subseteq S
  OBVIOUS
<1> HIDE DEF two
<1>4. Cardinality(two) <= Cardinality(S) /\ Cardinality(S) \in Nat
  BY <1>3, FS_Subset, FS_CardinalityType
<1> QED BY <1>2, <1>4

LEMMA OnePrimaryKey ==
  ASSUME NEW s, IsStatement(s), s.kind = "create table", ValidCreateTable(s),
         NEW d \in Declared(s), d.kind = "PrimaryKey"
  PROVE  /\ {e \in Declared(s) : e.kind = "PrimaryKey"} = {d}
         /\ d \notin s.constraints => d.name = Unnamed
<1> DEFINE keys   == {e \in Declared(s) : e.kind = "PrimaryKey"}
           inline == {ColumnKey("PrimaryKey", s.columns[i]) : i \in DOMAIN s.columns}
<1>1. s.columns \in Seq(ColumnDefinition) /\ IsFiniteSet(s.constraints)
  BY DEF IsStatement
<1>2. \A i \in DOMAIN s.columns : s.columns[i] \in ColumnDefinition
  BY <1>1, Entries
<1>3. ASSUME NEW e \in keys, e \notin s.constraints PROVE e \in inline
  <2>1. PICK i \in DOMAIN s.columns : e \in Inline(s.columns[i])
    BY <1>3 DEF Declared
  <2>2. \A c \in s.columns[i].checks \cup s.columns[i].references : c.kind # "PrimaryKey"
    BY <1>2 DEF ColumnDefinition
  <2>3. ColumnKey("Unique", s.columns[i]).kind = "Unique"
    BY DEF ColumnKey
  <2> QED BY <2>1, <2>2, <2>3 DEF Inline
<1>4. IsFiniteSet(inline)
  <2> DEFINE key == [i \in DOMAIN s.columns |-> ColumnKey("PrimaryKey", s.columns[i])]
  <2>1. inline = {key[i] : i \in DOMAIN s.columns}
    OBVIOUS
  <2> HIDE DEF key
  <2>2. DOMAIN key = DOMAIN s.columns
    BY DEF key
  <2> QED BY <1>1, <2>1, <2>2, SequenceFinite, RangeFinite
<1> HIDE DEF inline
<1>5. IsFiniteSet(keys)
  <2>1. keys \subseteq s.constraints \cup inline
    BY <1>3
  <2>2. IsFiniteSet(s.constraints \cup inline)
    BY <1>1, <1>4, FS_Union
  <2> QED BY <2>1, <2>2, FS_Subset
<1>6. Cardinality(keys) <= 1
  BY DEF ValidCreateTable
<1> HIDE DEF keys
<1>7. ASSUME NEW e \in keys PROVE e = d
  <2>1. d \in keys
    BY DEF keys
  <2> QED BY <1>5, <1>6, <2>1, AtMostOne
<1>8. keys = {d}
  BY <1>7 DEF keys
<1>9. d \notin s.constraints => d.name = Unnamed
  <2>1. d \in keys
    BY DEF keys
  <2>2. \A c : ColumnKey("PrimaryKey", c).name = Unnamed
    BY DEF ColumnKey
  <2>3. \A e \in inline : e.name = Unnamed
    BY <2>2 DEF inline
  <2> QED BY <1>3, <2>1, <2>3
<1> QED BY <1>8, <1>9 DEF keys

\* Every constraint a valid CREATE TABLE declares is in the body it passes on, and
\* CREATE TABLE keeps it.
LEMMA DeclaredInBody ==
  ASSUME NEW s, IsStatement(s), s.kind = "create table", ValidCreateTable(s),
         NEW d \in Declared(s), d.kind \in {"PrimaryKey", "Unique"} => d.columns # {}
  PROVE  \E b \in Kept(Body(s).constraints) :
           /\ b.kind = d.kind
           /\ b.name = d.name
           /\ b.columns = Names(d.columns)
           /\ d.kind = "ForeignKey" =>
                b.refTable = d.refTable /\ b.refColumns = Names(d.refColumns)
<1> DEFINE passed == PrimaryKeys(s)
                       \cup {SpecOf(e) : e \in {f \in Declared(s) : f.kind # "PrimaryKey"}}
<1>1. Body(s).constraints = passed
  BY DEF Body
<1>2. ASSUME NEW b \in passed, b.kind = d.kind, b.name = d.name, b.columns = Names(d.columns),
             d.kind = "ForeignKey" =>
               b.refTable = d.refTable /\ b.refColumns = Names(d.refColumns)
      PROVE  \E k \in Kept(Body(s).constraints) :
               /\ k.kind = d.kind
               /\ k.name = d.name
               /\ k.columns = Names(d.columns)
               /\ d.kind = "ForeignKey" =>
                    k.refTable = d.refTable /\ k.refColumns = Names(d.refColumns)
  <2>1. Names(d.columns) = {} => d.columns = {}
    BY DEF Names
  <2>2. b.kind \in {"PrimaryKey", "Unique"} => b.columns # {}
    BY <1>2, <2>1
  <2> HIDE DEF passed
  <2> QED BY <1>1, <1>2, <2>2 DEF Kept
<1>3. CASE d.kind # "PrimaryKey"
  <2>1. SpecOf(d) \in passed
    BY <1>3
  <2> QED BY <1>2, <2>1 DEF SpecOf
<1>4. CASE d.kind = "PrimaryKey"
  <2> DEFINE keys == {e \in Declared(s) : e.kind = "PrimaryKey"}
             own  == {e \in keys : e \in s.constraints}
             name == IF own = {} THEN Unnamed ELSE (CHOOSE e \in own : TRUE).name
             key  == [kind |-> "PrimaryKey", name |-> name,
                      columns |-> Names(UNION {e.columns : e \in keys}),
                      refTable |-> NoTable, refColumns |-> {}]
  <2>1. keys = {d} /\ (d \notin s.constraints => d.name = Unnamed)
    BY <1>4, OnePrimaryKey
  <2>2. PrimaryKeys(s) = IF keys = {} THEN {} ELSE {key}
    BY DEF PrimaryKeys
  <2> HIDE DEF keys
  <2>3. UNION {e.columns : e \in keys} = d.columns
    BY <2>1
  <2>4. name = d.name
    <3>1. CASE d \in s.constraints
      <4>1. own = {d}
        BY <2>1, <3>1
      <4> HIDE DEF own
      <4>2. (CHOOSE e \in own : TRUE) = d
        BY <4>1
      <4> QED BY <4>1, <4>2
    <3>2. CASE d \notin s.constraints
      BY <2>1, <3>2
    <3> QED BY <3>1, <3>2
  <2> HIDE DEF name, own
  <2>5. key.kind = d.kind /\ key.name = d.name /\ key.columns = Names(d.columns)
    BY <1>4, <2>3, <2>4
  <2>6. key \in passed
    BY <2>1, <2>2
  <2> HIDE DEF key, passed
  <2> QED BY <1>2, <1>4, <2>5, <2>6
<1> QED BY <1>3, <1>4

\* A key declared by a CREATE TABLE lists columns, as the grammar has it: the
\* manager takes one over no columns for none.
KeysListColumns(s) ==
  s.kind = "create table" =>
    \A d \in Declared(s) : d.kind \in {"PrimaryKey", "Unique"} => d.columns # {}

LEMMA DeclaredStands ==
  ASSUME IInv, NEW s \in Statements, ExecuteDdl(s), KeysListColumns(s),
         result' = "committed", NEW d \in DeclaredBy(s)
  PROVE  Stands(d, s.table, tables')
<1>1. IsStatement(s) /\ ~(Refuse \/ NoOp \/ Unsaved)
  BY FrontAssumption, EndsWithoutChange DEF Uncommitted
<1>2. Valid(s) /\ Dispatch(s)
  BY <1>1 DEF ExecuteDdl
<1>3. CASE s.kind = "create table"
  <2>1. Create(s, Body(s)) /\ ValidCreateTable(s) /\ d \in Declared(s)
    BY <1>2, <1>3 DEF Dispatch, Valid, DeclaredBy
  <2>2. CreateTable(s.table, Body(s))
    BY <1>1, <2>1 DEF Create
  <2>3. Creates(s.table, Body(s)) /\ IsTableSpec(Body(s))
    BY <1>1, <1>3, <2>2, CreateTableShape, BodyIsTableSpec DEF Uncommitted
  <2>4. PICK b \in Kept(Body(s).constraints) :
           /\ b.kind = d.kind
           /\ b.name = d.name
           /\ b.columns = Names(d.columns)
           /\ d.kind = "ForeignKey" =>
                b.refTable = d.refTable /\ b.refColumns = Names(d.refColumns)
    BY <1>1, <1>3, <2>1, DeclaredInBody DEF KeysListColumns
  <2>5. PICK c \in tables'[s.table].constraints :
           /\ c.kind = b.kind
           /\ c.name = b.name
           /\ NamesOf(tables'[s.table], c.columns) = b.columns
           /\ b.kind = "ForeignKey" =>
                /\ c.refTable = b.refTable
                /\ NamesOf(tables'[b.refTable], c.refColumns) = b.refColumns
    BY <2>3, CreatedStands
  <2> QED BY <2>4, <2>5 DEF Stands
<1>4. CASE s.kind = "add column"
  BY <1>2, <1>4 DEF Valid, ValidAddColumn, DeclaredBy
<1>5. CASE s.kind = "add constraint"
  <2> DEFINE spec == SpecOf(d)
  <2>1. d = s.constraint /\ AddTableConstraint(s) /\ s.table \in TableName
    BY <1>1, <1>2, <1>5 DEF Dispatch, DeclaredBy, IsStatement
  <2>2. spec \in ConstraintSpec
    BY <1>1, <1>5, <2>1, SpecOfTyped DEF IsStatement
  <2>3. AddConstraint(s.table, spec)
    BY <1>1, <2>1 DEF AddTableConstraint
  <2>4. /\ spec.kind = d.kind
        /\ spec.name = d.name
        /\ spec.columns = Names(d.columns)
        /\ spec.refTable = d.refTable
        /\ spec.refColumns = Names(d.refColumns)
    BY DEF SpecOf
  <2> HIDE DEF spec
  <2>5. TypedTables(tables)
    BY DEF IInv, Sound
  <2>6. CanAdd(s.table, spec) /\ Alters(s.table, WithConstraint(s.table, spec))
    BY <2>1, <2>3, <2>5, AddConstraintShape DEF Uncommitted
  <2>7. PICK c \in tables'[s.table].constraints :
           /\ c.kind = spec.kind
           /\ c.name = spec.name
           /\ NamesOf(tables'[s.table], c.columns) = spec.columns
           /\ spec.kind = "ForeignKey" =>
                /\ c.refTable = spec.refTable
                /\ NamesOf(tables'[spec.refTable], c.refColumns) = spec.refColumns
    BY <2>1, <2>2, <2>6, AddedStands
  <2> QED BY <2>4, <2>7 DEF Stands
<1> QED BY <1>3, <1>4, <1>5 DEF DeclaredBy

\* Every PRIMARY KEY, UNIQUE, CHECK and REFERENCES of a CREATE TABLE or an ALTER
\* TABLE ... ADD that commits, inline or not and in whichever spelling, stands in
\* the table as declared, as long as keys list columns.
THEOREM DeclarationsArrive ==
  ASSUME \A s \in Statements : KeysListColumns(s)
  PROVE  FrontSpec => NothingDeclaredIsLost
<1>1. FrontInit => IInv
  BY InitSound DEF FrontInit
<1>2. IInv /\ [FrontNext]_frontVars =>
        \/ UNCHANGED frontVars
        \/ (result' = "committed" =>
              \A d \in DeclaredBy(statement') : Stands(d, statement'.table, tables'))
  <2>1. ASSUME IInv, NEW s \in Statements, ExecuteDdl(s), result' = "committed"
        PROVE  \A d \in DeclaredBy(statement') : Stands(d, statement'.table, tables')
    <3>1. statement' = s
      BY <2>1 DEF ExecuteDdl
    <3> QED BY <2>1, <3>1, DeclaredStands
  <2> QED BY <2>1 DEF FrontNext
<1> QED BY <1>1, <1>2, FrontStepSound, PTL DEF FrontSpec, NothingDeclaredIsLost

-----------------------------------------------------------------------------
(* The columns a statement defines.                                        *)

\* validate_ddl compares the spellings of the columns: that no two fold to one
\* name is for the author of the statement to see to.
FoldsColumnsOnce(s) ==
  s.kind = "create table" =>
    \A i, j \in DOMAIN s.columns :
      Fold(s.columns[i].name) = Fold(s.columns[j].name) => i = j

\* The columns CREATE TABLE forces to be NOT NULL are those of the declared keys.
LEMMA KeyedColumns ==
  ASSUME NEW s, IsStatement(s), s.kind = "create table", NEW x, Creates(x, Body(s)),
         FoldsColumnsOnce(s)
  PROVE  LET cols  == Body(s).columns
             keys  == {d \in Declared(s) : d.kind = "PrimaryKey"}
             keyed == Names(UNION {d.columns : d \in keys})
         IN  \A i \in DOMAIN cols :
               i \in PrimaryKeyColumns(Body(s)) <=> cols[i].name \in keyed
<1> DEFINE cols  == Body(s).columns
           keys  == {d \in Declared(s) : d.kind = "PrimaryKey"}
           keyed == Names(UNION {d.columns : d \in keys})
           own   == {d \in keys : d \in s.constraints}
           name  == IF own = {} THEN Unnamed ELSE (CHOOSE d \in own : TRUE).name
           key   == [kind |-> "PrimaryKey", name |-> name, columns |-> keyed,
                     refTable |-> NoTable, refColumns |-> {}]
           rest  == {SpecOf(d) : d \in {e \in Declared(s) : e.kind # "PrimaryKey"}}
           ids   == PrimaryKeyColumns(Body(s))
<1>1. IsColumns(cols)
  BY BodyIsTableSpec, BodyColumns
<1>2. Body(s).constraints = PrimaryKeys(s) \cup rest
  BY DEF Body
<1>3. PrimaryKeys(s) = IF keys = {} THEN {} ELSE {key}
  BY DEF PrimaryKeys
<1>4. \A c \in rest : c.kind # "PrimaryKey"
  <2>1. \A d : SpecOf(d).kind = d.kind
    BY DEF SpecOf
  <2> QED BY <2>1
<1>5. \A i, j \in DOMAIN cols : cols[i].name = cols[j].name => i = j
  BY DEF Body, BuildColumn, FoldsColumnsOnce
<1> HIDE DEF keys, name, rest, cols
<1>6. key.kind = "PrimaryKey" /\ key.columns = keyed
  OBVIOUS
<1> HIDE DEF keyed, key
<1>7. CASE keys = {}
  <2>1. keyed = {}
    BY <1>7 DEF keyed, Names
  <2>2. {d \in Body(s).constraints : d.kind = "PrimaryKey"} = {}
    BY <1>2, <1>3, <1>4, <1>7
  <2>3. ids = {}
    BY <2>2 DEF PrimaryKeyColumns
  <2> QED BY <2>1, <2>3 DEF keyed, keys, cols
<1>8. CASE keys # {}
  <2>1. {d \in Body(s).constraints : d.kind = "PrimaryKey"} = {key}
    BY <1>2, <1>3, <1>4, <1>6, <1>8
  <2>2. ids = FindColumns(cols, keyed)
    BY <1>6, <2>1 DEF PrimaryKeyColumns, cols
  <2>3. HasColumns(cols, keyed)
    <3>1. key \in Body(s).constraints
      BY <2>1
    <3> QED BY <1>6, <3>1 DEF Creates, SpecResolves, Resolves, cols
  <2>4. ASSUME NEW i \in DOMAIN cols PROVE i \in ids <=> cols[i].name \in keyed
    <3>1. ASSUME i \in ids PROVE cols[i].name \in keyed
      <4>1. PICK n \in keyed : i = FindColumn(cols, n)
        BY <2>2, <3>1 DEF FindColumns
      <4>2. HasColumn(cols, n)
        BY <2>3 DEF HasColumns
      <4> QED BY <1>1, <4>1, <4>2, FindColumnFirst
    <3>2. ASSUME cols[i].name \in keyed PROVE i \in ids
      <4>1. HasColumn(cols, cols[i].name)
        BY DEF HasColumn
      <4>2. /\ FindColumn(cols, cols[i].name) \in DOMAIN cols
            /\ cols[FindColumn(cols, cols[i].name)].name = cols[i].name
        BY <1>1, <4>1, FindColumnFirst, FirstsAreColumns
      <4>3. FindColumn(cols, cols[i].name) = i
        BY <1>5, <4>2
      <4> QED BY <2>2, <3>2, <4>3 DEF FindColumns
    <3> QED BY <3>1, <3>2
  <2> QED BY <2>4 DEF keyed, keys, cols
<1> QED BY <1>7, <1>8

LEMMA CreatedAsDeclared ==
  ASSUME NEW s, IsStatement(s), s.kind = "create table", NEW x, Creates(x, Body(s)),
         FoldsColumnsOnce(s)
  PROVE  DefinedAs(s, tables'[x].columns)
<1> DEFINE cols  == tables'[x].columns
           body  == Body(s).columns
           ids   == PrimaryKeyColumns(Body(s))
           keys  == {d \in Declared(s) : d.kind = "PrimaryKey"}
           keyed == Names(UNION {d.columns : d \in keys})
<1>1. IsColumns(body)
  BY BodyIsTableSpec, BodyColumns
<1>2. cols = ForceNotNull(body, ids)
  <2> DEFINE spec == Body(s)
  <2> HIDE DEF spec
  <2>1. Creates(x, spec) /\ body = spec.columns /\ ids = PrimaryKeyColumns(spec)
    BY DEF spec
  <2> HIDE DEF body, ids
  <2>2. cols = NewTable(x, spec).columns
    BY <2>1 DEF Creates
  <2> QED BY <2>1, <2>2 DEF NewTable
<1>3. /\ DOMAIN body = DOMAIN s.columns
      /\ \A i \in DOMAIN body : body[i] = BuildColumn(s.columns[i])
  BY DEF Body
<1>4. \A i \in DOMAIN body : i \in ids <=> body[i].name \in keyed
  BY KeyedColumns
<1>5. ASSUME NEW i \in DOMAIN s.columns, s.columns[i].primaryKey
      PROVE  Fold(s.columns[i].name) \in keyed
  <2> DEFINE d == ColumnKey("PrimaryKey", s.columns[i])
  <2>1. d.kind = "PrimaryKey" /\ d.columns = {s.columns[i].name}
    BY DEF ColumnKey
  <2>2. d \in Inline(s.columns[i])
    BY <1>5 DEF Inline
  <2> HIDE DEF d
  <2>3. d \in Declared(s)
    BY <2>2 DEF Declared
  <2> QED BY <2>1, <2>3 DEF Names
<1>6. \A i \in DOMAIN s.columns :
        s.columns[i].primaryKey \in BOOLEAN /\ s.columns[i].notNull \in BOOLEAN
  <2>1. s.columns \in Seq(ColumnDefinition)
    BY DEF IsStatement
  <2>2. \A i \in DOMAIN s.columns : s.columns[i] \in ColumnDefinition
    BY <2>1, Entries
  <2> QED BY <2>2 DEF ColumnDefinition
<1> HIDE DEF cols, body, ids, keyed
<1>7. /\ DOMAIN cols = DOMAIN body
      /\ \A i \in DOMAIN body :
           /\ cols[i].name = body[i].name
           /\ cols[i].hasDefault = body[i].hasDefault
           /\ cols[i].nullable <=> i \notin ids /\ body[i].nullable
  <2> DEFINE new == ForceNotNull(body, ids)
  <2>1. /\ DOMAIN new = DOMAIN body
        /\ \A i \in DOMAIN body :
             /\ new[i].name = body[i].name
             /\ new[i].hasDefault = body[i].hasDefault
             /\ new[i].nullable <=> i \notin ids /\ body[i].nullable
    BY <1>1, ForcedColumns
  <2> QED BY <1>2, <2>1
<1>8. ASSUME NEW i \in DOMAIN cols
      PROVE  /\ cols[i].name = Fold(s.columns[i].name)
             /\ cols[i].nullable <=>
                  ~s.columns[i].notNull /\ Fold(s.columns[i].name) \notin keyed
             /\ cols[i].hasDefault <=> s.columns[i].defaults # {}
  <2> DEFINE c == s.columns[i]
  <2>1. i \in DOMAIN body /\ i \in DOMAIN s.columns
    BY <1>3, <1>7
  <2>2. /\ body[i].name = Fold(c.name)
        /\ body[i].nullable <=> ~(c.notNull \/ c.primaryKey)
        /\ body[i].hasDefault <=> c.defaults # {}
    <3>1. body[i] = BuildColumn(c)
      BY <1>3, <2>1
    <3>2. /\ BuildColumn(c).name = Fold(c.name)
          /\ BuildColumn(c).nullable <=> ~(c.notNull \/ c.primaryKey)
          /\ BuildColumn(c).hasDefault <=> c.defaults # {}
      BY DEF BuildColumn
    <3> QED BY <3>1, <3>2
  <2>3. cols[i].nullable <=> i \notin ids /\ body[i].nullable
    BY <1>7, <2>1
  <2>4. i \in ids <=> Fold(c.name) \in keyed
    BY <1>4, <2>1, <2>2
  <2>5. c.primaryKey => Fold(c.name) \in keyed
    BY <1>5, <2>1
  <2>6. cols[i].nullable <=> ~c.notNull /\ Fold(c.name) \notin keyed
    BY <2>2, <2>3, <2>4, <2>5, Zenon
  <2>7. cols[i].name = Fold(c.name) /\ (cols[i].hasDefault <=> c.defaults # {})
    BY <1>7, <2>1, <2>2, Zenon
  <2> QED BY <2>6, <2>7
<1> QED BY <1>3, <1>7, <1>8 DEF cols, keyed, DefinedAs

LEMMA ProjectedAsQueried ==
  ASSUME IInv, NEW s, IsStatement(s), s.kind = "create table as", Analyzes(s), NEW x,
         Creates(x, [columns |-> Projected(s), constraints |-> {}])
  PROVE  ProjectedAs(s, tables'[x].columns)
<1> DEFINE cols == tables'[x].columns
           body == Projected(s)
           spec == [columns |-> body, constraints |-> {}]
<1>1. IsTableSpec(spec)
  BY ProjectedTyped DEF IInv
<1>2. spec.columns = body /\ spec.constraints = {}
  OBVIOUS
<1>3. IsColumns(body)
  <2> HIDE DEF spec, body
  <2> QED BY <1>1, <1>2, BodyColumns
<1>4. /\ DOMAIN body = DOMAIN s.projection
      /\ \A i \in DOMAIN body :
           /\ s.projection[i].name # Anonymous => body[i].name = Fold(s.projection[i].name)
           /\ body[i].nullable = ProjectedNullable(s, s.projection[i])
  BY DEF Projected
<1>5. /\ DOMAIN cols = DOMAIN body
      /\ \A i \in DOMAIN body :
           /\ cols[i].name = body[i].name
           /\ cols[i].nullable <=> i \notin {} /\ body[i].nullable
  <2> DEFINE new == ForceNotNull(body, {})
  <2> HIDE DEF body
  <2>1. /\ DOMAIN new = DOMAIN body
        /\ \A i \in DOMAIN body :
             /\ new[i].name = body[i].name
             /\ new[i].hasDefault = body[i].hasDefault
             /\ new[i].nullable <=> i \notin {} /\ body[i].nullable
    BY <1>3, ForcedColumns
  <2> HIDE DEF spec
  <2>2. PrimaryKeyColumns(spec) = {}
    BY <1>2 DEF PrimaryKeyColumns
  <2>3. cols = NewTable(x, spec).columns
    BY DEF Creates, spec, body
  <2>4. cols = new
    BY <1>2, <2>2, <2>3 DEF NewTable
  <2> QED BY <2>1, <2>4
<1> HIDE DEF cols, body, spec
<1>6. \A i \in DOMAIN body : body[i].nullable \in BOOLEAN
  BY <1>3 DEF IsColumns, ColumnInfo
<1>7. \A i \in DOMAIN body : cols[i].nullable <=> body[i].nullable
  BY <1>5, <1>6
<1> QED BY <1>4, <1>5, <1>7 DEF cols, ProjectedAs

\* A table's columns are those its CREATE TABLE defines or its query projects, in
\* order and numbered from 1, null where they may be, as long as no two of a
\* definition fold to one name.
THEOREM ColumnsArrive ==
  ASSUME \A s \in Statements : FoldsColumnsOnce(s)
  PROVE  FrontSpec => ColumnsAsDeclared
<1>1. FrontInit => IInv
  BY InitSound DEF FrontInit
<1> DEFINE Columns == tables'[statement'.table].columns
           Arrive  == /\ statement'.kind = "create table" => DefinedAs(statement', Columns)
                      /\ statement'.kind = "create table as" => ProjectedAs(statement', Columns)
<1>2. IInv /\ [FrontNext]_frontVars => \/ UNCHANGED frontVars
                                       \/ (result' = "committed" => Arrive)
  <2> SUFFICES ASSUME IInv, NEW s \in Statements, ExecuteDdl(s), result' = "committed"
               PROVE  Arrive
    BY DEF FrontNext
  <2>1. statement' = s /\ IsStatement(s) /\ FoldsColumnsOnce(s)
    BY FrontAssumption DEF ExecuteDdl
  <2>2. ~(Refuse \/ NoOp \/ Unsaved)
    BY EndsWithoutChange DEF Uncommitted
  <2>3. Dispatch(s)
    BY <2>2 DEF ExecuteDdl
  <2>4. CASE s.kind = "create table"
    <3>1. CreateTable(s.table, Body(s))
      BY <2>2, <2>3, <2>4 DEF Dispatch, Create
    <3>2. Creates(s.table, Body(s))
      BY <3>1, CreateTableShape DEF Uncommitted
    <3> QED BY <2>1, <2>4, <3>2, CreatedAsDeclared
  <2>5. CASE s.kind = "create table as"
    <3> DEFINE spec == [columns |-> Projected(s), constraints |-> {}]
    <3>1. Analyzes(s) /\ CreateTable(s.table, spec)
      BY <2>2, <2>3, <2>5 DEF Dispatch, CreateTableAs
    <3>2. Creates(s.table, spec)
      BY <3>1, CreateTableShape DEF Uncommitted
    <3> QED BY <2>1, <2>5, <3>1, <3>2, ProjectedAsQueried
  <2>6. CASE s.kind \notin {"create table", "create table as"}
    BY <2>1, <2>6
  <2> QED BY <2>4, <2>5, <2>6
<1> QED BY <1>1, <1>2, FrontStepSound, PTL DEF FrontSpec, ColumnsAsDeclared

=============================================================================

---------------------------- MODULE QueryBlocks ----------------------------
(***************************************************************************)
(* Nested query blocks: how the analyzer walks them, which scope each      *)
(* block gets, how a WITH clause is registered, how a set operation joins  *)
(* the columns of its branches, and which subqueries it marks correlated.  *)
(*                                                                         *)
(* An action makes a larger query of the present one and analyzes it from  *)
(* the start. `analysis` are the output columns, the codes of the          *)
(* diagnostics, and the paths of the subqueries marked. A scope is its     *)
(* relations and its CTEs, a chain of them the innermost first; the scopes *)
(* around a block are told apart by how many are outside them.             *)
(*                                                                         *)
(* Types, qualified names, SELECT * and ORDER BY of a set operation are    *)
(* left out; joins are in FromClause.                                      *)
(***************************************************************************)
EXTENDS QueryMeaning, Scope

CONSTANTS
  Lists,       \* the SELECT lists
  CteNames,
  ColumnLists, \* lists of names for the columns of a query in WITH or FROM
  Leaves,      \* SELECT blocks with one table
  ValuesLists, \* VALUES
  Databases,   \* contents for each base table: sets of rows
  MaxBlocks

VARIABLES query, blocks, analysis

vars == <<query, blocks, analysis>>

Names == DOMAIN Tables \cup CteNames

ScopeOf(relations, ctes) == [relations |-> relations, ctes |-> ctes]

RelationsOf(chain) == [k \in DOMAIN chain |-> chain[k].relations]

Outcome(columns, errors, marked) == [columns |-> columns, errors |-> errors, marked |-> marked]

-----------------------------------------------------------------------------
(* Names.                                                                   *)

(* A wrong version: the WITH clauses of the blocks around are not searched. *)
FindCteHere(chain, name) ==
  {<<k, i>> \in {1} \X (1 .. 2) : k \in DOMAIN chain /\ i \in DOMAIN chain[k].ctes
                                   /\ chain[k].ctes[i].name = name}

\* The scopes with a CTE of that name, and its place in their lists.
FindCte(chain, name) ==
  {<<k, i>> \in (DOMAIN chain) \X (1 .. 2) :
     i \in DOMAIN chain[k].ctes /\ chain[k].ctes[i].name = name}

\* The one meant: of the nearest scope, the first.
NearestCte(chain, name) ==
  LET found == FindCte(chain, name)
      at    == CHOOSE p \in found : \A r \in found : p[1] < r[1] \/ (p[1] = r[1] /\ p[2] <= r[2])
  IN chain[at[1]].ctes[at[2]].columns

\* A name in FROM is a CTE before it is a base table. An unresolved one adds no relation.
ResolveTableRef(chain, name) ==
  IF FindCte(chain, name) # {}
  THEN [relations |-> <<RelationBinding(name, NearestCte(chain, name))>>,
        errors |-> {}, marked |-> {}]
  ELSE IF name \in DOMAIN Tables
       THEN [relations |-> <<RelationBinding(name,
                               [j \in DOMAIN Tables[name] |->
                                  ResolvedColumn(Tables[name][j].name, Tables[name][j].nullable)])>>,
             errors |-> {}, marked |-> {}]
  ELSE [relations |-> <<>>, errors |-> {"UnresolvedTable"}, marked |-> {}]

(* A wrong version: only the innermost subquery is marked.                  *)
MarksInnermost(active, owner) ==
  IF active = <<>> THEN {} ELSE {a.path : a \in {a \in {Last(active)} : a.enclosing >= owner}}

\* A reference to the scope `owner` marks each active subquery that lies inside it.
Marks(active, owner) == {a.path : a \in {a \in ToSet(active) : a.enclosing >= owner}}

\* One item of a SELECT list: the column it makes, under its output name.
ItemOutcome(item, found, marks) ==
  Outcome(<<ResolvedColumn(item.as, found.nullable)>>,
          CASE found.status = "found" -> {}
            [] found.status = "missing" -> {"UnresolvedColumn"}
            [] found.status = "ambiguous" -> {"AmbiguousColumn"},
          IF found.status = "found" /\ found.scope > 1 THEN marks[found.scope] ELSE {})

ResolveItem(chain, active, item) ==
  IF item.of = NullItem THEN Outcome(<<ResolvedColumn(item.as, TRUE)>>, {}, {})
  ELSE ItemOutcome(item, ResolveBare(RelationsOf(chain), item.of),
                   [s \in DOMAIN chain |-> Marks(active, Len(chain) - s + 1)])

-----------------------------------------------------------------------------
(* Set operations and WITH.                                                 *)

IsSetop(q) == q.kind \in {"UNION", "INTERSECT", "EXCEPT"}

\* A NULL of INTERSECT is in both branches, one of EXCEPT in the left.
SetopNullable(kind, left, right) ==
  CASE kind = "UNION" -> left \/ right
    [] kind = "INTERSECT" -> left /\ right
    [] kind = "EXCEPT" -> left

\* Every table reference of that name in the syntax, whatever it means.
RECURSIVE CountTableRefs(_, _)
CountTableRefs(q, name) ==
  LET item(x) == IF x.body # <<>> THEN CountTableRefs(x.body[1], name)
                 ELSE IF x.name = name THEN 1 ELSE 0
  IN Total([i \in DOMAIN q.with |-> CountTableRefs(q.with[i].body, name)])
     + Total([i \in DOMAIN q.from |-> item(q.from[i])])
     + Total([i \in DOMAIN q.exists |-> CountTableRefs(q.exists[i], name)])
     + Total([i \in DOMAIN q.branches |-> CountTableRefs(q.branches[i], name)])

(* A wrong version: the columns stay as the anchor has them.                *)
KeepAnchor(registered, body) == registered

\* The registered columns are nullable too where the whole body is.
Widen(registered, body) ==
  [i \in DOMAIN registered |->
     [registered[i] EXCEPT !.nullable = @ \/ (i \in DOMAIN body /\ body[i].nullable)]]

RECURSIVE AnalyzeStmt(_, _, _, _)

(* A wrong version: a list that is too long is cut.                         *)
CutAliases(made, names) ==
  [made EXCEPT !.columns =
     [j \in DOMAIN @ |-> IF j \in DOMAIN names THEN [@[j] EXCEPT !.name = names[j]] ELSE @[j]]]

\* The first columns renamed; there may not be more names than columns.
ApplyColumnAliases(made, names) ==
  [made EXCEPT
     !.columns = [j \in DOMAIN @ |-> IF j \in DOMAIN names THEN [@[j] EXCEPT !.name = names[j]]
                                     ELSE @[j]],
     !.errors = @ \cup (IF Len(names) > Len(made.columns) THEN {"ColumnAliasCountMismatch"}
                        ELSE {})]

\* add_cte, with what the analysis of the definition found.
AddCte(sofar, name, made) ==
  [ctes |-> Append(sofar.ctes, [name |-> name, columns |-> made.columns]),
   errors |-> sofar.errors \cup made.errors,
   marked |-> sofar.marked \cup made.marked]

\* A recursive definition is registered with the columns of its anchor before its body is
\* analyzed. The anchor's own diagnostics are dropped, as the body repeats them.
AnalyzeRecursive(def, sofar, parent, active, path) ==
  LET scope(ctes) == <<ScopeOf(<<>>, ctes)>> \o parent
      pass   == AnalyzeStmt(def.body.branches[1], scope(sofar.ctes), active,
                            Append(path, <<"branch", 1>>))
      anchor == ApplyColumnAliases([pass EXCEPT !.errors = {}], def.names)
      body   == AnalyzeStmt(def.body, scope(AddCte(sofar, def.name, anchor).ctes), active, path)
      twice  == IF CountTableRefs(def.body.branches[2], def.name) > 1
                THEN {"RecursiveReferenceNotLinear"} ELSE {}
  IN [body EXCEPT !.columns = Widen(anchor.columns, @),
                  !.errors = @ \cup anchor.errors \cup twice,
                  !.marked = @ \cup anchor.marked]

RegisterCtes(q, parent, active, path) ==
  LET define(sofar, i) ==
        LET def == q.with[i]
            at  == Append(path, <<"with", i>>)
        IN AddCte(sofar, def.name,
                  IF q.recursive /\ IsSetop(def.body)
                  THEN AnalyzeRecursive(def, sofar, parent, active, at)
                  ELSE ApplyColumnAliases(
                         AnalyzeStmt(def.body, <<ScopeOf(<<>>, sofar.ctes)>> \o parent, active, at),
                         def.names))
  IN FoldLeft(define, [ctes |-> <<>>, errors |-> {}, marked |-> {}], [i \in DOMAIN q.with |-> i])

Together(columns, parts) ==
  Outcome(columns, UNION {part.errors : part \in parts}, UNION {part.marked : part \in parts})

\* The names are the left branch's; columns are not compared when their numbers differ.
JoinBranches(kind, with, left, right) ==
  LET same == Len(left.columns) = Len(right.columns)
      arity == Outcome(<<>>, IF same THEN {} ELSE {"SetOpArityMismatch"}, {})
  IN Together([j \in DOMAIN left.columns |->
                 [left.columns[j] EXCEPT
                    !.nullable = IF same THEN SetopNullable(kind, @, right.columns[j].nullable)
                                 ELSE @]],
              {with, left, right, arity})

AnalyzeSetop(q, parent, active, path) ==
  LET with  == RegisterCtes(q, parent, active, path)
      branch(i) == AnalyzeStmt(q.branches[i], <<ScopeOf(<<>>, with.ctes)>> \o parent, active,
                               Append(path, <<"branch", i>>))
  IN JoinBranches(q.kind, with, branch(1), branch(2))

-----------------------------------------------------------------------------
(* SELECT blocks.                                                           *)

(* A wrong version: a derived table's block is always inside the block around. *)
ParentOfAny(scope, lateral) == scope

\* The scope a derived table's block gets for parent.
ParentOf(scope, lateral) == IF lateral THEN scope ELSE Tail(scope)

AddItem(sofar, made) ==
  [relations |-> sofar.relations \o made.relations,
   errors |-> sofar.errors \cup made.errors,
   marked |-> sofar.marked \cup made.marked]

\* FROM, left to right: what each item adds to the scope.
ResolveFrom(q, parent, ctes, active, path) ==
  LET bind(item, here, at) ==
        IF item.body = <<>> THEN ResolveTableRef(here, item.name)
        ELSE LET body == ApplyColumnAliases(
                           AnalyzeStmt(item.body[1], ParentOf(here, item.lateral), active, at),
                           item.names)
             IN [relations |-> <<RelationBinding(item.name, body.columns)>>,
                 errors |-> body.errors, marked |-> body.marked]
      add(sofar, i) ==
        AddItem(sofar, bind(q.from[i], <<ScopeOf(sofar.relations, ctes)>> \o parent,
                            Append(path, <<"from", i>>)))
  IN FoldLeft(add, [relations |-> <<>>, errors |-> {}, marked |-> {}], [i \in DOMAIN q.from |-> i])

\* The subquery is active, with the scope around it, while its block is analyzed.
AnalyzeSubquery(q, scope, active, path) ==
  AnalyzeStmt(q, scope, Append(active, [path |-> path, enclosing |-> Len(scope)]), path)

\* The SELECT list and WHERE, in the scope that WITH and FROM have filled.
AnalyzeParts(q, scope, active, path, parts) ==
  LET items == [i \in DOMAIN q.list |-> ResolveItem(scope, active, q.list[i])]
      tests == {ResolveItem(scope, active, item) : item \in ToSet(q.where)}
      inner == {AnalyzeSubquery(q.exists[i], scope, active, Append(path, <<"exists", i>>)) :
                  i \in DOMAIN q.exists}
  IN Together([i \in DOMAIN items |-> items[i].columns[1]],
              parts \cup ToSet(items) \cup tests \cup inner)

AnalyzeQuery(q, parent, active, path) ==
  LET with == RegisterCtes(q, parent, active, path)
      from == ResolveFrom(q, parent, with.ctes, active, path)
  IN AnalyzeParts(q, <<ScopeOf(from.relations, with.ctes)>> \o parent, active, path, {with, from})

\* The columns are those of the first row, without names, and can be NULL.
ColumnsFromValues(rows, scope, active) ==
  LET items  == UNION {ToSet(row) : row \in ToSet(rows)}
      values == {ResolveItem(scope, active, item) : item \in items}
      width  == IF \E row \in ToSet(rows) : Len(row) # Len(rows[1])
                THEN {"ValuesRowArityMismatch"} ELSE {}
  IN Together([j \in DOMAIN rows[1] |-> ResolvedColumn(Anonymous, TRUE)],
              values \cup {Outcome(<<>>, width, {})})

AnalyzeStmt(q, parent, active, path) ==
  IF q.kind = "SELECT" THEN AnalyzeQuery(q, parent, active, path)
  ELSE IF q.kind = "VALUES"
       THEN ColumnsFromValues(q.rows, <<ScopeOf(<<>>, <<>>)>> \o parent, active)
  ELSE AnalyzeSetop(q, parent, active, path)

-----------------------------------------------------------------------------
(* Building queries. Bounds: MaxBlocks SELECT blocks and VALUES. What a     *)
(* query is joined with is a leaf. A WITH RECURSIVE clause has one          *)
(* definition. VALUES stands in WITH and FROM only, not in a set operation  *)
(* or EXISTS.                                                               *)

\* Analyzed from the root, with no scope around it.
Pose(q, more) ==
  /\ blocks + more <= MaxBlocks
  /\ query' = q
  /\ blocks' = blocks + more
  /\ analysis' = AnalyzeStmt(q, <<>>, <<>>, <<>>)

Init ==
  /\ query \in Leaves \cup ValuesLists
  /\ blocks = 1
  /\ analysis = AnalyzeStmt(query, <<>>, <<>>, <<>>)

\* FROM (query) AS s
InFrom ==
  \E names \in ColumnLists, list \in Lists :
    Pose(Select(<<Derived("s", names, FALSE, query)>>, list), 1)

\* FROM name, (query) AS s, or with LATERAL
BesideTable ==
  \E name \in Names, lateral \in BOOLEAN, names \in ColumnLists, list \in Lists :
    Pose(Select(<<TableRef(name), Derived("s", names, lateral, query)>>, list), 1)

\* WHERE EXISTS (query)
InExists ==
  /\ query.kind # "VALUES"
  /\ \E leaf \in Leaves : Pose([leaf EXCEPT !.exists = <<query>>], 1)

AsBranch ==
  /\ query.kind # "VALUES"
  /\ \E kind \in {"UNION", "INTERSECT", "EXCEPT"}, leaf \in Leaves :
       \/ Pose(SetOperation(kind, query, leaf), 1)
       \/ Pose(SetOperation(kind, leaf, query), 1)

\* WITH name AS (query) in front of a block; RECURSIVE matters for a set operation only
AsDefinition ==
  \E name \in CteNames, names \in ColumnLists, recursive \in {FALSE, IsSetop(query)},
     leaf \in Leaves :
    Pose([leaf EXCEPT !.with = <<Definition(name, names, query)>>, !.recursive = recursive], 1)

\* One more definition in the query's own WITH, in front of those it has
WithDefinition ==
  \E name \in CteNames, names \in ColumnLists, body \in Leaves \cup ValuesLists :
    /\ query.kind # "VALUES" /\ ~query.recursive /\ Len(query.with) < 2
    /\ \A i \in DOMAIN query.with : query.with[i].name # name
    /\ Pose([query EXCEPT !.with = <<Definition(name, names, body)>> \o @], 1)

Next == InFrom \/ BesideTable \/ InExists \/ AsBranch \/ AsDefinition \/ WithDefinition

Spec == Init /\ [][Next]_vars

-----------------------------------------------------------------------------
(* Properties.                                                              *)

Meaning == ShapeOf(query, <<>>)

NamesAgreeHolds ==
  "illegal" \notin Meaning.faults
    => /\ (analysis.errors = {}) <=> (Meaning.faults = {})
       /\ Meaning.faults = {} => [i \in DOMAIN analysis.columns |-> analysis.columns[i].name]
                                   = Meaning.columns

\* Some derived table names a CTE of the block it is in.
RECURSIVE UsesSiblingCte(_)
UsesSiblingCte(q) ==
  \/ \E i \in DOMAIN q.with, j \in DOMAIN q.from :
       /\ q.from[j].body # <<>> /\ ~q.from[j].lateral
       /\ References(q.from[j].body[1], q.with[i].name) > 0
  \/ \E i \in DOMAIN q.with : UsesSiblingCte(q.with[i].body)
  \/ \E j \in DOMAIN q.from : q.from[j].body # <<>> /\ UsesSiblingCte(q.from[j].body[1])
  \/ \E j \in DOMAIN q.exists : UsesSiblingCte(q.exists[j])
  \/ \E j \in DOMAIN q.branches : UsesSiblingCte(q.branches[j])

\* The analyzer reports an error in a query, of the kinds modelled, exactly when SQL has one,
\* and gives a legal query the output names SQL does: every name is looked up in the right WITH
\* clause, block or table, for every nesting of blocks (find_cte, resolve_bare, the parents that
\* analyze_query, analyze_setop, register_ctes and resolve_from_item give a scope). Nothing is
\* said of WITH RECURSIVE that is not an anchor, UNION and a term with one reference, nor where
\* a derived table names a CTE of its own block.
NamesAgree == UsesSiblingCte(query) \/ NamesAgreeHolds

\* The same of every query, as DESIGN.md says that a FROM item finds the CTEs of the scope in
\* which the WITH appears, also walking outward. A derived table's block gets scope.parent(),
\* and so misses those of the block it is in (analyzer.cpp:2424).
DerivedTablesSeeCtes == NamesAgreeHolds

Base(contents) ==
  [name \in DOMAIN Tables |->
     Relation([j \in DOMAIN Tables[name] |-> Tables[name][j].name], contents[name])]

Results(contents) == Evaluate(query, <<>>, Base(contents), <<>>)

Legal == Meaning.faults = {} /\ ~UsesSiblingCte(query)

\* A recursive term keeps each column of the query it extends in its place.
ColumnsStayInPlace ==
  \A i \in DOMAIN query.with : IsRecursive(query, i) =>
    LET def   == query.with[i]
        names == Renamed(OutputNames(def.body.branches[1].list), def.names)
        list  == def.body.branches[2].list
    IN \A j \in DOMAIN list : list[j].of \in {NullItem, names[j]}

\* An output column the analyzer proves NOT NULL has no NULL in any row the query can have,
\* through CTEs, derived tables and set operations (the widening of register_ctes, the rules of
\* analyze_setop). Nothing is said of a recursive term that moves one column to another: a NULL
\* moves with it, which a single widening does not follow.
OutputNotNullIsSound ==
  (Legal /\ ColumnsStayInPlace /\ \E j \in DOMAIN analysis.columns : ~analysis.columns[j].nullable) =>
    \A contents \in Databases : \A row \in Results(contents).rows :
      \A j \in DOMAIN row : row[j] = Null => analysis.columns[j].nullable

\* A subquery whose rows differ for two rows of the blocks around it, all CTEs it can see being
\* the same, is marked correlated, however many blocks lie between it and the block it depends
\* on: the executor may run a subquery that is not marked once (corr_stack_).
DependentIsCorrelated ==
  Legal =>
    \A contents \in Databases : \A x, y \in Results(contents).uses :
      (x.path = y.path /\ x.ctes = y.ctes /\ x.rows # y.rows) => x.path \in analysis.marked

=============================================================================

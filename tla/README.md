# DB25 Semantic Analyzer: specifications

TLA+ models of the parts of the DB25 semantic analyzer that keep state or decide what may follow what,
the TLC runs that check them on small instances, and the theorems about them that TLAPS has checked for
every instance. Source paths are relative to the repository.

## 1. The system

The library turns a parsed SQL statement into a typed, checked query, and keeps the schema it resolves
names against. It is single-threaded: an analyzer borrows a catalog read-only, a catalog manager is its
only writer, a transaction manager follows the session. What can go wrong therefore comes from long
sequences of legal calls, from a call that fails half-way, and from the file system, rather than from
threads.

| component | source | state | operations | what makes it correct |
|---|---|---|---|---|
| in-memory catalog | `include/db25/semantic/catalog.hpp` | tables with columns and constraints, indexes, two id allocators, a version | lookups, insert, remove, cascade helpers | the helpers remove exactly what refers to the thing removed |
| catalog manager | `include/db25/semantic/catalog_manager.hpp` | the current catalog, its path, watchers | CREATE / DROP TABLE, CREATE / DROP INDEX, nine ALTER TABLE forms | a committed catalog has no dangling reference and sound keys; ids are not reused; a refused call changes nothing |
| watchers | same file, `commit` | a list of callbacks | notified after each commit | versions arrive in order, one per commit |
| snapshot store | `src/catalog_snapshot.cpp`, `save_*`, `load_*` | the snapshot file and the temp file beside it | save, load | a commit is durable before it is visible; a crash leaves the old snapshot or the new one |
| snapshot format | `src/catalog_snapshot.cpp`, `serialize_*`, `deserialize_*` | none | text of a catalog, catalog of a text | loading what was saved gives the same catalog |
| transaction manager | `src/transaction.cpp` | block open or not, a stack of savepoint names | BEGIN, COMMIT, ROLLBACK, SAVEPOINT, ROLLBACK TO, RELEASE | a name means its newest savepoint; unwinding destroys exactly what came after |
| DDL front end | `src/ddl.cpp` | none of its own | `validate_ddl` on the statement alone, `execute_ddl` on the manager | what a statement declares arrives in the catalog or is refused |
| CHECK and constant evaluator | `src/check_eval.cpp` | none | folds an expression over literal values | three-valued logic: unknown is never taken for false |
| scopes and name resolution | `include/db25/semantic/scope.hpp`, `src/analyzer.cpp` | a chain of scopes, CTE maps | FROM items, joins, column references | a name resolves to one column of the innermost scope that has it; a join's nullability follows its kind |
| type and nullability inference | `src/analyzer.cpp`, `type_names.hpp` | annotations on AST nodes | one rule per expression kind | an expression marked NOT NULL never yields NULL |
| grouping and legality | `src/analyzer.cpp` | per-query flags | aggregate placement, grouped columns, grouping sets | an ungrouped column is never read above the grouping |
| DML checks | `src/analyzer.cpp` | none | INSERT / UPDATE / DELETE rules | a literal row known to violate a constraint is reported |

Calls go one way: the front end and the analyzer read the manager's catalog; the front end calls the
manager; the manager copies its catalog, changes the copy, saves it and swaps it in, then calls its
watchers. The snapshot file is the only thing that outlives the process.

The behaviours that are hard to test: sequences of DDL over tables that reference each other and
themselves; CASCADE against RESTRICT; names that are there twice; a process killed, or a system call
failing, between any two steps of a commit; a power failure; shadowed savepoints. In the analyzer: a
judgement that is recorded early and must be revised by what is read later (a join around a join, a
grouping set after the SELECT list, an arm of CASE that turns out dead), two spellings or two instances
of one column, and integers at the ends of their ranges. `PROJECT.json` lists each one under `hazards`,
at its line, with the properties that would catch it.

## 2. Modules

| module | models | kind |
|---|---|---|
| `Catalog` | `catalog.hpp` as data: lookups, cascade helpers | constant-level |
| `CatalogManager` | every operation of `CatalogManager`, one action each | state machine |
| `MCCatalogManager` | the statements its runs enumerate | TLC inputs |
| `DdlFrontend` | `validate_ddl` and `execute_ddl`, one action per statement kind, composed with `CatalogManager` | state machine |
| `MCDdlFrontend` | the SQL statements its runs execute | TLC inputs |
| `DurableCatalog` | what the manager promises of persistence, without files | abstract specification |
| `SnapshotStore` | a commit and a load, by system call, with crashes and power failures | state machine |
| `MCSnapshotStore` | which unchecked failures a run allows | TLC inputs |
| `SavepointSemantics` | savepoints as moments of a block, without a stack | abstract specification |
| `Transaction` | `TransactionManager::apply`, one action per statement kind | state machine |
| `Scope` | `scope.hpp` as data: bindings, merged columns, references, stars | constant-level |
| `JoinSemantics` | the columns and rows of joins in SQL | reference semantics |
| `FromClause` | `resolve_from` over a FROM clause, one action per item, and a derived table | state machine |
| `InferExpr` | `infer_expr`, one action per kind of node, beside the values of the node | state machine |
| `CheckExpr`, `CheckEval` | the values, trees and evaluator of `check_eval.cpp` | constant-level |
| `RowSemantics` | what an engine computes and refuses of a row | reference semantics |
| `RowChecks` | INSERT and UPDATE of a row: `analyze_insert`, `analyze_set_clause`, `check_row_against_checks` | state machine |
| `QueryExpr` | expressions of a query and the walks that look for aggregates and windows | constant-level |
| `GroupSemantics` | what has one value in a group, and when it can be computed | reference semantics |
| `Grouping` | `analyze_query` clause by clause, and `analyze_grouping` | state machine |
| `QueryMeaning` | which table and column a name means in nested blocks, and the rows of a query | reference semantics |
| `QueryBlocks` | `analyze_stmt` over nested blocks: WITH, set operations, derived tables, VALUES, EXISTS | state machine |
| `MCFromClause`, `MCInferExpr`, `MCRowChecks`, `MCGrouping`, `MCQueryBlocks` | tables, literals, statements and query parts of their runs | TLC inputs |
| `NaturalSetProofs` | least and greatest members of finite sets of naturals; functions defined by recursion over a depth, and loops | lemmas |
| `DdlFrontendProofs` | what lookups and cascade helpers do; the invariants of the catalog; what one operation may change; the same of SQL statements, and that what they declare arrives | proofs |
| `SnapshotStoreProofs`, `TransactionProofs` | crash safety and the refinement; savepoints as moments | proofs |
| `FromClauseProofs` | the scope's flags describe what a FROM clause means | proofs |
| `InferExprProofs` | nullability, folding and types of any expression; its warnings | proofs |
| `RowChecksProofs` | the evaluator against SQL; what is reported of a row and what refuses it | proofs |
| `GroupingProofs` | what the checks of grouping say of groups, subtotals and stages | proofs |

Some modules hold, before a definition, a second one whose comment begins "A wrong ...": the same
operation with a plausible mistake. With it in the place of the right one the run named in
`PROJECT.json` under `mutants` finds the property violated, which is how each property is known to
depend on the code.

### The catalog and its manager

`Catalog` holds a table as an id, a function from column id to column, and a set of constraints by
column id. Three things are abstracted. An identifier is its case-folded class, since every comparison
of the catalog goes through `iequals`. Types and expression texts are left out, as no operation reads
them. A vector of columns is a function of their ids, since ids ascend along the vector; the vector
order of constraints matters to DROP CONSTRAINT only, and `FirstNamed` keeps as much of it as that
needs.

In `CatalogManager` an operation is one step: a disjunction with a disjunct for each early return and
one for the commit, guarded by the conditions of the C++ function in its order. `Commit` either swaps
the new catalog in and bumps the version or, when the save fails, changes nothing. Inputs the front end
can produce but nobody thinks of are states of the model too: bodies that name a column or a constraint
twice, self-references, keys over no columns. `result` tells a commit, a commit under CASCADE, a no-op,
a refusal and a failed save apart.

### The DDL front end

`DdlFrontend` extends `CatalogManager`: a step validates one statement and, if it is valid, is the
manager's operation for it, as `execute_ddl` is one synchronous call. A statement is a record with what
the parser leaves of it. Column names are spellings here, because `validate_ddl` compares them exactly
where the catalog folds case; `Fold` takes one to the other. An expression is the columns it reads and
whether the analyzer's type for it is accepted in its place. The query of a CREATE TABLE AS reads one
table, whose columns and nullability are those of the catalog at that moment; what else the analyzer can
find wrong with a query is its field `clean`. `statement` records the last statement for the properties
and no guard reads it.

### The snapshot store

`SnapshotStore` takes the same commit apart. `pc` walks through open, write, flush, sync, rename and
swap; between any two, `Crash` can end the process, and `PowerLoss` leaves of the snapshot file
something the device could hold (`disk`): after a rename either entry, and any truncation of a file that
was not synced, until `WriteBack`. The calls whose results the code looks at can always fail. Those it
does not look at (`fflush`, `fsync`, the read, an `fopen` that fails for another reason than a missing
file) fail only if the constant `Faults` names them, so that each run says which failures its answer
allows. The loader accepts any sequence of whole records after the header, so a text cut short is
either rejected or read as a catalog with objects missing (`Truncations`).

`DurableCatalog` is the promise of the header comment: a change is stored in one step and shown
afterwards, and a process starts from what is stored. The refinement maps `stored` to what the snapshot
file means and `shown` to the process's memory.

### Transactions

`Transaction` keeps the stack of names. An entry carries the moment it was pushed as well, which no
guard reads: it distinguishes two savepoints of one name. `SavepointSemantics` has no stack and no
positions: marks with a name and a moment, a name means its latest mark, ROLLBACK TO keeps what is not
later and RELEASE what is earlier. The refinement forgets the positions.

### FROM clauses

`Scope` is the scope's data and `FromClause` walks a FROM clause as `resolve_from` does: an item behind a
comma, an opening and a closing parenthesis, a join with ON, USING or NATURAL. `relations` is the scope's
vector and `starts` the start of the comma group on each level of parentheses. `SelectStar` closes the
block as the body of a derived table, whose columns carry their annotations into the next block.
Beside the walk the module builds what the clause means, by `JoinSemantics`: the columns each operand
shows, and the set of its rows, a row being the set of columns that are NULL in it. The properties
compare `ResolveBare`, `ResolveQualified` and `ExpandStar` with that meaning. Types, catalog ids and
aliases are left out; a qualifier is the table's name. `legal` says that SQL allows each USING and
NATURAL written so far: nothing is claimed of a clause that is wrong. The code looks for a USING column
from the first relation of the block on, past commas and parentheses (analyzer.cpp:2583), so that a
clause in which a comma precedes a join can merge with a column outside the join; `within` excludes
those. `fresh` says that a USING column was taken from a side no join had merged or made nullable before;
section 5 says what happens otherwise.

### Types, nullability and folding

In `InferExpr` an expression is built and judged from its leaves up: `stack` holds the nodes whose parent
is still to come, an action takes operands and puts the node they make. `CASE` opens a frame in `cases`,
because its guards change how what is inside them is judged (`div0Suppress`, the dead arms). A node
carries what the code records (type, nullability, folded constants) and, in every row, its value. The
value is SQL's: it is never read by a guard. `untyped`, which nothing reads either, says that a value of
no known type (an unknown function's, an untyped parameter's) may have become the node's own: the sum of
two such values has no range, and COALESCE or CASE gives it the type of its other argument.
`TypeHoldsValues` claims nothing of such a node; a CAST ends it. `Fault` is a failure of literal arithmetic, `Abort` one
that depends on data, and a short circuit or an arm not taken drops both. Widths are `MaxInt` and
`MaxBig`, so every range end is met with small numbers. Only expressions without a type mismatch are
built, since a statement with one does not run. A guard that is not folded keeps the arms after a
constant TRUE alive only if it comes before it, as in the code; guards themselves are never suppressed
(analyzer.cpp:3282), so an unreached guard can warn. The warnings leave out `-2^63 / -1`, the negation of
-2^63, and warn of `NULL / 0`, as the code does; `FaultsAreWarned` is stated for what remains.

### CHECK constraints and rows

`CheckEval` is the evaluator: failure, NULL, truth values, integers with a width (`MaxBig`) and doubles,
counted in parts (`Unit`) so that integer and double division differ. `RowChecks` has a table, the row
it stores and a statement per step. Values are constants or opaque (a call, a parameter), whose outcome
the step chooses. The engine's side, `RowSemantics`, converts a value to its column, applies defaults and
refuses a row that has NULL in a NOT NULL column or a CHECK that is false. `sure` marks statements all of
whose stored values the analyzer could know. `INSERT ... DEFAULT VALUES` is never held against a CHECK.

A tree is a record, the set `Expr` of those in play is closed under subtrees, and `Depth` grows from a
subtree to the tree, so what recurs over trees is a function on the nodes of one: `EvalNode` and
`ValueNode` say what one node makes of its arguments' values, and `Evaluated` and `ValueIn` put that
together. The two sides share values and trees and nothing else.

The evaluator promises verdicts on values as they are written, and the engine converts. What this leaves
out is one named assumption on the constants, `ConversionAssumption`, which TLC evaluates for the run: a
constant bound to a column evaluates to the column's own kind, to NULL or to nothing (a string may stand
for a truth value that no CHECK compares or calculates with), contains no BETWEEN, and no CHECK asks
whether a BETWEEN is NULL. Section 5 has a false alarm for each of its parts. `KindOf` and `Known` say of
which statements the other direction holds: all constants are of their columns' kinds, and every CHECK
relates operands of one kind, numbers counting as one, without BETWEEN.

### Grouping

`Grouping` reads a query clause by clause in the code's order and then takes `AnalyzeGrouping`, one step
for the whole of `analyze_grouping`. Keys stand alone, in a parenthesized list or in a grouping set; a key,
an ORDER BY key and a SELECT item is an expression, a position or an alias. References have the ids,
qualifiers and names `key_matches` compares, so that two instances of one table share ids. `GroupSemantics`
says of an expression whether it has one value in a group (over every content of the columns),
whether it is made of keys, aggregates and constants, what it is in a row of subtotals, and at which
stage it can be computed. Trees and their depths are constants, `Expr` and `Depth`, and what recurs over
them is a function on the nodes of one. `UngroupedIsReported` is for queries in which no key that is an
expression has the name of a column (`KeysNamedApart`, section 5). Left out are merged columns, columns
without ids in the run's tables, the placement of GROUPING and of windows in windows, DISTINCT, LIMIT,
FILTER and references to an enclosing query. Some of these are known to differ from SQL: a column of a
derived table without an id is reported when it is spelled with its qualifier in one place and without
in another; an outer column in a grouped subquery is reported as not grouped; and the
nullability of HAVING is not revised after ROLLUP.

### Query blocks

`QueryBlocks` makes a larger query of the present one in each step and analyzes it from its root, by the
recursion of the code: `analyze_stmt`, `analyze_query`, `analyze_setop`, `register_ctes`,
`resolve_from_item`, `analyze_subquery`. A scope is a pair of relations and CTEs, `chain` the scopes from
the innermost outwards. The parent a block is given is what the properties turn on: the scope itself for
EXISTS, a branch, a CTE's body and LATERAL, the scope's parent for another derived table (`ParentOf`).
`active` is `corr_stack_`; a scope is known by its depth, as all scopes that count lie on one chain.
A recursive CTE's anchor is analyzed twice, first without its diagnostics.

`QueryMeaning` is the other side, written from SQL: the nearest WITH that defines a name, the innermost
block that has a column, the columns of a query with what is wrong in it (`ShapeOf`), its rows over some
contents of the tables, and how often each EXISTS was asked and what it found (`Evaluate`). Recursion
is by the working table. Rows are sets: UNION and UNION ALL are one. Bare names only are used; qualified
names and merged columns are in `FromClause`. Nothing is claimed of a recursion SQL forbids: the code
counts the references of the recursive term and leaves the other rules out, and its count is of names,
so an inner WITH that reuses the name is counted too.

`DependentIsCorrelated` says when a subquery must be marked. Whether one that is marked depends on
anything is not asked, as the mark is made from syntax.

## 3. Runs

| run | checks | bounds, and why they are enough |
|---|---|---|
| `schema` | `TypeOK`, `ForeignKeysResolve`, `OwnColumnsExist`, `PrimaryKeySound`, `LastColumnStays`, `IdsNeverReused`, `OthersOnlyDetached`, `KeysOutliveDependents` | two tables, two columns, one constraint name, one index, three CREATE bodies, `MaxVersion` = 5 commits. A violation of any of these needs a referenced and a referencing table and the statement that breaks them: two tables (each also referencing itself), composite and single keys, and two commits beyond the set-up |
| `frontend` | `NothingDeclaredIsLost`, `ColumnsAsDeclared` | two tables, two spellings of one column name and two other names, some forty statements of every kind in any order up to five commits. A statement loses a declaration by itself; the earlier commits provide the tables, keys and names it meets |
| `store_crash` | `MemoryIsOnDisk`, `AcknowledgedSurvive`, `PromiseKept` | two objects, three commits, any number of crashes: a commit over an empty, a present and a replaced snapshot, with a stale temp file |
| `store_power` | `TypeOK`, `NeverTorn`, `CommitReturns` | one object, two commits, misread loads and power failures: a truncation already differs from the whole with one object |
| `savepoints` | `TypeOK`, `StackInOrder`, `SavepointsMeanMoments` | two names and five savepoints in a session: a name shadowing itself with another in between, and room on both sides |
| `from_clause` | `TypeOK`, `BareNamesAgree`, `BareNotNullIsSound`, `NullableIsReal`, `QualifiedNotNullIsSound`, `StarShowsEachOnce` | three tables in all, one of them possibly the derived table of two; three names; parentheses two deep (`MaxDepth` 3). A merge, a join around it and a third operand beside or inside them need three |
| `infer_expr` | `TypeOK`, `NotNullIsSound`, `TypeHoldsValues`, `FoldedIsValue`, `FaultsAreWarned`, `DeadArmsAreSilent` | three leaves, one CASE of two arms, a NOT NULL and a nullable column, `MaxInt` = 1, `MaxBig` = 3. Every binary rule gets all pairs of operands and a unary or ternary one around them; all sums and products of the literals leave a range at either end |
| `row_checks` | `NoFalseAlarm`, `CertainViolationsAreReported` | a table of two columns, one typed five ways, with one of a dozen CHECKs; INSERT with and without column list, ON CONFLICT, DEFAULT VALUES, UPDATE, over an empty and a stored row, until a statement is refused. `MaxBig` = 3, two parts to a unit; `Expr` is every subtree of what the tables and statements contain |
| `grouping` | `UngroupedIsReported`, `OnlyUngroupedIsReported`, `SubtotalsAreNullable`, `StagesRespected` | two SELECT items, two keys, four parts in all, over one table, and a table joined to itself. A key, an item that uses it and a clause that uses either need three; an item is named like a column, so that `KeysNamedApart` decides |
| `query_blocks` | `NamesAgree`, `OutputNotNullIsSound`, `DependentIsCorrelated` | `t (a NOT NULL)`, `u (b)`, CTEs named `c` or `t`, which hides the table; three blocks, each added one a SELECT over one table with one of five lists; a list of column names; two contents. A reference out of the innermost of three blocks passes one block; a CTE, what hides it and its use are three; so are anchor, term and use of a recursion. `WHERE b IS NOT NULL` in a leaf makes an EXISTS depend on what is two blocks out |

The remaining runs, `derived_ctes` and `unchecked_flush`, show a statement of a document or a comment
violated by what the code does; section 5 describes them.

Fairness appears once. `SnapshotStore` assumes `WF_vars(Finish)`: a commit that has begun takes its next
step, because it is straight-line code; the process may still die first, and a call may fail.
`CommitReturns` needs it and nothing else does. The other modules are checked for safety. Deadlock is
checked for the catalog, the store and the sessions. The five runs of the analyzer turn it off, as a
query or an expression that has reached its bound is complete and nothing follows it.

## 4. Proofs

All theorems are for arbitrary constants: any sets of names, statements and objects, any bounds.

**Catalog manager.** `ReferencesResolve` and `OwnColumnsResolve`: no sequence of operations leaves a
foreign key whose table is gone or whose columns, in another table, are gone, nor a constraint or index
over a column its own table has lost. The inductive invariant is `IInv`: the types together with `Sound`,
which says the two properties of the tables and the indexes, and that the columns a constraint refers to
were first of their name. The last part is the one that is not obvious. DROP COLUMN looks a column up by
name, asks for dependents of that first column's id, and removes all columns of the name. With a name
there twice the second column's id would go unasked. It is safe because every lookup that makes a
reference takes the first column of the name too (`FindColumnsFirst`), and no operation makes a column
first that was not (`PutKeepsFirsts`, `DropKeepsFirsts`). No assumption that names are distinct is needed.

What one operation may change is in the second part of the module. A committed operation creates a table,
drops one or alters one (`NextShape`), and the theorems are about these shapes. `IdsAreNeverReused` follows from
allocators above every id in use that only grow; it is about tables and indexes (the id of a dropped last
column does come back). `PrimaryKeysSound` has the invariant `KeysSound`, which is of the whole table:
one primary key, and none of its columns nullable. Two theorems have a hypothesis on the bodies of CREATE
TABLE, because `create_table` does not look for repeated names and the properties are false with them
(section 5). `KeysGoLast` is for bodies that give no two constraints one name (`NamesConstraintsOnce`);
its invariant `KeyNames` says that this stays so, as ADD CONSTRAINT refuses a name in use, and that no key
is over no columns. `TablesKeepAColumn` is for bodies with at least one column and no two of one name
(`ColumnsNamed`).

**DDL front end.** In the third part `StatementsKeepReferences` and `StatementsKeepPrimaryKeys` carry that to SQL. The
manager's lemmas are stated for any well-formed argument, so what is left is that the front end makes
well-formed arguments of anything the parser can produce (`BodyIsTableSpec`, `ProjectedTyped`): in
particular one primary key at most, and a name for every computed column. They assume `FrontAssumption`,
the shape of a parsed statement. `DeclarationsArrive`: a key, a CHECK or a REFERENCES stands in the table
as it was declared, for keys that list columns, as the grammar has them (`KeysListColumns`).
`ColumnsArrive`: a created table's columns are those of its definition, for definitions no two of whose
names fold to one (`FoldsColumnsOnce`): `validate_ddl` compares spellings, so that `(a INT, A INT)` gets
through and a lookup finds the first of the two only.

**Snapshot store.** `MemoryAndDiskAgree`, `AcknowledgedIsKept` and `KeepsPromise` assume that no unchecked
call but `fsync` fails (`Faults` within `{"sync"}`; without a power failure a sync that did nothing costs
nothing) and rest on `StepByStep`, which says for each `pc` what the temp file, the snapshot file, the copy
and memory have to do with each other. A failing `fflush` cannot be allowed: the run `unchecked_flush` is
the counterexample. `SnapshotNeverTorn` assumes only that `fflush` and `fsync` do what they say, and
allows crashes, misread loads and power failures; its invariant `Whole` adds that everything the device
could hold is a whole catalog, and that the temp file is complete and synced when it is renamed.

**Transactions.** `SavepointsKeepSemantics`: the stack implements `SavepointSemantics`. The invariant is
`StackInOrder`, moments ascend along the stack. From it the topmost entry of a name is the latest
(`TopmostIsLatest`) and cutting the stack at a position is cutting it at a moment
(`TruncationByMoment`).

**FROM clauses.** All six properties of the walk are theorems, for any tables and columns, any USING lists
and any sequence of items, parentheses nested to any bound `MaxDepth` and derived tables of derived tables
included (`FromAssumption` is all that is assumed). `FromClauseTypes`, `BareNamesFollowTheClause`,
`BareNotNullIsTrue`, `ReportedNullsExist`, `QualifiedNotNullIsTrue` and `StarListsEachOnce` all follow from
one invariant, `IInv`, which relates each part of a level's meaning to the relations it was made of:

- `Shows`: the columns of the meaning have disjoint parts that together are all base columns of those
  relations; of the parts of a column exactly one is not hidden, and its copies carry the merged flag
  where they are looked up. Names and stars rest on it (`LevelsShow`; the clause is legal and no USING
  column stood in an earlier comma group).
- `Values`: what is not nullable, by the flags, is NULL in no row; what is nullable although its table has
  it NOT NULL is NULL in a row an outer join padded (`Reached`). The claims about NULL rest on it
  (`LevelsValue`; `fresh` besides). It is stronger than the properties: a later join can only keep what it
  knows of both operands, so it speaks of every relation and not of what is visible at the end.

Each operator of `JoinSemantics` keeps both (`ProductShows`, `ProductValues`, `JoinShows`, `JoinValues`),
once the scope's flags change with it; that they do is the other half: `MarkJoinEffect` for the NULL side,
`UsingMerges` and `NaturalMerges` for the loops over a column list and over all columns of the left, whose
recursive functions are taken apart step by step (`CountUp`, `LoopExists`). A derived table brings its
rows in by `DerivedValues`. The names of a NATURAL join need one more fact, that the loop over all copies
on the left, hidden ones too, merges just the names both sides show (`DoneIsNames`).

**Inference.** The theorems hold of expressions of any depth, over any columns, literals and widths; they
assume `InferAssumption`, in particular that a table has finitely many columns, so that a group has a
greatest value (`RowsFinite`, `GreatestExists`). The properties speak of the nodes on the stack, and a CASE
is made of parts that have left it, so each invariant says of an open CASE what its node will need.

- `NotNullSound` and `FoldedSound` rest on `IInv`. Of an open CASE: as long as all its results are NOT
  NULL, no row's value so far is NULL (`SoundFrame`), and its operand is itself a sound node. Of a
  node: a folded constant is the value unless the evaluation fails (`FoldHolds`), and arithmetic of literals
  is folded unless it fails (`LiteralHolds`), on which the overflow warnings rest. `Nested` keeps the
  operands of an inner CASE above those of the outer one. There is one lemma per action, and all but CASE
  and the operators that fold come down to `NodeIsSound`: a node's value is NULL only where an operand's is.
- `TypesHoldValues` rests on `Fitting`: a node that is not `untyped` has integers of its type's range only,
  and none if its type is unknown; an open CASE likewise of the results so far. What it comes down to is
  `CoercedHolds`: the common type of two compatible types holds what both hold.
- `FailuresAreWarned` and `WarningsAreMeant` rest on `Warned`, which has three parts. `Arms`: what an
  open CASE knows of its arms is so, in particular that no row is still undecided once a guard folded to
  TRUE was passed. `NoFaultUnseen`: as long as there is no warning, every node and every open CASE outside
  the dead arms is free of literal failures. `WarnedFails`: once there is a warning, some part is not
  built of literals, or lies outside the dead arms and fails in every row; when that part is used up, what
  takes it in inherits it.

**Rows.** `NoFalseAlarmHolds` and `CertainViolationsAreReportedHold` are for any tables, constraints,
defaults, statements and trees of any depth and any width of integers. They assume `TreesAssumption` and
`TablesAssumption`, the shape of parsed trees and of catalog entries, and `ConversionAssumption`.

- The library's induction theorems cannot be used with these provers, so that a recursive definition is
  taken apart by a set: the depths at which a tree without a valuation exists have a least member, and its
  arguments' valuations extend to one of it (`RecursionExists`, `DepthInduction`; `EvaluationExists`,
  `ValuationExists`, `KindingExists`).
- `NoFalseAlarmHolds` rests on `EvaluationSound`, that the two sides agree on every tree: the value the
  evaluator folds is the value of the row's expression, where it does not give up and does not answer
  NULL; NULL is right too unless there is a BETWEEN below; and a string may stand for the truth value it
  denotes. It has one lemma per operator (`CompareSound`, `ArithmeticSound`,
  `AndSound`, ...); the difficult ones are those that decide with one operand, because the other may fail
  on either side. The inductive invariant is `SafeInv`: besides the property, the stored row is a row of
  values, since an UPDATE evaluates its expressions in it. `BindingsHeld` says that what is bound to a
  column is what the row will hold there, for the first of several values and for defaults.
- `CertainViolationsAreReportedHold` rests on `EvaluationComplete`: on a tree that has a kind both sides
  have the same value or fail together, so that a CHECK the engine finds false is one the evaluator finds
  false, and on `ColumnIsKnown`, that every column of such a row is bound or reported.

**Grouping.** The four theorems are for any columns, with ids or without, any expressions of any depth and
any number of items, keys and parts. They assume `FromAssumption` (relations have names of their own, and
so have the columns of one), `QueryAssumption` and `TreesAssumption`, the shape of parsed trees: only calls
have arguments, RANK has a window, `*` stands in the SELECT list only. The walks over trees are taken apart
as those of `RowChecks` are (`TreeRecursion`, `TreeInduction`, for the check `CheckExists` and
`CasesInduction`).

The inductive invariant `Inv` says what the parts of a query and what was recorded of them have to do with
each other. `Aligned`: the output columns are the expressions the list projects, in order, with their ids
and a nullability not below theirs (`Corresponds`), and at the end those that read a key of subtotals are
nullable (`Marked`). `FirstNamed`: the first item of a name, which an alias in GROUP BY takes, is the first
output column of the name, if no column of the FROM clause has it. `Quiet` and `Finished`: as long as
nothing is reported every part is free of what inference reports, and at the end of what the last pass
reports. `SortedRight` is for the ORDER BY key what `Aligned` is for a column. From it `KeysMean`: the keys
the code compares with are those the query groups by, one for each. References are compared by `Referring`:
one that is found can mean one column only, so that equal texts, with one qualifier at most, mean one.

- `UngroupedIsReportedHolds`: rows that agree on the keys agree on what the check is silent about
  (`SilentIsOne`). What it takes for equal has one value in each row (`EqualValues`), and a reference that a
  key matches is a key (`KeyOfReference`; for columns of `*`, `KeyOfColumn`). `KeysNamedApart` is needed here
  and nowhere else.
- `OnlyUngroupedIsReportedHolds` is the other direction (`CoveredIsSilent`). It needs that columns have ids
  (`ColumnsHaveIds`): without, one column spelled in two ways is taken for two.
- `SubtotalsAreNullableHolds`: what is not nullable and reads no key of subtotals is NULL in no row of them
  (`NotNull`).
- `StagesRespectedHolds`: aggregates in aggregates are found although the check stops at a key, because no
  key contains one (`NestedIsReported`).

**Model-checked only.** `CommitReturns` is liveness under fairness. Of `QueryBlocks` everything is checked
only: its analysis and its meaning are recursive operators over blocks, scopes and environments, which the
provers do not take.

## 5. Where the code and its comments differ

Two differences have a run that ends in a counterexample.

- `unchecked_flush`: `fflush` fails on a full disk, nobody looks, and the snapshot is replaced by part of
  the new one.
- `derived_ctes`: the block of a derived table gets the parent of the scope its FROM belongs to, so that it
  does not see the other items. It does not see the WITH clause of that block either:
  `WITH c AS (SELECT a FROM t) SELECT a FROM (SELECT a FROM c) AS s` is an unresolved table.
  `NamesAgree` excepts such queries (`UsesSiblingCte`) and covers all others.

Others were met while modelling, are in the models as the code has them, and have no run of their own.

- DROP COLUMN keeps a foreign key of the table to itself that references the column.
- ADD COLUMN numbers a column max + 1, so the id of a dropped last column comes back.
- CREATE TABLE does not check that constraint names differ. DROP CONSTRAINT looks for dependents of the
  first of a name and removes all of them.
- DROP COLUMN counts columns to keep the last, and removes by name. `CREATE TABLE t (a INT, A INT)` is
  valid, since `validate_ddl` compares names exactly, and loses both.
- ADD COLUMN and SET DEFAULT type a DEFAULT in an empty scope. A column it reads is not found, so it is of
  unknown type, and unknown is assignable to everything.
- Any failure to open the snapshot is taken for a missing file, and the next commit replaces what was
  there.
- USING and NATURAL give the merged column the nullability declared for the last relation on the left
  (analyzer.cpp:2608). After `t1 LEFT JOIN t2 ON ...`, `JOIN t3 USING (x)` makes a bare `x` NOT NULL although
  the `x` it takes can be null-supplied. `BareNotNullIsSound` excepts it by `fresh`.
- A key of ROLLUP, CUBE or GROUPING SETS that is an expression or a position is skipped when what reads a
  key is marked nullable (analyzer.cpp:4184), so `SELECT a + b ... GROUP BY ROLLUP (a + b)` stays NOT NULL
  although it is NULL in the grand total. `SubtotalsAreNullable` is for keys that are columns by name.
- A key that is a position has the name of its output column as text, a key that is a call the name of its
  function, and where one side has no id `key_matches` compares texts (analyzer.cpp:3775, 4122). So
  `SELECT a + b AS b, b FROM t GROUP BY 1` is accepted although `b` varies in a group of `a + b`;
  `StarColumnGrouped` falls back alike. `UngroupedIsReported` excepts it by `KeysNamedApart`.
- The columns of a recursive CTE are made nullable once, after its body was analyzed (analyzer.cpp:1824).
  With `WITH RECURSIVE c (b, a) AS (SELECT a, a AS b FROM t UNION SELECT a, NULL AS b FROM c)` the NULL reaches
  the first column in the second round and that column stays NOT NULL. `OutputNotNullIsSound` excepts
  terms that move a column (`ColumnsStayInPlace`).
- A value is bound to a CHECK's column as it is written and not as it is stored (analyzer.cpp:1188): an
  integer given to a DOUBLE column is divided as an integer, so that `CHECK (b / 2 > 0)` is reported
  violated by `b = 1` although the stored 1.0 passes.
- `eval_between` is NULL as soon as one end is (check_eval.cpp:155), where `x BETWEEN lo AND hi` is FALSE if
  the other end excludes `x`. `CHECK ((a BETWEEN 0 AND b) IS NOT NULL)` is then reported violated by
  `a = -1, b = NULL`, which the engine takes; check_eval.hpp promises no false positives. Found while
  `EvaluationSound` was being proved: with BETWEEN below a null test it is false. Where nothing asks, NULL
  in the place of FALSE only loses a violation.
- An array constructor is NOT NULL whatever its elements are, so `x = ANY (ARRAY[NULL])` is called NOT NULL
  when `x` is; `NotNullIsSound` excepts it.

## 6. Not modelled

The parser is another project. Diagnostics, source spans and message texts carry no state. AST helpers
are accessors. Unsigned 32-bit ids and versions are natural numbers here: they wrap after 2^32 commits.
Watchers are callbacks that nothing in the repository registers outside a test. The snapshot's text
format, the types of set operations, of VALUES and of recursive terms, ORDER BY of a set operation, VALUES
as a branch of one, INSERT ... SELECT, DELETE, RETURNING, windows' frames, strings, times and intervals
are left out.

## 7. Plan

1. The types of query blocks: `coerce` over branches, VALUES rows and recursive terms.
2. `SnapshotFormat`: records, their order, what the parser trims and ignores; loading what was saved,
   over bounded catalogs, with names that have blanks.
3. Proofs about query blocks, with the analysis of a block as a function on the blocks of a query.
4. Columns without ids in the run of `Grouping`, for what is reported of them.

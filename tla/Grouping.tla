------------------------------ MODULE Grouping ------------------------------
(***************************************************************************)
(* A query block from its SELECT list to its ORDER BY: what analyze_query  *)
(* infers of each part in turn, and the legality of grouping that          *)
(* analyze_grouping decides at the end.                                    *)
(*                                                                         *)
(* An action takes one more part of the block, in the order in which the   *)
(* analyzer visits the clauses; AnalyzeGrouping is the pass over all of    *)
(* them. `output` are the columns the block projects, each with the item   *)
(* that made it or None, `sorted` the nullability recorded of each ORDER   *)
(* BY key. A part of GROUP BY says what it is wrapped in: nothing, a       *)
(* parenthesised list, or ROLLUP, CUBE or GROUPING SETS.                   *)
(*                                                                         *)
(* The FROM clause is given as its relations, without merged columns;      *)
(* `id` is the catalog's column behind one, or NoId. Types, LIMIT and      *)
(* DISTINCT are left out.                                                  *)
(***************************************************************************)
EXTENDS Scope, QueryExpr

CONSTANTS
  FromClauses,   \* sequences of relations
  Items,         \* the items of a SELECT list: [expr, alias]
  Keys,          \* the expressions in GROUP BY
  Predicates, OrderKeys,
  NoId, None, Null,
  MaxItems, MaxKeys, MaxParts

\* Relations have names of their own, and so have the columns of one.
ASSUME FromAssumption ==
  \A from \in FromClauses :
    /\ \E n \in 0 .. Len(from) : DOMAIN from = 1 .. n
    /\ \A i, j \in DOMAIN from : from[i].qualifier = from[j].qualifier => i = j
    /\ \A i \in DOMAIN from :
         LET columns == from[i].columns
         IN /\ from[i].qualifier # NoQualifier
            /\ \E n \in 0 .. Len(columns) : DOMAIN columns = 1 .. n
            /\ \A j, k \in DOMAIN columns : columns[j].name = columns[k].name => j = k
            /\ \A j \in DOMAIN columns :
                 /\ ~columns[j].coalesced /\ ~columns[j].merged
                 /\ Reference(from[i].qualifier, columns[j].name) \in Expr

ASSUME QueryAssumption ==
  /\ {item.expr : item \in Items} \cup Keys \cup Predicates \cup OrderKeys \subseteq Expr
  /\ \A e \in Keys \cup Predicates \cup OrderKeys : e.kind # "star"
  /\ None \notin Expr /\ None \notin Int /\ Null \notin Int

VARIABLES relations, clause, select, where, groupBy, having, orderBy, output, sorted, diagnostics

query == <<select, where, groupBy, having, orderBy>>
vars == <<relations, clause, query, output, sorted, diagnostics>>

Clauses == <<"SELECT", "WHERE", "GROUP BY", "HAVING", "ORDER BY", "done">>

Init ==
  /\ relations \in FromClauses
  /\ clause = 1
  /\ select = <<>> /\ where = <<>> /\ groupBy = <<>> /\ having = <<>> /\ orderBy = <<>>
  /\ output = <<>> /\ sorted = <<>> /\ diagnostics = {}

\* Bounds: the parts of a query, and none is added to one in error. The next part belongs to a
\* clause that is not past.
Parts == Len(select) + Len(where) + Len(groupBy) + Len(having) + Len(orderBy)

Reaches(name) ==
  /\ Parts < MaxParts /\ diagnostics = {}
  /\ \E c \in clause .. 5 : Clauses[c] = name /\ clause' = c

-----------------------------------------------------------------------------
(* References.                                                              *)

Resolve(e) ==
  IF e.qualifier = NoQualifier THEN ResolveBare(<<relations>>, e.name)
  ELSE ResolveQualified(<<relations>>, e.qualifier, e.name)

Unresolved(e) ==
  {Resolve(n).status : n \in {n \in Nodes[e] : n.kind = "reference"}} \ {"found"}

\* The column behind a reference the scope resolved; no other node has one.
IdOf(e) ==
  IF e.kind # "reference" \/ Resolve(e).status # "found" THEN NoId
  ELSE relations[Resolve(e).relation].columns[Resolve(e).column].id

Nullable(e) ==
  LET nullable[x \in Nodes[e]] ==
        CASE x.kind = "reference" -> Resolve(x).nullable
          [] x.kind = "call" /\ x.name \in {"GROUPING", "RANK"} -> FALSE
          [] x.kind = "subquery" \/ (x.kind = "call" /\ x.name \in Aggregates) -> TRUE
          [] OTHER -> \E i \in DOMAIN x.args : nullable[x.args[i]]
  IN nullable[e]

InferDiagnostics(e) ==
  Unresolved(e) \cup (IF WindowInAggregate(e) THEN {"WindowInAggregate"} ELSE {})

-----------------------------------------------------------------------------
(* The clauses.                                                             *)

OutputName(item) == IF item.alias # NoAlias THEN item.alias ELSE item.expr.name

OutputColumn(name, nullable, id, qualifier, source) ==
  [name |-> name, nullable |-> nullable, id |-> id, qualifier |-> qualifier, source |-> source]

StarRelations(star) ==
  {i \in DOMAIN relations : star.qualifier \in {NoQualifier, relations[i].qualifier}}

StarColumns(star) ==
  FlattenSeq([i \in DOMAIN relations |->
                IF i \in StarRelations(star)
                THEN [j \in DOMAIN relations[i].columns |-> <<i, j>>] ELSE <<>>])

Expanded(star) ==
  LET column(p) ==
        LET c == relations[p[1]].columns[p[2]]
        IN OutputColumn(c.name, QualifiedNullable(relations[p[1]], p[2]), c.id,
                        relations[p[1]].qualifier, None)
  IN [n \in DOMAIN StarColumns(star) |-> column(StarColumns(star)[n])]

SelectItem(item) ==
  /\ Reaches("SELECT") /\ Len(select) < MaxItems
  /\ select' = Append(select, item)
  /\ IF item.expr.kind = "star"
     THEN /\ output' = output \o Expanded(item.expr)
          /\ diagnostics' = diagnostics \cup
               (IF StarRelations(item.expr) = {} THEN {"bad_qualifier"} ELSE {})
     ELSE /\ output' = Append(output, OutputColumn(OutputName(item), Nullable(item.expr),
                                                   IdOf(item.expr), NoQualifier, item.expr))
          /\ diagnostics' = diagnostics \cup InferDiagnostics(item.expr)
  /\ UNCHANGED <<relations, where, groupBy, having, orderBy, sorted>>

Where(pred) ==
  /\ Reaches("WHERE") /\ where = <<>> /\ select # <<>>
  /\ where' = <<pred>>
  /\ diagnostics' = diagnostics \cup InferDiagnostics(pred)
  /\ UNCHANGED <<relations, select, groupBy, having, orderBy, output, sorted>>

\* An item a bare name in GROUP BY stands for: only if no column of the FROM clause has the name,
\* and no aggregate.
GroupKeyAliasItem(key) ==
  LET named == {i \in DOMAIN select :
                  select[i].expr.kind # "star" /\ OutputName(select[i]) = key.name}
      item  == select[LeastOf(named)].expr
  IN IF \/ key.kind # "reference" \/ key.qualifier # NoQualifier
        \/ Resolve(key).status # "missing"
        \/ named = {}
     THEN None
     ELSE IF ContainsAggregate(item) THEN None ELSE item

\* An alias is looked for outside ROLLUP, CUBE, GROUPING SETS and parentheses only.
GroupByKey(key, wrapper) ==
  /\ Reaches("GROUP BY") /\ Len(groupBy) < MaxKeys /\ select # <<>>
  /\ groupBy' = Append(groupBy, [expr |-> key, wrapper |-> wrapper])
  /\ diagnostics' = diagnostics \cup
       (IF wrapper = "none" /\ GroupKeyAliasItem(key) # None THEN {} ELSE InferDiagnostics(key))
  /\ UNCHANGED <<relations, select, where, having, orderBy, output, sorted>>

Having(pred) ==
  /\ Reaches("HAVING") /\ having = <<>> /\ select # <<>>
  /\ having' = <<pred>>
  /\ diagnostics' = diagnostics \cup InferDiagnostics(pred)
  /\ UNCHANGED <<relations, select, where, groupBy, orderBy, output, sorted>>

\* The first output column a bare name is, or None.
OutputNamed(e) ==
  LET named == {i \in DOMAIN output : output[i].name = e.name}
  IN IF e.kind = "reference" /\ e.qualifier = NoQualifier /\ named # {}
     THEN LeastOf(named) ELSE None

IsPosition(e) == e.kind = "integer" /\ e.number \in DOMAIN output

OrderItem(key) ==
  LET named == OutputNamed(key)
  IN /\ Reaches("ORDER BY") /\ orderBy = <<>> /\ select # <<>>
     /\ orderBy' = <<key>>
     /\ diagnostics' = diagnostics \cup
          (IF key.kind = "integer" THEN (IF IsPosition(key) THEN {} ELSE {"InvalidOrderByPosition"})
           ELSE IF named # None THEN {} ELSE InferDiagnostics(key))
     /\ sorted' = <<IF IsPosition(key) THEN output[key.number].nullable
                    ELSE IF named # None THEN output[named].nullable
                    ELSE key.kind = "integer" \/ Nullable(key)>>
     /\ UNCHANGED <<relations, select, where, groupBy, having, output>>

-----------------------------------------------------------------------------
(* The grouping keys. A key is the column's id, the text of the expression  *)
(* that made it, and the relation of a column that `*` made.                *)

\* `node` is the expression, or None for a column of `*`.
GroupKey(id, qualifier, name, instance, node) ==
  [id |-> id, qualifier |-> qualifier, name |-> name, instance |-> instance, node |-> node]

KeyOfNode(e) == GroupKey(IdOf(e), e.qualifier, e.name, NoQualifier, e)

(* A wrong version: the key of a position is named as the output column is. *)
KeyOfPositionByAlias(n) ==
  LET out == output[n]
  IN GroupKey(out.id, NoQualifier, out.name, out.qualifier, out.source)

\* The text of a reference, else the name of the output column.
KeyOfPosition(n) ==
  LET out == output[n]
  IN IF out.source # None /\ out.source.kind = "reference"
     THEN GroupKey(out.id, out.source.qualifier, out.source.name, out.qualifier, out.source)
     ELSE GroupKey(out.id, NoQualifier, out.name, out.qualifier, out.source)

\* The item a GROUP BY part stands for, or None for the part itself or a column of `*`.
ItemOf(key) ==
  IF key.kind = "integer" THEN (IF IsPosition(key) THEN output[key.number].source ELSE None)
  ELSE GroupKeyAliasItem(key)

(* A wrong version: an item a position or an alias stands for is not looked at. *)
IllegalKeyAsWritten(key) == IllegalGroupKey(key)

IllegalKey(key) ==
  \/ IllegalGroupKey(key)
  \/ ItemOf(key) # None /\ IllegalGroupKey(ItemOf(key))

OutOfRange(key) == key.kind = "integer" /\ ~IsPosition(key)

KeyExprs == {groupBy[i].expr : i \in DOMAIN groupBy}

KeyDiagnostics ==
  {code \in {"AggregateInGroupBy", "InvalidOrderByPosition"} :
     \E key \in KeyExprs :
       IF code = "AggregateInGroupBy" THEN IllegalKey(key)
       ELSE ~IllegalKey(key) /\ OutOfRange(key)}

GroupKeys ==
  {IF key.kind = "integer" THEN KeyOfPosition(key.number)
   ELSE KeyOfNode(IF ItemOf(key) = None THEN key ELSE ItemOf(key)) :
     key \in {key \in KeyExprs : ~IllegalKey(key) /\ ~OutOfRange(key)}}

-----------------------------------------------------------------------------
(* What a key covers.                                                       *)

(* A wrong version: two references to one table are one.                    *)
SameRelationInstanceAlways(a, b) == TRUE

SameRelationInstance(a, b) == NoQualifier \in {a, b} \/ a = b

Qualifier(k) == IF k.instance = NoQualifier THEN k.qualifier ELSE k.instance

SameColumn(id, qualifier, name, k) ==
  /\ id = k.id
  /\ SameRelationInstance(qualifier, Qualifier(k))
  /\ name = k.name

\* By ids if both sides have one, else by text.
KeyMatches(k, e) ==
  IF NoId \notin {IdOf(e), k.id} THEN SameColumn(IdOf(e), e.qualifier, e.name, k)
  ELSE e.qualifier = k.qualifier /\ e.name = k.name

\* `equal` are the nodes of the key that a node of the expression is equal to.
GroupExprEqual(e, k) ==
  LET equal[x \in Nodes[e]] ==
        {y \in Nodes[k] :
           IF {x.kind, y.kind} = {"reference"} THEN KeyMatches(KeyOfNode(y), x)
           ELSE SameNode(x, y) /\ \A i \in DOMAIN x.args : y.args[i] \in equal[x.args[i]]}
  IN k \in equal[e]

\* A node is exempt beneath an aggregate, and in an aggregate until a window begins.
CheckGroupingExpr(e, keys) ==
  LET check[c \in Nodes[e] \X BOOLEAN \X BOOLEAN] ==
        LET x == c[1]
            exempt == c[2]
            inAggregate == c[3]
            inside == IsAggregate(x) \/ (inAggregate /\ ~IsWindow(x))
            nested == IF IsAggregate(x) /\ inAggregate THEN {"NestedAggregate"} ELSE {}
        IN IF ~exempt /\ \E k \in keys : k.node # None /\ GroupExprEqual(x, k.node) THEN {}
           ELSE IF x.kind = "reference"
           THEN IF exempt \/ \E k \in keys : KeyMatches(k, x) THEN {} ELSE {"NonGroupedColumn"}
           ELSE nested \cup UNION {check[<<x.args[i], exempt \/ IsAggregate(x), inside>>] :
                                     i \in DOMAIN x.args}
  IN check[<<e, FALSE, FALSE>>]

\* A column of `*` has no tree; its text is its relation and its name.
StarColumnGrouped(p, keys) ==
  LET relation == relations[p[1]]
      c == relation.columns[p[2]]
  IN \E k \in keys :
       /\ NoId \notin {c.id, k.id} => c.id = k.id
       /\ SameRelationInstance(relation.qualifier, Qualifier(k))
       /\ c.name = k.name

CheckItem(e, keys) ==
  IF e.kind = "star"
  THEN IF \A p \in ToSet(StarColumns(e)) : StarColumnGrouped(p, keys) THEN {}
       ELSE {"NonGroupedColumn"}
  ELSE CheckGroupingExpr(e, keys)

CheckSelect(keys) == UNION {CheckItem(select[i].expr, keys) : i \in DOMAIN select}

CheckHaving(keys) == UNION {CheckItem(e, keys) : e \in ToSet(having)}

\* A position or the name of an output column is a part of what was grouped.
CheckOrderBy(keys) ==
  UNION {CheckItem(e, keys) :
           e \in {e \in ToSet(orderBy) : e.kind # "integer" /\ OutputNamed(e) = None}}

-----------------------------------------------------------------------------
(* Subtotals: the keys in ROLLUP, CUBE and GROUPING SETS are NULL in some   *)
(* rows, so that what reads them is nullable.                               *)

GroupingSetIds ==
  {IdOf(groupBy[i].expr) : i \in {i \in DOMAIN groupBy : groupBy[i].wrapper = "sets"}} \ {NoId}

\* Outside aggregates, which read the rows, and of windows and GROUPING, which are never NULL.
ExprReadsGroupingKey(e) ==
  LET reads[x \in Nodes[e]] ==
        \/ x.kind = "reference" /\ IdOf(x) \in GroupingSetIds
        \/ /\ ~IsWindow(x) /\ ~IsAggregate(x) /\ x.name # "GROUPING"
           /\ \E i \in DOMAIN x.args : reads[x.args[i]]
  IN reads[e]

ReadsGroupingKey(out) ==
  \/ out.id \in GroupingSetIds
  \/ out.source # None /\ ExprReadsGroupingKey(out.source)

Remarked(out) == [out EXCEPT !.nullable = @ \/ ReadsGroupingKey(out)]

(* A wrong version: ORDER BY keeps what was recorded before.                *)
SortedStale(outputs) == sorted

Sorted(outputs) ==
  [i \in DOMAIN sorted |->
     LET e == orderBy[i]
     IN IF IsPosition(e) THEN outputs[e.number].nullable
        ELSE IF OutputNamed(e) # None THEN outputs[OutputNamed(e)].nullable
        ELSE sorted[i] \/ ExprReadsGroupingKey(e)]

Grouped ==
  \/ groupBy # <<>> \/ having # <<>>
  \/ \E i \in DOMAIN select : ContainsAggregate(select[i].expr)
  \/ \E i \in DOMAIN orderBy : ContainsAggregate(orderBy[i])

PlacementDiagnostics ==
  {code \in {"AggregateInWhere", "WindowNotAllowed"} :
     IF code = "AggregateInWhere" THEN \E e \in ToSet(where) : ContainsAggregate(e)
     ELSE \E e \in ToSet(where) \cup ToSet(having) : ContainsWindow(e)}

GroupingDiagnostics ==
  IF Grouped
  THEN KeyDiagnostics \cup CheckSelect(GroupKeys) \cup CheckOrderBy(GroupKeys)
         \cup CheckHaving(GroupKeys)
  ELSE {"GroupingWithoutGroupBy" :
          e \in {e \in {select[i].expr : i \in DOMAIN select} \cup ToSet(orderBy) :
                   ContainsGroupingCall(e)}}

AnalyzeGrouping ==
  /\ clause < 6 /\ select # <<>>
  /\ clause' = 6
  /\ diagnostics' = diagnostics \cup PlacementDiagnostics \cup GroupingDiagnostics
  /\ output' = [i \in DOMAIN output |-> Remarked(output[i])]
  /\ sorted' = Sorted(output')
  /\ UNCHANGED <<relations, query>>

Next ==
  \/ \E item \in Items : SelectItem(item)
  \/ \E pred \in Predicates : Where(pred) \/ Having(pred)
  \/ \E key \in Keys, wrapper \in {"none", "list", "sets"} : GroupByKey(key, wrapper)
  \/ \E key \in OrderKeys : OrderItem(key)
  \/ AnalyzeGrouping

Spec == Init /\ [][Next]_vars

-----------------------------------------------------------------------------
(* Properties.                                                              *)

\* The column a reference means.
Place(e) == <<Resolve(e).relation, Resolve(e).column>>

G == INSTANCE GroupSemantics

PlaceReference(p) == Reference(relations[p[1]].qualifier, relations[p[1]].columns[p[2]].name)

\* The values of the columns; nothing is known of them but their nullability.
Rows ==
  {row \in [ToSet(Positions(relations)) -> {0, 1, Null}] :
     \A p \in DOMAIN row : row[p] = Null => QualifiedNullable(relations[p[1]], p[2])}

\* The expression of each output column.
Projection ==
  FlattenSeq([i \in DOMAIN select |->
    IF select[i].expr.kind # "star" THEN <<select[i].expr>>
    ELSE [n \in DOMAIN StarColumns(select[i].expr) |->
            PlaceReference(StarColumns(select[i].expr)[n])]])

\* What a part of GROUP BY groups by, and an ORDER BY key sorts by.
KeyMeaning(key) ==
  IF IsPosition(key) THEN Projection[key.number]
  ELSE IF key.kind = "reference" /\ Resolve(key).status = "missing" /\ OutputNamed(key) # None
  THEN Projection[OutputNamed(key)] ELSE key

SortMeaning(key) ==
  IF IsPosition(key) THEN Projection[key.number]
  ELSE IF OutputNamed(key) # None THEN Projection[OutputNamed(key)] ELSE key

KeyMeanings(parts) == {KeyMeaning(groupBy[i].expr) : i \in parts}

AllKeys == KeyMeanings(DOMAIN groupBy)

AfterGrouping == ToSet(Projection) \cup ToSet(having) \cup {SortMeaning(e) : e \in ToSet(orderBy)}

Accepted == clause = 6 /\ diagnostics = {}

\* A key that is an expression is taken for the column that has the name of its output column or
\* of its function.
KeysNamedApart ==
  \A k \in GroupKeys : k.node # None /\ k.node.kind # "reference" =>
    \A i \in DOMAIN relations : ~HasColumnNamed(relations[i], k.name)

(* A grouped query without a diagnostic has, for each of its groups, one    *)
(* value of every expression of SELECT, HAVING and ORDER BY, however keys   *)
(* and references are spelled: by name, qualified, as position or alias,    *)
(* through `*` or as part of an expression.                                 *)
UngroupedIsReported ==
  Accepted /\ Grouped /\ KeysNamedApart => \A e \in AfterGrouping : G!Determined(e, AllKeys, Rows)

\* Every column is a column of a table; one that has no id is known by its text only.
ColumnsHaveIds ==
  \A i \in DOMAIN relations : \A j \in DOMAIN relations[i].columns : relations[i].columns[j].id # NoId

(* A column is only reported as not grouped if it is not: an expression of  *)
(* the query is not made of keys, aggregates and constants.                 *)
OnlyUngroupedIsReported ==
  clause = 6 /\ ColumnsHaveIds /\ diagnostics = {"NonGroupedColumn"} =>
    \E e \in AfterGrouping : ~G!Covered(e, AllKeys)

\* The keys that may be NULL in a row of subtotals.
SetParts == {i \in DOMAIN groupBy : groupBy[i].wrapper = "sets"}

RolledUp == {KeyMeanings(parts) \ KeyMeanings(DOMAIN groupBy \ parts) : parts \in SUBSET SetParts}

NotNullHolds ==
  /\ \A i \in DOMAIN output : ~output[i].nullable =>
       \A row \in Rows, rolled \in RolledUp : G!ValueIn(Projection[i], row, rolled) # Null
  /\ \A i \in DOMAIN sorted : ~sorted[i] =>
       \A row \in Rows, rolled \in RolledUp : G!ValueIn(SortMeaning(orderBy[i]), row, rolled) # Null

(* A projected column or ORDER BY key reported NOT NULL is NULL in no row   *)
(* of groups or subtotals. In ROLLUP, CUBE and GROUPING SETS stand columns  *)
(* of catalog tables, by name.                                              *)
SubtotalsAreNullable ==
  Accepted /\ (\A i \in SetParts : IdOf(groupBy[i].expr) # NoId) => NotNullHolds

(* A query without a diagnostic asks no clause for what is computed after   *)
(* it: WHERE and GROUP BY come before groups, HAVING before windows, and    *)
(* aggregates read rows.                                                    *)
StagesRespected ==
  Accepted =>
    /\ \A e \in ToSet(where) \cup AllKeys : G!EvaluableAt(e, "rows")
    /\ \A e \in ToSet(having) : G!EvaluableAt(e, "groups")
    /\ \A e \in ToSet(Projection) \cup {SortMeaning(e) : e \in ToSet(orderBy)} :
         G!EvaluableAt(e, "windows")

=============================================================================

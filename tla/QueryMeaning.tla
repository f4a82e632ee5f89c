---------------------------- MODULE QueryMeaning ----------------------------
(***************************************************************************)
(* Queries made of query blocks, and what SQL says of them: which table    *)
(* and column each name means, and the rows the query has.                 *)
(*                                                                         *)
(* A query is a SELECT block or a set operation of two queries, either     *)
(* with a WITH clause, or VALUES. A FROM item is a name, or a query in     *)
(* parentheses, perhaps LATERAL; WHERE has an IS NOT NULL, an EXISTS, or   *)
(* both. An item of a SELECT list is a column by its bare name, or NULL,   *)
(* under an output name; so is a value of VALUES, under none. A query in   *)
(* WITH or FROM can have a list of names for its columns. A WITH RECURSIVE *)
(* clause has one definition.                                              *)
(***************************************************************************)
EXTENDS Integers, Sequences, FiniteSets, SequencesExt

CONSTANTS
  Tables,   \* the columns of each base table: its names and nullability
  Null

Block(kind, from, list, branches) ==
  [kind |-> kind, with |-> <<>>, recursive |-> FALSE, from |-> from, list |-> list,
   where |-> <<>>, exists |-> <<>>, branches |-> branches, rows |-> <<>>]

Select(from, list) == Block("SELECT", from, list, <<>>)
Where(q, item) == [q EXCEPT !.where = <<item>>]
SetOperation(kind, left, right) == Block(kind, <<>>, <<>>, <<left, right>>)

Values(rows) == [Block("VALUES", <<>>, <<>>, <<>>) EXCEPT !.rows = rows]

TableRef(name) == [name |-> name, names |-> <<>>, lateral |-> FALSE, body |-> <<>>]
Derived(alias, names, lateral, body) ==
  [name |-> alias, names |-> names, lateral |-> lateral, body |-> <<body>>]
Definition(name, names, body) == [name |-> name, names |-> names, body |-> body]

Item(of, as) == [of |-> of, as |-> as]

\* The literal NULL, in the place of a column.
NullItem == "NULL"

\* The name of a column that has none.
Anonymous == ""

Total(numbers) == FoldLeft(LAMBDA x, y : x + y, 0, numbers)

-----------------------------------------------------------------------------
(* References to a common table expression.                                 *)

RECURSIVE References(_, _), PlainReferences(_, _)

\* How often `name` occurs in a query as the table an enclosing WITH defines.
References(q, name) ==
  LET redefined == {i \in DOMAIN q.with : q.with[i].name = name}
      outside   == {i \in DOMAIN q.with :
                      \A j \in redefined : IF q.recursive THEN i < j ELSE i <= j}
      item(x)   == IF x.body # <<>> THEN References(x.body[1], name)
                   ELSE IF x.name = name THEN 1 ELSE 0
      main      == Total([i \in DOMAIN q.from |-> item(q.from[i])])
                   + Total([i \in DOMAIN q.exists |-> References(q.exists[i], name)])
                   + Total([i \in DOMAIN q.branches |-> References(q.branches[i], name)])
  IN Total([i \in DOMAIN q.with |->
              IF i \in outside THEN References(q.with[i].body, name) ELSE 0])
     + (IF redefined = {} THEN main ELSE 0)

\* Those a recursive term may have: in FROM, under no set operation but UNION.
PlainReferences(q, name) ==
  LET item(x) == IF x.body # <<>> THEN PlainReferences(x.body[1], name)
                 ELSE IF x.name = name THEN 1 ELSE 0
  IN IF q.with # <<>> THEN 0
     ELSE IF q.kind = "SELECT" THEN Total([i \in DOMAIN q.from |-> item(q.from[i])])
     ELSE IF q.kind = "UNION"
          THEN Total([i \in DOMAIN q.branches |-> PlainReferences(q.branches[i], name)])
     ELSE 0

IsRecursive(q, i) == q.recursive /\ References(q.with[i].body, q.with[i].name) > 0

\* An anchor, UNION, and a term that refers to the query once.
WellFormedRecursion(q, i) ==
  LET body == q.with[i].body
      name == q.with[i].name
  IN /\ body.kind = "UNION" /\ body.with = <<>>
     /\ References(body.branches[1], name) = 0
     /\ References(body.branches[2], name) = 1
     /\ PlainReferences(body.branches[2], name) = 1

-----------------------------------------------------------------------------
(* Environments: the blocks around a place, the innermost first, with the   *)
(* relations in scope and the common table expressions of each.             *)

Frame(bindings, ctes) == [bindings |-> bindings, ctes |-> ctes]

Relation(columns, rows) == [columns |-> columns, rows |-> rows]

\* The nearest WITH that defines a name, or the base table.
Defining(env, name) ==
  {k \in DOMAIN env : \E i \in DOMAIN env[k].ctes : env[k].ctes[i].name = name}

Nearest(S) == CHOOSE x \in S : \A y \in S : x <= y

IsTable(env, name) == Defining(env, name) # {} \/ name \in DOMAIN Tables

TableNamed(env, name, base) ==
  LET ctes == env[Nearest(Defining(env, name))].ctes
  IN IF Defining(env, name) = {} THEN base[name]
     ELSE ctes[CHOOSE i \in DOMAIN ctes : ctes[i].name = name].relation

\* Where a column's name occurs in a block: relations and positions.
Occurrences(frame, name) ==
  {<<i, j>> \in (DOMAIN frame.bindings) \X (1 .. 2) :
     j \in DOMAIN frame.bindings[i].columns /\ frame.bindings[i].columns[j] = name}

\* The blocks a name can be found in: the innermost of them is meant.
Holding(env, name) == {k \in DOMAIN env : Occurrences(env[k], name) # {}}

OutputNames(list) == [i \in DOMAIN list |-> list[i].as]

\* The columns, with the first of them renamed.
Renamed(columns, names) ==
  [j \in DOMAIN columns |-> IF j \in DOMAIN names THEN names[j] ELSE columns[j]]

-----------------------------------------------------------------------------
(* Is the query legal, and what are its columns?                            *)

ItemFaults(env, item) ==
  IF item.of = NullItem THEN {}
  ELSE IF Holding(env, item.of) = {} THEN {"unresolved"}
  ELSE IF Cardinality(Occurrences(env[Nearest(Holding(env, item.of))], item.of)) > 1
       THEN {"ambiguous"} ELSE {}

BaseShape == [name \in DOMAIN Tables |->
                Relation([j \in DOMAIN Tables[name] |-> Tables[name][j].name], {})]

Shape(columns, faults) == [columns |-> columns, faults |-> faults]

\* A list of names may be short but not long.
WithNames(shape, names) ==
  Shape(Renamed(shape.columns, names),
        shape.faults \cup (IF Len(names) > Len(shape.columns) THEN {"names"} ELSE {}))

WithFaults(shape, faults) == [shape EXCEPT !.faults = @ \cup faults]

RECURSIVE ShapeOf(_, _)

AddDefinition(sofar, name, shape) ==
  [ctes |-> Append(sofar.ctes, [name |-> name, relation |-> Relation(shape.columns, {})]),
   faults |-> sofar.faults \cup shape.faults]

\* The columns of a recursive query are its anchor's.
ShapeOfRecursive(def, sofar, env) ==
  LET anchor == WithNames(ShapeOf(def.body.branches[1], <<Frame(<<>>, sofar.ctes)>> \o env),
                          def.names)
      self   == [name |-> def.name, relation |-> Relation(anchor.columns, {})]
  IN ShapeOf(def.body, <<Frame(<<>>, Append(sofar.ctes, self))>> \o env)

\* The columns each definition of a WITH clause has, in order.
ShapesOfWith(q, env) ==
  LET define(sofar, i) ==
        AddDefinition(sofar, q.with[i].name,
          IF IsRecursive(q, i) /\ ~WellFormedRecursion(q, i) THEN Shape(<<>>, {"illegal"})
          ELSE WithNames(IF IsRecursive(q, i) THEN ShapeOfRecursive(q.with[i], sofar, env)
                         ELSE ShapeOf(q.with[i].body, <<Frame(<<>>, sofar.ctes)>> \o env),
                         q.with[i].names))
  IN FoldLeft(define, [ctes |-> <<>>, faults |-> {}], [i \in DOMAIN q.with |-> i])

\* A query in FROM sees the WITH clauses around it but, unless it is LATERAL, not the
\* other items.
ShapeOfItem(item, bindings, ctes, env) ==
  LET inside == <<Frame(IF item.lateral THEN bindings ELSE <<>>, ctes)>> \o env
  IN IF item.body # <<>> THEN WithNames(ShapeOf(item.body[1], inside), item.names)
     ELSE IF IsTable(inside, item.name)
          THEN Shape(TableNamed(inside, item.name, BaseShape).columns, {})
     ELSE Shape(<<>>, {"unresolved"})

ShapesOfFrom(q, ctes, env) ==
  LET bind(sofar, shape) == [bindings |-> Append(sofar.bindings, Relation(shape.columns, {})),
                             faults |-> sofar.faults \cup shape.faults]
  IN FoldLeft(LAMBDA sofar, item : bind(sofar, ShapeOfItem(item, sofar.bindings, ctes, env)),
              [bindings |-> <<>>, faults |-> {}], q.from)

ShapeOfSelect(q, env) ==
  Shape(OutputNames(q.list),
        UNION {ItemFaults(env, item) : item \in ToSet(q.list \o q.where)}
          \cup UNION {ShapeOf(q.exists[i], env).faults : i \in DOMAIN q.exists})

\* The rows of VALUES have one width.
ShapeOfValues(rows, env) ==
  Shape([j \in DOMAIN rows[1] |-> Anonymous],
        UNION {ItemFaults(env, item) : item \in UNION {ToSet(row) : row \in ToSet(rows)}}
          \cup (IF \E row \in ToSet(rows) : Len(row) # Len(rows[1]) THEN {"width"} ELSE {}))

ShapeOfBranches(left, right) ==
  Shape(left.columns,
        left.faults \cup right.faults
          \cup (IF Len(left.columns) = Len(right.columns) THEN {} ELSE {"arity"}))

ShapeOfBlock(q, env, with, from) ==
  WithFaults(ShapeOfSelect(q, <<Frame(from.bindings, with.ctes)>> \o env),
             with.faults \cup from.faults)

ShapeOfParts(q, env, with) ==
  LET branch(i) == ShapeOf(q.branches[i], <<Frame(<<>>, with.ctes)>> \o env)
  IN IF q.kind = "SELECT" THEN ShapeOfBlock(q, env, with, ShapesOfFrom(q, with.ctes, env))
     ELSE WithFaults(ShapeOfBranches(branch(1), branch(2)), with.faults)

ShapeOf(q, env) ==
  IF q.kind = "VALUES" THEN ShapeOfValues(q.rows, env)
  ELSE ShapeOfParts(q, env, ShapesOfWith(q, env))

-----------------------------------------------------------------------------
(* The rows of a legal query over the contents `base` of the tables, and in *)
(* `uses` what each of its subqueries had for rows, whenever it was needed, *)
(* with the common table expressions it could see. A subquery is known by   *)
(* its path in the query.                                                   *)

ValueOf(env, item) ==
  LET frame == env[Nearest(Holding(env, item.of))]
      at    == CHOOSE p \in Occurrences(frame, item.of) : TRUE
  IN IF item.of = NullItem THEN Null ELSE frame.bindings[at[1]].row[at[2]]

RECURSIVE Evaluate(_, _, _, _), Iterate(_, _, _, _, _, _)

\* An answer: a query's columns, its rows, and the uses its subqueries had.
Answered(columns, rows, uses) == [columns |-> columns, rows |-> rows, uses |-> uses]

Stored(relation) == Answered(relation.columns, relation.rows, {})

Naming(answer, names) == [answer EXCEPT !.columns = Renamed(@, names)]

With(answer, uses) == [answer EXCEPT !.uses = @ \cup uses]

\* `all` with what the recursive term makes of the rows that are new, and so on until there
\* are none.
Iterate(def, new, all, env, base, path) ==
  LET self == [name |-> def.name, relation |-> Relation(all.columns, new)]
      add(step) == Iterate(def, step.rows \ all.rows,
                           Answered(all.columns, all.rows \cup step.rows, all.uses \cup step.uses),
                           env, base, path)
  IN IF new = {} THEN all
     ELSE add(Evaluate(def.body.branches[2], <<Frame(<<>>, <<self>>)>> \o env, base,
                       Append(path, <<"branch", 2>>)))

EvaluateWith(q, env, base, path) ==
  LET start(def, anchor, here, at) == Iterate(def, anchor.rows, anchor, here, base, at)
      answer(i, here, at) ==
        IF ~IsRecursive(q, i)
        THEN Naming(Evaluate(q.with[i].body, here, base, at), q.with[i].names)
        ELSE start(q.with[i],
                   Naming(Evaluate(q.with[i].body.branches[1], here, base,
                                   Append(at, <<"branch", 1>>)),
                          q.with[i].names),
                   here, at)
      add(sofar, name, made) ==
        [ctes |-> Append(sofar.ctes, [name |-> name,
                                      relation |-> Relation(made.columns, made.rows)]),
         uses |-> sofar.uses \cup made.uses]
  IN FoldLeft(LAMBDA sofar, i : add(sofar, q.with[i].name,
                                    answer(i, <<Frame(<<>>, sofar.ctes)>> \o env,
                                           Append(path, <<"with", i>>))),
              [ctes |-> <<>>, uses |-> {}], [i \in DOMAIN q.with |-> i])

\* Each choice of a row of every FROM item, from the left to the right.
EvaluateFrom(q, ctes, env, base, path) ==
  LET answer(item, bindings, at) ==
        LET inside == <<Frame(IF item.lateral THEN bindings ELSE <<>>, ctes)>> \o env
        IN IF item.body # <<>> THEN Naming(Evaluate(item.body[1], inside, base, at), item.names)
           ELSE Stored(TableNamed(inside, item.name, base))
      extend(sofar, found) ==
        [choices |-> UNION {{Append(x.choice, [columns |-> x.answer.columns, row |-> r]) :
                               r \in x.answer.rows} : x \in found},
         uses |-> sofar.uses \cup UNION {x.answer.uses : x \in found}]
  IN FoldLeft(LAMBDA sofar, i :
                extend(sofar, {[choice |-> c,
                                answer |-> answer(q.from[i], c, Append(path, <<"from", i>>))] :
                                 c \in sofar.choices}),
              [choices |-> {<<>>}, uses |-> {}], [i \in DOMAIN q.from |-> i])

\* The rows of a block: the choices whose column in WHERE is not NULL and for which EXISTS
\* finds a row.
EvaluateSelect(q, choices, ctes, env, base, path) ==
  LET inside(c) == <<Frame(c, ctes)>> \o env
      at == Append(path, <<"exists", 1>>)
      project(kept, uses) ==
        Answered(OutputNames(q.list),
                 {[i \in DOMAIN q.list |-> ValueOf(inside(c), q.list[i])] : c \in kept}, uses)
      passing == {c \in choices : \A i \in DOMAIN q.where : ValueOf(inside(c), q.where[i]) # Null}
      visible == [k \in DOMAIN inside(<<>>) |-> inside(<<>>)[k].ctes]
      filter(asked) ==
        project({x.choice : x \in {x \in asked : x.answer.rows # {}}},
                UNION {{[path |-> at, ctes |-> visible, rows |-> x.answer.rows]} \cup x.answer.uses :
                         x \in asked})
  IN IF q.exists = <<>> THEN project(passing, {})
     ELSE filter({[choice |-> c, answer |-> Evaluate(q.exists[1], inside(c), base, at)] :
                    c \in passing})

EvaluateBranches(kind, left, right) ==
  Answered(left.columns,
           CASE kind = "UNION" -> left.rows \cup right.rows
             [] kind = "INTERSECT" -> left.rows \cap right.rows
             [] kind = "EXCEPT" -> left.rows \ right.rows,
           left.uses \cup right.uses)

Evaluate(q, env, base, path) ==
  LET with == EvaluateWith(q, env, base, path)
      select(from) == With(EvaluateSelect(q, from.choices, with.ctes, env, base, path), from.uses)
      branch(i) == Evaluate(q.branches[i], <<Frame(<<>>, with.ctes)>> \o env, base,
                            Append(path, <<"branch", i>>))
  IN With(IF q.kind = "SELECT" THEN select(EvaluateFrom(q, with.ctes, env, base, path))
          ELSE IF q.kind = "VALUES"
               THEN Answered([j \in DOMAIN q.rows[1] |-> Anonymous],
                             {[j \in DOMAIN row |-> ValueOf(env, row[j])] : row \in ToSet(q.rows)},
                             {})
          ELSE EvaluateBranches(q.kind, branch(1), branch(2)),
          with.uses)

=============================================================================

----------------------------- MODULE FromClause -----------------------------
(***************************************************************************)
(* The analyzer's walk over a FROM clause, one item at a time: resolve_from *)
(* and resolve_from_item, with the join's NULL side, USING, NATURAL and    *)
(* parenthesised groups, and SELECT * of the result as a derived table of  *)
(* a further FROM clause.                                                  *)
(*                                                                         *)
(* `relations` is the scope's list, `starts` the first relation of the     *)
(* current comma group of each open parenthesis, `diagnosed` whether a     *)
(* USING column was reported missing. `derived` is the projection of the   *)
(* last finished block. A derived table is analyzed before it is added,    *)
(* against the enclosing block's parent, so that its block is finished     *)
(* here before the FROM clause it stands in begins. ON predicates only     *)
(* read the scope, and cross joins are inner joins without one.            *)
(*                                                                         *)
(* The other variables say what the clause means and no guard reads them:  *)
(* `levels` holds, for each open parenthesis, what stands before the       *)
(* current comma group and the group itself. `legal` is FALSE once a USING *)
(* or NATURAL column is not one column of each side, `within` once a       *)
(* relation of an earlier comma group has the column too, and `fresh` once *)
(* the left side's column is merged already or an earlier outer join can   *)
(* leave it NULL.                                                          *)
(***************************************************************************)
EXTENDS Scope

J == INSTANCE JoinSemantics

CONSTANTS
  Name,          \* column names
  Table,         \* the catalog's tables and the name of the derived one
  Derived,       \* the qualifier of the derived table
  Columns,       \* the columns of a table: [Table \ {Derived} -> Seq(ResolvedColumn)]
  Using,         \* the column lists of USING clauses
  MaxTables,     \* bound on the base tables of a query
  MaxDepth       \* bound on the comma groups open at once, one and those of the parentheses

ASSUME FromAssumption ==
  /\ Derived \in Table
  /\ Columns \in [Table \ {Derived} -> Seq({ResolvedColumn(n, b) : n \in Name, b \in BOOLEAN})]
  /\ Using \subseteq Seq(Name)
  /\ MaxTables \in Nat
  /\ MaxDepth \in Nat \ {0}

VARIABLES
  relations,  \* the scope's relations
  starts,     \* the first relation of each open comma group
  diagnosed,  \* a USING column was reported missing
  derived,    \* the last finished block
  levels,     \* the meaning of what stands before each group, and of the group
  legal, within, fresh

meaningVars == <<levels, legal, within, fresh>>
vars == <<relations, starts, diagnosed, derived, meaningVars>>

Kinds == {"inner", "left", "right", "full"}

NoBlock == [columns |-> <<>>, rows |-> {}, size |-> 0]

Level == [before |-> J!NoReference, group |-> J!NoReference]

Init ==
  /\ relations = <<>> /\ starts = <<0>> /\ diagnosed = FALSE
  /\ derived = NoBlock
  /\ levels = <<Level>> /\ legal = TRUE /\ within = TRUE /\ fresh = TRUE

Top(stack) == stack[Len(stack)]

\* The base tables a relation stands for.
SizeOf(t) == IF t = Derived THEN derived.size ELSE 1

Size == FoldLeft(LAMBDA n, r : n + SizeOf(r.qualifier), 0, relations)

\* Bounds: room for the derived table is kept until it stands in the clause.
CanAdd(t) ==
  LET waiting == {u \in {Derived} \ {t} : \A i \in DOMAIN relations : relations[i].qualifier # u}
  IN /\ Size + SizeOf(t) + (IF waiting = {} THEN 0 ELSE derived.size) <= MaxTables
     /\ t = Derived => derived.size > 0

\* A TableRef, or a Subquery: the binding it adds.
Binding(t) == RelationBinding(t, IF t = Derived THEN derived.columns ELSE Columns[t])

\* What the relation it adds means, as the i-th of the block.
MeaningOf(i, t) ==
  IF t = Derived
  THEN [columns |-> J!TableReference(i, derived.columns).columns,
        rows |-> {{<<i, j>> : j \in nulls} : nulls \in derived.rows}]
  ELSE J!TableReference(i, Columns[t])

\* All comma groups of a level together.
WholeLevel(level) == J!Product(level.before, level.group)

BeginGroup(level) == [before |-> WholeLevel(level), group |-> J!NoReference]

-----------------------------------------------------------------------------
(* FROM items that begin a comma group.                                     *)

(* A wrong version: a comma item does not begin a group.                    *)
CommaItemJoined(t) ==
  /\ CanAdd(t)
  /\ relations' = Append(relations, Binding(t))
  /\ levels' = [levels EXCEPT ![Len(levels)] =
                  [BeginGroup(@) EXCEPT !.group = MeaningOf(Len(relations) + 1, t)]]
  /\ UNCHANGED <<starts, diagnosed, derived, legal, within, fresh>>

CommaItem(t) ==
  /\ CanAdd(t)
  /\ relations' = Append(relations, Binding(t))
  /\ starts' = [starts EXCEPT ![Len(starts)] = Len(relations)]
  /\ levels' = [levels EXCEPT ![Len(levels)] =
                  [BeginGroup(@) EXCEPT !.group = MeaningOf(Len(relations) + 1, t)]]
  /\ UNCHANGED <<diagnosed, derived, legal, within, fresh>>

\* A nested FromClause: a group of the enclosing level, and a level of its own.
OpenParenthesis ==
  /\ Len(starts) < MaxDepth
  /\ \E t \in Table : CanAdd(t)
  /\ starts' = Append([starts EXCEPT ![Len(starts)] = Len(relations)], Len(relations))
  /\ levels' = Append([levels EXCEPT ![Len(levels)] = BeginGroup(@)], Level)
  /\ UNCHANGED <<relations, diagnosed, derived, legal, within, fresh>>

(* A wrong version: the enclosing comma group goes on where the inner began. *)
CloseParenthesisKeepingStart ==
  /\ Len(starts) > 1
  /\ Top(levels).group # J!NoReference
  /\ levels' = [Front(levels) EXCEPT ![Len(levels) - 1].group = WholeLevel(Top(levels))]
  /\ UNCHANGED <<relations, starts, diagnosed, derived, legal, within, fresh>>

CloseParenthesis ==
  /\ Len(starts) > 1
  /\ Top(levels).group # J!NoReference
  /\ starts' = Front(starts)
  /\ levels' = [Front(levels) EXCEPT ![Len(levels) - 1].group = WholeLevel(Top(levels))]
  /\ UNCHANGED <<relations, diagnosed, derived, legal, within, fresh>>

-----------------------------------------------------------------------------
(* Joins. The right side is the relation at rightEnd; the left side is      *)
(* the current comma group, but USING and NATURAL look from the first       *)
(* relation of the block on.                                                *)

\* The relations whose columns the join makes nullable.
NullSide(kind, start, leftEnd) ==
  (IF kind \in {"right", "full"} THEN start + 1 .. leftEnd ELSE {})
    \cup (IF kind \in {"left", "full"} THEN {leftEnd + 1} ELSE {})

MergedNullable(kind, left, right) ==
  CASE kind = "full"  -> left.nullable \/ right.nullable
    [] kind = "right" -> right.nullable
    [] OTHER          -> left.nullable

Merge(rels, leftEnd, name, nullable) ==
  MarkColumnCoalesced(SetMergedColumnNullability(rels, 1 .. leftEnd, name, nullable),
                      {leftEnd + 1}, name)

ColumnNamed(relation, name) == relation.columns[FindColumnNamed(relation, name)]

\* The last relation of the left that has the column is the one USING looks at.
LeftHits(rels, leftEnd, name) == {i \in 1 .. leftEnd : HasColumnNamed(rels[i], name)}

UsingMissing(rels, leftEnd, names) ==
  \E name \in ToSet(names) :
    \/ LeftHits(rels, leftEnd, name) = {}
    \/ ~HasColumnNamed(rels[leftEnd + 1], name)

LastOf(S) == CHOOSE x \in S : \A y \in S : y <= x

MergeNamed(rels, leftEnd, kind, name) ==
  LET left  == ColumnNamed(rels[LastOf(LeftHits(rels, leftEnd, name))], name)
      right == ColumnNamed(rels[leftEnd + 1], name)
  IN IF UsingMissing(rels, leftEnd, <<name>>) THEN rels
     ELSE Merge(rels, leftEnd, name, MergedNullable(kind, left, right))

ResolveUsing(rels, leftEnd, kind, names) ==
  LET after[k \in 0 .. Len(names)] ==
        IF k = 0 THEN rels ELSE MergeNamed(after[k - 1], leftEnd, kind, names[k])
  IN after[Len(names)]

MergeAt(rels, leftEnd, kind, p) ==
  LET left  == rels[p[1]].columns[p[2]]
      right == rels[leftEnd + 1]
  IN IF ~HasColumnNamed(right, left.name) THEN rels
     ELSE Merge(rels, leftEnd, left.name,
                MergedNullable(kind, left, ColumnNamed(right, left.name)))

\* Every column of the left, hidden copies too, in order.
ResolveNatural(rels, leftEnd, kind) ==
  LET lefts == Positions(SubSeq(rels, 1, leftEnd))
      after[k \in 0 .. Len(lefts)] ==
        IF k = 0 THEN rels ELSE MergeAt(after[k - 1], leftEnd, kind, lefts[k])
  IN after[Len(lefts)]

\* `using` is the column list, or <<>> with ON; a NATURAL join has neither.
JoinItem(kind, t, natural, using) ==
  LET left    == Top(levels).group
      leftEnd == Len(relations)
      right   == MeaningOf(leftEnd + 1, t)
      names   == IF natural THEN J!CommonNames(left, right) ELSE ToSet(using)
      joined  == MarkJoinNullable(Append(relations, Binding(t)),
                                  NullSide(kind, Top(starts), leftEnd))
      looked  == ToSet(using) \cup (IF natural THEN {c.name : c \in right.columns} ELSE {})
      group   == Top(starts) + 1 .. leftEnd
      mergeable == \A n \in names : J!Mergeable(left, right, n)
  IN /\ CanAdd(t)
     /\ left # J!NoReference
     /\ natural => using = <<>>
     /\ relations' = IF natural THEN ResolveNatural(joined, leftEnd, kind)
                                ELSE ResolveUsing(joined, leftEnd, kind, using)
     /\ diagnosed' = (diagnosed \/ UsingMissing(joined, leftEnd, using))
     /\ legal' = (legal /\ mergeable)
     /\ levels' = [levels EXCEPT ![Len(levels)].group =
                     IF mergeable THEN J!Join(kind, left, right, names)
                                  ELSE J!Product(left, right)]
     /\ within' = (within /\ \A n \in looked : LeftHits(relations, leftEnd, n) \subseteq group)
     /\ fresh' = (fresh /\ \A n \in looked : \A i \in LeftHits(relations, leftEnd, n) :
                    /\ LeftHits(relations, leftEnd, n) = {i}
                    /\ ~relations[i].nullableFromJoin)
     /\ UNCHANGED <<starts, derived>>

-----------------------------------------------------------------------------
(* The end of the block.                                                    *)

Complete == Len(starts) = 1 /\ relations # <<>>

Meaning == WholeLevel(Top(levels))

\* The qualifiers of one FROM clause must differ.
DuplicateRelation ==
  \E i, j \in DOMAIN relations : i # j /\ relations[i].qualifier = relations[j].qualifier

\* SELECT *: a projected column keeps its merged flag, but is no hidden copy.
Projected(p) ==
  LET relation == relations[p[1]]
  IN [relation.columns[p[2]] EXCEPT !.nullable = BareNullable(relation, p[2]),
                                    !.coalesced = FALSE]

\* The visible column a base column belongs to.
VisibleOf(p) == {c \in Meaning.columns : p \in c.parts}

\* A query without a diagnostic goes on; bounds: it has two tables or more, and leaves room for
\* another.
SelectStar ==
  /\ Complete /\ ~diagnosed /\ ~DuplicateRelation
  /\ Size \in 2 .. MaxTables - 1
  /\ LET star == ExpandStar(relations)
         isNull(row, j) == \E c \in VisibleOf(star[j]) : J!IsNull(c, row)
     IN derived' = [columns |-> [j \in DOMAIN star |-> Projected(star[j])],
                    rows |-> {{j \in DOMAIN star : isNull(row, j)} : row \in Meaning.rows},
                    size |-> Size]
  /\ relations' = <<>> /\ starts' = <<0>> /\ diagnosed' = FALSE
  /\ levels' = <<Level>> /\ UNCHANGED <<legal, within, fresh>>

Next ==
  \/ \E t \in Table : CommaItem(t)
  \/ OpenParenthesis
  \/ CloseParenthesis
  \/ \E kind \in Kinds, t \in Table, natural \in BOOLEAN, using \in Using :
       JoinItem(kind, t, natural, using)
  \/ SelectStar

Spec == Init /\ [][Next]_vars

-----------------------------------------------------------------------------
(* Properties.                                                              *)

(* The scope's relations and the walk's bookkeeping stay in their types.    *)
TypeOK ==
  /\ \A i \in DOMAIN relations :
       /\ relations[i].qualifier \in Table
       /\ relations[i].columns \in Seq(IsResolvedColumns(Name))
       /\ relations[i].nullableFromJoin \in BOOLEAN
  /\ \A d \in DOMAIN starts : starts[d] \in 0 .. Len(relations)
  /\ Len(starts) \in 1 .. MaxDepth /\ Len(levels) = Len(starts)
  /\ diagnosed \in BOOLEAN

Clear == Complete /\ legal /\ within /\ ~DuplicateRelation

(* A bare name is found, ambiguous or unknown as the FROM clause shows it   *)
(* once, more than once or never, and what is found is a part of the column *)
(* shown; no legal USING is reported: USING, NATURAL and their hidden       *)
(* copies in resolve_bare.                                                  *)
BareNamesAgree ==
  Clear =>
    /\ ~diagnosed
    /\ \A n \in Name :
         LET shown  == J!Named(Meaning, n)
             answer == ResolveBare(<<relations>>, n)
         IN IF Cardinality(shown) = 1
            THEN /\ answer.status = "found"
                 /\ \A c \in shown : <<answer.relation, answer.column>> \in c.parts
            ELSE answer.status = (IF shown = {} THEN "missing" ELSE "ambiguous")

BareNotNullHolds ==
  \A n \in Name :
    LET answer == ResolveBare(<<relations>>, n)
    IN answer.status = "found" /\ ~answer.nullable =>
         \A c \in J!Named(Meaning, n), row \in Meaning.rows : ~J!IsNull(c, row)

(* A bare reference reported NOT NULL is NULL in no row the FROM clause can *)
(* yield, whatever joins stand inside and around: the nullability analysis  *)
(* of joins. A USING column is taken from a side that no join merged or     *)
(* nullified before.                                                        *)
BareNotNullIsSound == Clear /\ fresh => BareNotNullHolds

\* What a relation gave a base column, before any join.
Given(p) == Binding(relations[p[1]].qualifier).columns[p[2]]

(* A reference to columns that are NOT NULL in their tables is only         *)
(* reported nullable if some row has it NULL: a join nullifies its own      *)
(* operands, not what a comma put before them, and a merged column only     *)
(* from outside. Excepted are columns a derived table merged inside, which  *)
(* keep that flag and take every join of theirs for one from outside.       *)
NullableIsReal ==
  Clear /\ fresh =>
    /\ \A c \in Meaning.columns :
         LET answer == ResolveBare(<<relations>>, c.name)
         IN /\ answer.status = "found" /\ answer.nullable
            /\ \A p \in c.parts : ~Given(p).nullable /\ ~Given(p).merged
            => \E row \in Meaning.rows : J!IsNull(c, row)
    /\ \A p \in J!Parts(Meaning) :
         LET answer == ResolveQualified(<<relations>>, relations[p[1]].qualifier, Given(p).name)
         IN answer.status = "found" /\ answer.nullable /\ ~Given(p).nullable
              => \E row \in Meaning.rows : p \in row

(* A qualified reference reported NOT NULL is NULL in no row: it reads its  *)
(* own relation's copy of a merged column.                                  *)
QualifiedNotNullIsSound ==
  Clear /\ fresh =>
    \A i \in DOMAIN relations, n \in Name :
      LET answer == ResolveQualified(<<relations>>, relations[i].qualifier, n)
      IN answer.status = "found" /\ ~answer.nullable =>
           \A row \in Meaning.rows : <<answer.relation, answer.column>> \notin row

(* SELECT * shows every visible column once and no other, with a            *)
(* nullability no row contradicts: expand_star.                             *)
StarShowsEachOnce ==
  Clear =>
    LET star == ToSet(ExpandStar(relations))
    IN /\ \A c \in Meaning.columns : Cardinality(star \cap c.parts) = 1
       /\ star \subseteq J!Parts(Meaning)
       /\ \A p \in star : fresh /\ ~Projected(p).nullable =>
            \A c \in VisibleOf(p), row \in Meaning.rows : ~J!IsNull(c, row)

=============================================================================

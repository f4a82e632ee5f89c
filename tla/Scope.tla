------------------------------- MODULE Scope -------------------------------
(***************************************************************************)
(* The relations a FROM clause makes visible, and how a column reference   *)
(* finds its column among them: scope.hpp as data.                         *)
(*                                                                         *)
(* A relation binding is a qualifier (the alias, or the name without one), *)
(* a sequence of columns, and whether an outer join fills it with NULLs.   *)
(* Of a column the name, its nullability and the three flags USING and     *)
(* NATURAL set are kept; types and catalog ids are left out, as no lookup  *)
(* reads them. The name index of wide relations answers as the linear      *)
(* scan does, so it is left out too.                                       *)
(***************************************************************************)
EXTENDS Integers, Sequences, FiniteSets, SequencesExt

\* A column made visible by a relation.
ResolvedColumn(name, nullable) ==
  [name |-> name, nullable |-> nullable, coalesced |-> FALSE, merged |-> FALSE,
   nullableFromEnclosing |-> FALSE]

IsResolvedColumns(names) ==
  [name : names, nullable : BOOLEAN, coalesced : BOOLEAN, merged : BOOLEAN,
   nullableFromEnclosing : BOOLEAN]

RelationBinding(qualifier, columns) ==
  [qualifier |-> qualifier, columns |-> columns, nullableFromJoin |-> FALSE]

\* The positions of `name` in a relation, and the first of them.
PositionsOf(relation, name) ==
  {j \in DOMAIN relation.columns : relation.columns[j].name = name}

HasColumnNamed(relation, name) == PositionsOf(relation, name) # {}

FindColumnNamed(relation, name) ==
  CHOOSE j \in PositionsOf(relation, name) :
    \A other \in PositionsOf(relation, name) : j <= other

\* How often a relation exposes `name`, without the hidden copies of a merge.
CountColumn(relation, name) ==
  Cardinality({j \in PositionsOf(relation, name) : ~relation.columns[j].coalesced})

-----------------------------------------------------------------------------
(* What a join changes in the relations of a range of FROM positions.       *)

OnColumns(relations, range, Change(_)) ==
  [i \in DOMAIN relations |->
     IF i \in range
     THEN [relations[i] EXCEPT !.columns = [j \in DOMAIN @ |-> Change(@[j])]]
     ELSE relations[i]]

MarkColumnCoalesced(relations, range, name) ==
  OnColumns(relations, range,
            LAMBDA c : IF c.name = name THEN [c EXCEPT !.coalesced = TRUE] ELSE c)

(* A wrong version: the merged columns of an inner join do not notice the   *)
(* outer join around it.                                                    *)
MarkJoinNullableUnmerged(relations, range) ==
  [i \in DOMAIN relations |->
     [relations[i] EXCEPT !.nullableFromJoin = @ \/ i \in range]]

\* Columns merged before this call belong to a join inside the present one.
MarkJoinNullable(relations, range) ==
  LET marked == [i \in DOMAIN relations |->
                   [relations[i] EXCEPT !.nullableFromJoin = @ \/ i \in range]]
  IN OnColumns(marked, range,
               LAMBDA c : [c EXCEPT !.nullableFromEnclosing = @ \/ c.merged])

SetMergedColumnNullability(relations, range, name, nullable) ==
  OnColumns(relations, range,
            LAMBDA c : IF c.name = name /\ ~c.coalesced
                       THEN [c EXCEPT !.nullable = nullable, !.merged = TRUE] ELSE c)

-----------------------------------------------------------------------------
(* Column references. `chain` is the sequence of the scopes' relations, the *)
(* innermost scope first. An answer names the scope, the relation and the   *)
(* column by position.                                                      *)

Unanswered(status) ==
  [status |-> status, scope |-> 0, relation |-> 0, column |-> 0, nullable |-> TRUE]

Answer(s, i, j, nullable) ==
  [status |-> "found", scope |-> s, relation |-> i, column |-> j, nullable |-> nullable]

\* A merged column has the nullability its join computed, widened by the joins around it.
BareNullable(relation, j) ==
  LET c == relation.columns[j]
  IN c.nullable \/ (IF c.merged THEN c.nullableFromEnclosing ELSE relation.nullableFromJoin)

(* A wrong version: a qualified reference reads the merged value.            *)
QualifiedNullableMerged(relation, j) == BareNullable(relation, j)

QualifiedNullable(relation, j) == relation.columns[j].nullable \/ relation.nullableFromJoin

(* A wrong version: the hidden copy of a merged column counts.               *)
MatchesHidden(relations, name) == {i \in DOMAIN relations : HasColumnNamed(relations[i], name)}

\* The relations a bare name matches in one scope.
Matches(relations, name) ==
  {i \in DOMAIN relations :
     /\ HasColumnNamed(relations[i], name)
     /\ ~relations[i].columns[FindColumnNamed(relations[i], name)].coalesced}

LeastOf(S) == CHOOSE x \in S : \A y \in S : x <= y

\* The nearest scope that has the name decides.
ResolveBare(chain, name) ==
  LET having == {s \in DOMAIN chain : Matches(chain[s], name) # {}}
      s      == LeastOf(having)
      found  == Matches(chain[s], name)
      i      == LeastOf(found)
      j      == FindColumnNamed(chain[s][i], name)
  IN IF having = {} THEN Unanswered("missing")
     ELSE IF \/ Cardinality(found) > 1
             \/ \E r \in found : CountColumn(chain[s][r], name) > 1
          THEN Unanswered("ambiguous")
          ELSE Answer(s, i, j, BareNullable(chain[s][i], j))

\* A relation of that qualifier without the column is passed over.
ResolveQualified(chain, qualifier, name) ==
  LET addressed(s) == {i \in DOMAIN chain[s] : chain[s][i].qualifier = qualifier}
      having(s)    == {i \in addressed(s) : HasColumnNamed(chain[s][i], name)}
      scopes       == {s \in DOMAIN chain : having(s) # {}}
      s            == LeastOf(scopes)
      i            == LeastOf(having(s))
      j            == FindColumnNamed(chain[s][i], name)
  IN IF \A t \in DOMAIN chain : addressed(t) = {} THEN Unanswered("bad_qualifier")
     ELSE IF scopes = {} THEN Unanswered("missing")
     ELSE IF CountColumn(chain[s][i], name) > 1 THEN Unanswered("ambiguous")
     ELSE Answer(s, i, j, QualifiedNullable(chain[s][i], j))

-----------------------------------------------------------------------------
(* SELECT *: the columns of the block, by relation and position, without    *)
(* the hidden copies of merged columns.                                     *)

Positions(relations) ==
  FlattenSeq([i \in DOMAIN relations |->
                [j \in DOMAIN relations[i].columns |-> <<i, j>>]])

Without(positions, hidden) ==
  LET shown[k \in 0 .. Len(positions)] ==
        IF k = 0 THEN <<>>
        ELSE IF positions[k] \in hidden THEN shown[k - 1]
        ELSE Append(shown[k - 1], positions[k])
  IN shown[Len(positions)]

(* A wrong version: SELECT * shows the hidden copies and not the merged ones. *)
ExpandStarHidden(relations) ==
  LET positions == Positions(relations)
  IN Without(positions, {p \in ToSet(positions) : relations[p[1]].columns[p[2]].merged})

ExpandStar(relations) ==
  LET positions == Positions(relations)
  IN Without(positions, {p \in ToSet(positions) : relations[p[1]].columns[p[2]].coalesced})

=============================================================================

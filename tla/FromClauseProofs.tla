-------------------------- MODULE FromClauseProofs --------------------------
(***************************************************************************)
(* What the scope says of a FROM clause is what the clause means, for any  *)
(* tables, any nesting of joins, and derived tables of derived tables.     *)
(*                                                                         *)
(* The scope keeps flags on base columns, the meaning keeps the columns a  *)
(* clause shows and the rows it can have. Shows says how the flags of a    *)
(* range of relations describe the columns of a table reference, Values    *)
(* how they describe its rows. Each operator of JoinSemantics preserves    *)
(* both, against what the walk does to the scope meanwhile; the invariant  *)
(* states them of every open parenthesis, and of the derived table.        *)
(***************************************************************************)
EXTENDS FromClause, NaturalSetProofs

-----------------------------------------------------------------------------
(* The invariant.                                                           *)

Relation ==
  [qualifier : Table, columns : Seq(IsResolvedColumns(Name)), nullableFromJoin : BOOLEAN]

\* Base columns and what is written at one.
Bases(rels, range) == UNION {{<<i, j>> : j \in DOMAIN rels[i].columns} : i \in range}

At(rels, p) == rels[p[1]].columns[p[2]]

\* What the relation gave the base column, `outputs` being the derived table's columns.
GivenAt(outputs, rels, p) ==
  (IF rels[p[1]].qualifier = Derived THEN outputs ELSE Columns[rels[p[1]].qualifier])[p[2]]

Reference ==
  [columns : SUBSET [name : Name, parts : SUBSET (Nat \X Nat)],
   rows : SUBSET SUBSET (Nat \X Nat)]

\* The columns of a reference are disjoint and exhaust the base columns, each has one that is
\* not hidden, and a hidden one is the only one of its name in its relation.
Shows(ref, rels, range) ==
  /\ IsFiniteSet(ref.columns)
  /\ \A c \in ref.columns : c.parts # {}
  /\ \A c \in ref.columns : \A p \in c.parts : p \in Bases(rels, range) /\ At(rels, p).name = c.name
  /\ \A p \in Bases(rels, range) : \E c \in ref.columns : p \in c.parts
  /\ \A c1, c2 \in ref.columns : \A p \in c1.parts : p \in c2.parts => c1 = c2
  /\ \A c \in ref.columns : \E p \in c.parts : ~At(rels, p).coalesced
  /\ \A c \in ref.columns : \A p1, p2 \in c.parts :
       /\ ~At(rels, p1).coalesced /\ ~At(rels, p2).coalesced => p1 = p2
       /\ p1[1] = p2[1] => p1 = p2
       /\ p1 # p2 /\ ~At(rels, p1).coalesced => At(rels, p1).merged
  /\ \A row \in ref.rows : row \subseteq Bases(rels, range)
  /\ \A p1, p2 \in Bases(rels, range) :
       At(rels, p1).coalesced /\ p1[1] = p2[1] /\ At(rels, p1).name = At(rels, p2).name => p1 = p2

\* A row that has the set NULL, and nothing that no outer join nullifies.
Reached(ref, rels, set) ==
  \E row \in ref.rows : set \subseteq row /\ \A p \in row : rels[p[1]].nullableFromJoin

\* NOT NULL is never claimed of what a row has NULL, and nullability that was not given comes
\* from a row an outer join pads.
Values(outputs, ref, rels, range) ==
  /\ \A p \in Bases(rels, range) :
       /\ ~QualifiedNullable(rels[p[1]], p[2]) => \A row \in ref.rows : p \notin row
       /\ ~rels[p[1]].nullableFromJoin /\ ~GivenAt(outputs, rels, p).nullable
            => ~At(rels, p).nullable
  /\ \A c \in ref.columns : \A p \in c.parts : ~At(rels, p).coalesced =>
       /\ ~BareNullable(rels[p[1]], p[2]) => \A row \in ref.rows : ~(c.parts \subseteq row)
       /\ At(rels, p).nullableFromEnclosing
            => \/ \E q \in c.parts : GivenAt(outputs, rels, q).merged
               \/ Reached(ref, rels, c.parts)
       /\ At(rels, p).merged
            => \/ \E q \in c.parts : GivenAt(outputs, rels, q).merged
                                     \/ GivenAt(outputs, rels, q).nullable
               \/ ~At(rels, p).nullable
       /\ At(rels, p).merged /\ c.parts = {p} => GivenAt(outputs, rels, p).merged
  /\ {} \in ref.rows
  /\ \A i \in range : rels[i].nullableFromJoin => Reached(ref, rels, Bases(rels, {i}))

\* The relations of a level: before its comma group, and of the group.
Base(d) == IF d = 1 THEN 0 ELSE starts[d - 1]
End(d) == IF d = Len(starts) THEN Len(relations) ELSE starts[d]
Before(d) == Base(d) + 1 .. starts[d]
Group(d) == starts[d] + 1 .. End(d)

Typed ==
  /\ relations \in Seq(Relation)
  /\ starts \in Seq(Nat) /\ Len(starts) \in 1 .. MaxDepth
  /\ \A d \in DOMAIN starts :
       starts[d] <= Len(relations) /\ \A e \in DOMAIN starts : d <= e => starts[d] <= starts[e]
  /\ diagnosed \in BOOLEAN
  /\ legal \in BOOLEAN /\ within \in BOOLEAN /\ fresh \in BOOLEAN
  /\ levels \in Seq([before : Reference, group : Reference]) /\ Len(levels) = Len(starts)
  /\ derived.columns \in Seq(IsResolvedColumns(Name))
  /\ derived.rows \subseteq SUBSET DOMAIN derived.columns

\* Flags that no meaning is needed for.
Flagged ==
  /\ \A i \in DOMAIN relations : \A j \in DOMAIN relations[i].columns :
       relations[i].columns[j].nullableFromEnclosing => relations[i].columns[j].merged
  /\ \A j \in DOMAIN derived.columns :
       /\ ~derived.columns[j].coalesced
       /\ derived.columns[j].nullableFromEnclosing => derived.columns[j].merged

LevelsShow ==
  legal /\ within =>
    /\ ~diagnosed
    /\ \A d \in DOMAIN levels :
         /\ Shows(levels[d].before, relations, Before(d))
         /\ Shows(levels[d].group, relations, Group(d))

LevelsValue ==
  legal /\ within /\ fresh =>
    /\ \A d \in DOMAIN levels :
         /\ Values(derived.columns, levels[d].before, relations, Before(d))
         /\ Values(derived.columns, levels[d].group, relations, Group(d))
    /\ \A j \in DOMAIN derived.columns :
         ~derived.columns[j].nullable => \A row \in derived.rows : j \notin row
    /\ derived.size > 0 => {} \in derived.rows

\* The relations are those the tables give, up to their flags.
Bound ==
  \A i \in DOMAIN relations :
    /\ DOMAIN relations[i].columns = DOMAIN Binding(relations[i].qualifier).columns
    /\ \A j \in DOMAIN relations[i].columns : At(relations, <<i, j>>).name = Given(<<i, j>>).name

IInv == Typed /\ Flagged /\ LevelsShow /\ LevelsValue

-----------------------------------------------------------------------------
(* The positions a star or a NATURAL join goes through.                     *)

LEMMA PositionsCover ==
  ASSUME NEW rels \in Seq(Relation)
  PROVE  /\ Positions(rels) \in Seq(Nat \X Nat)
         /\ ToSet(Positions(rels)) = Bases(rels, DOMAIN rels)
<1> DEFINE row(i) == [j \in DOMAIN rels[i].columns |-> <<i, j>>]
           rows == [i \in DOMAIN rels |-> row(i)]
<1>1. ASSUME NEW i \in DOMAIN rels
      PROVE row(i) \in Seq(Nat \X Nat) /\ ToSet(row(i)) = {<<i, j>> : j \in DOMAIN rels[i].columns}
  <2>1. rels[i].columns \in Seq(IsResolvedColumns(Name)) /\ i \in Nat
    <3>1. rels[i] \in Relation /\ i \in Nat
      OBVIOUS
    <3> QED BY <3>1 DEF Relation
  <2>2. PICK m \in Nat : DOMAIN rels[i].columns = 1 .. m
    BY <2>1
  <2>3. row(i) \in Seq(Nat \X Nat)
    BY <2>1, <2>2
  <2>4. ToSet(row(i)) = {<<i, j>> : j \in DOMAIN rels[i].columns}
    BY DEF ToSet
  <2> QED BY <2>3, <2>4
<1>2. rows \in Seq(Seq(Nat \X Nat)) /\ DOMAIN rows = DOMAIN rels
  <2>1. PICK m \in Nat : DOMAIN rels = 1 .. m
    OBVIOUS
  <2> HIDE DEF row
  <2> QED BY <1>1, <2>1
<1>3. Positions(rels) = FlattenSeq(rows)
  BY DEF Positions
<1>4. /\ FlattenSeq(rows) \in Seq(Nat \X Nat)
      /\ ToSet(FlattenSeq(rows)) = UNION {ToSet(rows[i]) : i \in DOMAIN rows}
  <2> HIDE DEF rows
  <2> QED BY <1>2, FlattenCovers
<1>5. \A i \in DOMAIN rels : ToSet(rows[i]) = {<<i, j>> : j \in DOMAIN rels[i].columns}
  BY <1>1
<1> HIDE DEF rows
<1> QED BY <1>2, <1>3, <1>4, <1>5 DEF Bases

LEMMA WithoutSet ==
  ASSUME NEW S, NEW s \in Seq(S), NEW hidden
  PROVE  /\ Without(s, hidden) \in Seq(S)
         /\ ToSet(Without(s, hidden)) = ToSet(s) \ hidden
<1> DEFINE n == Len(s)
           step == [k \in 1 .. n |-> [a \in Seq(S) |->
                      IF s[k] \in hidden THEN a ELSE Append(a, s[k])]]
           Loop(h) == h = [k \in 0 .. n |-> IF k = 0 THEN <<>> ELSE
                                            IF s[k] \in hidden THEN h[k - 1]
                                            ELSE Append(h[k - 1], s[k])]
           shown == CHOOSE h : Loop(h)
<1>1. n \in Nat /\ \A k \in 1 .. n : s[k] \in S
  OBVIOUS
<1>2. PICK f : IsLoop(f, Seq(S), <<>>, n, step)
  <2>1. IsStep(step, Seq(S), n)
    BY <1>1 DEF IsStep
  <2>2. <<>> \in Seq(S)
    OBVIOUS
  <2> HIDE DEF step, n
  <2> QED BY <1>1, <2>1, <2>2, LoopExists
<1>3. Loop(f)
  <2>1. \A k \in 0 .. n : f[k] = IF k = 0 THEN <<>> ELSE
                                 IF s[k] \in hidden THEN f[k - 1] ELSE Append(f[k - 1], s[k])
    <3>1. f \in [0 .. n -> Seq(S)] /\ f[0] = <<>> /\ \A k \in 1 .. n : f[k] = step[k][f[k - 1]]
      <4> HIDE DEF step, n
      <4> QED BY <1>2 DEF IsLoop
    <3>2. ASSUME NEW k \in 1 .. n
          PROVE f[k] = IF s[k] \in hidden THEN f[k - 1] ELSE Append(f[k - 1], s[k])
      <4>1. f[k - 1] \in Seq(S) /\ f[k] = step[k][f[k - 1]]
        <5>1. k - 1 \in 0 .. n
          BY <1>1
        <5> HIDE DEF step, n
        <5> QED BY <3>1, <5>1
      <4> QED BY <4>1
    <3>3. \A k \in 0 .. n : k = 0 \/ k \in 1 .. n
      BY <1>1
    <3> HIDE DEF n, step
    <3> QED BY <3>1, <3>2, <3>3
  <2>2. f = [k \in 0 .. n |-> f[k]]
    BY <1>2 DEF IsLoop
  <2> QED BY <2>1, <2>2
<1>4. Loop(shown)
  <2> HIDE DEF Loop
  <2> QED BY <1>3
<1>5. Without(s, hidden) = shown[n]
  BY DEF Without
<1>6. \A k \in 0 .. n : shown[k] = IF k = 0 THEN <<>> ELSE
                                   IF s[k] \in hidden THEN shown[k - 1]
                                   ELSE Append(shown[k - 1], s[k])
  <2> DEFINE h == [k \in 0 .. n |-> IF k = 0 THEN <<>> ELSE
                                    IF s[k] \in hidden THEN shown[k - 1]
                                    ELSE Append(shown[k - 1], s[k])]
  <2>1. shown = h
    BY <1>4
  <2> HIDE DEF shown
  <2>2. \A k \in 0 .. n : h[k] = IF k = 0 THEN <<>> ELSE
                                 IF s[k] \in hidden THEN shown[k - 1]
                                 ELSE Append(shown[k - 1], s[k])
    OBVIOUS
  <2> HIDE DEF h
  <2> QED BY <2>1, <2>2
<1> HIDE DEF shown, Loop, step, n
<1> DEFINE Seen(i) == {s[k] : k \in 1 .. i} \ hidden
           P == {i \in 0 .. n : shown[i] \in Seq(S) /\ ToSet(shown[i]) = Seen(i)}
<1>7. 0 \in P
  <2>1. shown[0] = <<>>
    BY <1>1, <1>6
  <2>2. ToSet(<<>>) = {} /\ Seen(0) = {}
    BY DEF ToSet
  <2>3. <<>> \in Seq(S) /\ 0 \in 0 .. n
    BY <1>1
  <2> HIDE DEF Seen
  <2> QED BY <2>1, <2>2, <2>3
<1>8. ASSUME NEW i \in 1 .. n, i - 1 \in P PROVE i \in P
  <2>1. shown[i - 1] \in Seq(S) /\ ToSet(shown[i - 1]) = Seen(i - 1) /\ s[i] \in S
    BY <1>1, <1>8
  <2>2. 1 .. i = (1 .. i - 1) \cup {i}
    BY <1>1
  <2>3. CASE s[i] \in hidden
    <3>1. shown[i] = shown[i - 1]
      BY <1>1, <1>6, <2>3
    <3>2. Seen(i) = Seen(i - 1)
      BY <2>2, <2>3
    <3> QED BY <2>1, <3>1, <3>2
  <2>4. CASE s[i] \notin hidden
    <3>1. shown[i] = Append(shown[i - 1], s[i])
      <4>1. i \in 0 .. n /\ i # 0
        BY <1>1
      <4> QED BY <1>6, <4>1, <2>4
    <3>2. Seen(i) = Seen(i - 1) \cup {s[i]}
      BY <2>2, <2>4
    <3> DEFINE t == shown[i - 1]
    <3>3. t \in Seq(S) /\ DOMAIN t = 1 .. Len(t) /\ Len(t) \in Nat
      BY <2>1
    <3>4. /\ Append(t, s[i]) \in Seq(S)
          /\ DOMAIN Append(t, s[i]) = 1 .. Len(t) + 1
          /\ Append(t, s[i])[Len(t) + 1] = s[i]
          /\ \A m \in 1 .. Len(t) : Append(t, s[i])[m] = t[m]
      BY <2>1, <3>3
    <3>5. ToSet(Append(t, s[i])) = ToSet(t) \cup {s[i]}
      <4>1. 1 .. Len(t) + 1 = (1 .. Len(t)) \cup {Len(t) + 1}
        BY <3>3
      <4> QED BY <3>3, <3>4, <4>1 DEF ToSet
    <3>6. i \in 0 .. n
      BY <1>1
    <3> HIDE DEF Seen
    <3> QED BY <2>1, <3>1, <3>2, <3>4, <3>5, <3>6
  <2> QED BY <2>3, <2>4
<1>9. n \in P
  <2> HIDE DEF P
  <2>1. \A i \in 0 .. n : i \in P
    BY <1>1, <1>7, <1>8, CountUp
  <2> QED BY <1>1, <2>1
<1>10. Seen(n) = ToSet(s) \ hidden
  BY DEF ToSet, n
<1> HIDE DEF Seen
<1> QED BY <1>5, <1>9, <1>10

LEMMA StarSet ==
  ASSUME NEW rels \in Seq(Relation)
  PROVE  /\ ExpandStar(rels) \in Seq(Nat \X Nat)
         /\ ToSet(ExpandStar(rels)) =
              {p \in Bases(rels, DOMAIN rels) : ~At(rels, p).coalesced}
<1> DEFINE all == Positions(rels)
           hidden == {p \in ToSet(all) : rels[p[1]].columns[p[2]].coalesced}
<1>1. all \in Seq(Nat \X Nat) /\ ToSet(all) = Bases(rels, DOMAIN rels)
  BY PositionsCover
<1>2. ExpandStar(rels) = Without(all, hidden)
  BY DEF ExpandStar
<1>3. /\ Without(all, hidden) \in Seq(Nat \X Nat)
      /\ ToSet(Without(all, hidden)) = ToSet(all) \ hidden
  <2> HIDE DEF all, hidden
  <2> QED BY <1>1, WithoutSet
<1>4. ToSet(all) \ hidden = {p \in Bases(rels, DOMAIN rels) : ~At(rels, p).coalesced}
  BY <1>1 DEF At
<1> HIDE DEF all, hidden
<1> QED BY <1>2, <1>3, <1>4

-----------------------------------------------------------------------------
(* What merging a set of names does to each column.                         *)

IsSeqOfRelations(rels, n) == rels \in Seq(Relation) /\ Len(rels) = n

\* Columns and relations keep what no join changes.
SameColumns(old, new) ==
  /\ Len(new) = Len(old)
  /\ \A i \in DOMAIN old :
       /\ new[i].qualifier = old[i].qualifier
       /\ DOMAIN new[i].columns = DOMAIN old[i].columns
       /\ \A j \in DOMAIN old[i].columns : new[i].columns[j].name = old[i].columns[j].name

LoneLeft(rels, n, i, j) ==
  \A i2 \in 1 .. n : \A j2 \in DOMAIN rels[i2].columns :
    rels[i2].columns[j2].name = rels[i].columns[j].name => i2 = i /\ j2 = j

Merging(old, new, n, kind, done) ==
  /\ new \in Seq(Relation)
  /\ SameColumns(old, new)
  /\ \A i \in DOMAIN old :
       /\ new[i].nullableFromJoin = old[i].nullableFromJoin
       /\ \A j \in DOMAIN old[i].columns :
            LET was == old[i].columns[j]
                is  == new[i].columns[j]
            IN /\ is.nullableFromEnclosing = was.nullableFromEnclosing
               /\ is.coalesced <=> (was.coalesced \/ (i = n + 1 /\ was.name \in done))
               /\ is.merged <=> (was.merged \/ (i <= n /\ was.name \in done /\ ~was.coalesced))
               /\ (i = n + 1 \/ was.name \notin done \/ was.coalesced)
                    => is.nullable = was.nullable
               /\ (i <= n /\ was.name \in done /\ ~was.coalesced /\ LoneLeft(old, n, i, j))
                    => is.nullable = MergedNullable(kind, was, ColumnNamed(old[n + 1], was.name))

\* What each of the changes to the scope does, place by place.
Overwritten(rels, new, range, name, b) ==
  \A i \in DOMAIN rels :
    /\ new[i].nullableFromJoin = rels[i].nullableFromJoin
    /\ \A j \in DOMAIN rels[i].columns :
         new[i].columns[j] =
           LET c == rels[i].columns[j]
           IN IF i \in range /\ c.name = name /\ ~c.coalesced
              THEN [c EXCEPT !.nullable = b, !.merged = TRUE] ELSE c

Hidden(rels, new, range, name) ==
  \A i \in DOMAIN rels :
    /\ new[i].nullableFromJoin = rels[i].nullableFromJoin
    /\ \A j \in DOMAIN rels[i].columns :
         new[i].columns[j] =
           LET c == rels[i].columns[j]
           IN IF i \in range /\ c.name = name
              THEN [c EXCEPT !.coalesced = TRUE] ELSE c

Widened(rels, new, range) ==
  \A i \in DOMAIN rels :
    /\ new[i].nullableFromJoin <=> (rels[i].nullableFromJoin \/ i \in range)
    /\ \A j \in DOMAIN rels[i].columns :
         new[i].columns[j] =
           IF i \in range
           THEN [rels[i].columns[j] EXCEPT !.nullableFromEnclosing =
                   rels[i].columns[j].nullableFromEnclosing \/ rels[i].columns[j].merged]
           ELSE rels[i].columns[j]

MergedBy(rels, new, n, name, b) ==
  \A i \in DOMAIN rels :
    /\ new[i].nullableFromJoin = rels[i].nullableFromJoin
    /\ \A j \in DOMAIN rels[i].columns :
         LET was  == rels[i].columns[j]
             is   == new[i].columns[j]
             kept == i <= n /\ was.name = name /\ ~was.coalesced
         IN /\ is.nullableFromEnclosing = was.nullableFromEnclosing
            /\ is.coalesced <=> (was.coalesced \/ (i = n + 1 /\ was.name = name))
            /\ is.merged <=> (was.merged \/ kept)
            /\ is.nullable = IF kept THEN b ELSE was.nullable

LEMMA ColumnsTyped ==
  ASSUME NEW rels \in Seq(Relation), NEW i \in DOMAIN rels
  PROVE  /\ rels[i] \in Relation /\ i \in 1 .. Len(rels) /\ i \in Nat
         /\ rels[i].columns \in Seq(IsResolvedColumns(Name))
         /\ DOMAIN rels[i].columns = 1 .. Len(rels[i].columns)
         /\ Len(rels[i].columns) \in Nat
         /\ rels[i].qualifier \in Table /\ rels[i].nullableFromJoin \in BOOLEAN
         /\ \A j \in DOMAIN rels[i].columns :
              rels[i].columns[j] \in IsResolvedColumns(Name) /\ j \in Nat
<1>1. rels[i] \in Relation /\ i \in 1 .. Len(rels) /\ i \in Nat
  OBVIOUS
<1>2. rels[i].columns \in Seq(IsResolvedColumns(Name)) /\ rels[i].qualifier \in Table
      /\ rels[i].nullableFromJoin \in BOOLEAN
  BY <1>1 DEF Relation
<1> QED BY <1>1, <1>2

IsFunctionOn(f, S) == f = [x \in S |-> f[x]]

LEMMA SeqByPlace ==
  ASSUME NEW S, NEW n \in Nat, NEW f, IsFunctionOn(f, 1 .. n), \A j \in 1 .. n : f[j] \in S
  PROVE  f \in Seq(S) /\ Len(f) = n /\ DOMAIN f = 1 .. n
<1>1. f \in [1 .. n -> S]
  BY DEF IsFunctionOn
<1> QED BY <1>1

\* A list of relations with other columns and other joins, place by place.
LEMMA RelationsByPlace ==
  ASSUME NEW rels \in Seq(Relation), NEW new,
         IsFunctionOn(new, DOMAIN rels),
         \A i \in DOMAIN rels :
           /\ new[i] = [qualifier |-> rels[i].qualifier, columns |-> new[i].columns,
                        nullableFromJoin |-> new[i].nullableFromJoin]
           /\ new[i].nullableFromJoin \in BOOLEAN
           /\ IsFunctionOn(new[i].columns, DOMAIN rels[i].columns)
           /\ \A j \in DOMAIN rels[i].columns : new[i].columns[j] \in IsResolvedColumns(Name)
  PROVE  new \in Seq(Relation) /\ Len(new) = Len(rels) /\ DOMAIN new = DOMAIN rels
<1>1. ASSUME NEW i \in DOMAIN rels PROVE new[i] \in Relation
  <2> DEFINE cols == new[i].columns
           C == IsResolvedColumns(Name)
  <2>1. PICK m \in Nat : DOMAIN rels[i].columns = 1 .. m
    BY ColumnsTyped
  <2>2. IsFunctionOn(cols, DOMAIN rels[i].columns)
        /\ \A j \in DOMAIN rels[i].columns : cols[j] \in C
    OBVIOUS
  <2>3. rels[i].qualifier \in Table
    BY ColumnsTyped
  <2>4. new[i] = [qualifier |-> rels[i].qualifier, columns |-> cols,
                  nullableFromJoin |-> new[i].nullableFromJoin]
        /\ new[i].nullableFromJoin \in BOOLEAN
    OBVIOUS
  <2> HIDE DEF cols, C
  <2>5. IsFunctionOn(cols, 1 .. m) /\ \A j \in 1 .. m : cols[j] \in C
    BY <2>1, <2>2
  <2>6. cols \in Seq(C)
    BY <2>5, SeqByPlace
  <2> QED BY <2>3, <2>4, <2>6 DEF Relation, C
<1>2. DOMAIN rels = 1 .. Len(rels) /\ Len(rels) \in Nat
  OBVIOUS
<1> QED BY <1>1, <1>2, SeqByPlace

LEMMA SetMergedEffect ==
  ASSUME NEW rels \in Seq(Relation), NEW range, NEW name, NEW b \in BOOLEAN, NEW new,
         new = SetMergedColumnNullability(rels, range, name, b)
  PROVE  /\ new \in Seq(Relation) /\ SameColumns(rels, new)
         /\ Overwritten(rels, new, range, name, b)
<1> DEFINE changed(i, j) == LET c == rels[i].columns[j]
                            IN IF i \in range /\ c.name = name /\ ~c.coalesced
                               THEN [c EXCEPT !.nullable = b, !.merged = TRUE] ELSE c
<1>1. new = [i \in DOMAIN rels |->
               IF i \in range
               THEN [rels[i] EXCEPT !.columns =
                       [j \in DOMAIN @ |->
                          IF @[j].name = name /\ ~@[j].coalesced
                          THEN [@[j] EXCEPT !.nullable = b, !.merged = TRUE] ELSE @[j]]]
               ELSE rels[i]]
  BY DEF SetMergedColumnNullability, OnColumns
<1>2. ASSUME NEW i \in DOMAIN rels
      PROVE /\ new[i].qualifier = rels[i].qualifier
            /\ new[i].nullableFromJoin = rels[i].nullableFromJoin
            /\ new[i].nullableFromJoin \in BOOLEAN
            /\ new[i] = [qualifier |-> rels[i].qualifier, columns |-> new[i].columns,
                         nullableFromJoin |-> new[i].nullableFromJoin]
            /\ IsFunctionOn(new[i].columns, DOMAIN rels[i].columns)
            /\ \A j \in DOMAIN rels[i].columns :
                 new[i].columns[j] = changed(i, j) /\ new[i].columns[j] \in IsResolvedColumns(Name)
  <2>1. rels[i] \in Relation /\ rels[i].columns \in Seq(IsResolvedColumns(Name))
        /\ \A j \in DOMAIN rels[i].columns : rels[i].columns[j] \in IsResolvedColumns(Name)
    BY ColumnsTyped
  <2>2. rels[i] = [qualifier |-> rels[i].qualifier, columns |-> rels[i].columns,
                   nullableFromJoin |-> rels[i].nullableFromJoin]
        /\ rels[i].nullableFromJoin \in BOOLEAN
    BY <2>1 DEF Relation
  <2>3. IsFunctionOn(rels[i].columns, DOMAIN rels[i].columns)
    BY <2>1 DEF IsFunctionOn
  <2>4. CASE i \notin range
    <3>1. new[i] = rels[i]
      BY <1>1, <2>4
    <3> QED BY <3>1, <2>1, <2>2, <2>3, <2>4
  <2>5. CASE i \in range
    <3> DEFINE cols == [j \in DOMAIN rels[i].columns |->
                          IF rels[i].columns[j].name = name /\ ~rels[i].columns[j].coalesced
                          THEN [rels[i].columns[j] EXCEPT !.nullable = b, !.merged = TRUE]
                          ELSE rels[i].columns[j]]
    <3>1. new[i] = [rels[i] EXCEPT !.columns = cols]
      BY <1>1, <2>5
    <3>2. \A j \in DOMAIN rels[i].columns :
            cols[j] = changed(i, j) /\ cols[j] \in IsResolvedColumns(Name)
      BY <2>1, <2>5 DEF IsResolvedColumns
    <3>3. IsFunctionOn(cols, DOMAIN rels[i].columns)
      BY DEF IsFunctionOn
    <3> HIDE DEF cols, changed
    <3>4. new[i] = [qualifier |-> rels[i].qualifier, columns |-> cols,
                    nullableFromJoin |-> rels[i].nullableFromJoin]
      BY <2>2, <3>1
    <3> QED BY <2>2, <3>2, <3>3, <3>4
  <2> QED BY <2>4, <2>5
<1>3. IsFunctionOn(new, DOMAIN rels)
  BY <1>1 DEF IsFunctionOn
<1>4. new \in Seq(Relation) /\ Len(new) = Len(rels)
  <2> HIDE DEF changed
  <2> QED BY <1>2, <1>3, RelationsByPlace
<1>5. SameColumns(rels, new)
  <2>1. ASSUME NEW i \in DOMAIN rels PROVE DOMAIN new[i].columns = DOMAIN rels[i].columns
    BY <1>2 DEF IsFunctionOn
  <2>2. ASSUME NEW i \in DOMAIN rels, NEW j \in DOMAIN rels[i].columns
        PROVE  new[i].columns[j].name = rels[i].columns[j].name
    <3>1. rels[i].columns[j] \in IsResolvedColumns(Name)
      BY ColumnsTyped
    <3> QED BY <1>2, <3>1 DEF IsResolvedColumns
  <2> QED BY <1>2, <1>4, <2>1, <2>2 DEF SameColumns
<1> QED BY <1>2, <1>4, <1>5 DEF Overwritten

LEMMA MarkCoalescedEffect ==
  ASSUME NEW rels \in Seq(Relation), NEW range, NEW name, NEW new,
         new = MarkColumnCoalesced(rels, range, name)
  PROVE  /\ new \in Seq(Relation) /\ SameColumns(rels, new)
         /\ Hidden(rels, new, range, name)
<1> DEFINE changed(i, j) == LET c == rels[i].columns[j]
                            IN IF i \in range /\ c.name = name
                               THEN [c EXCEPT !.coalesced = TRUE] ELSE c
<1>1. new = [i \in DOMAIN rels |->
               IF i \in range
               THEN [rels[i] EXCEPT !.columns =
                       [j \in DOMAIN @ |->
                          IF @[j].name = name
                          THEN [@[j] EXCEPT !.coalesced = TRUE] ELSE @[j]]]
               ELSE rels[i]]
  BY DEF MarkColumnCoalesced, OnColumns
<1>2. ASSUME NEW i \in DOMAIN rels
      PROVE /\ new[i].qualifier = rels[i].qualifier
            /\ new[i].nullableFromJoin = rels[i].nullableFromJoin
            /\ new[i].nullableFromJoin \in BOOLEAN
            /\ new[i] = [qualifier |-> rels[i].qualifier, columns |-> new[i].columns,
                         nullableFromJoin |-> new[i].nullableFromJoin]
            /\ IsFunctionOn(new[i].columns, DOMAIN rels[i].columns)
            /\ \A j \in DOMAIN rels[i].columns :
                 new[i].columns[j] = changed(i, j) /\ new[i].columns[j] \in IsResolvedColumns(Name)
  <2>1. rels[i] \in Relation /\ rels[i].columns \in Seq(IsResolvedColumns(Name))
        /\ \A j \in DOMAIN rels[i].columns : rels[i].columns[j] \in IsResolvedColumns(Name)
    BY ColumnsTyped
  <2>2. rels[i] = [qualifier |-> rels[i].qualifier, columns |-> rels[i].columns,
                   nullableFromJoin |-> rels[i].nullableFromJoin]
        /\ rels[i].nullableFromJoin \in BOOLEAN
    BY <2>1 DEF Relation
  <2>3. IsFunctionOn(rels[i].columns, DOMAIN rels[i].columns)
    BY <2>1 DEF IsFunctionOn
  <2>4. CASE i \notin range
    <3>1. new[i] = rels[i]
      BY <1>1, <2>4
    <3> QED BY <3>1, <2>1, <2>2, <2>3, <2>4
  <2>5. CASE i \in range
    <3> DEFINE cols == [j \in DOMAIN rels[i].columns |->
                          IF rels[i].columns[j].name = name
                          THEN [rels[i].columns[j] EXCEPT !.coalesced = TRUE]
                          ELSE rels[i].columns[j]]
    <3>1. new[i] = [rels[i] EXCEPT !.columns = cols]
      BY <1>1, <2>5
    <3>2. \A j \in DOMAIN rels[i].columns :
            cols[j] = changed(i, j) /\ cols[j] \in IsResolvedColumns(Name)
      BY <2>1, <2>5 DEF IsResolvedColumns
    <3>3. IsFunctionOn(cols, DOMAIN rels[i].columns)
      BY DEF IsFunctionOn
    <3> HIDE DEF cols, changed
    <3>4. new[i] = [qualifier |-> rels[i].qualifier, columns |-> cols,
                    nullableFromJoin |-> rels[i].nullableFromJoin]
      BY <2>2, <3>1
    <3> QED BY <2>2, <3>2, <3>3, <3>4
  <2> QED BY <2>4, <2>5
<1>3. IsFunctionOn(new, DOMAIN rels)
  BY <1>1 DEF IsFunctionOn
<1>4. new \in Seq(Relation) /\ Len(new) = Len(rels)
  <2> HIDE DEF changed
  <2> QED BY <1>2, <1>3, RelationsByPlace
<1>5. SameColumns(rels, new)
  <2>1. ASSUME NEW i \in DOMAIN rels PROVE DOMAIN new[i].columns = DOMAIN rels[i].columns
    BY <1>2 DEF IsFunctionOn
  <2>2. ASSUME NEW i \in DOMAIN rels, NEW j \in DOMAIN rels[i].columns
        PROVE  new[i].columns[j].name = rels[i].columns[j].name
    <3>1. rels[i].columns[j] \in IsResolvedColumns(Name)
      BY ColumnsTyped
    <3> QED BY <1>2, <3>1 DEF IsResolvedColumns
  <2> QED BY <1>2, <1>4, <2>1, <2>2 DEF SameColumns
<1> QED BY <1>2, <1>4, <1>5 DEF Hidden

LEMMA MarkJoinEffect ==
  ASSUME NEW rels \in Seq(Relation), NEW range, NEW new, new = MarkJoinNullable(rels, range)
  PROVE  /\ new \in Seq(Relation) /\ SameColumns(rels, new)
         /\ Widened(rels, new, range)
<1> DEFINE widened(c) == [c EXCEPT !.nullableFromEnclosing = c.nullableFromEnclosing \/ c.merged]
           marked == [i \in DOMAIN rels |->
                        [rels[i] EXCEPT !.nullableFromJoin = rels[i].nullableFromJoin \/ i \in range]]
<1>1. new = [i \in DOMAIN marked |->
               IF i \in range
               THEN [marked[i] EXCEPT !.columns =
                       [j \in DOMAIN marked[i].columns |-> widened(marked[i].columns[j])]]
               ELSE marked[i]]
  BY DEF MarkJoinNullable, OnColumns
<1>2. ASSUME NEW i \in DOMAIN rels
      PROVE /\ new[i].qualifier = rels[i].qualifier
            /\ new[i].nullableFromJoin <=> (rels[i].nullableFromJoin \/ i \in range)
            /\ new[i].nullableFromJoin \in BOOLEAN
            /\ new[i] = [qualifier |-> rels[i].qualifier, columns |-> new[i].columns,
                         nullableFromJoin |-> new[i].nullableFromJoin]
            /\ IsFunctionOn(new[i].columns, DOMAIN rels[i].columns)
            /\ \A j \in DOMAIN rels[i].columns :
                 /\ new[i].columns[j] = IF i \in range THEN widened(rels[i].columns[j])
                                                       ELSE rels[i].columns[j]
                 /\ new[i].columns[j] \in IsResolvedColumns(Name)
  <2>1. rels[i] \in Relation /\ rels[i].columns \in Seq(IsResolvedColumns(Name))
        /\ \A j \in DOMAIN rels[i].columns : rels[i].columns[j] \in IsResolvedColumns(Name)
    BY ColumnsTyped
  <2>2. rels[i] = [qualifier |-> rels[i].qualifier, columns |-> rels[i].columns,
                   nullableFromJoin |-> rels[i].nullableFromJoin]
        /\ rels[i].nullableFromJoin \in BOOLEAN
    BY <2>1 DEF Relation
  <2>3. IsFunctionOn(rels[i].columns, DOMAIN rels[i].columns)
    BY <2>1 DEF IsFunctionOn
  <2> DEFINE b == rels[i].nullableFromJoin \/ i \in range
  <2>4. marked[i] = [qualifier |-> rels[i].qualifier, columns |-> rels[i].columns,
                     nullableFromJoin |-> b]
        /\ b \in BOOLEAN
    BY <2>2
  <2>5. CASE i \notin range
    <3>1. new[i] = marked[i]
      BY <1>1, <2>5
    <3> HIDE DEF marked, b
    <3> QED BY <3>1, <2>1, <2>2, <2>3, <2>4, <2>5 DEF b
  <2>6. CASE i \in range
    <3> DEFINE cols == [j \in DOMAIN rels[i].columns |-> widened(rels[i].columns[j])]
    <3>1. new[i] = [marked[i] EXCEPT !.columns = cols]
      <4>1. marked[i].columns = rels[i].columns /\ i \in DOMAIN marked
        BY <2>4
      <4> HIDE DEF marked, widened
      <4>2. new[i] = [marked[i] EXCEPT !.columns =
                        [j \in DOMAIN marked[i].columns |-> widened(marked[i].columns[j])]]
        BY <1>1, <2>6, <4>1
      <4> QED BY <4>1, <4>2
    <3>2. \A j \in DOMAIN rels[i].columns :
            cols[j] = widened(rels[i].columns[j]) /\ cols[j] \in IsResolvedColumns(Name)
      BY <2>1 DEF IsResolvedColumns
    <3>3. IsFunctionOn(cols, DOMAIN rels[i].columns)
      BY DEF IsFunctionOn
    <3> HIDE DEF cols, widened, marked
    <3>4. b <=> (rels[i].nullableFromJoin \/ i \in range)
      OBVIOUS
    <3> HIDE DEF b
    <3>5. new[i] = [qualifier |-> rels[i].qualifier, columns |-> cols, nullableFromJoin |-> b]
      BY <2>4, <3>1
    <3>6. new[i].columns = cols /\ new[i].qualifier = rels[i].qualifier
      BY <3>5
    <3>7. new[i].nullableFromJoin = b
      BY <3>5
    <3> QED BY <2>4, <2>6, <3>2, <3>3, <3>4, <3>5, <3>6, <3>7
  <2> QED BY <2>5, <2>6
<1>3. IsFunctionOn(new, DOMAIN rels)
  BY <1>1 DEF IsFunctionOn
<1>4. new \in Seq(Relation) /\ Len(new) = Len(rels)
  <2> HIDE DEF widened
  <2> QED BY <1>2, <1>3, RelationsByPlace
<1>5. SameColumns(rels, new)
  <2>1. ASSUME NEW i \in DOMAIN rels PROVE DOMAIN new[i].columns = DOMAIN rels[i].columns
    BY <1>2 DEF IsFunctionOn
  <2>2. ASSUME NEW i \in DOMAIN rels, NEW j \in DOMAIN rels[i].columns
        PROVE  new[i].columns[j].name = rels[i].columns[j].name
    <3>1. rels[i].columns[j] \in IsResolvedColumns(Name)
      BY ColumnsTyped
    <3>2. widened(rels[i].columns[j]).name = rels[i].columns[j].name
      BY <3>1 DEF IsResolvedColumns
    <3> HIDE DEF widened
    <3> QED BY <1>2, <3>2
  <2> QED BY <1>2, <1>4, <2>1, <2>2 DEF SameColumns
<1> QED BY <1>2, <1>4, <1>5 DEF Widened

\* The first position of a name.
LEMMA FoundFirst ==
  ASSUME NEW rels \in Seq(Relation), NEW i \in DOMAIN rels, NEW name,
         HasColumnNamed(rels[i], name)
  PROVE  /\ FindColumnNamed(rels[i], name) \in DOMAIN rels[i].columns
         /\ rels[i].columns[FindColumnNamed(rels[i], name)].name = name
<1>1. PositionsOf(rels[i], name) \in SUBSET Nat /\ PositionsOf(rels[i], name) # {}
  BY ColumnsTyped DEF HasColumnNamed, PositionsOf
<1>2. \E j \in PositionsOf(rels[i], name) : \A other \in PositionsOf(rels[i], name) : j <= other
  BY <1>1, LeastExists
<1>3. FindColumnNamed(rels[i], name) \in PositionsOf(rels[i], name)
  BY <1>2 DEF FindColumnNamed
<1> QED BY <1>3 DEF PositionsOf

LEMMA SameNames ==
  ASSUME NEW old, NEW new, SameColumns(old, new), NEW i \in DOMAIN old, NEW name
  PROVE  /\ PositionsOf(new[i], name) = PositionsOf(old[i], name)
         /\ HasColumnNamed(new[i], name) <=> HasColumnNamed(old[i], name)
         /\ FindColumnNamed(new[i], name) = FindColumnNamed(old[i], name)
<1>1. PositionsOf(new[i], name) = PositionsOf(old[i], name)
  BY DEF PositionsOf, SameColumns
<1> QED BY <1>1 DEF HasColumnNamed, FindColumnNamed

LEMMA SameColumnsTransitive ==
  ASSUME NEW a \in Seq(Relation), NEW b \in Seq(Relation), NEW c,
         SameColumns(a, b), SameColumns(b, c)
  PROVE  SameColumns(a, c) /\ DOMAIN b = DOMAIN a
<1>1. DOMAIN b = DOMAIN a
  BY DEF SameColumns
<1> QED BY <1>1 DEF SameColumns

LEMMA MergeEffect ==
  ASSUME NEW rels \in Seq(Relation), NEW n \in Nat, Len(rels) = n + 1, NEW name,
         NEW b \in BOOLEAN, NEW new, new = Merge(rels, n, name, b)
  PROVE  /\ new \in Seq(Relation) /\ SameColumns(rels, new)
         /\ MergedBy(rels, new, n, name, b)
<1> DEFINE mid == SetMergedColumnNullability(rels, 1 .. n, name, b)
<1>1. mid \in Seq(Relation) /\ SameColumns(rels, mid) /\ Overwritten(rels, mid, 1 .. n, name, b)
  BY SetMergedEffect
<1>2. new = MarkColumnCoalesced(mid, {n + 1}, name)
  BY DEF Merge
<1> HIDE DEF mid
<1>3. new \in Seq(Relation) /\ SameColumns(mid, new) /\ Hidden(mid, new, {n + 1}, name)
  BY <1>1, <1>2, MarkCoalescedEffect
<1>4. SameColumns(rels, new) /\ DOMAIN mid = DOMAIN rels
  BY <1>1, <1>3, SameColumnsTransitive
<1>5. ASSUME NEW i \in DOMAIN rels, NEW j \in DOMAIN rels[i].columns
      PROVE LET was  == rels[i].columns[j]
                is   == new[i].columns[j]
                kept == i <= n /\ was.name = name /\ ~was.coalesced
            IN /\ is.nullableFromEnclosing = was.nullableFromEnclosing
               /\ is.coalesced <=> (was.coalesced \/ (i = n + 1 /\ was.name = name))
               /\ is.merged <=> (was.merged \/ kept)
               /\ is.nullable = IF kept THEN b ELSE was.nullable
  <2> DEFINE was == rels[i].columns[j]
             between == mid[i].columns[j]
             is == new[i].columns[j]
  <2>1. was \in IsResolvedColumns(Name) /\ i \in 1 .. n + 1
    BY ColumnsTyped
  <2>2. between = IF i \in 1 .. n /\ was.name = name /\ ~was.coalesced
                  THEN [was EXCEPT !.nullable = b, !.merged = TRUE] ELSE was
    BY <1>1 DEF Overwritten
  <2>3. j \in DOMAIN mid[i].columns /\ i \in DOMAIN mid /\ between.name = was.name
    BY <1>1, <1>4 DEF SameColumns
  <2>4. is = IF i \in {n + 1} /\ between.name = name
             THEN [between EXCEPT !.coalesced = TRUE] ELSE between
    BY <1>3, <2>3 DEF Hidden
  <2> HIDE DEF was, between, is
  <2>5. CASE i = n + 1
    <3>1. between = was
      BY <2>2, <2>5
    <3> QED BY <3>1, <2>1, <2>4, <2>5 DEF IsResolvedColumns, was, is
  <2>6. CASE i # n + 1
    <3>1. is = between /\ i \in 1 .. n
      BY <2>1, <2>4, <2>6
    <3> QED BY <3>1, <2>1, <2>2 DEF IsResolvedColumns, was, is
  <2> QED BY <2>5, <2>6
<1>6. \A i \in DOMAIN rels : new[i].nullableFromJoin = rels[i].nullableFromJoin
  BY <1>1, <1>3, <1>4 DEF Overwritten, Hidden
<1> QED BY <1>3, <1>4, <1>5, <1>6 DEF MergedBy

\* Merging nothing, and one more name.
LEMMA MergingNothing ==
  ASSUME NEW old \in Seq(Relation), NEW n \in Nat, NEW kind
  PROVE  Merging(old, old, n, kind, {})
BY DEF Merging, SameColumns

LEMMA MergingStep ==
  ASSUME NEW old \in Seq(Relation), NEW n \in Nat, Len(old) = n + 1, NEW kind, NEW done,
         NEW now, Merging(old, now, n, kind, done), NEW name,
         HasColumnNamed(old[n + 1], name),
         NEW b \in BOOLEAN,
         \A i \in 1 .. n : \A j \in DOMAIN old[i].columns :
           old[i].columns[j].name = name /\ ~old[i].columns[j].coalesced /\ LoneLeft(old, n, i, j)
             => b = MergedNullable(kind, now[i].columns[j], ColumnNamed(now[n + 1], name))
  PROVE  Merging(old, Merge(now, n, name, b), n, kind, done \cup {name})
<1> DEFINE new == Merge(now, n, name, b)
<1>1. now \in Seq(Relation) /\ SameColumns(old, now) /\ Len(now) = n + 1 /\ DOMAIN now = DOMAIN old
  BY DEF Merging, SameColumns
<1>2. new \in Seq(Relation) /\ SameColumns(now, new) /\ MergedBy(now, new, n, name, b)
  <2> HIDE DEF new
  <2>1. new = Merge(now, n, name, b)
    BY DEF new
  <2> QED BY <1>1, <2>1, MergeEffect
<1>3. SameColumns(old, new)
  BY <1>1, <1>2, SameColumnsTransitive
<1> HIDE DEF new
<1>4. ASSUME NEW i \in DOMAIN old
      PROVE new[i].nullableFromJoin = old[i].nullableFromJoin
  BY <1>1, <1>2 DEF MergedBy, Merging
<1> DEFINE right == ColumnNamed(old[n + 1], name)
<1>5. ColumnNamed(now[n + 1], name).nullable = right.nullable /\ right.nullable \in BOOLEAN
  <2> DEFINE j == FindColumnNamed(old[n + 1], name)
  <2>1. n + 1 \in DOMAIN old
    OBVIOUS
  <2>2. j \in DOMAIN old[n + 1].columns
    BY <2>1, FoundFirst
  <2>3. FindColumnNamed(now[n + 1], name) = j
    BY <1>1, <2>1, SameNames
  <2>4. now[n + 1].columns[j].nullable = old[n + 1].columns[j].nullable
    <3> HIDE DEF j
    <3> QED BY <2>1, <2>2 DEF Merging
  <2>5. old[n + 1].columns[j] \in IsResolvedColumns(Name)
    BY <2>1, <2>2, ColumnsTyped
  <2> QED BY <2>3, <2>4, <2>5 DEF ColumnNamed, IsResolvedColumns
<1>6. ASSUME NEW i \in DOMAIN old, NEW j \in DOMAIN old[i].columns
      PROVE LET was == old[i].columns[j]
                is  == new[i].columns[j]
            IN /\ is.nullableFromEnclosing = was.nullableFromEnclosing
               /\ is.coalesced <=> (was.coalesced \/ (i = n + 1 /\ was.name \in done \cup {name}))
               /\ is.merged <=>
                    (was.merged \/ (i <= n /\ was.name \in done \cup {name} /\ ~was.coalesced))
               /\ (i = n + 1 \/ was.name \notin done \cup {name} \/ was.coalesced)
                    => is.nullable = was.nullable
               /\ (i <= n /\ was.name \in done \cup {name} /\ ~was.coalesced
                   /\ LoneLeft(old, n, i, j))
                    => is.nullable = MergedNullable(kind, was, ColumnNamed(old[n + 1], was.name))
  <2> DEFINE was == old[i].columns[j]
             mid == now[i].columns[j]
             is  == new[i].columns[j]
  <2>1. was \in IsResolvedColumns(Name) /\ i \in 1 .. n + 1
    BY ColumnsTyped
  <2>2. j \in DOMAIN now[i].columns /\ mid.name = was.name
    BY <1>1 DEF SameColumns
  <2>3. /\ mid.nullableFromEnclosing = was.nullableFromEnclosing
        /\ mid.coalesced <=> (was.coalesced \/ (i = n + 1 /\ was.name \in done))
        /\ mid.merged <=> (was.merged \/ (i <= n /\ was.name \in done /\ ~was.coalesced))
        /\ (i = n + 1 \/ was.name \notin done \/ was.coalesced) => mid.nullable = was.nullable
        /\ (i <= n /\ was.name \in done /\ ~was.coalesced /\ LoneLeft(old, n, i, j))
             => mid.nullable = MergedNullable(kind, was, ColumnNamed(old[n + 1], was.name))
    BY DEF Merging
  <2> DEFINE kept == i <= n /\ mid.name = name /\ ~mid.coalesced
  <2>4. /\ is.nullableFromEnclosing = mid.nullableFromEnclosing
        /\ is.coalesced <=> (mid.coalesced \/ (i = n + 1 /\ mid.name = name))
        /\ is.merged <=> (mid.merged \/ kept)
        /\ is.nullable = IF kept THEN b ELSE mid.nullable
    BY <1>1, <1>2, <2>2 DEF MergedBy
  <2>5. kept => i \in 1 .. n /\ was.name = name /\ ~was.coalesced
    BY <2>1, <2>2, <2>3
  <2>6. ASSUME kept, LoneLeft(old, n, i, j)
        PROVE  is.nullable = MergedNullable(kind, was, ColumnNamed(old[n + 1], was.name))
    <3>1. b = MergedNullable(kind, mid, ColumnNamed(now[n + 1], name))
      BY <2>5, <2>6
    <3>2. is.nullable = b
      BY <2>4, <2>6
    <3>3. mid.nullable = was.nullable \/ mid.nullable = MergedNullable(kind, was, right)
      BY <2>1, <2>3, <2>5, <2>6
    <3>4. was.nullable \in BOOLEAN
      BY <2>1 DEF IsResolvedColumns
    <3>5. MergedNullable(kind, mid, ColumnNamed(now[n + 1], name)) = MergedNullable(kind, was, right)
      <4>1. CASE mid.nullable = was.nullable
        BY <4>1, <1>5 DEF MergedNullable
      <4>2. CASE mid.nullable = MergedNullable(kind, was, right)
        <5> HIDE DEF right, mid, was
        <5>1. CASE kind = "full"
          BY <5>1, <4>2, <1>5, <3>4 DEF MergedNullable
        <5>2. CASE kind = "right"
          BY <5>2, <4>2, <1>5, <3>4 DEF MergedNullable
        <5>3. CASE kind \notin {"full", "right"}
          BY <5>3, <4>2, <1>5, <3>4 DEF MergedNullable
        <5> QED BY <5>1, <5>2, <5>3
      <4> QED BY <3>3, <4>1, <4>2
    <3> QED BY <2>5, <2>6, <3>1, <3>2, <3>5
  <2> HIDE DEF was, mid, is
  <2> QED BY <2>1, <2>2, <2>3, <2>4, <2>5, <2>6 DEF was, is
<1> QED BY <1>2, <1>3, <1>4, <1>6 DEF Merging, new

LEMMA OneMissing ==
  ASSUME NEW rels, NEW n, NEW name
  PROVE  UsingMissing(rels, n, <<name>>)
           <=> (LeftHits(rels, n, name) = {} \/ ~HasColumnNamed(rels[n + 1], name))
<1>1. ToSet(<<name>>) = {name}
  BY DEF ToSet
<1> QED BY <1>1 DEF UsingMissing

LEMMA LastFound ==
  ASSUME NEW rels, NEW n \in Nat, NEW name, LeftHits(rels, n, name) # {}
  PROVE  LastOf(LeftHits(rels, n, name)) \in LeftHits(rels, n, name)
<1> DEFINE S == LeftHits(rels, n, name)
<1>1. S \subseteq 1 .. n
  BY DEF LeftHits
<1>2. IsFiniteSet(S) /\ S \subseteq Nat
  <2>1. IsFiniteSet(1 .. n)
    BY FS_Interval
  <2> HIDE DEF S
  <2>2. IsFiniteSet(S)
    BY <1>1, <2>1, FS_Subset
  <2> QED BY <1>1, <2>2
<1> HIDE DEF S
<1>3. \E x \in S : \A y \in S : y <= x
  BY <1>2, MaxIsGreatest DEF S
<1> QED BY <1>3 DEF LastOf, S

\* The lists of relations a merge goes through.
Shaped(old) == {rels \in Seq(Relation) : SameColumns(old, rels)}

LEMMA SameHits ==
  ASSUME NEW old \in Seq(Relation), NEW n \in Nat, Len(old) = n + 1,
         NEW rels \in Shaped(old), NEW name
  PROVE  /\ LeftHits(rels, n, name) = LeftHits(old, n, name)
         /\ HasColumnNamed(rels[n + 1], name) <=> HasColumnNamed(old[n + 1], name)
         /\ UsingMissing(rels, n, <<name>>) <=> UsingMissing(old, n, <<name>>)
<1>1. SameColumns(old, rels) /\ 1 .. n \subseteq DOMAIN old /\ n + 1 \in DOMAIN old
  BY DEF Shaped
<1>2. \A i \in DOMAIN old : HasColumnNamed(rels[i], name) <=> HasColumnNamed(old[i], name)
  BY <1>1, SameNames
<1>3. LeftHits(rels, n, name) = LeftHits(old, n, name)
  BY <1>1, <1>2 DEF LeftHits
<1> QED BY <1>1, <1>2, <1>3, OneMissing

LEMMA MergedIsBoolean ==
  ASSUME NEW kind, NEW left \in IsResolvedColumns(Name), NEW right \in IsResolvedColumns(Name)
  PROVE  MergedNullable(kind, left, right) \in BOOLEAN
<1>1. left.nullable \in BOOLEAN /\ right.nullable \in BOOLEAN
  BY DEF IsResolvedColumns
<1> QED BY <1>1 DEF MergedNullable

UsingNullable(rels, n, kind, name) ==
  MergedNullable(kind, ColumnNamed(rels[LastOf(LeftHits(rels, n, name))], name),
                 ColumnNamed(rels[n + 1], name))

LEMMA MergeNamedShaped ==
  ASSUME NEW old \in Seq(Relation), NEW n \in Nat, Len(old) = n + 1, NEW kind, NEW name,
         NEW rels \in Shaped(old), ~UsingMissing(old, n, <<name>>)
  PROVE  /\ UsingNullable(rels, n, kind, name) \in BOOLEAN
         /\ MergeNamed(rels, n, kind, name)
              = Merge(rels, n, name, UsingNullable(rels, n, kind, name))
<1> DEFINE last == LastOf(LeftHits(rels, n, name))
           left == ColumnNamed(rels[last], name)
           right == ColumnNamed(rels[n + 1], name)
<1>1. /\ LeftHits(rels, n, name) # {} /\ HasColumnNamed(rels[n + 1], name)
      /\ ~UsingMissing(rels, n, <<name>>)
  BY SameHits, OneMissing
<1>2. rels \in Seq(Relation) /\ DOMAIN rels = 1 .. n + 1
  BY DEF Shaped, SameColumns
<1>3. last \in 1 .. n /\ HasColumnNamed(rels[last], name)
  BY <1>1, LastFound DEF LeftHits
<1>4. left \in IsResolvedColumns(Name) /\ right \in IsResolvedColumns(Name)
  <2>1. last \in DOMAIN rels /\ n + 1 \in DOMAIN rels
    BY <1>2, <1>3
  <2> HIDE DEF last
  <2> QED BY <1>1, <1>2, <1>3, <2>1, FoundFirst, ColumnsTyped DEF ColumnNamed
<1>5. MergedNullable(kind, left, right) \in BOOLEAN
  <2> HIDE DEF left, right
  <2> QED BY <1>4, MergedIsBoolean
<1> QED BY <1>1, <1>5 DEF MergeNamed, UsingNullable

LEMMA ShapedStep ==
  ASSUME NEW old \in Seq(Relation), NEW n \in Nat, Len(old) = n + 1, NEW name,
         NEW rels \in Shaped(old), NEW b \in BOOLEAN
  PROVE  Merge(rels, n, name, b) \in Shaped(old)
<1> DEFINE new == Merge(rels, n, name, b)
<1>1. rels \in Seq(Relation) /\ Len(rels) = n + 1 /\ SameColumns(old, rels)
  BY DEF Shaped, SameColumns
<1>2. new \in Seq(Relation) /\ SameColumns(rels, new)
  <2>1. new = Merge(rels, n, name, b)
    OBVIOUS
  <2> HIDE DEF new
  <2> QED BY <1>1, <2>1, MergeEffect
<1> HIDE DEF new
<1>3. SameColumns(old, new)
  BY <1>1, <1>2, SameColumnsTransitive
<1> QED BY <1>2, <1>3 DEF Shaped, new

\* USING merges the names of its list that both sides have.
LEMMA UsingMerges ==
  ASSUME NEW old \in Seq(Relation), NEW n \in Nat, Len(old) = n + 1, NEW kind,
         NEW names \in Seq(Name)
  PROVE  Merging(old, ResolveUsing(old, n, kind, names), n, kind,
                 {name \in ToSet(names) : ~UsingMissing(old, n, <<name>>)})
<1> DEFINE len == Len(names)
           X == Shaped(old)
           step == [k \in 1 .. len |-> [rels \in X |-> MergeNamed(rels, n, kind, names[k])]]
           Loop(h) == h = [k \in 0 .. len |-> IF k = 0 THEN old
                                              ELSE MergeNamed(h[k - 1], n, kind, names[k])]
           after == CHOOSE h : Loop(h)
<1>1. len \in Nat
  OBVIOUS
<1>2. ASSUME NEW rels \in X, NEW name PROVE MergeNamed(rels, n, kind, name) \in X
  <2>1. CASE UsingMissing(old, n, <<name>>)
    <3>1. MergeNamed(rels, n, kind, name) = rels
      BY <2>1, SameHits DEF MergeNamed
    <3> QED BY <3>1
  <2>2. CASE ~UsingMissing(old, n, <<name>>)
    <3> DEFINE b == UsingNullable(rels, n, kind, name)
    <3>1. b \in BOOLEAN /\ MergeNamed(rels, n, kind, name) = Merge(rels, n, name, b)
      BY <2>2, MergeNamedShaped
    <3> HIDE DEF b
    <3> QED BY <3>1, ShapedStep
  <2> QED BY <2>1, <2>2
<1>3. old \in X
  BY DEF Shaped, SameColumns
<1>4. PICK f : IsLoop(f, X, old, len, step)
  <2>1. IsStep(step, X, len)
    <3> HIDE DEF X
    <3> QED BY <1>2 DEF IsStep
  <2> HIDE DEF step, len, X
  <2> QED BY <1>1, <1>3, <2>1, LoopExists
<1>5. Loop(f)
  <2>1. f \in [0 .. len -> X] /\ f[0] = old /\ \A k \in 1 .. len : f[k] = step[k][f[k - 1]]
    <3> HIDE DEF step, len, X
    <3> QED BY <1>4 DEF IsLoop
  <2>2. ASSUME NEW k \in 1 .. len PROVE f[k] = MergeNamed(f[k - 1], n, kind, names[k])
    <3>1. f[k - 1] \in X /\ f[k] = step[k][f[k - 1]]
      <4>1. k - 1 \in 0 .. len
        BY <1>1
      <4> HIDE DEF step, len, X
      <4> QED BY <2>1, <4>1
    <3> HIDE DEF X
    <3> QED BY <3>1
  <2>3. \A k \in 0 .. len : k = 0 \/ k \in 1 .. len
    BY <1>1
  <2> HIDE DEF X, len, step
  <2> QED BY <2>1, <2>2, <2>3
<1>6. Loop(after)
  <2> HIDE DEF Loop
  <2> QED BY <1>5
<1>7. ResolveUsing(old, n, kind, names) = after[len]
  BY DEF ResolveUsing
<1>8. \A k \in 0 .. len : after[k] = IF k = 0 THEN old
                                     ELSE MergeNamed(after[k - 1], n, kind, names[k])
  <2> DEFINE h == [k \in 0 .. len |-> IF k = 0 THEN old
                                      ELSE MergeNamed(after[k - 1], n, kind, names[k])]
  <2>1. after = h
    BY <1>6
  <2> HIDE DEF after
  <2>2. \A k \in 0 .. len : h[k] = IF k = 0 THEN old
                                   ELSE MergeNamed(after[k - 1], n, kind, names[k])
    OBVIOUS
  <2> HIDE DEF h
  <2> QED BY <2>1, <2>2
<1> HIDE DEF after, Loop, step, len, X
<1> DEFINE Done(k) == {names[m] : m \in {x \in 1 .. k : ~UsingMissing(old, n, <<names[x]>>)}}
           P == {k \in 0 .. len : Merging(old, after[k], n, kind, Done(k))}
<1>9. 0 \in P
  <2>1. Done(0) = {}
    OBVIOUS
  <2>2. after[0] = old /\ 0 \in 0 .. len
    BY <1>1, <1>8
  <2> HIDE DEF Done
  <2> QED BY <2>1, <2>2, MergingNothing
<1>10. ASSUME NEW k \in 1 .. len, k - 1 \in P PROVE k \in P
  <2> DEFINE now == after[k - 1]
             name == names[k]
  <2>1. Merging(old, now, n, kind, Done(k - 1)) /\ k \in 0 .. len
    BY <1>1, <1>10
  <2>2. after[k] = MergeNamed(now, n, kind, name)
    <3>1. k \in 0 .. len /\ k # 0
      BY <1>1
    <3> QED BY <3>1, <1>8
  <2>3. 1 .. k = (1 .. k - 1) \cup {k}
    BY <1>1
  <2> HIDE DEF now
  <2>4. now \in Shaped(old)
    BY <2>1 DEF Merging, Shaped
  <2>5. CASE UsingMissing(old, n, <<name>>)
    <3>1. after[k] = now
      BY <2>2, <2>4, <2>5, SameHits DEF MergeNamed
    <3>2. Done(k) = Done(k - 1)
      BY <2>3, <2>5
    <3> HIDE DEF Done
    <3> QED BY <2>1, <3>1, <3>2
  <2>6. CASE ~UsingMissing(old, n, <<name>>)
    <3> DEFINE left == ColumnNamed(now[LastOf(LeftHits(now, n, name))], name)
               b == UsingNullable(now, n, kind, name)
    <3>1. b \in BOOLEAN /\ after[k] = Merge(now, n, name, b)
      BY <2>2, <2>4, <2>6, MergeNamedShaped
    <3>2. HasColumnNamed(old[n + 1], name)
      BY <2>6, OneMissing
    <3>3. ASSUME NEW i \in 1 .. n, NEW j \in DOMAIN old[i].columns,
                 old[i].columns[j].name = name, LoneLeft(old, n, i, j)
          PROVE  left = now[i].columns[j]
      <4>1. 1 .. n \subseteq DOMAIN old
        OBVIOUS
      <4>2. HasColumnNamed(old[i], name)
        BY <3>3 DEF HasColumnNamed, PositionsOf
      <4>3. ASSUME NEW i2 \in LeftHits(old, n, name) PROVE i2 = i
        <5>1. PICK j2 \in DOMAIN old[i2].columns : old[i2].columns[j2].name = name
          BY DEF LeftHits, HasColumnNamed, PositionsOf
        <5> QED BY <3>3, <4>3, <5>1 DEF LoneLeft, LeftHits
      <4>4. LeftHits(old, n, name) = {i}
        BY <4>2, <4>3 DEF LeftHits
      <4>5. LastOf(LeftHits(now, n, name)) = i
        <5>1. LeftHits(now, n, name) = {i}
          BY <2>4, <4>4, SameHits
        <5>2. i \in LeftHits(now, n, name) /\ \A y \in LeftHits(now, n, name) : y = i
          BY <5>1
        <5> QED BY <5>2, LastFound
      <4>6. FindColumnNamed(old[i], name) \in DOMAIN old[i].columns
            /\ old[i].columns[FindColumnNamed(old[i], name)].name = name
        BY <4>1, <4>2, FoundFirst
      <4>7. FindColumnNamed(old[i], name) = j
        BY <3>3, <4>6 DEF LoneLeft
      <4>8. FindColumnNamed(now[i], name) = j
        BY <4>1, <4>7, <2>1, SameNames DEF Merging
      <4> QED BY <4>5, <4>8 DEF ColumnNamed
    <3>4. Done(k) = Done(k - 1) \cup {name}
      BY <2>3, <2>6
    <3>5. Merging(old, Merge(now, n, name, b), n, kind, Done(k - 1) \cup {name})
      <4>1. \A i \in 1 .. n : \A j \in DOMAIN old[i].columns :
              old[i].columns[j].name = name /\ ~old[i].columns[j].coalesced
              /\ LoneLeft(old, n, i, j)
                => b = MergedNullable(kind, now[i].columns[j], ColumnNamed(now[n + 1], name))
        <5>1. b = MergedNullable(kind, left, ColumnNamed(now[n + 1], name))
          BY DEF UsingNullable
        <5> HIDE DEF left, b
        <5> QED BY <3>3, <5>1
      <4> HIDE DEF b, Done
      <4> QED BY <2>1, <3>1, <3>2, <4>1, MergingStep
    <3> HIDE DEF Done, b
    <3> QED BY <2>1, <3>1, <3>4, <3>5
  <2> QED BY <2>5, <2>6
<1>11. len \in P
  <2> HIDE DEF P
  <2>1. \A k \in 0 .. len : k \in P
    BY <1>1, <1>9, <1>10, CountUp
  <2> QED BY <1>1, <2>1
<1>12. Done(len) = {name \in ToSet(names) : ~UsingMissing(old, n, <<name>>)}
  <2> DEFINE Missing(x) == UsingMissing(old, n, <<x>>)
  <2>1. DOMAIN names = 1 .. len
    BY DEF len
  <2> HIDE DEF Missing
  <2>2. {names[m] : m \in {x \in 1 .. len : ~Missing(names[x])}}
          = {name \in ToSet(names) : ~Missing(name)}
    BY <2>1 DEF ToSet
  <2> QED BY <2>2 DEF Missing
<1> HIDE DEF Done
<1> QED BY <1>7, <1>11, <1>12

AtNullable(rels, n, kind, p) ==
  MergedNullable(kind, At(rels, p), ColumnNamed(rels[n + 1], At(rels, p).name))

LEMMA MergeAtShaped ==
  ASSUME NEW old \in Seq(Relation), NEW n \in Nat, Len(old) = n + 1, NEW kind,
         NEW p \in Bases(old, 1 .. n), NEW rels \in Shaped(old)
  PROVE  /\ At(rels, p).name = At(old, p).name
         /\ ~HasColumnNamed(old[n + 1], At(old, p).name) => MergeAt(rels, n, kind, p) = rels
         /\ HasColumnNamed(old[n + 1], At(old, p).name)
              => /\ AtNullable(rels, n, kind, p) \in BOOLEAN
                 /\ MergeAt(rels, n, kind, p)
                      = Merge(rels, n, At(old, p).name, AtNullable(rels, n, kind, p))
<1>1. PICK i, j : i \in 1 .. n /\ j \in DOMAIN old[i].columns /\ p = <<i, j>>
  BY DEF Bases
<1>2. i \in DOMAIN old /\ n + 1 \in DOMAIN old
  BY <1>1
<1>3. rels \in Seq(Relation) /\ SameColumns(old, rels) /\ DOMAIN rels = DOMAIN old
      /\ j \in DOMAIN rels[i].columns
  BY <1>1, <1>2 DEF Shaped, SameColumns
<1>4. At(rels, p).name = At(old, p).name
  BY <1>1, <1>2, <1>3 DEF At, SameColumns
<1> DEFINE name == At(old, p).name
<1>5. HasColumnNamed(rels[n + 1], name) <=> HasColumnNamed(old[n + 1], name)
  BY SameHits
<1>6. ASSUME HasColumnNamed(old[n + 1], name)
      PROVE  AtNullable(rels, n, kind, p) \in BOOLEAN
  <2>1. At(rels, p) \in IsResolvedColumns(Name)
    BY <1>1, <1>2, <1>3, ColumnsTyped DEF At
  <2>2. ColumnNamed(rels[n + 1], name) \in IsResolvedColumns(Name)
    <3> HIDE DEF name
    <3> QED BY <1>2, <1>3, <1>5, <1>6, FoundFirst, ColumnsTyped DEF ColumnNamed
  <2> QED BY <1>4, <2>1, <2>2, MergedIsBoolean DEF AtNullable
<1> QED BY <1>4, <1>5, <1>6 DEF MergeAt, AtNullable, At

\* NATURAL merges every name that both sides have.
LEMMA NaturalMerges ==
  ASSUME NEW old \in Seq(Relation), NEW n \in Nat, Len(old) = n + 1, NEW kind
  PROVE  Merging(old, ResolveNatural(old, n, kind), n, kind,
                 {At(old, p).name : p \in {q \in Bases(old, 1 .. n) :
                                             HasColumnNamed(old[n + 1], At(old, q).name)}})
<1> DEFINE lefts == Positions(SubSeq(old, 1, n))
           len == Len(lefts)
           X == Shaped(old)
           Has(p) == HasColumnNamed(old[n + 1], At(old, p).name)
           step == [k \in 1 .. len |-> [rels \in X |-> MergeAt(rels, n, kind, lefts[k])]]
           Loop(h) == h = [k \in 0 .. len |-> IF k = 0 THEN old
                                              ELSE MergeAt(h[k - 1], n, kind, lefts[k])]
           after == CHOOSE h : Loop(h)
<1>1. lefts \in Seq(Nat \X Nat) /\ ToSet(lefts) = Bases(old, 1 .. n)
  <2> DEFINE part == SubSeq(old, 1, n)
  <2>1. part \in Seq(Relation) /\ Len(part) = n /\ \A i \in 1 .. n : part[i] = old[i]
    <3>1. 1 \in Int /\ n \in Int /\ \A i \in 1 .. n : old[i] \in Relation
      OBVIOUS
    <3>2. /\ part \in Seq(Relation) /\ Len(part) = IF 1 <= n THEN n - 1 + 1 ELSE 0
          /\ \A i \in 1 .. n - 1 + 1 : part[i] = old[1 + i - 1]
      BY <3>1, SubSeqProperties
    <3> HIDE DEF part
    <3> QED BY <3>2
  <2>2. Bases(part, DOMAIN part) = Bases(old, 1 .. n)
    <3> HIDE DEF part
    <3>1. DOMAIN part = 1 .. n
      BY <2>1
    <3> QED BY <2>1, <3>1 DEF Bases
  <2>3. lefts = Positions(part)
    OBVIOUS
  <2> HIDE DEF part, lefts
  <2> QED BY <2>1, <2>2, <2>3, PositionsCover
<1>2. len \in Nat /\ \A k \in 1 .. len : lefts[k] \in Bases(old, 1 .. n)
  <2> HIDE DEF lefts
  <2>1. len \in Nat /\ DOMAIN lefts = 1 .. len
    BY <1>1
  <2> HIDE DEF len
  <2> QED BY <1>1, <2>1 DEF ToSet
<1>3. ASSUME NEW rels \in X, NEW p \in Bases(old, 1 .. n) PROVE MergeAt(rels, n, kind, p) \in X
  <2>1. CASE ~Has(p)
    <3>1. MergeAt(rels, n, kind, p) = rels
      BY <2>1, MergeAtShaped
    <3> QED BY <3>1
  <2>2. CASE Has(p)
    <3> DEFINE b == AtNullable(rels, n, kind, p)
    <3>1. b \in BOOLEAN /\ MergeAt(rels, n, kind, p) = Merge(rels, n, At(old, p).name, b)
      BY <2>2, MergeAtShaped
    <3> HIDE DEF b
    <3> QED BY <3>1, ShapedStep
  <2> QED BY <2>1, <2>2
<1>4. old \in X
  BY DEF Shaped, SameColumns
<1>5. PICK f : IsLoop(f, X, old, len, step)
  <2>1. IsStep(step, X, len)
    <3> HIDE DEF X, lefts, len
    <3> QED BY <1>2, <1>3 DEF IsStep
  <2> HIDE DEF step, len, X
  <2> QED BY <1>2, <1>4, <2>1, LoopExists
<1> HIDE DEF lefts
<1>6. Loop(f)
  <2>1. f \in [0 .. len -> X] /\ f[0] = old /\ \A k \in 1 .. len : f[k] = step[k][f[k - 1]]
    <3> HIDE DEF step, len, X
    <3> QED BY <1>5 DEF IsLoop
  <2>2. ASSUME NEW k \in 1 .. len PROVE f[k] = MergeAt(f[k - 1], n, kind, lefts[k])
    <3>1. f[k - 1] \in X /\ f[k] = step[k][f[k - 1]]
      <4>1. k - 1 \in 0 .. len
        BY <1>2
      <4> HIDE DEF step, len, X
      <4> QED BY <2>1, <4>1
    <3> HIDE DEF X
    <3> QED BY <3>1
  <2>3. \A k \in 0 .. len : k = 0 \/ k \in 1 .. len
    BY <1>2
  <2> HIDE DEF X, len, step
  <2> QED BY <2>1, <2>2, <2>3
<1>7. Loop(after)
  <2> HIDE DEF Loop
  <2> QED BY <1>6
<1>8. ResolveNatural(old, n, kind) = after[len]
  BY DEF ResolveNatural, lefts
<1>9. \A k \in 0 .. len : after[k] = IF k = 0 THEN old
                                     ELSE MergeAt(after[k - 1], n, kind, lefts[k])
  <2> DEFINE h == [k \in 0 .. len |-> IF k = 0 THEN old
                                      ELSE MergeAt(after[k - 1], n, kind, lefts[k])]
  <2>1. after = h
    BY <1>7
  <2> HIDE DEF after
  <2>2. \A k \in 0 .. len : h[k] = IF k = 0 THEN old
                                   ELSE MergeAt(after[k - 1], n, kind, lefts[k])
    OBVIOUS
  <2> HIDE DEF h
  <2> QED BY <2>1, <2>2
<1> HIDE DEF after, Loop, step, X, len
<1> DEFINE Done(k) == {At(old, lefts[m]).name : m \in {x \in 1 .. k : Has(lefts[x])}}
           P == {k \in 0 .. len : Merging(old, after[k], n, kind, Done(k))}
<1>10. 0 \in P
  <2>1. Done(0) = {}
    OBVIOUS
  <2>2. after[0] = old /\ 0 \in 0 .. len
    BY <1>2, <1>9
  <2> HIDE DEF Done
  <2> QED BY <2>1, <2>2, MergingNothing
<1>11. ASSUME NEW k \in 1 .. len, k - 1 \in P PROVE k \in P
  <2> DEFINE now == after[k - 1]
             p == lefts[k]
             name == At(old, p).name
  <2>1. Merging(old, now, n, kind, Done(k - 1)) /\ k \in 0 .. len
    BY <1>2, <1>11
  <2>2. after[k] = MergeAt(now, n, kind, p) /\ p \in Bases(old, 1 .. n)
    <3>1. k \in 0 .. len /\ k # 0
      BY <1>2
    <3> QED BY <3>1, <1>2, <1>9
  <2>3. 1 .. k = (1 .. k - 1) \cup {k}
    BY <1>2
  <2> HIDE DEF now
  <2>4. now \in Shaped(old)
    BY <2>1 DEF Merging, Shaped
  <2>5. CASE ~Has(p)
    <3>1. after[k] = now
      BY <2>2, <2>4, <2>5, MergeAtShaped
    <3>2. Done(k) = Done(k - 1)
      <4> HIDE DEF Has
      <4> QED BY <2>3, <2>5
    <3> HIDE DEF Done
    <3> QED BY <2>1, <3>1, <3>2
  <2>6. CASE Has(p)
    <3> DEFINE b == AtNullable(now, n, kind, p)
    <3>1. b \in BOOLEAN /\ after[k] = Merge(now, n, name, b) /\ At(now, p).name = name
      BY <2>2, <2>4, <2>6, MergeAtShaped
    <3>2. HasColumnNamed(old[n + 1], name)
      BY <2>6
    <3>3. ASSUME NEW i \in 1 .. n, NEW j \in DOMAIN old[i].columns,
                 old[i].columns[j].name = name, LoneLeft(old, n, i, j)
          PROVE  b = MergedNullable(kind, now[i].columns[j], ColumnNamed(now[n + 1], name))
      <4>1. PICK i2, j2 : i2 \in 1 .. n /\ j2 \in DOMAIN old[i2].columns /\ p = <<i2, j2>>
        BY <2>2 DEF Bases
      <4>2. i2 = i /\ j2 = j
        BY <3>3, <4>1 DEF LoneLeft, At
      <4> QED BY <3>1, <4>1, <4>2 DEF AtNullable, At
    <3>4. Done(k) = Done(k - 1) \cup {name}
      <4> HIDE DEF Has
      <4> QED BY <2>3, <2>6
    <3>5. Merging(old, Merge(now, n, name, b), n, kind, Done(k - 1) \cup {name})
      <4> HIDE DEF b, Done, name
      <4> QED BY <2>1, <3>1, <3>2, <3>3, MergingStep
    <3> HIDE DEF Done, b, name
    <3> QED BY <2>1, <3>1, <3>4, <3>5
  <2> QED BY <2>5, <2>6
<1>12. len \in P
  <2> HIDE DEF P
  <2>1. \A k \in 0 .. len : k \in P
    BY <1>2, <1>10, <1>11, CountUp
  <2> QED BY <1>2, <2>1
<1>13. Done(len) = {At(old, p).name : p \in {q \in Bases(old, 1 .. n) : Has(q)}}
  <2>1. DOMAIN lefts = 1 .. len
    BY <1>1 DEF len
  <2>2. Bases(old, 1 .. n) = {lefts[m] : m \in 1 .. len}
    BY <1>1, <2>1 DEF ToSet
  <2> HIDE DEF Has
  <2> QED BY <2>2
<1> HIDE DEF Done
<1> QED BY <1>8, <1>12, <1>13

-----------------------------------------------------------------------------
(* Table references and what they show.                                     *)

LEMMA InBases ==
  ASSUME NEW rels, NEW range, NEW p
  PROVE  p \in Bases(rels, range)
           <=> /\ p = <<p[1], p[2]>>
               /\ p[1] \in range /\ p[2] \in DOMAIN rels[p[1]].columns
<1>1. ASSUME p \in Bases(rels, range)
      PROVE  p = <<p[1], p[2]>> /\ p[1] \in range /\ p[2] \in DOMAIN rels[p[1]].columns
  <2>1. PICK i \in range : \E j \in DOMAIN rels[i].columns : p = <<i, j>>
    BY <1>1 DEF Bases
  <2>2. PICK j \in DOMAIN rels[i].columns : p = <<i, j>>
    BY <2>1
  <2> QED BY <2>2
<1>2. ASSUME p = <<p[1], p[2]>>, p[1] \in range, p[2] \in DOMAIN rels[p[1]].columns
      PROVE  p \in Bases(rels, range)
  BY <1>2 DEF Bases
<1> QED BY <1>1, <1>2

LEMMA BasesTyped ==
  ASSUME NEW rels \in Seq(Relation), NEW range \in SUBSET DOMAIN rels
  PROVE  /\ Bases(rels, range) \subseteq Nat \X Nat
         /\ \A p \in Bases(rels, range) :
              At(rels, p) \in IsResolvedColumns(Name) /\ p[1] \in DOMAIN rels
<1> SUFFICES ASSUME NEW p \in Bases(rels, range)
             PROVE  /\ p \in Nat \X Nat
                    /\ At(rels, p) \in IsResolvedColumns(Name) /\ p[1] \in DOMAIN rels
  OBVIOUS
<1>1. p = <<p[1], p[2]>> /\ p[1] \in range /\ p[2] \in DOMAIN rels[p[1]].columns
  BY InBases
<1>2. p[1] \in DOMAIN rels
  BY <1>1
<1>3. /\ p[1] \in Nat
      /\ \A j \in DOMAIN rels[p[1]].columns :
           rels[p[1]].columns[j] \in IsResolvedColumns(Name) /\ j \in Nat
  BY <1>2, ColumnsTyped
<1> QED BY <1>1, <1>2, <1>3 DEF At

\* Relations that are left alone show what they showed.
LEMMA BasesFrame ==
  ASSUME NEW rels, NEW new, NEW range, \A i \in range : new[i] = rels[i]
  PROVE  /\ Bases(new, range) = Bases(rels, range)
         /\ \A p \in Bases(rels, range) : At(new, p) = At(rels, p) /\ new[p[1]] = rels[p[1]]
<1>1. Bases(new, range) = Bases(rels, range)
  BY DEF Bases
<1>2. \A p \in Bases(rels, range) : p[1] \in range
  BY InBases
<1> QED BY <1>1, <1>2 DEF At

LEMMA ShowsFrame ==
  ASSUME NEW rels, NEW new, NEW range, \A i \in range : new[i] = rels[i],
         NEW ref, Shows(ref, rels, range)
  PROVE  Shows(ref, new, range)
<1>1. /\ Bases(new, range) = Bases(rels, range)
      /\ \A p \in Bases(rels, range) : At(new, p) = At(rels, p)
  BY BasesFrame
<1>2. \A c \in ref.columns : \A p \in c.parts : p \in Bases(rels, range)
  BY DEF Shows
<1> QED BY <1>1, <1>2 DEF Shows

LEMMA ReachedFrame ==
  ASSUME NEW rels, NEW new, NEW range, \A i \in range : new[i] = rels[i],
         NEW ref, Shows(ref, rels, range), NEW set, Reached(ref, rels, set)
  PROVE  Reached(ref, new, set)
<1>1. PICK row \in ref.rows : set \subseteq row /\ \A p \in row : rels[p[1]].nullableFromJoin
  BY DEF Reached
<1>2. \A p \in row : p \in Bases(rels, range)
  BY <1>1 DEF Shows
<1>3. \A p \in row : new[p[1]] = rels[p[1]]
  BY <1>2, BasesFrame
<1> QED BY <1>1, <1>3 DEF Reached

LEMMA ValuesFrame ==
  ASSUME NEW rels, NEW new, NEW range, \A i \in range : new[i] = rels[i],
         NEW ref, Shows(ref, rels, range), NEW outputs, Values(outputs, ref, rels, range)
  PROVE  Values(outputs, ref, new, range)
<1>1. /\ Bases(new, range) = Bases(rels, range)
      /\ \A p \in Bases(rels, range) : At(new, p) = At(rels, p) /\ new[p[1]] = rels[p[1]]
  <2>1. /\ Bases(new, range) = Bases(rels, range)
        /\ \A p \in Bases(rels, range) : At(new, p) = At(rels, p)
    BY BasesFrame
  <2>2. \A p \in Bases(rels, range) : new[p[1]] = rels[p[1]]
    BY InBases
  <2> QED BY <2>1, <2>2
<1>2. \A p \in Bases(rels, range) : GivenAt(outputs, new, p) = GivenAt(outputs, rels, p)
  BY <1>1 DEF GivenAt
<1>3. \A c \in ref.columns : \A p \in c.parts : p \in Bases(rels, range)
  BY DEF Shows
<1>4. \A set : Reached(ref, rels, set) => Reached(ref, new, set)
  BY ReachedFrame
<1>5. \A i \in range : new[i] = rels[i] /\ Bases(new, {i}) = Bases(rels, {i})
  BY DEF Bases
<1>6. \A p \in Bases(new, range) :
       /\ ~QualifiedNullable(new[p[1]], p[2]) => \A row \in ref.rows : p \notin row
       /\ ~new[p[1]].nullableFromJoin /\ ~GivenAt(outputs, new, p).nullable
            => ~At(new, p).nullable
  BY <1>1, <1>2 DEF Values
<1>7. ASSUME NEW c \in ref.columns, NEW p \in c.parts, ~At(new, p).coalesced
      PROVE /\ ~BareNullable(new[p[1]], p[2]) => \A row \in ref.rows : ~(c.parts \subseteq row)
            /\ At(new, p).nullableFromEnclosing
                 => \/ \E q \in c.parts : GivenAt(outputs, new, q).merged
                    \/ Reached(ref, new, c.parts)
            /\ At(new, p).merged
                 => \/ \E q \in c.parts : GivenAt(outputs, new, q).merged
                                          \/ GivenAt(outputs, new, q).nullable
                    \/ ~At(new, p).nullable
            /\ At(new, p).merged /\ c.parts = {p} => GivenAt(outputs, new, p).merged
  <2>1. p \in Bases(rels, range) /\ ~At(rels, p).coalesced
    BY <1>1, <1>3, <1>7
  <2>2. \A q \in c.parts : GivenAt(outputs, new, q) = GivenAt(outputs, rels, q)
    BY <1>2, <1>3
  <2> QED BY <1>1, <1>4, <2>1, <2>2 DEF Values
<1>8. \A i \in range : new[i].nullableFromJoin => Reached(ref, new, Bases(new, {i}))
  BY <1>4, <1>5 DEF Values
<1> QED BY <1>6, <1>7, <1>8 DEF Values

LEMMA NothingShown ==
  ASSUME NEW rels, NEW range, range = {}, NEW outputs
  PROVE  /\ Shows(J!NoReference, rels, range)
         /\ Values(outputs, J!NoReference, rels, range)
<1>1. Bases(rels, range) = {}
  BY DEF Bases
<1>2. J!NoReference.columns = {} /\ J!NoReference.rows = {{}}
  BY DEF J!NoReference
<1>3. IsFiniteSet({})
  BY FS_EmptySet
<1> QED BY <1>1, <1>2, <1>3 DEF Shows, Values

LEMMA FiniteImage ==
  ASSUME NEW S, IsFiniteSet(S), NEW T, NEW f \in [S -> T], \A y \in T : \E x \in S : f[x] = y
  PROVE  IsFiniteSet(T)
<1>1. f \in Surjection(S, T)
  BY DEF Surjection
<1> QED BY <1>1, FS_Surjection

\* A relation as it is added shows its columns one by one.
LEMMA TableShows ==
  ASSUME NEW rels \in Seq(Relation), NEW i \in DOMAIN rels, NEW ref,
         ref.columns = J!TableReference(i, rels[i].columns).columns,
         ref.rows \subseteq SUBSET {<<i, j>> : j \in DOMAIN rels[i].columns},
         \A j \in DOMAIN rels[i].columns : ~rels[i].columns[j].coalesced
  PROVE  Shows(ref, rels, {i})
<1> DEFINE cols == rels[i].columns
           Shown(j) == [name |-> cols[j].name, parts |-> {<<i, j>>}]
<1>1. ref.columns = {Shown(j) : j \in DOMAIN cols}
  BY DEF J!TableReference
<1>2. Bases(rels, {i}) = {<<i, j>> : j \in DOMAIN cols}
  BY DEF Bases
<1>3. \A j \in DOMAIN cols : At(rels, <<i, j>>) = cols[j]
  BY DEF At
<1>4. IsFiniteSet(ref.columns)
  <2>1. PICK m \in Nat : DOMAIN cols = 1 .. m
    BY ColumnsTyped
  <2>2. IsFiniteSet(DOMAIN cols)
    BY <2>1, FS_Interval
  <2> DEFINE f == [j \in DOMAIN cols |-> Shown(j)]
  <2>3. f \in [DOMAIN cols -> ref.columns] /\ \A c \in ref.columns : \E j \in DOMAIN cols : f[j] = c
    BY <1>1
  <2> HIDE DEF f, cols
  <2> QED BY <2>2, <2>3, FiniteImage
<1>5. ASSUME NEW c \in ref.columns
      PROVE  \E j \in DOMAIN cols : c.name = cols[j].name /\ c.parts = {<<i, j>>} /\ c = Shown(j)
  <2>1. PICK j \in DOMAIN cols : c = Shown(j)
    BY <1>1
  <2>2. c.name = cols[j].name /\ c.parts = {<<i, j>>}
    BY <2>1
  <2> QED BY <2>1, <2>2
<1>6. ASSUME NEW c \in ref.columns, NEW p \in c.parts
      PROVE  p \in Bases(rels, {i}) /\ At(rels, p).name = c.name /\ ~At(rels, p).coalesced
             /\ c.parts = {p}
  <2>1. PICK j \in DOMAIN cols : c.name = cols[j].name /\ c.parts = {<<i, j>>}
    BY <1>5
  <2>2. p = <<i, j>>
    BY <2>1
  <2> QED BY <1>2, <1>3, <2>1, <2>2
<1>7. ASSUME NEW p \in Bases(rels, {i})
      PROVE  ~At(rels, p).coalesced /\ \E c \in ref.columns : p \in c.parts
  <2>1. PICK j \in DOMAIN cols : p = <<i, j>>
    BY <1>2
  <2>2. Shown(j) \in ref.columns /\ p \in Shown(j).parts
    BY <1>1, <2>1
  <2> HIDE DEF Shown
  <2> QED BY <1>3, <2>1, <2>2
<1>8. \A c1, c2 \in ref.columns : \A p \in c1.parts : p \in c2.parts => c1 = c2
  <2> SUFFICES ASSUME NEW c1 \in ref.columns, NEW c2 \in ref.columns, NEW p \in c1.parts,
                      p \in c2.parts
               PROVE c1 = c2
    OBVIOUS
  <2>1. PICK j1 \in DOMAIN cols : c1.parts = {<<i, j1>>} /\ c1 = Shown(j1)
    BY <1>5
  <2>2. PICK j2 \in DOMAIN cols : c2.parts = {<<i, j2>>} /\ c2 = Shown(j2)
    BY <1>5
  <2>3. j1 = j2
    BY <2>1, <2>2
  <2> QED BY <2>1, <2>2, <2>3
<1>9. ASSUME NEW c \in ref.columns
      PROVE  c.parts # {} /\ \E p \in c.parts : ~At(rels, p).coalesced
  <2>1. PICK j \in DOMAIN cols : c.parts = {<<i, j>>}
    BY <1>5
  <2>2. <<i, j>> \in c.parts
    BY <2>1
  <2> QED BY <1>3, <2>2
<1>10. \A row \in ref.rows : row \subseteq Bases(rels, {i})
  BY <1>2
<1> HIDE DEF cols, Shown
<1> QED BY <1>4, <1>6, <1>7, <1>8, <1>9, <1>10 DEF Shows

LEMMA TableValues ==
  ASSUME NEW rels \in Seq(Relation), NEW i \in DOMAIN rels, NEW ref,
         ref.columns = J!TableReference(i, rels[i].columns).columns,
         ref.rows \subseteq SUBSET {<<i, j>> : j \in DOMAIN rels[i].columns},
         {} \in ref.rows,
         ~rels[i].nullableFromJoin,
         NEW outputs,
         \A j \in DOMAIN rels[i].columns :
           /\ GivenAt(outputs, rels, <<i, j>>) = rels[i].columns[j]
           /\ ~rels[i].columns[j].coalesced
           /\ rels[i].columns[j].nullableFromEnclosing => rels[i].columns[j].merged
           /\ ~rels[i].columns[j].nullable => \A row \in ref.rows : <<i, j>> \notin row
  PROVE  Values(outputs, ref, rels, {i})
<1> DEFINE cols == rels[i].columns
           Shown(j) == [name |-> cols[j].name, parts |-> {<<i, j>>}]
<1>1. ref.columns = {Shown(j) : j \in DOMAIN cols}
  BY DEF J!TableReference
<1>2. \A p \in Bases(rels, {i}) : p[1] = i /\ p[2] \in DOMAIN cols /\ p = <<i, p[2]>>
                                  /\ At(rels, p) = cols[p[2]]
  BY InBases DEF At
<1>3. \A p \in Bases(rels, {i}) : GivenAt(outputs, rels, p) = At(rels, p)
  BY <1>2
<1>4. \A p \in Bases(rels, {i}) : ~At(rels, p).nullable => \A row \in ref.rows : p \notin row
  BY <1>2
<1>5. \A c \in ref.columns : \A p \in c.parts : c.parts = {p} /\ p \in Bases(rels, {i})
  <2>1. \A j \in DOMAIN cols : <<i, j>> \in Bases(rels, {i})
    BY DEF Bases
  <2> SUFFICES ASSUME NEW c \in ref.columns, NEW p \in c.parts
               PROVE  c.parts = {p} /\ p \in Bases(rels, {i})
    OBVIOUS
  <2>2. PICK j \in DOMAIN cols : c = Shown(j)
    BY <1>1
  <2>3. c.parts = {<<i, j>>}
    BY <2>2
  <2> QED BY <2>1, <2>3
<1>6. \A p \in Bases(rels, {i}) :
       /\ ~QualifiedNullable(rels[p[1]], p[2]) => \A row \in ref.rows : p \notin row
       /\ ~rels[p[1]].nullableFromJoin /\ ~GivenAt(outputs, rels, p).nullable
            => ~At(rels, p).nullable
  BY <1>3, <1>4 DEF QualifiedNullable, At
<1>7. ASSUME NEW c \in ref.columns, NEW p \in c.parts, ~At(rels, p).coalesced
      PROVE /\ ~BareNullable(rels[p[1]], p[2]) => \A row \in ref.rows : ~(c.parts \subseteq row)
            /\ At(rels, p).nullableFromEnclosing
                 => \E q \in c.parts : GivenAt(outputs, rels, q).merged
            /\ At(rels, p).merged => GivenAt(outputs, rels, p).merged
  <2>1. c.parts = {p} /\ p \in Bases(rels, {i}) /\ GivenAt(outputs, rels, p) = At(rels, p)
    BY <1>3, <1>5
  <2>2. At(rels, p).nullableFromEnclosing => At(rels, p).merged
    BY <1>2, <2>1
  <2>3. ~BareNullable(rels[p[1]], p[2]) => ~At(rels, p).nullable
    BY DEF BareNullable, At
  <2> QED BY <1>4, <2>1, <2>2, <2>3
<1> HIDE DEF cols, Shown
<1> QED BY <1>6, <1>7 DEF Values

LEMMA ProductShows ==
  ASSUME NEW rels, NEW r1, NEW r2, r1 \cap r2 = {}, NEW left, NEW right,
         Shows(left, rels, r1), Shows(right, rels, r2)
  PROVE  Shows(J!Product(left, right), rels, r1 \cup r2)
<1> DEFINE ref == J!Product(left, right)
<1>1. ref.columns = left.columns \cup right.columns
      /\ \A row \in ref.rows : \E l \in left.rows, r \in right.rows : row = l \cup r
  BY DEF J!Product
<1>2. Bases(rels, r1 \cup r2) = Bases(rels, r1) \cup Bases(rels, r2)
  BY DEF Bases
<1>3. \A p \in Bases(rels, r1) : p[1] \in r1
  BY InBases
<1>4. \A p \in Bases(rels, r2) : p[1] \in r2
  BY InBases
<1>5. IsFiniteSet(ref.columns)
  <2> DEFINE L == left.columns
             R == right.columns
  <2>1. IsFiniteSet(L) /\ IsFiniteSet(R) /\ ref.columns = L \cup R
    BY <1>1 DEF Shows
  <2> HIDE DEF ref, L, R
  <2>2. IsFiniteSet(L \cup R)
    BY <2>1, FS_Union
  <2> QED BY <2>1, <2>2
<1> HIDE DEF ref
<1>6. \A c \in ref.columns : c.parts # {} /\ \E p \in c.parts : ~At(rels, p).coalesced
  BY <1>1 DEF Shows
<1>7. \A c \in ref.columns : \A p \in c.parts :
        p \in Bases(rels, r1 \cup r2) /\ At(rels, p).name = c.name
  BY <1>1, <1>2 DEF Shows
<1>8. \A p \in Bases(rels, r1 \cup r2) : \E c \in ref.columns : p \in c.parts
  BY <1>1, <1>2 DEF Shows
<1>9. ASSUME NEW c1 \in ref.columns, NEW c2 \in ref.columns, NEW p \in c1.parts, p \in c2.parts
      PROVE c1 = c2
  <2>1. \A c \in left.columns : p \in c.parts => p[1] \in r1
    BY <1>3 DEF Shows
  <2>2. \A c \in right.columns : p \in c.parts => p[1] \in r2
    BY <1>4 DEF Shows
  <2> QED BY <1>1, <1>9, <2>1, <2>2 DEF Shows
<1>10. \A c \in ref.columns : \A p1, p2 \in c.parts :
         /\ ~At(rels, p1).coalesced /\ ~At(rels, p2).coalesced => p1 = p2
         /\ p1[1] = p2[1] => p1 = p2
         /\ p1 # p2 /\ ~At(rels, p1).coalesced => At(rels, p1).merged
  BY <1>1 DEF Shows
<1>11. ASSUME NEW row \in ref.rows PROVE row \subseteq Bases(rels, r1 \cup r2)
  <2>1. PICK l \in left.rows, r \in right.rows : row = l \cup r
    BY <1>1
  <2>2. l \subseteq Bases(rels, r1) /\ r \subseteq Bases(rels, r2)
    BY DEF Shows
  <2> QED BY <1>2, <2>1, <2>2
<1>12. \A p1, p2 \in Bases(rels, r1 \cup r2) :
         At(rels, p1).coalesced /\ p1[1] = p2[1] /\ At(rels, p1).name = At(rels, p2).name
           => p1 = p2
  BY <1>2, <1>3, <1>4 DEF Shows
<1> QED BY <1>5, <1>6, <1>7, <1>8, <1>9, <1>10, <1>11, <1>12 DEF Shows, ref

LEMMA ProductValues ==
  ASSUME NEW rels, NEW r1, NEW r2, r1 \cap r2 = {}, NEW left, NEW right, NEW outputs,
         Shows(left, rels, r1), Shows(right, rels, r2),
         Values(outputs, left, rels, r1), Values(outputs, right, rels, r2)
  PROVE  Values(outputs, J!Product(left, right), rels, r1 \cup r2)
<1> DEFINE ref == J!Product(left, right)
<1>1. /\ ref.columns = left.columns \cup right.columns
      /\ \A row \in ref.rows : \E l \in left.rows, r \in right.rows : row = l \cup r
      /\ \A l \in left.rows, r \in right.rows : l \cup r \in ref.rows
  BY DEF J!Product
<1>2. Bases(rels, r1 \cup r2) = Bases(rels, r1) \cup Bases(rels, r2)
  BY DEF Bases
<1>3. \A p \in Bases(rels, r1) : p \notin Bases(rels, r2)
  BY InBases
<1>4. {} \in left.rows /\ {} \in right.rows
  BY DEF Values
<1> HIDE DEF ref
<1>5. {} \in ref.rows
  <2>1. {} \cup {} = {}
    OBVIOUS
  <2> QED BY <1>1, <1>4, <2>1
<1>6. \A row \in left.rows \cup right.rows : row \in ref.rows
  <2>1. \A row : row \cup {} = row /\ {} \cup row = row
    OBVIOUS
  <2>2. ASSUME NEW row \in left.rows PROVE row \in ref.rows
    <3>1. row \cup {} \in ref.rows
      BY <1>1, <1>4
    <3> QED BY <2>1, <3>1
  <2>3. ASSUME NEW row \in right.rows PROVE row \in ref.rows
    <3>1. {} \cup row \in ref.rows
      BY <1>1, <1>4
    <3> QED BY <2>1, <3>1
  <2> QED BY <2>2, <2>3
<1>7. \A set : Reached(left, rels, set) \/ Reached(right, rels, set) => Reached(ref, rels, set)
  BY <1>6 DEF Reached
<1>8. ASSUME NEW p \in Bases(rels, r1 \cup r2)
      PROVE /\ ~QualifiedNullable(rels[p[1]], p[2]) => \A row \in ref.rows : p \notin row
            /\ ~rels[p[1]].nullableFromJoin /\ ~GivenAt(outputs, rels, p).nullable
                 => ~At(rels, p).nullable
  <2>1. \A l \in left.rows : p \in l => p \in Bases(rels, r1)
    BY DEF Shows
  <2>2. \A r \in right.rows : p \in r => p \in Bases(rels, r2)
    BY DEF Shows
  <2>3. ASSUME ~QualifiedNullable(rels[p[1]], p[2]), NEW row \in ref.rows PROVE p \notin row
    <3>1. PICK l \in left.rows, r \in right.rows : row = l \cup r
      BY <1>1
    <3>2. p \in Bases(rels, r1) => p \notin l
      BY <2>3 DEF Values
    <3>3. p \in Bases(rels, r2) => p \notin r
      BY <2>3 DEF Values
    <3> QED BY <1>3, <2>1, <2>2, <3>1, <3>2, <3>3
  <2>4. ~rels[p[1]].nullableFromJoin /\ ~GivenAt(outputs, rels, p).nullable
          => ~At(rels, p).nullable
    BY <1>2 DEF Values
  <2> QED BY <2>3, <2>4
<1>9. ASSUME NEW c \in ref.columns, NEW p \in c.parts, ~At(rels, p).coalesced
      PROVE /\ ~BareNullable(rels[p[1]], p[2]) => \A row \in ref.rows : ~(c.parts \subseteq row)
            /\ At(rels, p).nullableFromEnclosing
                 => \/ \E q \in c.parts : GivenAt(outputs, rels, q).merged
                    \/ Reached(ref, rels, c.parts)
            /\ At(rels, p).merged
                 => \/ \E q \in c.parts : GivenAt(outputs, rels, q).merged
                                          \/ GivenAt(outputs, rels, q).nullable
                    \/ ~At(rels, p).nullable
            /\ At(rels, p).merged /\ c.parts = {p} => GivenAt(outputs, rels, p).merged
  <2>1. ASSUME ~BareNullable(rels[p[1]], p[2]), NEW row \in ref.rows PROVE ~(c.parts \subseteq row)
    <3>1. PICK l \in left.rows, r \in right.rows : row = l \cup r
      BY <1>1
    <3>2. l \subseteq Bases(rels, r1) /\ r \subseteq Bases(rels, r2)
      BY DEF Shows
    <3>3. CASE c \in left.columns
      <4>1. c.parts \subseteq Bases(rels, r1) /\ ~(c.parts \subseteq l)
        BY <1>9, <2>1, <3>3 DEF Shows, Values
      <4> QED BY <1>3, <3>1, <3>2, <4>1
    <3>4. CASE c \in right.columns
      <4>1. c.parts \subseteq Bases(rels, r2) /\ ~(c.parts \subseteq r)
        BY <1>9, <2>1, <3>4 DEF Shows, Values
      <4> QED BY <1>3, <3>1, <3>2, <4>1
    <3> QED BY <1>1, <3>3, <3>4
  <2> QED BY <1>1, <1>7, <1>9, <2>1 DEF Values
<1>10. \A i \in r1 \cup r2 : rels[i].nullableFromJoin => Reached(ref, rels, Bases(rels, {i}))
  BY <1>7 DEF Values
<1> QED BY <1>5, <1>8, <1>9, <1>10 DEF Values, ref

-----------------------------------------------------------------------------
(* A join, from both of its effects: the sides it nullifies and the names   *)
(* it merges.                                                               *)

Joined(rels, new, n, kind, side, done) ==
  /\ new \in Seq(Relation)
  /\ SameColumns(rels, new)
  /\ \A i \in DOMAIN rels : new[i].nullableFromJoin <=> (rels[i].nullableFromJoin \/ i \in side)
  /\ \A p \in Bases(rels, DOMAIN rels) :
       LET was == At(rels, p)
           is  == At(new, p)
       IN /\ is.name = was.name
          /\ is.nullableFromEnclosing <=> (was.nullableFromEnclosing \/ (p[1] \in side /\ was.merged))
          /\ is.coalesced <=> (was.coalesced \/ (p[1] = n + 1 /\ was.name \in done))
          /\ is.merged <=> (was.merged \/ (p[1] <= n /\ was.name \in done /\ ~was.coalesced))
          /\ (p[1] = n + 1 \/ was.name \notin done \/ was.coalesced)
               => is.nullable = was.nullable
          /\ (/\ p[1] <= n /\ was.name \in done /\ ~was.coalesced
              /\ \A q \in Bases(rels, 1 .. n) : At(rels, q).name = was.name => q = p)
               => is.nullable = MergedNullable(kind, was, ColumnNamed(rels[n + 1], was.name))

LEMMA BothEffects ==
  ASSUME NEW rels \in Seq(Relation), NEW n \in Nat, Len(rels) = n + 1, NEW kind, NEW side, NEW done,
         NEW old, old = MarkJoinNullable(rels, side),
         NEW new, Merging(old, new, n, kind, done),
         \A name \in done : HasColumnNamed(rels[n + 1], name)
  PROVE  Joined(rels, new, n, kind, side, done)
<1>1. old \in Seq(Relation) /\ SameColumns(rels, old) /\ Widened(rels, old, side)
  BY MarkJoinEffect
<1>2. new \in Seq(Relation) /\ SameColumns(old, new)
  BY DEF Merging
<1>3. SameColumns(rels, new) /\ DOMAIN old = DOMAIN rels
  BY <1>1, <1>2, SameColumnsTransitive
<1>4. \A i \in DOMAIN rels : new[i].nullableFromJoin <=> (rels[i].nullableFromJoin \/ i \in side)
  BY <1>1, <1>3 DEF Merging, Widened
<1>5. \A name \in done : /\ ColumnNamed(old[n + 1], name).nullable
                              = ColumnNamed(rels[n + 1], name).nullable
                         /\ HasColumnNamed(rels[n + 1], name)
  <2> SUFFICES ASSUME NEW name \in done
               PROVE  ColumnNamed(old[n + 1], name).nullable = ColumnNamed(rels[n + 1], name).nullable
    OBVIOUS
  <2> DEFINE j == FindColumnNamed(rels[n + 1], name)
  <2>1. n + 1 \in DOMAIN rels
    OBVIOUS
  <2>2. j \in DOMAIN rels[n + 1].columns /\ FindColumnNamed(old[n + 1], name) = j
    BY <1>1, <2>1, FoundFirst, SameNames
  <2>3. rels[n + 1].columns[j] \in IsResolvedColumns(Name)
    BY <2>1, <2>2, ColumnsTyped
  <2> HIDE DEF j
  <2>4. old[n + 1].columns[j].nullable = rels[n + 1].columns[j].nullable
    BY <1>1, <2>1, <2>2, <2>3 DEF Widened, IsResolvedColumns
  <2> QED BY <2>2, <2>4 DEF ColumnNamed, j
<1>6. ASSUME NEW p \in Bases(rels, DOMAIN rels)
      PROVE  LET was == At(rels, p)
                 is  == At(new, p)
             IN /\ is.name = was.name
                /\ is.nullableFromEnclosing
                     <=> (was.nullableFromEnclosing \/ (p[1] \in side /\ was.merged))
                /\ is.coalesced <=> (was.coalesced \/ (p[1] = n + 1 /\ was.name \in done))
                /\ is.merged <=> (was.merged \/ (p[1] <= n /\ was.name \in done /\ ~was.coalesced))
                /\ (p[1] = n + 1 \/ was.name \notin done \/ was.coalesced)
                     => is.nullable = was.nullable
                /\ (/\ p[1] <= n /\ was.name \in done /\ ~was.coalesced
                    /\ \A q \in Bases(rels, 1 .. n) : At(rels, q).name = was.name => q = p)
                     => is.nullable = MergedNullable(kind, was, ColumnNamed(rels[n + 1], was.name))
  <2> DEFINE i == p[1]
             j == p[2]
             was == rels[i].columns[j]
             mid == old[i].columns[j]
             is == new[i].columns[j]
  <2>1. p = <<i, j>> /\ i \in DOMAIN rels /\ j \in DOMAIN rels[i].columns
    BY InBases
  <2>2. was \in IsResolvedColumns(Name)
    BY <2>1, ColumnsTyped
  <2>3. mid = IF i \in side THEN [was EXCEPT !.nullableFromEnclosing =
                                    was.nullableFromEnclosing \/ was.merged]
              ELSE was
    BY <1>1, <2>1 DEF Widened
  <2>4. /\ mid.name = was.name /\ mid.nullable = was.nullable
        /\ mid.coalesced = was.coalesced /\ mid.merged = was.merged
        /\ mid.nullableFromEnclosing <=> (was.nullableFromEnclosing \/ (i \in side /\ was.merged))
    <3> HIDE DEF was, mid, i
    <3>1. CASE i \in side
      BY <2>2, <2>3, <3>1 DEF IsResolvedColumns
    <3>2. CASE i \notin side
      BY <2>2, <2>3, <3>2 DEF IsResolvedColumns
    <3> QED BY <3>1, <3>2
  <2>5. i \in DOMAIN old /\ j \in DOMAIN old[i].columns
    BY <1>1, <1>3, <2>1 DEF SameColumns
  <2>6. /\ is.name = mid.name
        /\ is.nullableFromEnclosing = mid.nullableFromEnclosing
        /\ is.coalesced <=> (mid.coalesced \/ (i = n + 1 /\ mid.name \in done))
        /\ is.merged <=> (mid.merged \/ (i <= n /\ mid.name \in done /\ ~mid.coalesced))
        /\ (i = n + 1 \/ mid.name \notin done \/ mid.coalesced) => is.nullable = mid.nullable
        /\ (i <= n /\ mid.name \in done /\ ~mid.coalesced /\ LoneLeft(old, n, i, j))
             => is.nullable = MergedNullable(kind, mid, ColumnNamed(old[n + 1], mid.name))
    <3> HIDE DEF i, j
    <3>1. is.name = mid.name
      BY <1>2, <2>5 DEF SameColumns
    <3> QED BY <3>1, <2>5 DEF Merging
  <2>7. ASSUME i <= n, was.name \in done,
               \A q \in Bases(rels, 1 .. n) : At(rels, q).name = was.name => q = p
        PROVE  /\ LoneLeft(old, n, i, j)
               /\ MergedNullable(kind, mid, ColumnNamed(old[n + 1], mid.name))
                    = MergedNullable(kind, was, ColumnNamed(rels[n + 1], was.name))
    <3>1. ASSUME NEW i2 \in 1 .. n, NEW j2 \in DOMAIN old[i2].columns,
                 old[i2].columns[j2].name = old[i].columns[j].name
          PROVE  i2 = i /\ j2 = j
      <4>1. i2 \in DOMAIN rels /\ j2 \in DOMAIN rels[i2].columns
            /\ rels[i2].columns[j2].name = was.name
        <5>1. i2 \in DOMAIN rels
          OBVIOUS
        <5> HIDE DEF was, mid
        <5> QED BY <5>1, <1>1, <2>4, <3>1 DEF SameColumns, mid
      <4>2. <<i2, j2>> \in Bases(rels, 1 .. n) /\ At(rels, <<i2, j2>>).name = was.name
        BY <4>1 DEF Bases, At
      <4>3. <<i2, j2>> = p
        BY <2>7, <4>2
      <4> QED BY <4>3, <2>1
    <3>2. LoneLeft(old, n, i, j)
      <4> HIDE DEF i, j
      <4> QED BY <3>1 DEF LoneLeft
    <3> HIDE DEF was, mid
    <3> QED BY <3>2, <1>5, <2>4, <2>7 DEF MergedNullable
  <2>8. At(rels, p) = was /\ At(new, p) = is
    BY DEF At
  <2> HIDE DEF was, mid, is, i, j
  <2>9. p[1] = i
    BY DEF i
  <2> QED BY <2>4, <2>6, <2>7, <2>8, <2>9
<1> QED BY <1>2, <1>3, <1>4, <1>6 DEF Joined

\* A relation of the left that is on no NULL side and has no merged name.
LEMMA MergeableMeans ==
  ASSUME NEW left, NEW right, NEW name
  PROVE  J!Mergeable(left, right, name)
           <=> (Cardinality(J!Named(left, name)) = 1 /\ Cardinality(J!Named(right, name)) = 1)
<1>1. \A S : J!Cardinality(S) = Cardinality(S)
  BY DEF J!Cardinality, Cardinality
<1> QED BY <1>1 DEF J!Mergeable

\* A merged column of the result, from the only two of its name.
MergedFrom(c, cl, cr, left, right) ==
  /\ cl.name = c.name /\ cr.name = c.name /\ c.parts = cl.parts \cup cr.parts
  /\ \A c2 \in left.columns : c2.name = c.name => c2 = cl
  /\ \A c2 \in right.columns : c2.name = c.name => c2 = cr

IsMerged(c, left, right) ==
  \E cl \in left.columns, cr \in right.columns : MergedFrom(c, cl, cr, left, right)

LEMMA JoinColumns ==
  ASSUME NEW left, NEW right, IsFiniteSet(left.columns), IsFiniteSet(right.columns),
         NEW kind, NEW names, \A name \in names : J!Mergeable(left, right, name),
         NEW ref, ref = J!Join(kind, left, right, names)
  PROVE  /\ \A c \in ref.columns :
              \/ c.name \notin names /\ (c \in left.columns \/ c \in right.columns)
              \/ c.name \in names /\ IsMerged(c, left, right)
                 /\ c = [name |-> c.name, parts |-> c.parts]
         /\ \A c \in left.columns \cup right.columns :
              IF c.name \notin names THEN c \in ref.columns
              ELSE \E m \in ref.columns : m.name = c.name
         /\ IsFiniteSet(ref.columns)
<1> DEFINE m(name) == [name |-> name,
                       parts |-> UNION {c.parts : c \in J!Named(left, name) \cup J!Named(right, name)}]
           plain == {c \in left.columns \cup right.columns : c.name \notin names}
<1>1. ref.columns = plain \cup {m(name) : name \in names}
  BY DEF J!Join
<1>2. ASSUME NEW S, IsFiniteSet(S.columns), NEW name, Cardinality(J!Named(S, name)) = 1
      PROVE \E c \in S.columns : c.name = name /\ J!Named(S, name) = {c}
                                 /\ \A c2 \in S.columns : c2.name = name => c2 = c
  <2>1. J!Named(S, name) \subseteq S.columns
    BY DEF J!Named
  <2>2. IsFiniteSet(J!Named(S, name))
    BY <1>2, <2>1, FS_Subset
  <2>3. PICK c : J!Named(S, name) = {c}
    BY <1>2, <2>2, FS_Singleton
  <2>4. c \in J!Named(S, name)
    BY <2>3
  <2> QED BY <2>3, <2>4 DEF J!Named
<1>3. ASSUME NEW name \in names
      PROVE  m(name).name = name /\ m(name) \in ref.columns /\ IsMerged(m(name), left, right)
  <2>1. Cardinality(J!Named(left, name)) = 1 /\ Cardinality(J!Named(right, name)) = 1
    <3>1. J!Mergeable(left, right, name)
      OBVIOUS
    <3> QED BY <3>1, MergeableMeans
  <2>2. PICK cl \in left.columns : /\ cl.name = name /\ J!Named(left, name) = {cl}
                                   /\ \A c2 \in left.columns : c2.name = name => c2 = cl
    BY <1>2, <2>1
  <2>3. PICK cr \in right.columns : /\ cr.name = name /\ J!Named(right, name) = {cr}
                                    /\ \A c2 \in right.columns : c2.name = name => c2 = cr
    BY <1>2, <2>1
  <2>4. J!Named(left, name) \cup J!Named(right, name) = {cl, cr}
    BY <2>2, <2>3
  <2>5. UNION {c.parts : c \in {cl, cr}} = cl.parts \cup cr.parts
    OBVIOUS
  <2>6. m(name).name = name /\ m(name).parts = cl.parts \cup cr.parts
    BY <2>4, <2>5
  <2>7. m(name) \in ref.columns
    BY <1>1
  <2> HIDE DEF m
  <2> QED BY <2>2, <2>3, <2>6, <2>7 DEF IsMerged, MergedFrom
<1>4. IsFiniteSet(ref.columns)
  <2>1. IsFiniteSet(left.columns \cup right.columns)
    <3> DEFINE L == left.columns
               R == right.columns
    <3> HIDE DEF L, R
    <3>1. IsFiniteSet(L) /\ IsFiniteSet(R)
      BY DEF L, R
    <3>2. IsFiniteSet(L \cup R)
      BY <3>1, FS_Union
    <3> QED BY <3>2 DEF L, R
  <2>2. IsFiniteSet(plain)
    BY <2>1, FS_Subset
  <2> DEFINE keys == {c \in left.columns : c.name \in names}
             new == {m(name) : name \in names}
             f == [c \in keys |-> m(c.name)]
  <2>3. IsFiniteSet(keys)
    BY FS_Subset
  <2>4. f \in [keys -> new]
    <3> HIDE DEF m
    <3> QED OBVIOUS
  <2>5. ASSUME NEW y \in new PROVE \E c \in keys : f[c] = y
    <3>1. PICK name \in names : y = m(name)
      OBVIOUS
    <3>2. Cardinality(J!Named(left, name)) = 1
      <4>1. J!Mergeable(left, right, name)
        OBVIOUS
      <4> QED BY <4>1, MergeableMeans
    <3>3. PICK cl \in left.columns : cl.name = name
      BY <1>2, <3>2
    <3> HIDE DEF m
    <3> QED BY <3>1, <3>3
  <2>6. IsFiniteSet(new)
    <3> HIDE DEF f, new, keys
    <3> QED BY <2>3, <2>4, <2>5, FiniteImage
  <2> HIDE DEF plain, new
  <2>7. IsFiniteSet(plain \cup new)
    BY <2>2, <2>6, FS_Union
  <2> QED BY <1>1, <2>7 DEF new
<1>5. ASSUME NEW c \in ref.columns
      PROVE  \/ c.name \notin names /\ (c \in left.columns \/ c \in right.columns)
             \/ c.name \in names /\ IsMerged(c, left, right)
                /\ c = [name |-> c.name, parts |-> c.parts]
  <2>1. CASE c \in plain
    BY <2>1
  <2>2. CASE c \in {m(name) : name \in names}
    <3>1. PICK name \in names : c = m(name)
      BY <2>2
    <3>2. c.name = name /\ IsMerged(c, left, right)
      <4> HIDE DEF m
      <4> QED BY <1>3, <3>1
    <3>3. c = [name |-> c.name, parts |-> c.parts]
      BY <3>1
    <3> QED BY <3>2, <3>3
  <2> QED BY <1>1, <2>1, <2>2
<1>6. ASSUME NEW c \in left.columns \cup right.columns
      PROVE  IF c.name \notin names THEN c \in ref.columns
             ELSE \E x \in ref.columns : x.name = c.name
  <2>1. CASE c.name \notin names
    BY <1>1, <2>1
  <2>2. CASE c.name \in names
    <3> HIDE DEF m
    <3> QED BY <1>3, <2>2
  <2> QED BY <2>1, <2>2
<1> QED BY <1>4, <1>5, <1>6

\* The columns of `names` are not NULL in the row.
Whole(ref, row, names) == \A c \in ref.columns : c.name \in names => ~(c.parts \subseteq row)

LEMMA JoinRows ==
  ASSUME NEW left, NEW right, NEW kind, NEW names, NEW ref, ref = J!Join(kind, left, right, names),
         NEW row
  PROVE  row \in ref.rows <=>
           \/ \E l \in left.rows, r \in right.rows :
                row = l \cup r /\ Whole(left, l, names) /\ Whole(right, r, names)
           \/ kind \in {"left", "full"} /\ \E l \in left.rows : row = l \cup J!Parts(right)
           \/ kind \in {"right", "full"} /\ \E r \in right.rows : row = J!Parts(left) \cup r
<1> DEFINE padRight == IF kind \in {"left", "full"}
                       THEN {l \cup J!Parts(right) : l \in left.rows} ELSE {}
           padLeft == IF kind \in {"right", "full"}
                      THEN {J!Parts(left) \cup r : r \in right.rows} ELSE {}
<1>1. ref.rows = J!Matched(left, right, names) \cup padRight \cup padLeft
  BY DEF J!Join
<1>2. row \in J!Matched(left, right, names) <=>
        \E l \in left.rows, r \in right.rows :
          row = l \cup r /\ Whole(left, l, names) /\ Whole(right, r, names)
  <2> DEFINE whole(s) == {x \in s.rows : Whole(s, x, names)}
  <2>1. J!Matched(left, right, names) = {l \cup r : l \in whole(left), r \in whole(right)}
    <3>1. ASSUME NEW s, NEW x
          PROVE  (\A c \in {d \in s.columns : d.name \in names} : ~J!IsNull(c, x)) <=> Whole(s, x, names)
      BY DEF Whole, J!IsNull
    <3> DEFINE w(s) == {x \in s.rows :
                          \A c \in {d \in s.columns : d.name \in names} : ~J!IsNull(c, x)}
    <3>2. J!Matched(left, right, names) = {l \cup r : l \in w(left), r \in w(right)}
      BY DEF J!Matched
    <3>3. w(left) = whole(left) /\ w(right) = whole(right)
      BY <3>1
    <3> QED BY <3>2, <3>3
  <2>2. row \in {l \cup r : l \in whole(left), r \in whole(right)}
          <=> \E l \in whole(left), r \in whole(right) : row = l \cup r
    OBVIOUS
  <2>3. (\E l \in whole(left), r \in whole(right) : row = l \cup r) <=>
          \E l \in left.rows, r \in right.rows :
            row = l \cup r /\ Whole(left, l, names) /\ Whole(right, r, names)
    OBVIOUS
  <2> QED BY <2>1, <2>2, <2>3
<1>3. row \in padRight
        <=> kind \in {"left", "full"} /\ \E l \in left.rows : row = l \cup J!Parts(right)
  OBVIOUS
<1>4. row \in padLeft
        <=> kind \in {"right", "full"} /\ \E r \in right.rows : row = J!Parts(left) \cup r
  OBVIOUS
<1> HIDE DEF padRight, padLeft
<1> QED BY <1>1, <1>2, <1>3, <1>4

LEMMA PartsShown ==
  ASSUME NEW rels, NEW range, NEW ref, Shows(ref, rels, range)
  PROVE  J!Parts(ref) = Bases(rels, range)
<1>1. \A p \in Bases(rels, range) : \E c \in ref.columns : p \in c.parts
  BY DEF Shows
<1>2. \A c \in ref.columns : \A p \in c.parts : p \in Bases(rels, range)
  BY DEF Shows
<1> QED BY <1>1, <1>2 DEF J!Parts

LEMMA SameBases ==
  ASSUME NEW rels, NEW new, SameColumns(rels, new), NEW range \in SUBSET DOMAIN rels
  PROVE  Bases(new, range) = Bases(rels, range)
BY DEF Bases, SameColumns

\* What a join does to the columns of its two sides.
JoinFlags(rels, new, n, a, side, names) ==
  /\ Bases(new, a + 1 .. n + 1) = Bases(rels, a + 1 .. n) \cup Bases(rels, {n + 1})
  /\ \A p \in Bases(rels, a + 1 .. n) :
       /\ p[1] \in a + 1 .. n
       /\ At(new, p).name = At(rels, p).name
       /\ At(new, p).coalesced <=> At(rels, p).coalesced
       /\ At(new, p).merged
            <=> (At(rels, p).merged \/ (At(rels, p).name \in names /\ ~At(rels, p).coalesced))
       /\ At(new, p).nullableFromEnclosing
            <=> (At(rels, p).nullableFromEnclosing \/ (p[1] \in side /\ At(rels, p).merged))
       /\ At(rels, p).name \notin names => At(new, p).nullable = At(rels, p).nullable
  /\ \A p \in Bases(rels, {n + 1}) :
       /\ p[1] = n + 1
       /\ At(new, p).name = At(rels, p).name
       /\ At(new, p).coalesced <=> (At(rels, p).coalesced \/ At(rels, p).name \in names)
       /\ At(new, p).merged <=> At(rels, p).merged
       /\ At(new, p).nullableFromEnclosing
            <=> (At(rels, p).nullableFromEnclosing \/ (p[1] \in side /\ At(rels, p).merged))
       /\ At(new, p).nullable = At(rels, p).nullable

LEMMA FlagsOfJoin ==
  ASSUME NEW rels \in Seq(Relation), NEW n \in Nat, Len(rels) = n + 1, NEW a \in 0 .. n,
         NEW kind, NEW side, NEW names, NEW new, Joined(rels, new, n, kind, side, names)
  PROVE  JoinFlags(rels, new, n, a, side, names)
<1>1. /\ a + 1 .. n \subseteq DOMAIN rels /\ {n + 1} \subseteq DOMAIN rels
      /\ a + 1 .. n + 1 \subseteq DOMAIN rels /\ a + 1 .. n + 1 = (a + 1 .. n) \cup {n + 1}
  OBVIOUS
<1>2. Bases(new, a + 1 .. n + 1) = Bases(rels, a + 1 .. n + 1)
  BY <1>1, SameBases DEF Joined
<1>3. Bases(rels, a + 1 .. n + 1) = Bases(rels, a + 1 .. n) \cup Bases(rels, {n + 1})
  BY <1>1 DEF Bases
<1>4. ASSUME NEW p \in Bases(rels, a + 1 .. n)
      PROVE  p[1] \in a + 1 .. n /\ p[1] \in 1 .. n /\ p[1] # n + 1 /\ p \in Bases(rels, DOMAIN rels)
  BY InBases
<1>5. ASSUME NEW p \in Bases(rels, {n + 1})
      PROVE  p[1] = n + 1 /\ ~(p[1] <= n) /\ p \in Bases(rels, DOMAIN rels)
  BY <1>1, InBases
<1>6. ASSUME NEW p \in Bases(rels, a + 1 .. n)
      PROVE  /\ At(new, p).name = At(rels, p).name
             /\ At(new, p).coalesced <=> At(rels, p).coalesced
             /\ At(new, p).merged
                  <=> (At(rels, p).merged \/ (At(rels, p).name \in names /\ ~At(rels, p).coalesced))
             /\ At(new, p).nullableFromEnclosing
                  <=> (At(rels, p).nullableFromEnclosing \/ (p[1] \in side /\ At(rels, p).merged))
             /\ At(rels, p).name \notin names => At(new, p).nullable = At(rels, p).nullable
  BY <1>4 DEF Joined
<1>7. ASSUME NEW p \in Bases(rels, {n + 1})
      PROVE  /\ At(new, p).name = At(rels, p).name
             /\ At(new, p).coalesced <=> (At(rels, p).coalesced \/ At(rels, p).name \in names)
             /\ At(new, p).merged <=> At(rels, p).merged
             /\ At(new, p).nullableFromEnclosing
                  <=> (At(rels, p).nullableFromEnclosing \/ (p[1] \in side /\ At(rels, p).merged))
             /\ At(new, p).nullable = At(rels, p).nullable
  BY <1>5 DEF Joined
<1> QED BY <1>2, <1>3, <1>4, <1>5, <1>6, <1>7 DEF JoinFlags

LEMMA JoinShows ==
  ASSUME NEW rels, NEW new, NEW n, NEW a, NEW side, NEW names, n + 1 \notin a + 1 .. n,
         JoinFlags(rels, new, n, a, side, names),
         NEW left, NEW right, Shows(left, rels, a + 1 .. n), Shows(right, rels, {n + 1}),
         \A name \in names : J!Mergeable(left, right, name),
         NEW kind, NEW ref, ref = J!Join(kind, left, right, names)
  PROVE  Shows(ref, new, a + 1 .. n + 1)
<1> DEFINE LB == Bases(rels, a + 1 .. n)
           RB == Bases(rels, {n + 1})
           Both == Bases(new, a + 1 .. n + 1)
<1>1. Both = LB \cup RB /\ \A p \in LB : \A q \in RB : p[1] # q[1] /\ p # q
  BY DEF JoinFlags
<1>2. /\ \A c \in left.columns : \A p \in c.parts : p \in LB /\ At(rels, p).name = c.name
      /\ \A c \in right.columns : \A p \in c.parts : p \in RB /\ At(rels, p).name = c.name
  BY DEF Shows
<1>3. /\ \A c \in ref.columns :
           \/ c.name \notin names /\ (c \in left.columns \/ c \in right.columns)
           \/ c.name \in names /\ IsMerged(c, left, right)
              /\ c = [name |-> c.name, parts |-> c.parts]
      /\ \A c \in left.columns \cup right.columns :
           IF c.name \notin names THEN c \in ref.columns
           ELSE \E m \in ref.columns : m.name = c.name
      /\ IsFiniteSet(ref.columns)
  <2>1. IsFiniteSet(left.columns) /\ IsFiniteSet(right.columns)
    BY DEF Shows
  <2> QED BY <2>1, JoinColumns
<1>4. \A p \in Both : At(new, p).name = At(rels, p).name
  BY <1>1 DEF JoinFlags
<1> HIDE DEF LB, RB, Both
<1>5. ASSUME NEW c \in ref.columns
      PROVE  /\ c.parts # {}
             /\ \A p \in c.parts : p \in Both /\ At(new, p).name = c.name
             /\ \E p \in c.parts : ~At(new, p).coalesced
             /\ \A p1, p2 \in c.parts :
                  /\ ~At(new, p1).coalesced /\ ~At(new, p2).coalesced => p1 = p2
                  /\ p1[1] = p2[1] => p1 = p2
                  /\ p1 # p2 /\ ~At(new, p1).coalesced => At(new, p1).merged
  <2>1. CASE c.name \notin names /\ c \in left.columns
    <3>1. \A p \in c.parts : /\ p \in LB /\ At(rels, p).name = c.name
                             /\ At(new, p).coalesced <=> At(rels, p).coalesced
                             /\ At(new, p).merged <=> At(rels, p).merged
      BY <1>2, <2>1 DEF JoinFlags, LB
    <3> QED BY <1>1, <1>4, <2>1, <3>1 DEF Shows
  <2>2. CASE c.name \notin names /\ c \in right.columns
    <3>1. \A p \in c.parts : /\ p \in RB /\ At(rels, p).name = c.name
                             /\ At(new, p).coalesced <=> At(rels, p).coalesced
                             /\ At(new, p).merged <=> At(rels, p).merged
      BY <1>2, <2>2 DEF JoinFlags, RB
    <3> QED BY <1>1, <1>4, <2>2, <3>1 DEF Shows
  <2>3. CASE c.name \in names /\ IsMerged(c, left, right)
    <3>1. PICK cl \in left.columns, cr \in right.columns : MergedFrom(c, cl, cr, left, right)
      BY <2>3 DEF IsMerged
    <3>2. c.parts = cl.parts \cup cr.parts /\ cl.name = c.name /\ cr.name = c.name
      BY <3>1 DEF MergedFrom
    <3>3. \A p \in cl.parts :
            /\ p \in LB /\ At(rels, p).name = c.name
            /\ At(new, p).coalesced <=> At(rels, p).coalesced
            /\ ~At(new, p).coalesced => At(new, p).merged
      BY <1>2, <2>3, <3>2 DEF JoinFlags, LB
    <3>4. \A p \in cr.parts : p \in RB /\ At(rels, p).name = c.name /\ At(new, p).coalesced
      BY <1>2, <2>3, <3>2 DEF JoinFlags, RB
    <3>5. /\ cl.parts # {}
          /\ \E p \in cl.parts : ~At(rels, p).coalesced
          /\ \A p1, p2 \in cl.parts :
               /\ ~At(rels, p1).coalesced /\ ~At(rels, p2).coalesced => p1 = p2
               /\ p1[1] = p2[1] => p1 = p2
          /\ \A p1, p2 \in cr.parts : p1[1] = p2[1] => p1 = p2
      BY DEF Shows
    <3>6. \A p1, p2 \in c.parts : p1[1] = p2[1] => p1 = p2
      BY <1>1, <3>2, <3>3, <3>4, <3>5
    <3> QED BY <1>1, <1>4, <3>2, <3>3, <3>4, <3>5, <3>6
  <2> QED BY <1>3, <2>1, <2>2, <2>3
<1>6. ASSUME NEW p \in Both PROVE \E c \in ref.columns : p \in c.parts
  <2>1. PICK c0 \in left.columns \cup right.columns : p \in c0.parts
    BY <1>1 DEF Shows, LB, RB
  <2>2. CASE c0.name \notin names
    BY <1>3, <2>1, <2>2
  <2>3. CASE c0.name \in names
    <3>1. PICK m \in ref.columns : m.name = c0.name
      BY <1>3, <2>3
    <3>2. IsMerged(m, left, right)
      BY <1>3, <2>3, <3>1
    <3>3. PICK cl \in left.columns, cr \in right.columns : MergedFrom(m, cl, cr, left, right)
      BY <3>2 DEF IsMerged
    <3>4. c0 = cl \/ c0 = cr
      BY <3>1, <3>3 DEF MergedFrom
    <3> QED BY <2>1, <3>3, <3>4 DEF MergedFrom
  <2> QED BY <2>2, <2>3
<1>7. ASSUME NEW c1 \in ref.columns, NEW c2 \in ref.columns, NEW p \in c1.parts, p \in c2.parts
      PROVE  c1 = c2
  <2>1. c1.name = c2.name
    BY <1>5, <1>7
  <2>2. CASE c1.name \notin names
    <3>1. ~(c1 \in left.columns /\ c2 \in right.columns)
      BY <1>1, <1>2, <1>7
    <3>2. ~(c2 \in left.columns /\ c1 \in right.columns)
      BY <1>1, <1>2, <1>7
    <3>3. \/ c1 \in left.columns /\ c2 \in left.columns
          \/ c1 \in right.columns /\ c2 \in right.columns
      BY <1>3, <2>1, <2>2, <3>1, <3>2
    <3> QED BY <1>7, <3>3 DEF Shows
  <2>3. CASE c1.name \in names
    <3>1. PICK cl \in left.columns, cr \in right.columns : MergedFrom(c1, cl, cr, left, right)
      BY <1>3, <2>3 DEF IsMerged
    <3>2. PICK dl \in left.columns, dr \in right.columns : MergedFrom(c2, dl, dr, left, right)
      BY <1>3, <2>1, <2>3 DEF IsMerged
    <3>3. cl = dl /\ cr = dr
      BY <2>1, <3>1, <3>2 DEF MergedFrom
    <3>4. c1.parts = c2.parts
      BY <3>1, <3>2, <3>3 DEF MergedFrom
    <3>5. c1 = [name |-> c1.name, parts |-> c1.parts] /\ c2 = [name |-> c2.name, parts |-> c2.parts]
      BY <1>3, <2>1, <2>3
    <3> QED BY <2>1, <3>4, <3>5
  <2> QED BY <2>2, <2>3
<1>8. ASSUME NEW row \in ref.rows PROVE row \subseteq Both
  <2>1. J!Parts(left) = LB /\ J!Parts(right) = RB
    BY PartsShown DEF LB, RB
  <2>2. (\A l \in left.rows : l \subseteq LB) /\ (\A r \in right.rows : r \subseteq RB)
    BY DEF Shows, LB, RB
  <2>3. \/ \E l \in left.rows, r \in right.rows : row = l \cup r
        \/ \E l \in left.rows : row = l \cup J!Parts(right)
        \/ \E r \in right.rows : row = J!Parts(left) \cup r
    BY JoinRows
  <2> QED BY <1>1, <2>1, <2>2, <2>3
<1>9. ASSUME NEW p1 \in Both, NEW p2 \in Both, At(new, p1).coalesced, p1[1] = p2[1],
             At(new, p1).name = At(new, p2).name
      PROVE  p1 = p2
  <2>1. At(rels, p1).name = At(rels, p2).name
    BY <1>4, <1>9
  <2>2. CASE p1 \in LB
    <3>1. p2 \in LB /\ At(rels, p1).coalesced
      BY <1>1, <1>9, <2>2 DEF JoinFlags, LB
    <3> QED BY <1>9, <2>1, <2>2, <3>1 DEF Shows, LB
  <2>3. CASE p1 \in RB
    <3>1. p2 \in RB /\ (At(rels, p1).coalesced \/ At(rels, p1).name \in names)
      BY <1>1, <1>9, <2>3 DEF JoinFlags, RB
    <3>2. CASE At(rels, p1).coalesced
      BY <1>9, <2>1, <2>3, <3>1, <3>2 DEF Shows, RB
    <3>3. CASE At(rels, p1).name \in names
      <4>1. PICK c1 \in right.columns : p1 \in c1.parts
        BY <2>3 DEF Shows, RB
      <4>2. PICK c2 \in right.columns : p2 \in c2.parts
        BY <3>1 DEF Shows, RB
      <4>3. c1.name = At(rels, p1).name /\ c2.name = c1.name
        BY <1>2, <2>1, <4>1, <4>2
      <4>4. PICK m \in ref.columns : m.name = c1.name
        BY <1>3, <3>3, <4>3
      <4>5. PICK cl \in left.columns, cr \in right.columns : MergedFrom(m, cl, cr, left, right)
        BY <1>3, <3>3, <4>3, <4>4 DEF IsMerged
      <4>6. c1 = c2
        BY <4>3, <4>4, <4>5 DEF MergedFrom
      <4> QED BY <1>9, <4>1, <4>2, <4>6 DEF Shows
    <3> QED BY <3>1, <3>2, <3>3
  <2> QED BY <1>1, <2>2, <2>3
<1> QED BY <1>3, <1>5, <1>6, <1>7, <1>8, <1>9 DEF Shows, Both

\* The base columns a merged column is made of, and the nullability the left one is given.
Keyed(rels, new, kind, left, c, pl, pr) ==
  /\ c.parts = {pl, pr}
  /\ At(rels, pl).name = c.name /\ At(rels, pr).name = c.name /\ ~At(rels, pl).coalesced
  /\ \E cl \in left.columns : cl.parts = {pl} /\ cl.name = c.name
  /\ At(new, pl).nullable = MergedNullable(kind, At(rels, pl), At(rels, pr))

\* The names a join merges are each in one relation of the left that no join nullified.
FreshKeys(rels, n, names) ==
  \A p \in Bases(rels, 1 .. n) : At(rels, p).name \in names =>
    /\ ~rels[p[1]].nullableFromJoin
    /\ \A q \in Bases(rels, 1 .. n) : At(rels, q).name = At(rels, p).name => q[1] = p[1]

LEMMA KeyParts ==
  ASSUME NEW rels \in Seq(Relation), NEW n \in Nat, Len(rels) = n + 1, NEW a \in 0 .. n,
         NEW kind, NEW side, NEW names, NEW new, Joined(rels, new, n, kind, side, names),
         NEW left, NEW right, Shows(left, rels, a + 1 .. n), Shows(right, rels, {n + 1}),
         FreshKeys(rels, n, names),
         NEW c, c.name \in names, IsMerged(c, left, right)
  PROVE  \E pl \in Bases(rels, a + 1 .. n), pr \in Bases(rels, {n + 1}) :
           Keyed(rels, new, kind, left, c, pl, pr)
<1> DEFINE LB == Bases(rels, a + 1 .. n)
           RB == Bases(rels, {n + 1})
<1>1. PICK cl \in left.columns, cr \in right.columns : MergedFrom(c, cl, cr, left, right)
  BY DEF IsMerged
<1>2. /\ \A s \in left.columns : \A p \in s.parts : p \in LB /\ At(rels, p).name = s.name
      /\ \A s \in right.columns : \A p \in s.parts : p \in RB /\ At(rels, p).name = s.name
      /\ \A p \in LB : \E s \in left.columns : p \in s.parts
      /\ \A p \in RB : \E s \in right.columns : p \in s.parts
  BY DEF Shows
<1>3. PICK pl \in cl.parts : ~At(rels, pl).coalesced
  BY DEF Shows
<1>4. PICK pr \in cr.parts : TRUE
  BY DEF Shows
<1>5. \A p \in LB : p[1] \in a + 1 .. n /\ p \in Bases(rels, 1 .. n) /\ p \in Bases(rels, DOMAIN rels)
  BY InBases
<1>6. \A p \in RB : p[1] = n + 1
  BY InBases
<1>7. cl.name = c.name /\ cr.name = c.name /\ c.parts = cl.parts \cup cr.parts
  BY <1>1 DEF MergedFrom
<1>8. ASSUME NEW q \in Bases(rels, 1 .. n), At(rels, q).name = c.name PROVE q = pl
  <2>1. pl \in LB /\ At(rels, pl).name = c.name
    BY <1>2, <1>7
  <2>2. q[1] = pl[1]
    BY <1>5, <1>8, <2>1 DEF FreshKeys
  <2>3. q \in LB
    BY <1>5, <2>1, <2>2, InBases
  <2>4. PICK s \in left.columns : q \in s.parts
    BY <1>2, <2>3
  <2>5. s = cl
    BY <1>1, <1>2, <1>8, <2>4 DEF MergedFrom
  <2> QED BY <2>2, <2>4, <2>5 DEF Shows
<1>9. cl.parts = {pl}
  BY <1>2, <1>5, <1>7, <1>8
<1>10. cr.parts = {pr}
  <2>1. \A q \in cr.parts : q[1] = n + 1
    BY <1>2, <1>6
  <2> QED BY <2>1 DEF Shows
<1>11. ColumnNamed(rels[n + 1], c.name) = At(rels, pr)
  <2> DEFINE j == FindColumnNamed(rels[n + 1], c.name)
             q == <<n + 1, j>>
  <2>1. n + 1 \in DOMAIN rels /\ pr = <<pr[1], pr[2]>> /\ pr[1] = n + 1
        /\ pr[2] \in DOMAIN rels[n + 1].columns /\ At(rels, pr).name = c.name
    BY <1>2, <1>7, InBases
  <2>2. HasColumnNamed(rels[n + 1], c.name)
    BY <2>1 DEF HasColumnNamed, PositionsOf, At
  <2>3. j \in DOMAIN rels[n + 1].columns /\ rels[n + 1].columns[j].name = c.name
    BY <2>1, <2>2, FoundFirst
  <2> HIDE DEF j
  <2>4. q \in RB /\ At(rels, q).name = c.name /\ q[1] = n + 1 /\ q[2] = j
    BY <2>3 DEF Bases, At
  <2> HIDE DEF q
  <2>5. PICK s \in right.columns : q \in s.parts
    BY <1>2, <2>4
  <2>6. s = cr
    BY <1>1, <1>2, <2>4, <2>5 DEF MergedFrom
  <2>7. q = pr
    BY <1>10, <2>5, <2>6
  <2> QED BY <2>4, <2>7 DEF ColumnNamed, At, j
<1>12. pl \in LB /\ pr \in RB /\ At(rels, pl).name = c.name /\ At(rels, pr).name = c.name
  BY <1>2, <1>7
<1>13. At(new, pl).nullable = MergedNullable(kind, At(rels, pl), At(rels, pr))
  <2>1. pl \in Bases(rels, DOMAIN rels) /\ pl[1] <= n
    BY <1>5, <1>12
  <2>2. \A q \in Bases(rels, 1 .. n) : At(rels, q).name = At(rels, pl).name => q = pl
    BY <1>8, <1>12
  <2> QED BY <1>3, <1>11, <1>12, <2>1, <2>2 DEF Joined
<1>14. c.parts = {pl, pr}
  BY <1>7, <1>9, <1>10
<1>15. Keyed(rels, new, kind, left, c, pl, pr)
  BY <1>3, <1>7, <1>9, <1>12, <1>13, <1>14 DEF Keyed
<1> QED BY <1>12, <1>15

\* Rows of the sides that stay rows, and those an outer join pads.
LEMMA JoinReaches ==
  ASSUME NEW rels \in Seq(Relation), NEW n \in Nat, Len(rels) = n + 1, NEW a \in 0 .. n,
         NEW kind, NEW side, side = NullSide(kind, a, n),
         NEW names, NEW new, Joined(rels, new, n, kind, side, names),
         NEW left, NEW right, Shows(left, rels, a + 1 .. n), Shows(right, rels, {n + 1}),
         {} \in left.rows, {} \in right.rows,
         FreshKeys(rels, n, names),
         NEW ref, ref = J!Join(kind, left, right, names), NEW set
  PROVE  /\ {} \in ref.rows
         /\ Reached(left, rels, set) => Reached(ref, new, set)
         /\ kind \in {"right", "full"} /\ set \subseteq Bases(rels, a + 1 .. n) => Reached(ref, new, set)
         /\ kind \in {"left", "full"} /\ set \subseteq Bases(rels, {n + 1}) => Reached(ref, new, set)
<1>1. /\ \A i \in DOMAIN rels : new[i].nullableFromJoin <=> (rels[i].nullableFromJoin \/ i \in side)
      /\ kind \in {"right", "full"} => \A i \in a + 1 .. n : i \in side
      /\ kind \in {"left", "full"} => n + 1 \in side
      /\ a + 1 .. n \subseteq DOMAIN rels /\ n + 1 \in DOMAIN rels
  BY DEF Joined, NullSide
<1>2. /\ \A p \in Bases(rels, a + 1 .. n) : p[1] \in a + 1 .. n /\ p \in Bases(rels, 1 .. n)
      /\ \A p \in Bases(rels, {n + 1}) : p[1] = n + 1
  BY InBases
<1>3. Whole(right, {}, names)
  BY DEF Whole, Shows
<1>4. ASSUME NEW l \in left.rows, Whole(left, l, names) PROVE l \in ref.rows
  <2>1. l = l \cup {}
    OBVIOUS
  <2> QED BY <1>3, <1>4, <2>1, JoinRows
<1>5. {} \in ref.rows
  <2>1. Whole(left, {}, names)
    BY DEF Whole, Shows
  <2> QED BY <1>4, <2>1
<1>6. ASSUME Reached(left, rels, set) PROVE Reached(ref, new, set)
  <2>1. PICK l \in left.rows : set \subseteq l /\ \A p \in l : rels[p[1]].nullableFromJoin
    BY <1>6 DEF Reached
  <2>2. ASSUME NEW c \in left.columns, c.name \in names, c.parts \subseteq l PROVE FALSE
    <3>1. PICK p \in c.parts : TRUE
      BY DEF Shows
    <3>2. p \in Bases(rels, a + 1 .. n) /\ At(rels, p).name = c.name
      BY DEF Shows
    <3>3. ~rels[p[1]].nullableFromJoin
      BY <1>2, <2>2, <3>2 DEF FreshKeys
    <3> QED BY <2>1, <2>2, <3>3
  <2>3. l \in ref.rows
    BY <1>4, <2>2 DEF Whole
  <2>4. \A p \in l : p[1] \in DOMAIN rels
    BY <1>1, <1>2 DEF Shows
  <2> QED BY <1>1, <2>1, <2>3, <2>4 DEF Reached
<1>7. ASSUME kind \in {"right", "full"}, set \subseteq Bases(rels, a + 1 .. n)
      PROVE  Reached(ref, new, set)
  <2> DEFINE row == J!Parts(left)
  <2>1. row = Bases(rels, a + 1 .. n)
    BY PartsShown
  <2>2. row = J!Parts(left) \cup {}
    OBVIOUS
  <2>3. row \in ref.rows
    <3>1. \E r \in right.rows : row = J!Parts(left) \cup r
      BY <2>2
    <3> HIDE DEF row
    <3> QED BY <1>7, <3>1, JoinRows
  <2> HIDE DEF row
  <2>4. \A p \in row : new[p[1]].nullableFromJoin
    BY <1>1, <1>2, <1>7, <2>1
  <2> QED BY <1>7, <2>1, <2>3, <2>4 DEF Reached
<1>8. ASSUME kind \in {"left", "full"}, set \subseteq Bases(rels, {n + 1})
      PROVE  Reached(ref, new, set)
  <2> DEFINE row == J!Parts(right)
  <2>1. row = Bases(rels, {n + 1})
    BY PartsShown
  <2>2. row = {} \cup J!Parts(right)
    OBVIOUS
  <2>3. row \in ref.rows
    <3>1. \E l \in left.rows : row = l \cup J!Parts(right)
      BY <2>2
    <3> HIDE DEF row
    <3> QED BY <1>8, <3>1, JoinRows
  <2> HIDE DEF row
  <2>4. \A p \in row : new[p[1]].nullableFromJoin
    BY <1>1, <1>2, <1>8, <2>1
  <2> QED BY <1>8, <2>1, <2>3, <2>4 DEF Reached
<1> QED BY <1>5, <1>6, <1>7, <1>8

LEMMA JoinValues ==
  ASSUME NEW rels \in Seq(Relation), NEW n \in Nat, Len(rels) = n + 1, NEW a \in 0 .. n,
         NEW kind, NEW side, side = NullSide(kind, a, n),
         NEW names, NEW new, Joined(rels, new, n, kind, side, names),
         NEW left, NEW right, Shows(left, rels, a + 1 .. n), Shows(right, rels, {n + 1}),
         \A name \in names : J!Mergeable(left, right, name),
         FreshKeys(rels, n, names),
         NEW outputs, Values(outputs, left, rels, a + 1 .. n), Values(outputs, right, rels, {n + 1}),
         ~rels[n + 1].nullableFromJoin,
         \A p \in Bases(rels, {n + 1}) : GivenAt(outputs, rels, p) = At(rels, p),
         \A p \in Bases(rels, a + 1 .. n + 1) :
           At(rels, p).nullableFromEnclosing => At(rels, p).merged,
         NEW ref, ref = J!Join(kind, left, right, names)
  PROVE  Values(outputs, ref, new, a + 1 .. n + 1)
<1> DEFINE LB == Bases(rels, a + 1 .. n)
           RB == Bases(rels, {n + 1})
           Both == Bases(new, a + 1 .. n + 1)
           padsLeft == kind \in {"right", "full"}
           padsRight == kind \in {"left", "full"}
           Claims(c, p) ==
             /\ ~BareNullable(new[p[1]], p[2]) => \A row \in ref.rows : ~(c.parts \subseteq row)
             /\ At(new, p).nullableFromEnclosing
                  => \/ \E q \in c.parts : GivenAt(outputs, new, q).merged
                     \/ Reached(ref, new, c.parts)
             /\ At(new, p).merged
                  => \/ \E q \in c.parts : GivenAt(outputs, new, q).merged
                                           \/ GivenAt(outputs, new, q).nullable
                     \/ ~At(new, p).nullable
             /\ At(new, p).merged /\ c.parts = {p} => GivenAt(outputs, new, p).merged
<1>1. /\ \A i \in a + 1 .. n : i \in side <=> padsLeft
      /\ n + 1 \in side <=> padsRight
      /\ a + 1 .. n \subseteq DOMAIN rels /\ n + 1 \in DOMAIN rels /\ n + 1 \notin a + 1 .. n
      /\ a + 1 .. n + 1 = (a + 1 .. n) \cup {n + 1} /\ a + 1 .. n \subseteq 1 .. n
  BY DEF NullSide
<1>2. JoinFlags(rels, new, n, a, side, names)
  BY FlagsOfJoin
<1>3. /\ Both = LB \cup RB
      /\ \A p \in LB : p[1] \in a + 1 .. n /\ p \notin RB
      /\ \A p \in RB : p[1] = n + 1 /\ p \notin LB
  BY <1>1, <1>2 DEF JoinFlags
<1>4. /\ \A i \in a + 1 .. n : new[i].nullableFromJoin <=> (rels[i].nullableFromJoin \/ padsLeft)
      /\ new[n + 1].nullableFromJoin <=> padsRight
  BY <1>1 DEF Joined
<1>5. \A p \in Both : GivenAt(outputs, new, p) = GivenAt(outputs, rels, p)
  <2>1. \A p \in Both : p[1] \in DOMAIN rels
    BY <1>1, <1>3
  <2> QED BY <2>1 DEF GivenAt, Joined, SameColumns
<1>6. /\ \A p \in LB : At(rels, p).nullable \in BOOLEAN
      /\ \A p \in RB : At(rels, p).nullable \in BOOLEAN
  <2>1. /\ \A p \in LB : At(rels, p) \in IsResolvedColumns(Name)
        /\ \A p \in RB : At(rels, p) \in IsResolvedColumns(Name)
    <3>1. a + 1 .. n \in SUBSET DOMAIN rels /\ {n + 1} \in SUBSET DOMAIN rels
      BY <1>1
    <3> QED BY <3>1, BasesTyped
  <2> QED BY <2>1 DEF IsResolvedColumns
<1>7. /\ \A c \in left.columns : \A p \in c.parts : p \in LB /\ At(rels, p).name = c.name
      /\ \A c \in right.columns : \A p \in c.parts : p \in RB /\ At(rels, p).name = c.name
      /\ \A row \in left.rows : row \subseteq LB
      /\ \A row \in right.rows : row \subseteq RB
      /\ J!Parts(left) = LB /\ J!Parts(right) = RB
  <2>1. J!Parts(left) = LB /\ J!Parts(right) = RB
    BY PartsShown
  <2> HIDE DEF Claims
  <2> QED BY <2>1 DEF Shows
<1>8. {} \in left.rows /\ {} \in right.rows
  BY DEF Values
<1>9. /\ {} \in ref.rows
      /\ \A set : Reached(left, rels, set) => Reached(ref, new, set)
      /\ \A set \in SUBSET LB : padsLeft => Reached(ref, new, set)
      /\ \A set \in SUBSET RB : padsRight => Reached(ref, new, set)
  BY <1>8, JoinReaches
<1> HIDE DEF Claims, LB, RB, Both, padsLeft, padsRight
<1>10. \A row : row \in ref.rows <=>
         \/ \E l \in left.rows, r \in right.rows :
              row = l \cup r /\ Whole(left, l, names) /\ Whole(right, r, names)
         \/ padsRight /\ \E l \in left.rows : row = l \cup RB
         \/ padsLeft /\ \E r \in right.rows : row = LB \cup r
  BY <1>7, JoinRows DEF padsLeft, padsRight
<1>11. ASSUME ~padsLeft, NEW row \in ref.rows
       PROVE  \E l \in left.rows : row \cap LB = l
  <2>1. CASE \E l \in left.rows, r \in right.rows : row = l \cup r
    <3>1. PICK l \in left.rows, r \in right.rows : row = l \cup r
      BY <2>1
    <3>2. row \cap LB = l
      BY <1>3, <1>7, <3>1
    <3> QED BY <3>2
  <2>2. CASE \E l \in left.rows : row = l \cup RB
    <3>1. PICK l \in left.rows : row = l \cup RB
      BY <2>2
    <3>2. row \cap LB = l
      BY <1>3, <1>7, <3>1
    <3> QED BY <3>2
  <2> QED BY <1>10, <1>11, <2>1, <2>2
<1>12. ASSUME ~padsRight, NEW row \in ref.rows
       PROVE  \E r \in right.rows : row \cap RB = r
  <2>1. CASE \E l \in left.rows, r \in right.rows : row = l \cup r
    <3>1. PICK l \in left.rows, r \in right.rows : row = l \cup r
      BY <2>1
    <3>2. row \cap RB = r
      BY <1>3, <1>7, <3>1
    <3> QED BY <3>2
  <2>2. CASE \E r \in right.rows : row = LB \cup r
    <3>1. PICK r \in right.rows : row = LB \cup r
      BY <2>2
    <3>2. row \cap RB = r
      BY <1>3, <1>7, <3>1
    <3> QED BY <3>2
  <2> QED BY <1>10, <1>12, <2>1, <2>2
<1>13. \A i \in a + 1 .. n + 1 :
         Bases(new, {i}) = Bases(rels, {i}) /\ (i \in a + 1 .. n => Bases(rels, {i}) \subseteq LB)
  <2>1. \A i \in a + 1 .. n + 1 : {i} \in SUBSET DOMAIN rels
    BY <1>1
  <2>2. \A i \in a + 1 .. n + 1 : Bases(new, {i}) = Bases(rels, {i})
    BY <2>1, SameBases DEF Joined
  <2>3. \A i \in a + 1 .. n : Bases(rels, {i}) \subseteq LB
    BY DEF Bases, LB
  <2> QED BY <2>2, <2>3
<1>14. ASSUME NEW c \in ref.columns, c.name \in names
       PROVE  \E pl \in LB, pr \in RB : Keyed(rels, new, kind, left, c, pl, pr)
  <2>1. IsMerged(c, left, right)
    <3>1. IsFiniteSet(left.columns) /\ IsFiniteSet(right.columns)
      BY DEF Shows
    <3> QED BY <1>14, <3>1, JoinColumns
  <2> QED BY <1>14, <2>1, KeyParts DEF LB, RB
<1>15. \A c \in ref.columns :
         \/ c.name \notin names /\ (c \in left.columns \/ c \in right.columns)
         \/ c.name \in names
  <2>1. IsFiniteSet(left.columns) /\ IsFiniteSet(right.columns)
    BY DEF Shows
  <2> QED BY <2>1, JoinColumns
<1>16. ASSUME NEW p \in LB, At(rels, p).name \in names
       PROVE  \E m \in ref.columns, pl \in LB, pr \in RB :
                /\ m.name = At(rels, p).name
                /\ Keyed(rels, new, kind, left, m, pl, pr)
                /\ p = pl
  <2>1. PICK c \in left.columns : p \in c.parts /\ c.name = At(rels, p).name
    BY <1>7 DEF Shows, LB
  <2>2. IsFiniteSet(left.columns) /\ IsFiniteSet(right.columns)
    BY DEF Shows
  <2>3. PICK m \in ref.columns : m.name = c.name
    <3> QED BY <1>16, <2>1, <2>2, JoinColumns
  <2>4. \A d \in left.columns : d.name = c.name => d = c
    <3>1. IsMerged(m, left, right)
      <4> QED BY <1>16, <2>1, <2>2, <2>3, JoinColumns
    <3> QED BY <2>3, <3>1 DEF IsMerged, MergedFrom
  <2>5. PICK pl \in LB, pr \in RB : Keyed(rels, new, kind, left, m, pl, pr)
    BY <1>14, <1>16, <2>1, <2>3
  <2>6. p = pl
    BY <2>1, <2>3, <2>4, <2>5 DEF Keyed
  <2> QED BY <2>1, <2>3, <2>5, <2>6
<1>17. \A p \in LB : At(rels, p).name \in names => ~rels[p[1]].nullableFromJoin
  <2>1. LB \subseteq Bases(rels, 1 .. n)
    BY <1>1 DEF Bases, LB
  <2> QED BY <2>1 DEF FreshKeys
\* Without a NULL side on the left, merging leaves the left's nullability.
<1>18. ASSUME NEW p \in LB, ~padsLeft PROVE At(new, p).nullable = At(rels, p).nullable
  <2>1. CASE At(rels, p).name \notin names
    BY <1>2, <2>1 DEF JoinFlags, LB
  <2>2. CASE At(rels, p).name \in names
    <3>1. PICK pr \in RB : At(new, p).nullable = MergedNullable(kind, At(rels, p), At(rels, pr))
      BY <1>16, <2>2 DEF Keyed
    <3> QED BY <1>18, <3>1 DEF MergedNullable, padsLeft
  <2> QED BY <2>1, <2>2
<1>19. ASSUME NEW p \in Both
       PROVE  /\ ~QualifiedNullable(new[p[1]], p[2]) => \A row \in ref.rows : p \notin row
              /\ ~new[p[1]].nullableFromJoin /\ ~GivenAt(outputs, new, p).nullable
                   => ~At(new, p).nullable
  <2>1. /\ QualifiedNullable(new[p[1]], p[2])
             <=> (At(new, p).nullable \/ new[p[1]].nullableFromJoin)
        /\ QualifiedNullable(rels[p[1]], p[2])
             <=> (At(rels, p).nullable \/ rels[p[1]].nullableFromJoin)
    BY DEF QualifiedNullable, At
  <2>2. CASE p \in LB
    <3>1. ASSUME ~new[p[1]].nullableFromJoin
          PROVE  /\ ~padsLeft /\ ~rels[p[1]].nullableFromJoin
                 /\ At(new, p).nullable = At(rels, p).nullable
      BY <1>3, <1>4, <1>18, <2>2, <3>1
    <3>2. /\ ~QualifiedNullable(rels[p[1]], p[2]) => \A l \in left.rows : p \notin l
          /\ ~rels[p[1]].nullableFromJoin /\ ~GivenAt(outputs, rels, p).nullable
               => ~At(rels, p).nullable
      BY <2>2 DEF Values, LB
    <3>3. ASSUME ~QualifiedNullable(new[p[1]], p[2]), NEW row \in ref.rows PROVE p \notin row
      <4>1. ~padsLeft /\ ~QualifiedNullable(rels[p[1]], p[2])
        BY <2>1, <3>1, <3>3
      <4>2. PICK l \in left.rows : row \cap LB = l
        BY <1>11, <4>1
      <4> QED BY <2>2, <3>2, <4>1, <4>2
    <3>4. ~new[p[1]].nullableFromJoin /\ ~GivenAt(outputs, new, p).nullable => ~At(new, p).nullable
      BY <1>5, <3>1, <3>2
    <3> QED BY <3>3, <3>4
  <2>3. CASE p \in RB
    <3>1. At(new, p).nullable = At(rels, p).nullable
      BY <1>2, <2>3 DEF JoinFlags, RB
    <3>2. new[p[1]].nullableFromJoin <=> padsRight
      BY <1>3, <1>4, <2>3
    <3>3. /\ ~QualifiedNullable(rels[p[1]], p[2]) => \A r \in right.rows : p \notin r
          /\ ~rels[p[1]].nullableFromJoin /\ ~GivenAt(outputs, rels, p).nullable
               => ~At(rels, p).nullable
          /\ ~rels[p[1]].nullableFromJoin
      BY <1>3, <2>3 DEF Values, RB
    <3>4. ASSUME ~QualifiedNullable(new[p[1]], p[2]), NEW row \in ref.rows PROVE p \notin row
      <4>1. ~padsRight /\ ~QualifiedNullable(rels[p[1]], p[2])
        BY <2>1, <3>1, <3>2, <3>3, <3>4
      <4>2. PICK r \in right.rows : row \cap RB = r
        BY <1>12, <4>1
      <4> QED BY <2>3, <3>3, <4>1, <4>2
    <3>5. ~new[p[1]].nullableFromJoin /\ ~GivenAt(outputs, new, p).nullable => ~At(new, p).nullable
      BY <1>5, <3>1, <3>3
    <3> QED BY <3>4, <3>5
  <2> QED BY <1>3, <2>2, <2>3
<1>20. ASSUME NEW p
       PROVE  /\ BareNullable(new[p[1]], p[2]) <=>
                   (At(new, p).nullable \/ IF At(new, p).merged THEN At(new, p).nullableFromEnclosing
                                           ELSE new[p[1]].nullableFromJoin)
              /\ BareNullable(rels[p[1]], p[2]) <=>
                   (At(rels, p).nullable \/ IF At(rels, p).merged THEN At(rels, p).nullableFromEnclosing
                                            ELSE rels[p[1]].nullableFromJoin)
  BY DEF BareNullable, At
\* A column of the left that is not merged.
<1>21. ASSUME NEW c \in ref.columns, c.name \notin names, c \in left.columns,
              NEW p \in c.parts, ~At(new, p).coalesced
       PROVE  Claims(c, p)
  <2>1. /\ p \in LB /\ p[1] \in a + 1 .. n /\ At(rels, p).name \notin names
        /\ \A q \in c.parts : q \in LB /\ q \in Both
    BY <1>3, <1>7, <1>21
  <2>2. /\ ~At(rels, p).coalesced
        /\ At(new, p).merged <=> At(rels, p).merged
        /\ At(new, p).nullable = At(rels, p).nullable
        /\ At(new, p).nullableFromEnclosing
             <=> (At(rels, p).nullableFromEnclosing \/ (padsLeft /\ At(rels, p).merged))
        /\ new[p[1]].nullableFromJoin <=> (rels[p[1]].nullableFromJoin \/ padsLeft)
    BY <1>1, <1>2, <1>4, <1>21, <2>1 DEF JoinFlags, LB
  <2>3. /\ ~BareNullable(rels[p[1]], p[2]) => \A l \in left.rows : ~(c.parts \subseteq l)
        /\ At(rels, p).nullableFromEnclosing
             => \/ \E q \in c.parts : GivenAt(outputs, rels, q).merged
                \/ Reached(left, rels, c.parts)
        /\ At(rels, p).merged
             => \/ \E q \in c.parts : GivenAt(outputs, rels, q).merged
                                      \/ GivenAt(outputs, rels, q).nullable
                \/ ~At(rels, p).nullable
        /\ At(rels, p).merged /\ c.parts = {p} => GivenAt(outputs, rels, p).merged
    BY <1>21, <2>2 DEF Values
  <2>4. \A q \in c.parts : GivenAt(outputs, new, q) = GivenAt(outputs, rels, q)
    BY <1>5, <2>1
  <2>5. ASSUME ~BareNullable(new[p[1]], p[2]), NEW row \in ref.rows, c.parts \subseteq row PROVE FALSE
    <3>1. ~padsLeft /\ ~BareNullable(rels[p[1]], p[2])
      BY <1>20, <2>2, <2>5
    <3>2. PICK l \in left.rows : row \cap LB = l
      BY <1>11, <3>1
    <3>3. c.parts \subseteq l
      BY <2>1, <2>5, <3>2
    <3> QED BY <2>3, <3>1, <3>3
  <2>6. At(new, p).nullableFromEnclosing
          => \/ \E q \in c.parts : GivenAt(outputs, new, q).merged
             \/ Reached(ref, new, c.parts)
    <3>1. padsLeft => Reached(ref, new, c.parts)
      BY <1>9, <2>1
    <3>2. Reached(left, rels, c.parts) => Reached(ref, new, c.parts)
      BY <1>9
    <3> QED BY <2>2, <2>3, <2>4, <3>1, <3>2
  <2> QED BY <2>1, <2>2, <2>3, <2>4, <2>5, <2>6 DEF Claims
\* A column of the right that is not merged.
<1>22. ASSUME NEW c \in ref.columns, c.name \notin names, c \in right.columns,
              NEW p \in c.parts, ~At(new, p).coalesced
       PROVE  Claims(c, p)
  <2>1. /\ p \in RB /\ p[1] = n + 1 /\ At(rels, p).name \notin names /\ p \in Both
        /\ \A q \in c.parts : q \in RB /\ q \in Both
    BY <1>3, <1>7, <1>22
  <2>2. /\ ~At(rels, p).coalesced
        /\ At(new, p).merged <=> At(rels, p).merged
        /\ At(new, p).nullable = At(rels, p).nullable
        /\ At(new, p).nullableFromEnclosing
             <=> (At(rels, p).nullableFromEnclosing \/ (padsRight /\ At(rels, p).merged))
        /\ new[p[1]].nullableFromJoin <=> padsRight
        /\ ~rels[p[1]].nullableFromJoin
    BY <1>1, <1>2, <1>4, <1>22, <2>1 DEF JoinFlags, RB
  <2>3. ~BareNullable(rels[p[1]], p[2]) => \A r \in right.rows : ~(c.parts \subseteq r)
    BY <1>22, <2>2 DEF Values
  <2>4. GivenAt(outputs, new, p) = At(rels, p)
    BY <1>5, <2>1 DEF RB
  <2>5. At(rels, p).nullableFromEnclosing => At(rels, p).merged
    <3>1. p \in Bases(rels, a + 1 .. n + 1)
      BY <1>1, <2>1 DEF RB, Bases
    <3> QED BY <3>1
  <2>6. ASSUME ~BareNullable(new[p[1]], p[2]), NEW row \in ref.rows, c.parts \subseteq row PROVE FALSE
    <3>1. ~padsRight /\ ~BareNullable(rels[p[1]], p[2])
      BY <1>20, <2>2, <2>6
    <3>2. PICK r \in right.rows : row \cap RB = r
      BY <1>12, <3>1
    <3>3. c.parts \subseteq r
      BY <2>1, <2>6, <3>2
    <3> QED BY <2>3, <3>1, <3>3
  <2> QED BY <2>2, <2>4, <2>5, <2>6 DEF Claims
\* A merged column: NULL where the sides it may be taken from are.
<1>23. ASSUME NEW c \in ref.columns, c.name \in names, NEW p \in c.parts, ~At(new, p).coalesced
       PROVE  Claims(c, p)
  <2>1. PICK pl \in LB, pr \in RB : Keyed(rels, new, kind, left, c, pl, pr)
    BY <1>14, <1>23
  <2>2. /\ c.parts = {pl, pr} /\ At(rels, pl).name = c.name /\ At(rels, pr).name = c.name
        /\ ~At(rels, pl).coalesced
        /\ At(new, pl).nullable = MergedNullable(kind, At(rels, pl), At(rels, pr))
    BY <2>1 DEF Keyed
  <2>3. PICK cl \in left.columns : cl.parts = {pl} /\ cl.name = c.name
    BY <2>1 DEF Keyed
  <2>4. At(new, pr).coalesced
    BY <1>2, <1>23, <2>2 DEF JoinFlags, RB
  <2>5. p = pl /\ pl # pr
    BY <1>3, <1>23, <2>2, <2>4
  <2>6. /\ At(new, p).merged
        /\ At(new, p).nullableFromEnclosing
             <=> (At(rels, p).nullableFromEnclosing \/ (padsLeft /\ At(rels, p).merged))
        /\ ~rels[p[1]].nullableFromJoin
    BY <1>1, <1>2, <1>3, <1>17, <1>23, <2>2, <2>5 DEF JoinFlags, LB
  <2>7. /\ At(rels, p).merged => GivenAt(outputs, rels, p).merged
        /\ ~At(rels, p).nullable => \A l \in left.rows : pl \notin l
        /\ ~GivenAt(outputs, rels, p).nullable => ~At(rels, p).nullable
    <3>1. At(rels, p).merged => GivenAt(outputs, rels, p).merged
      BY <2>2, <2>3, <2>5 DEF Values
    <3>2. ~QualifiedNullable(rels[p[1]], p[2]) => \A l \in left.rows : p \notin l
      BY <2>5 DEF Values, LB
    <3>3. ~GivenAt(outputs, rels, p).nullable => ~At(rels, p).nullable
      BY <2>5, <2>6 DEF Values, LB
    <3> QED BY <2>5, <2>6, <3>1, <3>2, <3>3 DEF QualifiedNullable, At
  <2>8. ~At(rels, pr).nullable => \A r \in right.rows : pr \notin r
    <3>1. ~QualifiedNullable(rels[pr[1]], pr[2]) => \A r \in right.rows : pr \notin r
      BY DEF Values, RB
    <3>2. ~rels[pr[1]].nullableFromJoin
      BY <1>3
    <3> QED BY <3>1, <3>2 DEF QualifiedNullable, At
  <2>9. /\ GivenAt(outputs, new, pl) = GivenAt(outputs, rels, pl)
        /\ GivenAt(outputs, new, pr) = At(rels, pr)
    BY <1>3, <1>5 DEF RB
  <2>10. At(rels, p).nullableFromEnclosing => At(rels, p).merged
    <3>1. p \in Bases(rels, a + 1 .. n + 1)
      BY <1>1, <2>5 DEF LB, Bases
    <3> QED BY <3>1
  <2>11. /\ At(new, p).nullable => At(rels, pl).nullable \/ At(rels, pr).nullable
         /\ ~At(new, p).nullable /\ padsRight => ~At(rels, pl).nullable
         /\ ~At(new, p).nullable /\ padsLeft => ~At(rels, pr).nullable
    BY <1>6, <2>2, <2>5 DEF MergedNullable, padsLeft, padsRight
  <2>12. ASSUME ~BareNullable(new[p[1]], p[2]), NEW row \in ref.rows, c.parts \subseteq row PROVE FALSE
    <3>1. ~At(new, p).nullable /\ pl \in row /\ pr \in row
      BY <1>20, <2>2, <2>12
    <3>2. ASSUME NEW l \in left.rows, NEW r \in right.rows, row = l \cup r, Whole(left, l, names)
          PROVE  FALSE
      <4>1. pl \notin l
        BY <1>23, <2>3, <3>2 DEF Whole
      <4>2. pl \notin r
        BY <1>3, <1>7
      <4> QED BY <3>1, <3>2, <4>1, <4>2
    <3>3. ASSUME padsRight, NEW l \in left.rows, row = l \cup RB PROVE FALSE
      <4>1. pl \notin l
        BY <2>5, <2>7, <2>11, <3>1, <3>3
      <4> QED BY <1>3, <3>1, <3>3, <4>1
    <3>4. ASSUME padsLeft, NEW r \in right.rows, row = LB \cup r PROVE FALSE
      <4>1. pr \notin r
        BY <2>8, <2>11, <3>1, <3>4
      <4> QED BY <1>3, <3>1, <3>4, <4>1
    <3> QED BY <1>10, <3>2, <3>3, <3>4
  <2>13. At(new, p).nullableFromEnclosing => \E q \in c.parts : GivenAt(outputs, new, q).merged
    BY <2>2, <2>5, <2>6, <2>7, <2>9, <2>10
  <2>14. \/ \E q \in c.parts : GivenAt(outputs, new, q).merged \/ GivenAt(outputs, new, q).nullable
         \/ ~At(new, p).nullable
    BY <2>2, <2>5, <2>7, <2>9, <2>11
  <2>15. c.parts # {p}
    BY <2>2, <2>5
  <2> QED BY <2>12, <2>13, <2>14, <2>15 DEF Claims
<1>24. ASSUME NEW i \in a + 1 .. n + 1, new[i].nullableFromJoin
       PROVE  Reached(ref, new, Bases(new, {i}))
  <2>1. CASE i \in a + 1 .. n
    <3>1. CASE rels[i].nullableFromJoin
      <4>1. Reached(left, rels, Bases(rels, {i}))
        BY <2>1, <3>1 DEF Values
      <4> QED BY <1>9, <1>13, <4>1
    <3>2. CASE padsLeft
      BY <1>9, <1>13, <2>1, <3>2
    <3> QED BY <1>4, <1>24, <2>1, <3>1, <3>2
  <2>2. CASE i = n + 1
    <3>1. Bases(new, {i}) \in SUBSET RB /\ padsRight
      BY <1>4, <1>13, <1>24, <2>2 DEF RB
    <3> QED BY <1>9, <3>1
  <2> QED BY <1>1, <2>1, <2>2
<1>25. \A c \in ref.columns : \A p \in c.parts : ~At(new, p).coalesced => Claims(c, p)
  BY <1>15, <1>21, <1>22, <1>23
<1> QED BY <1>9, <1>19, <1>24, <1>25 DEF Values, Claims, Both

-----------------------------------------------------------------------------
(* The state: types.                                                        *)

LEMMA ReferenceTypes ==
  /\ J!NoReference \in Reference
  /\ \A left, right \in Reference : J!Product(left, right) \in Reference
  /\ \A left, right \in Reference : \A kind : \A names \in SUBSET Name :
       J!Join(kind, left, right, names) \in Reference
<1> DEFINE B == Nat \X Nat
           C == [name : Name, parts : SUBSET B]
<1>1. J!NoReference \in Reference
  BY DEF J!NoReference, Reference
<1>2. ASSUME NEW left \in Reference, NEW right \in Reference
      PROVE  J!Product(left, right) \in Reference
  <2>1. /\ left.columns \cup right.columns \in SUBSET C
        /\ \A l \in left.rows, r \in right.rows : l \cup r \in SUBSET B
    BY DEF Reference
  <2> DEFINE cols == left.columns \cup right.columns
             rows == {l \cup r : l \in left.rows, r \in right.rows}
  <2>2. rows \in SUBSET SUBSET B
    <3> HIDE DEF B
    <3> QED BY <2>1
  <2>3. J!Product(left, right) = [columns |-> cols, rows |-> rows]
    BY DEF J!Product
  <2> HIDE DEF cols, rows
  <2> QED BY <2>1, <2>2, <2>3 DEF Reference, cols
<1>3. ASSUME NEW left \in Reference, NEW right \in Reference, NEW kind, NEW names \in SUBSET Name
      PROVE  J!Join(kind, left, right, names) \in Reference
  <2>1. /\ left.columns \in SUBSET C /\ right.columns \in SUBSET C
        /\ \A l \in left.rows : l \in SUBSET B
        /\ \A r \in right.rows : r \in SUBSET B
    BY DEF Reference
  <2>2. J!Parts(left) \in SUBSET B /\ J!Parts(right) \in SUBSET B
    BY <2>1 DEF J!Parts
  <2> DEFINE ref == J!Join(kind, left, right, names)
             m(name) == [name |-> name,
                         parts |-> UNION {c.parts : c \in J!Named(left, name) \cup J!Named(right, name)}]
             plain == {c \in left.columns \cup right.columns : c.name \notin names}
  <2>3. ref.columns = plain \cup {m(name) : name \in names}
        /\ ref = [columns |-> ref.columns, rows |-> ref.rows]
    BY DEF J!Join
  <2>4. \A name \in names : m(name) \in C
    <3> SUFFICES ASSUME NEW name \in names PROVE m(name) \in C
      OBVIOUS
    <3>1. \A c \in J!Named(left, name) \cup J!Named(right, name) : c.parts \in SUBSET B
      BY <2>1 DEF J!Named
    <3>2. UNION {c.parts : c \in J!Named(left, name) \cup J!Named(right, name)} \in SUBSET B
      BY <3>1
    <3> QED BY <3>2
  <2>5. ref.columns \in SUBSET C
    <3> HIDE DEF m, C, ref
    <3> QED BY <2>1, <2>3, <2>4
  <2>6. ASSUME NEW row \in ref.rows PROVE row \in SUBSET B
    <3>1. \/ \E l \in left.rows, r \in right.rows : row = l \cup r
          \/ \E l \in left.rows : row = l \cup J!Parts(right)
          \/ \E r \in right.rows : row = J!Parts(left) \cup r
      BY JoinRows
    <3> HIDE DEF ref, B
    <3> QED BY <2>1, <2>2, <3>1
  <2> HIDE DEF ref
  <2>7. ref.rows \in SUBSET SUBSET B
    BY <2>6
  <2> QED BY <2>3, <2>5, <2>7 DEF Reference, ref
<1> QED BY <1>1, <1>2, <1>3

\* The columns an item brings.
ItemColumns(t) == IF t = Derived THEN derived.columns ELSE Columns[t]

LEMMA ItemTyped ==
  ASSUME Typed, Flagged, NEW t \in Table
  PROVE  /\ Binding(t) = RelationBinding(t, ItemColumns(t)) /\ Binding(t) \in Relation
         /\ ItemColumns(t) \in Seq(IsResolvedColumns(Name))
         /\ \A j \in DOMAIN ItemColumns(t) :
              /\ ~ItemColumns(t)[j].coalesced
              /\ ItemColumns(t)[j].nullableFromEnclosing => ItemColumns(t)[j].merged
<1>1. Binding(t) = RelationBinding(t, ItemColumns(t))
  BY DEF Binding, ItemColumns
<1>2. ItemColumns(t) \in Seq(IsResolvedColumns(Name))
      /\ \A j \in DOMAIN ItemColumns(t) :
           /\ ~ItemColumns(t)[j].coalesced
           /\ ItemColumns(t)[j].nullableFromEnclosing => ItemColumns(t)[j].merged
  <2>1. CASE t = Derived
    BY <2>1 DEF ItemColumns, Typed, Flagged
  <2>2. CASE t # Derived
    <3> DEFINE cols == Columns[t]
               R == {ResolvedColumn(n, b) : n \in Name, b \in BOOLEAN}
    <3>1. cols \in Seq(R) /\ ItemColumns(t) = cols
      BY <2>2, FromAssumption DEF ItemColumns
    <3>2. ASSUME NEW c \in R
          PROVE  c \in IsResolvedColumns(Name) /\ ~c.coalesced /\ ~c.nullableFromEnclosing
      <4>1. PICK n \in Name, b \in BOOLEAN : c = ResolvedColumn(n, b)
        OBVIOUS
      <4> QED BY <4>1 DEF ResolvedColumn, IsResolvedColumns
    <3> HIDE DEF cols, R
    <3>3. \A j \in DOMAIN cols : cols[j] \in R
      BY <3>1
    <3>4. cols \in Seq(IsResolvedColumns(Name))
      BY <3>1, <3>2
    <3> QED BY <3>1, <3>2, <3>3, <3>4
  <2> QED BY <2>1, <2>2
<1>3. Binding(t) \in Relation
  BY <1>1, <1>2 DEF RelationBinding, Relation
<1> QED BY <1>1, <1>2, <1>3

ItemRows(i, t) == IF t = Derived THEN {{<<i, j>> : j \in nulls} : nulls \in derived.rows}
                  ELSE J!TableReference(i, Columns[t]).rows

LEMMA ItemMeans ==
  ASSUME Typed, NEW t \in Table, NEW i \in Nat
  PROVE  /\ MeaningOf(i, t).columns = J!TableReference(i, ItemColumns(t)).columns
         /\ MeaningOf(i, t).rows = ItemRows(i, t)
         /\ MeaningOf(i, t).rows \subseteq SUBSET {<<i, j>> : j \in DOMAIN ItemColumns(t)}
         /\ MeaningOf(i, t) = [columns |-> MeaningOf(i, t).columns, rows |-> MeaningOf(i, t).rows]
<1>1. CASE t = Derived
  <2>1. derived.rows \subseteq SUBSET DOMAIN derived.columns
    BY DEF Typed
  <2>2. \A nulls \in derived.rows :
          {<<i, j>> : j \in nulls} \in SUBSET {<<i, j>> : j \in DOMAIN derived.columns}
    BY <2>1
  <2>3. ItemRows(i, t) \subseteq SUBSET {<<i, j>> : j \in DOMAIN ItemColumns(t)}
    BY <1>1, <2>2 DEF ItemRows, ItemColumns
  <2>4. MeaningOf(i, t) = [columns |-> J!TableReference(i, ItemColumns(t)).columns,
                           rows |-> ItemRows(i, t)]
    BY <1>1 DEF MeaningOf, ItemColumns, ItemRows
  <2> QED BY <2>3, <2>4
<1>2. CASE t # Derived
  <2>1. MeaningOf(i, t) = J!TableReference(i, Columns[t]) /\ ItemColumns(t) = Columns[t]
    BY <1>2 DEF MeaningOf, ItemColumns
  <2>2. J!TableReference(i, Columns[t]).rows \subseteq SUBSET {<<i, j>> : j \in DOMAIN Columns[t]}
    BY DEF J!TableReference
  <2> QED BY <1>2, <2>1, <2>2 DEF ItemRows, J!TableReference
<1> QED BY <1>1, <1>2

LEMMA ItemReference ==
  ASSUME Typed, Flagged, NEW t \in Table, NEW i \in Nat
  PROVE  MeaningOf(i, t) \in Reference
<1> DEFINE cols == ItemColumns(t)
           ref == MeaningOf(i, t)
<1>1. cols \in Seq(IsResolvedColumns(Name))
  BY ItemTyped
<1>2. \A j \in DOMAIN cols : cols[j].name \in Name /\ <<i, j>> \in Nat \X Nat
  <2>1. \A j \in DOMAIN cols : cols[j] \in IsResolvedColumns(Name) /\ j \in Nat
    BY <1>1
  <2> QED BY <2>1 DEF IsResolvedColumns
<1>3. /\ ref.columns = {[name |-> cols[j].name, parts |-> {<<i, j>>}] : j \in DOMAIN cols}
      /\ ref.rows \subseteq SUBSET {<<i, j>> : j \in DOMAIN cols}
      /\ ref = [columns |-> ref.columns, rows |-> ref.rows]
  BY ItemMeans DEF J!TableReference
<1> HIDE DEF cols, ref
<1>4. ref.columns \in SUBSET [name : Name, parts : SUBSET (Nat \X Nat)]
  <2> SUFFICES ASSUME NEW c \in ref.columns PROVE c \in [name : Name, parts : SUBSET (Nat \X Nat)]
    OBVIOUS
  <2>1. PICK j \in DOMAIN cols : c = [name |-> cols[j].name, parts |-> {<<i, j>>}]
    BY <1>3
  <2>2. cols[j].name \in Name /\ {<<i, j>>} \in SUBSET (Nat \X Nat)
    BY <1>2
  <2> QED BY <2>1, <2>2
<1>5. ref.rows \in SUBSET SUBSET (Nat \X Nat)
  BY <1>2, <1>3
<1> QED BY <1>3, <1>4, <1>5 DEF Reference, ref

\* What the derived table's claims are worth.
DerivedValues ==
  /\ \A j \in DOMAIN derived.columns :
       ~derived.columns[j].nullable => \A row \in derived.rows : j \notin row
  /\ derived.size > 0 => {} \in derived.rows

LEMMA ItemShows ==
  ASSUME Typed, Flagged, NEW t \in Table, CanAdd(t),
         NEW rels \in Seq(Relation), NEW i \in DOMAIN rels,
         rels[i].columns = ItemColumns(t), rels[i].qualifier = t, ~rels[i].nullableFromJoin
  PROVE  /\ Shows(MeaningOf(i, t), rels, {i})
         /\ \A p \in Bases(rels, {i}) :
              /\ GivenAt(derived.columns, rels, p) = At(rels, p)
              /\ At(rels, p).nullableFromEnclosing => At(rels, p).merged
         /\ DerivedValues => Values(derived.columns, MeaningOf(i, t), rels, {i})
<1> DEFINE ref == MeaningOf(i, t)
<1>1. i \in Nat
  BY ColumnsTyped
<1>2. /\ ref.columns = J!TableReference(i, rels[i].columns).columns
      /\ ref.rows \subseteq SUBSET {<<i, j>> : j \in DOMAIN rels[i].columns}
      /\ ref.rows = ItemRows(i, t)
  BY <1>1, ItemMeans
<1>3. \A j \in DOMAIN rels[i].columns :
        /\ ~rels[i].columns[j].coalesced
        /\ rels[i].columns[j].nullableFromEnclosing => rels[i].columns[j].merged
  BY ItemTyped
<1>4. \A j \in DOMAIN rels[i].columns :
        GivenAt(derived.columns, rels, <<i, j>>) = rels[i].columns[j]
  BY DEF GivenAt, ItemColumns
<1> HIDE DEF ref
<1>5. Shows(ref, rels, {i})
  BY <1>2, <1>3, TableShows
<1>6. \A p \in Bases(rels, {i}) :
        /\ GivenAt(derived.columns, rels, p) = At(rels, p)
        /\ At(rels, p).nullableFromEnclosing => At(rels, p).merged
  <2> SUFFICES ASSUME NEW p \in Bases(rels, {i})
               PROVE  /\ GivenAt(derived.columns, rels, p) = At(rels, p)
                      /\ At(rels, p).nullableFromEnclosing => At(rels, p).merged
    OBVIOUS
  <2>1. p = <<i, p[2]>> /\ p[1] = i /\ p[2] \in DOMAIN rels[i].columns
    BY InBases
  <2>2. At(rels, p) = rels[i].columns[p[2]]
    BY <2>1 DEF At
  <2> QED BY <1>3, <1>4, <2>1, <2>2
<1>7. ASSUME DerivedValues PROVE Values(derived.columns, ref, rels, {i})
  <2>1. CASE t = Derived
    <3>1. {} \in derived.rows
      BY <1>7, <2>1 DEF CanAdd, DerivedValues
    <3>2. {} \in ref.rows
      <4>1. {} = {<<i, j>> : j \in {}}
        OBVIOUS
      <4> QED BY <1>2, <2>1, <3>1, <4>1 DEF ItemRows
    <3>3. ASSUME NEW j \in DOMAIN rels[i].columns, ~rels[i].columns[j].nullable,
                 NEW row \in ref.rows
          PROVE  <<i, j>> \notin row
      <4>1. PICK nulls \in derived.rows : row = {<<i, x>> : x \in nulls}
        BY <1>2, <2>1 DEF ItemRows
      <4>2. j \notin nulls
        BY <1>7, <2>1, <3>3 DEF DerivedValues, ItemColumns
      <4> QED BY <4>1, <4>2
    <3> QED BY <1>2, <1>3, <1>4, <3>2, <3>3, TableValues
  <2>2. CASE t # Derived
    <3>1. ref.rows = SUBSET {<<i, j>> : j \in {x \in DOMAIN rels[i].columns : rels[i].columns[x].nullable}}
      BY <1>2, <2>2 DEF ItemRows, ItemColumns, J!TableReference
    <3>2. {} \in ref.rows
      BY <3>1
    <3>3. ASSUME NEW j \in DOMAIN rels[i].columns, ~rels[i].columns[j].nullable,
                 NEW row \in ref.rows
          PROVE  <<i, j>> \notin row
      BY <3>1, <3>3
    <3> QED BY <1>2, <1>3, <1>4, <3>2, <3>3, TableValues
  <2> QED BY <2>1, <2>2
<1> QED BY <1>5, <1>6, <1>7 DEF ref

-----------------------------------------------------------------------------
(* What a join item does to the scope and to the meaning of its level.      *)

JoinDone(old, n, natural, using) ==
  IF natural
  THEN {At(old, p).name : p \in {q \in Bases(old, 1 .. n) :
                                   HasColumnNamed(old[n + 1], At(old, q).name)}}
  ELSE {name \in ToSet(using) : ~UsingMissing(old, n, <<name>>)}

LEMMA ItemJoins ==
  ASSUME NEW rels \in Seq(Relation), NEW n \in Nat, Len(rels) = n + 1, NEW kind, NEW side,
         NEW natural \in BOOLEAN, NEW using \in Seq(Name),
         NEW old, old = MarkJoinNullable(rels, side),
         NEW new, new = IF natural THEN ResolveNatural(old, n, kind)
                                   ELSE ResolveUsing(old, n, kind, using)
  PROVE  Joined(rels, new, n, kind, side, JoinDone(old, n, natural, using))
<1> DEFINE done == JoinDone(old, n, natural, using)
<1>1. old \in Seq(Relation) /\ SameColumns(rels, old) /\ Len(old) = n + 1
  BY MarkJoinEffect DEF SameColumns
<1>2. Merging(old, new, n, kind, done)
  <2>1. CASE natural
    BY <1>1, <2>1, NaturalMerges DEF JoinDone
  <2>2. CASE ~natural
    BY <1>1, <2>2, UsingMerges DEF JoinDone
  <2> QED BY <2>1, <2>2
<1>3. \A name \in done : HasColumnNamed(rels[n + 1], name)
  <2>1. \A name : HasColumnNamed(old[n + 1], name) <=> HasColumnNamed(rels[n + 1], name)
    <3>1. n + 1 \in DOMAIN rels
      OBVIOUS
    <3> QED BY <1>1, <3>1, SameNames
  <2>2. \A name \in done : HasColumnNamed(old[n + 1], name)
    <3>1. CASE natural
      BY <3>1 DEF JoinDone
    <3>2. CASE ~natural
      BY <3>2, OneMissing DEF JoinDone
    <3> QED BY <3>1, <3>2
  <2> HIDE DEF done
  <2> QED BY <2>1, <2>2
<1> HIDE DEF done
<1> QED BY <1>1, <1>2, <1>3, BothEffects DEF done

\* A name a reference shows is a name of its base columns, and the other way round.
LEMMA ShownNames ==
  ASSUME NEW rels, NEW range, NEW ref, Shows(ref, rels, range), NEW name
  PROVE  (\E c \in ref.columns : c.name = name)
           <=> \E i \in range : HasColumnNamed(rels[i], name)
<1>1. ASSUME NEW c \in ref.columns, c.name = name
      PROVE  \E i \in range : HasColumnNamed(rels[i], name)
  <2>1. PICK p \in c.parts : p \in Bases(rels, range) /\ At(rels, p).name = name
    BY <1>1 DEF Shows
  <2>2. p[1] \in range /\ p[2] \in DOMAIN rels[p[1]].columns
    BY <2>1, InBases
  <2> QED BY <2>1, <2>2 DEF HasColumnNamed, PositionsOf, At
<1>2. ASSUME NEW i \in range, HasColumnNamed(rels[i], name)
      PROVE  \E c \in ref.columns : c.name = name
  <2>1. PICK j \in DOMAIN rels[i].columns : rels[i].columns[j].name = name
    BY <1>2 DEF HasColumnNamed, PositionsOf
  <2>2. <<i, j>> \in Bases(rels, range) /\ At(rels, <<i, j>>).name = name
    BY <2>1 DEF Bases, At
  <2> QED BY <2>2 DEF Shows
<1> QED BY <1>1, <1>2

JoinNames(left, right, natural, using) ==
  IF natural THEN J!CommonNames(left, right) ELSE ToSet(using)

Looked(right, natural, using) ==
  ToSet(using) \cup (IF natural THEN {c.name : c \in right.columns} ELSE {})

LEMMA MergeableShown ==
  ASSUME NEW left, NEW right, IsFiniteSet(left.columns), IsFiniteSet(right.columns),
         NEW name, J!Mergeable(left, right, name)
  PROVE  (\E c \in left.columns : c.name = name) /\ (\E c \in right.columns : c.name = name)
<1>1. ASSUME NEW cols, IsFiniteSet(cols), NEW S, S = {c \in cols : c.name = name}, Cardinality(S) = 1
      PROVE  \E c \in cols : c.name = name
  <2>1. IsFiniteSet(S)
    BY <1>1, FS_Subset
  <2>2. PICK x : S = {x}
    BY <1>1, <2>1, FS_Singleton
  <2>3. x \in S
    BY <2>2
  <2> QED BY <1>1, <2>3
<1>2. Cardinality(J!Named(left, name)) = 1 /\ Cardinality(J!Named(right, name)) = 1
  BY MergeableMeans
<1>3. /\ J!Named(left, name) = {c \in left.columns : c.name = name}
      /\ J!Named(right, name) = {c \in right.columns : c.name = name}
  BY DEF J!Named
<1> QED BY <1>1, <1>2, <1>3

\* A legal join whose names are in no earlier group.
NamesWithin(rels, n, a, side, natural, using, old, left, right, names) ==
  /\ rels \in Seq(Relation) /\ n \in Nat /\ Len(rels) = n + 1 /\ a \in 0 .. n
  /\ natural \in BOOLEAN /\ using \in Seq(Name) /\ (natural => using = <<>>)
  /\ old = MarkJoinNullable(rels, side)
  /\ Shows(left, rels, a + 1 .. n) /\ Shows(right, rels, {n + 1})
  /\ names = JoinNames(left, right, natural, using)
  /\ \A name \in names : J!Mergeable(left, right, name)
  /\ \A name \in Looked(right, natural, using) : LeftHits(rels, n, name) \subseteq a + 1 .. n

\* The names such a join merges are those the clause merges.
LEMMA DoneIsNames ==
  ASSUME NEW rels, NEW n, NEW a, NEW side, NEW natural, NEW using, NEW old, NEW left, NEW right,
         NEW names, NamesWithin(rels, n, a, side, natural, using, old, left, right, names)
  PROVE  /\ JoinDone(old, n, natural, using) = names
         /\ ~UsingMissing(old, n, using)
         /\ names \subseteq Looked(right, natural, using)
<1> USE DEF NamesWithin
<1>1. old \in Seq(Relation) /\ SameColumns(rels, old) /\ Len(old) = n + 1
  BY MarkJoinEffect DEF SameColumns
<1>2. \A name : /\ LeftHits(old, n, name) = LeftHits(rels, n, name)
                /\ HasColumnNamed(old[n + 1], name) <=> HasColumnNamed(rels[n + 1], name)
  <2>1. old \in Shaped(rels)
    BY <1>1 DEF Shaped
  <2> QED BY <2>1, SameHits
<1>3. IsFiniteSet(left.columns) /\ IsFiniteSet(right.columns)
  BY DEF Shows
<1>4. ASSUME NEW name
      PROVE  /\ (\E c \in left.columns : c.name = name)
                  <=> \E i \in a + 1 .. n : HasColumnNamed(rels[i], name)
             /\ (\E c \in right.columns : c.name = name) <=> HasColumnNamed(rels[n + 1], name)
  <2>1. (\E c \in left.columns : c.name = name)
          <=> \E i \in a + 1 .. n : HasColumnNamed(rels[i], name)
    BY ShownNames
  <2>2. (\E c \in right.columns : c.name = name)
          <=> \E i \in {n + 1} : HasColumnNamed(rels[i], name)
    <3>1. Shows(right, rels, {n + 1})
      OBVIOUS
    <3> HIDE DEF NamesWithin
    <3> QED BY <3>1, ShownNames
  <2> QED BY <2>1, <2>2
<1>5. ASSUME NEW name \in names
      PROVE  LeftHits(rels, n, name) # {} /\ HasColumnNamed(rels[n + 1], name)
  <2>1. (\E c \in left.columns : c.name = name) /\ (\E c \in right.columns : c.name = name)
    BY <1>3, MergeableShown
  <2>2. HasColumnNamed(rels[n + 1], name)
    BY <1>4, <2>1
  <2>3. PICK i \in a + 1 .. n : HasColumnNamed(rels[i], name)
    BY <1>4, <2>1
  <2>4. i \in LeftHits(rels, n, name)
    BY <2>3 DEF LeftHits
  <2> QED BY <2>2, <2>4
<1>6. CASE ~natural
  <2>1. names = ToSet(using) /\ Looked(right, natural, using) = ToSet(using)
    BY <1>6 DEF JoinNames, Looked
  <2>2. \A name \in names : ~UsingMissing(old, n, <<name>>)
    BY <1>2, <1>5, OneMissing
  <2>3. ~UsingMissing(old, n, using)
    BY <1>2, <1>5, <2>1 DEF UsingMissing
  <2> QED BY <1>6, <2>1, <2>2, <2>3 DEF JoinDone
<1>7. CASE natural
  <2>1. using = <<>> /\ ToSet(using) = {}
    BY <1>7 DEF ToSet
  <2>2. names = J!CommonNames(left, right)
        /\ Looked(right, natural, using) = {c.name : c \in right.columns}
    BY <1>7, <2>1 DEF JoinNames, Looked
  <2>3. ~UsingMissing(old, n, using)
    BY <2>1 DEF UsingMissing
  <2>4. names \subseteq Looked(right, natural, using)
    BY <2>2 DEF J!CommonNames
  <2>5. \A name : name \in names <=> ((\E c \in left.columns : c.name = name)
                                      /\ \E c \in right.columns : c.name = name)
    BY <2>2 DEF J!CommonNames
  <2> DEFINE Done == JoinDone(old, n, natural, using)
  <2>6. \A name : name \in Done <=>
          \E p \in Bases(old, 1 .. n) :
            HasColumnNamed(old[n + 1], At(old, p).name) /\ name = At(old, p).name
    BY <1>7 DEF JoinDone
  <2> HIDE DEF Done
  <2>7. ASSUME NEW name \in Done PROVE name \in names
    <3>1. PICK p \in Bases(old, 1 .. n) :
            HasColumnNamed(old[n + 1], At(old, p).name) /\ name = At(old, p).name
      BY <2>6
    <3>2. p[1] \in 1 .. n /\ HasColumnNamed(old[p[1]], name)
      BY <3>1, InBases DEF HasColumnNamed, PositionsOf, At
    <3>3. p[1] \in LeftHits(rels, n, name)
      BY <1>2, <3>2 DEF LeftHits
    <3>4. \E c \in right.columns : c.name = name
      BY <1>2, <1>4, <3>1
    <3>5. p[1] \in a + 1 .. n
      BY <2>2, <3>3, <3>4
    <3>6. HasColumnNamed(rels[p[1]], name)
      BY <3>3 DEF LeftHits
    <3>7. \E c \in left.columns : c.name = name
      BY <1>4, <3>5, <3>6
    <3> QED BY <2>5, <3>4, <3>7
  <2>8. ASSUME NEW name \in names PROVE name \in Done
    <3>1. PICK i \in LeftHits(old, n, name) : TRUE
      BY <1>2, <1>5
    <3>2. PICK j \in DOMAIN old[i].columns : old[i].columns[j].name = name
      BY DEF LeftHits, HasColumnNamed, PositionsOf
    <3>3. <<i, j>> \in Bases(old, 1 .. n) /\ At(old, <<i, j>>).name = name
      BY <3>2 DEF Bases, At, LeftHits
    <3> QED BY <1>2, <1>5, <2>6, <3>3
  <2> QED BY <2>3, <2>4, <2>7, <2>8 DEF Done
<1> QED BY <1>6, <1>7

-----------------------------------------------------------------------------
(* The types are invariant.                                                 *)

Level2 == [before : Reference, group : Reference]

LEMMA TypedParts ==
  Typed => relations \in Seq(Relation) /\ starts \in Seq(Nat) /\ levels \in Seq(Level2)
BY DEF Typed, Level2

LEMMA Shape ==
  ASSUME Typed
  PROVE  /\ Len(relations) \in Nat /\ DOMAIN relations = 1 .. Len(relations)
         /\ Len(starts) \in 1 .. MaxDepth /\ Len(starts) \in Nat \ {0}
         /\ DOMAIN starts = 1 .. Len(starts) /\ DOMAIN levels = DOMAIN starts
         /\ Len(levels) = Len(starts)
         /\ \A d \in DOMAIN starts : starts[d] \in Nat /\ starts[d] <= Len(relations)
                                     /\ levels[d] \in Level2
         /\ \A d, e \in DOMAIN starts : d <= e => starts[d] <= starts[e]
         /\ Top(starts) = starts[Len(starts)] /\ Top(levels) = levels[Len(starts)]
         /\ Top(starts) \in 0 .. Len(relations) /\ Top(levels) \in Level2
<1>1. Len(relations) \in Nat /\ DOMAIN relations = 1 .. Len(relations)
  BY DEF Typed
<1>2. /\ Len(starts) \in 1 .. MaxDepth /\ Len(starts) \in Nat \ {0}
      /\ DOMAIN starts = 1 .. Len(starts)
      /\ Len(levels) = Len(starts) /\ DOMAIN levels = 1 .. Len(levels)
      /\ \A d \in DOMAIN starts : starts[d] \in Nat
      /\ \A d \in DOMAIN levels : levels[d] \in Level2
  <2>1. /\ Len(starts) \in 1 .. MaxDepth /\ Len(levels) = Len(starts)
        /\ starts \in Seq(Nat) /\ levels \in Seq(Level2)
    BY TypedParts DEF Typed
  <2> QED BY <2>1
<1>3. \A d \in DOMAIN starts :
        starts[d] <= Len(relations) /\ \A e \in DOMAIN starts : d <= e => starts[d] <= starts[e]
  BY DEF Typed
<1>4. Top(starts) = starts[Len(starts)] /\ Top(levels) = levels[Len(starts)]
  BY <1>2 DEF Top
<1>5. Len(starts) \in DOMAIN starts
  BY <1>2
<1>6. starts[Len(starts)] \in 0 .. Len(relations) /\ levels[Len(starts)] \in Level2
  BY <1>1, <1>2, <1>3, <1>5
<1> QED BY <1>1, <1>2, <1>3, <1>4, <1>6

LEMMA StartsAscend ==
  ASSUME Typed, NEW f \in 1 .. Len(starts), NEW e \in 1 .. f
  PROVE  /\ starts[e] \in Nat /\ starts[f] \in Nat
         /\ starts[e] <= starts[f] /\ starts[f] <= Len(relations)
<1>1. /\ Len(starts) \in Nat /\ DOMAIN starts = 1 .. Len(starts)
      /\ \A x \in DOMAIN starts : starts[x] \in Nat /\ starts[x] <= Len(relations)
      /\ \A x, y \in DOMAIN starts : x <= y => starts[x] <= starts[y]
  BY Shape
<1>2. e \in DOMAIN starts /\ f \in DOMAIN starts /\ e <= f
  BY <1>1
<1> QED BY <1>1, <1>2

LEMMA LevelTypes ==
  /\ Level \in Level2
  /\ \A level \in Level2 : WholeLevel(level) \in Reference /\ BeginGroup(level) \in Level2
<1>1. Level \in Level2
  BY ReferenceTypes DEF Level, Level2
<1>2. \A level \in Level2 : WholeLevel(level) \in Reference
  BY ReferenceTypes DEF WholeLevel, Level2
<1> QED BY <1>1, <1>2, ReferenceTypes DEF BeginGroup, Level2

\* Stacks, and lists that grow.
LEMMA TopReplaced ==
  ASSUME NEW S, NEW s \in Seq(S), NEW d \in Nat \ {0}, Len(s) = d, NEW x \in S
  PROVE  /\ [s EXCEPT ![d] = x] \in Seq(S)
         /\ Len([s EXCEPT ![d] = x]) = d
         /\ [s EXCEPT ![d] = x][d] = x
         /\ \A e \in 1 .. d - 1 : [s EXCEPT ![d] = x][e] = s[e]
<1> DEFINE new == [s EXCEPT ![d] = x]
<1>1. d \in Nat /\ d \in 1 .. d /\ DOMAIN s = 1 .. d /\ \A j \in 1 .. d : s[j] \in S
  OBVIOUS
<1>2. /\ new = [j \in 1 .. d |-> IF j = d THEN x ELSE s[j]]
      /\ DOMAIN new = 1 .. d
  BY <1>1
<1>3. IsFunctionOn(new, 1 .. d)
  BY <1>2 DEF IsFunctionOn
<1>4. new[d] = x /\ \A e \in 1 .. d - 1 : new[e] = s[e]
  BY <1>1, <1>2
<1>5. \A j \in 1 .. d : new[j] \in S
  BY <1>1, <1>2
<1> HIDE DEF new
<1>6. new \in Seq(S) /\ Len(new) = d
  BY <1>1, <1>3, <1>5, SeqByPlace
<1> QED BY <1>4, <1>6 DEF new

LEMMA TopDropped ==
  ASSUME NEW S, NEW s \in Seq(S), NEW d \in Nat, d > 1, Len(s) = d
  PROVE  /\ Front(s) \in Seq(S) /\ Len(Front(s)) = d - 1
         /\ \A e \in 1 .. d - 1 : Front(s)[e] = s[e]
<1> DEFINE m == d - 1
<1>1. Front(s) = SubSeq(s, 1, m)
  BY DEF Front
<1>2. 1 \in Int /\ m \in Int /\ 1 <= m /\ \A i \in 1 .. m : s[i] \in S
  OBVIOUS
<1> HIDE DEF Front, m
<1>3. /\ SubSeq(s, 1, m) \in Seq(S)
      /\ Len(SubSeq(s, 1, m)) = IF 1 <= m THEN m - 1 + 1 ELSE 0
      /\ \A i \in 1 .. m - 1 + 1 : SubSeq(s, 1, m)[i] = s[1 + i - 1]
  BY <1>2, SubSeqProperties
<1>4. /\ Len(SubSeq(s, 1, m)) = m
      /\ \A i \in 1 .. m : SubSeq(s, 1, m)[i] = s[i]
  BY <1>2, <1>3
<1> QED BY <1>1, <1>3, <1>4 DEF m

LEMMA Grown ==
  ASSUME NEW S, NEW s \in Seq(S), NEW x \in S, NEW new, new = Append(s, x)
  PROVE  /\ new \in Seq(S) /\ Len(new) = Len(s) + 1
         /\ DOMAIN new = 1 .. Len(s) + 1
         /\ \A i \in 1 .. Len(s) : new[i] = s[i]
         /\ new[Len(s) + 1] = x
<1>1. new \in Seq(S) /\ Len(new) = Len(s) + 1
  BY AppendProperties
<1>2. /\ \A i \in 1 .. Len(s) : new[i] = s[i]
      /\ new[Len(s) + 1] = x
  BY AppendProperties
<1>3. DOMAIN new = 1 .. Len(s) + 1
  BY <1>1
<1> QED BY <1>1, <1>2, <1>3

\* What a step leaves behind is typed when the stacks are.
LEMMA TypedNext ==
  ASSUME relations' \in Seq(Relation), starts' \in Seq(Nat), levels' \in Seq(Level2),
         NEW d \in 1 .. MaxDepth, Len(starts') = d, Len(levels') = d,
         \A e, f \in 1 .. d : e <= f => starts'[e] <= starts'[f], starts'[d] <= Len(relations'),
         diagnosed' \in BOOLEAN, legal' \in BOOLEAN, within' \in BOOLEAN, fresh' \in BOOLEAN,
         derived.columns' \in Seq(IsResolvedColumns(Name)),
         derived.rows' \subseteq SUBSET DOMAIN derived.columns'
  PROVE  Typed'
<1>1. DOMAIN starts' = 1 .. d /\ (\A e \in 1 .. d : starts'[e] \in Nat) /\ d \in 1 .. d
  BY FromAssumption
<1>2. Len(relations') \in Nat
  OBVIOUS
<1>3. \A e \in DOMAIN starts' :
        starts'[e] <= Len(relations') /\ \A f \in DOMAIN starts' : e <= f => starts'[e] <= starts'[f]
  BY <1>1, <1>2
<1> QED BY <1>3 DEF Typed, Level2

LEMMA InitTyped ==
  Init => Typed /\ Flagged
<1> SUFFICES ASSUME Init PROVE Typed /\ Flagged
  OBVIOUS
<1>1. relations \in Seq(Relation) /\ Len(relations) = 0 /\ DOMAIN relations = {}
  BY DEF Init
<1>2. starts \in Seq(Nat) /\ Len(starts) = 1 /\ starts[1] = 0 /\ DOMAIN starts = {1}
  BY DEF Init
<1>3. levels \in Seq(Level2) /\ Len(levels) = 1
  BY LevelTypes DEF Init
<1>4. \A d \in DOMAIN starts :
        starts[d] <= Len(relations) /\ \A e \in DOMAIN starts : d <= e => starts[d] <= starts[e]
  BY <1>1, <1>2
<1>5. Len(starts) \in 1 .. MaxDepth
  BY <1>2, FromAssumption
<1>6. /\ derived.columns \in Seq(IsResolvedColumns(Name)) /\ DOMAIN derived.columns = {}
      /\ derived.rows \subseteq SUBSET DOMAIN derived.columns
  BY DEF Init, NoBlock
<1>7. diagnosed \in BOOLEAN /\ legal \in BOOLEAN /\ within \in BOOLEAN /\ fresh \in BOOLEAN
  BY DEF Init
<1>8. Typed
  BY <1>1, <1>2, <1>3, <1>4, <1>5, <1>6, <1>7 DEF Typed, Level2
<1>9. Flagged
  BY <1>1, <1>6 DEF Flagged
<1> QED BY <1>8, <1>9

\* What a step does, place by place.
LEMMA CommaItemTyped ==
  ASSUME Typed, Flagged, NEW t \in Table, CommaItem(t),
         NEW n, n = Len(relations), NEW d, d = Len(starts)
  PROVE  /\ n \in Nat /\ d \in Nat \ {0} /\ CanAdd(t)
         /\ Len(relations') = n + 1 /\ (\A i \in 1 .. n : relations'[i] = relations[i])
         /\ relations'[n + 1] = Binding(t)
         /\ Len(starts') = d /\ starts'[d] = n /\ (\A e \in 1 .. d - 1 : starts'[e] = starts[e])
         /\ Len(levels') = d /\ (\A e \in 1 .. d - 1 : levels'[e] = levels[e])
         /\ levels'[d].before = WholeLevel(levels[d])
         /\ levels'[d].group = MeaningOf(n + 1, t)
         /\ UNCHANGED <<diagnosed, derived, legal, within, fresh>>
         /\ Typed' /\ Flagged'
<1> DEFINE item == MeaningOf(n + 1, t)
           top == [BeginGroup(levels[d]) EXCEPT !.group = item]
<1>1. /\ CanAdd(t)
      /\ relations' = Append(relations, Binding(t))
      /\ starts' = [starts EXCEPT ![d] = n]
      /\ levels' = [levels EXCEPT ![d] = top]
      /\ UNCHANGED <<diagnosed, derived, legal, within, fresh>>
  BY Shape DEF CommaItem
<1>2. n \in Nat /\ d \in Nat \ {0} /\ d \in 1 .. MaxDepth /\ d \in DOMAIN starts /\ Len(levels) = d
  BY Shape
<1>3. Binding(t) \in Relation /\ Binding(t).columns = ItemColumns(t)
  BY ItemTyped DEF RelationBinding
<1>4. top \in Level2 /\ top.before = WholeLevel(levels[d]) /\ top.group = item
  <2>1. item \in Reference /\ WholeLevel(levels[d]) \in Reference
    BY <1>2, Shape, ItemReference, LevelTypes
  <2>2. top = [before |-> WholeLevel(levels[d]), group |-> item]
    BY DEF BeginGroup
  <2> HIDE DEF item, top
  <2> QED BY <2>1, <2>2 DEF Level2
<1> HIDE DEF item, top
<1>5. /\ relations' \in Seq(Relation) /\ Len(relations') = n + 1
      /\ DOMAIN relations' = 1 .. n + 1
      /\ \A i \in 1 .. n : relations'[i] = relations[i]
      /\ relations'[n + 1] = Binding(t)
  BY <1>1, <1>3, TypedParts, Grown
<1>6. starts' \in Seq(Nat) /\ Len(starts') = d /\ starts'[d] = n /\ (\A e \in 1 .. d - 1 : starts'[e] = starts[e])
  BY <1>1, <1>2, TypedParts, TopReplaced
<1>7. levels' \in Seq(Level2) /\ Len(levels') = d /\ levels'[d] = top
      /\ (\A e \in 1 .. d - 1 : levels'[e] = levels[e])
  <2>1. levels \in Seq(Level2) /\ Len(levels) = d /\ d \in Nat \ {0} /\ top \in Level2
        /\ levels' = [levels EXCEPT ![d] = top]
    BY <1>1, <1>2, <1>4, TypedParts
  <2> QED BY <2>1, TopReplaced
<1>8. ASSUME NEW e \in 1 .. d, NEW f \in 1 .. d, e <= f PROVE starts'[e] <= starts'[f]
  <2>1. CASE e = d
    <3>1. f = d
      BY <1>2, <1>8, <2>1
    <3> QED BY <1>2, <1>6, <2>1, <3>1
  <2>2. CASE e # d
    <3>1. e \in 1 .. d - 1 /\ e \in 1 .. f /\ f \in 1 .. Len(starts)
      BY <1>2, <1>8, <2>2
    <3>2. starts'[e] = starts[e] /\ starts[e] \in Nat /\ starts[e] <= starts[f] /\ starts[f] \in Nat
          /\ starts[f] <= n
      BY <1>6, <3>1, StartsAscend
    <3>3. CASE f = d
      BY <1>2, <1>6, <3>2, <3>3
    <3>4. CASE f # d
      <4>1. f \in 1 .. d - 1
        BY <1>2, <3>4
      <4> QED BY <1>6, <3>2, <4>1
    <3> QED BY <3>3, <3>4
  <2> QED BY <2>1, <2>2
<1>9. Typed'
  <2>1. starts'[d] <= Len(relations')
    BY <1>2, <1>5, <1>6
  <2>2. /\ diagnosed' \in BOOLEAN /\ legal' \in BOOLEAN /\ within' \in BOOLEAN /\ fresh' \in BOOLEAN
        /\ derived.columns' \in Seq(IsResolvedColumns(Name))
        /\ derived.rows' \subseteq SUBSET DOMAIN derived.columns'
    BY <1>1 DEF Typed
  <2> QED BY <1>2, <1>5, <1>6, <1>7, <1>8, <2>1, <2>2, TypedNext
<1>10. Flagged'
  <2>1. ASSUME NEW i \in DOMAIN relations', NEW j \in DOMAIN relations'[i].columns
        PROVE  relations'[i].columns[j].nullableFromEnclosing => relations'[i].columns[j].merged
    <3>1. CASE i \in 1 .. n
      BY <1>2, <1>5, <2>1, <3>1, Shape DEF Flagged
    <3>2. CASE i = n + 1
      BY <1>3, <1>5, <2>1, <3>2, ItemTyped
    <3> QED BY <1>2, <1>5, <2>1, <3>1, <3>2
  <2>2. derived' = derived
    BY <1>1
  <2> QED BY <2>1, <2>2 DEF Flagged
<1> QED BY <1>1, <1>2, <1>4, <1>5, <1>6, <1>7, <1>9, <1>10 DEF item

LEMMA OpenParenthesisTyped ==
  ASSUME Typed, Flagged, OpenParenthesis, NEW n, n = Len(relations), NEW d, d = Len(starts)
  PROVE  /\ n \in Nat /\ d \in Nat \ {0}
         /\ Len(starts') = d + 1 /\ starts'[d] = n /\ starts'[d + 1] = n
         /\ (\A e \in 1 .. d - 1 : starts'[e] = starts[e])
         /\ Len(levels') = d + 1 /\ levels'[d] = BeginGroup(levels[d]) /\ levels'[d + 1] = Level
         /\ (\A e \in 1 .. d - 1 : levels'[e] = levels[e])
         /\ UNCHANGED <<relations, diagnosed, derived, legal, within, fresh>>
         /\ Typed' /\ Flagged'
<1> DEFINE newStarts == [starts EXCEPT ![d] = n]
           newLevels == [levels EXCEPT ![d] = BeginGroup(levels[d])]
<1>1. /\ n \in Nat /\ d \in Nat \ {0} /\ d \in DOMAIN starts /\ d + 1 \in 1 .. MaxDepth
      /\ Len(levels) = d /\ levels[d] \in Level2
  BY Shape, FromAssumption DEF OpenParenthesis
<1>2. /\ starts' = Append(newStarts, n)
      /\ levels' = Append(newLevels, Level)
      /\ UNCHANGED <<relations, diagnosed, derived, legal, within, fresh>>
  BY <1>1 DEF OpenParenthesis
<1>3. /\ newStarts \in Seq(Nat) /\ Len(newStarts) = d /\ newStarts[d] = n
      /\ \A e \in 1 .. d - 1 : newStarts[e] = starts[e]
  BY <1>1, TypedParts, TopReplaced
<1>4. /\ newLevels \in Seq(Level2) /\ Len(newLevels) = d /\ newLevels[d] = BeginGroup(levels[d])
      /\ \A e \in 1 .. d - 1 : newLevels[e] = levels[e]
  <2>1. BeginGroup(levels[d]) \in Level2
    BY <1>1, LevelTypes
  <2> QED BY <1>1, <2>1, TypedParts, TopReplaced
<1> HIDE DEF newStarts, newLevels
<1>5. /\ starts' \in Seq(Nat) /\ Len(starts') = d + 1 /\ starts'[d + 1] = n
      /\ \A e \in 1 .. d : starts'[e] = newStarts[e]
  BY <1>1, <1>2, <1>3, Grown
<1>6. /\ levels' \in Seq(Level2) /\ Len(levels') = d + 1 /\ levels'[d + 1] = Level
      /\ \A e \in 1 .. d : levels'[e] = newLevels[e]
  BY <1>2, <1>4, LevelTypes, Grown
<1>7. /\ starts'[d] = n /\ \A e \in 1 .. d - 1 : starts'[e] = starts[e]
  BY <1>1, <1>3, <1>5
<1>8. /\ levels'[d] = BeginGroup(levels[d]) /\ \A e \in 1 .. d - 1 : levels'[e] = levels[e]
  BY <1>1, <1>4, <1>6
<1>9. Typed'
  <2>1. /\ diagnosed' \in BOOLEAN /\ legal' \in BOOLEAN /\ within' \in BOOLEAN /\ fresh' \in BOOLEAN
        /\ derived.columns' \in Seq(IsResolvedColumns(Name))
        /\ derived.rows' \subseteq SUBSET DOMAIN derived.columns'
        /\ relations' \in Seq(Relation)
    BY <1>2 DEF Typed
  <2>2. ASSUME NEW e \in 1 .. d + 1, NEW f \in 1 .. d + 1, e <= f PROVE starts'[e] <= starts'[f]
    <3>1. CASE e \in 1 .. d - 1
      <4>1. e \in 1 .. d /\ d \in 1 .. Len(starts)
        BY <1>1, <3>1
      <4>2. starts'[e] = starts[e] /\ starts[e] \in Nat /\ starts[e] <= n
        <5>1. starts[e] \in Nat /\ starts[e] <= starts[d] /\ starts[d] <= n /\ starts[d] \in Nat
          BY <4>1, StartsAscend
        <5> QED BY <1>1, <1>7, <3>1, <5>1
      <4>3. CASE f \in 1 .. d - 1
        <5>1. e \in 1 .. f /\ f \in 1 .. Len(starts)
          BY <1>1, <2>2, <3>1, <4>3
        <5> QED BY <1>7, <4>2, <4>3, <5>1, StartsAscend
      <4>4. CASE f = d \/ f = d + 1
        BY <1>5, <1>7, <4>2, <4>4
      <4> QED BY <1>1, <4>3, <4>4
    <3>2. CASE e = d \/ e = d + 1
      <4>1. f = d \/ f = d + 1
        BY <1>1, <2>2, <3>2
      <4> QED BY <1>1, <1>5, <1>7, <3>2, <4>1
    <3> QED BY <1>1, <3>1, <3>2
  <2>3. starts'[d + 1] <= Len(relations')
    BY <1>1, <1>2, <1>5
  <2> QED BY <1>1, <1>5, <1>6, <2>1, <2>2, <2>3, TypedNext
<1>10. Flagged'
  BY <1>2 DEF Flagged
<1> QED BY <1>1, <1>2, <1>5, <1>6, <1>7, <1>8, <1>9, <1>10

LEMMA CloseParenthesisTyped ==
  ASSUME Typed, Flagged, CloseParenthesis, NEW n, n = Len(relations), NEW d, d = Len(starts) - 1
  PROVE  /\ n \in Nat /\ d \in Nat \ {0} /\ Len(starts) = d + 1
         /\ Len(starts') = d /\ (\A e \in 1 .. d : starts'[e] = starts[e])
         /\ Len(levels') = d /\ (\A e \in 1 .. d - 1 : levels'[e] = levels[e])
         /\ levels'[d].before = levels[d].before /\ levels'[d].group = WholeLevel(levels[d + 1])
         /\ UNCHANGED <<relations, diagnosed, derived, legal, within, fresh>>
         /\ Typed' /\ Flagged'
<1> DEFINE whole == WholeLevel(levels[d + 1])
           bottom == [levels[d] EXCEPT !.group = whole]
           lower == Front(levels)
<1>1. /\ Len(starts) > 1 /\ Len(starts) \in Nat
      /\ starts' = Front(starts)
      /\ levels' = [lower EXCEPT ![Len(levels) - 1].group = WholeLevel(Top(levels))]
      /\ UNCHANGED <<relations, diagnosed, derived, legal, within, fresh>>
  BY Shape DEF CloseParenthesis
<1>2. /\ n \in Nat /\ d \in Nat \ {0} /\ Len(starts) = d + 1 /\ Len(levels) = d + 1
      /\ d \in 1 .. MaxDepth /\ d \in DOMAIN starts /\ d + 1 \in DOMAIN starts
  BY <1>1, Shape, FromAssumption
<1>3. levels[d] \in Level2 /\ levels[d + 1] \in Level2 /\ Top(levels) = levels[d + 1]
  BY <1>2, Shape
<1>4. levels' = [lower EXCEPT ![d].group = whole]
  BY <1>1, <1>2, <1>3
<1>5. starts' \in Seq(Nat) /\ Len(starts') = d /\ \A e \in 1 .. d : starts'[e] = starts[e]
  <2> DEFINE m == d + 1
  <2>1. m \in Nat /\ m > 1 /\ m - 1 = d /\ Len(starts) = m /\ starts \in Seq(Nat)
    BY <1>2, TypedParts
  <2> HIDE DEF m
  <2>2. /\ Front(starts) \in Seq(Nat) /\ Len(Front(starts)) = m - 1
        /\ \A e \in 1 .. m - 1 : Front(starts)[e] = starts[e]
    BY <2>1, TopDropped
  <2> QED BY <1>1, <2>1, <2>2
<1>6. lower \in Seq(Level2) /\ Len(lower) = d /\ \A e \in 1 .. d : lower[e] = levels[e]
  <2> DEFINE m == d + 1
  <2>1. m \in Nat /\ m > 1 /\ m - 1 = d /\ Len(levels) = m /\ levels \in Seq(Level2)
    BY <1>2, TypedParts
  <2> HIDE DEF m
  <2>2. /\ Front(levels) \in Seq(Level2) /\ Len(Front(levels)) = m - 1
        /\ \A e \in 1 .. m - 1 : Front(levels)[e] = levels[e]
    BY <2>1, TopDropped
  <2> QED BY <2>1, <2>2
<1>7. bottom \in Level2 /\ bottom.before = levels[d].before /\ bottom.group = whole
  <2>1. whole \in Reference
    BY <1>3, LevelTypes
  <2> HIDE DEF whole
  <2> QED BY <1>3, <2>1 DEF Level2
<1> HIDE DEF whole, lower
<1>8. levels' = [lower EXCEPT ![d] = bottom]
  <2>1. lower[d] = levels[d]
    BY <1>2, <1>6
  <2> QED BY <1>4, <2>1
<1> HIDE DEF bottom
<1>9. /\ levels' \in Seq(Level2) /\ Len(levels') = d /\ levels'[d] = bottom
      /\ \A e \in 1 .. d - 1 : levels'[e] = levels[e]
  <2>1. /\ levels' \in Seq(Level2) /\ Len(levels') = d /\ levels'[d] = bottom
        /\ \A e \in 1 .. d - 1 : levels'[e] = lower[e]
    BY <1>2, <1>6, <1>7, <1>8, TopReplaced
  <2> QED BY <1>2, <1>6, <2>1
<1>10. Typed'
  <2>1. /\ diagnosed' \in BOOLEAN /\ legal' \in BOOLEAN /\ within' \in BOOLEAN /\ fresh' \in BOOLEAN
        /\ derived.columns' \in Seq(IsResolvedColumns(Name))
        /\ derived.rows' \subseteq SUBSET DOMAIN derived.columns'
        /\ relations' \in Seq(Relation)
    BY <1>1 DEF Typed
  <2>2. ASSUME NEW e \in 1 .. d, NEW f \in 1 .. d, e <= f PROVE starts'[e] <= starts'[f]
    <3>1. e \in 1 .. f /\ f \in 1 .. Len(starts)
      BY <1>2, <2>2
    <3> QED BY <1>5, <3>1, StartsAscend
  <2>3. starts'[d] <= Len(relations')
    <3>1. d \in 1 .. d /\ d \in 1 .. Len(starts)
      BY <1>2
    <3> QED BY <1>1, <1>5, <3>1, StartsAscend
  <2> QED BY <1>2, <1>5, <1>9, <2>1, <2>2, <2>3, TypedNext
<1>11. Flagged'
  BY <1>1 DEF Flagged
<1> QED BY <1>1, <1>2, <1>5, <1>7, <1>9, <1>10, <1>11 DEF whole

\* The step of a join item, its local definitions given as parameters.
JoinStep(kind, t, natural, using, n, d, a, left, right, names, rels, side, old) ==
  /\ n = Len(relations) /\ d = Len(starts) /\ a = starts[d]
  /\ left = levels[d].group /\ right = MeaningOf(n + 1, t)
  /\ names = JoinNames(left, right, natural, using)
  /\ rels = Append(relations, Binding(t))
  /\ side = NullSide(kind, a, n)
  /\ old = MarkJoinNullable(rels, side)

NewGroup(kind, left, right, names) ==
  IF \A name \in names : J!Mergeable(left, right, name)
  THEN J!Join(kind, left, right, names) ELSE J!Product(left, right)

LEMMA JoinItemMeans ==
  ASSUME Typed, Flagged,
         NEW kind \in Kinds, NEW t \in Table, NEW natural \in BOOLEAN, NEW using \in Using,
         JoinItem(kind, t, natural, using),
         NEW n, NEW d, NEW a, NEW left, NEW right, NEW names, NEW rels, NEW side, NEW old,
         JoinStep(kind, t, natural, using, n, d, a, left, right, names, rels, side, old)
  PROVE  /\ CanAdd(t) /\ left # J!NoReference /\ (natural => using = <<>>)
         /\ relations' = IF natural THEN ResolveNatural(old, n, kind)
                                    ELSE ResolveUsing(old, n, kind, using)
         /\ diagnosed' = (diagnosed \/ UsingMissing(old, n, using))
         /\ legal' = (legal /\ \A name \in names : J!Mergeable(left, right, name))
         /\ levels' = [levels EXCEPT ![d].group = NewGroup(kind, left, right, names)]
         /\ within' = (within /\ \A name \in Looked(right, natural, using) :
                                   LeftHits(relations, n, name) \subseteq a + 1 .. n)
         /\ fresh' = (fresh /\ \A name \in Looked(right, natural, using) :
                                 \A i \in LeftHits(relations, n, name) :
                                   /\ LeftHits(relations, n, name) = {i}
                                   /\ ~relations[i].nullableFromJoin)
         /\ UNCHANGED <<starts, derived>>
<1>1. Top(starts) = a /\ Top(levels).group = left /\ Len(levels) = d
  BY Shape DEF JoinStep
<1>2. /\ names = JoinNames(left, right, natural, using)
      /\ right = MeaningOf(Len(relations) + 1, t) /\ n = Len(relations)
      /\ old = MarkJoinNullable(Append(relations, Binding(t)), NullSide(kind, Top(starts), Len(relations)))
  BY <1>1 DEF JoinStep
<1> QED BY <1>1, <1>2, Zenon DEF JoinItem, JoinNames, Looked, NewGroup

LEMMA JoinItemTyped ==
  ASSUME Typed, Flagged,
         NEW kind \in Kinds, NEW t \in Table, NEW natural \in BOOLEAN, NEW using \in Using,
         JoinItem(kind, t, natural, using),
         NEW n, NEW d, NEW a, NEW left, NEW right, NEW names, NEW rels, NEW side, NEW old,
         JoinStep(kind, t, natural, using, n, d, a, left, right, names, rels, side, old)
  PROVE  /\ n \in Nat /\ d \in Nat \ {0} /\ a \in 0 .. n
         /\ rels \in Seq(Relation) /\ Len(rels) = n + 1
         /\ (\A i \in 1 .. n : rels[i] = relations[i]) /\ rels[n + 1] = Binding(t)
         /\ using \in Seq(Name)
         /\ Joined(rels, relations', n, kind, side, JoinDone(old, n, natural, using))
         /\ Len(relations') = n + 1
         /\ Len(levels') = d /\ (\A e \in 1 .. d - 1 : levels'[e] = levels[e])
         /\ levels'[d].before = levels[d].before
         /\ levels'[d].group = NewGroup(kind, left, right, names)
         /\ Typed' /\ Flagged'
<1> DEFINE group == NewGroup(kind, left, right, names)
           top == [levels[d] EXCEPT !.group = group]
           done == JoinDone(old, n, natural, using)
<1>1. n \in Nat /\ d \in Nat \ {0} /\ a \in 0 .. n /\ a \in Nat /\ Len(levels) = d /\ d = Len(starts)
      /\ d \in 1 .. MaxDepth /\ levels[d] \in Level2 /\ d \in DOMAIN levels /\ n = Len(relations)
  BY Shape DEF JoinStep
<1>2. using \in Seq(Name)
  BY FromAssumption
<1>3. /\ relations' = IF natural THEN ResolveNatural(old, n, kind)
                                 ELSE ResolveUsing(old, n, kind, using)
      /\ levels' = [levels EXCEPT ![d].group = group]
      /\ UNCHANGED <<starts, derived>>
  BY JoinItemMeans
<1>4. Binding(t) \in Relation
  BY ItemTyped
<1>5. /\ rels \in Seq(Relation) /\ Len(rels) = n + 1 /\ DOMAIN rels = 1 .. n + 1
      /\ \A i \in 1 .. n : rels[i] = relations[i]
      /\ rels[n + 1] = Binding(t)
  BY <1>1, <1>4, TypedParts, Grown DEF JoinStep
<1>6. Joined(rels, relations', n, kind, side, done)
  <2>1. old = MarkJoinNullable(rels, side)
    BY DEF JoinStep
  <2> QED BY <1>1, <1>2, <1>3, <1>5, <2>1, ItemJoins
<1> HIDE DEF done
<1>7. relations' \in Seq(Relation) /\ Len(relations') = n + 1 /\ DOMAIN relations' = 1 .. n + 1
      /\ SameColumns(rels, relations')
  BY <1>1, <1>5, <1>6 DEF Joined, SameColumns
<1>8. group \in Reference
  <2>1. left \in Reference /\ right \in Reference
    BY <1>1, ItemReference DEF JoinStep, Level2
  <2>2. names \in SUBSET Name
    <3>1. ToSet(using) \subseteq Name
      BY <1>2 DEF ToSet
    <3>2. J!CommonNames(left, right) \subseteq Name
      BY <2>1 DEF J!CommonNames, Reference
    <3> QED BY <3>1, <3>2 DEF JoinStep, JoinNames
  <2>3. J!Join(kind, left, right, names) \in Reference /\ J!Product(left, right) \in Reference
    BY <2>1, <2>2, ReferenceTypes
  <2> QED BY <2>3 DEF NewGroup
<1> HIDE DEF group
<1>9. top \in Level2 /\ top.before = levels[d].before /\ top.group = group
  BY <1>1, <1>8 DEF Level2
<1>10. levels' = [levels EXCEPT ![d] = top]
  BY <1>1, <1>3
<1> HIDE DEF top
<1>11. levels' \in Seq(Level2) /\ Len(levels') = d /\ levels'[d] = top
       /\ (\A e \in 1 .. d - 1 : levels'[e] = levels[e])
  <2>1. levels \in Seq(Level2) /\ Len(levels) = d /\ d \in Nat \ {0} /\ top \in Level2
        /\ levels' = [levels EXCEPT ![d] = top]
    BY <1>1, <1>9, <1>10, TypedParts
  <2> QED BY <2>1, TopReplaced
<1>12. Typed'
  <2>1. /\ diagnosed' \in BOOLEAN /\ legal' \in BOOLEAN /\ within' \in BOOLEAN /\ fresh' \in BOOLEAN
    BY JoinItemMeans
  <2>2. /\ derived.columns' \in Seq(IsResolvedColumns(Name))
        /\ derived.rows' \subseteq SUBSET DOMAIN derived.columns'
        /\ starts' \in Seq(Nat)
    BY <1>3 DEF Typed
  <2>3. /\ Len(starts') = d /\ starts'[d] <= Len(relations')
        /\ \A e, f \in 1 .. d : e <= f => starts'[e] <= starts'[f]
    BY <1>1, <1>3, <1>7, Shape DEF JoinStep
  <2> QED BY <1>1, <1>7, <1>11, <2>1, <2>2, <2>3, TypedNext
<1>13. Flagged'
  <2>1. ASSUME NEW i \in DOMAIN relations', NEW j \in DOMAIN relations'[i].columns
        PROVE  relations'[i].columns[j].nullableFromEnclosing => relations'[i].columns[j].merged
    <3> DEFINE p == <<i, j>>
    <3>1. i \in DOMAIN rels /\ j \in DOMAIN rels[i].columns
      BY <1>5, <1>7, <2>1 DEF SameColumns
    <3>2. p \in Bases(rels, DOMAIN rels)
      BY <3>1 DEF Bases
    <3>3. rels[i].columns[j].nullableFromEnclosing => rels[i].columns[j].merged
      <4>1. CASE i \in 1 .. n
        BY <1>1, <1>5, <3>1, <4>1, Shape DEF Flagged
      <4>2. CASE i = n + 1
        BY <1>5, <3>1, <4>2, ItemTyped DEF RelationBinding
      <4> QED BY <1>1, <1>5, <3>1, <4>1, <4>2
    <3>4. At(rels, p) = rels[i].columns[j] /\ At(relations', p) = relations'[i].columns[j]
      BY DEF At
    <3> HIDE DEF p
    <3>5. /\ At(relations', p).nullableFromEnclosing
               => At(rels, p).nullableFromEnclosing \/ At(rels, p).merged
          /\ At(rels, p).merged => At(relations', p).merged
      BY <1>6, <3>2 DEF Joined
    <3> QED BY <3>3, <3>4, <3>5
  <2>2. derived' = derived
    BY <1>3
  <2> QED BY <2>1, <2>2 DEF Flagged
<1> QED BY <1>1, <1>2, <1>5, <1>6, <1>7, <1>9, <1>11, <1>12, <1>13 DEF group, done

LEMMA SelectStarTyped ==
  ASSUME Typed, Flagged, SelectStar,
         NEW star, star = ExpandStar(relations)
  PROVE  /\ Len(relations) \in Nat /\ Len(starts) = 1
         /\ Len(relations') = 0 /\ starts' = <<0>> /\ levels' = <<Level>>
         /\ ~diagnosed' /\ UNCHANGED <<legal, within, fresh>>
         /\ star \in Seq(Nat \X Nat) /\ DOMAIN derived'.columns = DOMAIN star
         /\ \A j \in DOMAIN star : /\ star[j] \in Bases(relations, DOMAIN relations)
                                   /\ ~At(relations, star[j]).coalesced
                                   /\ derived'.columns[j] = Projected(star[j])
         /\ derived'.rows = {{j \in DOMAIN star : \E c \in VisibleOf(star[j]) : J!IsNull(c, row)} :
                               row \in Meaning.rows}
         /\ Typed' /\ Flagged'
<1> DEFINE cols == [j \in DOMAIN star |-> Projected(star[j])]
           nulls(row) == {j \in DOMAIN star : \E c \in VisibleOf(star[j]) : J!IsNull(c, row)}
           C == IsResolvedColumns(Name)
<1>1. Len(relations) \in Nat /\ Len(starts) = 1
  BY Shape DEF SelectStar, Complete
<1>2. /\ derived' = [columns |-> cols, rows |-> {nulls(row) : row \in Meaning.rows}, size |-> Size]
      /\ relations' = <<>> /\ starts' = <<0>> /\ diagnosed' = FALSE
      /\ levels' = <<Level>> /\ UNCHANGED <<legal, within, fresh>>
  BY DEF SelectStar
<1>3. /\ star \in Seq(Nat \X Nat)
      /\ ToSet(star) = {p \in Bases(relations, DOMAIN relations) : ~At(relations, p).coalesced}
  BY TypedParts, StarSet
<1>4. \A j \in DOMAIN star : /\ star[j] \in Bases(relations, DOMAIN relations)
                             /\ ~At(relations, star[j]).coalesced
  <2>1. \A j \in DOMAIN star : star[j] \in ToSet(star)
    BY <1>3 DEF ToSet
  <2> QED BY <1>3, <2>1
<1>5. ASSUME NEW j \in DOMAIN star
      PROVE  /\ Projected(star[j]) \in C
             /\ ~Projected(star[j]).coalesced
             /\ Projected(star[j]).nullableFromEnclosing => Projected(star[j]).merged
  <2> DEFINE i == star[j][1]
             k == star[j][2]
             c == relations[i].columns[k]
             b == BareNullable(relations[i], k)
  <2>1. i \in DOMAIN relations /\ k \in DOMAIN relations[i].columns
    BY <1>4, InBases
  <2>2. c \in C /\ relations[i].nullableFromJoin \in BOOLEAN
    BY <2>1, TypedParts, ColumnsTyped
  <2>3. b \in BOOLEAN
    BY <2>2 DEF BareNullable, IsResolvedColumns
  <2>4. c.nullableFromEnclosing => c.merged
    BY <2>1 DEF Flagged
  <2>5. Projected(star[j]) = [c EXCEPT !.nullable = b, !.coalesced = FALSE]
    BY DEF Projected
  <2> HIDE DEF c, b
  <2> QED BY <2>2, <2>3, <2>4, <2>5 DEF IsResolvedColumns
<1>6. DOMAIN star = 1 .. Len(star) /\ Len(star) \in Nat
  BY <1>3
<1>7. cols \in Seq(C) /\ DOMAIN cols = DOMAIN star
  <2>1. DOMAIN cols = 1 .. Len(star) /\ IsFunctionOn(cols, 1 .. Len(star))
    BY <1>6 DEF IsFunctionOn
  <2>2. \A j \in 1 .. Len(star) : cols[j] \in C
    BY <1>5, <1>6
  <2> HIDE DEF cols, C
  <2> QED BY <1>6, <2>1, <2>2, SeqByPlace
<1>8. derived'.columns = cols /\ derived'.rows = {nulls(row) : row \in Meaning.rows}
  BY <1>2
<1>9. derived'.rows \subseteq SUBSET DOMAIN derived'.columns
  BY <1>7, <1>8
<1>10. \A j \in DOMAIN star : cols[j] = Projected(star[j])
  OBVIOUS
<1> HIDE DEF cols, C
<1>11. Typed'
  <2>1. /\ relations' \in Seq(Relation) /\ Len(relations') = 0
        /\ starts' \in Seq(Nat) /\ Len(starts') = 1 /\ starts'[1] = 0
        /\ levels' \in Seq(Level2) /\ Len(levels') = 1
        /\ 1 \in 1 .. MaxDepth
    BY <1>2, LevelTypes, FromAssumption
  <2>2. /\ diagnosed' \in BOOLEAN /\ legal' \in BOOLEAN /\ within' \in BOOLEAN /\ fresh' \in BOOLEAN
    BY <1>2 DEF Typed
  <2>3. /\ derived.columns' \in Seq(IsResolvedColumns(Name))
        /\ derived.rows' \subseteq SUBSET DOMAIN derived.columns'
    BY <1>7, <1>8, <1>9 DEF C
  <2> QED BY <2>1, <2>2, <2>3, TypedNext
<1>12. Flagged'
  <2>1. DOMAIN relations' = {}
    BY <1>2
  <2>2. \A j \in DOMAIN derived'.columns :
          /\ ~derived'.columns[j].coalesced
          /\ derived'.columns[j].nullableFromEnclosing => derived'.columns[j].merged
    BY <1>5, <1>7, <1>8, <1>10
  <2> QED BY <2>1, <2>2 DEF Flagged
<1> QED BY <1>1, <1>2, <1>3, <1>4, <1>7, <1>8, <1>10, <1>11, <1>12

-----------------------------------------------------------------------------
(* The meaning is invariant: what is shown, and the values when `value` is. *)

Fits(value, ref, rels, range) ==
  Shows(ref, rels, range) /\ (value => Values(derived.columns, ref, rels, range))

LevelFits(value, d) ==
  /\ Fits(value, levels[d].before, relations, Before(d))
  /\ Fits(value, levels[d].group, relations, Group(d))

LEMMA LevelsFit ==
  ASSUME Typed, LevelsShow, LevelsValue, legal, within
  PROVE  /\ ~diagnosed
         /\ \A d \in 1 .. Len(starts) : LevelFits(fresh, d)
         /\ fresh => DerivedValues
<1>1. DOMAIN levels = 1 .. Len(starts)
  BY Shape
<1>2. \A d \in DOMAIN levels : LevelFits(fresh, d)
  BY DEF LevelsShow, LevelsValue, LevelFits, Fits
<1> QED BY <1>1, <1>2 DEF LevelsShow, LevelsValue, DerivedValues

LEMMA LevelsFitNext ==
  ASSUME Typed',
         legal' /\ within' => ~diagnosed' /\ \A d \in 1 .. Len(starts') : LevelFits(fresh, d)',
         legal' /\ within' /\ fresh' => DerivedValues'
  PROVE  LevelsShow' /\ LevelsValue'
<1>1. DOMAIN levels' = 1 .. Len(starts')
  BY DEF Typed
<1>2. LevelsShow'
  BY <1>1 DEF LevelsShow, LevelFits, Fits
<1>3. LevelsValue'
  BY <1>1 DEF LevelsValue, LevelFits, Fits, DerivedValues
<1> QED BY <1>2, <1>3

LEMMA FitsFrame ==
  ASSUME NEW rels, NEW new, NEW range, \A i \in range : new[i] = rels[i],
         NEW value, NEW ref, Fits(value, ref, rels, range)
  PROVE  Fits(value, ref, new, range)
BY ShowsFrame, ValuesFrame DEF Fits

LEMMA ProductFits ==
  ASSUME NEW rels, NEW r1, NEW r2, r1 \cap r2 = {}, NEW left, NEW right,
         NEW value, Fits(value, left, rels, r1), Fits(value, right, rels, r2)
  PROVE  Fits(value, J!Product(left, right), rels, r1 \cup r2)
BY ProductShows, ProductValues DEF Fits

LEMMA NothingFits ==
  ASSUME NEW rels, NEW range, range = {}, NEW value
  PROVE  Fits(value, J!NoReference, rels, range)
BY NothingShown DEF Fits

LEMMA LevelRanges ==
  ASSUME Typed, NEW d \in 1 .. Len(starts)
  PROVE  /\ Base(d) \in Nat /\ End(d) \in Nat /\ End(d) <= Len(relations)
         /\ Before(d) \cup Group(d) = Base(d) + 1 .. End(d)
         /\ Before(d) \cap Group(d) = {}
<1>1. /\ Len(relations) \in Nat /\ d \in Nat /\ d \in DOMAIN starts
      /\ starts[d] \in Nat /\ starts[d] <= Len(relations)
      /\ d # 1 => starts[d - 1] \in Nat /\ starts[d - 1] <= starts[d]
  BY Shape
<1>2. Base(d) \in Nat /\ End(d) \in Nat /\ End(d) <= Len(relations)
  BY <1>1 DEF Base, End
<1>3. Base(d) <= starts[d] /\ starts[d] <= End(d)
  BY <1>1 DEF Base, End
<1> HIDE DEF Base, End
<1> QED BY <1>1, <1>2, <1>3 DEF Before, Group

LEMMA BelowTheTop ==
  ASSUME Typed, NEW e \in Nat \ {0}, e < Len(starts)
  PROVE  e \in DOMAIN starts /\ e # Len(starts) /\ e \in 1 .. Len(starts)
<1> DEFINE top == Len(starts)
<1>1. top \in Nat /\ DOMAIN starts = 1 .. top /\ e < top
  BY Shape
<1> HIDE DEF top
<1>2. e # top /\ e \in 1 .. top
  BY <1>1
<1> QED BY <1>1, <1>2 DEF top

\* The levels that a step leaves open are left alone by it.
LEMMA LowerFits ==
  ASSUME Typed, NEW e \in Nat \ {0}, e < Len(starts), e < Len(starts'),
         \A f \in 1 .. e : starts'[f] = starts[f], levels'[e] = levels[e],
         \A i \in 1 .. starts[e] : relations'[i] = relations[i],
         Typed', fresh' => fresh, derived' = derived, LevelFits(fresh, e)
  PROVE  LevelFits(fresh, e)'
<1>1. e \in DOMAIN starts /\ e # Len(starts) /\ e \in 1 .. Len(starts)
  BY BelowTheTop
<1>2. e # Len(starts')
  <2>1. Len(starts') \in Nat
    BY DEF Typed
  <2> QED BY <2>1
<1>3. Base(e)' = Base(e)
  BY <1>1 DEF Base
<1>4. End(e)' = starts[e] /\ End(e) = starts[e] /\ starts'[e] = starts[e]
  BY <1>1, <1>2 DEF End
<1>5. Base(e) \in Nat /\ starts[e] \in Nat
  BY <1>1, LevelRanges, Shape
<1>6. Before(e)' = Before(e) /\ Group(e)' = Group(e)
  BY <1>3, <1>4 DEF Before, Group
<1>7. Before(e) \subseteq 1 .. starts[e] /\ Group(e) \subseteq 1 .. starts[e]
  BY <1>4, <1>5 DEF Before, Group
<1>8. /\ Fits(fresh, levels[e].before, relations', Before(e))
      /\ Fits(fresh, levels[e].group, relations', Group(e))
  <2>1. /\ \A i \in Before(e) : relations'[i] = relations[i]
        /\ \A i \in Group(e) : relations'[i] = relations[i]
    BY <1>7
  <2> QED BY <2>1, FitsFrame DEF LevelFits
<1> QED BY <1>6, <1>8 DEF LevelFits, Fits

LEMMA WholeFits ==
  ASSUME Typed, NEW d \in 1 .. Len(starts), NEW value, LevelFits(value, d)
  PROVE  Fits(value, WholeLevel(levels[d]), relations, Base(d) + 1 .. End(d))
<1> QED BY LevelRanges, ProductFits DEF LevelFits, WholeLevel

LEMMA InitInvariant ==
  Init => IInv
<1> SUFFICES ASSUME Init PROVE IInv
  OBVIOUS
<1>1. Typed /\ Flagged
  BY InitTyped
<1>2. /\ starts[1] = 0 /\ Len(starts) = 1 /\ Len(relations) = 0
      /\ DOMAIN levels = {1} /\ levels[1].before = J!NoReference /\ levels[1].group = J!NoReference
      /\ ~diagnosed
  BY DEF Init, Level
<1>3. Before(1) = {} /\ Group(1) = {}
  BY <1>2 DEF Before, Group, Base, End
<1>4. LevelsShow
  BY <1>2, <1>3, NothingShown DEF LevelsShow
<1>5. LevelsValue
  <2>1. DOMAIN derived.columns = {} /\ derived.rows = {} /\ derived.size = 0
    BY DEF Init, NoBlock
  <2>2. \A d \in DOMAIN levels :
          /\ Values(derived.columns, levels[d].before, relations, Before(d))
          /\ Values(derived.columns, levels[d].group, relations, Group(d))
    BY <1>2, <1>3, NothingShown
  <2> QED BY <2>1, <2>2 DEF LevelsValue
<1> QED BY <1>1, <1>4, <1>5 DEF IInv

LEMMA CommaItemFits ==
  ASSUME IInv, NEW t \in Table, CommaItem(t),
         NEW n, n = Len(relations), NEW d, d = Len(starts)
  PROVE  IInv'
<1>0. Typed /\ Flagged /\ LevelsShow /\ LevelsValue
  BY DEF IInv
<1>1. /\ n \in Nat /\ d \in Nat \ {0} /\ CanAdd(t)
      /\ Len(relations') = n + 1 /\ (\A i \in 1 .. n : relations'[i] = relations[i])
      /\ relations'[n + 1] = Binding(t)
      /\ Len(starts') = d /\ starts'[d] = n /\ (\A e \in 1 .. d - 1 : starts'[e] = starts[e])
      /\ Len(levels') = d /\ (\A e \in 1 .. d - 1 : levels'[e] = levels[e])
      /\ levels'[d].before = WholeLevel(levels[d])
      /\ levels'[d].group = MeaningOf(n + 1, t)
      /\ UNCHANGED <<diagnosed, derived, legal, within, fresh>>
      /\ Typed' /\ Flagged'
  BY <1>0, CommaItemTyped
<1>2. ASSUME legal', within'
      PROVE  ~diagnosed' /\ (\A e \in 1 .. Len(starts') : LevelFits(fresh, e)')
             /\ (fresh' => DerivedValues')
  <2>1. legal /\ within /\ (fresh' <=> fresh) /\ derived' = derived
    BY <1>1, <1>2
  <2>2. /\ ~diagnosed
        /\ \A e \in 1 .. Len(starts) : LevelFits(fresh, e)
        /\ fresh => DerivedValues
    BY <1>0, <2>1, LevelsFit
  <2>3. d \in 1 .. Len(starts) /\ Len(starts) = d /\ Len(relations) = n
    BY <1>1
  <2>4. Base(d) \in Nat /\ End(d) = n
    BY <1>0, <2>3, LevelRanges DEF End
  <2>5. Fits(fresh, WholeLevel(levels[d]), relations, Base(d) + 1 .. n)
    BY <1>0, <2>2, <2>3, <2>4, WholeFits
  <2>6. Before(d)' = Base(d) + 1 .. n /\ Group(d)' = {n + 1}
    <3>1. Base(d)' = Base(d)
      <4>1. d # 1 => starts'[d - 1] = starts[d - 1]
        BY <1>1
      <4> QED BY <4>1 DEF Base
    <3>2. End(d)' = n + 1
      BY <1>1 DEF End
    <3> QED BY <1>1, <3>1, <3>2 DEF Before, Group
  <2>7. Fits(fresh, levels'[d].before, relations', Before(d)')
    <3> DEFINE whole == WholeLevel(levels[d])
               range == Base(d) + 1 .. n
    <3>1. \A i \in range : relations'[i] = relations[i]
      BY <1>1, <2>4
    <3>2. Fits(fresh, whole, relations, range) /\ levels'[d].before = whole /\ Before(d)' = range
      BY <1>1, <2>5, <2>6
    <3> HIDE DEF whole, range
    <3>3. Fits(fresh, whole, relations', range)
      BY <3>1, <3>2, FitsFrame
    <3> QED BY <3>2, <3>3
  <2>8. Fits(fresh, levels'[d].group, relations', Group(d)')
    <3>1. Binding(t) = RelationBinding(t, ItemColumns(t))
      BY <1>0, ItemTyped
    <3>2. relations' \in Seq(Relation) /\ n + 1 \in DOMAIN relations'
      BY <1>1 DEF Typed
    <3>3. /\ relations'[n + 1].columns = ItemColumns(t) /\ relations'[n + 1].qualifier = t
          /\ ~relations'[n + 1].nullableFromJoin
      BY <1>1, <3>1 DEF RelationBinding
    <3>4. /\ Shows(MeaningOf(n + 1, t), relations', {n + 1})
          /\ DerivedValues => Values(derived.columns, MeaningOf(n + 1, t), relations', {n + 1})
      BY <1>0, <1>1, <3>2, <3>3, ItemShows
    <3> QED BY <1>1, <2>2, <2>6, <3>4 DEF Fits
  <2>9. LevelFits(fresh, d)'
    BY <2>1, <2>7, <2>8 DEF LevelFits, Fits
  <2>10. ASSUME NEW e \in 1 .. Len(starts') PROVE LevelFits(fresh, e)'
    <3>1. CASE e = d
      BY <2>9, <3>1
    <3>2. CASE e # d
      <4>1. /\ e \in Nat \ {0} /\ e < Len(starts) /\ e < Len(starts')
            /\ e \in 1 .. d - 1 /\ e \in 1 .. Len(starts) /\ e \in DOMAIN starts
        BY <1>0, <1>1, <2>3, <2>10, <3>2, Shape
      <4>2. \A i \in 1 .. starts[e] : relations'[i] = relations[i]
        <5>1. starts[e] \in Nat /\ starts[e] <= n
          BY <1>0, <2>3, <4>1, Shape
        <5> QED BY <1>1, <5>1
      <4>3. \A f \in 1 .. e : starts'[f] = starts[f]
        BY <1>1, <4>1
      <4> QED BY <1>0, <1>1, <2>1, <2>2, <2>3, <4>1, <4>2, <4>3, LowerFits
    <3> QED BY <3>1, <3>2
  <2> QED BY <1>1, <2>1, <2>2, <2>10 DEF DerivedValues
<1>3. LevelsShow' /\ LevelsValue'
  BY <1>1, <1>2, LevelsFitNext
<1> QED BY <1>1, <1>3 DEF IInv

LEMMA OpenParenthesisFits ==
  ASSUME IInv, OpenParenthesis, NEW n, n = Len(relations), NEW d, d = Len(starts)
  PROVE  IInv'
<1>0. Typed /\ Flagged /\ LevelsShow /\ LevelsValue
  BY DEF IInv
<1>1. /\ n \in Nat /\ d \in Nat \ {0}
      /\ Len(starts') = d + 1 /\ starts'[d] = n /\ starts'[d + 1] = n
      /\ (\A e \in 1 .. d - 1 : starts'[e] = starts[e])
      /\ Len(levels') = d + 1 /\ levels'[d] = BeginGroup(levels[d]) /\ levels'[d + 1] = Level
      /\ (\A e \in 1 .. d - 1 : levels'[e] = levels[e])
      /\ UNCHANGED <<relations, diagnosed, derived, legal, within, fresh>>
      /\ Typed' /\ Flagged'
  BY <1>0, OpenParenthesisTyped
<1>2. Len(relations') = n
  BY <1>1
<1>3. ASSUME legal', within'
      PROVE  ~diagnosed' /\ (\A e \in 1 .. Len(starts') : LevelFits(fresh, e)')
             /\ (fresh' => DerivedValues')
  <2>1. legal /\ within /\ (fresh' <=> fresh) /\ derived' = derived /\ relations' = relations
    BY <1>1, <1>3
  <2>2. /\ ~diagnosed
        /\ \A e \in 1 .. Len(starts) : LevelFits(fresh, e)
        /\ fresh => DerivedValues
    BY <1>0, <2>1, LevelsFit
  <2>3. d \in 1 .. Len(starts) /\ End(d) = n
    BY <1>1 DEF End
  <2>4. Fits(fresh, WholeLevel(levels[d]), relations, Base(d) + 1 .. n)
    BY <1>0, <2>2, <2>3, WholeFits
  <2>5. Before(d)' = Base(d) + 1 .. n /\ Group(d)' = {}
    <3>1. Base(d)' = Base(d)
      <4>1. d # 1 => starts'[d - 1] = starts[d - 1]
        BY <1>1
      <4> QED BY <4>1 DEF Base
    <3>2. End(d)' = n
      BY <1>1 DEF End
    <3> QED BY <1>1, <3>1, <3>2 DEF Before, Group
  <2>6. Before(d + 1)' = {} /\ Group(d + 1)' = {}
    <3>1. Base(d + 1)' = n /\ End(d + 1)' = n
      BY <1>1, <1>2 DEF Base, End
    <3> QED BY <1>1, <3>1 DEF Before, Group
  <2>7. /\ levels'[d].before = WholeLevel(levels[d]) /\ levels'[d].group = J!NoReference
        /\ levels'[d + 1].before = J!NoReference /\ levels'[d + 1].group = J!NoReference
    BY <1>1 DEF BeginGroup, Level
  <2>8. LevelFits(fresh, d)'
    BY <2>1, <2>4, <2>5, <2>7, NothingFits DEF LevelFits, Fits
  <2>9. LevelFits(fresh, d + 1)'
    BY <2>1, <2>6, <2>7, NothingFits DEF LevelFits, Fits
  <2>10. ASSUME NEW e \in 1 .. d - 1 PROVE LevelFits(fresh, e)'
    <3>1. e \in Nat \ {0} /\ e < Len(starts) /\ e < Len(starts') /\ e \in 1 .. Len(starts)
      BY <1>1
    <3>2. \A f \in 1 .. e : starts'[f] = starts[f]
      BY <1>1
    <3> QED BY <1>0, <1>1, <2>1, <2>2, <3>1, <3>2, LowerFits
  <2>11. \A e \in 1 .. Len(starts') : e = d + 1 \/ e = d \/ e \in 1 .. d - 1
    BY <1>1
  <2>12. \A e \in 1 .. Len(starts') : LevelFits(fresh, e)'
    BY <2>8, <2>9, <2>10, <2>11
  <2> QED BY <1>1, <2>1, <2>2, <2>12 DEF DerivedValues
<1>4. LevelsShow' /\ LevelsValue'
  BY <1>1, <1>3, LevelsFitNext
<1> QED BY <1>1, <1>4 DEF IInv

LEMMA CloseParenthesisFits ==
  ASSUME IInv, CloseParenthesis, NEW n, n = Len(relations), NEW d, d = Len(starts) - 1
  PROVE  IInv'
<1>0. Typed /\ Flagged /\ LevelsShow /\ LevelsValue
  BY DEF IInv
<1>1. /\ n \in Nat /\ d \in Nat \ {0} /\ Len(starts) = d + 1
      /\ Len(starts') = d /\ (\A e \in 1 .. d : starts'[e] = starts[e])
      /\ Len(levels') = d /\ (\A e \in 1 .. d - 1 : levels'[e] = levels[e])
      /\ levels'[d].before = levels[d].before /\ levels'[d].group = WholeLevel(levels[d + 1])
      /\ UNCHANGED <<relations, diagnosed, derived, legal, within, fresh>>
      /\ Typed' /\ Flagged'
  BY <1>0, CloseParenthesisTyped
<1>2. Len(relations') = n
  BY <1>1
<1>3. ASSUME legal', within'
      PROVE  ~diagnosed' /\ (\A e \in 1 .. Len(starts') : LevelFits(fresh, e)')
             /\ (fresh' => DerivedValues')
  <2>1. legal /\ within /\ (fresh' <=> fresh) /\ derived' = derived /\ relations' = relations
    BY <1>1, <1>3
  <2>2. /\ ~diagnosed
        /\ \A e \in 1 .. Len(starts) : LevelFits(fresh, e)
        /\ fresh => DerivedValues
    BY <1>0, <2>1, LevelsFit
  <2>3. d \in 1 .. Len(starts) /\ d + 1 \in 1 .. Len(starts) /\ d # Len(starts) /\ d + 1 # 1
    BY <1>1
  <2>4. Fits(fresh, WholeLevel(levels[d + 1]), relations, starts[d] + 1 .. n)
    <3>1. Base(d + 1) = starts[d] /\ End(d + 1) = n
      BY <1>1, <2>3 DEF Base, End
    <3> QED BY <1>0, <2>2, <2>3, <3>1, WholeFits
  <2>5. Fits(fresh, levels[d].before, relations, Before(d))
    BY <2>2, <2>3 DEF LevelFits
  <2>6. Before(d)' = Before(d) /\ Group(d)' = starts[d] + 1 .. n
    <3>1. Base(d)' = Base(d)
      <4>1. d # 1 => starts'[d - 1] = starts[d - 1]
        BY <1>1
      <4> QED BY <4>1 DEF Base
    <3>2. End(d)' = n /\ starts'[d] = starts[d]
      BY <1>1, <1>2 DEF End
    <3> QED BY <3>1, <3>2 DEF Before, Group
  <2>7. LevelFits(fresh, d)'
    BY <1>1, <2>1, <2>4, <2>5, <2>6 DEF LevelFits, Fits
  <2>8. ASSUME NEW e \in 1 .. d - 1 PROVE LevelFits(fresh, e)'
    <3>1. e \in Nat \ {0} /\ e < Len(starts) /\ e < Len(starts') /\ e \in 1 .. Len(starts)
      BY <1>1
    <3>2. \A f \in 1 .. e : starts'[f] = starts[f]
      BY <1>1
    <3> QED BY <1>0, <1>1, <2>1, <2>2, <3>1, <3>2, LowerFits
  <2>9. \A e \in 1 .. Len(starts') : e = d \/ e \in 1 .. d - 1
    BY <1>1
  <2>10. \A e \in 1 .. Len(starts') : LevelFits(fresh, e)'
    BY <2>7, <2>8, <2>9
  <2> QED BY <1>1, <2>1, <2>2, <2>10 DEF DerivedValues
<1>4. LevelsShow' /\ LevelsValue'
  BY <1>1, <1>3, LevelsFitNext
<1> QED BY <1>1, <1>4 DEF IInv

\* The relations before the current group are left alone by a legal join.
LookedWithin(rels, n, a, names) ==
  \A name \in names : LeftHits(rels, n, name) \subseteq a + 1 .. n

LEMMA JoinLeavesBelow ==
  ASSUME NEW rels \in Seq(Relation), NEW n \in Nat, Len(rels) = n + 1, NEW a \in 0 .. n,
         NEW kind, NEW side, side = NullSide(kind, a, n),
         NEW names, NEW new, Joined(rels, new, n, kind, side, names),
         LookedWithin(rels, n, a, names)
  PROVE  \A i \in 1 .. a : new[i] = rels[i]
<1> SUFFICES ASSUME NEW i \in 1 .. a PROVE new[i] = rels[i]
  OBVIOUS
<1>1. i \in 1 .. n /\ i \notin a + 1 .. n /\ i # n + 1
  OBVIOUS
<1>2. i \notin side
  BY <1>1 DEF NullSide
<1>3. ASSUME NEW j \in DOMAIN rels[i].columns, rels[i].columns[j].name \in names
      PROVE  FALSE
  <2> DEFINE name == rels[i].columns[j].name
  <2>1. HasColumnNamed(rels[i], name)
    BY DEF HasColumnNamed, PositionsOf
  <2>2. i \in LeftHits(rels, n, name)
    BY <1>1, <2>1 DEF LeftHits
  <2> QED BY <1>1, <1>3, <2>2 DEF LookedWithin
<1>4. \A j \in DOMAIN rels[i].columns : rels[i].columns[j].name \notin names
  BY <1>3
<1>5. i \in DOMAIN rels /\ new \in Seq(Relation) /\ i \in DOMAIN new /\ i # n + 1
  BY <1>1 DEF Joined, SameColumns
<1>6. /\ new[i].qualifier = rels[i].qualifier
      /\ DOMAIN new[i].columns = DOMAIN rels[i].columns
      /\ new[i].nullableFromJoin <=> rels[i].nullableFromJoin
  BY <1>2, <1>4, <1>5 DEF Joined, SameColumns
<1>7. ASSUME NEW j \in DOMAIN rels[i].columns PROVE new[i].columns[j] = rels[i].columns[j]
  <2> DEFINE p == <<i, j>>
             was == At(rels, p)
             is == At(new, p)
  <2>1. p \in Bases(rels, DOMAIN rels) /\ p[1] = i /\ was.name \notin names
    BY <1>2, <1>4, <1>5 DEF Bases, At
  <2>2. was \in IsResolvedColumns(Name)
    BY <1>5, ColumnsTyped DEF At
  <2>3. is \in IsResolvedColumns(Name)
    BY <1>5, <1>6, ColumnsTyped DEF At
  <2> HIDE DEF p, was, is
  <2>4. /\ is.name = was.name
        /\ is.nullableFromEnclosing <=> was.nullableFromEnclosing
        /\ is.coalesced <=> was.coalesced
        /\ is.merged <=> was.merged
        /\ is.nullable = was.nullable
    BY <1>2, <1>4, <1>5, <2>1 DEF Joined, was, is
  <2>5. is = was
    BY <2>2, <2>3, <2>4 DEF IsResolvedColumns
  <2> QED BY <2>5 DEF is, was, At, p
<1>8. new[i].columns = rels[i].columns
  <2> DEFINE C == IsResolvedColumns(Name)
  <2>1. new[i].columns \in Seq(C) /\ rels[i].columns \in Seq(C)
    BY <1>5, ColumnsTyped
  <2>2. /\ new[i].columns = [j \in DOMAIN rels[i].columns |-> new[i].columns[j]]
        /\ rels[i].columns = [j \in DOMAIN rels[i].columns |-> rels[i].columns[j]]
    <3> HIDE DEF C
    <3> QED BY <1>6, <2>1
  <2> QED BY <1>7, <2>2
<1>9. new[i] \in Relation /\ rels[i] \in Relation
  BY <1>5, ColumnsTyped
<1>10. new[i].nullableFromJoin \in BOOLEAN /\ rels[i].nullableFromJoin \in BOOLEAN
  BY <1>9 DEF Relation
<1>11. new[i].nullableFromJoin = rels[i].nullableFromJoin
  BY <1>6, <1>10
<1>12. /\ new[i] = [qualifier |-> new[i].qualifier, columns |-> new[i].columns,
                   nullableFromJoin |-> new[i].nullableFromJoin]
      /\ rels[i] = [qualifier |-> rels[i].qualifier, columns |-> rels[i].columns,
                    nullableFromJoin |-> rels[i].nullableFromJoin]
  BY <1>9 DEF Relation
<1> QED BY <1>6, <1>8, <1>11, <1>12, Zenon

\* A fresh join merges columns of one relation that no outer join filled.
LEMMA FreshMeansKeys ==
  ASSUME NEW rels \in Seq(Relation), NEW n \in Nat, Len(rels) = n + 1, NEW names,
         \A name \in names : \A i \in LeftHits(rels, n, name) :
           LeftHits(rels, n, name) = {i} /\ ~rels[i].nullableFromJoin
  PROVE  FreshKeys(rels, n, names)
<1>1. ASSUME NEW p \in Bases(rels, 1 .. n)
      PROVE  p[1] \in LeftHits(rels, n, At(rels, p).name)
  <2>1. p[1] \in 1 .. n /\ p[2] \in DOMAIN rels[p[1]].columns
    BY InBases
  <2> QED BY <2>1 DEF LeftHits, HasColumnNamed, PositionsOf, At
<1>2. ASSUME NEW p \in Bases(rels, 1 .. n), At(rels, p).name \in names,
             NEW q \in Bases(rels, 1 .. n), At(rels, q).name = At(rels, p).name
      PROVE  q[1] = p[1]
  <2>1. /\ p[1] \in LeftHits(rels, n, At(rels, p).name)
        /\ q[1] \in LeftHits(rels, n, At(rels, p).name)
    BY <1>1, <1>2
  <2> QED BY <1>2, <2>1
<1>3. ASSUME NEW p \in Bases(rels, 1 .. n), At(rels, p).name \in names
      PROVE  ~rels[p[1]].nullableFromJoin
  BY <1>1, <1>3
<1> QED BY <1>2, <1>3 DEF FreshKeys

LEMMA JoinItemFits ==
  ASSUME IInv, NEW kind \in Kinds, NEW t \in Table, NEW natural \in BOOLEAN, NEW using \in Using,
         JoinItem(kind, t, natural, using),
         NEW n, NEW d, NEW a, NEW left, NEW right, NEW names, NEW rels, NEW side, NEW old,
         JoinStep(kind, t, natural, using, n, d, a, left, right, names, rels, side, old)
  PROVE  IInv'
<1>0. Typed /\ Flagged /\ LevelsShow /\ LevelsValue
  BY DEF IInv
<1>1. /\ n \in Nat /\ d \in Nat \ {0} /\ a \in 0 .. n
      /\ rels \in Seq(Relation) /\ Len(rels) = n + 1
      /\ (\A i \in 1 .. n : rels[i] = relations[i]) /\ rels[n + 1] = Binding(t)
      /\ using \in Seq(Name)
      /\ Joined(rels, relations', n, kind, side, JoinDone(old, n, natural, using))
      /\ Len(relations') = n + 1
      /\ Len(levels') = d /\ (\A e \in 1 .. d - 1 : levels'[e] = levels[e])
      /\ levels'[d].before = levels[d].before
      /\ levels'[d].group = NewGroup(kind, left, right, names)
      /\ Typed' /\ Flagged'
  BY <1>0, JoinItemTyped
<1>2. /\ CanAdd(t) /\ (natural => using = <<>>)
      /\ diagnosed' = (diagnosed \/ UsingMissing(old, n, using))
      /\ legal' = (legal /\ \A name \in names : J!Mergeable(left, right, name))
      /\ within' = (within /\ \A name \in Looked(right, natural, using) :
                                LeftHits(relations, n, name) \subseteq a + 1 .. n)
      /\ fresh' = (fresh /\ \A name \in Looked(right, natural, using) :
                              \A i \in LeftHits(relations, n, name) :
                                /\ LeftHits(relations, n, name) = {i}
                                /\ ~relations[i].nullableFromJoin)
      /\ UNCHANGED <<starts, derived>>
  BY <1>0, JoinItemMeans
<1>3. /\ n = Len(relations) /\ d = Len(starts) /\ a = starts[d]
      /\ left = levels[d].group /\ right = MeaningOf(n + 1, t)
      /\ names = JoinNames(left, right, natural, using)
      /\ side = NullSide(kind, a, n) /\ old = MarkJoinNullable(rels, side)
  BY DEF JoinStep
<1>4. Len(starts') = d /\ starts' = starts /\ derived' = derived
  BY <1>2, <1>3
<1>5. ASSUME legal', within'
      PROVE  ~diagnosed' /\ (\A e \in 1 .. Len(starts') : LevelFits(fresh, e)')
             /\ (fresh' => DerivedValues')
  <2>1. /\ legal /\ within /\ \A name \in names : J!Mergeable(left, right, name)
        /\ \A name \in Looked(right, natural, using) : LeftHits(relations, n, name) \subseteq a + 1 .. n
    BY <1>2, <1>5
  <2>2. /\ ~diagnosed
        /\ \A e \in 1 .. Len(starts) : LevelFits(fresh, e)
        /\ fresh => DerivedValues
    BY <1>0, <2>1, LevelsFit
  <2>3. \A name : LeftHits(rels, n, name) = LeftHits(relations, n, name)
    BY <1>1 DEF LeftHits
  <2>4. d \in 1 .. Len(starts) /\ End(d) = n /\ Group(d) = a + 1 .. n
    BY <1>1, <1>3 DEF Group, End
  <2>5. Fits(fresh, left, rels, a + 1 .. n)
    <3>1. Fits(fresh, left, relations, a + 1 .. n)
      BY <1>3, <2>2, <2>4 DEF LevelFits
    <3>2. \A i \in a + 1 .. n : rels[i] = relations[i]
      BY <1>1
    <3> QED BY <3>1, <3>2, FitsFrame
  <2>6. /\ Shows(right, rels, {n + 1})
        /\ \A p \in Bases(rels, {n + 1}) :
             /\ GivenAt(derived.columns, rels, p) = At(rels, p)
             /\ At(rels, p).nullableFromEnclosing => At(rels, p).merged
        /\ DerivedValues => Values(derived.columns, right, rels, {n + 1})
        /\ ~rels[n + 1].nullableFromJoin
    <3>1. Binding(t) = RelationBinding(t, ItemColumns(t))
      BY <1>0, ItemTyped
    <3>2. /\ rels[n + 1].columns = ItemColumns(t) /\ rels[n + 1].qualifier = t
          /\ ~rels[n + 1].nullableFromJoin /\ n + 1 \in DOMAIN rels
      BY <1>1, <3>1 DEF RelationBinding
    <3> QED BY <1>0, <1>1, <1>2, <1>3, <3>2, ItemShows
  <2>7. /\ JoinDone(old, n, natural, using) = names
        /\ ~UsingMissing(old, n, using)
        /\ names \subseteq Looked(right, natural, using)
    <3>1. Shows(left, rels, a + 1 .. n) /\ Shows(right, rels, {n + 1})
      BY <2>5, <2>6 DEF Fits
    <3>2. \A name \in Looked(right, natural, using) : LeftHits(rels, n, name) \subseteq a + 1 .. n
      BY <2>1, <2>3
    <3>3. \A name \in names : J!Mergeable(left, right, name)
      BY <2>1
    <3>4. (natural => using = <<>>) /\ old = MarkJoinNullable(rels, side)
          /\ names = JoinNames(left, right, natural, using)
      BY <1>2, <1>3
    <3>5. n \in Nat /\ a \in 0 .. n /\ rels \in Seq(Relation) /\ Len(rels) = n + 1
          /\ using \in Seq(Name)
      BY <1>1
    <3>6. NamesWithin(rels, n, a, side, natural, using, old, left, right, names)
      BY <3>1, <3>2, <3>3, <3>4, <3>5 DEF NamesWithin
    <3> QED BY <3>6, DoneIsNames
  <2>8. Joined(rels, relations', n, kind, side, names)
    BY <1>1, <2>7
  <2>9. levels'[d].group = J!Join(kind, left, right, names)
    BY <1>1, <2>1 DEF NewGroup
  <2>10. Shows(levels'[d].group, relations', a + 1 .. n + 1)
    <3>1. JoinFlags(rels, relations', n, a, side, names)
      BY <1>1, <2>8, FlagsOfJoin
    <3>2. n + 1 \notin a + 1 .. n
      BY <1>1
    <3> QED BY <2>1, <2>5, <2>6, <2>9, <3>1, <3>2, JoinShows DEF Fits
  <2>11. fresh' => Values(derived.columns, levels'[d].group, relations', a + 1 .. n + 1)
    <3> SUFFICES ASSUME fresh'
                 PROVE  Values(derived.columns, levels'[d].group, relations', a + 1 .. n + 1)
      OBVIOUS
    <3>1. /\ fresh
          /\ \A name \in names : \A i \in LeftHits(relations, n, name) :
               LeftHits(relations, n, name) = {i} /\ ~relations[i].nullableFromJoin
      BY <1>2, <2>7
    <3>2. FreshKeys(rels, n, names)
      <4>1. \A name : \A i \in LeftHits(rels, n, name) : i \in 1 .. n
        BY DEF LeftHits
      <4>2. \A name \in names : \A i \in LeftHits(rels, n, name) :
               LeftHits(rels, n, name) = {i} /\ ~rels[i].nullableFromJoin
        BY <1>1, <2>3, <3>1, <4>1
      <4> QED BY <1>1, <4>2, FreshMeansKeys
    <3>3. Values(derived.columns, left, rels, a + 1 .. n)
      BY <2>5, <3>1 DEF Fits
    <3>4. Values(derived.columns, right, rels, {n + 1})
      BY <2>2, <2>6, <3>1
    <3>5. \A p \in Bases(rels, a + 1 .. n + 1) :
            At(rels, p).nullableFromEnclosing => At(rels, p).merged
      <4> SUFFICES ASSUME NEW p \in Bases(rels, a + 1 .. n + 1)
                   PROVE  At(rels, p).nullableFromEnclosing => At(rels, p).merged
        OBVIOUS
      <4>1. p = <<p[1], p[2]>> /\ p[1] \in a + 1 .. n + 1 /\ p[2] \in DOMAIN rels[p[1]].columns
        BY InBases
      <4>2. CASE p[1] = n + 1
        BY <2>6, <4>1, <4>2, InBases
      <4>3. CASE p[1] # n + 1
        <5>1. p[1] \in 1 .. n /\ p[1] \in DOMAIN relations
          BY <1>0, <1>1, <1>3, <4>1, <4>3, Shape
        <5> QED BY <1>0, <1>1, <4>1, <5>1 DEF Flagged, At
      <4> QED BY <4>2, <4>3
    <3>6. \A p \in Bases(rels, {n + 1}) : GivenAt(derived.columns, rels, p) = At(rels, p)
      BY <2>6
    <3>7. Shows(left, rels, a + 1 .. n)
      BY <2>5 DEF Fits
    <3>8. n \in Nat /\ a \in 0 .. n /\ rels \in Seq(Relation) /\ Len(rels) = n + 1
          /\ side = NullSide(kind, a, n)
      BY <1>1, <1>3
    <3>9. \A name \in names : J!Mergeable(left, right, name)
      BY <2>1
    <3>10. Shows(right, rels, {n + 1}) /\ ~rels[n + 1].nullableFromJoin
      BY <2>6
    <3>11. PICK ref, new, outputs :
             ref = J!Join(kind, left, right, names) /\ new = relations' /\ outputs = derived.columns
      OBVIOUS
    <3>12. /\ Joined(rels, new, n, kind, side, names)
           /\ Values(outputs, left, rels, a + 1 .. n) /\ Values(outputs, right, rels, {n + 1})
           /\ \A p \in Bases(rels, {n + 1}) : GivenAt(outputs, rels, p) = At(rels, p)
      BY <2>8, <3>3, <3>4, <3>6, <3>11
    <3>13. Values(outputs, ref, new, a + 1 .. n + 1)
      BY <3>2, <3>5, <3>7, <3>8, <3>9, <3>10, <3>11, <3>12, JoinValues
    <3> QED BY <2>9, <3>11, <3>13
  <2>12. \A i \in 1 .. a : relations'[i] = relations[i]
    <3>1. \A i \in 1 .. a : relations'[i] = rels[i]
      <4>1. LookedWithin(rels, n, a, names)
        BY <2>1, <2>3, <2>7 DEF LookedWithin
      <4>2. /\ n \in Nat /\ a \in 0 .. n /\ rels \in Seq(Relation) /\ Len(rels) = n + 1
            /\ side = NullSide(kind, a, n)
        BY <1>1, <1>3
      <4> QED BY <2>8, <4>1, <4>2, JoinLeavesBelow
    <3> QED BY <1>1, <3>1
  <2>13. fresh' => fresh
    BY <1>2
  <2>14. Fits(fresh, levels[d].before, relations', Before(d)) /\ Before(d)' = Before(d)
    <3>1. Before(d)' = Before(d)
      BY <1>4 DEF Before, Base
    <3>2. Base(d) \in Nat /\ Before(d) \subseteq 1 .. a
      BY <1>0, <1>1, <1>3, <2>4, LevelRanges DEF Before
    <3>3. \A i \in Before(d) : relations'[i] = relations[i]
      BY <2>12, <3>2
    <3> QED BY <2>2, <2>4, <3>1, <3>3, FitsFrame DEF LevelFits
  <2>15. Group(d)' = a + 1 .. n + 1
    BY <1>1, <1>3, <1>4 DEF Group, End
  <2>16. LevelFits(fresh, d)'
    BY <1>1, <1>4, <2>10, <2>11, <2>13, <2>14, <2>15 DEF LevelFits, Fits
  <2>17. ASSUME NEW e \in 1 .. d - 1 PROVE LevelFits(fresh, e)'
    <3>1. /\ e \in Nat \ {0} /\ e < Len(starts) /\ e < Len(starts') /\ e \in 1 .. Len(starts)
          /\ e \in DOMAIN starts /\ d \in DOMAIN starts /\ e <= d
      BY <1>0, <1>1, <1>3, <1>4, <2>4, Shape
    <3>2. \A i \in 1 .. starts[e] : relations'[i] = relations[i]
      <4>1. starts[e] \in Nat /\ starts[e] <= a /\ a \in Nat
        BY <1>0, <1>1, <1>3, <3>1, Shape
      <4> QED BY <2>12, <4>1
    <3>3. \A f \in 1 .. e : starts'[f] = starts[f]
      BY <1>4
    <3> QED BY <1>0, <1>1, <1>4, <2>2, <2>13, <3>1, <3>2, <3>3, LowerFits
  <2>18. \A e \in 1 .. Len(starts') : LevelFits(fresh, e)'
    <3>1. \A e \in 1 .. Len(starts') : e = d \/ e \in 1 .. d - 1
      BY <1>1, <1>4
    <3> QED BY <2>16, <2>17, <3>1
  <2>19. fresh' => DerivedValues'
    BY <1>4, <2>2, <2>13 DEF DerivedValues
  <2> QED BY <1>2, <2>2, <2>7, <2>18, <2>19
<1>6. LevelsShow' /\ LevelsValue'
  BY <1>1, <1>5, LevelsFitNext
<1> QED BY <1>1, <1>6 DEF IInv

LEMMA MeaningFits ==
  ASSUME IInv, legal, within, Len(starts) = 1
  PROVE  /\ Fits(fresh, Meaning, relations, DOMAIN relations)
         /\ relations \in Seq(Relation) /\ ~diagnosed
<1>1. Typed /\ LevelsShow /\ LevelsValue
  BY DEF IInv
<1>2. relations \in Seq(Relation) /\ DOMAIN relations = 1 .. Len(relations)
  BY <1>1 DEF Typed
<1>3. LevelFits(fresh, 1) /\ ~diagnosed /\ 1 \in 1 .. Len(starts)
  BY <1>1, LevelsFit
<1>4. Base(1) + 1 .. End(1) = 1 .. Len(relations)
  BY DEF Base, End
<1>5. Meaning = WholeLevel(levels[1])
  BY <1>1, Shape DEF Meaning
<1> QED BY <1>1, <1>2, <1>3, <1>4, <1>5, WholeFits

\* A finished block is worth as a derived table what its columns claim.
LEMMA SelectStarFits ==
  ASSUME IInv, SelectStar
  PROVE  IInv'
<1> DEFINE star == ExpandStar(relations)
           nulls(row) == {j \in DOMAIN star : \E c \in VisibleOf(star[j]) : J!IsNull(c, row)}
<1>0. Typed /\ Flagged /\ LevelsShow /\ LevelsValue
  BY DEF IInv
<1>1. /\ Len(relations) \in Nat /\ Len(starts) = 1
      /\ Len(relations') = 0 /\ starts' = <<0>> /\ levels' = <<Level>>
      /\ ~diagnosed' /\ UNCHANGED <<legal, within, fresh>>
      /\ star \in Seq(Nat \X Nat) /\ DOMAIN derived'.columns = DOMAIN star
      /\ \A j \in DOMAIN star : /\ star[j] \in Bases(relations, DOMAIN relations)
                                /\ ~At(relations, star[j]).coalesced
                                /\ derived'.columns[j] = Projected(star[j])
      /\ derived'.rows = {nulls(row) : row \in Meaning.rows}
      /\ Typed' /\ Flagged'
  BY <1>0, SelectStarTyped
<1> HIDE DEF star
<1>2. ASSUME legal', within'
      PROVE  \A e \in 1 .. Len(starts') : LevelFits(fresh, e)'
  <2>1. 1 .. Len(starts') = {1}
    BY <1>1
  <2>2. Before(1)' = {} /\ Group(1)' = {}
    BY <1>1 DEF Before, Group, Base, End
  <2>3. levels'[1].before = J!NoReference /\ levels'[1].group = J!NoReference
    BY <1>1 DEF Level
  <2>4. LevelFits(fresh, 1)'
    BY <2>2, <2>3, NothingShown DEF LevelFits, Fits
  <2> QED BY <2>1, <2>4
<1>3. ASSUME legal', within', fresh' PROVE DerivedValues'
  <2>1. legal /\ within /\ fresh
    BY <1>1, <1>3
  <2>2. /\ Shows(Meaning, relations, DOMAIN relations)
        /\ Values(derived.columns, Meaning, relations, DOMAIN relations)
    BY <1>1, <2>1, MeaningFits DEF Fits
  <2>3. ASSUME NEW j \in DOMAIN star, ~derived'.columns[j].nullable, NEW row \in Meaning.rows,
               j \in nulls(row)
        PROVE  FALSE
    <3> DEFINE p == star[j]
    <3>1. PICK c \in Meaning.columns : p \in c.parts /\ c.parts \subseteq row
      BY <2>3 DEF VisibleOf, J!IsNull
    <3>2. ~At(relations, p).coalesced /\ derived'.columns[j] = Projected(p)
          /\ p \in Bases(relations, DOMAIN relations)
      BY <1>1
    <3>3. derived'.columns[j].nullable = BareNullable(relations[p[1]], p[2])
      <4>1. p[1] \in DOMAIN relations /\ p[2] \in DOMAIN relations[p[1]].columns
        BY <3>2, InBases
      <4>2. relations[p[1]].columns[p[2]] \in IsResolvedColumns(Name)
        BY <1>0, <4>1, TypedParts, ColumnsTyped
      <4> HIDE DEF p
      <4> QED BY <3>2, <4>2 DEF Projected, IsResolvedColumns
    <3> HIDE DEF p
    <3>4. ~BareNullable(relations[p[1]], p[2])
      BY <2>3, <3>3
    <3> QED BY <2>2, <2>3, <3>1, <3>2, <3>4 DEF Values
  <2>4. {} \in derived'.rows
    <3>1. {} \in Meaning.rows
      BY <2>2 DEF Values
    <3>2. nulls({}) = {}
      <4>1. \A c \in Meaning.columns : ~(c.parts \subseteq {})
        BY <2>2 DEF Shows
      <4> QED BY <4>1 DEF VisibleOf, J!IsNull
    <3> QED BY <1>1, <3>1, <3>2
  <2>5. \A j \in DOMAIN derived'.columns :
          ~derived'.columns[j].nullable => \A row \in derived'.rows : j \notin row
    BY <1>1, <2>3
  <2> QED BY <2>4, <2>5 DEF DerivedValues
<1>4. LevelsShow' /\ LevelsValue'
  BY <1>1, <1>2, <1>3, LevelsFitNext
<1> QED BY <1>1, <1>4 DEF IInv

\* Of one relation: its columns are those of its table.
GivenColumns(rel) ==
  LET given == Binding(rel.qualifier).columns
  IN /\ DOMAIN rel.columns = DOMAIN given
     /\ \A j \in DOMAIN given : rel.columns[j].name = given[j].name

LEMMA BoundMeans ==
  Bound <=> \A i \in DOMAIN relations : GivenColumns(relations[i])
BY DEF Bound, GivenColumns, Given, At

LEMMA ItemGiven ==
  ASSUME NEW t
  PROVE  GivenColumns(Binding(t))
BY DEF GivenColumns, Binding, RelationBinding

LEMMA NextKeeps ==
  ASSUME IInv, Bound, [Next]_vars
  PROVE  IInv' /\ Bound'
<1>0. Typed /\ Flagged
  BY DEF IInv
<1>1. ASSUME NEW t \in Table, CommaItem(t)
      PROVE  IInv' /\ Bound'
  <2>1. IInv'
    BY <1>1, CommaItemFits
  <2>2. Bound'
    <3> DEFINE n == Len(relations)
    <3>1. /\ n \in Nat /\ Len(relations') = n + 1 /\ (\A i \in 1 .. n : relations'[i] = relations[i])
          /\ relations'[n + 1] = Binding(t) /\ derived' = derived
      BY <1>0, <1>1, CommaItemTyped
    <3>2. DOMAIN relations' = 1 .. n + 1 /\ DOMAIN relations = 1 .. n
      <4>1. relations' \in Seq(Relation)
        BY <2>1 DEF IInv, Typed
      <4> QED BY <1>0, <3>1, <4>1, Shape
    <3>3. \A i \in DOMAIN relations' : GivenColumns(relations'[i])
      BY <3>1, <3>2, ItemGiven, BoundMeans
    <3> QED BY <3>1, <3>3 DEF Bound, GivenColumns, Given, At, Binding
  <2> QED BY <2>1, <2>2
<1>2. ASSUME OpenParenthesis
      PROVE  IInv' /\ Bound'
  <2>1. relations' = relations /\ derived' = derived
    BY <1>2 DEF OpenParenthesis
  <2> QED BY <1>2, <2>1, OpenParenthesisFits DEF Bound, Given, Binding
<1>3. ASSUME CloseParenthesis
      PROVE  IInv' /\ Bound'
  <2>1. relations' = relations /\ derived' = derived
    BY <1>3 DEF CloseParenthesis
  <2> QED BY <1>3, <2>1, CloseParenthesisFits DEF Bound, Given, Binding
<1>4. ASSUME NEW kind \in Kinds, NEW t \in Table, NEW natural \in BOOLEAN, NEW using \in Using,
             JoinItem(kind, t, natural, using)
      PROVE  IInv' /\ Bound'
  <2> DEFINE n == Len(relations)
             d == Len(starts)
             a == starts[d]
             left == levels[d].group
             right == MeaningOf(n + 1, t)
             names == JoinNames(left, right, natural, using)
             rels == Append(relations, Binding(t))
             side == NullSide(kind, a, n)
             old == MarkJoinNullable(rels, side)
  <2>1. JoinStep(kind, t, natural, using, n, d, a, left, right, names, rels, side, old)
    BY DEF JoinStep
  <2> HIDE DEF n, d, a, left, right, names, rels, side, old
  <2>2. IInv'
    BY <1>4, <2>1, JoinItemFits
  <2>3. /\ n \in Nat /\ rels \in Seq(Relation) /\ Len(rels) = n + 1
        /\ (\A i \in 1 .. n : rels[i] = relations[i]) /\ rels[n + 1] = Binding(t)
        /\ Joined(rels, relations', n, kind, side, JoinDone(old, n, natural, using))
    BY <1>0, <1>4, <2>1, JoinItemTyped
  <2>4. derived' = derived
    BY <1>4 DEF JoinItem
  <2>5. \A i \in DOMAIN rels : GivenColumns(rels[i])
    <3>1. DOMAIN rels = 1 .. n + 1 /\ DOMAIN relations = 1 .. n
      BY <1>0, <2>1, <2>3, Shape DEF JoinStep
    <3> QED BY <2>3, <3>1, ItemGiven, BoundMeans
  <2>6. \A i \in DOMAIN relations' : GivenColumns(relations'[i])
    <3>1. DOMAIN relations' = DOMAIN rels /\ SameColumns(rels, relations')
      BY <2>3 DEF Joined, SameColumns
    <3> QED BY <2>5, <3>1 DEF GivenColumns, SameColumns
  <2>7. Bound'
    BY <2>4, <2>6 DEF Bound, GivenColumns, Given, At, Binding
  <2> QED BY <2>2, <2>7
<1>5. ASSUME SelectStar
      PROVE  IInv' /\ Bound'
  <2>1. relations' = <<>>
    BY <1>5 DEF SelectStar
  <2>2. DOMAIN relations' = {}
    BY <2>1
  <2> QED BY <1>5, <2>2, SelectStarFits DEF Bound
<1>6. ASSUME UNCHANGED vars
      PROVE  IInv' /\ Bound'
  BY <1>6 DEF vars, meaningVars, IInv, Typed, Flagged, LevelsShow, LevelsValue, Bound, Base, End,
              Before, Group, Given, Binding
<1> QED BY <1>1, <1>2, <1>3, <1>4, <1>5, <1>6 DEF Next

LEMMA Invariance ==
  Spec => [](IInv /\ Bound)
<1>1. Init => IInv /\ Bound
  <2>1. Init => Bound
    BY DEF Init, Bound
  <2> QED BY <2>1, InitInvariant
<1>2. IInv /\ Bound /\ [Next]_vars => (IInv /\ Bound)'
  BY NextKeeps
<1> QED BY <1>1, <1>2, PTL DEF Spec

-----------------------------------------------------------------------------
(* What the lookups answer, in terms of what is shown.                      *)

LEMMA LeastIsIn ==
  ASSUME NEW S \in SUBSET Nat, S # {}
  PROVE  LeastOf(S) \in S
<1>1. \E x \in S : \A y \in S : x <= y
  BY LeastExists
<1> QED BY <1>1 DEF LeastOf

\* In one relation, the columns of a name: one, or all of them not hidden.
Sound(rels) ==
  \A p1, p2 \in Bases(rels, DOMAIN rels) :
    At(rels, p1).coalesced /\ p1[1] = p2[1] /\ At(rels, p1).name = At(rels, p2).name => p1 = p2

LEMMA NamedIn ==
  ASSUME NEW rels \in Seq(Relation), Sound(rels), NEW i \in DOMAIN rels, NEW name
  PROVE  /\ i \in Matches(rels, name)
              <=> \E j \in DOMAIN rels[i].columns :
                    rels[i].columns[j].name = name /\ ~rels[i].columns[j].coalesced
         /\ \A j1, j2 \in DOMAIN rels[i].columns :
              /\ j1 # j2
              /\ rels[i].columns[j1].name = name /\ rels[i].columns[j2].name = name
              => CountColumn(rels[i], name) > 1
         /\ (\E j \in DOMAIN rels[i].columns :
               \A j2 \in DOMAIN rels[i].columns : rels[i].columns[j2].name = name => j2 = j)
              => ~(CountColumn(rels[i], name) > 1)
         /\ HasColumnNamed(rels[i], name)
              => /\ FindColumnNamed(rels[i], name) \in DOMAIN rels[i].columns
                 /\ rels[i].columns[FindColumnNamed(rels[i], name)].name = name
<1> DEFINE cols == rels[i].columns
           at == PositionsOf(rels[i], name)
           first == FindColumnNamed(rels[i], name)
           shown == {j \in at : ~cols[j].coalesced}
<1>1. at = {j \in DOMAIN cols : cols[j].name = name} /\ (HasColumnNamed(rels[i], name) <=> at # {})
  BY DEF PositionsOf, HasColumnNamed
<1>2. HasColumnNamed(rels[i], name) => first \in DOMAIN cols /\ cols[first].name = name
  BY FoundFirst
<1>3. ASSUME NEW j1 \in at, NEW j2 \in at, cols[j1].coalesced PROVE j1 = j2
  <2>1. /\ <<i, j1>> \in Bases(rels, DOMAIN rels) /\ <<i, j2>> \in Bases(rels, DOMAIN rels)
        /\ At(rels, <<i, j1>>) = cols[j1] /\ At(rels, <<i, j2>>) = cols[j2]
    BY <1>1 DEF Bases, At
  <2>2. cols[j1].name = cols[j2].name
    BY <1>1
  <2>3. <<i, j1>> = <<i, j2>>
    <3> HIDE DEF cols, at
    <3> QED BY <1>3, <2>1, <2>2 DEF Sound
  <2> QED BY <2>3
<1>4. IsFiniteSet(at)
  <2>1. DOMAIN cols = 1 .. Len(cols) /\ Len(cols) \in Nat
    BY ColumnsTyped
  <2>2. IsFiniteSet(1 .. Len(cols))
    BY <2>1, FS_Interval
  <2> HIDE DEF cols
  <2> QED BY <1>1, <2>1, <2>2, FS_Subset
<1>5. IsFiniteSet(shown) /\ CountColumn(rels[i], name) = Cardinality(shown)
  <2>1. CountColumn(rels[i], name) = Cardinality(shown)
    BY DEF CountColumn
  <2> HIDE DEF at
  <2> QED BY <1>4, <2>1, FS_Subset
<1>6. i \in Matches(rels, name) <=> at # {} /\ ~cols[first].coalesced
  BY <1>1 DEF Matches
<1>7. i \in Matches(rels, name) <=> \E j \in at : ~cols[j].coalesced
  <2> HIDE DEF cols, first, at
  <2> QED BY <1>1, <1>2, <1>3, <1>6
<1>8. ASSUME NEW j1 \in at, NEW j2 \in at, j1 # j2 PROVE Cardinality(shown) > 1
  <2>1. j1 \in shown /\ j2 \in shown
    BY <1>3, <1>8
  <2> HIDE DEF shown
  <2> QED BY <1>5, <1>8, <2>1, TwoAreMore
<1>9. ASSUME NEW j \in DOMAIN cols, \A j2 \in DOMAIN cols : cols[j2].name = name => j2 = j
      PROVE  ~(Cardinality(shown) > 1)
  <2>1. shown \in SUBSET {j}
    BY <1>1, <1>9
  <2>2. Cardinality(shown) <= Cardinality({j}) /\ Cardinality({j}) = 1 /\ Cardinality(shown) \in Nat
    <3> HIDE DEF shown
    <3> QED BY <1>5, <2>1, FS_Subset, FS_Singleton, FS_CardinalityType
  <2> QED BY <2>2
<1> HIDE DEF at, shown
<1> QED BY <1>1, <1>2, <1>5, <1>7, <1>8, <1>9

\* A bare name is answered by the columns of that name.
BareAnswers(answer, ref, rels, name) ==
  LET named == {c \in ref.columns : c.name = name}
  IN \/ named = {} /\ answer.status = "missing"
     \/ \E c \in named, p \in Bases(rels, DOMAIN rels) :
          /\ named = {c} /\ p \in c.parts /\ ~At(rels, p).coalesced
          /\ answer = Answer(1, p[1], p[2], BareNullable(rels[p[1]], p[2]))
     \/ \E c1, c2 \in named : c1 # c2 /\ answer.status = "ambiguous"

LEMMA ShowsSound ==
  ASSUME NEW rels, NEW ref, Shows(ref, rels, DOMAIN rels)
  PROVE  Sound(rels)
BY DEF Shows, Sound

LEMMA BareIsAnswered ==
  ASSUME NEW rels \in Seq(Relation), NEW ref, Shows(ref, rels, DOMAIN rels), NEW name
  PROVE  BareAnswers(ResolveBare(<<rels>>, name), ref, rels, name)
<1> DEFINE named == {c \in ref.columns : c.name = name}
           B == Bases(rels, DOMAIN rels)
           found == Matches(rels, name)
           i == LeastOf(found)
           j == FindColumnNamed(rels[i], name)
           answer == ResolveBare(<<rels>>, name)
<1>1. Sound(rels)
  BY ShowsSound
<1>2. found \in SUBSET Nat /\ found \subseteq DOMAIN rels /\ IsFiniteSet(found)
  <2>1. DOMAIN rels = 1 .. Len(rels) /\ Len(rels) \in Nat
    OBVIOUS
  <2>2. found \subseteq DOMAIN rels
    BY DEF Matches
  <2>3. IsFiniteSet(1 .. Len(rels))
    BY <2>1, FS_Interval
  <2> HIDE DEF found
  <2>4. found \in SUBSET (1 .. Len(rels))
    BY <2>1, <2>2
  <2>5. IsFiniteSet(found)
    BY <2>3, <2>4, FS_Subset
  <2> QED BY <2>1, <2>2, <2>5
<1>3. answer = IF found = {} THEN Unanswered("missing")
               ELSE IF \/ Cardinality(found) > 1
                       \/ \E r \in found : CountColumn(rels[r], name) > 1
                    THEN Unanswered("ambiguous")
                    ELSE Answer(1, i, j, BareNullable(rels[i], j))
  <2> DEFINE having == {s \in DOMAIN <<rels>> : Matches(<<rels>>[s], name) # {}}
  <2>1. DOMAIN <<rels>> = {1} /\ <<rels>>[1] = rels
    OBVIOUS
  <2>2. having = IF found = {} THEN {} ELSE {1}
    BY <2>1
  <2>3. LeastOf({1}) = 1
    BY DEF LeastOf
  <2>4. CASE found = {}
    <3>1. having = {}
      BY <2>2, <2>4
    <3> QED BY <2>4, <3>1 DEF ResolveBare
  <2>5. CASE found # {}
    <3>1. having = {1} /\ LeastOf(having) = 1
      BY <2>2, <2>3, <2>5
    <3> HIDE DEF found
    <3> QED BY <2>1, <2>5, <3>1 DEF ResolveBare, found
  <2> QED BY <2>4, <2>5
<1>4. \A c \in named : \E p \in B : p \in c.parts /\ ~At(rels, p).coalesced /\ At(rels, p).name = name
  <2> SUFFICES ASSUME NEW c \in named
               PROVE  \E p \in B : p \in c.parts /\ ~At(rels, p).coalesced /\ At(rels, p).name = name
    OBVIOUS
  <2>1. c \in ref.columns /\ c.name = name
    OBVIOUS
  <2>2. PICK p \in c.parts : ~At(rels, p).coalesced
    BY <2>1 DEF Shows
  <2>3. p \in B /\ At(rels, p).name = name
    BY <2>1, <2>2 DEF Shows
  <2> QED BY <2>2, <2>3
<1>5. \A p \in B : At(rels, p).name = name => \E c \in named : p \in c.parts
  <2> SUFFICES ASSUME NEW p \in B, At(rels, p).name = name PROVE \E c \in named : p \in c.parts
    OBVIOUS
  <2>1. PICK c \in ref.columns : p \in c.parts
    BY DEF Shows
  <2>2. c.name = name
    BY <2>1 DEF Shows
  <2> QED BY <2>1, <2>2
<1>6. \A p \in B : At(rels, p).name = name /\ ~At(rels, p).coalesced => p[1] \in found
  <2> SUFFICES ASSUME NEW p \in B, At(rels, p).name = name, ~At(rels, p).coalesced
               PROVE  p[1] \in found
    OBVIOUS
  <2>1. p[1] \in DOMAIN rels /\ p[2] \in DOMAIN rels[p[1]].columns
    BY InBases
  <2> QED BY <1>1, <2>1, NamedIn DEF At
<1>7. \A r \in found : \E p \in B : p[1] = r /\ At(rels, p).name = name /\ ~At(rels, p).coalesced
  <2> SUFFICES ASSUME NEW r \in found
               PROVE  \E p \in B : p[1] = r /\ At(rels, p).name = name /\ ~At(rels, p).coalesced
    OBVIOUS
  <2>1. r \in DOMAIN rels
    BY <1>2
  <2>2. PICK k \in DOMAIN rels[r].columns :
          rels[r].columns[k].name = name /\ ~rels[r].columns[k].coalesced
    BY <1>1, <2>1, NamedIn
  <2>3. <<r, k>> \in B /\ At(rels, <<r, k>>) = rels[r].columns[k]
    BY <2>1 DEF Bases, At
  <2> QED BY <2>2, <2>3
<1>8. CASE named = {}
  <2>1. found = {}
    <3> HIDE DEF found, B, named
    <3> QED BY <1>5, <1>7, <1>8
  <2>2. answer.status = "missing"
    BY <1>3, <2>1 DEF Unanswered
  <2> QED BY <1>8, <2>2 DEF BareAnswers
<1>9. CASE \E c1, c2 \in named : c1 # c2
  <2>1. PICK c1 \in named, c2 \in named : c1 # c2
    BY <1>9
  <2>2. PICK p1 \in B : p1 \in c1.parts /\ ~At(rels, p1).coalesced /\ At(rels, p1).name = name
    BY <1>4
  <2>3. PICK p2 \in B : p2 \in c2.parts /\ ~At(rels, p2).coalesced /\ At(rels, p2).name = name
    BY <1>4
  <2>4. p1 # p2
    <3>1. c1 \in ref.columns /\ c2 \in ref.columns
      OBVIOUS
    <3> QED BY <2>1, <2>2, <2>3, <3>1 DEF Shows
  <2>5. p1[1] \in found /\ p2[1] \in found
    BY <1>6, <2>2, <2>3
  <2>6. CASE p1[1] # p2[1]
    <3>1. Cardinality(found) > 1
      <4> HIDE DEF found
      <4> QED BY <1>2, <2>5, <2>6, TwoAreMore
    <3>2. answer.status = "ambiguous"
      <4> HIDE DEF found
      <4> QED BY <1>3, <2>5, <3>1 DEF Unanswered
    <3> QED BY <2>1, <3>2 DEF BareAnswers
  <2>7. CASE p1[1] = p2[1]
    <3>1. /\ p1[1] \in DOMAIN rels
          /\ p1[2] \in DOMAIN rels[p1[1]].columns /\ p2[2] \in DOMAIN rels[p1[1]].columns
          /\ p1[2] # p2[2]
          /\ rels[p1[1]].columns[p1[2]].name = name /\ rels[p1[1]].columns[p2[2]].name = name
      <4>1. p1 = <<p1[1], p1[2]>> /\ p1[1] \in DOMAIN rels /\ p1[2] \in DOMAIN rels[p1[1]].columns
        BY InBases
      <4>2. p2 = <<p2[1], p2[2]>> /\ p2[2] \in DOMAIN rels[p2[1]].columns
        BY InBases
      <4> HIDE DEF B
      <4> QED BY <2>2, <2>3, <2>4, <2>7, <4>1, <4>2 DEF At
    <3>2. CountColumn(rels[p1[1]], name) > 1
      BY <1>1, <3>1, NamedIn
    <3>3. answer.status = "ambiguous"
      <4> HIDE DEF found
      <4> QED BY <1>3, <2>5, <3>2 DEF Unanswered
    <3> QED BY <2>1, <3>3 DEF BareAnswers
  <2> QED BY <2>6, <2>7
<1>10. CASE \E c : named = {c}
  <2>1. PICK c : named = {c}
    BY <1>10
  <2>2. c \in named /\ c \in ref.columns /\ c.name = name
    BY <2>1
  <2>3. PICK p \in B : p \in c.parts /\ ~At(rels, p).coalesced /\ At(rels, p).name = name
    BY <1>4, <2>2
  <2>4. \A q \in B : At(rels, q).name = name => q \in c.parts
    BY <1>5, <2>1
  <2>5. \A q \in B : At(rels, q).name = name /\ ~At(rels, q).coalesced => q = p
    BY <2>2, <2>3, <2>4 DEF Shows
  <2>6. found = {p[1]}
    <3> HIDE DEF found, B
    <3> QED BY <1>6, <1>7, <2>3, <2>5
  <2>7. p = <<p[1], p[2]>> /\ p[1] \in DOMAIN rels /\ p[2] \in DOMAIN rels[p[1]].columns
    BY InBases
  <2>8. \A k \in DOMAIN rels[p[1]].columns : rels[p[1]].columns[k].name = name => k = p[2]
    <3> SUFFICES ASSUME NEW k \in DOMAIN rels[p[1]].columns, rels[p[1]].columns[k].name = name
                 PROVE  k = p[2]
      OBVIOUS
    <3> DEFINE q == <<p[1], k>>
    <3>1. q \in B /\ At(rels, q).name = name /\ q[1] = p[1] /\ q[2] = k
      BY <2>7 DEF Bases, At
    <3>2. q \in c.parts
      BY <2>4, <3>1
    <3> HIDE DEF q
    <3>3. q = p
      BY <2>2, <2>3, <3>1, <3>2 DEF Shows
    <3> QED BY <3>1, <3>3
  <2>9. HasColumnNamed(rels[p[1]], name)
    BY <2>3, <2>7 DEF HasColumnNamed, PositionsOf, At
  <2>10. /\ ~(CountColumn(rels[p[1]], name) > 1)
         /\ FindColumnNamed(rels[p[1]], name) = p[2]
    BY <1>1, <2>7, <2>8, <2>9, NamedIn
  <2>11. LeastOf(found) = p[1]
    BY <1>2, <2>6, LeastIsIn
  <2>12. ~(Cardinality(found) > 1)
    <3>1. \A x : Cardinality({x}) = 1
      BY FS_Singleton
    <3>2. Cardinality(found) = 1
      <4> HIDE DEF found
      <4> QED BY <2>6, <3>1
    <3> HIDE DEF found
    <3> QED BY <3>2
  <2>13. answer = Answer(1, p[1], p[2], BareNullable(rels[p[1]], p[2]))
    <3>1. i = p[1] /\ j = p[2]
      BY <2>10, <2>11
    <3> HIDE DEF i, j, found
    <3> QED BY <1>3, <2>6, <2>10, <2>12, <3>1
  <2> HIDE DEF answer
  <2> QED BY <2>1, <2>2, <2>3, <2>13 DEF BareAnswers, answer
<1>11. named = {} \/ (\E c1, c2 \in named : c1 # c2) \/ (\E c : named = {c})
  <2> HIDE DEF named
  <2> SUFFICES ASSUME named # {}, ~\E c1, c2 \in named : c1 # c2 PROVE \E c : named = {c}
    OBVIOUS
  <2>1. PICK c \in named : TRUE
    OBVIOUS
  <2>2. named = {c}
    BY <2>1
  <2> QED BY <2>2
<1> QED BY <1>8, <1>9, <1>10, <1>11

LEMMA QualifiedIsAnswered ==
  ASSUME NEW rels \in Seq(Relation), NEW q, NEW name,
         NEW answer, answer = ResolveQualified(<<rels>>, q, name), answer.status = "found"
  PROVE  \E k \in DOMAIN rels :
           /\ rels[k].qualifier = q /\ HasColumnNamed(rels[k], name)
           /\ ~(CountColumn(rels[k], name) > 1)
           /\ answer = Answer(1, k, FindColumnNamed(rels[k], name),
                              QualifiedNullable(rels[k], FindColumnNamed(rels[k], name)))
<1> DEFINE addressed == {k \in DOMAIN rels : rels[k].qualifier = q}
           having == {k \in addressed : HasColumnNamed(rels[k], name)}
           scopes == {s \in DOMAIN <<rels>> :
                        {k \in {k \in DOMAIN <<rels>>[s] : <<rels>>[s][k].qualifier = q} :
                           HasColumnNamed(<<rels>>[s][k], name)} # {}}
           i == LeastOf(having)
           j == FindColumnNamed(rels[i], name)
<1>1. DOMAIN <<rels>> = {1} /\ <<rels>>[1] = rels
  OBVIOUS
<1>2. scopes = IF having = {} THEN {} ELSE {1}
  BY <1>1
<1>3. LeastOf({1}) = 1
  BY DEF LeastOf
<1>4. having # {}
  <2> SUFFICES ASSUME having = {} PROVE FALSE
    OBVIOUS
  <2>1. scopes = {}
    BY <1>2
  <2> DEFINE bad == \A t \in DOMAIN <<rels>> :
                      {k \in DOMAIN <<rels>>[t] : <<rels>>[t][k].qualifier = q} = {}
  <2>2. CASE bad
    <3>1. answer = Unanswered("bad_qualifier")
      BY <2>2 DEF ResolveQualified
    <3> QED BY <3>1 DEF Unanswered
  <2>3. CASE ~bad
    <3>1. answer = Unanswered("missing")
      BY <2>1, <2>3 DEF ResolveQualified
    <3> QED BY <3>1 DEF Unanswered
  <2> QED BY <2>2, <2>3
<1>5. scopes = {1} /\ LeastOf(scopes) = 1
  BY <1>2, <1>3, <1>4
<1>6. addressed # {}
  BY <1>4
<1>7. answer = IF CountColumn(rels[i], name) > 1 THEN Unanswered("ambiguous")
               ELSE Answer(1, i, j, QualifiedNullable(rels[i], j))
  <2>1. ~(\A t \in DOMAIN <<rels>> : {k \in DOMAIN <<rels>>[t] : <<rels>>[t][k].qualifier = q} = {})
    BY <1>1, <1>6
  <2>2. scopes # {}
    BY <1>5
  <2>3. answer = IF CountColumn(<<rels>>[LeastOf(scopes)][i], name) > 1 THEN Unanswered("ambiguous")
                 ELSE Answer(LeastOf(scopes), i, j, QualifiedNullable(<<rels>>[LeastOf(scopes)][i], j))
    <3>1. <<rels>>[LeastOf(scopes)] = rels
      BY <1>1, <1>5
    <3> QED BY <2>1, <2>2, <3>1 DEF ResolveQualified
  <2> HIDE DEF scopes, i, j
  <2> QED BY <1>1, <1>5, <2>3
<1>8. ~(CountColumn(rels[i], name) > 1)
  <2> HIDE DEF i, j
  <2> QED BY <1>7 DEF Unanswered
<1>9. i \in having
  <2>1. having \in SUBSET Nat
    <3>1. DOMAIN rels \subseteq Nat
      OBVIOUS
    <3> QED BY <3>1
  <2> HIDE DEF having
  <2> QED BY <1>4, <2>1, LeastIsIn
<1> HIDE DEF i
<1> QED BY <1>7, <1>8, <1>9

\* In a clear block the meaning is the scope's.
LEMMA ClearMeans ==
  ASSUME IInv, Clear
  PROVE  /\ relations \in Seq(Relation) /\ ~diagnosed
         /\ Shows(Meaning, relations, DOMAIN relations)
         /\ fresh => Values(derived.columns, Meaning, relations, DOMAIN relations)
         /\ ~DuplicateRelation
<1>1. legal /\ within /\ Len(starts) = 1 /\ ~DuplicateRelation
  BY DEF Clear, Complete
<1>2. /\ Fits(fresh, Meaning, relations, DOMAIN relations)
      /\ relations \in Seq(Relation) /\ ~diagnosed
  BY <1>1, MeaningFits
<1> QED BY <1>1, <1>2 DEF Fits

LEMMA GivenIs ==
  ASSUME NEW p
  PROVE  GivenAt(derived.columns, relations, p) = Given(p)
BY DEF GivenAt, Given, Binding, RelationBinding

LEMMA TypedIsTypeOK ==
  IInv => TypeOK
<1> SUFFICES ASSUME IInv PROVE TypeOK
  OBVIOUS
<1>1. Typed
  BY DEF IInv
<1>2. \A i \in DOMAIN relations :
        /\ relations[i].qualifier \in Table
        /\ relations[i].columns \in Seq(IsResolvedColumns(Name))
        /\ relations[i].nullableFromJoin \in BOOLEAN
  BY <1>1, TypedParts, ColumnsTyped
<1>3. \A d \in DOMAIN starts : starts[d] \in 0 .. Len(relations)
  BY <1>1, Shape
<1>4. Len(starts) \in 1 .. MaxDepth /\ Len(levels) = Len(starts) /\ diagnosed \in BOOLEAN
  BY <1>1 DEF Typed
<1> QED BY <1>2, <1>3, <1>4 DEF TypeOK

LEMMA BareAgree ==
  IInv => BareNamesAgree
<1> SUFFICES ASSUME IInv, Clear, NEW n \in Name,
                    NEW shown, shown = J!Named(Meaning, n),
                    NEW answer, answer = ResolveBare(<<relations>>, n)
             PROVE  /\ ~diagnosed
                    /\ Cardinality(shown) = 1 =>
                         /\ answer.status = "found"
                         /\ \A c \in shown : <<answer.relation, answer.column>> \in c.parts
                    /\ Cardinality(shown) # 1 =>
                         answer.status = (IF shown = {} THEN "missing" ELSE "ambiguous")
  BY ClearMeans DEF BareNamesAgree
<1>1. shown = {c \in Meaning.columns : c.name = n}
  BY DEF J!Named
<1>2. ~diagnosed /\ IsFiniteSet(shown)
  <2>1. IsFiniteSet(Meaning.columns)
    BY ClearMeans DEF Shows
  <2>2. shown \in SUBSET Meaning.columns
    BY <1>1
  <2> QED BY <2>1, <2>2, ClearMeans, FS_Subset
<1>3. BareAnswers(answer, Meaning, relations, n)
  BY ClearMeans, BareIsAnswered
<1>4. \/ shown = {} /\ answer.status = "missing"
      \/ \E c \in shown, p \in Bases(relations, DOMAIN relations) :
           /\ shown = {c} /\ p \in c.parts
           /\ answer = Answer(1, p[1], p[2], BareNullable(relations[p[1]], p[2]))
      \/ \E c1, c2 \in shown : c1 # c2 /\ answer.status = "ambiguous"
  BY <1>1, <1>3 DEF BareAnswers
<1>5. CASE shown = {} /\ answer.status = "missing"
  <2>1. Cardinality(shown) = 0
    BY <1>5, FS_EmptySet
  <2> QED BY <1>2, <1>5, <2>1
<1>6. CASE \E c1, c2 \in shown : c1 # c2 /\ answer.status = "ambiguous"
  <2>1. Cardinality(shown) > 1
    BY <1>2, <1>6, TwoAreMore
  <2> QED BY <1>2, <1>6, <2>1
<1>7. CASE \E c \in shown, p \in Bases(relations, DOMAIN relations) :
             /\ shown = {c} /\ p \in c.parts
             /\ answer = Answer(1, p[1], p[2], BareNullable(relations[p[1]], p[2]))
  <2>1. PICK c \in shown, p \in Bases(relations, DOMAIN relations) :
          /\ shown = {c} /\ p \in c.parts
          /\ answer = Answer(1, p[1], p[2], BareNullable(relations[p[1]], p[2]))
    BY <1>7
  <2>2. Cardinality(shown) = 1
    BY <1>2, <2>1, FS_Singleton
  <2>3. answer.status = "found" /\ <<answer.relation, answer.column>> = <<p[1], p[2]>>
    BY <2>1 DEF Answer
  <2>4. p = <<p[1], p[2]>>
    BY InBases
  <2> QED BY <1>2, <2>1, <2>2, <2>3, <2>4
<1> QED BY <1>4, <1>5, <1>6, <1>7

\* What an answered bare name is worth.
LEMMA BareFound ==
  ASSUME IInv, Clear, NEW n,
         NEW answer, answer = ResolveBare(<<relations>>, n), answer.status = "found"
  PROVE  \E c \in Meaning.columns, p \in Bases(relations, DOMAIN relations) :
           /\ J!Named(Meaning, n) = {c} /\ p \in c.parts /\ ~At(relations, p).coalesced
           /\ answer = Answer(1, p[1], p[2], BareNullable(relations[p[1]], p[2]))
<1>1. BareAnswers(answer, Meaning, relations, n)
  BY ClearMeans, BareIsAnswered
<1>2. J!Named(Meaning, n) = {c \in Meaning.columns : c.name = n}
  BY DEF J!Named
<1> QED BY <1>1, <1>2 DEF BareAnswers

LEMMA BareNotNull ==
  IInv => BareNotNullIsSound
<1> SUFFICES ASSUME IInv, Clear, fresh, NEW n \in Name,
                    NEW answer, answer = ResolveBare(<<relations>>, n),
                    answer.status = "found", ~answer.nullable,
                    NEW c \in J!Named(Meaning, n), NEW row \in Meaning.rows, J!IsNull(c, row)
             PROVE  FALSE
  BY DEF BareNotNullIsSound, BareNotNullHolds
<1>1. PICK d \in Meaning.columns, p \in Bases(relations, DOMAIN relations) :
        /\ J!Named(Meaning, n) = {d} /\ p \in d.parts /\ ~At(relations, p).coalesced
        /\ answer = Answer(1, p[1], p[2], BareNullable(relations[p[1]], p[2]))
  BY BareFound
<1>2. answer.nullable = BareNullable(relations[p[1]], p[2])
  BY <1>1 DEF Answer
<1>3. ~BareNullable(relations[p[1]], p[2]) /\ c = d
  BY <1>1, <1>2
<1>4. ~(d.parts \subseteq row)
  BY <1>1, <1>3, ClearMeans DEF Values
<1> QED BY <1>3, <1>4 DEF J!IsNull

LEMMA QualifiedNotNull ==
  IInv => QualifiedNotNullIsSound
<1> SUFFICES ASSUME IInv, Clear, fresh, NEW i \in DOMAIN relations, NEW n \in Name,
                    NEW answer, answer = ResolveQualified(<<relations>>, relations[i].qualifier, n),
                    answer.status = "found", ~answer.nullable,
                    NEW row \in Meaning.rows
             PROVE  <<answer.relation, answer.column>> \notin row
  BY DEF QualifiedNotNullIsSound
<1>1. relations \in Seq(Relation)
  BY ClearMeans
<1>2. PICK k \in DOMAIN relations :
        /\ HasColumnNamed(relations[k], n)
        /\ answer = Answer(1, k, FindColumnNamed(relations[k], n),
                           QualifiedNullable(relations[k], FindColumnNamed(relations[k], n)))
  BY <1>1, QualifiedIsAnswered
<1> DEFINE j == FindColumnNamed(relations[k], n)
           p == <<k, j>>
<1>3. j \in DOMAIN relations[k].columns
  BY <1>1, <1>2, FoundFirst
<1>4. p \in Bases(relations, DOMAIN relations) /\ p[1] = k /\ p[2] = j
  BY <1>3 DEF Bases
<1> HIDE DEF j
<1>5. answer.nullable = QualifiedNullable(relations[k], j) /\ <<answer.relation, answer.column>> = p
  BY <1>2 DEF Answer, j
<1>6. ~QualifiedNullable(relations[p[1]], p[2])
  BY <1>4, <1>5
<1> HIDE DEF p
<1> QED BY <1>4, <1>5, <1>6, ClearMeans DEF Values

LEMMA NullableReal ==
  IInv /\ Bound => NullableIsReal
<1> SUFFICES ASSUME IInv, Bound, Clear, fresh PROVE NullableIsReal
  BY DEF NullableIsReal
<1>1. /\ relations \in Seq(Relation)
      /\ Shows(Meaning, relations, DOMAIN relations)
      /\ Values(derived.columns, Meaning, relations, DOMAIN relations)
      /\ ~DuplicateRelation
  BY ClearMeans
<1>2. \A p : GivenAt(derived.columns, relations, p) = Given(p)
  BY GivenIs
<1>3. ASSUME NEW i \in DOMAIN relations, relations[i].nullableFromJoin,
             NEW p \in Bases(relations, DOMAIN relations), p[1] = i
      PROVE  \E row \in Meaning.rows : p \in row
  <2>1. Reached(Meaning, relations, Bases(relations, {i}))
    BY <1>1, <1>3 DEF Values
  <2>2. p \in Bases(relations, {i})
    BY <1>3, InBases
  <2> QED BY <2>1, <2>2 DEF Reached
<1>4. ASSUME NEW c \in Meaning.columns,
             NEW answer, answer = ResolveBare(<<relations>>, c.name),
             answer.status = "found", answer.nullable,
             \A p \in c.parts : ~Given(p).nullable /\ ~Given(p).merged
      PROVE  \E row \in Meaning.rows : J!IsNull(c, row)
  <2>1. PICK d \in Meaning.columns, p \in Bases(relations, DOMAIN relations) :
          /\ J!Named(Meaning, c.name) = {d} /\ p \in d.parts /\ ~At(relations, p).coalesced
          /\ answer = Answer(1, p[1], p[2], BareNullable(relations[p[1]], p[2]))
    BY <1>4, BareFound
  <2>2. c = d /\ p \in c.parts
    <3>1. c \in J!Named(Meaning, c.name)
      BY DEF J!Named
    <3> QED BY <2>1, <3>1
  <2>3. BareNullable(relations[p[1]], p[2])
    <3>1. answer.nullable = BareNullable(relations[p[1]], p[2])
      BY <2>1 DEF Answer
    <3> QED BY <1>4, <3>1
  <2>4. /\ At(relations, p).nullableFromEnclosing
             => \/ \E q \in c.parts : Given(q).merged
                \/ Reached(Meaning, relations, c.parts)
        /\ At(relations, p).merged
             => \/ \E q \in c.parts : Given(q).merged \/ Given(q).nullable
                \/ ~At(relations, p).nullable
    BY <1>1, <1>2, <2>1, <2>2 DEF Values
  <2>5. CASE At(relations, p).merged
    <3>1. ~At(relations, p).nullable
      BY <1>4, <2>4, <2>5
    <3>2. At(relations, p).nullableFromEnclosing
      BY <2>3, <2>5, <3>1 DEF BareNullable, At
    <3>3. Reached(Meaning, relations, c.parts)
      BY <1>4, <2>4, <3>2
    <3> QED BY <3>3 DEF Reached, J!IsNull
  <2>6. CASE ~At(relations, p).merged
    <3>1. c.parts = {p}
      BY <1>1, <2>1, <2>2, <2>6 DEF Shows
    <3>2. p[1] \in DOMAIN relations
      BY InBases
    <3>3. At(relations, p).nullable \/ relations[p[1]].nullableFromJoin
      BY <2>3, <2>6 DEF BareNullable, At
    <3>4. ~relations[p[1]].nullableFromJoin => ~At(relations, p).nullable
      BY <1>1, <1>2, <1>4, <2>1, <2>2 DEF Values
    <3>5. \E row \in Meaning.rows : p \in row
      BY <1>3, <2>1, <3>2, <3>3, <3>4
    <3> QED BY <3>1, <3>5 DEF J!IsNull
  <2> QED BY <2>5, <2>6
<1>5. ASSUME NEW p \in J!Parts(Meaning),
             NEW answer,
             answer = ResolveQualified(<<relations>>, relations[p[1]].qualifier, Given(p).name),
             answer.status = "found", answer.nullable, ~Given(p).nullable
      PROVE  \E row \in Meaning.rows : p \in row
  <2> DEFINE name == Given(p).name
             i == p[1]
  <2>1. p \in Bases(relations, DOMAIN relations)
    BY <1>1 DEF J!Parts, Shows
  <2>2. p = <<i, p[2]>> /\ i \in DOMAIN relations /\ p[2] \in DOMAIN relations[i].columns
    BY <2>1, InBases
  <2>3. At(relations, p).name = name
    BY <2>2 DEF Bound
  <2>4. PICK k \in DOMAIN relations :
          /\ relations[k].qualifier = relations[i].qualifier /\ HasColumnNamed(relations[k], name)
          /\ ~(CountColumn(relations[k], name) > 1)
          /\ answer = Answer(1, k, FindColumnNamed(relations[k], name),
                             QualifiedNullable(relations[k], FindColumnNamed(relations[k], name)))
    <3> HIDE DEF name
    <3> QED BY <1>1, <1>5, <2>2, QualifiedIsAnswered DEF name
  <2>5. k = i
    BY <1>1, <2>2, <2>4 DEF DuplicateRelation
  <2>6. FindColumnNamed(relations[i], name) = p[2]
    <3>1. Sound(relations)
      BY <1>1, ShowsSound
    <3>2. relations[i].columns[p[2]].name = name
      BY <2>3 DEF At
    <3> HIDE DEF name, i
    <3> QED BY <1>1, <2>2, <2>4, <2>5, <3>1, <3>2, NamedIn
  <2>7. QualifiedNullable(relations[i], p[2])
    <3>1. answer.nullable = QualifiedNullable(relations[i], p[2])
      BY <2>4, <2>5, <2>6 DEF Answer
    <3> QED BY <1>5, <3>1
  <2>8. ~relations[i].nullableFromJoin => ~At(relations, p).nullable
    BY <1>1, <1>2, <1>5, <2>1 DEF Values
  <2>9. relations[i].nullableFromJoin
    BY <2>7, <2>8 DEF QualifiedNullable, At
  <2> QED BY <1>3, <2>1, <2>2, <2>9
<1> QED BY <1>4, <1>5 DEF NullableIsReal

LEMMA StarShows ==
  IInv => StarShowsEachOnce
<1> SUFFICES ASSUME IInv, Clear,
                    NEW star, star = ToSet(ExpandStar(relations))
             PROVE  /\ \A c \in Meaning.columns : Cardinality(star \cap c.parts) = 1
                    /\ star \subseteq J!Parts(Meaning)
                    /\ \A p \in star : fresh /\ ~Projected(p).nullable =>
                         \A c \in VisibleOf(p), row \in Meaning.rows : ~J!IsNull(c, row)
  BY DEF StarShowsEachOnce
<1>1. /\ relations \in Seq(Relation)
      /\ Shows(Meaning, relations, DOMAIN relations)
      /\ fresh => Values(derived.columns, Meaning, relations, DOMAIN relations)
  BY ClearMeans
<1>2. star = {p \in Bases(relations, DOMAIN relations) : ~At(relations, p).coalesced}
  BY <1>1, StarSet
<1>3. ASSUME NEW c \in Meaning.columns PROVE Cardinality(star \cap c.parts) = 1
  <2>1. PICK p \in c.parts : ~At(relations, p).coalesced
    BY <1>1 DEF Shows
  <2>2. p \in Bases(relations, DOMAIN relations)
    BY <1>1, <2>1 DEF Shows
  <2>3. \A q \in c.parts : ~At(relations, q).coalesced => q = p
    BY <1>1, <2>1 DEF Shows
  <2>4. star \cap c.parts = {p}
    BY <1>2, <2>1, <2>2, <2>3
  <2>5. \A x : Cardinality({x}) = 1
    BY FS_Singleton
  <2> QED BY <2>4, <2>5
<1>4. star \subseteq J!Parts(Meaning)
  BY <1>1, <1>2 DEF J!Parts, Shows
<1>5. ASSUME NEW p \in star, fresh, ~Projected(p).nullable,
             NEW c \in VisibleOf(p), NEW row \in Meaning.rows
      PROVE  ~J!IsNull(c, row)
  <2>1. p \in Bases(relations, DOMAIN relations) /\ ~At(relations, p).coalesced
    BY <1>2
  <2>2. Projected(p).nullable = BareNullable(relations[p[1]], p[2])
    <3>1. At(relations, p) \in IsResolvedColumns(Name)
      BY <1>1, <2>1, BasesTyped
    <3>2. relations[p[1]].columns[p[2]] \in IsResolvedColumns(Name)
      BY <3>1 DEF At
    <3> QED BY <3>2 DEF Projected, IsResolvedColumns
  <2>3. ~BareNullable(relations[p[1]], p[2])
    BY <1>5, <2>2
  <2>4. c \in Meaning.columns /\ p \in c.parts
    BY DEF VisibleOf
  <2> QED BY <1>1, <1>5, <2>1, <2>3, <2>4 DEF Values, J!IsNull
<1> QED BY <1>3, <1>4, <1>5

-----------------------------------------------------------------------------
(* The properties of the walk, for any tables and any number of relations.  *)

(* The scope's relations, the open comma groups and the levels of their     *)
(* meaning stay in step through every FROM item: resolve_from_item.         *)
THEOREM FromClauseTypes ==
  Spec => []TypeOK
<1>1. IInv /\ Bound => TypeOK
  BY TypedIsTypeOK
<1> QED BY <1>1, Invariance, PTL

(* A bare name is found, ambiguous or unknown as the FROM clause shows it   *)
(* once, more than once or never, after any joins, USING and NATURAL lists, *)
(* parentheses and derived tables: resolve_bare.                            *)
THEOREM BareNamesFollowTheClause ==
  Spec => []BareNamesAgree
<1>1. IInv /\ Bound => BareNamesAgree
  BY BareAgree
<1> QED BY <1>1, Invariance, PTL

(* A bare reference reported NOT NULL is NULL in no row of the clause, for  *)
(* every nesting of outer joins: the flags resolve_from_item leaves.        *)
THEOREM BareNotNullIsTrue ==
  Spec => []BareNotNullIsSound
<1>1. IInv /\ Bound => BareNotNullIsSound
  BY BareNotNull
<1> QED BY <1>1, Invariance, PTL

(* A reference of NOT NULL columns reported nullable is NULL in some row:   *)
(* no join marks more than its own operands.                                *)
THEOREM ReportedNullsExist ==
  Spec => []NullableIsReal
<1>1. IInv /\ Bound => NullableIsReal
  BY NullableReal
<1> QED BY <1>1, Invariance, PTL

(* A qualified reference reported NOT NULL is NULL in no row, merged or not: *)
(* resolve_qualified.                                                       *)
THEOREM QualifiedNotNullIsTrue ==
  Spec => []QualifiedNotNullIsSound
<1>1. IInv /\ Bound => QualifiedNotNullIsSound
  BY QualifiedNotNull
<1> QED BY <1>1, Invariance, PTL

(* SELECT * lists every visible column once and no other, none of them NOT  *)
(* NULL against a row: expand_star.                                         *)
THEOREM StarListsEachOnce ==
  Spec => []StarShowsEachOnce
<1>1. IInv /\ Bound => StarShowsEachOnce
  BY StarShows
<1> QED BY <1>1, Invariance, PTL

=============================================================================

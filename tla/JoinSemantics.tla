---------------------------- MODULE JoinSemantics ----------------------------
(***************************************************************************)
(* What a FROM clause means, without scopes, flags or positions to scan:   *)
(* the columns each table reference shows, and where its rows can be NULL. *)
(*                                                                         *)
(* A base column is <<i, j>>: column j of the i-th relation. A table       *)
(* reference shows columns; a merged one has several base columns as parts *)
(* and is the first of them that is not NULL. A row is the set of base     *)
(* columns that are NULL in it. `rows` are all rows the reference can have *)
(* over some contents of the tables: an ON predicate can accept or refuse  *)
(* any pair, and a row always finds no partner when the other side is      *)
(* empty.                                                                  *)
(***************************************************************************)
EXTENDS Integers, Sequences, FiniteSets

\* Nothing yet: the unit of the product.
NoReference == [columns |-> {}, rows |-> {{}}]

TableReference(i, columns) ==
  [columns |-> {[name |-> columns[j].name, parts |-> {<<i, j>>}] : j \in DOMAIN columns},
   rows |-> SUBSET {<<i, j>> : j \in {x \in DOMAIN columns : columns[x].nullable}}]

Parts(reference) == UNION {c.parts : c \in reference.columns}

Named(reference, name) == {c \in reference.columns : c.name = name}

IsNull(c, row) == c.parts \subseteq row

\* A name USING may merge: each side shows it once.
Mergeable(left, right, name) ==
  Cardinality(Named(left, name)) = 1 /\ Cardinality(Named(right, name)) = 1

CommonNames(left, right) ==
  {c.name : c \in left.columns} \cap {c.name : c \in right.columns}

Product(left, right) ==
  [columns |-> left.columns \cup right.columns,
   rows |-> {l \cup r : l \in left.rows, r \in right.rows}]

\* The columns of `names` are equal, hence not NULL, in a matched pair.
Matched(left, right, names) ==
  LET keys(reference) == {c \in reference.columns : c.name \in names}
      whole(reference) ==
        {row \in reference.rows : \A c \in keys(reference) : ~IsNull(c, row)}
  IN {l \cup r : l \in whole(left), r \in whole(right)}

Join(kind, left, right, names) ==
  [columns |->
     {c \in left.columns \cup right.columns : c.name \notin names}
       \cup {[name |-> n,
              parts |-> UNION {c.parts : c \in Named(left, n) \cup Named(right, n)}] :
               n \in names},
   rows |->
     Matched(left, right, names)
       \cup (IF kind \in {"left", "full"} THEN {l \cup Parts(right) : l \in left.rows} ELSE {})
       \cup (IF kind \in {"right", "full"} THEN {Parts(left) \cup r : r \in right.rows} ELSE {})]

=============================================================================

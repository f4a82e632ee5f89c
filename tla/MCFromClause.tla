---------------------------- MODULE MCFromClause ----------------------------
(***************************************************************************)
(* The tables the runs of FromClause join.                                 *)
(***************************************************************************)
EXTENDS FromClause

CONSTANTS k, x, p, q, r, d

NotNull(name) == ResolvedColumn(name, FALSE)
Nullable(name) == ResolvedColumn(name, TRUE)

TableColumns ==
  [t \in {p, q, r} |->
     CASE t = p -> <<NotNull(k)>>
       [] t = q -> <<Nullable(k), NotNull(x)>>
       [] t = r -> <<NotNull(x), NotNull(k)>>]

UsingLists == {<<>>, <<k>>, <<x>>, <<k, x>>}

=============================================================================

----------------------------- MODULE QueryExpr -----------------------------
(***************************************************************************)
(* Expressions of a query block as trees, and the probes of the grouping   *)
(* rules that read nothing but the tree. What recurs over trees is a       *)
(* function on the nodes of one.                                           *)
(*                                                                         *)
(* A reference has a qualifier, or NoQualifier, and a name; a call has its *)
(* operator as name and says whether it has an OVER clause, whose          *)
(* expressions are among its arguments. Literals other than integers and   *)
(* the depth limit of 400 are left out, and so are FILTER and EXTRACT.     *)
(***************************************************************************)
EXTENDS Integers, Sequences, FiniteSets, SequencesExt

CONSTANTS
  Expr,   \* the expressions of the queries, and the references `*` stands for
  Depth   \* their depths: [Expr -> Nat]

\* Trees are finite, and only a call has arguments. RANK has an OVER clause.
ASSUME TreesAssumption ==
  /\ Depth \in [Expr -> Nat]
  /\ \A e \in Expr :
       /\ e.number \in Int
       /\ e.kind # "call" => e.args = <<>> /\ ~e.over
       /\ e.kind = "call" /\ e.name = "RANK" => e.over
       /\ \E n \in 0 .. Len(e.args) : DOMAIN e.args = 1 .. n
       /\ \A i \in DOMAIN e.args : e.args[i] \in Expr /\ Depth[e.args[i]] < Depth[e]

NoQualifier == ""
NoAlias == ""

Node(kind, qualifier, name, args) ==
  [kind |-> kind, qualifier |-> qualifier, name |-> name, number |-> 0, over |-> FALSE, args |-> args]

Reference(qualifier, name) == Node("reference", qualifier, name, <<>>)
Integer(n)       == [Node("integer", NoQualifier, "integer", <<>>) EXCEPT !.number = n]
Call(name, args) == Node("call", NoQualifier, name, args)
Over(name, args) == [Call(name, args) EXCEPT !.over = TRUE]

\* A scalar subquery: a block of its own.
Subquery == Node("subquery", NoQualifier, "subquery", <<>>)

\* `*` or `t.*`.
Star(qualifier) == Node("star", qualifier, "star", <<>>)

Aggregates == {"SUM"}

IsAggregate(e) == e.kind = "call" /\ e.name \in Aggregates /\ ~e.over

IsWindow(e) == e.kind = "call" /\ e.over

\* The nodes of an expression; a subquery has none inside.
Nodes[e \in Expr] == {e} \cup UNION {Nodes[e.args[i]] : i \in DOMAIN e.args}

ContainsAggregate(e) == \E n \in Nodes[e] : IsAggregate(n)
ContainsWindow(e) == \E n \in Nodes[e] : IsWindow(n)
ContainsGroupingCall(e) == \E n \in Nodes[e] : n.kind = "call" /\ n.name = "GROUPING"

\* Two nodes but for their arguments and for the columns they refer to.
SameNode(x, y) ==
  /\ x.kind = y.kind /\ x.name = y.name /\ x.number = y.number /\ x.over = y.over
  /\ DOMAIN x.args = DOMAIN y.args

\* Neither an aggregate nor a window function can be a GROUP BY key.
IllegalGroupKey(e) == ContainsAggregate(e) \/ ContainsWindow(e)

\* An aggregate over a window function.
WindowInAggregate(e) ==
  \E n \in Nodes[e] : IsAggregate(n) /\ \E i \in DOMAIN n.args : ContainsWindow(n.args[i])

=============================================================================

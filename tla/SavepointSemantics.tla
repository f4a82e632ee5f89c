-------------------------- MODULE SavepointSemantics --------------------------
(***************************************************************************)
(* What savepoints are for, without a stack: a savepoint marks a moment of *)
(* the open transaction block.  A name means its latest live mark.  To roll*)
(* back to a mark destroys what was marked after it; to release a mark     *)
(* destroys it as well (transaction.hpp, "Per PostgreSQL, RELEASE and      *)
(* ROLLBACK TO also discard the savepoints established AFTER the named     *)
(* one").                                                                  *)
(***************************************************************************)
EXTENDS Naturals

CONSTANTS Name  \* the names of savepoints

VARIABLES
  open,   \* a transaction block is open
  marks,  \* the live savepoints: a name and the moment it was marked
  now     \* the moment

vars == <<open, marks, now>>

Init == open = FALSE /\ marks = {} /\ now = 0

\* The latest of a name, if there is any.
IsLatest(m, n) ==
  /\ m \in marks
  /\ m.name = n
  /\ \A x \in marks : x.name = n => x.at <= m.at

Begin == ~open /\ open' = TRUE /\ UNCHANGED <<marks, now>>

End == open /\ open' = FALSE /\ marks' = {} /\ UNCHANGED now

Mark(n) ==
  /\ open
  /\ marks' = marks \cup {[name |-> n, at |-> now]}
  /\ now' = now + 1
  /\ UNCHANGED open

RollBackTo(n) ==
  /\ open
  /\ \E m \in marks : IsLatest(m, n) /\ marks' = {x \in marks : x.at <= m.at}
  /\ UNCHANGED <<open, now>>

Release(n) ==
  /\ open
  /\ \E m \in marks : IsLatest(m, n) /\ marks' = {x \in marks : x.at < m.at}
  /\ UNCHANGED <<open, now>>

Next == Begin \/ End \/ \E n \in Name : Mark(n) \/ RollBackTo(n) \/ Release(n)

Spec == Init /\ [][Next]_vars

=============================================================================

----------------------------- MODULE Transaction -----------------------------
(***************************************************************************)
(* The session's transaction state machine (transaction.hpp,               *)
(* transaction.cpp): what each transaction-control statement does to the   *)
(* open block and its stack of savepoints, one action per statement kind.  *)
(*                                                                         *)
(* An entry of the stack is the name alone in the code.  Here it also has  *)
(* the moment it was pushed, which no guard reads: it tells two savepoints *)
(* of one name apart.                                                      *)
(***************************************************************************)
EXTENDS Naturals, Sequences, FiniteSetsExt

CONSTANTS
  Name,      \* the names of savepoints, compared exactly
  NoName,    \* the empty name
  MaxMoment  \* bound: no more savepoints than this in a session

ASSUME TransactionAssumption ==
  /\ NoName \notin Name
  /\ MaxMoment \in Nat

VARIABLES
  state,       \* state_
  savepoints,  \* savepoints_, bottom to top
  status,      \* the status of the last statement's result
  moment       \* history: how many savepoints the session has established

vars == <<state, savepoints, status, moment>>

Savepoint == [name : Name, at : Nat]

TypeOK ==
  /\ state \in {"Idle", "Active"}
  /\ savepoints \in Seq(Savepoint)
  /\ status \in {"Ok", "Warning", "Error"}
  /\ moment \in Nat

Init ==
  /\ state = "Idle"
  /\ savepoints = <<>>
  /\ status = "Ok"
  /\ moment = 0

\* A wrong search: the oldest of the name instead of the newest.
FindFromBottom(n) ==
  IF \E i \in DOMAIN savepoints : savepoints[i].name = n
  THEN Min({i \in DOMAIN savepoints : savepoints[i].name = n})
  ELSE 0

\* The position of the topmost savepoint of that name, 0 for none.
FindFromTop(n) ==
  Max({i \in DOMAIN savepoints : savepoints[i].name = n} \cup {0})

Resize(n) == savepoints' = SubSeq(savepoints, 1, n)

\* A statement that only reports.
Report(s) == status' = s /\ UNCHANGED <<state, savepoints, moment>>

-----------------------------------------------------------------------------

BeginStmt ==
  \/ state = "Active" /\ Report("Warning")
  \/ /\ state # "Active"
     /\ state' = "Active"
     /\ savepoints' = <<>>
     /\ status' = "Ok"
     /\ UNCHANGED moment

\* A wrong EndStmt: the savepoints outlive their block.
EndStmtKeepingSavepoints ==
  \/ state # "Active" /\ Report("Warning")
  \/ state = "Active" /\ state' = "Idle" /\ status' = "Ok" /\ UNCHANGED <<savepoints, moment>>

\* COMMIT, and a ROLLBACK that carries no name.
EndStmt ==
  \/ state # "Active" /\ Report("Warning")
  \/ /\ state = "Active"
     /\ state' = "Idle"
     /\ savepoints' = <<>>
     /\ status' = "Ok"
     /\ UNCHANGED moment

\* A wrong SavepointStmt: the name is not looked at.
SavepointStmtOfAnyName(n) ==
  \/ state # "Active" /\ Report("Error")
  \/ /\ state = "Active"
     /\ moment < MaxMoment
     /\ savepoints' = Append(savepoints, [name |-> n, at |-> moment])
     /\ moment' = moment + 1
     /\ status' = "Ok"
     /\ UNCHANGED state

SavepointStmt(n) ==
  \/ state # "Active" /\ Report("Error")
  \/ state = "Active" /\ n = NoName /\ Report("Error")
  \/ /\ state = "Active"
     /\ n # NoName
     /\ moment < MaxMoment
     /\ savepoints' = Append(savepoints, [name |-> n, at |-> moment])
     /\ moment' = moment + 1
     /\ status' = "Ok"
     /\ UNCHANGED state

\* What ROLLBACK TO and RELEASE share; they differ in how much they keep when
\* the name is found at a position.
Unwind(n, keep) ==
  \/ state # "Active" /\ Report("Error")
  \/ state = "Active" /\ FindFromTop(n) = 0 /\ Report("Error")
  \/ /\ state = "Active"
     /\ FindFromTop(n) # 0
     /\ Resize(keep)
     /\ status' = "Ok"
     /\ UNCHANGED <<state, moment>>

\* A ROLLBACK that carries a name.
RollbackToStmt(n) == n # NoName /\ Unwind(n, FindFromTop(n))

ReleaseSavepointStmt(n) == Unwind(n, FindFromTop(n) - 1)

\* The tree holds no transaction-control statement.
OtherStmt == Report("Error")

Next ==
  \/ BeginStmt
  \/ EndStmt
  \/ OtherStmt
  \/ \E n \in Name \cup {NoName} :
       SavepointStmt(n) \/ RollbackToStmt(n) \/ ReleaseSavepointStmt(n)

Spec == Init /\ [][Next]_vars

-----------------------------------------------------------------------------

\* The live savepoints stand in the order of their moments, all in the past, and
\* only an open block has any.  The truncations of ROLLBACK TO and RELEASE rest
\* on it: what stands above a savepoint is what came after it.
StackInOrder ==
  /\ \A i, j \in DOMAIN savepoints : i < j => savepoints[i].at < savepoints[j].at
  /\ \A i \in DOMAIN savepoints : savepoints[i].at < moment
  /\ state = "Idle" => savepoints = <<>>

\* The stack does what savepoints are for.
Semantics ==
  INSTANCE SavepointSemantics
    WITH open  <- state = "Active",
         marks <- {savepoints[i] : i \in DOMAIN savepoints},
         now   <- moment

SavepointsMeanMoments == Semantics!Spec

=============================================================================

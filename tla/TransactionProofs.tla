-------------------------- MODULE TransactionProofs --------------------------
(***************************************************************************)
(* Proofs about Transaction, for any set of names and any bound on the     *)
(* savepoints of a session.                                                *)
(***************************************************************************)
EXTENDS Transaction, NaturalSetProofs, SequenceTheorems

LEMMA StackEntries ==
  ASSUME TypeOK
  PROVE  /\ DOMAIN savepoints = 1 .. Len(savepoints) /\ Len(savepoints) \in Nat
         /\ \A i \in DOMAIN savepoints :
              savepoints[i].at \in Nat /\ savepoints[i].name \in Name
<1>1. savepoints \in Seq(Savepoint)
  BY DEF TypeOK
<1>2. /\ DOMAIN savepoints = 1 .. Len(savepoints) /\ Len(savepoints) \in Nat
      /\ \A i \in DOMAIN savepoints : savepoints[i] \in Savepoint
  BY <1>1
<1>3. \A x \in Savepoint : x.at \in Nat /\ x.name \in Name
  BY DEF Savepoint
<1> QED BY <1>2, <1>3

\* The search from the top finds the latest: a position of the name, and no
\* higher position has the name; or there is none.
LEMMA FoundFromTop ==
  ASSUME TypeOK, NEW n
  PROVE  /\ FindFromTop(n) \in 0 .. Len(savepoints)
         /\ FindFromTop(n) # 0 => savepoints[FindFromTop(n)].name = n
         /\ \A i \in DOMAIN savepoints :
              savepoints[i].name = n => i <= FindFromTop(n)
<1> DEFINE S == {i \in DOMAIN savepoints : savepoints[i].name = n} \cup {0}
<1>1. DOMAIN savepoints = 1 .. Len(savepoints) /\ Len(savepoints) \in Nat
  BY DEF TypeOK
<1>2. S \subseteq 0 .. Len(savepoints)
  BY <1>1
<1>3. IsFiniteSet(S)
  <2>1. IsFiniteSet(0 .. Len(savepoints))
    BY <1>1, FS_Interval
  <2> HIDE DEF S
  <2> QED BY <1>2, <2>1, FS_Subset
<1>4. Max(S) \in S /\ \A k \in S : k <= Max(S)
  <2>1. S \subseteq Nat /\ S # {}
    BY <1>2
  <2> HIDE DEF S
  <2> QED BY <1>3, <2>1, MaxIsGreatest
<1>5. FindFromTop(n) = Max(S)
  BY DEF FindFromTop
<1> QED
  BY <1>1, <1>2, <1>4, <1>5

\* Cutting the stack keeps the bottom as it was.
LEMMA ResizeKeepsBottom ==
  ASSUME TypeOK, NEW n \in 0 .. Len(savepoints), Resize(n)
  PROVE  /\ savepoints' \in Seq(Savepoint)
         /\ DOMAIN savepoints = 1 .. Len(savepoints)
         /\ DOMAIN savepoints' = 1 .. n
         /\ \A i \in 1 .. n : savepoints'[i] = savepoints[i]
<1>1. savepoints \in Seq(Savepoint) /\ Len(savepoints) \in Nat
  BY DEF TypeOK
<1>2. /\ savepoints' \in Seq(Savepoint)
      /\ Len(savepoints') = n
      /\ \A i \in 1 .. n : savepoints'[i] = savepoints[i]
  BY <1>1, SubSeqProperties DEF Resize
<1> QED
  BY <1>1, <1>2

\* The number of savepoints an unwinding keeps.
LEMMA KeptIsPosition ==
  ASSUME TypeOK, NEW n, FindFromTop(n) # 0
  PROVE  /\ FindFromTop(n) \in 0 .. Len(savepoints)
         /\ FindFromTop(n) - 1 \in 0 .. Len(savepoints)
<1>1. Len(savepoints) \in Nat
  BY DEF TypeOK
<1> QED
  BY <1>1, FoundFromTop

-----------------------------------------------------------------------------

\* The type and the order of the stack, together: the search needs the type.
IInv == TypeOK /\ StackInOrder

LEMMA UnwindKeepsOrder ==
  ASSUME IInv, NEW n, NEW keep \in 0 .. Len(savepoints), Unwind(n, keep)
  PROVE  IInv'
<1>1. CASE Report("Error")
  BY <1>1 DEF IInv, TypeOK, StackInOrder, Report
<1>2. CASE state = "Active" /\ Resize(keep) /\ status' = "Ok" /\ UNCHANGED <<state, moment>>
  <2>1. /\ savepoints' \in Seq(Savepoint)
        /\ DOMAIN savepoints = 1 .. Len(savepoints)
        /\ DOMAIN savepoints' = 1 .. keep
        /\ \A i \in 1 .. keep : savepoints'[i] = savepoints[i]
    BY <1>2, ResizeKeepsBottom DEF IInv
  <2>2. TypeOK'
    BY <1>2, <2>1 DEF IInv, TypeOK
  <2>3. 1 .. keep \subseteq DOMAIN savepoints
    BY <2>1 DEF IInv, TypeOK
  <2>4. StackInOrder'
    BY <1>2, <2>1, <2>3 DEF IInv, StackInOrder
  <2> QED BY <2>2, <2>4 DEF IInv
<1> QED BY <1>1, <1>2 DEF Unwind

LEMMA StepKeepsOrder == IInv /\ [Next]_vars => IInv'
<1> SUFFICES ASSUME IInv, [Next]_vars PROVE IInv'
  OBVIOUS
<1>1. CASE BeginStmt \/ EndStmt \/ OtherStmt
  <2>1. CASE UNCHANGED <<state, savepoints, moment>> /\ status' \in {"Warning", "Error"}
    BY <2>1 DEF IInv, TypeOK, StackInOrder
  <2>2. CASE /\ state' \in {"Idle", "Active"} /\ savepoints' = <<>>
             /\ status' = "Ok" /\ UNCHANGED moment
    <3>1. DOMAIN savepoints' = {}
      BY <2>2
    <3>2. TypeOK'
      BY <2>2 DEF IInv, TypeOK
    <3> QED BY <2>2, <3>1, <3>2 DEF IInv, StackInOrder
  <2> QED BY <1>1, <2>1, <2>2 DEF BeginStmt, EndStmt, OtherStmt, Report
<1>2. ASSUME NEW n \in Name \cup {NoName}, SavepointStmt(n) PROVE IInv'
  <2>1. CASE Report("Error")
    BY <2>1 DEF IInv, TypeOK, StackInOrder, Report
  <2>2. CASE /\ state = "Active" /\ n # NoName
             /\ savepoints' = Append(savepoints, [name |-> n, at |-> moment])
             /\ moment' = moment + 1 /\ status' = "Ok" /\ UNCHANGED state
    <3>1. [name |-> n, at |-> moment] \in Savepoint
      BY <1>2, <2>2 DEF IInv, TypeOK, Savepoint
    <3>2. TypeOK'
      BY <2>2, <3>1 DEF IInv, TypeOK
    <3>3. /\ DOMAIN savepoints = 1 .. Len(savepoints) /\ Len(savepoints) \in Nat
          /\ DOMAIN savepoints' = 1 .. Len(savepoints) + 1
          /\ \A i \in 1 .. Len(savepoints) : savepoints'[i] = savepoints[i]
          /\ savepoints'[Len(savepoints) + 1] = [name |-> n, at |-> moment]
      BY <2>2, <3>1 DEF IInv, TypeOK
    <3>4. /\ moment \in Nat /\ state' = "Active"
          /\ \A i \in 1 .. Len(savepoints) : savepoints[i].at \in Nat
      BY <2>2, StackEntries DEF IInv, TypeOK
    <3>5. savepoints'[Len(savepoints) + 1].at = moment
      BY <3>3
    <3>6. \A i \in DOMAIN savepoints' :
            i = Len(savepoints) + 1 \/ i \in 1 .. Len(savepoints)
      BY <3>3
    <3>7. \A i \in DOMAIN savepoints' : savepoints'[i].at < moment'
      BY <2>2, <3>3, <3>4, <3>5, <3>6 DEF IInv, StackInOrder
    <3>8. ASSUME NEW i \in DOMAIN savepoints', NEW j \in DOMAIN savepoints', i < j
          PROVE  savepoints'[i].at < savepoints'[j].at
      <4>1. i \in 1 .. Len(savepoints)
        BY <3>3, <3>8
      <4>2. CASE j \in 1 .. Len(savepoints)
        BY <3>3, <3>8, <4>1, <4>2 DEF IInv, StackInOrder
      <4>3. CASE j = Len(savepoints) + 1
        BY <3>3, <3>5, <4>1, <4>3 DEF IInv, StackInOrder
      <4> QED BY <3>6, <4>2, <4>3
    <3>9. StackInOrder'
      BY <3>4, <3>7, <3>8 DEF StackInOrder
    <3> QED BY <3>2, <3>9 DEF IInv
  <2> QED BY <1>2, <2>1, <2>2 DEF SavepointStmt
<1>3. ASSUME NEW n \in Name \cup {NoName}, RollbackToStmt(n) \/ ReleaseSavepointStmt(n)
      PROVE  IInv'
  <2>1. CASE state # "Active" \/ FindFromTop(n) = 0
    <3>1. Report("Error")
      BY <1>3, <2>1 DEF RollbackToStmt, ReleaseSavepointStmt, Unwind
    <3> QED BY <3>1 DEF IInv, TypeOK, StackInOrder, Report
  <2>2. CASE FindFromTop(n) # 0
    BY <1>3, <2>2, KeptIsPosition, UnwindKeepsOrder DEF IInv, RollbackToStmt, ReleaseSavepointStmt
  <2> QED BY <2>1, <2>2
<1>4. CASE UNCHANGED vars
  BY <1>4 DEF IInv, TypeOK, StackInOrder, vars
<1> QED
  BY <1>1, <1>2, <1>3, <1>4 DEF Next

LEMMA Ordered == Spec => []IInv
<1>1. Init => IInv
  BY DEF Init, IInv, TypeOK, StackInOrder
<1> QED
  BY <1>1, StepKeepsOrder, PTL DEF Spec

\* The session's variables stay in their types.
THEOREM TypeCorrect == Spec => []TypeOK
<1>1. IInv => TypeOK
  BY DEF IInv
<1> QED
  BY <1>1, Ordered, PTL

\* Whatever statements a session applies, its savepoints stand in the order they
\* were established, and outside a block there are none.
THEOREM StackStaysInOrder == Spec => []StackInOrder
<1>1. IInv => StackInOrder
  BY DEF IInv
<1> QED
  BY <1>1, Ordered, PTL

-----------------------------------------------------------------------------
(* The stack does what savepoints are for.                                 *)

\* The live savepoints, as the marks they stand for.
Marks(stack) == {stack[i] : i \in DOMAIN stack}

\* The topmost of a name is the latest of it.
LEMMA TopmostIsLatest ==
  ASSUME IInv, NEW n, FindFromTop(n) # 0
  PROVE  Semantics!IsLatest(savepoints[FindFromTop(n)], n)
<1> DEFINE top == FindFromTop(n)
<1>1. /\ DOMAIN savepoints = 1 .. Len(savepoints) /\ Len(savepoints) \in Nat
      /\ \A i \in DOMAIN savepoints : savepoints[i].at \in Nat
  BY StackEntries DEF IInv
<1>2. /\ top \in DOMAIN savepoints /\ savepoints[top].name = n
      /\ \A i \in DOMAIN savepoints : savepoints[i].name = n => i <= top
  BY <1>1, FoundFromTop DEF IInv
<1> HIDE DEF top
<1>3. \A i \in DOMAIN savepoints :
        savepoints[i].name = n => savepoints[i].at <= savepoints[top].at
  <2> SUFFICES ASSUME NEW i \in DOMAIN savepoints, savepoints[i].name = n
               PROVE  savepoints[i].at <= savepoints[top].at
    OBVIOUS
  <2>1. CASE i = top
    BY <1>1, <2>1
  <2>2. CASE i < top
    BY <1>1, <1>2, <2>2 DEF IInv, StackInOrder
  <2> QED BY <1>1, <1>2, <2>1, <2>2
<1>4. Semantics!IsLatest(savepoints[top], n)
  BY <1>2, <1>3 DEF Semantics!IsLatest
<1> QED BY <1>4 DEF top

\* What a truncation keeps is what was marked early enough.
LEMMA TruncationByMoment ==
  ASSUME IInv, NEW top \in DOMAIN savepoints, NEW keep \in {top - 1, top}, Resize(keep)
  PROVE  Marks(savepoints') =
           {x \in Marks(savepoints) :
              IF keep = top THEN x.at <= savepoints[top].at ELSE x.at < savepoints[top].at}
<1>1. /\ DOMAIN savepoints = 1 .. Len(savepoints) /\ Len(savepoints) \in Nat
      /\ \A i \in DOMAIN savepoints : savepoints[i].at \in Nat
  BY StackEntries DEF IInv
<1>2. /\ DOMAIN savepoints' = 1 .. keep
      /\ \A i \in 1 .. keep : savepoints'[i] = savepoints[i]
  BY <1>1, ResizeKeepsBottom DEF IInv
<1>3. \A i \in DOMAIN savepoints :
        /\ i < top => savepoints[i].at < savepoints[top].at
        /\ i > top => savepoints[top].at < savepoints[i].at
  BY <1>1 DEF IInv, StackInOrder
<1>4. \A i \in DOMAIN savepoints :
        i \in 1 .. keep <=>
          IF keep = top THEN savepoints[i].at <= savepoints[top].at
                        ELSE savepoints[i].at < savepoints[top].at
  <2> SUFFICES ASSUME NEW i \in DOMAIN savepoints
               PROVE  i \in 1 .. keep <=>
                        IF keep = top THEN savepoints[i].at <= savepoints[top].at
                                      ELSE savepoints[i].at < savepoints[top].at
    OBVIOUS
  <2>1. savepoints[i].at \in Nat /\ savepoints[top].at \in Nat
    BY <1>1
  <2>2. CASE i = top
    BY <1>1, <2>1, <2>2
  <2>3. CASE i < top
    BY <1>1, <1>3, <2>1, <2>3
  <2>4. CASE i > top
    BY <1>1, <1>3, <2>1, <2>4
  <2> QED BY <1>1, <2>2, <2>3, <2>4
<1>5. Marks(savepoints') = {savepoints[i] : i \in 1 .. keep}
  BY <1>2 DEF Marks
<1>6. 1 .. keep \subseteq DOMAIN savepoints
  BY <1>1
<1> QED
  BY <1>4, <1>5, <1>6 DEF Marks

\* Every session's stack of names is the marks of SavepointSemantics: a name
\* means its latest savepoint, ROLLBACK TO destroys what came after it and
\* RELEASE that and the savepoint itself, for any names and any shadowing.
THEOREM SavepointsKeepSemantics == Spec => SavepointsMeanMoments
<1> USE DEF Semantics!vars
<1>1. Init => Semantics!Init
  BY DEF Init, Semantics!Init
<1>2. IInv /\ [Next]_vars => [Semantics!Next]_Semantics!vars
  <2> SUFFICES ASSUME IInv, [Next]_vars PROVE [Semantics!Next]_Semantics!vars
    OBVIOUS
  <2>0. \A s : Report(s) => [Semantics!Next]_Semantics!vars
    BY DEF Report
  <2>1. CASE BeginStmt
    <3>1. CASE state # "Active" /\ state' = "Active" /\ savepoints' = <<>> /\ UNCHANGED moment
      <4>1. savepoints = <<>>
        BY <3>1 DEF IInv, TypeOK, StackInOrder
      <4>2. Semantics!Begin
        BY <3>1, <4>1 DEF Semantics!Begin
      <4> QED BY <4>2 DEF Semantics!Next
    <3> QED BY <2>0, <2>1, <3>1 DEF BeginStmt
  <2>2. CASE EndStmt
    <3>1. CASE state = "Active" /\ state' = "Idle" /\ savepoints' = <<>> /\ UNCHANGED moment
      <4>1. {savepoints'[i] : i \in DOMAIN savepoints'} = {}
        BY <3>1
      <4>2. Semantics!End
        BY <3>1, <4>1 DEF Semantics!End
      <4> QED BY <4>2 DEF Semantics!Next
    <3> QED BY <2>0, <2>2, <3>1 DEF EndStmt
  <2>3. CASE OtherStmt
    BY <2>0, <2>3 DEF OtherStmt
  <2>4. ASSUME NEW n \in Name \cup {NoName}, SavepointStmt(n)
        PROVE  [Semantics!Next]_Semantics!vars
    <3>1. CASE /\ state = "Active" /\ n # NoName
               /\ savepoints' = Append(savepoints, [name |-> n, at |-> moment])
               /\ moment' = moment + 1 /\ UNCHANGED state
      <4>1. [name |-> n, at |-> moment] \in Savepoint
        BY <2>4, <3>1 DEF IInv, TypeOK, Savepoint
      <4>2. /\ DOMAIN savepoints = 1 .. Len(savepoints) /\ Len(savepoints) \in Nat
            /\ DOMAIN savepoints' = 1 .. Len(savepoints) + 1
            /\ \A i \in 1 .. Len(savepoints) : savepoints'[i] = savepoints[i]
            /\ savepoints'[Len(savepoints) + 1] = [name |-> n, at |-> moment]
        BY <3>1, <4>1 DEF IInv, TypeOK
      <4>3. DOMAIN savepoints' = DOMAIN savepoints \cup {Len(savepoints) + 1}
        BY <4>2
      <4>4. Marks(savepoints') = Marks(savepoints) \cup {[name |-> n, at |-> moment]}
        BY <4>2, <4>3 DEF Marks
      <4>5. Semantics!Mark(n)
        BY <3>1, <4>4 DEF Semantics!Mark, Marks
      <4> QED BY <2>4, <3>1, <4>5 DEF Semantics!Next
    <3> QED BY <2>0, <2>4, <3>1 DEF SavepointStmt
  <2>5. ASSUME NEW n \in Name \cup {NoName}, RollbackToStmt(n) \/ ReleaseSavepointStmt(n)
        PROVE  [Semantics!Next]_Semantics!vars
    <3> DEFINE top == FindFromTop(n)
    <3>1. CASE top = 0 \/ state # "Active"
      BY <2>0, <2>5, <3>1 DEF RollbackToStmt, ReleaseSavepointStmt, Unwind
    <3>2. CASE top # 0 /\ state = "Active"
      <4>1. Semantics!IsLatest(savepoints[top], n)
        BY <3>2, TopmostIsLatest
      <4>2. top \in DOMAIN savepoints /\ savepoints[top].name = n
        BY <3>2, FoundFromTop DEF IInv, TypeOK
      <4>3. n \in Name
        BY <4>2, StackEntries DEF IInv
      <4>4. /\ UNCHANGED <<state, moment>>
            /\ RollbackToStmt(n) => Resize(top)
            /\ ReleaseSavepointStmt(n) => Resize(top - 1)
        BY <2>5, <3>2 DEF RollbackToStmt, ReleaseSavepointStmt, Unwind, Report
      <4> HIDE DEF top
      <4>5. CASE RollbackToStmt(n)
        <5>1. Marks(savepoints') = {x \in Marks(savepoints) : x.at <= savepoints[top].at}
          BY <4>2, <4>4, <4>5, TruncationByMoment
        <5>2. Semantics!RollBackTo(n)
          BY <3>2, <4>1, <4>4, <5>1 DEF Semantics!RollBackTo, Semantics!IsLatest, Marks
        <5> QED BY <4>3, <5>2 DEF Semantics!Next
      <4>6. CASE ReleaseSavepointStmt(n)
        <5>1. top - 1 # top
          BY <4>2 DEF IInv, TypeOK
        <5>2. Marks(savepoints') = {x \in Marks(savepoints) : x.at < savepoints[top].at}
          BY <4>2, <4>4, <4>6, <5>1, TruncationByMoment
        <5>3. Semantics!Release(n)
          BY <3>2, <4>1, <4>4, <5>2 DEF Semantics!Release, Semantics!IsLatest, Marks
        <5> QED BY <4>3, <5>3 DEF Semantics!Next
      <4> QED BY <2>5, <4>5, <4>6
    <3> QED BY <3>1, <3>2
  <2>6. CASE UNCHANGED vars
    BY <2>6 DEF vars
  <2> QED
    BY <2>1, <2>2, <2>3, <2>4, <2>5, <2>6 DEF Next
<1> QED
  BY <1>1, <1>2, Ordered, PTL DEF Spec, SavepointsMeanMoments, Semantics!Spec

=============================================================================

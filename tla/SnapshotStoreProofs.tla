------------------------- MODULE SnapshotStoreProofs -------------------------
(***************************************************************************)
(* Proofs about SnapshotStore, for every set of objects, every bound and   *)
(* every number of crashes.                                                *)
(***************************************************************************)
EXTENDS SnapshotStore, TLAPS

LEMMA EmptyIsCatalog == EmptyCatalog \in Catalog
BY DEF EmptyCatalog, Catalog

LEMMA TruncationsAreContent ==
  ASSUME NEW c \in Catalog PROVE Truncations(c) \subseteq Catalog \cup {Malformed}
BY DEF Truncations, Catalog

\* The variables stay in their types, whatever fails.
THEOREM TypeCorrect == Spec => []TypeOK
<1> USE DEF TypeOK, Saving
<1>1. Init => TypeOK
  <2> SUFFICES ASSUME Init PROVE TypeOK
    OBVIOUS
  <2>1. loadError \in BOOLEAN /\ synced \in BOOLEAN
    BY Zenon DEF Init
  <2>2. Absent \in Content /\ {Absent} \subseteq Content
    BY DEF Content
  <2> QED BY <2>1, <2>2, EmptyIsCatalog DEF Init
<1>2. TypeOK /\ [Next]_vars => TypeOK'
  <2> SUFFICES ASSUME TypeOK, [Next]_vars PROVE TypeOK'
    OBVIOUS
  <2>1. CASE Load
    <3>1. PICK content \in Reads :
            memory' = IF content = Malformed THEN EmptyCatalog ELSE Meaning(content)
      BY <2>1 DEF Load
    <3>2. content \in Content
      BY TruncationsAreContent DEF Reads, Content
    <3>3. memory' \in Catalog
      BY <3>1, <3>2, EmptyIsCatalog DEF Meaning, Content
    <3> QED BY <2>1, <3>3 DEF Load, files
  <2>2. CASE Begin
    <3>1. next' \in Catalog
      BY <2>2 DEF Begin, Catalog
    <3> QED BY <2>2, <3>1 DEF Begin, files
  <2>3. CASE Open \/ OpenFails \/ Write \/ WriteFails
    BY <2>3 DEF Open, OpenFails, Write, WriteFails, files, process, Content
  <2>4. CASE Flush
    BY <2>4, TruncationsAreContent DEF Flush, process, Content
  <2>5. CASE Sync \/ RenameFails
    BY <2>5 DEF Sync, RenameFails, process, Content
  <2>6. CASE Rename
    BY <2>6, TruncationsAreContent DEF Rename, process, Content
  <2>7. CASE Swap
    BY <2>7 DEF Swap, files, Catalog
  <2>8. CASE Crash
    BY <2>8, EmptyIsCatalog DEF Crash, Dies, files
  <2>9. CASE WriteBack
    BY <2>9 DEF WriteBack, process
  <2>10. CASE PowerLoss
    BY <2>10, EmptyIsCatalog DEF PowerLoss, Dies
  <2>11. CASE UNCHANGED vars
    BY <2>11 DEF vars
  <2> QED
    BY <2>1, <2>2, <2>3, <2>4, <2>5, <2>6, <2>7, <2>8, <2>9, <2>10, <2>11
    DEF Next, Finish
<1> QED
  BY <1>1, <1>2, PTL DEF Spec

-----------------------------------------------------------------------------
(* Nothing fails unseen but fsync.                                         *)

\* What holds at each step of a commit when nothing but fsync fails unseen: memory
\* is what the snapshot file means up to the rename and the catalog before it until the
\* swap, and the temp file is whole by the time it can be renamed.
StepByStep ==
  /\ path \in Catalog \cup {Absent}
  /\ pc \in Saving =>
       next.version = memory.version + 1
  /\ pc \notin {"down", "swap"} => memory = Meaning(path)
  /\ pc \in {"sync", "rename"} => tmp = next
  /\ pc = "swap" => path = next
  /\ ~loadError
  /\ acked <= Meaning(path).version

LEMMA Steps ==
  ASSUME Faults \subseteq {"sync"} PROVE Spec => []StepByStep
<1> USE DEF StepByStep, Saving
<1>1. Init => StepByStep
  BY DEF Init, Meaning, EmptyCatalog
<1>2. TypeOK /\ StepByStep /\ [Next]_vars => StepByStep'
  <2> SUFFICES ASSUME TypeOK, StepByStep, [Next]_vars PROVE StepByStep'
    OBVIOUS
  <2> USE DEF Meaning
  <2>1. CASE Load
    <3>1. Reads = {path}
      BY DEF Reads
    <3> QED BY <2>1, <3>1, StoreAssumption DEF Load, files
  <2>2. CASE Begin
    BY <2>2 DEF Begin, files
  <2>3. CASE Open \/ OpenFails \/ Write \/ WriteFails
    BY <2>3 DEF Open, OpenFails, Write, WriteFails, files, process
  <2>4. CASE Flush \/ Sync \/ RenameFails
    <3>1. Flush => tmp' = next
      BY DEF Flush
    <3>2. Sync => pc = "sync" /\ pc' = "rename" /\ UNCHANGED <<process, path, tmp>>
      BY DEF Sync
    <3> QED BY <2>4, <3>1, <3>2 DEF Flush, RenameFails, process
  <2>5. CASE Rename
    <3>1. next \in Catalog /\ next # Absent /\ EmptyCatalog.version = 0
      BY StoreAssumption DEF TypeOK, EmptyCatalog
    <3>2. memory.version \in Nat /\ next.version = memory.version + 1 /\ acked \in Nat
      BY <2>5 DEF Rename, TypeOK, Catalog
    <3> QED BY <2>5, <3>1, <3>2 DEF Rename, process
  <2>6. CASE Swap
    <3>1. next \in Catalog /\ next # Absent /\ next.version \in Nat
      BY StoreAssumption DEF TypeOK, Catalog
    <3> QED BY <2>6, <3>1 DEF Swap, files
  <2>7. CASE Crash
    BY <2>7 DEF Crash, Dies, files
  <2>8. CASE WriteBack \/ PowerLoss
    BY <2>8 DEF WriteBack, PowerLoss
  <2>9. CASE UNCHANGED vars
    BY <2>9 DEF vars
  <2> QED
    BY <2>1, <2>2, <2>3, <2>4, <2>5, <2>6, <2>7, <2>8, <2>9 DEF Next, Finish
<1> QED
  BY <1>1, <1>2, TypeCorrect, PTL DEF Spec

LEMMA StepsAgree ==
  TypeOK /\ StepByStep => MemoryIsOnDisk /\ AcknowledgedSurvive
<1> SUFFICES ASSUME TypeOK, StepByStep PROVE MemoryIsOnDisk /\ AcknowledgedSurvive
  OBVIOUS
<1>1. Meaning(path).version \in Nat /\ path # Malformed
  BY StoreAssumption, EmptyIsCatalog DEF StepByStep, Meaning, Catalog
<1> QED BY <1>1 DEF StepByStep, MemoryIsOnDisk, AcknowledgedSurvive, TypeOK, Saving

\* Between two operations memory is what a restart would load, through any number
\* of process crashes at any point of a commit. Only a failure of fsync may go
\* unseen: without a power failure it costs nothing.
THEOREM MemoryAndDiskAgree ==
  ASSUME Faults \subseteq {"sync"} PROVE Spec => []MemoryIsOnDisk
<1> QED BY StepsAgree, Steps, TypeCorrect, PTL

\* Under the same conditions a change that was reported as made is in the
\* snapshot file, or a later one is.
THEOREM AcknowledgedIsKept ==
  ASSUME Faults \subseteq {"sync"} PROVE Spec => []AcknowledgedSurvive
<1> QED BY StepsAgree, Steps, TypeCorrect, PTL

\* The promise, variable by variable: each step of the files and the process is
\* a step of DurableCatalog or changes nothing it shows.
THEOREM KeepsPromise ==
  ASSUME Faults \subseteq {"sync"} PROVE Spec => PromiseKept
<1> USE DEF Promise!vars
<1>1. Init => Promise!Init
  BY DEF Init, Promise!Init, Meaning, EmptyCatalog, Promise!EmptyCatalog
<1>2. TypeOK /\ StepByStep /\ StepByStep' /\ [Next]_vars => [Promise!Next]_Promise!vars
  <2> SUFFICES ASSUME TypeOK, StepByStep, StepByStep', [Next]_vars
               PROVE  [Promise!Next]_Promise!vars
    OBVIOUS
  <2> DEFINE shown == IF pc = "down" THEN Absent ELSE memory
  <2>0. memory \in Catalog /\ memory # Absent /\ next \in Catalog /\ next # Absent
    BY StoreAssumption DEF TypeOK
  <2>1. CASE Load
    <3>1. shown = Absent /\ shown' = Meaning(path) /\ path' = path
      BY <2>1 DEF Load, files, StepByStep
    <3> QED BY <3>1 DEF Promise!Next, Promise!Open, Meaning
  <2>2. CASE Begin
    <3>1. shown' = shown /\ path' = path
      BY <2>2 DEF Begin, files
    <3> QED BY <3>1 DEF Meaning
  <2>3. CASE Open \/ OpenFails \/ Write \/ WriteFails
    <3>1. shown' = shown /\ path' = path
      BY <2>3 DEF Open, OpenFails, Write, WriteFails, files, process
    <3> QED BY <3>1 DEF Meaning
  <2>4. CASE Flush \/ Sync \/ RenameFails
    <3>1. shown' = shown /\ path' = path
      BY <2>4 DEF Flush, Sync, RenameFails, process
    <3> QED BY <3>1 DEF Meaning
  <2>5. CASE Rename
    <3>1. shown' = shown /\ shown = Meaning(path) /\ path' = next
      BY <2>5 DEF Rename, process, StepByStep
    <3>2. next.version = Meaning(path).version + 1
      BY <2>5, <3>1 DEF Rename, StepByStep, Saving
    <3>3. next \in Promise!Catalog
      BY <2>0 DEF Catalog, Promise!Catalog
    <3>4. Promise!Store
      BY <2>0, <3>1, <3>2, <3>3 DEF Promise!Store, Meaning
    <3> QED BY <3>4 DEF Promise!Next
  <2>6. CASE Swap
    <3>1. shown # Absent /\ shown' = next /\ path' = path /\ path = next
      BY <2>0, <2>6 DEF Swap, files, StepByStep
    <3> QED BY <2>0, <3>1 DEF Promise!Next, Promise!Show, Meaning
  <2>7. CASE Crash
    <3>1. shown # Absent /\ shown' = Absent /\ path' = path
      BY <2>0, <2>7 DEF Crash, Dies, files
    <3> QED BY <3>1 DEF Promise!Next, Promise!Close, Meaning
  <2>8. CASE WriteBack \/ PowerLoss
    BY <2>8 DEF WriteBack, PowerLoss
  <2>9. CASE UNCHANGED vars
    BY <2>9 DEF vars, Meaning
  <2> QED
    BY <2>1, <2>2, <2>3, <2>4, <2>5, <2>6, <2>7, <2>8, <2>9 DEF Next, Finish
<1> QED
  BY <1>1, <1>2, Steps, TypeCorrect, PTL DEF Spec, PromiseKept, Promise!Spec

-----------------------------------------------------------------------------
(* The power can fail, but what is flushed and synced is.                  *)

\* What the device can hold is whole, because the temp file is both written out
\* and synced when it is renamed.
Whole ==
  /\ NeverTorn
  /\ disk \subseteq renamed \cup {Absent}
  /\ pc \in {"sync", "rename"} => tmp = next
  /\ pc = "rename" => synced = TRUE

\* No death of the process and no power failure leaves part of a catalog in the
\* snapshot file, as long as fflush and fsync do what they say.
THEOREM SnapshotNeverTorn ==
  ASSUME "flush" \notin Faults, "sync" \notin Faults PROVE Spec => []NeverTorn
<1> USE DEF Whole, NeverTorn
<1>1. Init => Whole
  BY DEF Init
<1>2. Whole /\ [Next]_vars => Whole'
  <2> SUFFICES ASSUME Whole, [Next]_vars PROVE Whole'
    OBVIOUS
  <2>1. CASE Load \/ Begin
    BY <2>1 DEF Load, Begin, files
  <2>2. CASE Open \/ OpenFails \/ Write \/ WriteFails
    BY <2>2 DEF Open, OpenFails, Write, WriteFails, files, process
  <2>3. CASE Flush \/ Sync \/ RenameFails
    <3>1. Flush => tmp' = next
      BY DEF Flush
    <3>2. Sync => synced' = TRUE
      BY DEF Sync
    <3> QED BY <2>3, <3>1, <3>2 DEF Flush, Sync, RenameFails, process
  <2>4. CASE Rename
    BY <2>4 DEF Rename, process
  <2>5. CASE Swap \/ Crash
    BY <2>5 DEF Swap, Crash, Dies, files
  <2>6. CASE WriteBack
    BY <2>6 DEF WriteBack, process
  <2>7. CASE PowerLoss
    BY <2>7 DEF PowerLoss, Dies
  <2>8. CASE UNCHANGED vars
    BY <2>8 DEF vars
  <2> QED
    BY <2>1, <2>2, <2>3, <2>4, <2>5, <2>6, <2>7, <2>8 DEF Next, Finish
<1> QED
  BY <1>1, <1>2, PTL DEF Spec

=============================================================================

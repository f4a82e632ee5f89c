---------------------------- MODULE SnapshotStore ----------------------------
(***************************************************************************)
(* How a commit reaches the disk (CatalogManager::commit, its constructor, *)
(* and save_catalog_snapshot / load_catalog_snapshot), one step per system *)
(* call, with the process free to die between any two of them.             *)
(*                                                                         *)
(* A catalog is its version and the set of objects in it.  A file holds a  *)
(* catalog, or text the loader rejects, or is not there.  A snapshot cut   *)
(* short is either rejected or, because the loader accepts any sequence of *)
(* whole records after the header, read as a catalog with objects missing. *)
(*                                                                         *)
(* The calls whose failure the code looks at (opening and writing the temp *)
(* file, the rename) can always fail.  The ones it does not look at fail   *)
(* only if the constant Faults names them, and so does the power.          *)
(***************************************************************************)
EXTENDS Naturals

CONSTANTS
  Objects,     \* the tables and indexes a catalog can hold
  Faults,      \* the unchecked failures that can happen
  MaxVersion,  \* bound: no more changes than this
  Absent,      \* the content of a file that does not exist
  Malformed    \* the content of a file the loader rejects

FaultKind == {"flush", "sync", "open", "read", "power"}

Catalog == [version : Nat, objects : SUBSET Objects]

EmptyCatalog == [version |-> 0, objects |-> {}]

ASSUME StoreAssumption ==
  /\ Faults \subseteq FaultKind
  /\ MaxVersion \in Nat
  /\ Absent \notin Catalog
  /\ Malformed \notin Catalog
  /\ Absent # Malformed

Content == Catalog \cup {Absent, Malformed}

VARIABLES
  pc,         \* where the process is
  memory,     \* catalog_, the catalog readers borrow
  next,       \* the copy a DDL operation commits
  loadError,  \* the constructor reported a malformed snapshot
  path,       \* the snapshot file, as the running system reads it
  tmp,        \* the temp file beside it
  synced,     \* the temp file's content is on the device
  disk,       \* what the snapshot file can hold after a power failure
  acked,      \* history: the version of the last change reported as made
  renamed     \* history: the catalogs whose temp file was renamed into place

vars == <<pc, memory, next, loadError, path, tmp, synced, disk, acked, renamed>>
files == <<path, tmp, synced, disk, renamed>>
process == <<memory, next, loadError, acked>>

\* A commit goes open, write, flush, sync, rename, swap.
Saving == {"open", "write", "flush", "sync", "rename", "swap"}

TypeOK ==
  /\ pc \in Saving \cup {"down", "idle"}
  /\ memory \in Catalog
  /\ next \in Catalog
  /\ loadError \in BOOLEAN
  /\ path \in Content
  /\ tmp \in Content
  /\ synced \in BOOLEAN
  /\ disk \subseteq Content
  /\ acked \in Nat
  /\ renamed \subseteq Catalog

\* What can be left of a catalog's text when its end is missing.  The version
\* and the allocators are in the first lines.
Truncations(c) ==
  {Malformed} \cup {[version |-> c.version, objects |-> s] : s \in SUBSET c.objects}

\* A wrong loader: a missing file is no catalog.
MeaningOfText(content) == content

\* What the loader makes of a file.
Meaning(content) == IF content = Absent THEN EmptyCatalog ELSE content

Init ==
  /\ pc = "down"
  /\ memory = EmptyCatalog
  /\ next = EmptyCatalog
  /\ loadError = FALSE
  /\ path = Absent
  /\ tmp = Absent
  /\ synced = FALSE
  /\ disk = {Absent}
  /\ acked = 0
  /\ renamed = {}

-----------------------------------------------------------------------------
(* The constructor.                                                        *)

\* What reading the snapshot file can yield.  A file that cannot be opened is
\* taken for one that does not exist, and a read that fails for its end.
Reads ==
  {path}
  \cup (IF "open" \in Faults THEN {Absent} ELSE {})
  \cup (IF "read" \in Faults /\ path \in Catalog THEN Truncations(path) ELSE {})

Load ==
  /\ pc = "down"
  /\ \E content \in Reads :
       /\ loadError' = (content = Malformed)
       /\ memory' = IF content = Malformed THEN EmptyCatalog ELSE Meaning(content)
  /\ pc' = "idle"
  /\ UNCHANGED <<next, acked, files>>

-----------------------------------------------------------------------------
(* A commit.                                                               *)

\* A wrong Begin: the schema version is not bumped.
BeginSameVersion ==
  /\ pc = "idle"
  /\ memory.version < MaxVersion
  /\ \E objects \in SUBSET Objects :
       next' = [version |-> memory.version, objects |-> objects]
  /\ pc' = "open"
  /\ UNCHANGED <<memory, loadError, acked, files>>

\* A DDL operation has built the next catalog.
Begin ==
  /\ pc = "idle"
  /\ memory.version < MaxVersion
  /\ \E objects \in SUBSET Objects :
       next' = [version |-> memory.version + 1, objects |-> objects]
  /\ pc' = "open"
  /\ UNCHANGED <<memory, loadError, acked, files>>

\* A name holds a newline, or the temp file cannot be opened: nothing is done.
OpenFails == pc = "open" /\ pc' = "idle" /\ UNCHANGED <<process, files>>

\* A wrong Open: the snapshot is opened in place.
OpenInPlace ==
  /\ pc = "open"
  /\ pc' = "write"
  /\ path' = Malformed
  /\ UNCHANGED <<process, tmp, synced, disk, renamed>>

\* fopen(tmp, "wb"): created, or emptied if an earlier process left it.
Open ==
  /\ pc = "open"
  /\ pc' = "write"
  /\ tmp' = Malformed
  /\ synced' = FALSE
  /\ UNCHANGED <<process, path, disk, renamed>>

\* fwrite takes all of the text into the stream's buffer.
Write == pc = "write" /\ pc' = "flush" /\ UNCHANGED <<process, files>>

\* A wrong WriteFails: it tries again.
WriteFailsRetrying ==
  /\ pc = "write"
  /\ pc' = "open"
  /\ tmp' = Absent
  /\ UNCHANGED <<process, path, synced, disk, renamed>>

\* A short write: the temp file is removed and the change refused.
WriteFails ==
  /\ pc = "write"
  /\ pc' = "idle"
  /\ tmp' = Absent
  /\ UNCHANGED <<process, path, synced, disk, renamed>>

\* fflush, whose result is not looked at.
Flush ==
  /\ pc = "flush"
  /\ tmp' \in {next} \cup (IF "flush" \in Faults THEN Truncations(next) ELSE {})
  /\ pc' = "sync"
  /\ UNCHANGED <<process, path, synced, disk, renamed>>

\* A wrong Sync: the file is only closed.
SyncNothing ==
  /\ pc = "sync"
  /\ pc' = "rename"
  /\ UNCHANGED <<process, path, tmp, synced, disk, renamed>>

\* fsync and fclose, whose results are not looked at either.
Sync ==
  /\ pc = "sync"
  /\ synced' \in (IF "sync" \in Faults THEN BOOLEAN ELSE {TRUE})
  /\ pc' = "rename"
  /\ UNCHANGED <<process, path, tmp, disk, renamed>>

\* rename(tmp, path).  The directory is not synced, so until the system writes
\* it back the device may hold the old entry or the new one.
Rename ==
  /\ pc = "rename"
  /\ path' = tmp
  /\ renamed' = renamed \cup {next}
  /\ disk' = disk \cup {tmp} \cup (IF synced THEN {} ELSE Truncations(next))
  /\ tmp' = Absent
  /\ pc' = "swap"
  /\ UNCHANGED <<process, synced>>

\* A wrong RenameFails: its result is not looked at.
RenameFailsUnseen ==
  /\ pc = "rename"
  /\ pc' = "swap"
  /\ tmp' = Absent
  /\ UNCHANGED <<process, path, synced, disk, renamed>>

RenameFails ==
  /\ pc = "rename"
  /\ pc' = "idle"
  /\ tmp' = Absent
  /\ UNCHANGED <<process, path, synced, disk, renamed>>

\* The catalog is swapped in and the operation returns ok.
Swap ==
  /\ pc = "swap"
  /\ memory' = next
  /\ acked' = next.version
  /\ pc' = "idle"
  /\ UNCHANGED <<next, loadError, files>>

-----------------------------------------------------------------------------
(* The environment.                                                        *)

\* What the process held is gone.
Dies ==
  /\ pc # "down"
  /\ pc' = "down"
  /\ memory' = EmptyCatalog
  /\ next' = EmptyCatalog
  /\ loadError' = FALSE
  /\ UNCHANGED acked

\* The process dies; the system keeps the files.
Crash == Dies /\ UNCHANGED files

\* The system writes the directory and the file it names back to the device.
WriteBack ==
  /\ "power" \in Faults
  /\ disk' = {path}
  /\ UNCHANGED <<pc, process, path, tmp, synced, renamed>>

\* The power fails: of the snapshot file there is what the device holds.
PowerLoss ==
  /\ "power" \in Faults
  /\ Dies
  /\ path' \in disk
  /\ disk' = {path'}
  /\ UNCHANGED <<tmp, synced, renamed>>

-----------------------------------------------------------------------------

Finish ==
  Open \/ OpenFails \/ Write \/ WriteFails \/ Flush \/ Sync
  \/ Rename \/ RenameFails \/ Swap

Next == Load \/ Begin \/ Finish \/ Crash \/ WriteBack \/ PowerLoss

\* A commit is straight-line code: once begun it takes its next step.
Fairness == WF_vars(Finish)

Spec == Init /\ [][Next]_vars /\ Fairness

-----------------------------------------------------------------------------
(* What the files and the memory have to do with each other.               *)

\* Memory and disk never disagree between two operations: what readers see is
\* what a restart would load, unless the load said it failed.
MemoryIsOnDisk == pc = "idle" /\ ~loadError => memory = Meaning(path)

\* A change reported as made is in the snapshot file, or a later one is.
AcknowledgedSurvive ==
  path # Malformed /\ Meaning(path).version >= acked

\* The snapshot file holds, whole, a catalog that some commit renamed into place,
\* whenever the process dies or the power fails: the temp file is written out and
\* synced before it takes the snapshot's name.
NeverTorn == path \in renamed \cup {Absent}

\* An operation that began a commit returns, or its process dies.
CommitReturns == pc \in Saving ~> pc \in {"idle", "down"}

\* The promise the files implement.
Promise ==
  INSTANCE DurableCatalog
    WITH Closed <- Absent,
         stored <- Meaning(path),
         shown  <- IF pc = "down" THEN Absent ELSE memory

PromiseKept == Promise!Spec

=============================================================================

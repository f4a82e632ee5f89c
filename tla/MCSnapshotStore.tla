--------------------------- MODULE MCSnapshotStore ---------------------------
(* Inputs for the runs of SnapshotStore: which unchecked failures happen.   *)
EXTENDS SnapshotStore

NoFaults == {}
FlushFault == {"flush"}
ReadAndPowerFaults == {"open", "read", "power"}

=============================================================================

SPECIFICATION Spec
CONSTANTS
  Objects = {o1, o2}
  Faults <- NoFaults
  MaxVersion = 3
  Absent = Absent
  Malformed = Malformed
INVARIANTS
  MemoryIsOnDisk
  AcknowledgedSurvive
PROPERTIES
  PromiseKept

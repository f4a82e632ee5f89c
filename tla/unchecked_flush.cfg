SPECIFICATION Spec
CONSTANTS
  Objects = {o1, o2}
  Faults <- FlushFault
  MaxVersion = 2
  Absent = Absent
  Malformed = Malformed
INVARIANTS
  MemoryIsOnDisk

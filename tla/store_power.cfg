SPECIFICATION Spec
CONSTANTS
  Objects = {o1}
  Faults <- ReadAndPowerFaults
  MaxVersion = 2
  Absent = Absent
  Malformed = Malformed
INVARIANTS
  TypeOK
  NeverTorn
PROPERTIES
  CommitReturns

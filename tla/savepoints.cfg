SPECIFICATION Spec
CONSTANTS
  Name = {s1, s2}
  NoName = NoName
  MaxMoment = 5
INVARIANTS
  TypeOK
  StackInOrder
PROPERTIES
  SavepointsMeanMoments

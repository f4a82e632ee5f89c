SPECIFICATION Spec
CONSTANTS
  a = a
  b = b
  Column = {a, b}
  NullableColumn = {b}
  Domain = {0}
  Outcomes = {Null}
  Answers = {1}
  OpaqueTypes = {"Integer"}
  ArithmeticOps = {"+", "-", "*", "/"}
  CastTypes = {"BigInt"}
  SubqueryResults <- Results
  Literals <- LiteralSet
  MaxInt = 1
  MaxBig = 3
  Null = Null
  Fault = Fault
  Abort = Abort
  Pending = Pending
  None = None
  MaxLeaves = 3
  MaxCases = 1
INVARIANTS
  TypeOK
  NotNullIsSound
  TypeHoldsValues
  FoldedIsValue
  FaultsAreWarned
  DeadArmsAreSilent
CHECK_DEADLOCK FALSE

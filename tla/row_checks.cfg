SPECIFICATION Spec
CONSTANTS
  a = a
  b = b
  c = c
  MaxBig = 3
  Unit = 2
  Expr <- Trees
  Depth <- Depths
  Tables <- TableSet
  Given <- TypedGiven
  Lists <- ColumnLists
  SetLists <- TypedAssignments
  Outcomes <- OutcomeSet
  InstantOf <- Instants
  TrueString = {1}
INVARIANTS
  NoFalseAlarm
  CertainViolationsAreReported
CHECK_DEADLOCK FALSE

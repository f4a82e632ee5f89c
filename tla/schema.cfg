SPECIFICATION Spec
CONSTANTS
  t1 = t1
  t2 = t2
  a = a
  b = b
  k = k
  Unnamed = Unnamed
  NoTable = NoTable
  TableName = {t1, t2}
  ColumnName = {a, b}
  ConstraintName = {k}
  IndexName = {i1}
  TableSpecs <- Tables
  ColumnSpecs <- Columns
  ConstraintSpecs <- Constraints
  IndexColumns <- IndexKeys
  MaxVersion = 5
INVARIANTS
  TypeOK
  ForeignKeysResolve
  OwnColumnsExist
  PrimaryKeySound
  LastColumnStays
PROPERTIES
  IdsNeverReused
  OthersOnlyDetached
  KeysOutliveDependents

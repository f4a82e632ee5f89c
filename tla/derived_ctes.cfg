SPECIFICATION Spec
CONSTANTS
  Tables <- TwoTables
  Null = Null
  Lists <- ListSet
  CteNames = {"t", "c"}
  ColumnLists <- ColumnListSet
  Leaves <- LeafSet
  ValuesLists <- ValuesSet
  Databases <- Contents
  MaxBlocks = 3
INVARIANT DerivedTablesSeeCtes
CHECK_DEADLOCK FALSE

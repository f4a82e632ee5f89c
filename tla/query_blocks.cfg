SPECIFICATION Spec
CONSTANTS
  Tables <- TwoTables
  Null = Null
  Lists <- ListSet
  CteNames = {"t", "c"}
  ColumnLists <- ColumnListSet
  Leaves <- LeafSet
  ValuesLists <- ValuesSet
  Databases <- Contents
  MaxBlocks = 3
INVARIANTS
  NamesAgree
  OutputNotNullIsSound
  DependentIsCorrelated
CHECK_DEADLOCK FALSE

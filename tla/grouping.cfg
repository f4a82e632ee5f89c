SPECIFICATION Spec
CONSTANTS
  FromClauses <- CatalogFroms
  Items <- ItemSet
  Keys <- KeySet
  Predicates <- PredicateSet
  OrderKeys <- OrderSet
  Expr <- Trees
  Depth <- Depths
  NoId = NoId
  None = None
  Null = Null
  MaxItems = 2
  MaxKeys = 2
  MaxParts = 4
INVARIANTS
  UngroupedIsReported
  OnlyUngroupedIsReported
  SubtotalsAreNullable
  StagesRespected
CHECK_DEADLOCK FALSE

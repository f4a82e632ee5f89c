SPECIFICATION FrontSpec
CONSTANTS
  t1 = t1
  t2 = t2
  a = a
  A = A
  b = b
  column1 = column1
  k = k
  i1 = i1
  Unnamed = Unnamed
  NoTable = NoTable
  Anonymous = Anonymous
  TableName = {t1, t2}
  ColumnName = {a, b, column1}
  ConstraintName = {k}
  IndexName = {i1}
  Spelling = {a, A, b, column1}
  Fold <- FoldCase
  Positional <- ColumnN
  Statements <- AllStatements
  TableSpecs <- None
  ColumnSpecs <- None
  ConstraintSpecs <- None
  IndexColumns <- None
  MaxVersion = 5
PROPERTIES
  NothingDeclaredIsLost
  ColumnsAsDeclared

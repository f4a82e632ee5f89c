SPECIFICATION Spec
CONSTANTS
  k = k
  x = x
  p = p
  q = q
  r = r
  d = d
  Name = {k, x}
  Table = {p, q, r, d}
  Derived = d
  Columns <- TableColumns
  Using <- UsingLists
  MaxTables = 3
  MaxDepth = 3
INVARIANTS
  TypeOK
  BareNamesAgree
  BareNotNullIsSound
  NullableIsReal
  QualifiedNotNullIsSound
  StarShowsEachOnce
CHECK_DEADLOCK FALSE

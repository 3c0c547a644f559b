CONSTANTS
  Node = {n1, n2, n3}
  Iter = {i1}
  Key = {a, b}
  Value = {x, y}
  Null = Null
  Closed = Closed
  Void = Void
  MaxInit = 2
  SizeMax = 7
SPECIFICATION Spec
SYMMETRY Symmetry
INVARIANT TypeOK
INVARIANT NeverFollowsNull
INVARIANT NextIsPosition
INVARIANT GetFindsKey
PROPERTY EditsByNameAreExact
PROPERTY ImplementsIteration

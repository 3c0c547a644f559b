CONSTANTS
  Node = {v1, v2, v3}
  Iter = {i1, i2}
  Null = Null
  Closed = Closed
  Void = Void
  SizeMax = 7
SPECIFICATION Spec
SYMMETRY Symmetry
INVARIANT TypeOK
INVARIANT NeverFollowsNull
INVARIANT RingIsSound
INVARIANT IndexIsPosition
PROPERTY EditsAreExact
PROPERTY ImplementsIteration

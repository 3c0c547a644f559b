CONSTANTS
  Node = {v1, v2, v3}
  Iter = {i1}
  Null = Null
  Closed = Closed
  Void = Void
  SizeMax = 7
SPECIFICATION Spec
SYMMETRY Symmetry
PROPERTY RemoveTakesCurrent

CONSTANTS
  Wrapper = {u, v}
  Doc = {d, e}
  Key <- MCKey
  Scalar <- MCScalar
  Texts <- MCTexts
  Patches <- MCPatches
  Null = Null
  One = One
  Object = Object
  None = None
  Closed = Closed
  MaxNode = 4
  MaxDepth = 2
SPECIFICATION Spec
SYMMETRY Symmetry
VIEW View
INVARIANT EqualsComparesValues

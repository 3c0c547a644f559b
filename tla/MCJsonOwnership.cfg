CONSTANTS
  Doc = {d1, d2, d3}
  Obj = {o1, o2, o3}
  Handle = {h1, h2, h3}
  Frame = Frame
  NoDoc = NoDoc
  NoObj = NoObj
SPECIFICATION Spec
SYMMETRY Symmetry
INVARIANT TypeOK
INVARIANT CallsComplete
INVARIANT OneDocument
INVARIANT NoLeakNoDangling
INVARIANT OwnedOnce
PROPERTY ImplementsLifetime
PROPERTY UnloadFreesAll

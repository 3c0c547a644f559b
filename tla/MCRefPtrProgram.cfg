CONSTANTS
  Doc = {d1, d2, d3}
  Obj = {o1, o2}
  Frame = Frame
  NoDoc = NoDoc
SPECIFICATION ProgramSpec
SYMMETRY Symmetry
INVARIANT CountsMatchPointers
PROPERTY ProgramImplementsLifetime

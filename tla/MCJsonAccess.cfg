SPECIFICATION Spec
CONSTANTS
  t1 = t1
  t2 = t2
  NaN = NaN
  NotANumber = NotANumber
  Input = Input
  Empty = Empty
  Text <- MCText
  TextLen <- MCTextLen
  NumberIn <- MCNumberIn
  Int64 <- MCInt64
  Uint64 <- MCUint64
  LongLimit = 8
  CellSpan = 8
  Double <- MCDouble
  Unit = 4
  Single <- MCSingle
  RelTolerance = 4
  Flag <- MCFlag
  JsonLen <- MCJsonLen
  IntRoom = 3
  RealRoom = 5
  MaxRoom = 6
INVARIANT TypeOK
INVARIANT WaysAgree
INVARIANT WholeOrNothing
INVARIANT PutIsRead

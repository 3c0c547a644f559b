CONSTANTS
  IntLimit = 2
  LongLimit = 16
  DoubleLimit = 8
  Int32 <- MCInt32
  Text <- MCText
  Double <- MCDouble
  InsertionMax = 3
  MaxLen = 4
SPECIFICATION Spec
INVARIANT TypeOK
INVARIANT ReadsBack
INVARIANT BothTakeTheSame
PROPERTY FindsAppended
PROPERTY SortIsSound

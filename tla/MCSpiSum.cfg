SPECIFICATION FairSpec
CONSTANTS
  Node = {"a", "b"}
  N = 2
  MinInt <- IntLow
  MaxInt = 1
  None = None
  Rounds = 3
  Jobs = 3
INVARIANTS
  TypeOK
  SumIsExact
  OneAtATime
PROPERTIES
  OnlyStaleObjectsHang
  ReduceSpec
CHECK_DEADLOCK FALSE

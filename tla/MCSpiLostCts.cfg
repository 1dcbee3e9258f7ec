SPECIFICATION FairSpec
CONSTANTS
  Multi = {"a", "b"}
  Pair = {"ab"}
  Src <- OneSrc
  Dst <- OneDst
  None = None
  Rounds = 2
PROPERTY ReadyIsHeeded
CHECK_DEADLOCK FALSE

SPECIFICATION FairSpec
CONSTANTS
  Multi = {"a", "b"}
  Pair <- ExchangePair
  Src <- ExchangeSrc
  Dst <- ExchangeDst
  None = None
  Rounds = 2
INVARIANTS
  TypeOK
  BufferIntact
  NoUnsolicitedData
  NoPutIntoFreed
PROPERTY OnlyOvertakingHangs
CHECK_DEADLOCK FALSE

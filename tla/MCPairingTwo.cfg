SPECIFICATION Spec
CONSTANTS
  NumNodes = 2
  List <- Ring2
  Mate <- Pairs
  None = None
INVARIANT LinksMatch
CHECK_DEADLOCK FALSE

SPECIFICATION Spec
CONSTANTS
  NumNodes = 3
  List <- Ring3
  Mate <- Pairs
  None = None
INVARIANTS
  PairsAreMutual
  EndsAgree
PROPERTY MatchingEnds
CHECK_DEADLOCK FALSE

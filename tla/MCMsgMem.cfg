CONSTANTS
  IntBits = 4
  Addresses = {8, 9, 10, 11, 12, 13, 14, 15, 16}
  Sizes = {0, 1, 5}
  Alignments = {0, 1, 4, 8}
  Calls <- MCCalls
  None = None
SPECIFICATION Spec
INVARIANTS AlignedInside WholeOrRefused SpiSendsTheSame OnlyBlocklenLeaks
CHECK_DEADLOCK FALSE

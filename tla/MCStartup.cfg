\* Jobs of four nodes under every kind of command line.
CONSTANTS
  Node = {0, 1, 2, 3}
  None = None
  Garbage = Garbage
  Bits <- MCBits
  Scenarios <- MCScenarios
SPECIFICATION FairSpec
INVARIANTS TypeOK ArgsKept MembersAgree ColoursCounted DefaultIsJob NeighboursMutual JobsAreBlocks LayoutSound SumsAreClose
PROPERTY OnlyPartialDeclareHangs
CHECK_DEADLOCK FALSE

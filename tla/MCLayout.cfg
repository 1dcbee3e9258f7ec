CONSTANTS
  Lattices <- MCLattices
  Machines <- MCMachines
SPECIFICATION FairSpec
INVARIANTS SquaresCover FoundWhenPossible NumbersNodes
PROPERTY SearchEnds
CHECK_DEADLOCK FALSE

SPECIFICATION Spec
CONSTANTS
  Depth = 2
  Wide = 2
  MaxNodes = 6
  EmptyVectors = FALSE
  Corruptions = 2
  SmallNodes = 2
  Values <- MCValues
CHECK_DEADLOCK FALSE
INVARIANTS
  AcceptsExactlyTrees
  WalksReadTree
PROPERTY
  Terminates

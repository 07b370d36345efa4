SPECIFICATION Spec
CONSTANTS
  MaxNodes = 5
  MaxKids = 3
INVARIANTS
  TypeOK
  TreeShape
  SolvedFlagsExact
  ClosingExact
  NodeStatsExact
PROPERTIES
  ImplementsSearchTree
CHECK_DEADLOCK FALSE

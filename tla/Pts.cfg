SPECIFICATION FairSpec
CONSTANTS
  N = 3
  MaxDepth = 2
  MaxBare = 0
  Careful = TRUE
INVARIANTS
  TypeOK
  TaskCountRight
  PassReachesAll
PROPERTIES
  NoStarvation
CHECK_DEADLOCK FALSE

SPECIFICATION Spec
CONSTANTS
  N = 2
  MaxDepth = 2
  MaxBare = 2
  Careful = TRUE
PROPERTIES
  MessagesOwned
CHECK_DEADLOCK FALSE

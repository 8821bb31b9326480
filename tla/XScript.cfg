SPECIFICATION FairSpec
CONSTANTS
  Files <- MCFiles
  MaxRec = 10
  MaxCalls = 3
  MaxLoads = 2
  Leftovers = {0, 3}
  WrongEsc = 1000
  WrongHex = 1001
  Pad = Pad
  In = {97, 98}
  MaxIn = 1
  MaxTimeout = 3
INVARIANTS
  
  RecordsOfFile
  ReturnsFollowCalls
PROPERTIES
  RxEndsWithText
  TimeoutEarned
  WaitsAreBounded
CHECK_DEADLOCK FALSE

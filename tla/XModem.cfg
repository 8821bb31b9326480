SPECIFICATION Spec
CONSTANTS
  N = 3
  Modulus = 3
  MaxTry = 2
  MaxRetrans = 3
  MaxEot = 2
  FrameBytes = 4
  MaxFaults = 4
  FaultsToR = {"lost", "garbled", "headless"}
  FaultsToS = {"lost", "garbled"}
INVARIANT TypeOK
PROPERTIES
  TransferSpec
  BothEnd
  RefusalIsFatal
  AnswersForgiven
CHECK_DEADLOCK FALSE

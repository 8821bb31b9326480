SPECIFICATION Spec
CONSTANTS
  Stale = 7
  Totals <- MCTotals
  Options <- MCOptions
  MaxFaults = 2
  Noise <- MCNoise
  Scripts <- MCScripts
  Sizes = {8, 64}
  TokenSlots = 16
INVARIANTS
  RequestsTileImage
  AnswersInStep
  FaultlessUploadWhole
  ClosedAtExit
  DownloadRestoresImage
  BufferCarries
PROPERTY PortGivenBack
CHECK_DEADLOCK FALSE

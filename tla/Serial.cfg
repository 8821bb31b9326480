SPECIFICATION Spec
CONSTANTS
  Size = 3
  Sent = 4
  Packet = 2
INVARIANT RingSound
PROPERTIES
  NothingAfterStop
  ArrivalsTaken
CHECK_DEADLOCK FALSE

SPECIFICATION MSpec
CONSTANTS
  Byte = {0, 1, 2}
  Size = 5
  MaxChunk = 3
  MaxLen = 2
INVARIANT CountTellsEmpty
PROPERTY MsgFifoSpec

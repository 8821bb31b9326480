SPECIFICATION Spec
CONSTANTS
  Byte = {b0, b1}
  Size = 4
  MaxChunk = 4
INVARIANTS
  TypeOK
  LookAheadSound
PROPERTY FifoSpec

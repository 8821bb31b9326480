SPECIFICATION Spec
CONSTANTS
  Name = {f, g}
  cmdlen = 2
  LoadMax = 2
  First = f
  FirstLen = {0, 2}
  MaxTyped = 2
  MaxSaves = 1
  MaxLines = 2
INVARIANTS
  TedTypeOK
  FilesFaithful
PROPERTY TextKept
CHECK_DEADLOCK FALSE

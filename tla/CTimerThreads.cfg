SPECIFICATION Spec
CONSTANTS
  Event = {e1, e2}
  NoEvent = NoEvent
  MaxEvents = 3
  MaxTicks = 2
  Periodic = {e2}
  Win32 = FALSE
INVARIANT LinksAccounted
PROPERTY TimerSpec
VIEW LiveState

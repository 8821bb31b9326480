SPECIFICATION TmrSpec
CONSTANTS
  Timer = {t1}
  Func = {e1}
  Delay = d
  Event = {t1, e1, d}
  MaxEvents = 3
  MaxTicks = 2
INVARIANTS
  TypeOK
  FlagsOnTime
  NoDeadEvent
PROPERTY DeadlinesSpec

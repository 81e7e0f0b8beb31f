SPECIFICATION EventsSpec
CONSTANTS
  Event = {e1, e2}
  None = None
  MinCycles = 1
  MaxCycles = 3
  MaxPending = 4
INVARIANTS Woken PendingCounted
PROPERTY EventuallyCalled
CHECK_DEADLOCK FALSE

SPECIFICATION TSpec
CONSTANTS
  Source = {s1, s2}
  x1 = x1
  x2 = x2
  x3 = x3
  x4 = x4
  x5 = x5
  Target = {x1, x2, x3, x4, x5}
  None = None
  MaxTime = 2
  MaxPending = 3
  MaxTriggers = 2
  single = single
  multi = multi
  barrier = barrier
  SingleShot = {single}
  MultiShot = {multi}
  Barrier = {barrier}
  Targets <- MCTargets
  ActivationsNeeded <- MCNeeded
SYMMETRY Symmetry
INVARIANTS TypeOK AgendaConsistent ReleasedOnce
PROPERTIES RefinesCalendar ClockMovesForward

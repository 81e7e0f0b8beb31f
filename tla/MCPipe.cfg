SPECIFICATION Spec
CONSTANTS
  Packet = {p1, p2, p3, p4}
  None = None
  Delay = 2
  StartSize = 3
  MaxInFlight = 4
INVARIANT EachOnce

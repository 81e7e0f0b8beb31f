SPECIFICATION Spec
CONSTANTS
  p1 = p1
  p2 = p2
  p3 = p3
  Packet = {p1, p2, p3}
  None = None
  Size <- MCSize
  Drain <- MCSize
  MaxSize = 3
  DropFrom = 2
  Lossy = FALSE
  Delay = 3
  StartSize = 3
  MaxInFlight = 3
INVARIANTS TypeOK BytesCounted BusyWhenFilled WokenForHead OnePlace
PROPERTIES RefinesDelayLine AcceptedDelivered

SPECIFICATION Spec
CONSTANTS
  Flow <- MCFlow
  Connections <- MCConnections
  DataUnit = 2
  MSS = 2
  FlowBytes = 8
  InitialWindow = 10
  InitialThresh = 12
  MaxCwnd = 14
  DupAckThreshold = 3
  MaxEarly = 1
  MaxMishaps = 3
  MaxPolls = 0
INVARIANT NothingHeldBack
CHECK_DEADLOCK FALSE

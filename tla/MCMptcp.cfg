SPECIFICATION Spec
CONSTANTS
  Flow <- MCFlow
  Connections <- MCConnections
  DataUnit = 1
  MSS = 2
  FlowBytes = 2
  InitialWindow = 4
  InitialThresh = 4
  MaxCwnd = 14
  DupAckThreshold = 1
  MaxEarly = 0
  MaxMishaps = 1
  MaxPolls = 2
INVARIANTS TypeOK WindowOpen DataOnce DataArrived
PROPERTIES SubflowsComplete
CHECK_DEADLOCK FALSE

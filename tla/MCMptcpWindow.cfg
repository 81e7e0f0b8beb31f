\* The same subflows, nothing lost, with a receive window of three segments.
SPECIFICATION Spec
CONSTANTS
  Flow <- MCFlow
  Connections <- MCNarrowConnections
  DataUnit = 1
  MSS = 2
  FlowBytes = 4
  InitialWindow = 4
  InitialThresh = 4
  MaxCwnd = 14
  DupAckThreshold = 3
  MaxEarly = 0
  MaxMishaps = 0
  MaxPolls = 4
PROPERTY FlowCompletes
CHECK_DEADLOCK FALSE

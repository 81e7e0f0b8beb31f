\* Three flows of three pairs, so that two share one; bytes below, at and above the threshold.
CONSTANTS
  K = 4
  P = 2
  A = 2
  H = 2
  FatTreePairs <- MCFatTreePairs
  DragonFlyPairs <- MCDragonFlyPairs
  NetPaths <- MCNetPaths
  Threshold = 1
  MaxFlows = 3
  MaxAcked = 2
SPECIFICATION Spec
INVARIANTS TypeOK AllRoutes AllocationsCounted
PROPERTIES LeastLoaded BusyPlaced

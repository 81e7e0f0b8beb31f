SPECIFICATION Spec
CONSTANTS
  Event = {"General", "Workload_Wait"}
  None = None
  MaxCycles = 2
  Size = 3
  LastBottom = 1
  Setup <- MCSetup
INVARIANT CounterCleared
CHECK_DEADLOCK FALSE

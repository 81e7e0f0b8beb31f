SPECIFICATION Spec
CONSTANTS
  Event = {"General", "Workload_Wait"}
  None = None
  MaxCycles = 2
  Size = 3
  LastBottom = 1
  Setup <- MCSetup
INVARIANTS TypeOK OneThread FinishedMeansDone
PROPERTIES RefinesTraining Finishes
CHECK_DEADLOCK FALSE

SPECIFICATION Spec
CONSTANTS
  HadConf = TRUE
  NTests = 3
  MaxRuns = 3
  Faults <- MostFaults
  InterruptAt <- NotCleaning
  KillAt <- HasNothing
INVARIANT NothingLeft
PROPERTY KeepsConf
CHECK_DEADLOCK FALSE

SPECIFICATION Spec
CONSTANTS
  HadConf = TRUE
  NTests = 3
  MaxRuns = 3
  Faults = {"conf-write"}
  InterruptAt = {}
  KillAt = {}
INVARIANT OriginalKept
CHECK_DEADLOCK FALSE

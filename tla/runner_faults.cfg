SPECIFICATION FairSpec
CONSTANTS
  HadConf = TRUE
  NTests = 3
  MaxRuns = 3
  Faults <- AllFaults
  InterruptAt <- Anywhere
  KillAt <- Anywhere
INVARIANT TypeOK
INVARIANT TestsHavePools
INVARIANT PassMeansClean
PROPERTY SparesOthers
PROPERTY KeepsLease
PROPERTY RunEnds
CHECK_DEADLOCK FALSE

SPECIFICATION FairSpec
CONSTANTS
  Timeout = 3
  Faults <- AllFaults
INVARIANT TypeOK
INVARIANT PassMeansMoved
PROPERTY ScriptEnds

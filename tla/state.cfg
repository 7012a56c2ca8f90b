SPECIFICATION FairSpec
CONSTANTS
  MaxCalls = 3
  MaxPolls = 2
  Faults <- AllFaults
INVARIANT TypeOK
INVARIANT Settled
INVARIANT RefusalNoticed
PROPERTY CallsEnd
CHECK_DEADLOCK FALSE

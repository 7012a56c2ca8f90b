SPECIFICATION FairSpec
CONSTANTS
  Kinds <- MCKinds
  MaxPolls = 2
  Burst = 2
  Faults <- AllFaults
INVARIANT TypeOK
INVARIANT PassMeansSeen
INVARIANT NoStrayChild
INVARIANT Unsubscribed
PROPERTY ScriptEnds
CHECK_DEADLOCK FALSE

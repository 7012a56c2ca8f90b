SPECIFICATION Spec
CONSTANTS
  MaxRuns = 3
  Faults <- AllFaults
INVARIANT OriginalKept
INVARIANT Restored
INVARIANT MountServed
INVARIANT TheirsKept
PROPERTY KeepsExports
CHECK_DEADLOCK FALSE

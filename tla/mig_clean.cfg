SPECIFICATION Spec
CONSTANTS
  Timeout = 3
  Faults <- CleaningWorks
INVARIANT ImageRestored
INVARIANT GoneIfPassed
INVARIANT NothingLate
PROPERTY KeepsImage

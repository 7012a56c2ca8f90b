SPECIFICATION Spec
CONSTANTS
  Table <- AllScripts
  Hiding <- HidingScripts
  Leaving <- LeavingScripts
  Grabbing <- GrabbingScripts
  Littering <- LitteringScripts
INVARIANT TypeOK
INVARIANT PassMeansChecked
INVARIANT FailMeansWrong
INVARIANT LeavesOnlyGuests
INVARIANT PassLeavesNothing
PROPERTY SparesOthers
CHECK_DEADLOCK FALSE

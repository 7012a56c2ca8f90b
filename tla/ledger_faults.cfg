SPECIFICATION FairSpec
CONSTANTS
  SuiteNames <- MCSuiteNames
  AdminNames <- MCAdminNames
  Names <- MCNames
  SuiteUuids = {u1, u2, u3}
  Uuids = {u1, u2, u3, a1}
  OptVirt = "Xen"
  Faults <- MostFaults
  CrashAt <- Anywhere
  NoDom = NoDom
  NoUuid = NoUuid
  Blank = Blank
  Zero = Zero
PROPERTY CleanupSparesForeign
PROPERTY CleanupEnds
INVARIANT TypeOK

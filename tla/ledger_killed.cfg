SPECIFICATION Spec
CONSTANTS
  SuiteNames <- MCSuiteNames
  AdminNames <- MCAdminNames
  Names <- MCNames
  SuiteUuids = {u1, u2}
  Uuids = {u1, u2, a1}
  OptVirt = "Xen"
  Faults = {}
  CrashAt = {"sweep"}
  NoDom = NoDom
  NoUuid = NoUuid
  Blank = Blank
  Zero = Zero
INVARIANT CleanStart

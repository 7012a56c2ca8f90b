SPECIFICATION Spec
CONSTANTS
  SuiteNames <- MCSuiteNames
  AdminNames <- MCAdminNames
  Names <- MCNames
  SuiteUuids = {u1, u2, u3}
  Uuids = {u1, u2, u3, a1}
  OptVirt = "KVM"
  Faults = {"ssh-list"}
  CrashAt <- SafePoints
  NoDom = NoDom
  NoUuid = NoUuid
  Blank = Blank
  Zero = Zero

INVARIANT Tracked
PROPERTY KeepsHostClean

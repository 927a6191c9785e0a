SPECIFICATION Spec
CONSTANTS
  VersionSet <- MCVersions
  KeepPrevious = 2
  Limits = {1, 2}
  MaxFiles = 3
  MaxHistory = 1
INVARIANTS TypeOK UpgradePathsClimb SimpleOrderIsSemVer
PROPERTIES CleanupKeepsRollback

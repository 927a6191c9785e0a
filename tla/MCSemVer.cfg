SPECIFICATION Spec
CONSTANTS
  VersionSet <- MCNumbered
  KeepPrevious = 2
  Limits = {1, 2}
  MaxFiles = 3
  MaxHistory = 1
INVARIANTS OrderIsSemVer

\* Liveness of a group deployment, with a handler cut short and without.
SPECIFICATION FairSpec
CONSTANTS
  DeviceIds = {d1, d2}
  FirmwareIds = {f1}
  DeploymentIds = {x1, x2, x3}
  DeviceTypes = {t1}
  Groups = {g1}
  MaxVersion = 1
  RegisterVersions = {0}
  ReportedVersions = {1}
  ReportedStatuses = {}
  Releases = {}
  MaxInterrupts = 1
PROPERTIES GroupDeployCovers

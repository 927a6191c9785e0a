\* Two firmware versions for one device, no heartbeats and no cut handlers.
SPECIFICATION Spec
CONSTANTS
  DeviceIds = {d1}
  FirmwareIds = {f1, f2}
  DeploymentIds = {x1, x2}
  DeviceTypes = {t1}
  Groups = {g1}
  MaxVersion = 2
  RegisterVersions = {0}
  ReportedVersions = {}
  ReportedStatuses = {}
  Releases = {"published"}
  MaxInterrupts = 0
PROPERTIES NoDowngrade

\* Safety and refinement: every handler, images published, one cut handler.
SPECIFICATION Spec
CONSTANTS
  DeviceIds = {d1, d2}
  FirmwareIds = {f1, f2}
  DeploymentIds = {x1, x2}
  DeviceTypes = {t1}
  Groups = {g1}
  MaxVersion = 2
  RegisterVersions = {0}
  ReportedVersions = {3}
  ReportedStatuses = {"updating", "online"}
  Releases = {"published"}
  MaxInterrupts = 1
SYMMETRY Symmetry
INVARIANTS TypeOK ReferencesExist ColumnsTellHistory UpdatingHasDeployment
  MarkLostOnlyToAnother
PROPERTIES VersionIsEarned CompletedOfferSettles FollowsLifecycle

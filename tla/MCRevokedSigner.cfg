\* No certificate but those of the set-up, which may expire.
SPECIFICATION SetUpSpec
CONSTANTS
  LeafTypes = {"signing"}
  Expiring = {"signing"}
  MaxCerts = 3
  MaxFaults = 0
  FirmwareIds = {f1}
  Devices = {d1}
  NoImage = NoImage
  Versions <- MCVersions
  Release <- MCRelease
  StartVersions <- MCStartVersions
PROPERTIES RevokedSignerRejected

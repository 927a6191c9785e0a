SPECIFICATION SetUpSpec
CONSTANTS
  LeafTypes = {"signing"}
  Expiring = {}
  MaxCerts = 4
  MaxFaults = 1
  FirmwareIds = {f1}
  Devices = {d1}
  NoImage = NoImage
  Versions <- MCVersions
  Release <- MCRelease
  StartVersions <- MCStartVersions
VIEW DeviceView
INVARIANTS TypeOK RunsWhatWasSigned RowHasBinary NamedSignerSigned SignedHasSignature
PROPERTIES RefusalsExplained KeepsContract VerifiedStaysVerified

\* A pre-release of the version the device runs.
SPECIFICATION SetUpSpec
CONSTANTS
  LeafTypes = {"signing"}
  Expiring = {}
  MaxCerts = 3
  MaxFaults = 0
  FirmwareIds = {f1}
  Devices = {d1}
  NoImage = NoImage
  Versions <- MCCandidateVersions
  Release <- MCCandidate
  StartVersions <- MCReleased
PROPERTIES NoOlderInstalled

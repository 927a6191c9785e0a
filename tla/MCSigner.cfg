\* One image, no request fails half-way.
SPECIFICATION SetUpCatalogSpec
CONSTANTS
  LeafTypes = {"signing"}
  Expiring = {}
  MaxCerts = 4
  MaxFaults = 0
  FirmwareIds = {f1}
  Versions <- MCReleases
  Release <- MCRelease
INVARIANTS SignerIsTheSigner

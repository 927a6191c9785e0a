SPECIFICATION PkiSpec
CONSTANTS
  LeafTypes = {"device", "signing"}
  Expiring = {"intermediate_ca"}
  MaxCerts = 5
  MaxFaults = 1
INVARIANTS PkiTypeOK ValidChainsUnrevoked OneActiveCa CaParentIsIssuer
  SigningPairMatches ListedChainValidates SigningRootsTrusted

-------------------------- MODULE MCFirmwareCatalog --------------------------
(***************************************************************************)
(* The catalogue from the state the end-to-end test sets up: a root, an    *)
(* intermediate CA and a signing certificate have been issued through the  *)
(* API, which is three steps of CatalogSpec.                               *)
(***************************************************************************)
EXTENDS FirmwareCatalog

V(major, minor, patch, pre) == [core |-> <<major, minor, patch>>, pre |-> pre]
MCRelease == [f \in FirmwareIds |-> V(1, 2, 0, << >>)]
MCReleases == {V(1, 2, 0, << >>)}

Issued(type, issuer, parent) ==
  [type |-> type, issuer |-> issuer, parent |-> parent, row |-> "active"]

CatalogSetUp ==
  /\ certs = <<Issued("root_ca", 1, 0), Issued("intermediate_ca", 1, 1),
               Issued("signing", 2, 2)>>
  /\ expired = {} /\ trusted = {1} /\ denied = {}
  /\ cache = [root |-> 1, intermediate |-> 2]
  /\ disk = [anchor |-> 2, cert |-> 3, key |-> 3]
  /\ faults = 0
  /\ ImagesInit

SetUpCatalogSpec == CatalogSetUp /\ [][CatalogNext]_<<pki, catalog>>
=============================================================================

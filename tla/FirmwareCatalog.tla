--------------------------- MODULE FirmwareCatalog --------------------------
(***************************************************************************)
(* The /api/firmware router (app/routers/firmware.py) over the binary      *)
(* store (app/firmware/storage.py), the firmware table and the signing     *)
(* credentials module Pki keeps on disk, and what the simulated device     *)
(* (device_simulator/secure_boot.py) makes of the result.                  *)
(*                                                                         *)
(* An upload commits the binary and then the row; a signature commits the  *)
(* status and then the signature, and swallows an exception of the second. *)
(* A request body can still be arriving when other requests are served     *)
(* (await file.read()), but nothing is read before that which is used      *)
(* after it, so an upload takes effect in one action.                      *)
(***************************************************************************)
EXTENDS Pki, Signing

CONSTANTS
  FirmwareIds,
  Release       \* the version string each of them is uploaded with

ASSUME CatalogAssumption == Release \in [FirmwareIds -> Versions]

VARIABLES
  images,       \* the firmware table: what of a row the router reads back
  binaries,     \* firmware whose file is in the store
  unfinished    \* history: rows whose last signature was not stored

catalog == <<images, binaries, unfinished>>

Fingerprint == -1      \* signer_cert_id holds a fingerprint, no cert_id
Image ==
  [status : {"none", "draft", "signed", "published", "deprecated"},
   sig : Nat,                     \* the key that made the signature
   signer : Nat \cup {Fingerprint}]

HasRow(f) == images[f].status # "none"

CatalogTypeOK ==
  /\ PkiTypeOK
  /\ images \in [FirmwareIds -> Image]
  /\ \A f \in FirmwareIds :
       /\ images[f].sig \in 0 .. Len(certs)
       /\ images[f].signer \in -1 .. Len(certs)
       /\ images[f].sig = 0 <=> images[f].signer = 0
  /\ binaries \subseteq FirmwareIds
  /\ unfinished \subseteq {f \in FirmwareIds : HasRow(f)}

ImagesInit ==
  /\ images = [f \in FirmwareIds |-> [status |-> "none", sig |-> 0, signer |-> 0]]
  /\ binaries = {} /\ unfinished = {}
CatalogInit == PkiInit /\ ImagesInit

-----------------------------------------------------------------------------
\* Altered: the row is committed before the binary.
Upload_RowFirst(f) ==
  /\ f \notin binaries /\ ~HasRow(f)
  /\ \E stored \in BOOLEAN :
       /\ binaries' = IF stored THEN binaries \cup {f} ELSE binaries
       /\ images' = [images EXCEPT ![f].status = "draft"]
       /\ Raises(~stored)
  /\ UNCHANGED <<certs, expired, cache, trusted, denied, disk, unfinished>>

\* upload_firmware, under a fresh identifier: the binary, then a draft row.
Upload(f) ==
  /\ f \notin binaries /\ ~HasRow(f)
  /\ binaries' = binaries \cup {f}
  /\ \E saved \in BOOLEAN :
       /\ images' = IF saved THEN [images EXCEPT ![f].status = "draft"] ELSE images
       /\ Raises(~saved)
  /\ UNCHANGED <<certs, expired, cache, trusted, denied, disk, unfinished>>

\* The signer recorded is the newest active signing row, not the file used.
RecordedSigner ==
  IF Active("signing") # {} THEN Newest(Active("signing")) ELSE Fingerprint

\* Altered: the signature is stored where status = "draft", which the first
\* commit has just overwritten.
SignFirmware_DraftOnly(f) ==
  /\ HasRow(f) /\ f \in binaries
  /\ disk.cert # 0 /\ disk.key # 0
  /\ images' = [images EXCEPT ![f].status = "signed"]
  /\ UNCHANGED <<certs, expired, cache, trusted, denied, disk, faults,
                 binaries, unfinished>>

\* Altered: the signer is committed with the status, before the signature.
SignFirmware_SignerFirst(f) ==
  /\ HasRow(f) /\ f \in binaries
  /\ disk.cert # 0 /\ disk.key # 0
  /\ \E stored \in BOOLEAN :
       /\ images' = [images EXCEPT ![f] =
            [status |-> "signed", sig |-> IF stored THEN SignatureBy(disk.key) ELSE @.sig,
             signer |-> RecordedSigner]]
       /\ unfinished' = IF stored THEN unfinished \ {f} ELSE unfinished \cup {f}
       /\ Raises(~stored)
  /\ UNCHANGED <<certs, expired, cache, trusted, denied, disk, binaries>>

\* sign_firmware: whatever its status was, the row becomes "signed".
SignFirmware(f) ==
  /\ HasRow(f) /\ f \in binaries /\ disk.cert # 0
  /\ \E key \in LoadPrivateKey(disk), stored \in BOOLEAN :
       /\ images' = [images EXCEPT ![f] =
            [status |-> "signed", sig |-> IF stored THEN SignatureBy(key) ELSE @.sig,
             signer |-> IF stored THEN RecordedSigner ELSE @.signer]]
       /\ unfinished' = IF stored THEN unfinished \ {f} ELSE unfinished \cup {f}
       /\ Raises(~stored)
  /\ UNCHANGED <<certs, expired, cache, trusted, denied, disk, binaries>>

\* publish_firmware and deprecate_firmware look at no status.
PublishFirmware(f) ==
  /\ HasRow(f)
  /\ images' = [images EXCEPT ![f].status = "published"]
  /\ UNCHANGED <<certs, expired, cache, trusted, denied, disk, faults,
                 binaries, unfinished>>

DeprecateFirmware(f) ==
  /\ HasRow(f)
  /\ images' = [images EXCEPT ![f].status = "deprecated"]
  /\ UNCHANGED <<certs, expired, cache, trusted, denied, disk, faults,
                 binaries, unfinished>>

CatalogNext ==
  \/ \E f \in FirmwareIds :
       \/ Upload(f) \/ SignFirmware(f)
       \/ PublishFirmware(f) \/ DeprecateFirmware(f)
  \/ PkiNext /\ UNCHANGED catalog

CatalogSpec == CatalogInit /\ [][CatalogNext]_<<pki, catalog>>

-----------------------------------------------------------------------------
\* Altered: a published row has no manifest.
ManifestServed_SignedOnly(f) == images[f].status = "signed"
\* get_firmware_manifest answers for these rows.
ManifestServed(f) == images[f].status \in {"signed", "published"}

\* The manifest of get_firmware_manifest.
ServedManifest(f) ==
  GenerateManifest([version |-> Release[f], sig |-> images[f].sig,
                    signer |-> images[f].signer])

\* The certificate get_certificate returns for a signer_cert_id: none for a
\* fingerprint.
ServedCertificate(signer) == IF signer \in SavedIds THEN signer ELSE 0
Issuer(c) == IF c \in Ids THEN certs[c].issuer ELSE 0

\* A device that fetched everything now would accept it.
DeviceVerifies(f) ==
  LET m == ServedManifest(f)
      cert == ServedCertificate(m.fields.signer)
  IN  /\ ManifestServed(f) /\ f \in binaries
      /\ disk.anchor # 0 /\ VerifyManifest(m)
      /\ VerifyFirmware("whole", m, cert, Issuer(cert), disk.anchor)

\* Every row's binary can be downloaded, although an upload may stop between
\* the two stores (upload_firmware, download_firmware).
RowHasBinary == \A f \in FirmwareIds : HasRow(f) => f \in binaries

\* While no signing certificate was revoked and no request failed, the
\* certificate a row names as its signer is the one whose key signed it: the
\* newest row and the files on disk, written apart, agree (sign_firmware).
NamedSignerSigned ==
  (faults = 0 /\ \A c \in Ids : certs[c].type = "signing" => certs[c].row = "active")
    => \A f \in FirmwareIds : images[f].sig # 0 => images[f].signer = images[f].sig

\* A row is shown as signed without a signature only when storing it failed.
SignedHasSignature ==
  \A f \in FirmwareIds :
    images[f].status = "signed" /\ images[f].sig = 0 => f \in unfinished

\* The API shows a certificate as revoked, or its validity is over.
Withdrawn(c) == certs[c].row = "revoked" \/ c \in expired

\* A published image that devices verify stays so until it is deprecated or
\* signed again, its signer is revoked or expires or the intermediate CA file is
\* replaced: no new or other certificate, restart or failed request takes it away.
VerifiedStaysVerified ==
  [][\A f \in FirmwareIds :
       DeviceVerifies(f) /\ ~DeviceVerifies(f)' =>
         \/ images'[f].status = "deprecated"
         \/ images'[f].sig # images[f].sig \/ images'[f].signer # images[f].signer
         \/ Withdrawn(images[f].signer)'
         \/ disk'.anchor # disk.anchor]_<<pki, catalog>>

\* "signer_cert_id: Certificate ID of the key used to sign this firmware"
\* (app/models/firmware.py), whatever happened to certificates before.
SignerIsTheSigner ==
  \A f \in FirmwareIds : images[f].sig # 0 => images[f].signer = images[f].sig
=============================================================================

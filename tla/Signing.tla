-------------------------------- MODULE Signing -------------------------------
(***************************************************************************)
(* Signatures and manifests as the server makes them (app/signing/) and    *)
(* the device checks them (device_simulator/secure_boot.py), as relations  *)
(* between keys, certificates and what was received.  The verifiers of     *)
(* app/signing/ are called by no handler and are not modelled.             *)
(*                                                                         *)
(* A digest determines what it was computed from and a signature verifies  *)
(* under one key only, so a signature of a binary is the number of the key *)
(* that made it (0: none), and the hash of a manifest is the manifest's    *)
(* own fields.  A binary is received whole, cut short, or altered at its   *)
(* full length.  All keys are RSA (generate_rsa_key_pair).                 *)
(***************************************************************************)
EXTENDS Integers

CONSTANT Versions    \* the version strings in use

Bodies == {"whole", "cut", "altered"}

\* What of a manifest a check reads; size and digest are those of the whole
\* binary.  It carries the hash of the fields it was served with.
ManifestFields == [version : Versions, sig : Nat, signer : Int]
Manifest == [fields : ManifestFields, hash : ManifestFields]

\* FirmwareManifest.generate_manifest, and the same in get_firmware_manifest: the
\* fields, and the hash of them put in last.
GenerateManifest(fields) == [fields |-> fields, hash |-> fields]

\* FirmwareSigner.sign_firmware with the key loaded by load_signing_key.
SignatureBy(key) == key

-----------------------------------------------------------------------------
\* SecureBoot.verify_manifest, without the certificate the device put in.
VerifyManifest(m) == m.hash = m.fields

\* SecureBoot._verify_data_signature: a signature of the binary, over what came.
VerifyDataSignature(body, sig, cert) == sig = SignatureBy(cert) /\ body = "whole"

\* Altered: the digest in the manifest is taken for that of what was received,
\* and the signature is verified over it.
VerifyFirmware_ManifestDigest(body, m, cert, issuer, anchor) ==
  /\ body # "cut"
  /\ m.fields.sig # 0 /\ cert # 0
  /\ issuer = anchor
  /\ m.fields.sig = SignatureBy(cert)
\* SecureBoot.verify_firmware: size, digest, a signature and a certificate at
\* all, the certificate signed by the CA file, the signature by its key.
\* Validity and revocation are not asked.
VerifyFirmware(body, m, cert, issuer, anchor) ==
  /\ body # "cut" /\ body = "whole"
  /\ m.fields.sig # 0 /\ cert # 0
  /\ issuer = anchor
  /\ VerifyDataSignature(body, m.fields.sig, cert)
=============================================================================

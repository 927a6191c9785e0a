-------------------------- MODULE FirmwareCatalogProofs -----------------------
(***************************************************************************)
(* Proofs about FirmwareCatalog, for any number of images, certificates    *)
(* and requests that fail half-way.                                        *)
(***************************************************************************)
EXTENDS FirmwareCatalog, PkiProofs

\* Signatures are made with the key of a signing certificate.
SignedBySigningKeys ==
  \A f \in FirmwareIds :
    images[f].sig # 0 => certs[images[f].sig].type = "signing"

\* While no request failed, every certificate has its row and the signing
\* certificate on disk is the newest one.
FilesAreNewest ==
  faults = 0 =>
    /\ \A c \in Ids : Saved(c)
    /\ \A c \in Ids : certs[c].type = "signing" => c <= disk.cert

CatalogInv ==
  /\ PkiInv
  /\ CatalogTypeOK
  /\ SignedBySigningKeys
  /\ FilesAreNewest
  /\ RowHasBinary
  /\ NamedSignerSigned
  /\ SignedHasSignature

\* A handler of this router leaves the authority alone, except that it may fail.
AuthorityKept ==
  /\ UNCHANGED <<certs, expired, cache, trusted, denied, disk>>
  /\ faults' = faults \/ (faults' = faults + 1 /\ faults < MaxFaults)

-----------------------------------------------------------------------------
\* What a signature writes.
Signs(f, key, stored) ==
  /\ HasRow(f) /\ f \in binaries /\ disk.cert # 0
  /\ key = disk.key /\ key # 0
  /\ images' = [images EXCEPT ![f] =
       [status |-> "signed", sig |-> IF stored THEN key ELSE @.sig,
        signer |-> IF stored THEN RecordedSigner ELSE @.signer]]
  /\ unfinished' = IF stored THEN unfinished \ {f} ELSE unfinished \cup {f}
  /\ binaries' = binaries
  /\ stored \/ faults' = faults + 1

\* SignFirmware in that form.
LEMMA Signing ==
  ASSUME NEW f, SignFirmware(f)
  PROVE  \E key, stored : stored \in BOOLEAN /\ Signs(f, key, stored)
BY DEF SignFirmware, LoadPrivateKey, SignatureBy, Raises, Signs

\* Every step is one of these: a handler of the authority, which leaves the
\* catalogue alone, or one of this router's, which leaves the authority alone.
LEMMA CatalogSteps ==
  ASSUME [CatalogNext]_<<pki, catalog>>
  PROVE  \/ [PkiNext]_pki /\ UNCHANGED catalog
         \/ AuthorityKept /\ \E f \in FirmwareIds :
              Upload(f) \/ SignFirmware(f) \/ PublishFirmware(f) \/ DeprecateFirmware(f)
<1>1. ASSUME NEW f \in FirmwareIds,
             Upload(f) \/ SignFirmware(f) \/ PublishFirmware(f) \/ DeprecateFirmware(f)
      PROVE  AuthorityKept
  BY <1>1 DEF Upload, SignFirmware, PublishFirmware, DeprecateFirmware, Raises,
     AuthorityKept
<1> QED
  BY <1>1 DEF CatalogNext

\* The router's own handlers keep what is known of the authority.
LEMMA AuthorityKeeps ==
  ASSUME PkiInv, AuthorityKept
  PROVE  PkiInv' /\ History /\ Ids' = Ids
<1>1. faults' \in 0 .. MaxFaults
  BY PkiAssumption DEF PkiInv, PkiTypeOK, AuthorityKept
<1>2. PkiTypeOK'
  BY <1>1 DEF PkiInv, PkiTypeOK, AuthorityKept, Ids
<1> QED
  BY <1>2 DEF PkiInv, CertRoles, Roles, ActiveRootCached, OneActive,
     ForgottenAreOlder, CaParentIsIssuer, SigningPairMatches, SigningRootsTrusted,
     Active, Saved, SavedIds, Ids, History, AuthorityKept

\* What any step does to what is known of the authority.
LEMMA CatalogHistory ==
  ASSUME PkiInv, [CatalogNext]_<<pki, catalog>>
  PROVE  PkiInv' /\ History
BY CatalogSteps, AuthorityKeeps, PkiStepInv, PkiHistory DEF PkiInv

\* No failure is forgotten.
LEMMA FaultsGrow ==
  ASSUME PkiInv, [CatalogNext]_<<pki, catalog>>
  PROVE  faults' = 0 => faults = 0
<1>1. faults \in Nat
  BY PkiAssumption DEF PkiInv, PkiTypeOK
<1>2. ASSUME [PkiNext]_pki PROVE faults' = 0 => faults = 0
  BY <1>1, <1>2 DEF PkiNext, CreateRootCa, CreateIntermediateCa,
     IssueDeviceCertificate, IssueSigningCertificate, RevokeCertificate, Expire,
     Restart, pki, Raises
<1> QED
  BY <1>1, <1>2, CatalogSteps DEF AuthorityKept

\* A certificate's number is in the table or 0.
LEMMA SignerRange ==
  ASSUME PkiInv
  PROVE  /\ RecordedSigner \in -1 .. Len(certs) /\ RecordedSigner # 0
         /\ RecordedSigner \in Nat \cup {Fingerprint}
         /\ disk.key \in 0 .. Len(certs) /\ Len(certs) \in Nat
<1>1. Len(certs) \in Nat /\ disk.key \in 0 .. Len(certs)
  BY DEF PkiInv, PkiTypeOK
<1>2. Newest(Active("signing")) \in 0 .. Len(certs)
  BY <1>1, ActiveIds, NewestMember DEF Ids
<1>3. Active("signing") # {} => Newest(Active("signing")) \in 1 .. Len(certs)
  BY <1>1, ActiveIds, NewestMember DEF Ids
<1> QED
  BY <1>1, <1>2, <1>3, SMT DEF RecordedSigner, Fingerprint

-----------------------------------------------------------------------------
\* Types of the table, the binaries and the rows left without a signature.
LEMMA CatalogStepTypes ==
  ASSUME CatalogInv, [CatalogNext]_<<pki, catalog>>
  PROVE  CatalogTypeOK'
<1>1. PkiInv /\ PkiInv' /\ PkiTypeOK' /\ History /\ CatalogTypeOK
  BY CatalogHistory DEF CatalogInv, PkiInv
<1>2. CASE UNCHANGED catalog
  <2>1. Len(certs) <= Len(certs') /\ Len(certs) \in Nat /\ Len(certs') \in Nat
    <3>1. Len(certs) \in Nat /\ Len(certs') \in Nat
      BY <1>1 DEF PkiTypeOK, PkiInv
    <3> QED
      BY <1>1, <3>1 DEF History
  <2>2. \A f \in FirmwareIds : images[f].sig \in 0 .. Len(certs')
                               /\ images[f].signer \in -1 .. Len(certs')
    BY <1>1, <2>1 DEF CatalogTypeOK
  <2> QED
    BY <1>1, <1>2, <2>2 DEF CatalogTypeOK, catalog, HasRow
<1>3. ASSUME NEW f \in FirmwareIds, NEW row, images' = [images EXCEPT ![f] = row],
             row \in Image, row.sig \in 0 .. Len(certs), row.signer \in -1 .. Len(certs),
             row.sig = 0 <=> row.signer = 0, row.status # "none",
             binaries' \subseteq FirmwareIds, certs' = certs,
             unfinished' \subseteq unfinished \cup {f}
      PROVE  CatalogTypeOK'
  <2>1. images' \in [FirmwareIds -> Image]
    BY <1>1, <1>3 DEF CatalogTypeOK
  <2>2. \A g \in FirmwareIds : images'[g] = IF g = f THEN row ELSE images[g]
    BY <1>1, <1>3 DEF CatalogTypeOK
  <2>3. \A g \in FirmwareIds : /\ images'[g].sig \in 0 .. Len(certs')
                               /\ images'[g].signer \in -1 .. Len(certs')
                               /\ images'[g].sig = 0 <=> images'[g].signer = 0
    BY <1>1, <1>3, <2>2 DEF CatalogTypeOK
  <2>4. unfinished' \subseteq {g \in FirmwareIds : HasRow(g)'}
    BY <1>1, <1>3, <2>2 DEF CatalogTypeOK, HasRow
  <2> QED
    BY <1>1, <1>3, <2>1, <2>3, <2>4 DEF CatalogTypeOK
<1>4. ASSUME NEW f \in FirmwareIds, NEW s \in {"draft", "published", "deprecated"},
             images' = [images EXCEPT ![f].status = s], unfinished' = unfinished,
             binaries' \subseteq FirmwareIds, certs' = certs
      PROVE  CatalogTypeOK'
  <2> DEFINE row == [images[f] EXCEPT !.status = s]
  <2>1. images[f] \in Image /\ images' = [images EXCEPT ![f] = row]
    BY <1>1, <1>4 DEF CatalogTypeOK
  <2>2. row \in Image /\ row.sig = images[f].sig /\ row.signer = images[f].signer
        /\ row.status = s
    BY <2>1 DEF Image
  <2> HIDE DEF row
  <2> QED
    BY <1>1, <1>3, <1>4, <2>1, <2>2 DEF CatalogTypeOK
<1>5. ASSUME NEW f \in FirmwareIds, AuthorityKept, Upload(f) PROVE CatalogTypeOK'
  <2>1. /\ binaries' = binaries \cup {f} /\ unfinished' = unfinished /\ certs' = certs
        /\ \/ images' = [images EXCEPT ![f].status = "draft"]
           \/ images' = images
    BY <1>5 DEF Upload
  <2>2. CASE images' = images
    BY <1>1, <1>5, <2>1, <2>2 DEF CatalogTypeOK, HasRow
  <2> QED
    BY <1>1, <1>4, <2>1, <2>2 DEF CatalogTypeOK
<1>6. ASSUME NEW f \in FirmwareIds, AuthorityKept, SignFirmware(f) PROVE CatalogTypeOK'
  <2>1. PICK key, stored : stored \in BOOLEAN /\ Signs(f, key, stored)
    BY <1>6, Signing
  <2> DEFINE row == [status |-> "signed", sig |-> IF stored THEN key ELSE images[f].sig,
                     signer |-> IF stored THEN RecordedSigner ELSE images[f].signer]
  <2>2. images' = [images EXCEPT ![f] = row]
    BY <1>1, <2>1 DEF Signs, CatalogTypeOK
  <2>3. /\ images[f] \in Image /\ images[f].sig \in 0 .. Len(certs)
        /\ images[f].signer \in -1 .. Len(certs)
        /\ images[f].sig = 0 <=> images[f].signer = 0
    BY <1>1 DEF CatalogTypeOK
  <2>4. key \in 0 .. Len(certs) /\ key # 0 /\ key \in Nat
    BY <1>1, <2>1, SignerRange, SMT DEF Signs
  <2>5. row.sig \in 0 .. Len(certs) /\ row.signer \in -1 .. Len(certs)
        /\ (row.sig = 0 <=> row.signer = 0)
    BY <1>1, <2>3, <2>4, SignerRange
  <2>6. row \in Image
    BY <1>1, <2>3, <2>4, SignerRange DEF Image
  <2> HIDE DEF row
  <2>7. certs' = certs /\ binaries' \subseteq FirmwareIds
        /\ unfinished' \subseteq unfinished \cup {f}
    BY <1>1, <1>6, <2>1 DEF AuthorityKept, Signs, CatalogTypeOK
  <2>8. row.status # "none"
    BY DEF row
  <2> QED
    BY <1>3, <2>2, <2>5, <2>6, <2>7, <2>8
<1>7. ASSUME NEW f \in FirmwareIds, AuthorityKept, PublishFirmware(f) \/ DeprecateFirmware(f)
      PROVE  CatalogTypeOK'
  BY <1>1, <1>4, <1>7 DEF PublishFirmware, DeprecateFirmware, CatalogTypeOK
<1> QED
  BY <1>2, <1>5, <1>6, <1>7, CatalogSteps

-----------------------------------------------------------------------------
\* What a step never does to an image: a signature is replaced, not removed,
\* and is made with the key on disk.
ImageHistory ==
  /\ binaries \subseteq binaries'
  /\ \A f \in FirmwareIds :
       /\ images[f].sig # 0 => images'[f].sig # 0
       /\ \/ images'[f].sig = images[f].sig /\ images'[f].signer = images[f].signer
          \/ /\ images'[f].sig = disk.key /\ images'[f].signer = RecordedSigner
             /\ disk.key # 0 /\ certs' = certs
       /\ HasRow(f) => HasRow(f)'
       /\ HasRow(f)' => HasRow(f) \/ f \in binaries'

\* Every handler keeps to that.
LEMMA CatalogImages ==
  ASSUME CatalogTypeOK, [CatalogNext]_<<pki, catalog>>
  PROVE  ImageHistory
<1>1. images \in [FirmwareIds -> Image]
  BY DEF CatalogTypeOK
<1>2. CASE UNCHANGED catalog
  BY <1>2 DEF catalog, ImageHistory, HasRow
<1>3. ASSUME NEW f \in FirmwareIds, NEW s \in {"draft", "published", "deprecated"},
             images' = [images EXCEPT ![f].status = s],
             binaries \subseteq binaries', f \in binaries' \/ HasRow(f)
      PROVE  ImageHistory
  BY <1>1, <1>3 DEF ImageHistory, HasRow, Image
<1>4. ASSUME NEW f \in FirmwareIds, Upload(f) PROVE ImageHistory
  <2>1. CASE images' = images
    BY <1>4, <2>1 DEF Upload, ImageHistory, HasRow
  <2> QED
    BY <1>3, <1>4, <2>1 DEF Upload
<1>5. ASSUME NEW f \in FirmwareIds, SignFirmware(f) PROVE ImageHistory
  <2>1. PICK key, stored : stored \in BOOLEAN /\ Signs(f, key, stored)
    BY <1>5, Signing
  <2>2. certs' = certs
    BY <1>5 DEF SignFirmware
  <2> QED
    BY <1>1, <2>1, <2>2 DEF Signs, ImageHistory, HasRow, Image
<1>6. ASSUME NEW f \in FirmwareIds, PublishFirmware(f) \/ DeprecateFirmware(f)
      PROVE  ImageHistory
  BY <1>3, <1>6 DEF PublishFirmware, DeprecateFirmware
<1> QED
  BY <1>2, <1>4, <1>5, <1>6, CatalogSteps

\* A signature stored in a row was made by a signing key, before and after.
LEMMA KeepsSigningKeys ==
  ASSUME CatalogInv, [CatalogNext]_<<pki, catalog>>
  PROVE  SignedBySigningKeys'
<1>1. History /\ ImageHistory /\ PkiInv
  BY CatalogHistory, CatalogImages DEF CatalogInv
<1>2. ASSUME NEW f \in FirmwareIds, images'[f].sig # 0
      PROVE  certs'[images'[f].sig].type = "signing"
  <2>1. CASE images'[f].sig = images[f].sig
    <3>1. images[f].sig \in Ids
      BY <1>2, <2>1, SMT DEF CatalogInv, CatalogTypeOK, Ids
    <3> QED
      BY <1>1, <1>2, <2>1, <3>1 DEF History, CatalogInv, SignedBySigningKeys
  <2>2. CASE images'[f].sig = disk.key /\ certs' = certs
    BY <1>1, <1>2, <2>2 DEF PkiInv, Roles
  <2> QED
    BY <1>1, <2>1, <2>2 DEF ImageHistory
<1> QED
  BY <1>2 DEF SignedBySigningKeys

\* A handler of the authority that did not fail kept its row, and the newest
\* signing certificate is the one whose files it wrote.
LEMMA KeepsFilesNewest ==
  ASSUME CatalogInv, [CatalogNext]_<<pki, catalog>>
  PROVE  FilesAreNewest'
<1>1. PkiInv /\ PkiTypeOK /\ Roles /\ FilesAreNewest /\ History
  BY CatalogHistory DEF CatalogInv, PkiInv
<1> SUFFICES ASSUME faults' = 0
             PROVE  /\ \A c \in Ids' : Saved(c)'
                    /\ \A c \in Ids' : certs'[c].type = "signing" => c <= disk'.cert
  BY DEF FilesAreNewest
<1>2. faults = 0 /\ (\A c \in Ids : Saved(c))
      /\ (\A c \in Ids : certs[c].type = "signing" => c <= disk.cert)
  BY <1>1, FaultsGrow DEF FilesAreNewest
<1>3. \A raised \in BOOLEAN : Raises(raised) => ~raised
  BY <1>2 DEF Raises
<1>4. ASSUME NEW t \in CaTypes \cup LeafTypes, NEW issuer \in 1 .. New,
             NEW parent \in 0 .. Len(certs), NEW saved \in BOOLEAN, saved,
             Record(t, issuer, parent, saved),
             t = "signing" => disk'.cert = New,
             t # "signing" => disk'.cert = disk.cert
      PROVE  /\ \A c \in Ids' : Saved(c)'
             /\ \A c \in Ids' : certs'[c].type = "signing" => c <= disk'.cert
  <2>1. Grown(t, issuer, parent, saved)
    BY <1>1, <1>4, Recorded
  <2>2. \A c \in Ids : c <= New
    BY <2>1, SMT DEF Grown, Ids, New
  <2>3. New <= New
    BY <2>1, SMT DEF Grown
  <2> QED
    BY <1>2, <1>4, <2>1, <2>2, <2>3 DEF Grown, Saved
<1>5. CASE CreateRootCa
  <2>1. PICK saved \in BOOLEAN : Record("root_ca", New, 0, saved) /\ Raises(~saved)
    BY <1>5 DEF CreateRootCa
  <2>2. saved /\ disk' = disk
    BY <1>3, <1>5, <2>1 DEF CreateRootCa, MakeRoot
  <2>3. 0 \in 0 .. Len(certs) /\ "root_ca" \in CaTypes
    BY <1>1, SMT DEF CaTypes, PkiTypeOK
  <2> QED
    BY <1>1, <1>4, <2>1, <2>2, <2>3, Issuers
<1>6. CASE CreateIntermediateCa
  <2>1. PICK saved \in BOOLEAN, cached \in BOOLEAN :
          /\ MakeIntermediate(cached) /\ Raises(~saved)
          /\ Record("intermediate_ca", cache.root, Newest(Active("root_ca")), saved)
    BY <1>6 DEF CreateIntermediateCa
  <2>2. saved /\ disk'.cert = disk.cert /\ cache.root # 0 /\ "intermediate_ca" \in CaTypes
    BY <1>1, <1>3, <2>1 DEF MakeIntermediate, CaTypes, PkiTypeOK
  <2>3. Newest(Active("root_ca")) \in 0 .. Len(certs)
    <3>1. Len(certs) \in Nat
      BY <1>1 DEF PkiTypeOK
    <3> QED
      BY <3>1, ActiveIds, NewestMember DEF Ids
  <2> QED
    BY <1>1, <1>4, <2>1, <2>2, <2>3, Issuers
<1>7. CASE IssueDeviceCertificate
  <2>1. PICK saved \in BOOLEAN :
          Record("device", IssuingCa, ParentOfLeaf, saved) /\ Raises(~saved)
    BY <1>7 DEF IssueDeviceCertificate
  <2>2. saved /\ disk' = disk /\ IssuingCa # 0 /\ "device" \in LeafTypes
    BY <1>3, <1>7, <2>1 DEF IssueDeviceCertificate
  <2> QED
    BY <1>1, <1>4, <2>1, <2>2, Issuers
<1>8. CASE IssueSigningCertificate
  <2>1. PICK saved \in BOOLEAN, keyed \in BOOLEAN :
          /\ MakeSigning(keyed) /\ Raises(~saved)
          /\ Record("signing", IssuingCa, ParentOfLeaf, saved)
    BY <1>8 DEF IssueSigningCertificate
  <2>2. saved /\ disk'.cert = New /\ IssuingCa # 0 /\ "signing" \in LeafTypes
    BY <1>1, <1>3, <1>8, <2>1 DEF IssueSigningCertificate, MakeSigning,
       SavePrivateKey, PkiTypeOK
  <2> QED
    BY <1>1, <1>4, <2>1, <2>2, Issuers
<1>9. ASSUME NEW c, RevokeCertificate(c)
      PROVE  /\ \A e \in Ids' : Saved(e)'
             /\ \A e \in Ids' : certs'[e].type = "signing" => e <= disk'.cert
  <2>1. disk' = disk /\ Ids' = Ids
    BY <1>1, <1>9, Revoked DEF RevokeCertificate
  <2> QED
    BY <1>1, <1>2, <2>1 DEF History
<1>10. ASSUME certs' = certs, disk' = disk
       PROVE  /\ \A e \in Ids' : Saved(e)'
              /\ \A e \in Ids' : certs'[e].type = "signing" => e <= disk'.cert
  BY <1>2, <1>10 DEF Ids, Saved
<1> QED
  BY <1>5, <1>6, <1>7, <1>8, <1>9, <1>10, CatalogSteps DEF PkiNext, Expire, Restart,
     pki, AuthorityKept

\* Without a failure or a revocation the newest active signing row and the key
\* file are of one certificate when an image is signed.
LEMMA KeepsNamedSigner ==
  ASSUME CatalogInv, [CatalogNext]_<<pki, catalog>>
  PROVE  NamedSignerSigned'
<1>1. PkiInv /\ PkiTypeOK /\ Roles /\ SigningPairMatches /\ FilesAreNewest
      /\ History /\ ImageHistory /\ CatalogTypeOK /\ NamedSignerSigned
  BY CatalogHistory, CatalogImages DEF CatalogInv, PkiInv
<1> SUFFICES ASSUME faults' = 0,
                    \A c \in Ids' : certs'[c].type = "signing" => certs'[c].row = "active",
                    NEW f \in FirmwareIds, images'[f].sig # 0
             PROVE  images'[f].signer = images'[f].sig
  BY DEF NamedSignerSigned
<1>2. faults = 0 /\ \A c \in Ids : certs[c].type = "signing" => certs[c].row = "active"
  BY <1>1, FaultsGrow DEF History
<1>3. CASE images'[f].sig = images[f].sig /\ images'[f].signer = images[f].signer
  BY <1>1, <1>2, <1>3 DEF NamedSignerSigned
<1>4. CASE /\ images'[f].sig = disk.key /\ images'[f].signer = RecordedSigner
           /\ disk.key # 0
  <2>1. disk.key \in Ids /\ certs[disk.key].type = "signing" /\ Len(certs) \in Nat
        /\ disk.cert \in 0 .. Len(certs)
    <3>1. disk.key \in 0 .. Len(certs) /\ Len(certs) \in Nat /\ disk.cert \in 0 .. Len(certs)
      BY <1>1 DEF PkiTypeOK
    <3> QED
      BY <1>1, <1>4, <3>1 DEF Roles, Ids
  <2>2. disk.key <= disk.cert
    BY <1>1, <1>2, <2>1 DEF FilesAreNewest
  <2>3. disk.cert # 0 /\ disk.cert \in Ids
    BY <2>1, <2>2, SMT DEF Ids
  <2>4. disk.key = disk.cert
    BY <1>1, <1>2, <2>3 DEF FilesAreNewest, SigningPairMatches
  <2>5. disk.cert \in Active("signing")
    BY <1>2, <2>1, <2>4 DEF Active
  <2>6. \A c \in Active("signing") : c \in Ids /\ c <= disk.cert
    BY <1>1, <1>2 DEF FilesAreNewest, Active
  <2>7. Newest(Active("signing")) = disk.cert
    <3>1. \A c \in Active("signing") :
            (\A e \in Active("signing") : e <= c) => c = disk.cert
      <4> SUFFICES ASSUME NEW c \in Active("signing"), disk.cert <= c
                   PROVE  c = disk.cert
        BY <2>5
      <4>1. c \in Nat /\ disk.cert \in Nat /\ c <= disk.cert
        BY <2>1, <2>6, SMT DEF Ids
      <4> QED
        BY <4>1, SMT
    <3> QED
      BY <2>5, <2>6, <3>1 DEF Newest
  <2> QED
    BY <1>4, <2>4, <2>5, <2>7 DEF RecordedSigner
<1> QED
  BY <1>1, <1>3, <1>4 DEF ImageHistory

\* A row becomes signed in SignFirmware only, which stores the signature or
\* records that it did not.
LEMMA KeepsSignature ==
  ASSUME CatalogInv, [CatalogNext]_<<pki, catalog>>
  PROVE  SignedHasSignature'
<1>1. images \in [FirmwareIds -> Image] /\ SignedHasSignature
  BY DEF CatalogInv, CatalogTypeOK
<1>2. ASSUME UNCHANGED <<images, unfinished>> PROVE SignedHasSignature'
  BY <1>1, <1>2 DEF SignedHasSignature
<1>3. ASSUME NEW f \in FirmwareIds, NEW s \in {"draft", "published", "deprecated"},
             images' = [images EXCEPT ![f].status = s], unfinished' = unfinished
      PROVE  SignedHasSignature'
  BY <1>1, <1>3 DEF SignedHasSignature, Image
<1>4. ASSUME NEW f \in FirmwareIds, SignFirmware(f) PROVE SignedHasSignature'
  <2>1. PICK key, stored : stored \in BOOLEAN /\ Signs(f, key, stored)
    BY <1>4, Signing
  <2> QED
    BY <1>1, <2>1 DEF Signs, SignedHasSignature, Image
<1>5. ASSUME NEW f \in FirmwareIds, Upload(f) PROVE SignedHasSignature'
  BY <1>2, <1>3, <1>5 DEF Upload
<1> QED
  BY <1>2, <1>3, <1>4, <1>5, CatalogSteps DEF PublishFirmware, DeprecateFirmware, catalog

\* Every step keeps the invariant of the catalogue.
LEMMA CatalogStepInv == CatalogInv /\ [CatalogNext]_<<pki, catalog>> => CatalogInv'
<1> SUFFICES ASSUME CatalogInv, [CatalogNext]_<<pki, catalog>> PROVE CatalogInv'
  OBVIOUS
<1>1. PkiInv' /\ ImageHistory
  BY CatalogHistory, CatalogImages DEF CatalogInv
<1>2. RowHasBinary'
  BY <1>1 DEF CatalogInv, RowHasBinary, ImageHistory
<1> QED
  BY <1>1, <1>2, CatalogStepTypes, KeepsSigningKeys, KeepsFilesNewest,
     KeepsNamedSigner, KeepsSignature DEF CatalogInv

\* Nothing has been issued, uploaded or signed at first.
LEMMA CatalogInitInv == CatalogInit => CatalogInv
<1> SUFFICES ASSUME CatalogInit PROVE CatalogInv
  OBVIOUS
<1>1. PkiInv /\ certs = << >> /\ Len(certs) = 0 /\ Ids = {}
  BY PkiInitInv DEF CatalogInit, PkiInit, Ids
<1>2. /\ \A f \in FirmwareIds : images[f] = [status |-> "none", sig |-> 0, signer |-> 0]
      /\ images = [f \in FirmwareIds |-> [status |-> "none", sig |-> 0, signer |-> 0]]
      /\ binaries = {} /\ unfinished = {}
  BY DEF CatalogInit, ImagesInit
<1>3. images \in [FirmwareIds -> Image]
  BY <1>2 DEF Image
<1>4. \A f \in FirmwareIds : ~HasRow(f) /\ images[f].sig = 0 /\ images[f].signer = 0
  BY <1>2 DEF HasRow
<1>5. CatalogTypeOK
  BY <1>1, <1>2, <1>3, <1>4 DEF CatalogTypeOK, PkiInv
<1> QED
  BY <1>1, <1>2, <1>4, <1>5 DEF CatalogInv, SignedBySigningKeys, FilesAreNewest,
     RowHasBinary, NamedSignerSigned, SignedHasSignature, HasRow

\* The invariant holds throughout.
LEMMA CatalogInvariant == CatalogSpec => []CatalogInv
BY CatalogInitInv, CatalogStepInv, PTL DEF CatalogSpec

-----------------------------------------------------------------------------
\* Every row of the catalogue has its binary, wherever an upload stopped.
THEOREM BinariesCorrect == CatalogSpec => []RowHasBinary
<1>1. CatalogInv => RowHasBinary
  BY DEF CatalogInv
<1> QED
  BY <1>1, CatalogInvariant, PTL

\* The row and the key file name the same signer while nothing failed and no
\* signing certificate was revoked.
THEOREM SignersCorrect == CatalogSpec => []NamedSignerSigned
<1>1. CatalogInv => NamedSignerSigned
  BY DEF CatalogInv
<1> QED
  BY <1>1, CatalogInvariant, PTL

\* Only a failed write leaves a signed row without a signature.
THEOREM SignaturesCorrect == CatalogSpec => []SignedHasSignature
<1>1. CatalogInv => SignedHasSignature
  BY DEF CatalogInv
<1> QED
  BY <1>1, CatalogInvariant, PTL

\* What a certificate endpoint answers does not change: certificates stay, with
\* their issuers, whether they are revoked or not.
LEMMA ServedCertificateKept ==
  ASSUME PkiTypeOK, History, NEW signer, ServedCertificate(signer) # 0
  PROVE  /\ signer \in SavedIds /\ ServedCertificate(signer) = signer
         /\ ServedCertificate(signer)' = signer
         /\ Issuer(signer)' = Issuer(signer) /\ Issuer(signer) = certs[signer].issuer
BY DEF ServedCertificate, SavedIds, History, Issuer

\* What devices verify they go on verifying until the row or the CA file changes.
LEMMA VerifiedKept ==
  ASSUME CatalogInv, [CatalogNext]_<<pki, catalog>>, NEW f \in FirmwareIds,
         DeviceVerifies(f), images'[f].status # "deprecated",
         images'[f].sig = images[f].sig, images'[f].signer = images[f].signer,
         disk'.anchor = disk.anchor
  PROVE  DeviceVerifies(f)'
<1>1. PkiTypeOK /\ History /\ ImageHistory /\ images \in [FirmwareIds -> Image]
  BY CatalogHistory, CatalogImages DEF CatalogInv, CatalogTypeOK, PkiInv
<1>2. images'[f].status \in {"signed", "published"}
  <2>1. images[f].status \in {"signed", "published"}
    BY DEF DeviceVerifies, ManifestServed
  <2>2. CASE UNCHANGED catalog
    BY <2>1, <2>2 DEF catalog
  <2>3. ASSUME NEW g \in FirmwareIds, Upload(g) PROVE images'[f].status = images[f].status
    BY <1>1, <2>1, <2>3 DEF Upload, HasRow
  <2>4. ASSUME NEW g \in FirmwareIds, SignFirmware(g)
        PROVE  images'[f].status \in {"signed", images[f].status}
    BY <1>1, <2>4, Signing DEF Signs
  <2>5. ASSUME NEW g \in FirmwareIds, PublishFirmware(g) \/ DeprecateFirmware(g)
        PROVE  images'[f].status \in {"published", images[f].status}
    BY <1>1, <2>5 DEF PublishFirmware, DeprecateFirmware, Image
  <2> QED
    BY <2>1, <2>2, <2>3, <2>4, <2>5, CatalogSteps
<1>3. ServedCertificate(images[f].signer) # 0
  BY DEF DeviceVerifies, VerifyFirmware, ServedManifest, GenerateManifest
<1>4. ServedManifest(f)' = ServedManifest(f) /\ f \in binaries'
  BY <1>1 DEF ServedManifest, GenerateManifest, ImageHistory, DeviceVerifies
<1>5. /\ ServedCertificate(images[f].signer)' = images[f].signer
      /\ ServedCertificate(images[f].signer) = images[f].signer
      /\ Issuer(images[f].signer)' = Issuer(images[f].signer)
  <2>1. \A signer : signer = images[f].signer =>
          /\ ServedCertificate(signer)' = signer /\ ServedCertificate(signer) = signer
          /\ Issuer(signer)' = Issuer(signer)
    BY <1>1, <1>3, ServedCertificateKept
  <2> QED
    BY <2>1 DEF ServedCertificate, Issuer
<1> QED
  BY <1>2, <1>4, <1>5 DEF DeviceVerifies, ManifestServed, ServedManifest,
     GenerateManifest, VerifyManifest, VerifyFirmware

\* A verified image stays verified until it is deprecated or signed again, its
\* signer is revoked or expires or the CA file is replaced.
THEOREM VerifiedStays == CatalogSpec => VerifiedStaysVerified
<1>1. CatalogInv /\ [CatalogNext]_<<pki, catalog>> =>
        [\A f \in FirmwareIds :
           DeviceVerifies(f) /\ ~DeviceVerifies(f)' =>
             \/ images'[f].status = "deprecated"
             \/ images'[f].sig # images[f].sig \/ images'[f].signer # images[f].signer
             \/ Withdrawn(images[f].signer)'
             \/ disk'.anchor # disk.anchor]_<<pki, catalog>>
  BY VerifiedKept
<1> QED
  BY <1>1, CatalogInvariant, PTL DEF CatalogSpec, VerifiedStaysVerified
=============================================================================

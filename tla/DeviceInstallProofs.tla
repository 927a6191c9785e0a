--------------------------- MODULE DeviceInstallProofs ------------------------
(***************************************************************************)
(* Proofs about DeviceInstall: what a session may rely on between its      *)
(* requests, for any number of devices, images and certificates.           *)
(***************************************************************************)
EXTENDS DeviceInstall, FirmwareCatalogProofs, SequenceTheorems

Fetched == {"signer", "binary", "verify", "install"}

\* The manifest of a session describes its image, as it was signed when served.
ManifestHonest(d) ==
  LET s == session[d]
  IN  s.at \in Fetched =>
        /\ s.manifest.hash.version = Release[s.firmware]
        /\ s.manifest.fields.sig = s.manifest.hash.sig
        /\ s.manifest.fields.signer = s.manifest.hash.signer
        /\ s.manifest.fields.sig # 0 =>
             images[s.firmware].sig # 0 /\ IsSigningKey(s.manifest.fields.sig)
        /\ s.cert \in SavedIds \cup {0}

\* What was verifiable when the manifest was served is what the session fetches.
SoundFetched(d) ==
  LET s == session[d]
  IN  s.sound # 0 /\ s.at \in {"signer", "binary", "verify"} =>
        /\ s.manifest.hash.sig = s.manifest.hash.signer
        /\ s.manifest.hash.signer \in SavedIds
        /\ certs[s.manifest.hash.signer].issuer = s.sound
        /\ s.at # "signer" => s.cert \in {0, s.manifest.hash.signer}

\* What is about to be installed has passed every check.
AcceptedSound(d) ==
  LET s == session[d]
  IN  s.at = "install" =>
        /\ s.manifest.fields = s.manifest.hash /\ s.body = "whole"
        /\ s.manifest.fields.sig # 0 /\ Saved(s.manifest.fields.sig)
        /\ certs[Issuer(s.manifest.fields.sig)].type = "intermediate_ca"
        /\ ~IsOlderVersion(Release[s.firmware], current[d])

\* RunsWhatWasSigned of one device.
RunsSigned(d) ==
  LET f == running[d].firmware  k == running[d].key
  IN  IF f = NoImage THEN current[d] \in StartVersions
      ELSE /\ current[d] = Release[f] /\ images[f].sig # 0
           /\ running[d].body = "whole"
           /\ IsSigningKey(k) /\ Saved(k)
           /\ certs[Issuer(k)].type = "intermediate_ca"

DeviceInv(d) ==
  ManifestHonest(d) /\ SoundFetched(d) /\ AcceptedSound(d) /\ RunsSigned(d)

\* The type invariant of the device's own variables.
DeviceTypeOK ==
  /\ session \in [Devices -> Session]
  /\ current \in [Devices -> Versions]
  /\ running \in [Devices -> Running]
  /\ \A d \in Devices :
       session[d].at \in Fetched =>
         session[d].firmware # NoImage /\ session[d].manifest # NoImage

IInv ==
  /\ CatalogInv
  /\ DeviceTypeOK
  /\ \A d \in Devices : DeviceInv(d)

-----------------------------------------------------------------------------
\* A step of the device leaves the server alone, and conversely.
LEMMA Steps ==
  ASSUME [Next]_vars
  PROVE  \/ [CatalogNext]_<<pki, catalog>> /\ UNCHANGED device
         \/ UNCHANGED <<pki, catalog>> /\ \E d \in Devices :
              NoManifest(d) \/ Continue(d) \/ StartAnew(d)
              \/ \E f \in FirmwareIds : FetchManifest(d, f)
BY DEF Next, vars, Continue, NoManifest, FetchSigner, FetchBinary, RequestFails,
   Verify, Install, ReportStatus, StartAnew, FetchManifest

\* The server's side of the invariant, and what a step cannot take back.
LEMMA ServerStep ==
  ASSUME CatalogInv, [Next]_vars
  PROVE  CatalogInv' /\ History /\ ImageHistory
<1>1. [CatalogNext]_<<pki, catalog>>
  BY Steps
<1> QED
  BY <1>1, CatalogStepInv, CatalogHistory, CatalogImages DEF CatalogInv

\* A device's step writes its own session and nothing of another device.
LEMMA OwnSession ==
  ASSUME DeviceTypeOK, NEW d \in Devices,
         \/ NoManifest(d) \/ Continue(d) \/ StartAnew(d)
         \/ \E f \in FirmwareIds : FetchManifest(d, f)
  PROVE  \A e \in Devices : e # d =>
           /\ session'[e] = session[e] /\ current'[e] = current[e]
           /\ running'[e] = running[e]
BY DEF DeviceTypeOK, NoManifest, Continue, FetchSigner, FetchBinary, RequestFails,
   Verify, Install, ReportStatus, StartAnew, FetchManifest, Ends, Installs

\* Certificates stay, with their types and issuers.
LEMMA CertificatesStay ==
  ASSUME PkiTypeOK, History
  PROVE  /\ SavedIds \subseteq SavedIds'
         /\ \A k : IsSigningKey(k) => IsSigningKey(k)'
         /\ \A k \in Ids : /\ certs'[k].issuer = certs[k].issuer
                           /\ Saved(k)' <=> Saved(k)
                           /\ Issuer(k)' = Issuer(k) /\ Issuer(k) \in Ids
                           /\ certs'[Issuer(k)].type = certs[Issuer(k)].type
<1>1. \A k \in Ids : certs[k].issuer \in Ids
  BY SMT DEF PkiTypeOK, Ids
<1>2. ASSUME NEW k, IsSigningKey(k) PROVE IsSigningKey(k)'
  BY <1>2 DEF IsSigningKey, History
<1>3. ASSUME NEW k \in Ids
      PROVE  /\ Issuer(k)' = Issuer(k) /\ Issuer(k) \in Ids
             /\ certs'[Issuer(k)].type = certs[Issuer(k)].type
  BY <1>1 DEF Issuer, History
<1>4. SavedIds \subseteq SavedIds'
  BY DEF SavedIds, History
<1> QED
  BY <1>2, <1>3, <1>4 DEF History

\* Whatever the server does, a device that does nothing keeps its invariant.
LEMMA OthersKeep ==
  ASSUME IInv, CatalogInv', History, ImageHistory, NEW d \in Devices,
         session'[d] = session[d], current'[d] = current[d], running'[d] = running[d]
  PROVE  DeviceInv(d)'
<1>1. PkiTypeOK /\ images \in [FirmwareIds -> Image] /\ DeviceInv(d)
  BY DEF IInv, CatalogInv, CatalogTypeOK
<1>2. session[d] \in Session /\ running[d] \in Running
      /\ (session[d].at \in Fetched => session[d].firmware \in FirmwareIds)
  <2>1. session[d] \in Session
        /\ running[d] \in Running
    BY DEF IInv, DeviceTypeOK
  <2> QED
    BY <2>1 DEF IInv, DeviceTypeOK, Session
<1>3. \A f \in FirmwareIds : images[f].sig # 0 => images'[f].sig # 0
  BY DEF ImageHistory
<1>4. ManifestHonest(d)'
  BY <1>1, <1>2, <1>3, CertificatesStay DEF DeviceInv, ManifestHonest
<1>5. SoundFetched(d)'
  BY <1>1, CertificatesStay DEF DeviceInv, SoundFetched, SavedIds
<1>6. AcceptedSound(d)'
  <2> SUFFICES ASSUME session[d].at = "install" PROVE AcceptedSound(d)'
    BY DEF AcceptedSound
  <2>1. \A k : k = session[d].manifest.fields.sig => k \in Ids
    BY <1>1 DEF DeviceInv, ManifestHonest, AcceptedSound, Fetched, IsSigningKey
  <2>2. \A k : k = session[d].manifest.fields.sig =>
          Saved(k)' /\ certs'[Issuer(k)'].type = "intermediate_ca"
    BY <1>1, <2>1, CertificatesStay DEF DeviceInv, AcceptedSound
  <2> QED
    BY <1>1, <2>2 DEF DeviceInv, AcceptedSound, Saved, Issuer
<1>7. RunsSigned(d)'
  <2> DEFINE f == running[d].firmware
  <2>1. CASE f = NoImage
    BY <1>1, <2>1 DEF DeviceInv, RunsSigned
  <2>2. CASE f # NoImage
    <3>1. \A k : k = running[d].key => IsSigningKey(k) /\ k \in Ids /\ Saved(k)
                   /\ certs[Issuer(k)].type = "intermediate_ca"
      BY <1>1, <2>2 DEF DeviceInv, RunsSigned, IsSigningKey
    <3>2. \A k : k = running[d].key => IsSigningKey(k)' /\ Saved(k)'
                   /\ certs'[Issuer(k)'].type = "intermediate_ca"
      BY <1>1, <3>1, CertificatesStay
    <3>3. current[d] = Release[f] /\ images'[f].sig # 0 /\ running[d].body = "whole"
      BY <1>1, <1>2, <1>3, <2>2 DEF DeviceInv, RunsSigned, Running
    <3> QED
      BY <2>2, <3>2, <3>3 DEF RunsSigned, IsSigningKey, Saved, Issuer
  <2> QED
    BY <2>1, <2>2
<1> QED
  BY <1>4, <1>5, <1>6, <1>7 DEF DeviceInv

-----------------------------------------------------------------------------
\* The manifest that is served, and what may arrive of it.
LEMMA ManifestTypes ==
  ASSUME CatalogInv, NEW f \in FirmwareIds, NEW m \in Received(ServedManifest(f))
  PROVE  /\ m \in Manifest /\ m # NoImage
         /\ m.hash = [version |-> Release[f], sig |-> images[f].sig,
                      signer |-> images[f].signer]
         /\ m.fields.sig = images[f].sig /\ m.fields.signer = images[f].signer
<1> DEFINE h == [version |-> Release[f], sig |-> images[f].sig, signer |-> images[f].signer]
<1>1. h \in ManifestFields
  <2>1. images[f] \in Image /\ Release[f] \in Versions
    BY CatalogAssumption DEF CatalogInv, CatalogTypeOK
  <2>2. images[f].signer \in Int
    BY <2>1, SMT DEF Image, Fingerprint
  <2> QED
    BY <2>1, <2>2 DEF ManifestFields, Image
<1>2. ServedManifest(f) = [fields |-> h, hash |-> h]
  BY DEF ServedManifest, GenerateManifest
<1> HIDE DEF h
<1>3. CASE m = ServedManifest(f)
  BY <1>1, <1>2, <1>3, DeviceAssumption DEF Manifest, h
<1>4. CASE \E v \in Versions : m = [ServedManifest(f) EXCEPT !.fields.version = v]
  <2>1. PICK v \in Versions : m = [ServedManifest(f) EXCEPT !.fields.version = v]
    BY <1>4
  <2>2. m.hash = h /\ m.fields = [h EXCEPT !.version = v]
        /\ m = [fields |-> m.fields, hash |-> m.hash]
    BY <1>2, <2>1
  <2>3. m.fields \in ManifestFields /\ m.fields.sig = h.sig /\ m.fields.signer = h.signer
    BY <1>1, <2>2 DEF ManifestFields
  <2>4. m \in Manifest
    BY <1>1, <2>2, <2>3 DEF Manifest
  <2> QED
    BY <2>2, <2>3, <2>4, DeviceAssumption DEF h
<1> QED
  BY <1>3, <1>4 DEF Received

\* A certificate the server answers with.
LEMMA ServedTypes ==
  ASSUME CatalogInv, NEW signer
  PROVE  ServedCertificate(signer) \in SavedIds \cup {0} /\ ServedCertificate(signer) \in Nat
<1>1. Len(certs) \in Nat
  BY DEF CatalogInv, PkiInv, PkiTypeOK
<1>2. SavedIds \subseteq Nat
  BY <1>1, SMT DEF SavedIds, Ids
<1> QED
  BY <1>2 DEF ServedCertificate

\* A device's step keeps the types of its variables.
LEMMA DeviceStepTypes ==
  ASSUME CatalogInv, DeviceTypeOK, NEW d \in Devices,
         \/ NoManifest(d) \/ Continue(d) \/ StartAnew(d)
         \/ \E f \in FirmwareIds : FetchManifest(d, f)
  PROVE  DeviceTypeOK'
<1>1. /\ session \in [Devices -> Session] /\ current \in [Devices -> Versions]
      /\ running \in [Devices -> Running]
      /\ \A e \in Devices : session[e].at \in Fetched =>
           session[e].firmware # NoImage /\ session[e].manifest # NoImage
  BY DEF DeviceTypeOK
<1>2. session[d] \in Session
  BY <1>1
<1>3. /\ \A a \in {"idle", "report"} :
           [Idle EXCEPT !.at = a] \in Session /\ [Idle EXCEPT !.at = a].at = a
      /\ Idle \in Session /\ Idle.at = "idle"
  BY DEF Idle, Session, Bodies
<1>4. ASSUME NEW s \in Session, session' = [session EXCEPT ![d] = s],
             s.at \in Fetched => s.firmware # NoImage /\ s.manifest # NoImage,
             current' \in [Devices -> Versions],
             running' \in [Devices -> Running]
      PROVE  DeviceTypeOK'
  BY <1>1, <1>4 DEF DeviceTypeOK
<1>5. ASSUME Ends(d), UNCHANGED <<current, running>> PROVE DeviceTypeOK'
  BY <1>1, <1>3, <1>4, <1>5 DEF Ends, Fetched
<1>6. CASE NoManifest(d) \/ RequestFails(d)
  BY <1>5, <1>6 DEF NoManifest, RequestFails
<1>7. ASSUME NEW f \in FirmwareIds, FetchManifest(d, f) PROVE DeviceTypeOK'
  <2>1. PICK m \in Received(ServedManifest(f)) :
          session' = [session EXCEPT ![d] =
            [Idle EXCEPT !.at = IF m.fields.signer # 0 THEN "signer" ELSE "binary",
                         !.firmware = f, !.manifest = m,
                         !.sound = IF DeviceVerifies(f) THEN disk.anchor ELSE 0]]
    BY <1>7 DEF FetchManifest
  <2> DEFINE a == IF m.fields.signer # 0 THEN "signer" ELSE "binary"
             n == IF DeviceVerifies(f) THEN disk.anchor ELSE 0
             s == [Idle EXCEPT !.at = a, !.firmware = f, !.manifest = m, !.sound = n]
  <2>2. m \in Manifest /\ m # NoImage
    BY ManifestTypes
  <2>3. n \in Nat /\ a \in {"signer", "binary"}
    BY SMT DEF CatalogInv, PkiInv, PkiTypeOK
  <2>4. session' = [session EXCEPT ![d] = s]
    BY <2>1
  <2> HIDE DEF a, n
  <2>5. s \in Session
    BY <2>2, <2>3 DEF Idle, Session, Bodies
  <2>6. s.firmware # NoImage /\ s.manifest # NoImage
    BY <2>2, DeviceAssumption DEF Idle
  <2> HIDE DEF s
  <2>7. current' = current /\ running' = running
    BY <1>7 DEF FetchManifest
  <2> QED
    BY <1>1, <1>4, <2>4, <2>5, <2>6, <2>7
<1>8. CASE FetchSigner(d)
  <2>0. PICK c \in {0, ServedCertificate(session[d].manifest.fields.signer)} :
          session' = [session EXCEPT ![d].at = "binary", ![d].cert = c]
    BY <1>8 DEF FetchSigner
  <2> DEFINE s == [session[d] EXCEPT !.at = "binary", !.cert = c]
  <2>1. session' = [session EXCEPT ![d] = s] /\ session[d].at = "signer"
    BY <1>1, <1>8, <2>0 DEF FetchSigner
  <2>2. c \in Nat
    BY ServedTypes
  <2>3. s \in Session /\ s.firmware # NoImage /\ s.manifest # NoImage
    BY <1>1, <1>2, <2>1, <2>2 DEF Session, Fetched
  <2> HIDE DEF s
  <2> QED
    BY <1>1, <1>4, <1>8, <2>1, <2>3 DEF FetchSigner
<1>9. CASE FetchBinary(d)
  <2>1. PICK body \in Bodies :
          session' = [session EXCEPT ![d].at = "verify", ![d].body = body]
    BY <1>9 DEF FetchBinary
  <2> DEFINE s == [session[d] EXCEPT !.at = "verify", !.body = body]
  <2>2. session' = [session EXCEPT ![d] = s] /\ session[d].at = "binary"
    BY <1>1, <1>9, <2>1 DEF FetchBinary
  <2>3. s \in Session /\ s.firmware # NoImage /\ s.manifest # NoImage
    BY <1>1, <1>2, <2>2 DEF Session, Fetched
  <2> HIDE DEF s
  <2> QED
    BY <1>1, <1>4, <1>9, <2>2, <2>3 DEF FetchBinary
<1>10. CASE Verify(d)
  <2>1. CASE Ends(d)
    BY <1>5, <1>10, <2>1 DEF Verify
  <2>2. CASE Installs(d)
    <3> DEFINE s == [Idle EXCEPT !.at = "install", !.firmware = session[d].firmware,
                                 !.manifest = session[d].manifest,
                                 !.body = session[d].body]
    <3>1. session' = [session EXCEPT ![d] = s] /\ session[d].at = "verify"
      BY <1>10, <2>2 DEF Installs, Verify
    <3>2. s \in Session /\ s.firmware # NoImage /\ s.manifest # NoImage
      BY <1>1, <1>2, <3>1 DEF Session, Idle, Bodies, Fetched
    <3> HIDE DEF s
    <3> QED
      BY <1>1, <1>4, <1>10, <3>1, <3>2 DEF Verify
  <2> QED
    BY <1>10, <2>1, <2>2 DEF Verify
<1>11. CASE Install(d)
  <2>1. /\ session[d].at = "install" /\ Ends(d)
        /\ current' = [current EXCEPT ![d] = session[d].manifest.fields.version]
        /\ running' = [running EXCEPT ![d] =
             [firmware |-> session[d].firmware, key |-> session[d].manifest.fields.sig,
              body |-> session[d].body]]
    BY <1>11 DEF Install
  <2>2. /\ session[d].manifest \in Manifest /\ session[d].firmware \in FirmwareIds
        /\ session[d].body \in Bodies
    BY <1>1, <1>2, <2>1 DEF Session, Fetched
  <2>3. session[d].manifest.fields.version \in Versions
        /\ session[d].manifest.fields.sig \in Nat
    BY <2>2 DEF Manifest, ManifestFields
  <2>4. current' \in [Devices -> Versions]
    BY <1>1, <2>1, <2>3
  <2>5. running' \in [Devices -> Running]
    BY <1>1, <2>1, <2>2, <2>3 DEF Running
  <2> QED
    BY <1>3, <1>4, <2>1, <2>4, <2>5 DEF Ends, Fetched
<1>12. CASE ReportStatus(d)
  BY <1>1, <1>3, <1>4, <1>12 DEF ReportStatus, Fetched
<1>13. CASE StartAnew(d)
  <2>1. current' \in [Devices -> Versions]
    BY <1>1, <1>13, DeviceAssumption DEF StartAnew
  <2>2. running' \in [Devices -> Running]
    BY <1>1, <1>13 DEF StartAnew, FirstImage, Running, Bodies
  <2> QED
    BY <1>3, <1>4, <1>13, <2>1, <2>2 DEF StartAnew, Fetched
<1> QED
  BY <1>6, <1>7, <1>8, <1>9, <1>10, <1>11, <1>12, <1>13 DEF Continue

-----------------------------------------------------------------------------
\* While the server stands still, so does everything said of it.
ServerStill ==
  UNCHANGED <<certs, expired, cache, trusted, denied, disk, faults,
              images, binaries, unfinished>>

\* What RunsSigned says of the server does not change with the device.
LEMMA RunningKept ==
  ASSUME ServerStill, NEW d, RunsSigned(d),
         running'[d] = running[d], current'[d] = current[d]
  PROVE  RunsSigned(d)'
BY DEF ServerStill, RunsSigned, IsSigningKey, Saved, Issuer, Ids

\* A session that is over, or not begun, promises nothing but what runs.
LEMMA OutOfSession ==
  ASSUME NEW d, session'[d].at \in {"idle", "report"}, RunsSigned(d)'
  PROVE  DeviceInv(d)'
BY DEF DeviceInv, ManifestHonest, SoundFetched, AcceptedSound, Fetched

\* A verified image names the key that signed it, certified by the CA file.
LEMMA VerifiedMeans ==
  ASSUME CatalogInv, NEW f \in FirmwareIds, DeviceVerifies(f)
  PROVE  /\ images[f].sig = images[f].signer /\ images[f].signer \in SavedIds
         /\ images[f].sig # 0 /\ certs[images[f].signer].issuer = disk.anchor
<1>1. /\ ServedCertificate(images[f].signer) # 0
      /\ images[f].sig # 0
      /\ Issuer(ServedCertificate(images[f].signer)) = disk.anchor
      /\ images[f].sig = ServedCertificate(images[f].signer)
  BY DEF DeviceVerifies, VerifyFirmware, VerifyDataSignature, SignatureBy, ServedManifest,
     GenerateManifest
<1>2. /\ images[f].signer \in SavedIds
      /\ ServedCertificate(images[f].signer) = images[f].signer
  BY <1>1 DEF ServedCertificate
<1> QED
  BY <1>1, <1>2 DEF Issuer, SavedIds

\* Fetching a manifest begins a session that is honest and, if the image was
\* verifiable, sound.
LEMMA FetchManifestKeeps ==
  ASSUME IInv, DeviceTypeOK', NEW d \in Devices, NEW f \in FirmwareIds,
         FetchManifest(d, f)
  PROVE  DeviceInv(d)'
<1>1. CatalogInv /\ CatalogTypeOK /\ DeviceTypeOK /\ DeviceInv(d)
  BY DEF IInv, CatalogInv
<1>2. PICK m \in Received(ServedManifest(f)) :
        session' = [session EXCEPT ![d] =
          [Idle EXCEPT !.at = IF m.fields.signer # 0 THEN "signer" ELSE "binary",
                       !.firmware = f, !.manifest = m,
                       !.sound = IF DeviceVerifies(f) THEN disk.anchor ELSE 0]]
  BY DEF FetchManifest
<1>3. /\ session'[d].at = (IF m.fields.signer # 0 THEN "signer" ELSE "binary")
      /\ session'[d].firmware = f /\ session'[d].manifest = m /\ session'[d].cert = 0
      /\ session'[d].sound = (IF DeviceVerifies(f) THEN disk.anchor ELSE 0)
  BY <1>1, <1>2 DEF DeviceTypeOK, Idle
<1>4. ServerStill /\ UNCHANGED <<current, running>>
  BY DEF FetchManifest, pki, catalog, ServerStill
<1>5. /\ m.hash = [version |-> Release[f], sig |-> images[f].sig,
                   signer |-> images[f].signer]
      /\ m.fields.sig = images[f].sig /\ m.fields.signer = images[f].signer
  BY <1>1, ManifestTypes
<1>6. ManifestHonest(d)'
  <2>1. images[f].sig # 0 => IsSigningKey(images[f].sig)
    <3>1. images[f].sig \in 0 .. Len(certs) /\ Len(certs) \in Nat
      BY <1>1 DEF CatalogTypeOK, PkiTypeOK
    <3>2. images[f].sig # 0 => images[f].sig \in Ids
      BY <3>1, SMT DEF Ids
    <3> QED
      BY <1>1, <3>2 DEF CatalogInv, SignedBySigningKeys, IsSigningKey
  <2> QED
    BY <1>3, <1>4, <1>5, <2>1 DEF ManifestHonest, ServerStill, IsSigningKey, Ids
<1>7. SoundFetched(d)'
  <2> SUFFICES ASSUME DeviceVerifies(f), session'[d].sound = disk.anchor
               PROVE  SoundFetched(d)'
    BY <1>3 DEF SoundFetched
  <2>1. /\ images[f].sig = images[f].signer /\ images[f].signer \in SavedIds
        /\ images[f].sig # 0 /\ certs[images[f].signer].issuer = disk.anchor
    BY <1>1, VerifiedMeans
  <2>2. session'[d].at = "signer"
    BY <1>3, <1>5, <2>1
  <2> QED
    BY <1>3, <1>4, <1>5, <2>1, <2>2 DEF SoundFetched, ServerStill, SavedIds, Saved, Ids
<1>8. AcceptedSound(d)'
  BY <1>3 DEF AcceptedSound
<1>9. RunsSigned(d)'
  BY <1>1, <1>4, RunningKept DEF DeviceInv
<1> QED
  BY <1>6, <1>7, <1>8, <1>9 DEF DeviceInv

\* The certificate fetched is the one the manifest in hand names.
LEMMA FetchSignerKeeps ==
  ASSUME IInv, NEW d \in Devices, FetchSigner(d)
  PROVE  DeviceInv(d)'
<1>1. CatalogInv /\ DeviceTypeOK /\ DeviceInv(d) /\ session[d].at = "signer"
  BY DEF IInv, FetchSigner
<1>0. PICK c \in {0, ServedCertificate(session[d].manifest.fields.signer)} :
        session' = [session EXCEPT ![d].at = "binary", ![d].cert = c]
  BY DEF FetchSigner
<1>2. /\ session'[d].at = "binary" /\ session'[d].cert = c
      /\ session'[d].firmware = session[d].firmware
      /\ session'[d].manifest = session[d].manifest
      /\ session'[d].sound = session[d].sound
  BY <1>0, <1>1 DEF DeviceTypeOK, Session
<1>3. ServerStill /\ UNCHANGED <<current, running>>
  BY DEF FetchSigner, pki, catalog, ServerStill
<1>4. c \in SavedIds \cup {0}
  BY <1>1, ServedTypes
<1>5. ManifestHonest(d)'
  BY <1>1, <1>2, <1>3, <1>4 DEF DeviceInv, ManifestHonest, Fetched, ServerStill,
     IsSigningKey, SavedIds, Saved, Ids
<1>6. SoundFetched(d)'
  <2>1. session[d].manifest.hash.signer \in SavedIds =>
          c \in {0, session[d].manifest.hash.signer}
    BY <1>1 DEF DeviceInv, ManifestHonest, Fetched, ServedCertificate
  <2> QED
    BY <1>1, <1>2, <1>3, <2>1 DEF DeviceInv, SoundFetched, ServerStill, SavedIds, Saved, Ids
<1>7. AcceptedSound(d)'
  BY <1>2 DEF AcceptedSound
<1>8. RunsSigned(d)'
  BY <1>1, <1>3, RunningKept DEF DeviceInv
<1> QED
  BY <1>5, <1>6, <1>7, <1>8 DEF DeviceInv

\* The binary changes nothing the session knew.
LEMMA FetchBinaryKeeps ==
  ASSUME IInv, NEW d \in Devices, FetchBinary(d)
  PROVE  DeviceInv(d)'
<1>1. DeviceTypeOK /\ DeviceInv(d) /\ session[d].at = "binary"
  BY DEF IInv, FetchBinary
<1>2. /\ session'[d].at = "verify" /\ session'[d].cert = session[d].cert
      /\ session'[d].firmware = session[d].firmware
      /\ session'[d].manifest = session[d].manifest
      /\ session'[d].sound = session[d].sound
  BY <1>1 DEF FetchBinary, DeviceTypeOK, Session
<1>3. ServerStill /\ UNCHANGED <<current, running>>
  BY DEF FetchBinary, pki, catalog, ServerStill
<1>4. ManifestHonest(d)' /\ SoundFetched(d)'
  BY <1>1, <1>2, <1>3 DEF DeviceInv, ManifestHonest, SoundFetched, Fetched, ServerStill,
     IsSigningKey, SavedIds, Saved, Ids
<1>5. AcceptedSound(d)'
  BY <1>2 DEF AcceptedSound
<1>6. RunsSigned(d)'
  BY <1>1, <1>3, RunningKept DEF DeviceInv
<1> QED
  BY <1>4, <1>5, <1>6 DEF DeviceInv

\* What is accepted was signed by the certified key it names, and the CA file
\* holds an intermediate CA.
LEMMA VerifyKeeps ==
  ASSUME IInv, NEW d \in Devices, Verify(d)
  PROVE  DeviceInv(d)'
<1>1. /\ CatalogInv /\ DeviceTypeOK /\ DeviceInv(d) /\ session[d].at = "verify"
      /\ PkiInv /\ Roles
  BY DEF IInv, Verify, CatalogInv, PkiInv
<1>2. ServerStill /\ UNCHANGED <<current, running>>
  BY DEF Verify, pki, catalog, ServerStill
<1>3. RunsSigned(d)'
  BY <1>1, <1>2, RunningKept DEF DeviceInv
<1>4. CASE ~Accepts(session[d], current[d])
  <2>1. session'[d].at = "report"
    BY <1>1, <1>4 DEF Verify, Ends, Idle, DeviceTypeOK
  <2> QED
    BY <1>3, <2>1, OutOfSession
<1>5. CASE Accepts(session[d], current[d])
  <2> DEFINE m == session[d].manifest
  <2>1. /\ session'[d].at = "install" /\ session'[d].manifest = m
        /\ session'[d].firmware = session[d].firmware
        /\ session'[d].cert = 0 /\ session'[d].body = session[d].body
    <3>1. session' = [session EXCEPT ![d] =
            [Idle EXCEPT !.at = "install", !.firmware = session[d].firmware,
                         !.manifest = session[d].manifest, !.body = session[d].body]]
      BY <1>5 DEF Verify, Installs
    <3>2. session \in [Devices -> Session]
      BY <1>1 DEF DeviceTypeOK
    <3> QED
      BY <3>1, <3>2 DEF Idle
  <2>2. /\ m.hash = m.fields /\ m.fields.sig # 0 /\ m.fields.sig = session[d].cert
        /\ Issuer(session[d].cert) = disk.anchor /\ disk.anchor # 0
        /\ ~IsOlderVersion(m.fields.version, current[d]) /\ session[d].body = "whole"
    BY <1>5 DEF Accepts, VerifyManifest, VerifyFirmware, VerifyDataSignature, SignatureBy
  <2>3. /\ m.hash.version = Release[session[d].firmware]
        /\ images[session[d].firmware].sig # 0 /\ IsSigningKey(m.fields.sig)
        /\ session[d].cert \in SavedIds
    BY <1>1, <2>2 DEF DeviceInv, ManifestHonest, Fetched
  <2>4. certs[disk.anchor].type = "intermediate_ca"
    BY <1>1, <2>2 DEF Roles
  <2>5. ManifestHonest(d)'
    BY <1>2, <2>1, <2>2, <2>3 DEF ManifestHonest, ServerStill, IsSigningKey, Ids
  <2>6. SoundFetched(d)'
    BY <2>1 DEF SoundFetched
  <2>7. AcceptedSound(d)'
    BY <1>2, <2>1, <2>2, <2>3, <2>4 DEF AcceptedSound, ServerStill, SavedIds, Saved,
       Issuer, Ids
  <2> QED
    BY <1>3, <2>5, <2>6, <2>7 DEF DeviceInv
<1> QED
  BY <1>4, <1>5

\* What is installed is the image under its own version.
LEMMA InstallKeeps ==
  ASSUME IInv, NEW d \in Devices, Install(d)
  PROVE  DeviceInv(d)'
<1>1. DeviceTypeOK /\ DeviceInv(d) /\ session[d].at = "install"
  BY DEF IInv, Install
<1> DEFINE m == session[d].manifest
<1>2. /\ session'[d].at = "report" /\ current'[d] = m.fields.version
      /\ running'[d] = [firmware |-> session[d].firmware, key |-> m.fields.sig,
                        body |-> session[d].body]
  BY <1>1 DEF Install, Ends, Idle, DeviceTypeOK
<1>3. ServerStill
  BY DEF Install, pki, catalog, ServerStill
<1>4. /\ m.fields.version = Release[session[d].firmware]
      /\ images[session[d].firmware].sig # 0
      /\ IsSigningKey(m.fields.sig) /\ Saved(m.fields.sig)
      /\ certs[Issuer(m.fields.sig)].type = "intermediate_ca"
      /\ session[d].firmware # NoImage /\ session[d].body = "whole"
  BY <1>1 DEF DeviceInv, ManifestHonest, AcceptedSound, Fetched, DeviceTypeOK
<1>5. RunsSigned(d)'
  <2>1. PICK k, f : k = m.fields.sig /\ f = session[d].firmware
    BY Zenon
  <2>2. /\ images[f].sig # 0 /\ IsSigningKey(k) /\ Saved(k)
        /\ certs[Issuer(k)].type = "intermediate_ca" /\ f # NoImage
    BY <1>4, <2>1
  <2>3. /\ images'[f].sig # 0 /\ IsSigningKey(k)' /\ Saved(k)'
        /\ certs'[Issuer(k)'].type = "intermediate_ca"
    BY <1>3, <2>2 DEF ServerStill, IsSigningKey, Saved, Issuer, Ids
  <2>4. /\ running'[d].firmware = f /\ running'[d].key = k /\ current'[d] = Release[f]
        /\ running'[d].body = "whole"
    BY <1>2, <1>4, <2>1
  <2> QED
    BY <2>2, <2>3, <2>4 DEF RunsSigned
<1> QED
  BY <1>2, <1>5, OutOfSession

\* Every step of the system keeps the invariant.
LEMMA StepInv == IInv /\ [Next]_vars => IInv'
<1> SUFFICES ASSUME IInv, [Next]_vars PROVE IInv'
  OBVIOUS
<1>1. CatalogInv' /\ History /\ ImageHistory /\ CatalogInv /\ DeviceTypeOK
  BY ServerStep DEF IInv
<1>2. CASE UNCHANGED device
  <2>1. DeviceTypeOK'
    BY <1>1, <1>2 DEF device, DeviceTypeOK
  <2>2. \A d \in Devices : DeviceInv(d)'
    BY <1>1, <1>2, OthersKeep DEF device
  <2> QED
    BY <1>1, <2>1, <2>2 DEF IInv
<1>3. ASSUME NEW d \in Devices,
             \/ NoManifest(d) \/ Continue(d) \/ StartAnew(d)
             \/ \E f \in FirmwareIds : FetchManifest(d, f)
      PROVE  IInv'
  <2>1. DeviceTypeOK'
    BY <1>1, <1>3, DeviceStepTypes
  <2>2. ASSUME NEW e \in Devices, e # d PROVE DeviceInv(e)'
    BY <1>1, <1>3, <2>2, OwnSession, OthersKeep
  <2>3. RunsSigned(d) /\ session \in [Devices -> Session]
    BY <1>1 DEF IInv, DeviceInv, DeviceTypeOK
  <2>4. DeviceInv(d)'
    <3>1. CASE NoManifest(d) \/ RequestFails(d) \/ ReportStatus(d)
      <4>1. ServerStill /\ UNCHANGED <<current, running>>
        BY <3>1 DEF NoManifest, RequestFails, ReportStatus, pki, catalog, ServerStill
      <4>2. session'[d].at \in {"idle", "report"}
        BY <2>3, <3>1 DEF NoManifest, RequestFails, ReportStatus, Ends, Idle
      <4> QED
        BY <2>3, <4>1, <4>2, RunningKept, OutOfSession
    <3>2. CASE StartAnew(d)
      <4>1. session'[d].at = "idle"
        BY <2>3, <3>2 DEF StartAnew, Idle
      <4>2. current'[d] \in StartVersions /\ running'[d].firmware = NoImage
        BY <1>1, <3>2 DEF StartAnew, DeviceTypeOK, FirstImage
      <4>3. RunsSigned(d)'
        BY <4>2 DEF RunsSigned
      <4> QED
        BY <4>1, <4>3, OutOfSession
    <3>3. CASE \E f \in FirmwareIds : FetchManifest(d, f)
      BY <2>1, <3>3, FetchManifestKeeps
    <3>4. CASE FetchSigner(d) \/ FetchBinary(d) \/ Verify(d) \/ Install(d)
      BY <3>4, FetchSignerKeeps, FetchBinaryKeeps, VerifyKeeps, InstallKeeps
    <3> QED
      BY <1>3, <3>1, <3>2, <3>3, <3>4 DEF Continue
  <2> QED
    BY <1>1, <2>1, <2>2, <2>4 DEF IInv
<1> QED
  BY <1>2, <1>3, Steps

\* No session has begun and nothing is installed at first.
LEMMA InitInv == Init => IInv
<1> SUFFICES ASSUME Init PROVE IInv
  OBVIOUS
<1>1. CatalogInv
  BY CatalogInitInv DEF Init
<1>2. /\ session = [d \in Devices |-> Idle]
      /\ current \in [Devices -> StartVersions]
      /\ running = [d \in Devices |-> FirstImage]
  BY DEF Init, DeviceInit
<1>3. Idle \in Session
  BY DEF Idle, Session, Bodies
<1>4. current \in [Devices -> Versions]
  BY <1>2, DeviceAssumption
<1>5. DeviceTypeOK
  BY <1>2, <1>3, <1>4 DEF DeviceTypeOK, Idle, Fetched, FirstImage, Running, Bodies
<1>6. \A d \in Devices : DeviceInv(d)
  BY <1>2 DEF DeviceInv, ManifestHonest, SoundFetched, AcceptedSound, RunsSigned, Idle,
     Fetched, FirstImage
<1> QED
  BY <1>1, <1>5, <1>6 DEF IInv

\* The invariant holds throughout.
LEMMA Invariant == Spec => []IInv
BY InitInv, StepInv, PTL DEF Spec

-----------------------------------------------------------------------------
\* Type correctness of the server, the catalogue and every device's session,
\* for any number of devices, images, certificates and failing requests.
THEOREM TypeCorrect == Spec => []TypeOK
<1>1. IInv => TypeOK
  BY DEF IInv, CatalogInv, DeviceTypeOK, Fetched, TypeOK
<1> QED
  BY <1>1, Invariant, PTL

\* A device runs an image byte for byte as uploaded, under its own version, on the
\* signature of a signing key certified by an intermediate CA.
THEOREM SignedCorrect == Spec => []RunsWhatWasSigned
<1>1. IInv => RunsWhatWasSigned
  BY DEF IInv, DeviceInv, RunsSigned, RunsWhatWasSigned
<1> QED
  BY <1>1, Invariant, PTL

\* A session that may be refused: what it fetched was damaged or did not come, is
\* older, the signer was withdrawn, or the CA file was replaced since devices
\* verified the image, if they did.
Doomed(d) ==
  \/ session[d].sound = 0 \/ disk.anchor # session[d].sound
  \/ session[d].cert = 0 \/ session[d].body # "whole"
  \/ session[d].manifest.fields # session[d].manifest.hash
  \/ Withdrawn(session[d].cert)
  \/ IsOlderVersion(session[d].manifest.fields.version, current[d])

\* Any other session is accepted.
LEMMA SoundAccepted ==
  ASSUME IInv, NEW d \in Devices, session[d].at = "verify", ~Doomed(d)
  PROVE  Accepts(session[d], current[d])
<1> DEFINE m == session[d].manifest
<1>1. /\ session[d].sound # 0 /\ disk.anchor = session[d].sound
      /\ session[d].cert # 0 /\ session[d].body = "whole" /\ m.fields = m.hash
      /\ ~IsOlderVersion(m.fields.version, current[d])
  BY DEF Doomed
<1>2. /\ m.hash.sig = m.hash.signer /\ m.hash.signer \in SavedIds
      /\ certs[m.hash.signer].issuer = disk.anchor
      /\ session[d].cert = m.hash.signer
  BY <1>1 DEF IInv, DeviceInv, SoundFetched
<1>3. Issuer(session[d].cert) = disk.anchor /\ session[d].cert # 0
  BY <1>2, SMT DEF Issuer, SavedIds, Ids
<1> QED
  BY <1>1, <1>2, <1>3 DEF Accepts, VerifyManifest, VerifyFirmware, VerifyDataSignature,
     SignatureBy

\* An image devices verified when its manifest was served is refused only for
\* one of those reasons, whatever the server does between the requests.
THEOREM RefusalsCorrect == Spec => RefusalsExplained
<1>1. IInv /\ [Next]_vars =>
        [\A d \in Devices :
           session[d].at = "verify" /\ session'[d].at = "report" => Doomed(d)]_vars
  <2> SUFFICES ASSUME IInv, Next, NEW d \in Devices, session[d].at = "verify",
                      session'[d].at = "report"
               PROVE  Doomed(d)
    BY DEF vars, device
  <2>1. session \in [Devices -> Session] /\ DeviceTypeOK
    BY DEF IInv, DeviceTypeOK
  <2>2. PICK e \in Devices :
          \/ NoManifest(e) \/ Continue(e) \/ StartAnew(e)
          \/ \E f \in FirmwareIds : FetchManifest(e, f)
    BY DEF Next, device
  <2>3. e = d
    BY <2>1, <2>2, OwnSession
  <2>4. Verify(d)
    <3>1. ~StartAnew(d)
      BY <2>1 DEF StartAnew, Idle
    <3> QED
      BY <2>2, <2>3, <3>1 DEF Continue, NoManifest, FetchManifest, FetchSigner,
         FetchBinary, RequestFails, Install, ReportStatus
  <2>5. ~Accepts(session[d], current[d])
    BY <2>1, <2>4 DEF Verify, Installs, Idle
  <2> QED
    BY <2>5, SoundAccepted
<1> QED
  BY <1>1, Invariant, PTL DEF Spec, RefusalsExplained, Doomed

-----------------------------------------------------------------------------
\* The first numbers the device compares are the major and minor version.
LEMMA FirstParts ==
  ASSUME NEW v \in Versions
  PROVE  /\ Parts(v)[1] = v.core[1] /\ Parts(v)[2] = v.core[2]
         /\ Len(Parts(v)) \in Nat /\ Len(Parts(v)) >= 3
         /\ v.core[1] \in Nat /\ v.core[2] \in Nat
<1>1. v.core \in Nat \X Nat \X Nat /\ v.pre \in Seq(Int)
  BY DeviceAssumption
<1>2. CASE v.pre = << >>
  <2>1. PICK a \in Nat, b \in Nat, c \in Nat : v.core = <<a, b, c>>
    BY <1>1
  <2>2. Len(v.core) = 3 /\ v.core[1] = a /\ v.core[2] = b
    BY <2>1
  <2>3. Parts(v) = v.core
    BY <1>2, Zenon DEF Parts
  <2>4. Len(v.core) \in Nat /\ Len(v.core) >= 3 /\ v.core[1] \in Nat /\ v.core[2] \in Nat
    BY <2>2, SMT
  <2> QED
    BY <2>3, <2>4, Zenon
<1>3. CASE v.pre # << >>
  <2> DEFINE t == Tail(v.pre)  head == <<v.core[1], v.core[2], 0>>
  <2>1. t \in Seq(Int)
    BY <1>1, <1>3
  <2> HIDE DEF t
  <2>2. Digits(t) \in Seq(Int)
    <3>1. t \in [1 .. Len(t) -> Int] /\ Len(t) \in Nat /\ DOMAIN t = 1 .. Len(t)
      BY <2>1, LenProperties
    <3>2. Digits(t) \in [1 .. Len(t) -> Int]
      BY <3>1 DEF Digits
    <3> QED
      BY <3>1, <3>2, SMT
  <2>3. head \in Seq(Int) /\ Len(head) = 3
    BY <1>1
  <2>4. Parts(v) = head \o Digits(t)
    BY <1>3 DEF Parts, t
  <2>5. head[1] = v.core[1] /\ head[2] = v.core[2]
    OBVIOUS
  <2> HIDE DEF head
  <2>6. /\ Len(head \o Digits(t)) = 3 + Len(Digits(t)) /\ Len(Digits(t)) \in Nat
        /\ (head \o Digits(t))[1] = head[1] /\ (head \o Digits(t))[2] = head[2]
    <3>1. Len(Digits(t)) \in Nat
      BY <2>2, LenProperties
    <3>2. 1 \in 1 .. 3 + Len(Digits(t)) /\ 2 \in 1 .. 3 + Len(Digits(t))
      BY <3>1, SMT
    <3>3. /\ Len(head \o Digits(t)) = 3 + Len(Digits(t))
          /\ \A i \in 1 .. 3 + Len(Digits(t)) : (head \o Digits(t))[i] =
               IF i <= 3 THEN head[i] ELSE Digits(t)[i - 3]
      <4>1. \A w \in Seq(Int) :
              /\ Len(head \o w) = Len(head) + Len(w)
              /\ \A i \in 1 .. Len(head) + Len(w) : (head \o w)[i] =
                   IF i <= Len(head) THEN head[i] ELSE w[i - Len(head)]
        BY <2>3, ConcatProperties
      <4> QED
        BY <2>2, <2>3, <4>1
    <3> QED
      BY <3>1, <3>2, <3>3
  <2> QED
    BY <1>1, <2>4, <2>5, <2>6
<1> QED
  BY <1>2, <1>3

\* A lower major or minor version is older for the device.
LEMMA LowerIsOlder ==
  ASSUME NEW u \in Versions, NEW v \in Versions, Contract!Lower(u, v)
  PROVE  IsOlderVersion(u, v)
<1> DEFINE s == Parts(u)  t == Parts(v)
<1>1. /\ s[1] = u.core[1] /\ s[2] = u.core[2] /\ t[1] = v.core[1] /\ t[2] = v.core[2]
      /\ Len(s) \in Nat /\ Len(s) >= 3 /\ Len(t) \in Nat /\ Len(t) >= 3
  BY FirstParts
<1>2. \/ s[1] < t[1]
      \/ s[1] = t[1] /\ s[2] < t[2]
  BY <1>1 DEF Contract!Lower
<1> HIDE DEF s, t
<1>3. 0 \in 0 .. Len(t) - 1 /\ 1 \in 0 .. Len(t) - 1 /\ 0 <= Len(s) /\ 1 <= Len(s)
  BY <1>1, SMT
<1>4. CASE s[1] < t[1]
  <2>1. (\A i \in 1 .. 0 : s[i] = t[i]) /\ s[0 + 1] < t[0 + 1]
    BY <1>4, SMT
  <2> QED
    BY <1>3, <2>1 DEF ListLess, IsOlderVersion, s, t
<1>5. CASE s[1] = t[1] /\ s[2] < t[2]
  <2>1. (\A i \in 1 .. 1 : s[i] = t[i]) /\ s[1 + 1] < t[1 + 1]
    BY <1>5, SMT
  <2> QED
    BY <1>3, <2>1 DEF ListLess, IsOlderVersion, s, t
<1> QED
  BY <1>2, <1>4, <1>5

\* The server endorses at most one more image in a step.
LEMMA ServerEndorses ==
  ASSUME CatalogTypeOK, [CatalogNext]_<<pki, catalog>>
  PROVE  \/ \A f \in FirmwareIds : images'[f].sig # 0 <=> images[f].sig # 0
         \/ \E g \in FirmwareIds : \A f \in FirmwareIds :
              images'[f].sig # 0 <=> images[f].sig # 0 \/ f = g
<1>1. images \in [FirmwareIds -> Image]
  BY DEF CatalogTypeOK
<1>2. CASE UNCHANGED catalog
  BY <1>2 DEF catalog
<1>3. ASSUME NEW g \in FirmwareIds, SignFirmware(g)
      PROVE  \/ \A f \in FirmwareIds : images'[f].sig # 0 <=> images[f].sig # 0
             \/ \A f \in FirmwareIds : images'[f].sig # 0 <=> images[f].sig # 0 \/ f = g
  <2>1. PICK key, stored : stored \in BOOLEAN /\ Signs(g, key, stored)
    BY <1>3, Signing
  <2> QED
    BY <1>1, <2>1 DEF Signs
<1>4. ASSUME NEW g \in FirmwareIds, NEW s, images' = [images EXCEPT ![g].status = s]
      PROVE  \A f \in FirmwareIds : images'[f].sig # 0 <=> images[f].sig # 0
  BY <1>1, <1>4 DEF Image
<1>5. ASSUME NEW g \in FirmwareIds, Upload(g) \/ PublishFirmware(g) \/ DeprecateFirmware(g)
      PROVE  \A f \in FirmwareIds : images'[f].sig # 0 <=> images[f].sig # 0
  BY <1>4, <1>5 DEF Upload, PublishFirmware, DeprecateFirmware
<1> QED
  BY <1>2, <1>3, <1>5, CatalogSteps

\* What devices do between two installations changes no version.
LEMMA VersionKept ==
  ASSUME NEW d, NoManifest(d) \/ FetchSigner(d) \/ FetchBinary(d) \/ RequestFails(d)
                \/ Verify(d) \/ ReportStatus(d) \/ \E f \in FirmwareIds : FetchManifest(d, f)
  PROVE  current' = current
BY DEF NoManifest, FetchSigner, FetchBinary, RequestFails, Verify, ReportStatus,
   FetchManifest

\* The devices implement their contract: nothing unsigned is installed, and
\* nothing that lowers the major or minor version.
THEOREM ContractKept == Spec => KeepsContract
<1> DEFINE endorsed == {f \in FirmwareIds : images[f].sig # 0}
<1>1. Init => Contract!Init
  BY DEF Init, CatalogInit, ImagesInit, DeviceInit, Contract!Init
<1>2. IInv /\ [Next]_vars => [Contract!Next]_<<endorsed, current>>
  <2> SUFFICES ASSUME IInv, [Next]_vars PROVE [Contract!Next]_<<endorsed, current>>
    OBVIOUS
  <2>1. CatalogTypeOK /\ DeviceTypeOK
    BY DEF IInv, CatalogInv
  <2>2. CASE [CatalogNext]_<<pki, catalog>> /\ UNCHANGED device
    <3>1. current' = current
      BY <2>2 DEF device
    <3>2. \/ endorsed' = endorsed
          \/ \E g \in FirmwareIds : endorsed' = endorsed \cup {g}
      <4>1. CASE \A f \in FirmwareIds : images'[f].sig # 0 <=> images[f].sig # 0
        BY <4>1
      <4>2. ASSUME NEW g \in FirmwareIds,
                   \A f \in FirmwareIds : images'[f].sig # 0 <=> images[f].sig # 0 \/ f = g
            PROVE  endorsed' = endorsed \cup {g}
        BY <4>2
      <4> QED
        BY <2>1, <2>2, <4>1, <4>2, ServerEndorses
    <3> QED
      BY <3>1, <3>2 DEF Contract!Next, Contract!Endorse
  <2>3. ASSUME UNCHANGED <<pki, catalog>>, NEW d \in Devices,
               \/ NoManifest(d) \/ Continue(d) \/ StartAnew(d)
               \/ \E f \in FirmwareIds : FetchManifest(d, f)
        PROVE  [Contract!Next]_<<endorsed, current>>
    <3>1. endorsed' = endorsed
      BY <2>3 DEF catalog
    <3>2. CASE Install(d)
      <4>1. /\ session[d].at = "install" /\ session[d].firmware \in FirmwareIds
            /\ current' = [current EXCEPT ![d] = session[d].manifest.fields.version]
        BY <2>1, <3>2 DEF Install, DeviceTypeOK, Session, Fetched
      <4>2. /\ session[d].manifest.fields.version = Release[session[d].firmware]
            /\ images[session[d].firmware].sig # 0
            /\ ~IsOlderVersion(Release[session[d].firmware], current[d])
        BY <4>1 DEF IInv, DeviceInv, ManifestHonest, AcceptedSound, Fetched
      <4>3. Release[session[d].firmware] \in Versions /\ current[d] \in Versions
        BY <2>1, <4>1, CatalogAssumption DEF DeviceTypeOK
      <4>4. ~Contract!Lower(Release[session[d].firmware], current[d])
        BY <4>2, <4>3, LowerIsOlder
      <4>5. Contract!Install(d, session[d].firmware)
        BY <3>1, <4>1, <4>2, <4>4 DEF Contract!Install
      <4> QED
        BY <4>1, <4>5 DEF Contract!Next
    <3>3. CASE StartAnew(d)
      BY <3>1, <3>3 DEF StartAnew, Contract!Next, Contract!StartAnew
    <3>4. CASE current' = current
      BY <3>1, <3>4
    <3> QED
      BY <2>3, <3>2, <3>3, <3>4, VersionKept DEF Continue
  <2> QED
    BY <2>2, <2>3, Steps
<1> QED
  BY <1>1, <1>2, Invariant, PTL DEF Spec, KeepsContract, Contract!Spec

=============================================================================

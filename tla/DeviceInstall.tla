----------------------------- MODULE DeviceInstall ----------------------------
(***************************************************************************)
(* IoTDevice.download_and_install (device_simulator/device.py) with        *)
(* SecureBoot, against the catalogue it fetches from.                      *)
(*                                                                         *)
(* An installation is a session of several requests: manifest, signer's    *)
(* certificate, binary, then the checks, which read the CA file, then two  *)
(* seconds of installing, then a report.  Between any two the server goes  *)
(* on: images are signed again, published or deprecated, certificates      *)
(* issued, revoked or replaced, the process restarted.  Any request may    *)
(* fail, what is received may be damaged, and the device's own process may *)
(* end.  The device has an identifier, as the tests give it one.           *)
(* Versions have no build metadata.                                        *)
(***************************************************************************)
EXTENDS FirmwareCatalog

CONSTANTS
  Devices,
  StartVersions,  \* current_version a device process may be started with
  NoImage       \* stands for no firmware and no manifest

ASSUME DeviceAssumption ==
  /\ NoImage \notin FirmwareIds /\ NoImage \notin Manifest
  /\ StartVersions \subseteq Versions
  /\ Versions \subseteq [core : Nat \X Nat \X Nat, pre : Seq(Int)]

VARIABLES
  session,      \* the locals of download_and_install
  current,      \* current_version
  running       \* the image last installed: its bytes, and how it was accepted

device == <<session, current, running>>
vars == <<pki, catalog, device>>

Session ==
  [at : {"idle", "signer", "binary", "verify", "install", "report"},
   firmware : FirmwareIds \cup {NoImage},
   manifest : Manifest \cup {NoImage},
   cert : Nat,                    \* the certificate received; 0: none
   body : Bodies,
   sound : Nat]     \* history: the CA file under which devices verified the
                    \* image when its manifest was served; 0: they did not
Idle ==
  [at |-> "idle", firmware |-> NoImage, manifest |-> NoImage, cert |-> 0,
   body |-> "whole", sound |-> 0]

Running == [firmware : FirmwareIds \cup {NoImage}, key : Nat, body : Bodies]
FirstImage == [firmware |-> NoImage, key |-> 0, body |-> "whole"]

TypeOK ==
  /\ CatalogTypeOK
  /\ session \in [Devices -> Session]
  /\ current \in [Devices -> Versions]
  /\ running \in [Devices -> Running]
  /\ \A d \in Devices :
       session[d].at \in {"signer", "binary", "verify", "install"} =>
         session[d].firmware # NoImage /\ session[d].manifest # NoImage

DeviceInit ==
  /\ session = [d \in Devices |-> Idle]
  /\ current \in [Devices -> StartVersions]
  /\ running = [d \in Devices |-> FirstImage]
Init == CatalogInit /\ DeviceInit

-----------------------------------------------------------------------------
\* _is_older_version: the parts between the dots, and 0 for a part that is not
\* all digits.  A patch number followed by a pre-release ("0-rc") is such a part.
Digits(pre) == [i \in DOMAIN pre |-> IF pre[i] < 0 THEN 0 ELSE pre[i]]
Parts(v) == IF v.pre = << >> THEN v.core
            ELSE <<v.core[1], v.core[2], 0>> \o Digits(Tail(v.pre))
ListLess(s, t) ==
  \E n \in 0 .. Len(t) - 1 :
    /\ n <= Len(s)
    /\ \A i \in 1 .. n : s[i] = t[i]
    /\ n < Len(s) => s[n + 1] < t[n + 1]
\* Altered: the parts are compared the other way round.
IsOlderVersion_Newer(new, old) == ListLess(Parts(old), Parts(new))
IsOlderVersion(new, old) == ListLess(Parts(new), Parts(old))

\* Every end of a session, and the report of it.
Ends(d) == session' = [session EXCEPT ![d] = [Idle EXCEPT !.at = "report"]]

-----------------------------------------------------------------------------
\* The manifest as served, or with a field damaged on the way.
Received(m) == {m} \cup {[m EXCEPT !.fields.version = v] : v \in Versions}

\* GET .../manifest; the caller names the image.
FetchManifest(d, f) ==
  /\ session[d].at = "idle" /\ ManifestServed(f)
  /\ \E m \in Received(ServedManifest(f)) :
       session' = [session EXCEPT ![d] =
         [Idle EXCEPT !.at = IF m.fields.signer # 0 THEN "signer" ELSE "binary",
                      !.firmware = f, !.manifest = m,
                      !.sound = IF DeviceVerifies(f) THEN disk.anchor ELSE 0]]
  /\ UNCHANGED <<pki, catalog, current, running>>

\* The manifest is refused (404, 400) or the request fails.
NoManifest(d) ==
  /\ session[d].at = "idle"
  /\ Ends(d)
  /\ UNCHANGED <<pki, catalog, current, running>>

\* Altered: the signer of the row as it is by now.
FetchSigner_Latest(d) ==
  /\ session[d].at = "signer"
  /\ \E cert \in {0, ServedCertificate(images[session[d].firmware].signer)} :
       session' = [session EXCEPT ![d].at = "binary", ![d].cert = cert]
  /\ UNCHANGED <<pki, catalog, current, running>>

\* GET /api/pki/certificates/{signer_cert_id}.  Any answer but a 200 (a 404, and
\* as well a 500 for a saved certificate) is only logged, and what does not load
\* as a certificate is no certificate: the session goes on without one.
FetchSigner(d) ==
  /\ session[d].at = "signer"
  /\ \E cert \in {0, ServedCertificate(session[d].manifest.fields.signer)} :
       session' = [session EXCEPT ![d].at = "binary", ![d].cert = cert]
  /\ UNCHANGED <<pki, catalog, current, running>>

\* GET .../download; the status of the row is not looked at.
FetchBinary(d) ==
  /\ session[d].at = "binary" /\ session[d].firmware \in binaries
  /\ \E body \in Bodies :
       session' = [session EXCEPT ![d].at = "verify", ![d].body = body]
  /\ UNCHANGED <<pki, catalog, current, running>>

\* httpx.HTTPError at one of the two, or an answer that is not JSON: the session
\* ends.
RequestFails(d) ==
  /\ session[d].at \in {"signer", "binary"}
  /\ Ends(d)
  /\ UNCHANGED <<pki, catalog, current, running>>

\* The checks in their order; SecureBoot cannot be made without the CA file.
Accepts(s, version) ==
  /\ ~IsOlderVersion(s.manifest.fields.version, version)
  /\ disk.anchor # 0
  /\ VerifyManifest(s.manifest)
  /\ VerifyFirmware(s.body, s.manifest, s.cert, Issuer(s.cert), disk.anchor)

\* The image is accepted: this manifest and these bytes are installed.
Installs(d) ==
  session' = [session EXCEPT ![d] =
    [Idle EXCEPT !.at = "install", !.firmware = session[d].firmware,
                 !.manifest = session[d].manifest, !.body = session[d].body]]

\* Accepted or refused, in one step: no request is made in between.
Verify(d) ==
  /\ session[d].at = "verify"
  /\ IF Accepts(session[d], current[d]) THEN Installs(d) ELSE Ends(d)
  /\ UNCHANGED <<pki, catalog, current, running>>

\* time.sleep(2) is over: the version in the manifest is the current one.
Install(d) ==
  /\ session[d].at = "install"
  /\ current' = [current EXCEPT ![d] = session[d].manifest.fields.version]
  /\ running' = [running EXCEPT ![d] =
       [firmware |-> session[d].firmware, key |-> session[d].manifest.fields.sig,
        body |-> session[d].body]]
  /\ Ends(d)
  /\ UNCHANGED <<pki, catalog>>

\* _report_status posts to a path the server does not serve and looks at no
\* answer; a failed call is logged.
ReportStatus(d) ==
  /\ session[d].at = "report"
  /\ session' = [session EXCEPT ![d] = Idle]
  /\ UNCHANGED <<pki, catalog, current, running>>

\* The device's process ends and is started again; nothing of it is stored.
StartAnew(d) ==
  /\ session' = [session EXCEPT ![d] = Idle]
  /\ \E v \in StartVersions : current' = [current EXCEPT ![d] = v]
  /\ running' = [running EXCEPT ![d] = FirstImage]
  /\ UNCHANGED <<pki, catalog>>

Continue(d) ==
  \/ FetchSigner(d) \/ FetchBinary(d) \/ RequestFails(d)
  \/ Verify(d) \/ Install(d) \/ ReportStatus(d)

Next ==
  \/ CatalogNext /\ UNCHANGED device
  \/ \E d \in Devices :
       \/ NoManifest(d) \/ Continue(d) \/ StartAnew(d)
       \/ \E f \in FirmwareIds : FetchManifest(d, f)

Spec == Init /\ [][Next]_vars

-----------------------------------------------------------------------------
IsSigningKey(k) == k \in Ids /\ certs[k].type = "signing"

\* What a device runs is an image byte for byte as it was uploaded, accepted on
\* a signature of a signing key certified by an intermediate CA, and the device
\* reports the version of that image, whatever was signed, replaced or damaged
\* meanwhile (verify_manifest, verify_firmware).
RunsWhatWasSigned ==
  \A d \in Devices :
    LET f == running[d].firmware  k == running[d].key
    IN  IF f = NoImage THEN current[d] \in StartVersions
        ELSE /\ current[d] = Release[f] /\ images[f].sig # 0
             /\ running[d].body = "whole"
             /\ IsSigningKey(k) /\ Saved(k)
             /\ certs[Issuer(k)].type = "intermediate_ca"

\* A session refuses an image that devices verified when its manifest was
\* served only because it is older, something was damaged or not answered on the
\* way, the signer is revoked or has expired or the CA file was replaced since:
\* signing again, deprecating, revoking other certificates, issuing and
\* restarting between the requests do not mix two states of the server.
RefusalsExplained ==
  [][\A d \in Devices :
       session[d].at = "verify" /\ session'[d].at = "report" =>
         \/ session[d].sound = 0 \/ disk.anchor # session[d].sound
         \/ session[d].cert = 0 \/ session[d].body # "whole"
         \/ session[d].manifest.fields # session[d].manifest.hash
         \/ Withdrawn(session[d].cert)
         \/ IsOlderVersion(session[d].manifest.fields.version, current[d])]_vars

\* The device implements DeviceContract.
Contract == INSTANCE DeviceContract WITH
  endorsed <- {f \in FirmwareIds : images[f].sig # 0}
KeepsContract == Contract!Spec

\* "If the incoming version is logically older than the currently installed
\* version, the update is immediately rejected" (SYSTEM_ARCHITECTURE.md).
LogicallyOlder(u, v) ==
  \/ ListLess(u.core, v.core)
  \/ u.core = v.core /\ u.pre # << >> /\ v.pre = << >>
NoOlderInstalled ==
  [][\A d \in Devices :
       running'[d].firmware # NoImage => ~LogicallyOlder(current'[d], current[d])]_vars

\* "The device will dynamically reject any firmware signed by a revoked or
\* expired certificate" (SYSTEM_ARCHITECTURE.md).
RevokedSignerRejected ==
  [][\A d \in Devices :
       session[d].at = "verify" /\ session'[d].at = "install" =>
         ~Withdrawn(session[d].cert)]_vars
=============================================================================

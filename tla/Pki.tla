--------------------------------- MODULE Pki --------------------------------
(***************************************************************************)
(* The certificate authority (app/pki/ca.py), the chain validator          *)
(* (app/pki/chain_validator.py) and the certificates table, as the         *)
(* /api/pki router (app/routers/pki.py) drives them.                       *)
(*                                                                         *)
(* A certificate is its place in certs, the order of issue; its key pair   *)
(* has the same number, and 0 stands for none.  No handler awaits, so each *)
(* is one action, but an exception half-way leaves what was done before    *)
(* it: files written, the cached CA replaced, no row.  The caches, trusted *)
(* roots and revoked serials live in the process and nothing reloads them. *)
(***************************************************************************)
EXTENDS Integers, FiniteSets, Sequences

CONSTANTS
  LeafTypes,    \* end-entity certificates requested: "device", "signing"
  Expiring,     \* certificate types that live long enough to expire
  MaxCerts,     \* bound: certificates issued
  MaxFaults     \* bound: handlers that raise half-way

CaTypes == {"root_ca", "intermediate_ca"}
ASSUME PkiAssumption ==
  /\ LeafTypes \subseteq {"device", "signing"}
  /\ Expiring \subseteq CaTypes \cup LeafTypes
  /\ MaxCerts \in Nat /\ MaxFaults \in Nat

VARIABLES
  certs,        \* every certificate issued, with its row in the database
  expired,      \* certificates whose notAfter has passed
  cache,        \* _root_ca_cert and _intermediate_ca_cert
  trusted,      \* ChainValidator._trusted_roots
  denied,       \* ChainValidator._revoked_serials
  disk,         \* the PEM files something reads back
  faults        \* history: handlers that raised half-way

pki == <<certs, expired, cache, trusted, denied, disk, faults>>

Ids == 1 .. Len(certs)
Cert ==
  [type : CaTypes \cup LeafTypes, issuer : Nat, parent : Nat,
   row : {"unsaved", "active", "revoked"}]

PkiTypeOK ==
  /\ certs \in Seq(Cert) /\ Len(certs) <= MaxCerts
  /\ \A c \in Ids : certs[c].issuer \in 1 .. c /\ certs[c].parent \in 0 .. c - 1
  /\ expired \subseteq Ids /\ trusted \subseteq Ids /\ denied \subseteq Ids
  /\ cache \in [root : 0 .. Len(certs), intermediate : 0 .. Len(certs)]
  /\ disk \in [anchor : 0 .. Len(certs), cert : 0 .. Len(certs),
               key : 0 .. Len(certs)]
  /\ faults \in 0 .. MaxFaults

PkiInit ==
  /\ certs = << >>
  /\ expired = {} /\ trusted = {} /\ denied = {}
  /\ cache = [root |-> 0, intermediate |-> 0]
  /\ disk = [anchor |-> 0, cert |-> 0, key |-> 0]
  /\ faults = 0

-----------------------------------------------------------------------------
Saved(c) == certs[c].row # "unsaved"              \* get_cert_by_serial finds it
Active(t) == {c \in Ids : certs[c].type = t /\ certs[c].row = "active"}

\* Altered: list_certs in the order of creation.
Newest_Oldest(S) == IF S = {} THEN 0 ELSE CHOOSE c \in S : \A e \in S : c <= e
\* list_certs(...)[0]: ORDER BY created_at DESC; 0 when the list is empty.
Newest(S) == IF S = {} THEN 0 ELSE CHOOSE c \in S : \A e \in S : e <= c

New == Len(certs) + 1

\* A new certificate, and the row save_cert gives it unless it raises first.
Record(t, issuer, parent, saved) ==
  /\ New <= MaxCerts
  /\ certs' = Append(certs, [type |-> t, issuer |-> issuer, parent |-> parent,
                             row |-> IF saved THEN "active" ELSE "unsaved"])

\* A step the handler does not reach costs a fault.
Raises(raised) ==
  /\ raised => faults < MaxFaults
  /\ faults' = IF raised THEN faults + 1 ELSE faults

\* Altered: a root that is cached stays cached.
MakeRoot_KeepsCache ==
  /\ cache' = [cache EXCEPT !.root = IF @ = 0 THEN New ELSE @]
  /\ UNCHANGED disk
\* CertificateAuthority.create_root_ca: whatever was cached is replaced.
MakeRoot ==
  /\ cache' = [cache EXCEPT !.root = New]
  /\ UNCHANGED disk

\* CertificateAuthority.create_intermediate_ca: files, then the cache.
MakeIntermediate(cached) ==
  /\ cache.root # 0
  /\ disk' = [disk EXCEPT !.anchor = New]
  /\ cache' = IF cached THEN [cache EXCEPT !.intermediate = New] ELSE cache

\* Altered: the guard asks the cache instead of the database.
CreateRootCa_CacheGuard ==
  /\ cache.root = 0
  /\ MakeRoot
  /\ \E saved \in BOOLEAN :
       /\ Record("root_ca", New, 0, saved)
       /\ Raises(~saved)
       /\ trusted' = IF saved THEN trusted \cup {New} ELSE trusted
  /\ UNCHANGED <<expired, denied>>

\* POST /ca/root: self-signed; cached before its row is saved, trusted after.
CreateRootCa ==
  /\ Active("root_ca") = {}
  /\ MakeRoot
  /\ \E saved \in BOOLEAN :
       /\ Record("root_ca", New, 0, saved)
       /\ Raises(~saved)
       /\ trusted' = IF saved THEN trusted \cup {New} ELSE trusted
  /\ UNCHANGED <<expired, denied>>

\* POST /ca/intermediate: signed by the cached root, recorded under the row's.
CreateIntermediateCa ==
  /\ Active("root_ca") # {} /\ Active("intermediate_ca") = {}
  /\ \E saved, cached \in BOOLEAN :
       /\ saved => cached
       /\ MakeIntermediate(cached)
       /\ Record("intermediate_ca", cache.root, Newest(Active("root_ca")), saved)
       /\ Raises(~saved)
  /\ UNCHANGED <<expired, trusted, denied>>

\* _resolve_issuing_ca: the cached intermediate, else the cached root.
IssuingCa == IF cache.intermediate # 0 THEN cache.intermediate ELSE cache.root
\* Altered: a leaf is recorded under the root even when an intermediate signs.
ParentOfLeaf_Root == Newest(Active("root_ca"))
\* The parent the router records for a leaf comes from the database.
ParentOfLeaf ==
  IF Active("intermediate_ca") # {} THEN Newest(Active("intermediate_ca"))
                                    ELSE Newest(Active("root_ca"))

\* Altered: _resolve_issuing_ca returns whatever is cached, even nothing.
IssueDeviceCertificate_NoCa ==
  /\ "device" \in LeafTypes
  /\ \E saved \in BOOLEAN :
       Record("device", IssuingCa, ParentOfLeaf, saved) /\ Raises(~saved)
  /\ UNCHANGED <<expired, cache, trusted, denied, disk>>

\* POST /certificates/device.
IssueDeviceCertificate ==
  /\ "device" \in LeafTypes
  /\ IssuingCa # 0
  /\ \E saved \in BOOLEAN :
       Record("device", IssuingCa, ParentOfLeaf, saved) /\ Raises(~saved)
  /\ UNCHANGED <<expired, cache, trusted, denied, disk>>

\* KeyManager.save_private_key and load_private_key, for signing_key.pem: the
\* file is overwritten, and a missing file raises.
SavePrivateKey(files, key) == [files EXCEPT !.key = key]
LoadPrivateKey(files) == {files.key} \ {0}

\* CertificateAuthority.issue_signing_certificate: signing_cert.pem, then
\* signing_key.pem.
MakeSigning(keyed) ==
  /\ IssuingCa # 0
  /\ LET written == [disk EXCEPT !.cert = New]
     IN  disk' = IF keyed THEN SavePrivateKey(written, New) ELSE written

\* Altered: the row is saved before the key file is written.
IssueSigningCertificate_RowFirst ==
  /\ "signing" \in LeafTypes
  /\ \E saved, keyed \in BOOLEAN :
       /\ keyed => saved
       /\ MakeSigning(keyed)
       /\ Record("signing", IssuingCa, ParentOfLeaf, saved) /\ Raises(~keyed)
  /\ UNCHANGED <<expired, cache, trusted, denied>>

\* POST /certificates/signing: the files, then the row.
IssueSigningCertificate ==
  /\ "signing" \in LeafTypes
  /\ \E saved, keyed \in BOOLEAN :
       /\ saved => keyed
       /\ MakeSigning(keyed)
       /\ Record("signing", IssuingCa, ParentOfLeaf, saved) /\ Raises(~saved)
  /\ UNCHANGED <<expired, cache, trusted, denied>>

\* POST /certificates/revoke; the cached CA stays cached.
RevokeCertificate(c) ==
  /\ c \in Ids /\ certs[c].row = "active"
  /\ certs' = [certs EXCEPT ![c].row = "revoked"]
  /\ denied' = denied \cup {c}
  /\ UNCHANGED <<expired, cache, trusted, disk, faults>>

Expire(c) ==
  /\ c \in Ids \ expired /\ certs[c].type \in Expiring
  /\ expired' = expired \cup {c}
  /\ UNCHANGED <<certs, cache, trusted, denied, disk, faults>>

\* Altered: the trusted roots survive a restart, the revoked serials do not.
Restart_KeepsTrust ==
  /\ cache' = [root |-> 0, intermediate |-> 0]
  /\ denied' = {}
  /\ UNCHANGED <<certs, expired, trusted, disk, faults>>

\* Altered: the authority loads its CAs again, the validator no roots.
Restart_KeepsCache ==
  /\ trusted' = {} /\ denied' = {}
  /\ UNCHANGED <<certs, expired, cache, disk, faults>>

\* A new process: module-level singletons start empty.
Restart ==
  /\ cache' = [root |-> 0, intermediate |-> 0]
  /\ trusted' = {} /\ denied' = {}
  /\ UNCHANGED <<certs, expired, disk, faults>>

PkiNext ==
  \/ CreateRootCa \/ CreateIntermediateCa
  \/ IssueDeviceCertificate \/ IssueSigningCertificate
  \/ \E c \in 1 .. MaxCerts : RevokeCertificate(c) \/ Expire(c)
  \/ Restart

PkiSpec == PkiInit /\ [][PkiNext]_pki

-----------------------------------------------------------------------------
\* validate_chain, for a chain <<leaf, ..., root>> of certificates.
IsCa(c) == certs[c].type \in CaTypes
PathLength(c) == IF certs[c].type = "root_ca" THEN 1 ELSE 0

PathLengthKept(chain, i) ==
  IsCa(chain[i]) =>
    Cardinality({j \in 2 .. i - 1 : IsCa(chain[j])}) <= PathLength(chain[i])

ValidChain(chain) ==
  /\ chain[Len(chain)] \in trusted
  /\ \A i \in DOMAIN chain : chain[i] \notin expired /\ chain[i] \notin denied
  /\ \A i \in 2 .. Len(chain) :
       /\ IsCa(chain[i]) /\ PathLengthKept(chain, i)
       /\ certs[chain[i - 1]].issuer = chain[i]

SavedIds == {c \in Ids : Saved(c)}
Chains == UNION {[1 .. n -> SavedIds] : n \in 1 .. 3}

\* get_certificate_chain: the rows from a certificate along their parents.
CertificateChain[c \in 0 .. Len(certs)] ==
  IF c = 0 \/ ~Saved(c) THEN << >>
  ELSE <<c>> \o CertificateChain[certs[c].parent]

\* The chain the API lists for a certificate is one the API validates when its
\* root is trusted, every row of it is active and unexpired, and the CA that
\* signed the certificate is active too: parents come from the database and
\* issuers from the cache, and whatever requests failed and whatever else was
\* revoked, they tell different stories only of a certificate whose signer was
\* revoked or never saved (get_certificate_chain, validate_certificate_chain).
ListedChainValidates ==
  \A c \in SavedIds :
    LET chain == CertificateChain[c]
    IN  /\ chain[Len(chain)] \in trusted
        /\ \A i \in DOMAIN chain :
             chain[i] \notin expired /\ certs[chain[i]].row = "active"
        /\ certs[certs[c].issuer].row = "active"
        => ValidChain(chain)

\* The authority and the validator forget together: whatever CA still signs,
\* the root above it is trusted, unless that root's row was never saved
\* (create_root_ca, the module-level singletons).
SigningRootsTrusted ==
  \A c \in {cache.root, cache.intermediate} \ {0} :
    Saved(certs[c].issuer) => certs[c].issuer \in trusted

\* No chain with a revoked certificate validates, even though a restart
\* forgets every revoked serial (validate_chain, revoke_certificate).
ValidChainsUnrevoked ==
  \A chain \in Chains : ValidChain(chain) =>
    \A i \in DOMAIN chain : certs[chain[i]].row = "active"

\* The database never shows two active certificates of one CA role, whatever
\* was revoked, lost or cut short (create_root_ca, create_intermediate_ca).
OneActiveCa == \A t \in CaTypes : Cardinality(Active(t)) <= 1

\* The parent recorded for an intermediate CA is the root whose key signed it,
\* although one comes from the database and the other from the cache.
CaParentIsIssuer ==
  \A c \in SavedIds :
    certs[c].type = "intermediate_ca" => certs[c].parent = certs[c].issuer

\* The signing certificate on disk lies beside its own key, unless the request
\* that wrote it failed before it had a row (issue_signing_certificate).
SigningPairMatches ==
  disk.cert # 0 /\ Saved(disk.cert) => disk.key = disk.cert
=============================================================================

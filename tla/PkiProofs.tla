------------------------------- MODULE PkiProofs ------------------------------
(***************************************************************************)
(* Proofs about Pki, for any number of certificates, restarts and requests *)
(* that fail half-way.                                                     *)
(***************************************************************************)
EXTENDS Pki, TLAPS, WellFoundedInduction, FiniteSetTheorems

\* Roots sign themselves, intermediates are signed by roots.
CertRoles ==
  /\ \A c \in Ids : certs[c].type = "root_ca" => certs[c].issuer = c
  /\ \A c \in Ids :
       certs[c].type = "intermediate_ca" => certs[certs[c].issuer].type = "root_ca"

\* What each number in a cache or a file stands for.
Roles ==
  /\ cache.root # 0 => certs[cache.root].type = "root_ca"
  /\ cache.intermediate # 0 => certs[cache.intermediate].type = "intermediate_ca"
  /\ disk.anchor # 0 => certs[disk.anchor].type = "intermediate_ca"
  /\ disk.cert # 0 => certs[disk.cert].type = "signing"
  /\ disk.key # 0 => certs[disk.key].type = "signing"

\* A root in use is the active one, if any is active.
ActiveRootCached ==
  cache.root # 0 => \A c \in Active("root_ca") : c = cache.root

OneActive == \A t \in CaTypes : \A c, e \in Active(t) : c = e

\* A revocation the validator has forgotten is older than what it trusts.
ForgottenAreOlder ==
  \A c \in Ids : certs[c].row = "revoked" /\ c \notin denied =>
    \A r \in trusted : c < r

PkiInv ==
  /\ PkiTypeOK
  /\ CertRoles
  /\ Roles
  /\ ActiveRootCached
  /\ OneActive
  /\ ForgottenAreOlder
  /\ CaParentIsIssuer
  /\ SigningPairMatches
  /\ SigningRootsTrusted

-----------------------------------------------------------------------------
\* A non-empty set of certificates has a newest one.
LEMMA NewestMember ==
  ASSUME NEW n \in Nat, NEW S, S \subseteq 1 .. n
  PROVE  /\ Newest(S) \in 0 .. n
         /\ S # {} => Newest(S) \in S
<1>1. CASE S = {}
  BY <1>1 DEF Newest
<1>2. CASE S # {}
  <2> DEFINE T == {n - c : c \in S}
  <2>1. T \subseteq Nat
    <3> SUFFICES ASSUME NEW c \in S PROVE n - c \in Nat
      OBVIOUS
    <3> QED
      BY SMT
  <2>2. T # {}
    BY <1>2
  <2>3. PICK x \in T : \A y \in T : ~ (<<y, x>> \in OpToRel(<, Nat))
    BY <2>1, <2>2, NatLessThanWellFounded, WFMin, Zenon
  <2>4. \A y \in T : ~ (y < x)
    BY <2>1, <2>3 DEF OpToRel
  <2>5. PICK c \in S : x = n - c
    OBVIOUS
  <2>6. ASSUME NEW e \in S PROVE e <= c
    <3>1. ~ (n - e < n - c)
      BY <2>4, <2>5
    <3> QED
      BY <3>1, SMT
  <2>7. Newest(S) \in S
    BY <1>2, <2>6 DEF Newest
  <2>8. \A e \in 1 .. n : e \in 0 .. n
    BY SMT
  <2> QED
    BY <2>7, <2>8
<1> QED
  BY <1>1, <1>2

\* The active certificates of a role are certificates.
LEMMA ActiveIds == \A t : Active(t) \subseteq Ids
BY DEF Active

\* The list of certificates after one was issued.
Grown(t, issuer, parent, saved) ==
  /\ certs' \in Seq(Cert) /\ Len(certs') = New /\ New <= MaxCerts
  /\ Len(certs) \in Nat /\ New \in Nat /\ New \notin Ids
  /\ Ids' = Ids \cup {New}
  /\ \A c \in Ids : certs'[c] = certs[c]
  /\ certs'[New] = [type |-> t, issuer |-> issuer, parent |-> parent,
                    row |-> IF saved THEN "active" ELSE "unsaved"]

\* Issuing a certificate appends it and changes no other.
LEMMA Recorded ==
  ASSUME PkiTypeOK, NEW t \in CaTypes \cup LeafTypes, NEW issuer \in 1 .. New,
         NEW parent \in 0 .. Len(certs), NEW saved \in BOOLEAN,
         Record(t, issuer, parent, saved)
  PROVE  Grown(t, issuer, parent, saved)
<1> DEFINE new == [type |-> t, issuer |-> issuer, parent |-> parent,
                   row |-> IF saved THEN "active" ELSE "unsaved"]
<1>1. certs \in Seq(Cert) /\ Len(certs) \in Nat
  BY DEF PkiTypeOK
<1>2. new \in Cert
  BY <1>1, SMT DEF Cert, New
<1>3. certs' = Append(certs, new) /\ New <= MaxCerts
  BY DEF Record
<1> HIDE DEF new
<1>4. certs' \in Seq(Cert) /\ Len(certs') = Len(certs) + 1
  BY <1>1, <1>2, <1>3
<1>5. \A c \in 1 .. Len(certs) : certs'[c] = certs[c]
  BY <1>1, <1>2, <1>3
<1>6. certs'[Len(certs) + 1] = new
  BY <1>1, <1>2, <1>3
<1>7. Ids' = Ids \cup {New} /\ New \notin Ids /\ New \in Nat
  BY <1>1, <1>4, SMT DEF Ids, New
<1> QED
  BY <1>1, <1>3, <1>4, <1>5, <1>6, <1>7 DEF Grown, Ids, New, new

\* What a revocation does to the list.
LEMMA Revoked ==
  ASSUME PkiTypeOK, NEW c, RevokeCertificate(c)
  PROVE  /\ certs' \in Seq(Cert) /\ Len(certs') = Len(certs) /\ Ids' = Ids
         /\ c \in Ids /\ certs[c].row = "active"
         /\ \A e \in Ids : /\ certs'[e].type = certs[e].type
                           /\ certs'[e].issuer = certs[e].issuer
                           /\ certs'[e].parent = certs[e].parent
                           /\ certs'[e].row = IF e = c THEN "revoked" ELSE certs[e].row
<1>1. certs \in Seq(Cert) /\ c \in 1 .. Len(certs) /\ certs[c].row = "active"
  BY DEF PkiTypeOK, RevokeCertificate, Ids
<1>2. [certs[c] EXCEPT !.row = "revoked"] \in Cert
  <2>1. certs[c] \in Cert
    BY <1>1
  <2> QED
    BY <2>1 DEF Cert
<1>3. certs' = [certs EXCEPT ![c] = [certs[c] EXCEPT !.row = "revoked"]]
  BY DEF RevokeCertificate
<1>4. certs' \in Seq(Cert) /\ Len(certs') = Len(certs)
  BY <1>1, <1>2, <1>3
<1>5. ASSUME NEW e \in Ids
      PROVE  /\ certs'[e].type = certs[e].type
             /\ certs'[e].issuer = certs[e].issuer
             /\ certs'[e].parent = certs[e].parent
             /\ certs'[e].row = IF e = c THEN "revoked" ELSE certs[e].row
  <2>1. certs[e] \in Cert
    BY <1>1 DEF Ids
  <2> QED
    BY <1>1, <1>3, <2>1 DEF Ids, Cert
<1> QED
  BY <1>1, <1>4, <1>5 DEF Ids

-----------------------------------------------------------------------------
\* The initial state satisfies the invariant: nothing has been issued.
LEMMA PkiInitInv == PkiInit => PkiInv
<1> SUFFICES ASSUME PkiInit PROVE PkiInv
  OBVIOUS
<1>1. Len(certs) = 0 /\ certs \in Seq(Cert) /\ Ids = {}
  BY DEF PkiInit, Ids
<1>2. PkiTypeOK
  BY <1>1, PkiAssumption DEF PkiInit, PkiTypeOK
<1>3. CertRoles /\ Roles /\ ActiveRootCached /\ SigningPairMatches /\ SigningRootsTrusted
  BY <1>1 DEF PkiInit, CertRoles, Roles, ActiveRootCached, SigningPairMatches, SigningRootsTrusted
<1>4. OneActive /\ ForgottenAreOlder /\ CaParentIsIssuer
  BY <1>1 DEF OneActive, ForgottenAreOlder, CaParentIsIssuer, Active, SavedIds
<1> QED
  BY <1>2, <1>3, <1>4 DEF PkiInv

\* The certificate a new one is issued by or recorded under is one there is.
LEMMA Issuers ==
  ASSUME PkiTypeOK
  PROVE  /\ cache.root \in 0 .. Len(certs) /\ cache.intermediate \in 0 .. Len(certs)
         /\ IssuingCa \in 0 .. Len(certs)
         /\ ParentOfLeaf \in 0 .. Len(certs)
         /\ \A c \in 0 .. Len(certs) : c # 0 => c \in 1 .. New /\ c \in Ids
         /\ New \in 1 .. New
<1>1. Len(certs) \in Nat /\ cache \in [root : 0 .. Len(certs), intermediate : 0 .. Len(certs)]
  BY DEF PkiTypeOK
<1>2. \A t : Newest(Active(t)) \in 0 .. Len(certs)
  BY <1>1, ActiveIds, NewestMember DEF Ids
<1>3. ParentOfLeaf \in 0 .. Len(certs) /\ IssuingCa \in 0 .. Len(certs)
  BY <1>1, <1>2 DEF ParentOfLeaf, IssuingCa
<1>4. \A c \in 0 .. Len(certs) : c # 0 => c \in 1 .. New /\ c \in Ids
  BY <1>1, SMT DEF New, Ids
<1> QED
  BY <1>1, <1>3, <1>4, SMT DEF New

\* Issuing keeps the types of everything an issuing handler does not write.
LEMMA RecordedTypes ==
  ASSUME PkiTypeOK, NEW t \in CaTypes \cup LeafTypes, NEW issuer \in 1 .. New,
         NEW parent \in 0 .. Len(certs), NEW saved \in BOOLEAN,
         Record(t, issuer, parent, saved), Raises(~saved),
         expired' = expired, denied' = denied,
         trusted' = trusted \/ trusted' = trusted \cup {New},
         cache' \in [root : 0 .. New, intermediate : 0 .. New],
         disk' \in [anchor : 0 .. New, cert : 0 .. New, key : 0 .. New]
  PROVE  PkiTypeOK'
<1>1. Grown(t, issuer, parent, saved)
  BY Recorded
<1>2. \A c \in Ids' : certs'[c].issuer \in 1 .. c /\ certs'[c].parent \in 0 .. c - 1
  <2>1. \A c \in Ids : certs'[c].issuer \in 1 .. c /\ certs'[c].parent \in 0 .. c - 1
    BY <1>1 DEF Grown, PkiTypeOK
  <2>2. certs'[New].issuer = issuer /\ certs'[New].parent = parent
    BY <1>1 DEF Grown
  <2>3. New - 1 = Len(certs)
    BY <1>1, SMT DEF Grown, New
  <2>4. Ids' = Ids \cup {New}
    BY <1>1 DEF Grown
  <2> QED
    BY <2>1, <2>2, <2>3, <2>4
<1>3. expired' \subseteq Ids' /\ trusted' \subseteq Ids' /\ denied' \subseteq Ids'
  BY <1>1 DEF Grown, PkiTypeOK
<1>4. faults' \in 0 .. MaxFaults
  BY PkiAssumption DEF PkiTypeOK, Raises
<1> QED
  BY <1>1, <1>2, <1>3, <1>4 DEF Grown, PkiTypeOK

\* Every handler keeps the types.
LEMMA PkiStepTypes == PkiTypeOK /\ [PkiNext]_pki => PkiTypeOK'
<1> SUFFICES ASSUME PkiTypeOK, [PkiNext]_pki PROVE PkiTypeOK'
  OBVIOUS
<1>1. /\ Len(certs) \in Nat /\ New \in Nat
      /\ \A n \in 0 .. Len(certs) : n \in 0 .. New
      /\ New \in 0 .. New
  BY SMT DEF PkiTypeOK, New
<1>2. /\ cache \in [root : 0 .. New, intermediate : 0 .. New]
      /\ disk \in [anchor : 0 .. New, cert : 0 .. New, key : 0 .. New]
  BY <1>1 DEF PkiTypeOK
<1>3. CASE CreateRootCa
  <2>1. PICK saved \in BOOLEAN :
          /\ Record("root_ca", New, 0, saved) /\ Raises(~saved)
          /\ trusted' = IF saved THEN trusted \cup {New} ELSE trusted
    BY <1>3 DEF CreateRootCa
  <2>2. cache' \in [root : 0 .. New, intermediate : 0 .. New] /\ disk' = disk
    BY <1>1, <1>2, <1>3 DEF CreateRootCa, MakeRoot
  <2>3. expired' = expired /\ denied' = denied
    BY <1>3 DEF CreateRootCa
  <2>4. 0 \in 0 .. Len(certs) /\ New \in 1 .. New /\ "root_ca" \in CaTypes
    BY <1>1, SMT DEF CaTypes, New
  <2> QED
    BY <1>2, <2>1, <2>2, <2>3, <2>4, RecordedTypes
<1>4. CASE CreateIntermediateCa
  <2>1. PICK saved \in BOOLEAN, cached \in BOOLEAN :
          /\ MakeIntermediate(cached) /\ Raises(~saved)
          /\ Record("intermediate_ca", cache.root, Newest(Active("root_ca")), saved)
    BY <1>4 DEF CreateIntermediateCa
  <2>2. /\ cache' \in [root : 0 .. New, intermediate : 0 .. New]
        /\ disk' \in [anchor : 0 .. New, cert : 0 .. New, key : 0 .. New]
    BY <1>1, <1>2, <2>1 DEF MakeIntermediate
  <2>3. expired' = expired /\ denied' = denied /\ trusted' = trusted
    BY <1>4 DEF CreateIntermediateCa
  <2>4. cache.root \in 1 .. New /\ "intermediate_ca" \in CaTypes
    BY <2>1, Issuers DEF CaTypes, MakeIntermediate
  <2>5. Newest(Active("root_ca")) \in 0 .. Len(certs)
    BY <1>1, ActiveIds, NewestMember DEF Ids
  <2> QED
    BY <2>1, <2>2, <2>3, <2>4, <2>5, RecordedTypes
<1>5. CASE IssueDeviceCertificate
  <2>1. PICK saved \in BOOLEAN :
          Record("device", IssuingCa, ParentOfLeaf, saved) /\ Raises(~saved)
    BY <1>5 DEF IssueDeviceCertificate
  <2>2. /\ expired' = expired /\ denied' = denied /\ trusted' = trusted
        /\ cache' = cache /\ disk' = disk /\ IssuingCa # 0 /\ "device" \in LeafTypes
    BY <1>5 DEF IssueDeviceCertificate
  <2> QED
    BY <1>2, <2>1, <2>2, Issuers, RecordedTypes
<1>6. CASE IssueSigningCertificate
  <2>1. PICK saved \in BOOLEAN, keyed \in BOOLEAN :
          /\ MakeSigning(keyed) /\ Raises(~saved)
          /\ Record("signing", IssuingCa, ParentOfLeaf, saved)
    BY <1>6 DEF IssueSigningCertificate
  <2>2. disk' \in [anchor : 0 .. New, cert : 0 .. New, key : 0 .. New]
    BY <1>1, <1>2, <2>1 DEF MakeSigning, SavePrivateKey
  <2>3. /\ expired' = expired /\ denied' = denied /\ trusted' = trusted
        /\ cache' = cache /\ IssuingCa # 0 /\ "signing" \in LeafTypes
    BY <1>6, <2>1 DEF IssueSigningCertificate, MakeSigning
  <2> QED
    BY <1>2, <2>1, <2>2, <2>3, Issuers, RecordedTypes
<1>7. ASSUME NEW c, RevokeCertificate(c) PROVE PkiTypeOK'
  <2>1. /\ expired' = expired /\ trusted' = trusted /\ cache' = cache
        /\ disk' = disk /\ faults' = faults /\ denied' = denied \cup {c}
    BY <1>7 DEF RevokeCertificate
  <2> QED
    BY <1>7, <2>1, Revoked DEF PkiTypeOK
<1>8. ASSUME NEW c, Expire(c) PROVE PkiTypeOK'
  BY <1>8 DEF Expire, PkiTypeOK, Ids
<1>9. CASE Restart
  BY <1>1, <1>9 DEF Restart, PkiTypeOK, Ids
<1>10. CASE UNCHANGED pki
  BY <1>10 DEF pki, PkiTypeOK, Ids
<1> QED
  BY <1>3, <1>4, <1>5, <1>6, <1>7, <1>8, <1>9, <1>10 DEF PkiNext

-----------------------------------------------------------------------------
\* A new certificate joins the active ones of its role if its row was saved.
LEMMA GrownSets ==
  ASSUME NEW t, NEW issuer, NEW parent, NEW saved \in BOOLEAN,
         Grown(t, issuer, parent, saved)
  PROVE  /\ \A u : Active(u)' = IF u = t /\ saved THEN Active(u) \cup {New} ELSE Active(u)
         /\ SavedIds' = IF saved THEN SavedIds \cup {New} ELSE SavedIds
<1>1. ASSUME NEW u
      PROVE  Active(u)' = IF u = t /\ saved THEN Active(u) \cup {New} ELSE Active(u)
  BY DEF Grown, Active
<1> QED
  BY <1>1 DEF Grown, SavedIds, Saved

\* Issuing changes neither a certificate nor its issuer.
LEMMA GrownIssuer ==
  ASSUME PkiTypeOK, NEW t, NEW issuer, NEW parent, NEW saved,
         Grown(t, issuer, parent, saved), NEW c \in Ids
  PROVE  /\ certs'[c] = certs[c] /\ certs[c].issuer \in Ids
         /\ certs'[certs[c].issuer] = certs[certs[c].issuer]
<1>1. certs[c].issuer \in Ids
  BY SMT DEF PkiTypeOK, Ids
<1> QED
  BY <1>1 DEF Grown

\* Issuing keeps CertRoles when the issuer has the role the type asks for.
LEMMA GrownRoles ==
  ASSUME PkiTypeOK, CertRoles, NEW t, NEW issuer \in 1 .. New, NEW parent,
         NEW saved \in BOOLEAN, Grown(t, issuer, parent, saved),
         t = "root_ca" => issuer = New,
         t = "intermediate_ca" => certs'[issuer].type = "root_ca"
  PROVE  CertRoles'
<1>1. \A c \in Ids : /\ certs'[c] = certs[c]
                     /\ certs'[certs[c].issuer] = certs[certs[c].issuer]
  BY GrownIssuer
<1>2. Ids' = Ids \cup {New} /\ certs'[New].type = t /\ certs'[New].issuer = issuer
  BY DEF Grown
<1> QED
  BY <1>1, <1>2 DEF CertRoles

\* Issuing keeps what the validator has forgotten older than what it trusts.
LEMMA GrownForgotten ==
  ASSUME PkiTypeOK, ForgottenAreOlder, NEW t, NEW issuer, NEW parent,
         NEW saved \in BOOLEAN, Grown(t, issuer, parent, saved), denied' = denied,
         trusted' = trusted \/ trusted' = trusted \cup {New}
  PROVE  ForgottenAreOlder'
<1>1. \A c \in Ids : c < New /\ certs'[c] = certs[c]
  BY SMT DEF Grown, Ids, New
<1>2. Ids' = Ids \cup {New} /\ certs'[New].row # "revoked"
  BY DEF Grown
<1> QED
  BY <1>1, <1>2 DEF ForgottenAreOlder

\* The files keep their roles and their pairing while none is written.
LEMMA FilesKept ==
  ASSUME PkiTypeOK, Roles, SigningPairMatches, NEW t, NEW issuer, NEW parent,
         NEW saved, Grown(t, issuer, parent, saved), UNCHANGED <<cache, disk>>
  PROVE  Roles' /\ SigningPairMatches'
<1>1. /\ \A n \in 0 .. Len(certs) : n # 0 => n \in Ids
      /\ cache \in [root : 0 .. Len(certs), intermediate : 0 .. Len(certs)]
      /\ disk \in [anchor : 0 .. Len(certs), cert : 0 .. Len(certs),
                   key : 0 .. Len(certs)]
  BY Issuers DEF PkiTypeOK
<1> QED
  BY <1>1 DEF Grown, Roles, SigningPairMatches, Saved

\* Issuing a leaf keeps the invariant, given what its handler does to files.
LEMMA LeafKeepsInv ==
  ASSUME PkiInv, NEW t \in LeafTypes, NEW issuer \in 1 .. New, NEW parent,
         NEW saved \in BOOLEAN, Grown(t, issuer, parent, saved),
         UNCHANGED <<cache, trusted, denied>>,
         PkiTypeOK', Roles', SigningPairMatches'
  PROVE  PkiInv'
<1>1. /\ PkiTypeOK /\ CertRoles /\ ActiveRootCached /\ OneActive
      /\ ForgottenAreOlder /\ CaParentIsIssuer /\ SigningRootsTrusted
  BY DEF PkiInv
<1>2. t \notin CaTypes /\ t # "root_ca" /\ t # "intermediate_ca"
  BY PkiAssumption DEF CaTypes
<1>3. CertRoles'
  BY <1>1, <1>2, GrownRoles
<1>4. ActiveRootCached' /\ OneActive'
  BY <1>1, <1>2, GrownSets DEF ActiveRootCached, OneActive
<1>5. ForgottenAreOlder'
  BY <1>1, GrownForgotten
<1>6. CaParentIsIssuer'
  BY <1>1, <1>2, GrownSets DEF Grown, CaParentIsIssuer, SavedIds
<1>7. SigningRootsTrusted'
  <2> SUFFICES ASSUME NEW c \in {cache.root, cache.intermediate} \ {0},
                      Saved(certs[c].issuer)'
               PROVE  (certs[c].issuer \in trusted)'
    BY DEF SigningRootsTrusted
  <2>1. c \in Ids
    BY <1>1, Issuers DEF PkiTypeOK
  <2>2. certs'[c] = certs[c] /\ certs'[certs[c].issuer] = certs[certs[c].issuer]
    BY <1>1, <2>1, GrownIssuer
  <2> QED
    BY <1>1, <2>2 DEF SigningRootsTrusted, Saved
<1> QED
  BY <1>3, <1>4, <1>5, <1>6, <1>7 DEF PkiInv

\* Every handler keeps the invariant.
LEMMA PkiStepInv == PkiInv /\ [PkiNext]_pki => PkiInv'
<1> SUFFICES ASSUME PkiInv, [PkiNext]_pki PROVE PkiInv'
  OBVIOUS
<1>1. PkiTypeOK'
  BY PkiStepTypes DEF PkiInv
<1>2. /\ PkiTypeOK /\ CertRoles /\ Roles /\ ActiveRootCached /\ OneActive
      /\ ForgottenAreOlder /\ CaParentIsIssuer /\ SigningPairMatches
      /\ SigningRootsTrusted
  BY DEF PkiInv
<1>3. /\ \A n \in 0 .. Len(certs) : n # 0 => n \in Ids
      /\ cache \in [root : 0 .. Len(certs), intermediate : 0 .. Len(certs)]
      /\ disk \in [anchor : 0 .. Len(certs), cert : 0 .. Len(certs),
                   key : 0 .. Len(certs)]
  BY <1>2, Issuers DEF PkiTypeOK
<1>4. CASE CreateRootCa
  <2>1. PICK saved \in BOOLEAN :
          /\ Record("root_ca", New, 0, saved)
          /\ trusted' = IF saved THEN trusted \cup {New} ELSE trusted
    BY <1>4 DEF CreateRootCa
  <2>2. /\ cache' = [cache EXCEPT !.root = New] /\ disk' = disk /\ denied' = denied
        /\ Active("root_ca") = {}
    BY <1>4 DEF CreateRootCa, MakeRoot
  <2>3. Grown("root_ca", New, 0, saved)
    <3>1. 0 \in 0 .. Len(certs) /\ "root_ca" \in CaTypes
      BY <1>2, SMT DEF CaTypes, PkiTypeOK
    <3> QED
      BY <1>2, <2>1, <3>1, Issuers, Recorded
  <2>4. CertRoles'
    BY <1>2, <2>3, Issuers, GrownRoles
  <2>5. Roles'
    BY <1>2, <1>3, <2>2, <2>3 DEF Grown, Roles
  <2>6. ActiveRootCached' /\ OneActive'
    BY <1>2, <1>3, <2>2, <2>3, GrownSets DEF ActiveRootCached, OneActive
  <2>7. ForgottenAreOlder'
    BY <1>2, <2>1, <2>2, <2>3, GrownForgotten
  <2>8. CaParentIsIssuer'
    BY <1>2, <2>3, GrownSets DEF Grown, CaParentIsIssuer, SavedIds
  <2>9. SigningPairMatches'
    BY <1>2, <1>3, <2>2, <2>3 DEF Grown, SigningPairMatches, Saved
  <2>10. SigningRootsTrusted'
    <3>1. ASSUME NEW c \in Ids, Saved(certs[c].issuer)', Saved(certs[c].issuer) => certs[c].issuer \in trusted
          PROVE  (certs[c].issuer \in trusted)'
      <4>1. certs[c].issuer \in Ids
        BY <1>2, <3>1, SMT DEF PkiTypeOK, Ids
      <4> QED
        BY <2>1, <2>3, <3>1, <4>1 DEF Grown, Saved
    <3>2. certs'[New].issuer = New /\ (certs'[New].row # "unsaved" => New \in trusted')
      BY <2>1, <2>3 DEF Grown
    <3>3. cache'.root = New /\ cache'.intermediate = cache.intermediate
      BY <1>3, <2>2
    <3> QED
      BY <1>2, <1>3, <3>1, <3>2, <3>3 DEF SigningRootsTrusted, Saved
  <2> QED
    BY <1>1, <2>4, <2>5, <2>6, <2>7, <2>8, <2>9, <2>10 DEF PkiInv
<1>5. CASE CreateIntermediateCa
  <2> DEFINE parent == Newest(Active("root_ca"))
  <2>1. PICK saved \in BOOLEAN, cached \in BOOLEAN :
          /\ MakeIntermediate(cached)
          /\ Record("intermediate_ca", cache.root, parent, saved)
    BY <1>5 DEF CreateIntermediateCa
  <2>2. /\ cache.root # 0 /\ disk' = [disk EXCEPT !.anchor = New]
        /\ cache' = IF cached THEN [cache EXCEPT !.intermediate = New] ELSE cache
        /\ trusted' = trusted /\ denied' = denied
        /\ Active("root_ca") # {} /\ Active("intermediate_ca") = {}
    BY <1>5, <2>1 DEF CreateIntermediateCa, MakeIntermediate
  <2>3. parent \in 0 .. Len(certs) /\ parent \in Active("root_ca")
    <3>1. Len(certs) \in Nat
      BY <1>2 DEF PkiTypeOK
    <3> QED
      BY <2>2, <3>1, ActiveIds, NewestMember DEF Ids
  <2>4. parent = cache.root /\ cache.root \in Ids
    BY <1>2, <1>3, <2>2, <2>3 DEF ActiveRootCached
  <2>5. cache.root \in 1 .. New /\ "intermediate_ca" \in CaTypes
    BY <1>2, <2>2, Issuers DEF CaTypes
  <2> HIDE DEF parent
  <2>6. Grown("intermediate_ca", cache.root, parent, saved)
    BY <1>2, <2>1, <2>3, <2>5, Recorded
  <2>7. certs'[cache.root] = certs[cache.root] /\ certs[cache.root].type = "root_ca"
    BY <1>2, <2>2, <2>4, <2>6 DEF Grown, Roles
  <2>8. CertRoles'
    BY <1>2, <2>5, <2>6, <2>7, GrownRoles
  <2>9. Roles'
    BY <1>2, <1>3, <2>2, <2>6 DEF Grown, Roles
  <2>10. ActiveRootCached' /\ OneActive'
    BY <1>2, <1>3, <2>2, <2>6, GrownSets DEF ActiveRootCached, OneActive
  <2>11. ForgottenAreOlder'
    BY <1>2, <2>2, <2>6, GrownForgotten
  <2>12. CaParentIsIssuer'
    BY <1>2, <2>4, <2>6, GrownSets DEF Grown, CaParentIsIssuer, SavedIds
  <2>13. SigningPairMatches'
    BY <1>2, <1>3, <2>2, <2>6 DEF Grown, SigningPairMatches, Saved
  <2>14. SigningRootsTrusted'
    <3>1. \A c \in Ids : /\ certs'[c] = certs[c]
                         /\ certs'[certs[c].issuer] = certs[certs[c].issuer]
      BY <1>2, <2>6, GrownIssuer
    <3>2. certs[cache.root].issuer = cache.root
      BY <1>2, <2>4, <2>7 DEF CertRoles
    <3>3. ASSUME NEW c \in {cache'.root, cache'.intermediate} \ {0}
          PROVE  c \in {cache.root, cache.intermediate} \ {0} \/ c = New
      BY <1>3, <2>2
    <3>4. ASSUME NEW c \in {cache.root, cache.intermediate} \ {0}, Saved(certs[c].issuer)'
          PROVE  (certs[c].issuer \in trusted)'
      <4>1. c \in Ids
        BY <1>3
      <4> QED
        BY <1>2, <2>2, <3>1, <3>4, <4>1 DEF SigningRootsTrusted, Saved
    <3>5. ASSUME NEW c, c = New, Saved(certs[c].issuer)' PROVE (certs[c].issuer \in trusted)'
      <4>1. certs'[c].issuer = cache.root
        BY <2>6, <3>5 DEF Grown
      <4>2. Saved(cache.root)
        BY <2>7, <3>5, <4>1 DEF Saved
      <4> QED
        BY <1>2, <2>2, <3>2, <4>1, <4>2 DEF SigningRootsTrusted
    <3> QED
      BY <3>3, <3>4, <3>5 DEF SigningRootsTrusted
  <2> QED
    BY <1>1, <2>8, <2>9, <2>10, <2>11, <2>12, <2>13, <2>14 DEF PkiInv
<1>6. CASE IssueDeviceCertificate
  <2>1. PICK saved \in BOOLEAN : Record("device", IssuingCa, ParentOfLeaf, saved)
    BY <1>6 DEF IssueDeviceCertificate
  <2>2. /\ UNCHANGED <<cache, trusted, denied, disk>>
        /\ IssuingCa # 0 /\ "device" \in LeafTypes
    BY <1>6 DEF IssueDeviceCertificate
  <2>3. Grown("device", IssuingCa, ParentOfLeaf, saved)
    BY <1>2, <2>1, <2>2, Issuers, Recorded
  <2>4. Roles' /\ SigningPairMatches'
    BY <1>2, <2>2, <2>3, FilesKept
  <2> QED
    BY <1>1, <1>2, <2>2, <2>3, <2>4, Issuers, LeafKeepsInv
<1>7. CASE IssueSigningCertificate
  <2>1. PICK saved \in BOOLEAN, keyed \in BOOLEAN :
          /\ MakeSigning(keyed) /\ (saved => keyed)
          /\ Record("signing", IssuingCa, ParentOfLeaf, saved)
    BY <1>7 DEF IssueSigningCertificate
  <2>2. /\ UNCHANGED <<cache, trusted, denied>>
        /\ IssuingCa # 0 /\ "signing" \in LeafTypes
        /\ disk' = [disk EXCEPT !.cert = New, !.key = IF keyed THEN New ELSE @]
    BY <1>7, <2>1 DEF IssueSigningCertificate, MakeSigning, SavePrivateKey
  <2>3. Grown("signing", IssuingCa, ParentOfLeaf, saved)
    BY <1>2, <2>1, <2>2, Issuers, Recorded
  <2>4. Roles'
    BY <1>2, <1>3, <2>2, <2>3 DEF Grown, Roles
  <2>5. SigningPairMatches'
    BY <1>2, <1>3, <2>1, <2>2, <2>3 DEF Grown, SigningPairMatches, Saved
  <2> QED
    BY <1>1, <1>2, <2>2, <2>3, <2>4, <2>5, Issuers, LeafKeepsInv
<1>8. ASSUME NEW c, RevokeCertificate(c) PROVE PkiInv'
  <2>1. UNCHANGED <<cache, trusted, disk>> /\ denied' = denied \cup {c}
    BY <1>8 DEF RevokeCertificate
  <2>2. /\ Ids' = Ids
        /\ \A e \in Ids : /\ certs'[e].type = certs[e].type
                          /\ certs'[e].issuer = certs[e].issuer
                          /\ certs'[e].parent = certs[e].parent
                          /\ certs'[e].row = IF e = c THEN "revoked" ELSE certs[e].row
        /\ certs[c].row = "active"
    BY <1>2, <1>8, Revoked
  <2>3. /\ \A t : Active(t)' \subseteq Active(t)
        /\ \A e \in Ids : Saved(e)' <=> Saved(e)
        /\ SavedIds' = SavedIds
    BY <2>2 DEF Active, Saved, SavedIds
  <2>4. \A e \in Ids : certs[e].issuer \in Ids
    BY <1>2, SMT DEF PkiTypeOK, Ids
  <2>5. CertRoles' /\ Roles'
    BY <1>2, <1>3, <2>1, <2>2, <2>4 DEF CertRoles, Roles
  <2>6. ActiveRootCached' /\ OneActive'
    BY <1>2, <2>1, <2>3 DEF ActiveRootCached, OneActive
  <2>7. ForgottenAreOlder' /\ CaParentIsIssuer'
    BY <1>2, <2>1, <2>2, <2>3 DEF ForgottenAreOlder, CaParentIsIssuer, SavedIds
  <2>8. SigningPairMatches' /\ SigningRootsTrusted'
    BY <1>2, <1>3, <2>1, <2>2, <2>3, <2>4 DEF SigningPairMatches, SigningRootsTrusted
  <2> QED
    BY <1>1, <2>5, <2>6, <2>7, <2>8 DEF PkiInv
<1>9. ASSUME UNCHANGED <<certs, cache, trusted, denied, disk>> PROVE PkiInv'
  BY <1>1, <1>2, <1>9 DEF PkiInv, CertRoles, Roles, ActiveRootCached, OneActive,
     ForgottenAreOlder, CaParentIsIssuer, SigningPairMatches, SigningRootsTrusted,
     Active, Saved, SavedIds, Ids
<1>10. ASSUME NEW c, Expire(c) PROVE PkiInv'
  BY <1>9, <1>10 DEF Expire
<1>11. CASE Restart
  <2>1. /\ UNCHANGED <<certs, disk>> /\ trusted' = {}
        /\ cache' = [root |-> 0, intermediate |-> 0]
    BY <1>11 DEF Restart
  <2>2. CertRoles' /\ Roles' /\ ActiveRootCached' /\ OneActive'
    BY <1>2, <2>1 DEF CertRoles, Roles, ActiveRootCached, OneActive, Active, Ids
  <2>3. /\ ForgottenAreOlder' /\ CaParentIsIssuer' /\ SigningPairMatches'
        /\ SigningRootsTrusted'
    BY <1>2, <2>1 DEF ForgottenAreOlder, CaParentIsIssuer, SigningPairMatches,
       SigningRootsTrusted, SavedIds, Saved, Ids
  <2> QED
    BY <1>1, <2>2, <2>3 DEF PkiInv
<1>12. CASE UNCHANGED pki
  BY <1>9, <1>12 DEF pki
<1> QED
  BY <1>4, <1>5, <1>6, <1>7, <1>8, <1>10, <1>11, <1>12 DEF PkiNext

-----------------------------------------------------------------------------
\* What no step takes back: certificates, their roles, issuers and rows.
History ==
  /\ Ids \subseteq Ids' /\ 0 .. Len(certs) \subseteq 0 .. Len(certs')
  /\ \A c \in Ids : /\ certs'[c].type = certs[c].type
                    /\ certs'[c].issuer = certs[c].issuer
                    /\ Saved(c)' <=> Saved(c)
                    /\ (certs[c].row = "active")' => certs[c].row = "active"

\* Certificates only gain successors and lose validity.
LEMMA PkiHistory == PkiTypeOK /\ [PkiNext]_pki => History
<1> SUFFICES ASSUME PkiTypeOK, [PkiNext]_pki PROVE History
  OBVIOUS
<1>1. ASSUME NEW t \in CaTypes \cup LeafTypes, NEW issuer \in 1 .. New,
             NEW parent \in 0 .. Len(certs), NEW saved \in BOOLEAN,
             Record(t, issuer, parent, saved)
      PROVE  History
  <2>1. Grown(t, issuer, parent, saved)
    BY <1>1, Recorded
  <2>2. 0 .. Len(certs) \subseteq 0 .. Len(certs')
    BY <2>1, SMT DEF Grown, New
  <2> QED
    BY <2>1, <2>2 DEF Grown, History, Saved
<1>2. CASE CreateRootCa
  <2>1. PICK saved \in BOOLEAN : Record("root_ca", New, 0, saved)
    BY <1>2 DEF CreateRootCa
  <2>2. 0 \in 0 .. Len(certs) /\ "root_ca" \in CaTypes
    BY SMT DEF CaTypes, PkiTypeOK
  <2> QED
    BY <1>1, <2>1, <2>2, Issuers
<1>3. CASE CreateIntermediateCa
  <2>1. PICK saved \in BOOLEAN :
          Record("intermediate_ca", cache.root, Newest(Active("root_ca")), saved)
    BY <1>3 DEF CreateIntermediateCa
  <2>2. cache.root # 0 /\ "intermediate_ca" \in CaTypes
    BY <1>3 DEF CreateIntermediateCa, MakeIntermediate, CaTypes
  <2>3. Newest(Active("root_ca")) \in 0 .. Len(certs)
    <3>1. Len(certs) \in Nat
      BY DEF PkiTypeOK
    <3> QED
      BY <3>1, ActiveIds, NewestMember DEF Ids
  <2> QED
    BY <1>1, <2>1, <2>2, <2>3, Issuers
<1>4. CASE IssueDeviceCertificate
  <2>1. PICK saved \in BOOLEAN : Record("device", IssuingCa, ParentOfLeaf, saved)
    BY <1>4 DEF IssueDeviceCertificate
  <2> QED
    BY <1>1, <1>4, <2>1, Issuers DEF IssueDeviceCertificate
<1>5. CASE IssueSigningCertificate
  <2>1. PICK saved \in BOOLEAN, keyed \in BOOLEAN :
          MakeSigning(keyed) /\ Record("signing", IssuingCa, ParentOfLeaf, saved)
    BY <1>5 DEF IssueSigningCertificate
  <2>2. "signing" \in LeafTypes /\ IssuingCa # 0
    BY <1>5, <2>1 DEF IssueSigningCertificate, MakeSigning
  <2> QED
    BY <1>1, <2>1, <2>2, Issuers
<1>6. ASSUME NEW c, RevokeCertificate(c) PROVE History
  <2>1. /\ Ids' = Ids /\ Len(certs') = Len(certs) /\ certs[c].row = "active"
        /\ \A e \in Ids : /\ certs'[e].type = certs[e].type
                          /\ certs'[e].issuer = certs[e].issuer
                          /\ certs'[e].row = IF e = c THEN "revoked" ELSE certs[e].row
    BY <1>6, Revoked
  <2> QED
    BY <2>1 DEF History, Saved
<1>7. ASSUME certs' = certs PROVE History
  BY <1>7 DEF History, Ids, Saved
<1> QED
  BY <1>2, <1>3, <1>4, <1>5, <1>6, <1>7 DEF PkiNext, Expire, Restart, pki

-----------------------------------------------------------------------------
\* Type correctness of the authority, its files, caches and rows, for any
\* number of certificates and failing requests.
THEOREM PkiTypeCorrect == PkiSpec => []PkiTypeOK
<1>1. PkiInit => PkiTypeOK
  BY PkiInitInv DEF PkiInv
<1> QED
  BY <1>1, PkiStepTypes, PTL DEF PkiSpec

\* The invariant holds throughout.
LEMMA PkiInvariant == PkiSpec => []PkiInv
BY PkiInitInv, PkiStepInv, PTL DEF PkiSpec

\* The parent recorded for an intermediate CA is its issuer, in every
\* reachable state: the cached root is the active one.
THEOREM CaParentCorrect == PkiSpec => []CaParentIsIssuer
<1>1. PkiInv => CaParentIsIssuer
  BY DEF PkiInv
<1> QED
  BY <1>1, PkiInvariant, PTL

\* A saved signing certificate on disk lies beside its own key.
THEOREM PairCorrect == PkiSpec => []SigningPairMatches
<1>1. PkiInv => SigningPairMatches
  BY DEF PkiInv
<1> QED
  BY <1>1, PkiInvariant, PTL

\* The root above whatever CA signs is trusted, if its row was saved.
THEOREM RootsTrusted == PkiSpec => []SigningRootsTrusted
<1>1. PkiInv => SigningRootsTrusted
  BY DEF PkiInv
<1> QED
  BY <1>1, PkiInvariant, PTL

\* There is at most one active certificate of each CA role.
THEOREM OneActiveCorrect == PkiSpec => []OneActiveCa
<1>1. PkiInv => OneActiveCa
  <2> SUFFICES ASSUME PkiInv, NEW t \in CaTypes PROVE Cardinality(Active(t)) <= 1
    BY DEF OneActiveCa
  <2>1. CASE Active(t) = {}
    BY <2>1, FS_EmptySet
  <2>2. CASE Active(t) # {}
    <3>1. PICK c \in Active(t) : Active(t) = {c}
      BY <2>2 DEF PkiInv, OneActive
    <3>2. Cardinality({c}) = 1
      BY FS_Singleton
    <3> QED
      BY <3>1, <3>2
  <2> QED
    BY <2>1, <2>2
<1> QED
  BY <1>1, PkiInvariant, PTL

\* No chain with a revoked certificate validates: along a chain certificates
\* only get older, and what was revoked and forgotten is older than its root.
THEOREM ValidChainsCorrect == PkiSpec => []ValidChainsUnrevoked
<1>1. PkiInv => ValidChainsUnrevoked
  <2> SUFFICES ASSUME PkiInv, NEW n \in 1 .. 3, NEW chain \in [1 .. n -> SavedIds],
                      ValidChain(chain), NEW i \in 1 .. n
               PROVE  certs[chain[i]].row = "active"
    BY DEF ValidChainsUnrevoked, Chains
  <2>1. DOMAIN chain = 1 .. n /\ Len(chain) = n
    <3>1. chain \in Seq(SavedIds)
      BY SMT
    <3> QED
      BY <3>1
  <2>2. /\ \A j \in 1 .. n : chain[j] \in Ids /\ Saved(chain[j])
        /\ \A j \in 1 .. n : chain[j] \notin denied
    BY <2>1 DEF ValidChain, SavedIds
  <2>3. \A j \in 2 .. n : certs[chain[j - 1]].issuer = chain[j]
    BY <2>1 DEF ValidChain
  <2>4. \A c \in Ids : certs[c].issuer \in 1 .. c /\ c \in Nat
    BY SMT DEF PkiInv, PkiTypeOK, Ids
  <2>5. \A j \in 2 .. n : chain[j] <= chain[j - 1]
    <3> SUFFICES ASSUME NEW j \in 2 .. n PROVE chain[j] <= chain[j - 1]
      OBVIOUS
    <3>1. j - 1 \in 1 .. n
      BY SMT
    <3> QED
      <4>1. chain[j - 1] \in Ids /\ certs[chain[j - 1]].issuer = chain[j]
        BY <2>2, <2>3, <3>1
      <4>2. chain[j] \in 1 .. chain[j - 1] /\ chain[j - 1] \in Nat
        BY <2>4, <4>1
      <4> QED
        BY <4>2, SMT
  <2>6. chain[n] <= chain[i] /\ chain[n] \in trusted /\ chain[n] \in Nat
    <3>1. chain[n] \in trusted
      BY <2>1 DEF ValidChain
    <3>2. \A j \in 1 .. n : chain[j] \in Nat
      BY <2>2, <2>4
    <3> QED
      BY <2>5, <3>1, <3>2, SMT
  <2>7. certs[chain[i]].row # "revoked"
    BY <2>2, <2>4, <2>6, SMT DEF PkiInv, ForgottenAreOlder
  <2>8. certs[chain[i]] \in Cert
    BY <2>2 DEF PkiInv, PkiTypeOK, Ids
  <2> QED
    BY <2>2, <2>7, <2>8 DEF Cert, Saved
<1> QED
  BY <1>1, PkiInvariant, PTL
=============================================================================

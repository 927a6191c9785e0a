---------------------------- MODULE PkiChainProofs ---------------------------
(***************************************************************************)
(* Proof that the chain the API lists for a certificate is one the API     *)
(* validates: the parents the router records, read along the rows, and the *)
(* keys that signed, taken from the cache, tell different stories only     *)
(* where a CA of one of them was revoked or never saved, and such a CA is  *)
(* never made good again.                                                  *)
(***************************************************************************)
EXTENDS PkiProofs, SequenceTheorems

InForce(c) == certs[c].row = "active"

\* The signer, the CA a row names as parent, or the root above that CA is lost.
Severed(issuer, parent) ==
  \/ ~InForce(issuer) \/ ~InForce(parent)
  \/ certs[parent].type = "intermediate_ca" /\ ~InForce(certs[parent].parent)

\* Along their parents the rows climb to a root in two steps at most.
ParentRoles ==
  \A c \in Ids :
    /\ certs[c].type = "root_ca" => certs[c].parent = 0
    /\ certs[c].type = "intermediate_ca" =>
         certs[c].parent # 0 /\ certs[certs[c].parent].type = "root_ca"
    /\ certs[c].parent # 0 =>
         certs[c].parent \in SavedIds /\ certs[certs[c].parent].type \in CaTypes

\* What the validator denies was revoked.
DeniedRevoked == \A c \in denied : certs[c].row = "revoked"

\* An active intermediate that the root in use signed is the one in use.
IntermediateCached ==
  cache.root # 0 =>
    \A c \in Active("intermediate_ca") :
      certs[c].issuer = cache.root => c = cache.intermediate

\* The row a certificate is recorded under is the CA that signed it, or one of
\* the two is lost.
ParentsSign ==
  \A c \in SavedIds : \/ certs[c].parent \in {0, certs[c].issuer}
                      \/ Severed(certs[c].issuer, certs[c].parent)

ChainInv == ParentRoles /\ DeniedRevoked /\ IntermediateCached /\ ParentsSign

-----------------------------------------------------------------------------
\* One step of get_certificate_chain, from the chain found above the parent.
Climb(above) ==
  [c \in 0 .. Len(certs) |->
     IF c = 0 \/ ~Saved(c) THEN << >> ELSE <<c>> \o above[certs[c].parent]]

\* Three steps reach the root from every certificate, so CertificateChain is
\* what its definition says.
LEMMA ChainDef ==
  ASSUME PkiTypeOK, ParentRoles
  PROVE  CertificateChain = Climb(CertificateChain)
<1> DEFINE Known == 0 .. Len(certs)
           none == [c \in Known |-> << >>]
           one == Climb(none)
           two == Climb(one)
           three == Climb(two)
<1>1. \A c \in Known : c # 0 => /\ c \in Ids /\ certs[c].parent \in Known
                                /\ certs[c].type \in CaTypes \cup LeafTypes
  <2> SUFFICES ASSUME NEW c \in Known, c # 0
               PROVE  /\ c \in Ids /\ certs[c].parent \in Known
                      /\ certs[c].type \in CaTypes \cup LeafTypes
    OBVIOUS
  <2>1. c \in Ids /\ Len(certs) \in Nat
    BY SMT DEF PkiTypeOK, Ids
  <2>2. certs[c].parent \in 0 .. c - 1 /\ certs[c] \in Cert
    BY <2>1 DEF PkiTypeOK, Ids
  <2> QED
    BY <2>1, <2>2, SMT DEF Cert, Ids
<1>2. 0 \in Known
  BY SMT DEF PkiTypeOK
<1>3. one[0] = << >> /\ two[0] = << >> /\ three[0] = << >> /\ none[0] = << >>
  BY <1>2 DEF Climb
<1>4. ASSUME NEW c \in Known, c # 0, certs[c].parent = 0
      PROVE  two[c] = one[c] /\ three[c] = two[c]
  BY <1>1, <1>2, <1>3, <1>4 DEF Climb
<1>5. ASSUME NEW c \in Known, c # 0, certs[c].type \in CaTypes
      PROVE  three[c] = two[c]
  <2>1. CASE certs[c].type = "root_ca"
    BY <1>1, <1>4, <1>5, <2>1 DEF ParentRoles
  <2>2. CASE certs[c].type = "intermediate_ca"
    <3>1. certs[c].parent \in Known /\ certs[c].parent # 0
      BY <1>1, <1>5, <2>2 DEF ParentRoles
    <3>2. certs[certs[c].parent].parent = 0
      BY <1>1, <1>5, <2>2, <3>1 DEF ParentRoles
    <3>3. two[certs[c].parent] = one[certs[c].parent]
      BY <1>4, <3>1, <3>2
    <3> HIDE DEF one
    <3> QED
      BY <3>3 DEF Climb
  <2> QED
    BY <1>5, <2>1, <2>2 DEF CaTypes
<1> HIDE DEF one
<1>6. ASSUME NEW c \in Known
      PROVE  three[c] = IF c = 0 \/ ~Saved(c) THEN << >>
                        ELSE <<c>> \o three[certs[c].parent]
  <2>1. CASE c = 0
    BY <1>3, <2>1
  <2>2. CASE c # 0
    <3>1. certs[c].parent \in Known /\ c \in Ids
      BY <1>1, <2>2
    <3>2. three[certs[c].parent] = two[certs[c].parent]
      <4>1. CASE certs[c].parent = 0
        BY <1>3, <4>1
      <4>2. CASE certs[c].parent # 0
        BY <1>5, <3>1, <4>2 DEF ParentRoles
      <4> QED
        BY <4>1, <4>2
    <3> HIDE DEF two
    <3> QED
      BY <3>2 DEF Climb
  <2> QED
    BY <2>1, <2>2
<1>7. three = Climb(three)
  <2> HIDE DEF two
  <2>1. three \in [Known -> {three[c] : c \in Known}]
    BY DEF Climb
  <2> HIDE DEF three
  <2> QED
    BY <1>6, <2>1 DEF Climb
<1> HIDE DEF three
<1>8. \E f : f = Climb(f)
  BY <1>7
<1>9. CertificateChain = CHOOSE f : f = Climb(f)
  BY DEF CertificateChain, Climb
<1> QED
  BY <1>8, <1>9

\* The lists an end-entity certificate, an intermediate and a root come to.
LEMMA Joined ==
  /\ \A a : <<a>> \o << >> = <<a>>
  /\ \A a, b : <<a>> \o <<b>> = <<a, b>>
  /\ \A a, b, d : <<a>> \o <<b, d>> = <<a, b, d>>
<1>1. ASSUME NEW a PROVE <<a>> \o << >> = <<a>>
  <2>1. <<a>> \in Seq({a})
    OBVIOUS
  <2> QED
    BY <2>1, ConcatEmptySeq
<1>2. ASSUME NEW a, NEW b PROVE <<a>> \o <<b>> = <<a, b>>
  <2> DEFINE s == <<a>> \o <<b>>
             t == <<a, b>>
  <2>1. /\ <<a>> \in Seq({a, b}) /\ <<b>> \in Seq({a, b}) /\ t \in Seq({a, b})
        /\ Len(<<a>>) = 1 /\ Len(<<b>>) = 1 /\ Len(t) = 2
    OBVIOUS
  <2>2. s \in Seq({a, b}) /\ Len(s) = 2 /\ s[1] = t[1] /\ s[2] = t[2]
    BY <2>1, ConcatProperties
  <2> HIDE DEF s, t
  <2>3. \A i \in 1 .. Len(s) : s[i] = t[i]
    BY <2>2, SMT
  <2>4. s = t
    BY <2>1, <2>2, <2>3, SeqEqual
  <2> QED
    BY <2>4 DEF s, t
<1>3. ASSUME NEW a, NEW b, NEW d PROVE <<a>> \o <<b, d>> = <<a, b, d>>
  <2> DEFINE s == <<a>> \o <<b, d>>
             t == <<a, b, d>>
             S == {a, b, d}
  <2>1. /\ <<a>> \in Seq(S) /\ <<b, d>> \in Seq(S) /\ t \in Seq(S)
        /\ Len(<<a>>) = 1 /\ Len(<<b, d>>) = 2 /\ Len(t) = 3
    OBVIOUS
  <2> HIDE DEF S
  <2>2. s \in Seq(S) /\ Len(s) = 3 /\ s[1] = t[1] /\ s[2] = t[2] /\ s[3] = t[3]
    BY <2>1, ConcatProperties
  <2> HIDE DEF s, t
  <2>3. \A i \in 1 .. Len(s) : s[i] = t[i]
    BY <2>2, SMT
  <2>4. s = t
    BY <2>1, <2>2, <2>3, SeqEqual
  <2> QED
    BY <2>4 DEF s, t
<1> QED
  BY <1>1, <1>2, <1>3

\* The chain listed for a certificate, one, two or three rows long.
LEMMA ListedChain ==
  ASSUME PkiTypeOK, ParentRoles, NEW c \in SavedIds
  PROVE  LET p == certs[c].parent
             r == certs[p].parent
         IN  \/ p = 0 /\ CertificateChain[c] = <<c>>
             \/ /\ p \in SavedIds /\ certs[p].type \in CaTypes
                /\ r = 0 /\ CertificateChain[c] = <<c, p>>
             \/ /\ p \in SavedIds /\ certs[p].type \in CaTypes
                /\ r \in SavedIds /\ certs[r].type = "root_ca"
                /\ CertificateChain[c] = <<c, p, r>>
<1> DEFINE p == certs[c].parent
           r == certs[p].parent
<1>1. CertificateChain = Climb(CertificateChain)
  BY ChainDef
<1>2. \A d \in SavedIds : /\ d \in 0 .. Len(certs) /\ d # 0
                          /\ certs[d].parent = 0 \/ certs[d].parent \in SavedIds
  <2> SUFFICES ASSUME NEW d \in SavedIds
               PROVE  /\ d \in 0 .. Len(certs) /\ d # 0
                      /\ certs[d].parent = 0 \/ certs[d].parent \in SavedIds
    OBVIOUS
  <2>1. d \in Ids /\ Len(certs) \in Nat
    BY DEF SavedIds, PkiTypeOK
  <2> QED
    BY <2>1, SMT DEF ParentRoles, Ids
<1>3. /\ CertificateChain[0] = << >>
      /\ \A d \in SavedIds : CertificateChain[d] = <<d>> \o CertificateChain[certs[d].parent]
  <2>1. 0 \in 0 .. Len(certs)
    BY SMT DEF PkiTypeOK
  <2>2. CertificateChain[0] = << >>
    BY <1>1, <2>1 DEF Climb
  <2>3. ASSUME NEW d \in SavedIds
        PROVE  CertificateChain[d] = <<d>> \o CertificateChain[certs[d].parent]
    <3>1. d \in 0 .. Len(certs) /\ d # 0
      BY <1>2
    <3>2. Saved(d)
      BY <2>3 DEF SavedIds
    <3> QED
      BY <1>1, <3>1, <3>2 DEF Climb
  <2> QED
    BY <2>2, <2>3
<1>4. CASE p = 0
  BY <1>3, <1>4, Joined
<1>5. CASE p # 0
  <2>1. p \in SavedIds /\ certs[p].type \in CaTypes /\ c \in Ids /\ p \in Ids
    BY <1>2, <1>5 DEF ParentRoles, SavedIds
  <2>2. r = 0 \/ (r \in SavedIds /\ certs[r].type = "root_ca" /\ r \in Ids)
    BY <1>2, <2>1 DEF ParentRoles, CaTypes, SavedIds
  <2>3. CASE r = 0
    <3>1. CertificateChain[p] = <<p>>
      BY <1>3, <2>1, <2>3, Joined
    <3>2. CertificateChain[c] = <<c, p>>
      BY <1>3, <3>1, Joined
    <3> QED
      BY <2>1, <2>3, <3>2
  <2>4. CASE r # 0
    <3>1. certs[r].parent = 0
      BY <2>2, <2>4 DEF ParentRoles
    <3>2. CertificateChain[r] = <<r>>
      BY <1>3, <2>2, <2>4, <3>1, Joined
    <3>3. CertificateChain[p] = <<p, r>>
      BY <1>3, <2>1, <3>2, Joined
    <3>4. CertificateChain[c] = <<c, p, r>>
      <4>1. CertificateChain[c] = <<c>> \o <<p, r>>
        BY <1>3, <3>3
      <4> QED
        BY <4>1, Joined
    <3> QED
      BY <2>1, <2>2, <2>4, <3>4
  <2> QED
    BY <2>3, <2>4
<1> QED
  BY <1>4, <1>5

\* The listed chain validates: it is signed as it is listed, and no CA stands
\* below more CAs than its path length allows.
LEMMA ListedValidates == PkiInv /\ ChainInv => ListedChainValidates
<1> SUFFICES ASSUME PkiInv, ChainInv, NEW c \in SavedIds,
                    NEW chain, chain = CertificateChain[c],
                    chain[Len(chain)] \in trusted,
                    \A i \in DOMAIN chain :
                      chain[i] \notin expired /\ certs[chain[i]].row = "active",
                    InForce(certs[c].issuer)
             PROVE  ValidChain(chain)
  BY DEF ListedChainValidates, InForce
<1> DEFINE p == certs[c].parent
           r == certs[p].parent
<1>1. /\ PkiTypeOK /\ ParentRoles /\ DeniedRevoked /\ ParentsSign
      /\ CaParentIsIssuer
  BY DEF PkiInv, ChainInv
<1>2. \A d : certs[d].row = "active" => d \notin denied
  BY <1>1 DEF DeniedRevoked
<1>3. \A d : certs[d].type \in CaTypes => IsCa(d)
  BY DEF IsCa
<1>5. CASE p = 0 /\ chain = <<c>>
  <2>1. /\ DOMAIN chain = 1 .. 1 /\ Len(chain) = 1 /\ chain[1] = c
        /\ 1 .. 1 = {1} /\ 2 .. 1 = {}
    BY <1>5
  <2>2. \A i \in DOMAIN chain : chain[i] \notin denied
    BY <1>2
  <2> QED
    BY <2>1, <2>2 DEF ValidChain
<1>6. ASSUME NEW i \in {2, 3}, i = 3 => certs[chain[i]].type = "root_ca"
      PROVE  PathLengthKept(chain, i)
  <2> DEFINE below == {j \in 2 .. i - 1 : IsCa(chain[j])}
  <2>1. CASE i = 2
    <3>1. below = {}
      BY <2>1, SMT
    <3> QED
      BY <2>1, <3>1, FS_EmptySet DEF PathLengthKept, PathLength
  <2>2. CASE i = 3
    <3>1. below \subseteq {2}
      BY <2>2, SMT
    <3>2. Cardinality(below) <= 1
      <4>1. below = {} \/ below = {2}
        BY <3>1, Zenon
      <4> HIDE DEF below
      <4>2. Cardinality(below) \in {0, 1}
        <5>1. Cardinality({}) = 0 /\ Cardinality({2}) = 1
          BY FS_EmptySet, FS_Singleton, Zenon
        <5> QED
          BY <4>1, <5>1, Zenon
      <4> QED
        BY <4>2, SMT
    <3> QED
      BY <1>6, <2>2, <3>2 DEF PathLengthKept, PathLength
  <2> QED
    BY <2>1, <2>2
<1>7. CASE /\ p \in SavedIds /\ certs[p].type \in CaTypes
           /\ r = 0 /\ chain = <<c, p>>
  <2>1. /\ DOMAIN chain = 1 .. 2 /\ Len(chain) = 2
        /\ chain[1] = c /\ chain[2] = p
    BY <1>7
  <2>2. p # 0 /\ p \in Ids
    BY <1>1, <1>7 DEF SavedIds, Ids
  <2>3. InForce(p) /\ certs[p].type # "intermediate_ca"
    BY <1>1, <1>7, <2>1, <2>2 DEF ParentRoles, InForce
  <2>4. certs[c].issuer = p
    BY <1>1, <2>2, <2>3 DEF ParentsSign, Severed
  <2>5. PathLengthKept(chain, 2)
    BY <1>6
  <2>6. \A i \in 2 .. 2 : i = 2 /\ i - 1 = 1
    BY SMT
  <2> HIDE DEF p, r
  <2>7. \A i \in DOMAIN chain : chain[i] \notin denied
    BY <1>2
  <2>8. \A i \in 2 .. Len(chain) :
          /\ IsCa(chain[i]) /\ PathLengthKept(chain, i)
          /\ certs[chain[i - 1]].issuer = chain[i]
    BY <1>3, <1>7, <2>1, <2>4, <2>5, <2>6
  <2> QED
    BY <2>7, <2>8 DEF ValidChain
<1>8. CASE /\ p \in SavedIds /\ certs[p].type \in CaTypes
           /\ r \in SavedIds /\ certs[r].type = "root_ca" /\ chain = <<c, p, r>>
  <2>1. /\ DOMAIN chain = 1 .. 3 /\ Len(chain) = 3
        /\ chain[1] = c /\ chain[2] = p /\ chain[3] = r
    BY <1>8
  <2>2. p # 0 /\ p \in Ids /\ r # 0 /\ certs[r].type \in CaTypes
    BY <1>1, <1>8 DEF SavedIds, Ids, CaTypes
  <2>3. InForce(p) /\ InForce(r)
    BY <2>1 DEF InForce
  <2>4. certs[c].issuer = p
    BY <1>1, <2>2, <2>3 DEF ParentsSign, Severed
  <2>5. certs[p].type = "intermediate_ca" /\ certs[p].issuer = r
    <3>1. certs[p].type # "root_ca"
      BY <1>1, <2>2 DEF ParentRoles
    <3>2. certs[p].type = "intermediate_ca"
      BY <1>8, <3>1 DEF CaTypes
    <3> QED
      BY <1>1, <1>8, <3>2 DEF CaParentIsIssuer
  <2>6. PathLengthKept(chain, 2) /\ PathLengthKept(chain, 3)
    BY <1>6, <1>8
  <2>7. \A i \in 2 .. 3 : (i = 2 /\ i - 1 = 1) \/ (i = 3 /\ i - 1 = 2)
    BY SMT
  <2> HIDE DEF p, r
  <2>8. \A i \in DOMAIN chain : chain[i] \notin denied
    BY <1>2
  <2>9. \A i \in 2 .. Len(chain) :
          /\ IsCa(chain[i]) /\ PathLengthKept(chain, i)
          /\ certs[chain[i - 1]].issuer = chain[i]
    BY <1>3, <1>8, <2>1, <2>2, <2>4, <2>5, <2>6, <2>7
  <2> QED
    BY <2>8, <2>9 DEF ValidChain
<1> QED
  BY <1>1, <1>5, <1>7, <1>8, ListedChain

-----------------------------------------------------------------------------
\* Issuing makes no lost CA good again.
LEMMA SeveredStays ==
  ASSUME PkiTypeOK, ParentRoles, NEW t, NEW issuer, NEW parent, NEW saved,
         Grown(t, issuer, parent, saved),
         NEW i \in Ids, NEW p \in Ids, Severed(i, p)
  PROVE  Severed(i, p)'
<1>1. certs'[i] = certs[i] /\ certs'[p] = certs[p]
  BY DEF Grown
<1>2. ASSUME certs[p].type = "intermediate_ca"
      PROVE  certs'[certs[p].parent] = certs[certs[p].parent]
  BY <1>2 DEF ParentRoles, Grown, SavedIds
<1> QED
  BY <1>1, <1>2 DEF Severed, InForce

\* Issuing keeps the invariant: what is left to show of a handler is the row it
\* records the certificate under and what it caches.
LEMMA IssuingKeepsChains ==
  ASSUME PkiInv, ChainInv, NEW t \in CaTypes \cup LeafTypes,
         NEW issuer \in 1 .. New, NEW parent \in 0 .. Len(certs),
         NEW saved \in BOOLEAN, Grown(t, issuer, parent, saved), denied' = denied,
         t = "root_ca" => parent = 0,
         t = "intermediate_ca" => parent # 0 /\ certs[parent].type = "root_ca",
         parent # 0 => parent \in SavedIds /\ certs[parent].type \in CaTypes,
         \/ parent \in {0, issuer}
         \/ issuer \in Ids /\ parent \in Ids /\ Severed(issuer, parent),
         IntermediateCached'
  PROVE  ChainInv'
<1>1. /\ PkiTypeOK /\ ParentRoles /\ DeniedRevoked /\ ParentsSign
  BY DEF PkiInv, ChainInv
<1>2. /\ Ids' = Ids \cup {New} /\ New \notin Ids
      /\ \A c \in Ids : certs'[c] = certs[c]
      /\ certs'[New].type = t /\ certs'[New].parent = parent
      /\ certs'[New].issuer = issuer
  BY DEF Grown
<1>3. SavedIds \subseteq SavedIds' /\ SavedIds' \subseteq SavedIds \cup {New}
  BY GrownSets
<1>4. \A c \in SavedIds : c \in Ids /\ certs'[c] = certs[c]
  BY <1>2 DEF SavedIds
<1>5. ParentRoles'
  <2>1. ASSUME NEW c \in Ids
        PROVE  /\ certs[c].type = "root_ca" => certs[c].parent = 0
               /\ certs[c].type = "intermediate_ca" =>
                    certs[c].parent # 0 /\ certs'[certs[c].parent].type = "root_ca"
               /\ certs[c].parent # 0 =>
                    /\ certs[c].parent \in SavedIds'
                    /\ certs'[certs[c].parent].type \in CaTypes
    BY <1>1, <1>3, <1>4 DEF ParentRoles
  <2>2. /\ t = "intermediate_ca" => certs'[parent].type = "root_ca"
        /\ parent # 0 => parent \in SavedIds' /\ certs'[parent].type \in CaTypes
    BY <1>3, <1>4
  <2> QED
    BY <1>2, <2>1, <2>2 DEF ParentRoles
<1>6. DeniedRevoked'
  BY <1>1, <1>2 DEF DeniedRevoked, PkiTypeOK
<1>8. ParentsSign'
  <2> SUFFICES ASSUME NEW c \in SavedIds', NEW i, i = certs'[c].issuer,
                      NEW p, p = certs'[c].parent
               PROVE  p \in {0, i} \/ Severed(i, p)'
    BY DEF ParentsSign, Severed, InForce
  <2>1. CASE c = New
    BY <1>1, <1>2, <2>1, SeveredStays
  <2>2. CASE c # New
    <3>1. c \in SavedIds /\ c \in Ids /\ i = certs[c].issuer /\ p = certs[c].parent
      BY <1>3, <1>4, <2>2
    <3>2. CASE p # 0 /\ Severed(i, p)
      <4>1. i \in Ids
        BY <1>1, <3>1, GrownIssuer
      <4>2. p \in Ids
        BY <1>1, <1>4, <3>1, <3>2 DEF ParentRoles
      <4> QED
        BY <1>1, <3>2, <4>1, <4>2, SeveredStays
    <3> QED
      BY <1>1, <3>1, <3>2 DEF ParentsSign
  <2> QED
    BY <2>1, <2>2
<1> QED
  BY <1>5, <1>6, <1>8 DEF ChainInv

\* A leaf is recorded under the CA that signs it, or one of the two is lost.
LEMMA LeafParent ==
  ASSUME PkiInv, ChainInv, IssuingCa # 0
  PROVE  /\ ParentOfLeaf # 0 =>
              ParentOfLeaf \in SavedIds /\ certs[ParentOfLeaf].type \in CaTypes
         /\ \/ ParentOfLeaf \in {0, IssuingCa}
            \/ /\ IssuingCa \in Ids /\ ParentOfLeaf \in Ids
               /\ Severed(IssuingCa, ParentOfLeaf)
<1>1. /\ PkiTypeOK /\ Roles /\ ActiveRootCached /\ OneActive /\ IntermediateCached
      /\ ParentRoles /\ CaParentIsIssuer
  BY DEF PkiInv, ChainInv
<1>2. ASSUME NEW t \in CaTypes
      PROVE  /\ Active(t) = {} => Newest(Active(t)) = 0
             /\ Active(t) # {} => Newest(Active(t)) \in Active(t)
  <2>1. Len(certs) \in Nat
    BY <1>1 DEF PkiTypeOK
  <2> QED
    BY <2>1, ActiveIds, NewestMember DEF Ids, Newest
<1>3. "root_ca" \in CaTypes /\ "intermediate_ca" \in CaTypes
  BY DEF CaTypes
<1>4. \A t \in CaTypes : \A c \in Active(t) :
         c \in SavedIds /\ certs[c].type = t /\ c # 0
  BY <1>1 DEF Active, SavedIds, Saved, Ids
<1>5. ParentOfLeaf # 0 =>
        ParentOfLeaf \in SavedIds /\ certs[ParentOfLeaf].type \in CaTypes
  BY <1>2, <1>3, <1>4 DEF ParentOfLeaf
<1>6. ASSUME ParentOfLeaf # 0, InForce(IssuingCa),
             ~Severed(IssuingCa, ParentOfLeaf)
      PROVE  ParentOfLeaf = IssuingCa
  <2>1. /\ cache.root # 0 => cache.root \in Ids
        /\ cache.intermediate # 0 => cache.intermediate \in Ids
    BY <1>1, Issuers
  <2>2. CASE cache.intermediate # 0
    <3>1. cache.intermediate \in Active("intermediate_ca")
      BY <1>1, <1>6, <2>1, <2>2 DEF Active, InForce, IssuingCa, Roles
    <3>2. Newest(Active("intermediate_ca")) = cache.intermediate
      BY <1>1, <1>2, <1>3, <3>1 DEF OneActive
    <3> QED
      BY <2>2, <3>1, <3>2 DEF ParentOfLeaf, IssuingCa
  <2>3. CASE cache.intermediate = 0
    <3>1. cache.root # 0 /\ IssuingCa = cache.root
      BY <2>3 DEF IssuingCa
    <3>2. cache.root \in Active("root_ca")
      BY <1>1, <1>6, <2>1, <3>1 DEF Active, InForce, Roles
    <3>3. Active("intermediate_ca") = {}
      <4> SUFFICES ASSUME Active("intermediate_ca") # {} PROVE FALSE
        OBVIOUS
      <4> DEFINE p == ParentOfLeaf
      <4>1. p \in Active("intermediate_ca")
        BY <1>2, <1>3 DEF ParentOfLeaf
      <4> HIDE DEF p
      <4>2. /\ p \in Ids /\ p \in SavedIds /\ certs[p].type = "intermediate_ca"
            /\ certs[p].parent = certs[p].issuer
        BY <1>1, <1>3, <1>4, <4>1 DEF Active, CaParentIsIssuer
      <4>3. /\ certs[p].parent \in Ids /\ certs[certs[p].parent].type = "root_ca"
        BY <1>1, <4>2 DEF ParentRoles, SavedIds
      <4>4. InForce(certs[p].parent)
        BY <1>6, <4>2 DEF Severed, p
      <4>5. certs[p].parent = cache.root
        BY <1>1, <3>1, <4>3, <4>4 DEF ActiveRootCached, Active, InForce
      <4>6. p = cache.intermediate
        BY <1>1, <3>1, <4>1, <4>2, <4>5 DEF IntermediateCached
      <4> QED
        BY <1>4, <1>3, <2>3, <4>1, <4>6
    <3>4. Newest(Active("root_ca")) = cache.root
      BY <1>1, <1>2, <1>3, <3>2 DEF OneActive
    <3> QED
      BY <3>1, <3>3, <3>4 DEF ParentOfLeaf
  <2> QED
    BY <2>2, <2>3
<1>7. IssuingCa \in Ids
  <2>1. IssuingCa \in 0 .. Len(certs) /\ Len(certs) \in Nat
    BY <1>1, Issuers DEF PkiTypeOK
  <2> QED
    BY <2>1, SMT DEF Ids
<1>8. ParentOfLeaf # 0 => ParentOfLeaf \in Ids
  BY <1>5 DEF SavedIds
<1>9. ~InForce(IssuingCa) => Severed(IssuingCa, ParentOfLeaf)
  BY DEF Severed
<1> QED
  BY <1>5, <1>6, <1>7, <1>8, <1>9

\* While the caches stay, so does the agreement of cache and rows, unless an
\* intermediate is issued.
LEMMA CacheKept ==
  ASSUME PkiInv, ChainInv, NEW t \in LeafTypes, NEW issuer, NEW parent,
         NEW saved \in BOOLEAN, Grown(t, issuer, parent, saved), cache' = cache
  PROVE  IntermediateCached'
<1>1. t # "intermediate_ca"
  BY PkiAssumption
<1>2. Active("intermediate_ca")' = Active("intermediate_ca")
  BY <1>1, GrownSets
<1>3. \A c \in Active("intermediate_ca") : certs'[c] = certs[c]
  BY DEF Active, Grown
<1> QED
  BY <1>2, <1>3 DEF IntermediateCached, ChainInv

\* Every handler keeps the chains.
LEMMA ChainStep == PkiInv /\ ChainInv /\ [PkiNext]_pki => ChainInv'
<1> SUFFICES ASSUME PkiInv, ChainInv, [PkiNext]_pki PROVE ChainInv'
  OBVIOUS
<1>1. /\ PkiTypeOK /\ CertRoles /\ Roles /\ ActiveRootCached /\ OneActive
      /\ ParentRoles /\ DeniedRevoked /\ IntermediateCached /\ ParentsSign
      /\ CaParentIsIssuer
  BY DEF PkiInv, ChainInv
<1>2. /\ \A t : Newest(Active(t)) \in 0 .. Len(certs)
      /\ \A t : Active(t) # {} => Newest(Active(t)) \in Active(t)
  <2>1. Len(certs) \in Nat
    BY <1>1 DEF PkiTypeOK
  <2> QED
    BY <2>1, ActiveIds, NewestMember DEF Ids
<1>3. CASE CreateRootCa
  <2>1. PICK saved \in BOOLEAN : Record("root_ca", New, 0, saved) /\ Raises(~saved)
    BY <1>3 DEF CreateRootCa
  <2>2. /\ cache' = [cache EXCEPT !.root = New] /\ denied' = denied
        /\ Active("root_ca") = {}
    BY <1>3 DEF CreateRootCa, MakeRoot
  <2>3. 0 \in 0 .. Len(certs) /\ New \in 1 .. New /\ "root_ca" \in CaTypes
    BY <1>1, Issuers, SMT DEF CaTypes, PkiTypeOK
  <2>4. Grown("root_ca", New, 0, saved)
    BY <1>1, <2>1, <2>3, Recorded
  <2>5. Active("intermediate_ca")' = Active("intermediate_ca")
    <3>1. "intermediate_ca" # "root_ca"
      OBVIOUS
    <3> QED
      BY <2>4, <3>1, GrownSets
  <2>6. IntermediateCached'
    <3> SUFFICES ASSUME NEW c \in Active("intermediate_ca")
                 PROVE  certs'[c].issuer # New
      BY <1>1, <2>2, <2>5 DEF IntermediateCached, PkiTypeOK
    <3>1. c \in Ids
      BY DEF Active
    <3>2. certs'[c] = certs[c] /\ certs[c].issuer \in Ids
      BY <1>1, <2>4, <3>1, GrownIssuer
    <3>3. New \notin Ids
      BY <2>4 DEF Grown
    <3> QED
      BY <3>2, <3>3
  <2> QED
    BY <2>2, <2>3, <2>4, <2>6, IssuingKeepsChains
<1>4. CASE CreateIntermediateCa
  <2> DEFINE parent == Newest(Active("root_ca"))
  <2>1. PICK saved \in BOOLEAN, cached \in BOOLEAN :
          /\ saved => cached
          /\ MakeIntermediate(cached)
          /\ Record("intermediate_ca", cache.root, parent, saved)
          /\ Raises(~saved)
    BY <1>4 DEF CreateIntermediateCa
  <2>2. /\ cache.root # 0 /\ cached => cache'.intermediate = New
        /\ denied' = denied
        /\ Active("root_ca") # {} /\ Active("intermediate_ca") = {}
    BY <1>1, <1>4, <2>1 DEF CreateIntermediateCa, MakeIntermediate, PkiTypeOK
  <2>3. parent \in 0 .. Len(certs) /\ parent \in Active("root_ca")
    BY <1>2, <2>2
  <2>4. parent = cache.root
    BY <1>1, <2>1, <2>3 DEF ActiveRootCached, MakeIntermediate
  <2>5. cache.root # 0 /\ cache.root \in 1 .. New /\ "intermediate_ca" \in CaTypes
    BY <1>1, <2>1, Issuers DEF CaTypes, MakeIntermediate
  <2> HIDE DEF parent
  <2>6. Grown("intermediate_ca", cache.root, parent, saved)
    BY <1>1, <2>1, <2>3, <2>5, Recorded
  <2>7. parent \in SavedIds /\ certs[parent].type = "root_ca"
    BY <2>3 DEF Active, SavedIds, Saved
  <2>8. IntermediateCached'
    <3> SUFFICES ASSUME NEW c \in Active("intermediate_ca")'
                 PROVE  c = cache'.intermediate
      BY DEF IntermediateCached
    <3>1. c = New /\ saved
      BY <2>2, <2>6, GrownSets
    <3> QED
      BY <2>1, <2>2, <2>5, <3>1
  <2>9. "root_ca" \in CaTypes /\ "intermediate_ca" # "root_ca"
    BY DEF CaTypes
  <2> QED
    BY <2>2, <2>3, <2>4, <2>5, <2>6, <2>7, <2>8, <2>9, IssuingKeepsChains
<1>5. ASSUME NEW t \in LeafTypes, NEW saved \in BOOLEAN, IssuingCa # 0,
             Record(t, IssuingCa, ParentOfLeaf, saved),
             UNCHANGED <<cache, denied>>
      PROVE  ChainInv'
  <2>1. t # "root_ca" /\ t # "intermediate_ca" /\ t \in CaTypes \cup LeafTypes
    BY <1>5, PkiAssumption
  <2>2. IssuingCa \in 1 .. New /\ ParentOfLeaf \in 0 .. Len(certs)
    BY <1>1, <1>5, Issuers
  <2>3. Grown(t, IssuingCa, ParentOfLeaf, saved)
    BY <1>1, <1>5, <2>1, <2>2, Recorded
  <2>4. IntermediateCached'
    BY <1>5, <2>3, CacheKept
  <2> QED
    BY <1>5, <2>1, <2>2, <2>3, <2>4, LeafParent, IssuingKeepsChains
<1>6. CASE IssueDeviceCertificate
  BY <1>5, <1>6 DEF IssueDeviceCertificate
<1>7. CASE IssueSigningCertificate
  BY <1>5, <1>7 DEF IssueSigningCertificate, MakeSigning
<1>8. ASSUME NEW c, RevokeCertificate(c) PROVE ChainInv'
  <2>1. UNCHANGED <<cache, faults>> /\ denied' = denied \cup {c}
    BY <1>8 DEF RevokeCertificate
  <2>2. /\ Ids' = Ids /\ c \in Ids
        /\ \A e \in Ids : /\ certs'[e].type = certs[e].type
                          /\ certs'[e].issuer = certs[e].issuer
                          /\ certs'[e].parent = certs[e].parent
                          /\ certs'[e].row = IF e = c THEN "revoked" ELSE certs[e].row
        /\ certs[c].row = "active"
    BY <1>1, <1>8, Revoked
  <2>3. \A e \in SavedIds : e \in Ids
    BY DEF SavedIds
  <2>4. SavedIds' = SavedIds /\ Active("intermediate_ca")' \subseteq Active("intermediate_ca")
    BY <2>2 DEF SavedIds, Saved, Active
  <2>5. \A e \in Ids : InForce(e)' => InForce(e)
    BY <2>2 DEF InForce
  <2>6. ParentRoles'
    BY <1>1, <2>2, <2>3, <2>4 DEF ParentRoles
  <2>7. DeniedRevoked'
    BY <1>1, <2>1, <2>2 DEF DeniedRevoked, PkiTypeOK
  <2>8. IntermediateCached'
    BY <1>1, <2>1, <2>2, <2>4 DEF IntermediateCached, Active
  <2>9. ParentsSign'
    <3> SUFFICES ASSUME NEW e \in SavedIds, NEW i, i = certs'[e].issuer,
                        NEW p, p = certs'[e].parent
                 PROVE  p \in {0, i} \/ Severed(i, p)'
      BY <2>4 DEF ParentsSign, Severed, InForce
    <3>1. /\ e \in Ids /\ i \in Ids
          /\ i = certs[e].issuer /\ p = certs[e].parent
      <4>1. e \in Ids
        BY <2>3
      <4>2. certs[e].issuer \in Ids
        BY <1>1, <4>1, SMT DEF PkiTypeOK, Ids
      <4> QED
        BY <2>2, <4>1, <4>2
    <3>2. CASE p # 0 /\ Severed(i, p)
      <4>1. p \in Ids
        BY <1>1, <2>3, <3>1, <3>2 DEF ParentRoles
      <4>2. certs[p].type = "intermediate_ca" => certs[p].parent \in Ids
        BY <1>1, <2>3, <4>1 DEF ParentRoles
      <4>3. /\ certs'[p].type = certs[p].type
            /\ certs'[p].parent = certs[p].parent
        BY <2>2, <4>1
      <4> QED
        BY <2>5, <3>1, <3>2, <4>1, <4>2, <4>3 DEF Severed, InForce
    <3> QED
      BY <1>1, <3>1, <3>2 DEF ParentsSign
  <2> QED
    BY <2>6, <2>7, <2>8, <2>9 DEF ChainInv
<1>9. ASSUME NEW c, Expire(c) PROVE ChainInv'
  BY <1>1, <1>9 DEF Expire, ChainInv, ParentRoles, DeniedRevoked, IntermediateCached,
     ParentsSign, Severed, InForce, SavedIds, Saved, Active, Ids
<1>10. CASE Restart
  BY <1>1, <1>10 DEF Restart, ChainInv, ParentRoles, DeniedRevoked, IntermediateCached,
     ParentsSign, Severed, InForce, SavedIds, Saved, Active, Ids
<1>11. CASE UNCHANGED pki
  BY <1>1, <1>11 DEF pki, ChainInv, ParentRoles, DeniedRevoked, IntermediateCached,
     ParentsSign, Severed, InForce, SavedIds, Saved, Active, Ids
<1> QED
  BY <1>3, <1>4, <1>6, <1>7, <1>8, <1>9, <1>10, <1>11 DEF PkiNext

-----------------------------------------------------------------------------
\* A listed chain of active, unexpired certificates under a trusted root
\* validates when the CA that signed its first certificate is active, for any
\* number of certificates, revocations, restarts and failed requests.
THEOREM ListedChainsCorrect == PkiSpec => []ListedChainValidates
<1>1. PkiInit => ChainInv
  <2> SUFFICES ASSUME PkiInit PROVE ChainInv
    OBVIOUS
  <2>1. Ids = {} /\ denied = {}
    BY DEF PkiInit, Ids
  <2> QED
    BY <2>1 DEF PkiInit, ChainInv, ParentRoles, DeniedRevoked, IntermediateCached,
       ParentsSign, SavedIds, Active
<1> QED
  BY <1>1, ChainStep, ListedValidates, PkiInvariant, PTL DEF PkiSpec
=============================================================================

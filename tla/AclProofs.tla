------------------------------- MODULE AclProofs -------------------------------
(***************************************************************************)
(* Theorems about the access control lists, for any set of names, any      *)
(* certificate and any order in which entries are added.                   *)
(***************************************************************************)
EXTENDS Acl, TLAPS

(* The server's copy of the checks accepts what the lists say              *)
(* (auth.go:77-102).                                                       *)
LEMMA ServerChecksListed ==
    ASSUME NEW lists, NEW cert
    PROVE  ServerChecks(lists, cert) <=> Listed(lists, cert)
BY DEF ServerChecks, Listed, contains, intersects, intersectsIP, intersectsURI

(* So does the client's copy (auth.go:123-148). *)
LEMMA ClientChecksListed ==
    ASSUME NEW lists, NEW cert
    PROVE  ClientChecks(lists, cert) <=> Listed(lists, cert)
BY DEF ClientChecks, Listed, contains, intersects, intersectsIP, intersectsURI

(* No certificate is on lists without entries. *)
LEMMA EmptyListsNothing ==
    ASSUME NEW lists, NEW cert, Empty(lists)
    PROVE  ~Listed(lists, cert)
BY DEF Empty, Lists, Listed

(* A certificate that is on some lists is on all larger ones: each check   *)
(* of auth.go looks for one entry and none looks for an absence.           *)
LEMMA ListedMonotone ==
    ASSUME NEW lists, NEW more, NEW cert,
           \A l \in Lists : lists[l] \subseteq more[l],
           Listed(lists, cert)
    PROVE  Listed(more, cert)
BY DEF Lists, Listed

(* Adding an entry (one more flag, main.go:420-428) leaves the other       *)
(* entries and AllowAll as they are.                                       *)
LEMMA AllowAdds ==
    ASSUME AclTypeOK, [AclNext]_aclVars
    PROVE  /\ \A l \in Lists : allowed[l] \subseteq allowed'[l]
           /\ UNCHANGED AllowAll
BY DEF AclTypeOK, AclNext, Allow, aclVars

(* Each list only ever holds entries of its own kind, URI patterns in the  *)
(* URI list and names in the others (ACL, auth.go:35-61).                  *)
THEOREM AclTypeCorrect == AclSpec => []AclTypeOK
<1>1. AclInit => AclTypeOK
  BY DEF AclInit, AclTypeOK
<1>2. ASSUME AclTypeOK, [AclNext]_aclVars
      PROVE  AclTypeOK'
  <2>1. CASE UNCHANGED aclVars
    BY <1>2, <2>1 DEF AclTypeOK, aclVars
  <2>2. ASSUME NEW l \in Lists, NEW x \in Entries(l), Allow(l, x)
        PROVE  AclTypeOK'
    <3>1. DOMAIN allowed' = Lists
      BY <1>2, <2>2 DEF AclTypeOK, Allow
    <3>2. \A k \in Lists : allowed'[k] \subseteq Entries(k)
      BY <1>2, <2>2 DEF AclTypeOK, Allow
    <3>3. QED
      BY <1>2, <2>2, <3>1, <3>2 DEF AclTypeOK, Allow
  <2>3. QED
    BY <1>2, <2>1, <2>2 DEF AclNext
<1>3. QED
  BY <1>1, <1>2, PTL DEF AclSpec

(* Without a verified chain nobody is let in, and without entries and      *)
(* --allow-all no client is (VerifyPeerCertificateServer, auth.go:67-105). *)
THEOREM AclFailsClosed == AclSpec => []FailsClosed
<1>1. FailsClosed
  BY EmptyListsNothing, ServerChecksListed
     DEF FailsClosed, ServerAllows, ClientAllows,
         VerifyPeerCertificateServer, VerifyPeerCertificateClient
<1>2. QED
  BY <1>1, PTL

(* The two copies of the checks in auth.go accept the same certificates,   *)
(* those that the lists name, whenever a list has an entry.                *)
THEOREM AclCallbacksAgree == AclSpec => []CallbacksAgree
<1>1. CallbacksAgree
  BY ServerChecksListed, ClientChecksListed
     DEF CallbacksAgree, ServerAllows, ClientAllows,
         VerifyPeerCertificateServer, VerifyPeerCertificateClient
<1>2. QED
  BY <1>1, PTL

(* One more entry never turns away a client that the server let in         *)
(* (auth.go:34, "disjunctive").                                            *)
THEOREM AclEntriesOnlyAdd == AclSpec => EntriesOnlyAdd
<1>1. ASSUME AclTypeOK, [AclNext]_aclVars
      PROVE  [\A chains \in Chains :
                 ServerAllows(chains) => ServerAllows(chains)']_aclVars
  BY <1>1, AllowAdds, ListedMonotone, ServerChecksListed
     DEF ServerAllows, VerifyPeerCertificateServer
<1>2. QED
  BY <1>1, AclTypeCorrect, PTL DEF AclSpec, EntriesOnlyAdd

(* On the client side only the first entry can turn a server away          *)
(* (VerifyPeerCertificateClient, auth.go:119-121).                         *)
THEOREM AclOnlyFirstEntryNarrows == AclSpec => OnlyFirstEntryNarrows
<1>1. ASSUME AclTypeOK, [AclNext]_aclVars
      PROVE  [\A chains \in Chains :
                 ClientAllows(chains) /\ ~ClientAllows(chains)' => Empty(allowed)]_aclVars
  BY <1>1, AllowAdds, ListedMonotone, ClientChecksListed
     DEF ClientAllows, VerifyPeerCertificateClient
<1>2. QED
  BY <1>1, AclTypeCorrect, PTL DEF AclSpec, OnlyFirstEntryNarrows

=============================================================================

---------------------------------- MODULE Acl ----------------------------------
(***************************************************************************)
(* The access control lists of auth/auth.go: what the two verification     *)
(* callbacks answer for a peer, and the flags that add entries to the      *)
(* lists one by one.  Reading the lists changes nothing, so that the       *)
(* answers are operators and the steps are those of the flags.  Module     *)
(* Startup has the rest of the command line and the handshakes.            *)
(***************************************************************************)
EXTENDS Sequences

CONSTANT Names   \* values of the attributes of a certificate

(* A URI pattern is the set of the URIs it matches. *)
Patterns == SUBSET Names
Lists == {"CN", "OU", "DNS", "IP", "URI"}
Entries(l) == IF l = "URI" THEN Patterns ELSE Names

(* A certificate has one common name, perhaps empty, and any number of the *)
(* other attributes.                                                       *)
Certificates ==
    [CN : Names \cup {""}, OU : SUBSET Names, DNS : SUBSET Names,
     IP : SUBSET Names, URI : SUBSET Names]

(* The verified chains a callback is given: none, or one with this leaf. *)
Chains == {<<>>} \cup {<<cert>> : cert \in Certificates}

VARIABLES
    AllowAll,        \* ACL.AllowAll
    allowed          \* ACL.AllowedCNs, AllowedOUs, ... by name

aclVars == <<AllowAll, allowed>>

AclInit ==
    /\ AllowAll \in BOOLEAN
    /\ allowed = [l \in Lists |-> {}]

(* Mutant: --allow-uri fills the list of DNS names. *)
AllowWrongList(l, x) ==
    /\ allowed' = [allowed EXCEPT ![IF l = "URI" THEN "DNS" ELSE l] = @ \cup {x}]
    /\ UNCHANGED AllowAll

(* One more --allow-cn, --verify-cn and so on. *)
Allow(l, x) ==
    /\ allowed' = [allowed EXCEPT ![l] = @ \cup {x}]
    /\ UNCHANGED AllowAll

AclNext == \E l \in Lists : \E x \in Entries(l) : Allow(l, x)

AclSpec == AclInit /\ [][AclNext]_aclVars

(* Values of the variables; each list holds entries of its own kind. *)
AclTypeOK ==
    /\ AllowAll \in BOOLEAN
    /\ DOMAIN allowed = Lists
    /\ \A l \in Lists : allowed[l] \subseteq Entries(l)

-----------------------------------------------------------------------------
contains(set, item) == item \in set

intersects(left, right) == \E item \in left : contains(right, item)

intersectsIP(left, right) == \E l \in left, r \in right : r = l

intersectsURI(left, right) == \E l \in left, r \in right : r \in l

(* The server's five checks, in the order of the code: the first that      *)
(* holds accepts the peer.                                                 *)
ServerChecks(lists, cert) ==
    \/ contains(lists["CN"], cert.CN)
    \/ intersects(lists["OU"], cert.OU)
    \/ intersects(lists["DNS"], cert.DNS)
    \/ intersectsIP(lists["IP"], cert.IP)
    \/ intersectsURI(lists["URI"], cert.URI)

(* Mutants: each list that has entries must match; a peer without a        *)
(* verified chain passes --allow-all.                                      *)
ServerConjunction(all, lists, chains) ==
    /\ chains # <<>>
    /\ \/ all
       \/ /\ lists["CN"] # {} => contains(lists["CN"], chains[1].CN)
          /\ lists["OU"] # {} => intersects(lists["OU"], chains[1].OU)
          /\ lists["URI"] # {} => intersectsURI(lists["URI"], chains[1].URI)

ServerAllBeforeChains(all, lists, chains) ==
    all \/ (chains # <<>> /\ ServerChecks(lists, chains[1]))

VerifyPeerCertificateServer(all, lists, chains) ==
    /\ chains # <<>>
    /\ all \/ ServerChecks(lists, chains[1])

Empty(lists) == \A l \in Lists : lists[l] = {}

(* Mutant: the client's check of the DNS names looks at the units. *)
ClientChecksWrongField(lists, cert) ==
    \/ contains(lists["CN"], cert.CN)
    \/ intersects(lists["OU"], cert.OU)
    \/ intersects(lists["DNS"], cert.OU)
    \/ intersectsIP(lists["IP"], cert.IP)
    \/ intersectsURI(lists["URI"], cert.URI)

(* The client's own copy of the five checks. *)
ClientChecks(lists, cert) ==
    \/ contains(lists["CN"], cert.CN)
    \/ intersects(lists["OU"], cert.OU)
    \/ intersects(lists["DNS"], cert.DNS)
    \/ intersectsIP(lists["IP"], cert.IP)
    \/ intersectsURI(lists["URI"], cert.URI)

(* Mutant: the test for an empty list forgets the IP addresses. *)
ClientForgetsIP(lists, chains) ==
    /\ chains # <<>>
    /\ (\A l \in Lists \ {"IP"} : lists[l] = {}) \/ ClientChecks(lists, chains[1])

VerifyPeerCertificateClient(lists, chains) ==
    /\ chains # <<>>
    /\ Empty(lists) \/ ClientChecks(lists, chains[1])

-----------------------------------------------------------------------------
ServerAllows(chains) == VerifyPeerCertificateServer(AllowAll, allowed, chains)
ClientAllows(chains) == VerifyPeerCertificateClient(allowed, chains)

(* Neither callback accepts a peer without a verified chain, whatever the  *)
(* lists, and "if the given ACL is empty, no clients will be allowed       *)
(* (fails closed)" (auth.go:65-69, 113).                                   *)
FailsClosed ==
    /\ ~ServerAllows(<<>>) /\ ~ClientAllows(<<>>)
    /\ ~AllowAll /\ Empty(allowed) => \A chains \in Chains : ~ServerAllows(chains)

(* "These options are disjunctive" (auth.go:34): one more entry never      *)
(* turns a client away that the server let in before.                      *)
EntriesOnlyAdd ==
    [][\A chains \in Chains : ServerAllows(chains) => ServerAllows(chains)']_aclVars

(* On the client side only the first entry of all can turn a server away   *)
(* that was accepted: an empty list means no check, a list of any kind     *)
(* means a check (auth.go:119-121).                                        *)
OnlyFirstEntryNarrows ==
    [][\A chains \in Chains :
          ClientAllows(chains) /\ ~ClientAllows(chains)' => Empty(allowed)]_aclVars

(* What the lists say of a certificate: some attribute has a value that is *)
(* on the list of its own name, or that a pattern there matches.           *)
Listed(lists, cert) ==
    \/ cert.CN \in lists["CN"]
    \/ \E l \in {"OU", "DNS", "IP"} : cert[l] \cap lists[l] # {}
    \/ cert.URI \cap UNION lists["URI"] # {}

(* Each callback has its own copy of the checks (auth.go:77-102, 123-148). *)
(* On a list with entries both copies say what the lists say, each         *)
(* attribute against the list of its own name, and hence the same.         *)
CallbacksAgree ==
    ~AllowAll /\ ~Empty(allowed) =>
        \A cert \in Certificates :
            /\ ServerAllows(<<cert>>) <=> Listed(allowed, cert)
            /\ ClientAllows(<<cert>>) <=> Listed(allowed, cert)

=============================================================================

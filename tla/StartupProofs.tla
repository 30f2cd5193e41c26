----------------------------- MODULE StartupProofs -----------------------------
(***************************************************************************)
(* Theorems about the way from the command line to the handshakes, for any *)
(* names, any flags and any peer.                                          *)
(***************************************************************************)
EXTENDS Startup, AclProofs

(* What the certificate must be once the flags of the mode are checked. *)
Fits(c) ==
    /\ c = "nil" <=> mode = "client" /\ disableAuth
    /\ c = "pkcs11" <=> "pkcs11" \in given

(* The certificate is what buildCertificate makes of the flags; the checks *)
(* that come after it make it fit, and the configuration takes it over.    *)
CertInv ==
    /\ phase # "panic"
    /\ phase = "validate" => cert \in buildCertificate
    /\ phase = "listen" => Fits(cert)
    /\ phase = "serving" => Fits(config.Certificate)

(* Only a process that serves has sessions, and a client's configuration   *)
(* has the name that was asked for.                                        *)
SessionInv ==
    /\ phase # "serving" => session = <<>>
    /\ phase = "serving" /\ mode = "client" =>
          config.ServerName = IF override THEN "override" ELSE host
    /\ ServerIsVerified

IInv == TypeOK /\ CertInv /\ SessionInv

-----------------------------------------------------------------------------
(* A step of Startup is a step of Acl or leaves the lists alone. *)
LEMMA StepOfAcl ==
    ASSUME [Next]_vars
    PROVE  [AclNext]_aclVars
BY DEF Next, vars, ListFlag, ParseFlags, InitProcess, LoadCertificate,
       ValidateServer, ValidateClient, ConfigError, ServerListen,
       ClientBackendDialer, Handshake

(* The lists of Startup behave as module Acl says: what is true of the     *)
(* lists there is true in the whole program (main.go:73-91, 420, 619).     *)
THEOREM StartupImplementsAcl == Spec => AclSpec
<1>1. Init => AclInit
  BY DEF Init
<1> QED
  BY <1>1, StepOfAcl, PTL DEF Spec, AclSpec

-----------------------------------------------------------------------------
(* What both modes take over from buildConfig (tls.go:130-147). *)
LEMMA BuildConfigFields ==
    /\ buildConfig.ClientAuth = "NoClientCert"
    /\ buildConfig.ServerName = ""
    /\ buildConfig.Certificate = "nil"
BY DEF buildConfig

(* The configuration of a client (main.go:601-648, dialer.go:45-56). *)
LEMMA DialerConfig ==
    ASSUME ClientBackendDialer
    PROVE  config' = [ClientAuth |-> "NoClientCert",
                      ServerName |-> IF override THEN "override" ELSE host,
                      Certificate |-> cert]
<1> DEFINE conf == [ClientAuth |-> buildConfig.ClientAuth,
                    ServerName |-> IF override THEN "override" ELSE host,
                    Certificate |-> buildConfig.Certificate]
<1>1. config' = DialerWithCertificate(conf)
  BY DEF ClientBackendDialer
<1>2. /\ conf.ClientAuth = "NoClientCert"
      /\ conf.ServerName = IF override THEN "override" ELSE host
      /\ conf.Certificate = "nil"
  BY BuildConfigFields
<1>3. (IF cert # "nil" /\ conf.Certificate = "nil" THEN cert ELSE conf.Certificate)
         = cert
  BY <1>2
<1> QED
  BY <1>1, <1>2, <1>3 DEF DialerWithCertificate

(* Every step keeps the types. *)
LEMMA TypeStep ==
    ASSUME TypeOK, [Next]_vars
    PROVE  TypeOK'
<1>0. AclTypeOK'
  <2>1. ASSUME NEW l \in Lists, NEW x \in Entries(l), Allow(l, x)
        PROVE  AclTypeOK'
    BY <2>1 DEF TypeOK, AclTypeOK, Allow
  <2>2. CASE UNCHANGED aclVars
    BY <2>2 DEF TypeOK, AclTypeOK, aclVars
  <2> QED
    BY <2>1, <2>2, StepOfAcl DEF AclNext
<1> USE <1>0 DEF TypeOK, flags
<1>1. CASE ListFlag \/ InitProcess \/ ConfigError \/ UNCHANGED vars
  BY <1>1 DEF ListFlag, InitProcess, ConfigError, vars
<1>2. CASE ParseFlags
  BY <1>2 DEF ParseFlags
<1>3. CASE LoadCertificate
  <2>1. buildCertificate \subseteq Sources \cup {"nil", "error"}
    BY DEF buildCertificate, Sources
  <2>2. /\ cert' \in Sources \cup {"nil"}
        /\ phase' \in {"exit", "validate"}
        /\ UNCHANGED <<aclVars, flags, host, config, session>>
    BY <1>3, <2>1 DEF LoadCertificate
  <2> QED
    BY <2>2
<1>4. CASE ValidateServer \/ ValidateClient
  BY <1>4 DEF ValidateServer, ValidateClient, parsedHost
<1>5. CASE ServerListen \/ ClientBackendDialer
  <2>1. config' \in [ClientAuth : {"NoClientCert"},
                     ServerName : {"", "target", "override"},
                     Certificate : Sources \cup {"nil"}]
    <3>1. CASE ServerListen /\ cert # "nil"
      <4>1. /\ (IF disableAuth THEN "NoClientCert" ELSE buildConfig.ClientAuth)
                   = "NoClientCert"
            /\ buildConfig.ServerName = ""
        BY BuildConfigFields
      <4>2. config' = [ClientAuth |-> "NoClientCert", ServerName |-> "",
                       Certificate |-> cert]
        BY <3>1, <4>1 DEF ServerListen
      <4> QED
        BY <4>2
    <3>2. CASE ServerListen /\ cert = "nil"
      BY <3>2 DEF ServerListen
    <3>3. CASE ClientBackendDialer
      <4>1. (IF override THEN "override" ELSE host) \in {"", "target", "override"}
        BY DEF TypeOK
      <4>2. cert \in Sources \cup {"nil"}
        BY DEF TypeOK
      <4>3. PICK name \in {"", "target", "override"} :
               config' = [ClientAuth |-> "NoClientCert", ServerName |-> name,
                          Certificate |-> cert]
        BY <3>3, <4>1, DialerConfig
      <4> QED
        BY <4>2, <4>3
    <3> QED
      BY <1>5, <3>1, <3>2, <3>3
  <2> QED
    BY <1>5, <2>1 DEF ServerListen, ClientBackendDialer
<1>6. ASSUME NEW p \in Peers, Handshake(p) PROVE TypeOK'
  BY <1>6 DEF Handshake
<1> QED
  BY <1>1, <1>2, <1>3, <1>4, <1>5, <1>6 DEF Next

(* The checks of a mode leave only certificates that fit it (main.go:220,  *)
(* 250, 253): what buildCertificate returned without them has either       *)
(* failed or is refused.                                                   *)
LEMMA ValidatedFits ==
    ASSUME cert \in buildCertificate, cert # "error",
           disableAuth \in BOOLEAN, mode \in {"server", "client"},
           mode = "server" =>
              \E f \in ServerFlags : serverValidateFlags(f),
           mode = "client" =>
              \E f \in ClientFlags : clientValidateFlags(f)
    PROVE  Fits(cert)
BY DEF buildCertificate, serverValidateFlags, clientValidateFlags, Fits

(* Every step keeps the certificate in line with the flags. *)
LEMMA CertStep ==
    ASSUME TypeOK, CertInv, [Next]_vars
    PROVE  CertInv'
<1> USE DEF CertInv, Fits, flags, buildCertificate
<1>1. CASE ListFlag \/ InitProcess \/ ConfigError \/ UNCHANGED vars
  BY <1>1 DEF ListFlag, InitProcess, ConfigError, vars
<1>7. CASE ParseFlags
  BY <1>7 DEF ParseFlags
<1>2. CASE LoadCertificate
  BY <1>2 DEF LoadCertificate
<1>3. CASE ValidateServer
  <2>1. phase' = "listen" => Fits(cert)
    BY <1>3, ValidatedFits DEF ValidateServer, TypeOK, Sources
  <2> QED
    BY <1>3, <2>1 DEF ValidateServer
<1>4. CASE ValidateClient
  <2>1. phase' = "listen" => Fits(cert)
    BY <1>4, ValidatedFits DEF ValidateClient, TypeOK, Sources
  <2> QED
    BY <1>4, <2>1 DEF ValidateClient
<1>5. CASE ServerListen \/ ClientBackendDialer
  <2>1. cert # "nil" \/ mode = "client"
    BY <1>5 DEF ServerListen, ClientBackendDialer
  <2>2. config'.Certificate = cert
    BY <1>5, <2>1, DialerConfig DEF ServerListen
  <2> QED
    BY <1>5, <2>1, <2>2 DEF ServerListen, ClientBackendDialer
<1>6. ASSUME NEW p \in Peers, Handshake(p) PROVE CertInv'
  BY <1>6 DEF Handshake
<1> QED
  BY <1>1, <1>2, <1>3, <1>4, <1>5, <1>6, <1>7 DEF Next

(* Every step keeps what is known of the peer of a session. *)
LEMMA SessionStep ==
    ASSUME TypeOK, SessionInv, [Next]_vars
    PROVE  SessionInv'
<1> USE DEF SessionInv, ServerIsVerified, flags
<1>1. CASE ListFlag \/ InitProcess \/ ConfigError \/ ParseFlags \/ LoadCertificate
  BY <1>1 DEF ListFlag, InitProcess, ConfigError, ParseFlags, LoadCertificate, buildCertificate
<1>2. CASE UNCHANGED vars
  BY <1>2 DEF vars, aclVars
<1>3. CASE ValidateServer \/ ValidateClient
  BY <1>3 DEF ValidateServer, ValidateClient
<1>4. CASE ServerListen \/ ClientBackendDialer
  <2>1. ClientBackendDialer =>
           config'.ServerName = IF override THEN "override" ELSE host
    BY DialerConfig
  <2> QED
    BY <1>4, <2>1 DEF ServerListen, ClientBackendDialer
<1>5. ASSUME NEW p \in Peers, Handshake(p) PROVE SessionInv'
  <2>1. session' = <<p>> /\ session'[1] = p
    BY <1>5 DEF Handshake
  <2>2. UNCHANGED <<phase, mode, override, host, config, allowed>> /\ phase = "serving"
    BY <1>5 DEF Handshake, aclVars
  <2>3. mode = "client" => /\ p.chains # <<>>
                           /\ p.host = config.ServerName
                           /\ Empty(allowed) \/ Listed(allowed, p.chains[1])
    BY <1>5, ClientChecksListed DEF Handshake, ClientAccepts, ClientAllows, VerifyPeerCertificateClient
  <2> QED
    BY <2>1, <2>2, <2>3
<1> QED
  BY <1>1, <1>2, <1>3, <1>4, <1>5 DEF Next

(* The invariant holds from the command line on. *)
THEOREM StartupInvariance == Spec => []IInv
<1>1. Init => IInv
  <2> SUFFICES ASSUME Init PROVE IInv
    OBVIOUS
  <2> USE DEF Init
  <2>1. AclTypeOK
    BY DEF AclInit, AclTypeOK
  <2>2. config \in [ClientAuth : {"NoClientCert"},
                    ServerName : {"", "target", "override"},
                    Certificate : Sources \cup {"nil"}]
    BY DEF buildConfig
  <2>3. TypeOK
    BY <2>1, <2>2 DEF TypeOK
  <2> QED
    BY <2>3 DEF IInv, CertInv, SessionInv, ServerIsVerified
<1>2. IInv /\ [Next]_vars => IInv'
  BY TypeStep, CertStep, SessionStep DEF IInv
<1> QED
  BY <1>1, <1>2, PTL DEF Spec

-----------------------------------------------------------------------------
(* Values stay in their types through all phases of run (main.go:282). *)
THEOREM StartupTypeCorrect == Spec => []TypeOK
BY StartupInvariance, PTL DEF IInv

(* For any flags: a server never uses a certificate it does not have, and  *)
(* a client presents none exactly when told so (main.go:337-430).          *)
THEOREM CertificateAlwaysFits == Spec => []CertificateFitsFlags
<1>1. IInv => CertificateFitsFlags
  BY DEF IInv, CertInv, Fits, CertificateFitsFlags
<1> QED
  BY <1>1, StartupInvariance, PTL

(* For any names and any peer: a client talks only to a server that was    *)
(* verified for the name asked for and is on the lists (main.go:607-628).  *)
THEOREM ServersAreVerified == Spec => []ServerIsVerified
BY StartupInvariance, PTL DEF IInv, SessionInv

-----------------------------------------------------------------------------
(* The lists of a server are the ones its flags ask for, from the checks   *)
(* on, and its patterns have compiled.                                     *)
ListsFitFlags ==
    /\ mode = "server" /\ phase \in {"listen", "serving"} =>
          /\ disableAuth <=> ~AllowAll /\ Empty(allowed)
          /\ AllowAll => Empty(allowed)
    /\ phase = "serving" => ~badPattern

(* The lists do not change once they have been checked. *)
LEMMA ListsStep ==
    ASSUME TypeOK, ListsFitFlags, [Next]_vars
    PROVE  ListsFitFlags'
<1> USE DEF ListsFitFlags, flags
<1>1. CASE phase' \notin {"listen", "serving"}
  BY <1>1
<1>2. CASE ValidateServer
  <2>1. phase' = "listen" => \E f \in ServerFlags : serverValidateFlags(f)
    BY <1>2 DEF ValidateServer
  <2>2. UNCHANGED <<AllowAll, allowed, disableAuth, mode>>
    BY <1>2 DEF ValidateServer, aclVars
  <2>3. phase' # "serving"
    BY <1>2 DEF ValidateServer
  <2>4. disableAuth \in BOOLEAN /\ AllowAll \in BOOLEAN
    BY DEF TypeOK, AclTypeOK
  <2> QED
    BY <2>1, <2>2, <2>3, <2>4 DEF serverValidateFlags, Empty
<1>3. CASE ValidateClient
  BY <1>3 DEF ValidateClient
<1>4. CASE ServerListen \/ ClientBackendDialer
  <2>1. /\ UNCHANGED <<AllowAll, allowed, disableAuth, mode, badPattern>>
        /\ phase = "listen" /\ ~badPattern
    BY <1>4 DEF ServerListen, ClientBackendDialer, aclVars
  <2> QED
    BY <2>1 DEF Empty
<1>5. CASE UNCHANGED <<AllowAll, allowed, disableAuth, mode, badPattern, phase>>
  BY <1>5 DEF Empty
<1>6. \/ phase' \notin {"listen", "serving"}
      \/ ValidateServer \/ ValidateClient \/ ServerListen \/ ClientBackendDialer
      \/ UNCHANGED <<AllowAll, allowed, disableAuth, mode, badPattern, phase>>
  BY DEF Next, ListFlag, ParseFlags, InitProcess, LoadCertificate, ConfigError,
         Handshake, vars, aclVars
<1> QED
  BY <1>1, <1>2, <1>3, <1>4, <1>5, <1>6

(* For any flags: a server that listens has neither --allow-all nor an     *)
(* entry exactly with --disable-authentication, and otherwise one of the   *)
(* two but not both, so that its callback neither refuses everybody nor    *)
(* ignores an entry; no pattern that does not compile gets that far        *)
(* (main.go:226-234, 414, 613).                                            *)
THEOREM ServerListsFitFlags == Spec => []ListsFitFlags
<1>1. Init => ListsFitFlags
  BY DEF Init, ListsFitFlags
<1>2. IInv /\ ListsFitFlags /\ [Next]_vars => ListsFitFlags'
  BY ListsStep DEF IInv
<1> QED
  BY <1>1, <1>2, StartupInvariance, PTL DEF Spec

=============================================================================

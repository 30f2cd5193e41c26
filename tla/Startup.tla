-------------------------------- MODULE Startup --------------------------------
(***************************************************************************)
(* From the command line to the handshakes: run, serverListen and          *)
(* clientBackendDialer of main.go with the flags they check, tls.go, and   *)
(* the access control lists of module Acl.                                 *)
(*                                                                         *)
(* A flag that only one check looks at is an input of the step that makes  *)
(* the check; what is used later is a variable.  Reading a file or opening *)
(* a device may fail at any time.  Module Daemon goes on from "serving".   *)
(***************************************************************************)
EXTENDS Acl

VARIABLES
    phase,         \* where run is
    mode,          \* the command: "server" or "client"
    disableAuth,   \* --disable-authentication
    given,         \* which of --keystore, --keychain-identity and
                   \* --pkcs11-module (or its environment variable) are set
    override,      \* --override-server-name is set
    badPattern,    \* some --allow-uri or --verify-uri does not compile
    cert,          \* the certificate of run: where its key is from, or "nil"
    host,          \* the host name in the client's --target
    config,        \* the tls.Config of the listener or of the dialer
    session        \* the peer of a handshake that succeeded

flags == <<mode, disableAuth, given, override, badPattern>>
vars == <<aclVars, flags, phase, cert, host, config, session>>

Sources == {"keystore", "keychain", "pkcs11"}

(* What buildConfig returns, and what is filled in later. *)
buildConfig == [ClientAuth |-> "NoClientCert", ServerName |-> "", Certificate |-> "nil"]

(* The other end of a handshake: its verified chain, if any, and the name  *)
(* its certificate is good for.                                            *)
Peers == [chains : Chains, host : {"target", "override"}]

TypeOK ==
    /\ AclTypeOK
    /\ phase \in {"flags", "init", "cert", "validate", "listen", "serving",
                  "exit", "panic"}
    /\ mode \in {"server", "client"}
    /\ disableAuth \in BOOLEAN
    /\ given \subseteq Sources
    /\ override \in BOOLEAN
    /\ badPattern \in BOOLEAN
    /\ cert \in Sources \cup {"nil"}
    /\ host \in {"", "target"}
    /\ config \in [ClientAuth : {"NoClientCert"},
                   ServerName : {"", "target", "override"},
                   Certificate : Sources \cup {"nil"}]
    /\ session = <<>> \/ \E p \in Peers : session = <<p>>

(* --allow-all is a flag of the server only. *)
Init ==
    /\ AclInit
    /\ phase = "flags"
    /\ mode \in IF AllowAll THEN {"server"} ELSE {"server", "client"}
    /\ disableAuth = FALSE
    /\ given = {}
    /\ override = FALSE
    /\ badPattern = FALSE
    /\ cert = "nil"
    /\ host = ""
    /\ config = buildConfig
    /\ session = <<>>

-----------------------------------------------------------------------------
(* Flags. *)

ListFlag ==
    /\ phase = "flags"
    /\ AclNext
    /\ UNCHANGED <<flags, phase, cert, host, config, session>>

CommonFlags == [pprof : BOOLEAN, status : BOOLEAN,
                metricsURL : {"", "http", "other"}, timeout : {0, 10}]

validateFlags(f) ==
    /\ f.pprof => f.status
    /\ f.metricsURL # "other"
    /\ f.timeout # 0

(* The rest of the command line, which kingpin has validated. *)
ParseFlags ==
    /\ phase = "flags"
    /\ phase' \in {IF validateFlags(f) THEN "init" ELSE "exit" : f \in CommonFlags}
    /\ disableAuth' \in BOOLEAN
    /\ given' \in SUBSET Sources
    /\ override' \in IF mode = "client" THEN BOOLEAN ELSE {FALSE}
    /\ badPattern' \in IF allowed["URI"] = {} THEN {FALSE} ELSE BOOLEAN
    /\ UNCHANGED <<aclVars, mode, cert, host, config, session>>

(* Logger, descriptor limit and the CA bundle for the metrics. *)
InitProcess ==
    /\ phase = "init"
    /\ phase' \in {"cert", "exit"}
    /\ UNCHANGED <<aclVars, flags, cert, host, config, session>>

(* What buildCertificate may return.  The PKCS#11 module goes first and    *)
(* reads its chain from the keystore path, which must not be empty then.   *)
buildCertificate ==
    IF "pkcs11" \in given THEN
        IF "keystore" \in given THEN {"pkcs11", "error"} ELSE {"error"}
    ELSE IF "keychain" \in given THEN {"keychain", "error"}
    ELSE IF "keystore" \in given THEN {"keystore", "error"}
    ELSE {"nil"}

LoadCertificate ==
    /\ phase = "cert"
    /\ \E c \in buildCertificate :
          /\ phase' = IF c = "error" THEN "exit" ELSE "validate"
          /\ cert' = IF c = "error" THEN cert ELSE c
    /\ UNCHANGED <<aclVars, flags, host, config, session>>

-----------------------------------------------------------------------------
(* The flags of one mode are checked only now. *)

(* A UNIX socket, a local or a remote host, ":PORT", or anything else. *)
Addresses == {"unix", "localhost", "remote", "hostless", "malformed"}

validateUnixOrLocalhost(addr) == addr \in {"unix", "localhost"}

(* parseUnixOrTCPAddress: is there no error, and what is the host? *)
parses(addr) == addr # "malformed"
parsedHost(addr) == IF addr \in {"localhost", "remote"} THEN "target" ELSE ""

(* The flags that only these checks look at; --cipher-suites has only      *)
(* names from the table of tls.go, or not.                                 *)
ServerFlags == [target : Addresses, unsafe : BOOLEAN, suites : {"known", "unknown"}]
ClientFlags == [listen : Addresses, unsafe : BOOLEAN, suites : {"known", "unknown"},
                proxy : {"none", "http", "other"}]

(* Mutant: a server may be started without any certificate. *)
ServerFlagsNoKeystore(f) ==
    /\ ~({"keystore", "keychain"} \subseteq given)
    /\ disableAuth <=> ~AllowAll /\ Empty(allowed)
    /\ ~(AllowAll /\ ~Empty(allowed))
    /\ f.unsafe \/ validateUnixOrLocalhost(f.target)
    /\ f.suites = "known"

serverValidateFlags(f) ==
    /\ {"keystore", "keychain"} \cap given # {}
    /\ ~({"keystore", "keychain"} \subseteq given)
    /\ disableAuth \/ AllowAll \/ ~Empty(allowed)
    /\ ~(~disableAuth /\ AllowAll /\ ~Empty(allowed))
    /\ ~(disableAuth /\ (AllowAll \/ ~Empty(allowed)))
    /\ f.unsafe \/ validateUnixOrLocalhost(f.target)
    /\ f.suites = "known"

clientValidateFlags(f) ==
    /\ disableAuth \/ {"keystore", "keychain"} \cap given # {}
    /\ ~({"keystore", "keychain"} \subseteq given)
    /\ ~(disableAuth /\ {"keystore", "keychain"} \cap given # {})
    /\ f.unsafe \/ validateUnixOrLocalhost(f.listen)
    /\ f.proxy # "other"
    /\ f.suites = "known"

(* The checks of the mode, and then the address to forward to. *)
ValidateServer ==
    /\ phase = "validate" /\ mode = "server"
    /\ phase' \in {IF serverValidateFlags(f) /\ parses(f.target)
                  THEN "listen" ELSE "exit" : f \in ServerFlags}
    /\ UNCHANGED <<aclVars, flags, cert, host, config, session>>

ValidateClient ==
    /\ phase = "validate" /\ mode = "client"
    /\ \E valid \in {clientValidateFlags(f) : f \in ClientFlags}, target \in Addresses :
             IF valid /\ parses(target)
             THEN phase' = "listen" /\ host' = parsedHost(target)
             ELSE phase' = "exit" /\ UNCHANGED host
    /\ UNCHANGED <<aclVars, flags, cert, config, session>>

(* The CA bundle cannot be read a second time, or CompileList fails. *)
ConfigError ==
    /\ phase = "listen"
    /\ phase' = "exit"
    /\ UNCHANGED <<aclVars, flags, cert, host, config, session>>

(* serverListen up to the bind: a method value of a nil interface panics. *)
ServerListen ==
    /\ phase = "listen" /\ mode = "server"
    /\ ~badPattern
    /\ IF cert = "nil"
       THEN phase' = "panic" /\ UNCHANGED config
       ELSE /\ phase' = "serving"
            /\ config' = [ClientAuth |-> IF disableAuth THEN "NoClientCert"
                                         ELSE buildConfig.ClientAuth,
                          ServerName |-> buildConfig.ServerName,
                          Certificate |-> cert]
    /\ UNCHANGED <<aclVars, flags, cert, host, session>>

(* A certificate, if there is one, is presented to the server. *)
DialerWithCertificate(conf) ==
    [ClientAuth |-> conf.ClientAuth,
     ServerName |-> conf.ServerName,
     Certificate |-> IF cert # "nil" /\ conf.Certificate = "nil"
                     THEN cert ELSE conf.Certificate]

(* Mutant: --override-server-name is not looked at. *)
DialerIgnoresOverride ==
    /\ phase = "listen" /\ mode = "client"
    /\ ~badPattern
    /\ phase' = "serving"
    /\ config' = DialerWithCertificate(
                     [ClientAuth |-> buildConfig.ClientAuth,
                      ServerName |-> host,
                      Certificate |-> buildConfig.Certificate])
    /\ UNCHANGED <<aclVars, flags, cert, host, session>>

ClientBackendDialer ==
    /\ phase = "listen" /\ mode = "client"
    /\ ~badPattern
    /\ phase' = "serving"
    /\ config' = DialerWithCertificate(
                     [ClientAuth |-> buildConfig.ClientAuth,
                      ServerName |-> IF override THEN "override" ELSE host,
                      Certificate |-> buildConfig.Certificate])
    /\ UNCHANGED <<aclVars, flags, cert, host, session>>

-----------------------------------------------------------------------------
(* crypto/tls.  A server that asks for no certificate gets none, and does  *)
(* not call VerifyPeerCertificate.  A client needs a name to verify the    *)
(* server's chain for, and calls it after that.                            *)

ServerAccepts(p) ==
    config.ClientAuth = "NoClientCert" \/ ServerAllows(p.chains)

ClientAccepts(p) ==
    /\ config.ServerName # ""
    /\ p.chains # <<>>
    /\ p.host = config.ServerName
    /\ ClientAllows(p.chains)

(* One handshake is followed; handshakes leave nothing to one another. *)
Handshake(p) ==
    /\ phase = "serving"
    /\ session = <<>>
    /\ IF mode = "server" THEN ServerAccepts(p) ELSE ClientAccepts(p)
    /\ session' = <<p>>
    /\ UNCHANGED <<aclVars, flags, phase, cert, host, config>>

-----------------------------------------------------------------------------
Next ==
    \/ ListFlag \/ ParseFlags \/ InitProcess \/ LoadCertificate
    \/ ValidateServer \/ ValidateClient \/ ConfigError
    \/ ServerListen \/ ClientBackendDialer
    \/ \E p \in Peers : Handshake(p)
    \/ phase \in {"serving", "exit", "panic"} /\ UNCHANGED vars

Spec == Init /\ [][Next]_vars

-----------------------------------------------------------------------------
(* The certificate is loaded before the flags of the mode are checked.     *)
(* Still a server never gets to use a certificate it does not have, a      *)
(* client presents none exactly with --disable-authentication, and a       *)
(* PKCS#11 module that is configured is where the key is from              *)
(* (main.go:337-345, 430, tls.go:61-72, dialer.go:52).                     *)
CertificateFitsFlags ==
    /\ phase # "panic"
    /\ phase = "serving" =>
          /\ config.Certificate = "nil" <=> mode = "client" /\ disableAuth
          /\ config.Certificate = "pkcs11" <=> "pkcs11" \in given

(* A client talks only to a server whose chain was verified for the name   *)
(* that was asked for, and that is on the lists if there are any; with a   *)
(* target that has no host name and without --override-server-name it      *)
(* talks to nobody (main.go:607-628).                                      *)
ServerIsVerified ==
    mode = "client" /\ session # <<>> =>
        /\ session[1].chains # <<>>
        /\ session[1].host = IF override THEN "override" ELSE host
        /\ Empty(allowed) \/ Listed(allowed, session[1].chains[1])

(* "Ghostunnel enforces mutual authentication by requiring a valid client  *)
(* certificate for all connections" (README.md:30), unless that is         *)
(* disabled (main.go:431, tls.go:137).                                     *)
MutualAuthentication ==
    mode = "server" /\ ~disableAuth /\ session # <<>> =>
        ServerAllows(session[1].chains)

=============================================================================

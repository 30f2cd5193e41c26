------------------------------ MODULE Certificate ------------------------------
(***************************************************************************)
(* The reloadable certificates of certloader: Reload reads the files one   *)
(* by one, parses what it has read and stores the result in one atomic     *)
(* pointer, which GetCertificate loads.  signalHandler and reloadHandler   *)
(* call Reload from two goroutines, while an operator replaces the files.  *)
(*                                                                         *)
(* A file's content is the number of the certificate it belongs to.        *)
(***************************************************************************)
EXTENDS Naturals, Sequences

CONSTANTS
    Reloaders,    \* the goroutines that call Reload
    Timed,        \* those of them that do so on a timer
    MaxVersion,   \* bound: how often the operator issues a certificate
    MaxOpen       \* the descriptors that the rest of the process leaves over

ASSUME CertificateAssumption ==
    /\ Timed \subseteq Reloaders
    /\ {MaxVersion, MaxOpen} \subseteq Nat

(* PEM: certificate and key in two files.  PKCS#12: one file.  PKCS#11:    *)
(* the chain in a file, the key in a module and always the same (so the    *)
(* documentation asks of the operator).  Keychain: one entry, as a file.   *)
Stores == {"pem", "pkcs12", "pkcs11", "keychain"}
Files(s) == IF s = "pem" THEN 1 .. 2 ELSE 1 .. 1

VARIABLES
    store,       \* where certificate and key come from
    disk,        \* the content of each file
    readable,    \* each file is there and complete
    pc,          \* each reloader: "idle" or in a "reload"
    blocks,      \* what each reloader has read so far
    cached,      \* keystoreCertificate.cached, the file contents it is from
    opened,      \* descriptors of files that were read and never closed
    overtaken    \* history: reloads during which another one stored

vars == <<store, disk, readable, pc, blocks, cached, opened, overtaken>>

Version == 0 .. MaxVersion

TypeOK ==
    /\ store \in Stores
    /\ disk \in [Files(store) -> Version]
    /\ readable \in [Files(store) -> BOOLEAN]
    /\ pc \in [Reloaders -> {"idle", "reload"}]
    /\ blocks \in [Reloaders -> Seq(Version)]
    /\ \A r \in Reloaders : Len(blocks[r]) \in {0} \cup Files(store)
    /\ cached \in [Files(store) -> Version]
    /\ opened \in 0 .. MaxOpen
    /\ overtaken \subseteq Reloaders

(* CertificateFromPEMFiles and the other constructors have loaded the      *)
(* files once.                                                             *)
Init ==
    /\ store \in Stores
    /\ disk = [f \in Files(store) |-> 0]
    /\ readable = [f \in Files(store) |-> TRUE]
    /\ pc = [r \in Reloaders |-> "idle"]
    /\ blocks = [r \in Reloaders |-> <<>>]
    /\ cached = [f \in Files(store) |-> 0]
    /\ opened = 0
    /\ overtaken = {}

-----------------------------------------------------------------------------
(* The operator replaces one file at a time by that of the next version,   *)
(* and finishes one version before it starts the next.                     *)
Replace(f) ==
    /\ disk[f] < MaxVersion
    /\ \A g \in Files(store) : disk[f] <= disk[g]
    /\ disk' = [disk EXCEPT ![f] = @ + 1]
    /\ readable' = [readable EXCEPT ![f] = TRUE]
    /\ UNCHANGED <<store, pc, blocks, cached, opened, overtaken>>

(* A file that is being written cannot be parsed. *)
Damage(f) ==
    /\ readable[f]
    /\ disk[f] < MaxVersion
    /\ readable' = [readable EXCEPT ![f] = FALSE]
    /\ UNCHANGED <<store, disk, pc, blocks, cached, opened, overtaken>>

-----------------------------------------------------------------------------
(* Reload in goroutine r.  os.Open takes a descriptor, which is given back *)
(* by the finalizer of the os.File and not by readPEM or readX509.  The    *)
(* keychain is read without opening a file.                                *)

NextFile(r) == Len(blocks[r]) + 1
AllRead(r) == NextFile(r) \notin Files(store)
OpensFile == store # "keychain"
End(r) ==
    /\ pc' = [pc EXCEPT ![r] = "idle"]
    /\ blocks' = [blocks EXCEPT ![r] = <<>>]
    /\ UNCHANGED <<store, disk, readable>>

ReloadStart(r) ==
    /\ pc[r] = "idle"
    /\ pc' = [pc EXCEPT ![r] = "reload"]
    /\ overtaken' = overtaken \ {r}
    /\ UNCHANGED <<store, disk, readable, blocks, cached, opened>>

(* Mutant: what a file holds is taken twice. *)
ReadFileTwice(r) ==
    /\ pc[r] = "reload" /\ ~AllRead(r)
    /\ readable[NextFile(r)]
    /\ LET content == disk[NextFile(r)] IN
       blocks' = [blocks EXCEPT ![r] = @ \o <<content, content>>]
    /\ UNCHANGED <<store, disk, readable, pc, cached, opened, overtaken>>

ReadFile(r) ==
    /\ pc[r] = "reload" /\ ~AllRead(r)
    /\ readable[NextFile(r)]
    /\ OpensFile => opened < MaxOpen
    /\ blocks' = [blocks EXCEPT ![r] = Append(@, disk[NextFile(r)])]
    /\ opened' = IF OpensFile THEN opened + 1 ELSE opened
    /\ UNCHANGED <<store, disk, readable, pc, cached, overtaken>>

(* Mutants: the error clears the certificate; it ends reloadHandler. *)
ReadErrorClears(r) ==
    /\ pc[r] = "reload" /\ ~AllRead(r)
    /\ ~readable[NextFile(r)]
    /\ cached' = [f \in Files(store) |-> 0]
    /\ UNCHANGED <<opened, overtaken>>
    /\ End(r)

ReadErrorStops(r) ==
    /\ pc[r] = "reload" /\ ~AllRead(r)
    /\ ~readable[NextFile(r)]
    /\ pc' = [pc EXCEPT ![r] = "stopped"]
    /\ UNCHANGED <<store, disk, readable, blocks, cached, opened, overtaken>>

(* The file is missing, or it is opened and cannot be read to its end. *)
ReadError(r) ==
    /\ pc[r] = "reload" /\ ~AllRead(r)
    /\ ~readable[NextFile(r)]
    /\ \/ UNCHANGED opened
       \/ OpensFile /\ opened < MaxOpen /\ opened' = opened + 1
    /\ UNCHANGED <<cached, overtaken>>
    /\ End(r)

(* No descriptor is left. *)
OpenError(r) ==
    /\ pc[r] = "reload" /\ ~AllRead(r)
    /\ OpensFile /\ opened = MaxOpen
    /\ UNCHANGED <<cached, opened, overtaken>>
    /\ End(r)

(* tls.X509KeyPair refuses a key that does not belong to the certificate. *)
Match(r) == \A f, g \in Files(store) : blocks[r][f] = blocks[r][g]

PairError(r) ==
    /\ store \in {"pem", "pkcs12"}
    /\ pc[r] = "reload" /\ AllRead(r)
    /\ ~Match(r)
    /\ UNCHANGED <<cached, opened, overtaken>>
    /\ End(r)

Store(r) ==
    /\ pc[r] = "reload" /\ AllRead(r)
    /\ cached' = blocks[r]
    /\ UNCHANGED opened
    /\ overtaken' = overtaken \cup {q \in Reloaders \ {r} : pc[q] = "reload"}
    /\ End(r)

(* Mutant: certificate and key are stored without comparing them. *)
StorePointerUnchecked(r) == store \in {"pem", "pkcs12"} /\ Store(r)

StorePointer(r) ==
    store \in {"pem", "pkcs12"} /\ AllRead(r) /\ Match(r) /\ Store(r)

(* The PKCS#11 key and the keychain entry are taken as they are. *)
StoreChain(r) == store = "pkcs11" /\ Store(r)
StoreIdentity(r) == store = "keychain" /\ Store(r)

Reload(r) ==
    \/ ReadFile(r) \/ ReadError(r) \/ OpenError(r) \/ PairError(r)
    \/ StorePointer(r) \/ StoreChain(r) \/ StoreIdentity(r)

(* The garbage collector runs the finalizers of all files no longer in use. *)
Collect ==
    /\ opened > 0
    /\ opened' = 0
    /\ UNCHANGED <<store, disk, readable, pc, blocks, cached, overtaken>>

-----------------------------------------------------------------------------
Next ==
    \/ \E f \in Files(store) : Replace(f) \/ Damage(f)
    \/ \E r \in Reloaders : ReloadStart(r) \/ Reload(r)
    \/ Collect

Spec == Init /\ [][Next]_vars

(* A reload that has begun goes on, the timer always begins another, and   *)
(* the Go runtime collects garbage at least every two minutes.  Nothing    *)
(* makes the operator act or send a signal.                                *)
Fairness ==
    /\ \A r \in Timed : WF_vars(ReloadStart(r))
    /\ \A r \in Reloaders : WF_vars(Reload(r))
    /\ WF_vars(Collect)

FairSpec == Spec /\ Fairness

-----------------------------------------------------------------------------
(* The certificate in use and its key always belong together, also when a  *)
(* reload runs between the replacement of one file and of the other        *)
(* (keystore.go:85-108).                                                   *)
CachedIsPair == \A f, g \in DOMAIN cached : cached[f] = cached[g]

(* A certificate in use gives way to an older one only if the reload that  *)
(* stores it was overtaken by another: never because of an error, and not  *)
(* without a second goroutine (keystore.go:29-33, 108).                    *)
OnlyOvertakenRegress ==
    [][\/ \A f \in DOMAIN cached : cached'[f] >= cached[f]
       \/ \E r \in overtaken : pc[r] = "reload" /\ pc'[r] = "idle"]_cached

(* When the operator has put the last version in place, that version gets  *)
(* into use and stays, even if both goroutines reload, files were          *)
(* unreadable or mismatched before, and the descriptors that reloads leave *)
(* open run out again and again (signals.go:83, keystore.go:108,           *)
(* certigo.go:29).                                                         *)
Converges ==
    <>[](\A f \in Files(store) : disk[f] = MaxVersion /\ readable[f])
        => <>[](\A f \in DOMAIN cached : cached[f] = MaxVersion)

=============================================================================

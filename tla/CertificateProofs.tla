-------------------------- MODULE CertificateProofs --------------------------
(***************************************************************************)
(* Proofs about module Certificate, for any number of goroutines that      *)
(* reload, any number of versions and any number of free descriptors.      *)
(***************************************************************************)
EXTENDS Certificate, TLAPS

(* What a reload has read is no newer than what is on disk, and no older   *)
(* than the certificate in use unless another reload has stored meanwhile. *)
ReadInv ==
    /\ \A f \in Files(store) : cached[f] <= disk[f]
    /\ \A r \in Reloaders : pc[r] = "idle" => blocks[r] = <<>>
    /\ \A r \in Reloaders : \A f \in 1 .. Len(blocks[r]) :
          /\ blocks[r][f] <= disk[f]
          /\ r \notin overtaken => cached[f] <= blocks[r][f]

IInv == TypeOK /\ CachedIsPair /\ ReadInv

-----------------------------------------------------------------------------
(* A prefix of the files is as long as its last file's number. *)
LEMMA Prefix ==
    ASSUME NEW s, NEW n \in {0} \cup Files(s)
    PROVE  /\ 1 .. n \subseteq Files(s)
           /\ n + 1 \notin Files(s) => 1 .. n = Files(s)
  <1>1. CASE s = "pem"
    <2>1. Files(s) = 1 .. 2 /\ n \in 0 .. 2  BY <1>1 DEF Files
    <2> QED  BY <2>1
  <1>2. CASE s # "pem"
    <2>1. Files(s) = 1 .. 1 /\ n \in 0 .. 1  BY <1>2 DEF Files
    <2> QED  BY <2>1
  <1> QED  BY <1>1, <1>2

(* Whoever has read all files has exactly one content for each of them. *)
LEMMA AllReadFacts ==
    ASSUME TypeOK, NEW r \in Reloaders, AllRead(r)
    PROVE  /\ 1 .. Len(blocks[r]) = Files(store)
           /\ blocks[r] \in [Files(store) -> Version]
  <1>1. blocks[r] \in Seq(Version) /\ Len(blocks[r]) \in {0} \cup Files(store)
    BY DEF TypeOK
  <1>2. Len(blocks[r]) \in Nat /\ Len(blocks[r]) + 1 \notin Files(store)
    BY <1>1 DEF AllRead, NextFile
  <1>3. 1 .. Len(blocks[r]) = Files(store)
    BY <1>1, <1>2, Prefix
  <1> QED  BY <1>1, <1>3

(* The invariant holds initially. *)
THEOREM CertInit == Init => IInv
  <1> SUFFICES ASSUME Init PROVE IInv  OBVIOUS
  <1> USE CertificateAssumption
  <1>1. TypeOK  BY DEF Init, TypeOK, Version
  <1>2. CachedIsPair  BY DEF Init, CachedIsPair
  <1>3. ReadInv  BY DEF Init, ReadInv
  <1> QED  BY <1>1, <1>2, <1>3 DEF IInv

-----------------------------------------------------------------------------
(* A reload that ends without storing. *)
LEMMA EndKeeps ==
    ASSUME IInv, NEW r \in Reloaders, End(r), opened' \in 0 .. MaxOpen,
           UNCHANGED <<cached, overtaken>>
    PROVE  IInv'
  <1>1. TypeOK'
    BY DEF IInv, TypeOK, End, Files
  <1>2. CachedIsPair'  BY DEF IInv, CachedIsPair
  <1>3. ReadInv'
    BY DEF IInv, ReadInv, TypeOK, End
  <1> QED  BY <1>1, <1>2, <1>3 DEF IInv

(* A reload that stores what it has read, if it belongs together. *)
LEMMA StoreKeeps ==
    ASSUME IInv, NEW r \in Reloaders, Store(r), Match(r)
    PROVE  IInv'
  <1> USE DEF Store
  <1>1. /\ 1 .. Len(blocks[r]) = Files(store)
        /\ blocks[r] \in [Files(store) -> Version]
    BY AllReadFacts DEF IInv
  <1>2. TypeOK'
    BY <1>1 DEF IInv, TypeOK, End, Files
  <1>3. CachedIsPair'
    BY <1>1 DEF CachedIsPair, Match
  <1>4. \A f \in Files(store) : cached'[f] <= disk'[f]
    BY <1>1 DEF IInv, ReadInv, End
  <1>5. ASSUME NEW q \in Reloaders, NEW f \in 1 .. Len(blocks'[q])
        PROVE  blocks'[q][f] <= disk'[f] /\ q \in overtaken'
    <2>1. q # r  BY <1>5 DEF IInv, TypeOK, End
    <2>2. blocks'[q] = blocks[q] /\ pc[q] = "reload"
      BY <1>5, <2>1 DEF IInv, TypeOK, ReadInv, End
    <2> QED  BY <1>5, <2>1, <2>2 DEF IInv, ReadInv, End
  <1>6. ReadInv'
    BY <1>2, <1>4, <1>5 DEF IInv, ReadInv, TypeOK, End
  <1> QED  BY <1>2, <1>3, <1>6 DEF IInv

(* One file more. *)
LEMMA ReadKeeps ==
    ASSUME IInv, NEW r \in Reloaders, ReadFile(r)
    PROVE  IInv'
  <1> USE DEF ReadFile
  <1> DEFINE n == Len(blocks[r])
  <1>1. /\ blocks[r] \in Seq(Version)
        /\ n \in Nat /\ n + 1 \in Files(store)
        /\ disk[n + 1] \in Version
    BY DEF IInv, TypeOK, AllRead, NextFile
  <1>2. /\ blocks'[r] = Append(blocks[r], disk[n + 1])
        /\ \A q \in Reloaders \ {r} : blocks'[q] = blocks[q]
        /\ blocks' \in [Reloaders -> Seq(Version)]
    BY <1>1 DEF IInv, TypeOK, NextFile
  <1>3. /\ Len(blocks'[r]) = n + 1
        /\ blocks'[r][n + 1] = disk[n + 1]
        /\ \A f \in 1 .. n : blocks'[r][f] = blocks[r][f]
    BY <1>1, <1>2
  <1>4. opened' \in 0 .. MaxOpen
    BY CertificateAssumption DEF IInv, TypeOK
  <1>5. TypeOK'
    BY <1>1, <1>2, <1>3, <1>4 DEF IInv, TypeOK
  <1>6. CachedIsPair'  BY DEF IInv, CachedIsPair
  <1>7. ASSUME NEW f \in 1 .. Len(blocks'[r])
        PROVE  /\ blocks'[r][f] <= disk'[f]
               /\ r \notin overtaken' => cached'[f] <= blocks'[r][f]
    <2>1. CASE f = n + 1
      BY <1>1, <1>3, <2>1 DEF IInv, ReadInv, TypeOK, Version
    <2>2. CASE f # n + 1
      <3>1. f \in 1 .. n  BY <1>1, <1>3, <1>7, <2>2
      <3> QED  BY <1>3, <3>1 DEF IInv, ReadInv
    <2> QED  BY <2>1, <2>2
  <1>8. ReadInv'
    BY <1>2, <1>7 DEF IInv, ReadInv
  <1> QED  BY <1>5, <1>6, <1>8 DEF IInv

-----------------------------------------------------------------------------
(* A single entry belongs to itself. *)
LEMMA OneFileMatches ==
    ASSUME NEW r, store # "pem" PROVE Match(r)
    BY DEF Match, Files

(* Every step of the operator and of a reload keeps the invariant. *)
THEOREM CertStep == IInv /\ [Next]_vars => IInv'
  <1> SUFFICES ASSUME IInv, [Next]_vars PROVE IInv'  OBVIOUS
  <1> USE CertificateAssumption
  <1>1. ASSUME NEW f \in Files(store), Replace(f)  PROVE IInv'
    <2>0. disk' \in [Files(store) -> Version]
      BY <1>1 DEF Replace, IInv, TypeOK, Version
    <2>1. TypeOK'
      BY <1>1, <2>0 DEF IInv, Replace, TypeOK
    <2>2. \A g \in Files(store) : disk[g] \in Nat /\ disk[g] <= disk'[g]
      BY <1>1 DEF Replace, IInv, TypeOK, Version
    <2>3. CachedIsPair'  BY <1>1 DEF IInv, CachedIsPair, Replace
    <2>4. \A r \in Reloaders : 1 .. Len(blocks[r]) \subseteq Files(store)
      BY Prefix DEF IInv, TypeOK
    <2>5. \A r \in Reloaders : \A g \in 1 .. Len(blocks[r]) : blocks[r][g] \in Nat
      BY DEF IInv, TypeOK, Version
    <2>6. ReadInv'
      <3>1. UNCHANGED <<store, pc, blocks, cached, overtaken>>
        BY <1>1 DEF Replace
      <3>2. \A g \in Files(store) : cached[g] \in Nat /\ disk'[g] \in Nat
        BY <2>0 DEF IInv, TypeOK, Version
      <3>3. \A g \in Files(store) : cached[g] <= disk'[g]
        BY <2>2, <3>2 DEF IInv, ReadInv
      <3>4. \A r \in Reloaders : \A g \in 1 .. Len(blocks[r]) :
               /\ blocks[r][g] <= disk'[g]
               /\ r \notin overtaken => cached[g] <= blocks[r][g]
        <4> SUFFICES ASSUME NEW r \in Reloaders, NEW g \in 1 .. Len(blocks[r])
                     PROVE  /\ blocks[r][g] <= disk'[g]
                            /\ r \notin overtaken => cached[g] <= blocks[r][g]
          OBVIOUS
        <4>1. /\ blocks[r][g] <= disk[g]
              /\ r \notin overtaken => cached[g] <= blocks[r][g]
          BY DEF IInv, ReadInv
        <4> QED  BY <2>2, <2>4, <2>5, <3>2, <4>1
      <3>5. \A r \in Reloaders : pc[r] = "idle" => blocks[r] = <<>>
        BY DEF IInv, ReadInv
      <3> QED  BY <3>1, <3>3, <3>4, <3>5 DEF ReadInv
    <2> QED  BY <2>1, <2>3, <2>6 DEF IInv
  <1>2. ASSUME NEW f \in Files(store), Damage(f)  PROVE IInv'
    BY <1>2 DEF Damage, IInv, TypeOK, CachedIsPair, ReadInv
  <1>3. ASSUME NEW r \in Reloaders, ReloadStart(r)  PROVE IInv'
    <2>1. TypeOK' /\ CachedIsPair'
      BY <1>3 DEF ReloadStart, IInv, TypeOK, CachedIsPair
    <2>2. blocks[r] = <<>>
      BY <1>3 DEF ReloadStart, IInv, ReadInv
    <2>3. ReadInv'
      BY <1>3, <2>2 DEF ReloadStart, IInv, TypeOK, ReadInv
    <2> QED  BY <2>1, <2>3 DEF IInv
  <1>4. ASSUME NEW r \in Reloaders, ReadFile(r)  PROVE IInv'
    BY <1>4, ReadKeeps
  <1>5. ASSUME NEW r \in Reloaders, ReadError(r) \/ OpenError(r) \/ PairError(r)
        PROVE  IInv'
    <2>1. opened' \in 0 .. MaxOpen /\ End(r) /\ UNCHANGED <<cached, overtaken>>
      BY <1>5 DEF ReadError, OpenError, PairError, IInv, TypeOK
    <2> QED  BY <2>1, EndKeeps
  <1>6. ASSUME NEW r \in Reloaders,
               StorePointer(r) \/ StoreChain(r) \/ StoreIdentity(r)
        PROVE  IInv'
    <2>1. Store(r) /\ Match(r)
      BY <1>6, OneFileMatches DEF StorePointer, StoreChain, StoreIdentity
    <2> QED  BY <2>1, StoreKeeps
  <1>7. CASE Collect
    BY <1>7 DEF Collect, IInv, TypeOK, CachedIsPair, ReadInv
  <1>8. CASE UNCHANGED vars
    BY <1>8 DEF vars, IInv, TypeOK, CachedIsPair, ReadInv
  <1> QED
    BY <1>1, <1>2, <1>3, <1>4, <1>5, <1>6, <1>7, <1>8 DEF Next, Reload

(* The inductive invariant holds in every reachable state. *)
THEOREM CertInvariance == Spec => []IInv
    BY CertInit, CertStep, PTL DEF Spec

-----------------------------------------------------------------------------
(* At every moment, with any number of goroutines in Reload and files      *)
(* replaced in between, the certificate in use and its key belong together *)
(* (keystore.go:85-108).                                                   *)
THEOREM CertificateFitsKey == Spec => []CachedIsPair
  <1>1. IInv => CachedIsPair  BY DEF IInv
  <1> QED  BY <1>1, CertInvariance, PTL

(* The variables have their types: a reload never holds more blocks than   *)
(* its keystore has files, and no file is opened without a descriptor      *)
(* (certigo.go:29, 51).                                                    *)
THEOREM CertTypeCorrect == Spec => []TypeOK
  <1>1. IInv => TypeOK  BY DEF IInv
  <1> QED  BY <1>1, CertInvariance, PTL

(* A step that changes the certificate in use is a Store, and what it      *)
(* stores is no older unless another reload has stored meanwhile.          *)
Kept == \A f \in DOMAIN cached : cached'[f] >= cached[f]
Late == \E r \in overtaken : pc[r] = "reload" /\ pc'[r] = "idle"

LEMMA RegressStep == ASSUME IInv, [Next]_vars PROVE [Kept \/ Late]_cached
  <1> SUFFICES ASSUME Next, cached' # cached PROVE Kept \/ Late
    BY DEF vars
  <1> USE DEF Kept, Late
  <1>1. PICK r \in Reloaders : Store(r)
    BY DEF Next, Reload, Replace, Damage, ReloadStart, ReadFile, ReadError,
           OpenError, PairError, StorePointer, StoreChain, StoreIdentity,
           Collect
  <1>2. pc[r] = "reload" /\ pc'[r] = "idle"
    BY <1>1 DEF Store, End, IInv, TypeOK
  <1>3. CASE r \in overtaken  BY <1>2, <1>3
  <1>4. CASE r \notin overtaken
    <2>1. /\ 1 .. Len(blocks[r]) = Files(store)
          /\ blocks[r] \in [Files(store) -> Version]
          /\ cached' = blocks[r]
      BY <1>1, AllReadFacts DEF Store, IInv
    <2>2. \A f \in Files(store) : cached[f] <= cached'[f]
      BY <1>4, <2>1 DEF IInv, ReadInv
    <2>3. DOMAIN cached = Files(store) /\ cached \in [Files(store) -> Nat]
      BY DEF IInv, TypeOK, Version
    <2> QED  BY <2>1, <2>2, <2>3 DEF Version
  <1> QED  BY <1>3, <1>4

(* An older certificate comes back into use only through a reload that     *)
(* another one has overtaken (keystore.go:108).                            *)
THEOREM OvertakenReloadsOnly == Spec => OnlyOvertakenRegress
  <1>1. IInv /\ [Next]_vars => [Kept \/ Late]_cached
    BY RegressStep
  <1> QED
    BY <1>1, CertInvariance, PTL DEF Spec, OnlyOvertakenRegress, Kept, Late

(* When one goroutine alone reloads (signalHandler, without                *)
(* --timed-reload), the certificate in use never gives way to an older     *)
(* one, whatever files are missing, damaged or mismatched meanwhile        *)
(* (signals.go:74, 81, keystore.go:108).                                   *)
THEOREM LoneReloaderNeverRegresses ==
    ASSUME NEW solo, Reloaders = {solo}
    PROVE  Spec => [][Kept]_cached
  <1> DEFINE Alone == overtaken = {}
  <1>1. Init => Alone
    BY DEF Init
  <1>2. IInv /\ Alone /\ [Next]_vars => Alone'
    BY DEF Next, Reload, Replace, Damage, ReloadStart, ReadFile, ReadError,
           OpenError, PairError, StorePointer, StoreChain, StoreIdentity,
           Store, Collect, vars
  <1>3. IInv /\ Alone /\ [Next]_vars => [Kept]_cached
    BY RegressStep DEF Late
  <1> QED  BY <1>1, <1>2, <1>3, CertInvariance, PTL DEF Spec

=============================================================================

----------------------------- MODULE ProxyProofs -----------------------------
(***************************************************************************)
(* Proofs about module Proxy, for any finite set of connections, any set   *)
(* of Shutdown calls and either mode.                                      *)
(***************************************************************************)
EXTENDS Proxy, FiniteSetTheorems, TLAPS

Live == {c \in Conns : handler[c] \notin {"none", "accepted", "close", "closed"}}

(* The calls of Shutdown: at most one is past the check of quit, and how   *)
(* far it has come is what quit and the listener show.                     *)
CallersInv ==
    /\ \A s, t \in Callers :
          s # t /\ caller[s] \in {"store", "close", "done"} => caller[t] = "idle"
    /\ quit <=> \E s \in Callers : caller[s] \in {"close", "done", "returned"}
    /\ listenerOpen <=> \A s \in Callers : caller[s] \notin {"done", "returned"}

(* Once Wait has been released the counter has been zero, which takes a    *)
(* finished Shutdown, and who is registered came later.                    *)
WaiterInv ==
    /\ handlers = 0 => drained
    /\ drained => ShutDown
    /\ late # {} => drained
    /\ waiter \in {"woken", "returned", "panic"} =>
          drained /\ Registered \subseteq late

IInv ==
    /\ TypeOK
    /\ WaitGroupBalance
    /\ OpenIsLive
    /\ CallersInv
    /\ WaiterInv

-----------------------------------------------------------------------------
(* Registered and Live are finite, so that they can be counted. *)
LEMMA SetsAreFinite ==
    /\ IsFiniteSet(Registered)
    /\ IsFiniteSet(Live)
    /\ Cardinality(Registered) \in Nat
    /\ Cardinality(Live) \in Nat
<1>1. Registered \in SUBSET Conns /\ Live \in SUBSET Conns
  BY DEF Registered, Live
<1>2. IsFiniteSet(Registered) /\ IsFiniteSet(Live)
  BY <1>1, ProxyAssumption, FS_Subset
<1> QED
  BY <1>2, FS_CardinalityType

(* Counting a finite set after one element came in or went out. *)
LEMMA CardinalityStep ==
    ASSUME NEW S, IsFiniteSet(S), NEW x
    PROVE  /\ x \notin S => Cardinality(S \cup {x}) = Cardinality(S) + 1
           /\ x \in S => Cardinality(S \ {x}) = Cardinality(S) - 1
BY FS_AddElement, FS_RemoveElement

(* A count of zero means that nobody is registered and Shutdown is done. *)
LEMMA ZeroCount ==
    ASSUME NEW S \in SUBSET Conns, NEW b \in BOOLEAN,
           Cardinality(S) + (IF b THEN 0 ELSE 1) = 0
    PROVE  S = {} /\ b
<1>1. IsFiniteSet(S) /\ Cardinality(S) \in Nat
  BY ProxyAssumption, FS_Subset, FS_CardinalityType
<1> QED
  BY <1>1, FS_EmptySet

(* A step that moves no handler between the states that are counted. *)
LEMMA SetsUnchanged ==
    ASSUME handler' = handler
    PROVE  Registered' = Registered /\ Live' = Live
BY DEF Registered, Live

-----------------------------------------------------------------------------
(* The invariant holds of the proxy that New returns (proxy.go:94). *)
THEOREM InitInv == Init => IInv
<1> SUFFICES ASSUME Init PROVE IInv
  OBVIOUS
<1> USE DEF Init, InitialHandlers
<1>1. Registered = {} /\ Live = {} /\ ~ShutDown
  BY DEF Registered, Live, ShutDown
<1>2. TypeOK
  <2>1. 0 \in 0 .. MaxAcceptErrors
    BY ProxyAssumption
  <2> QED
    BY <2>1 DEF TypeOK, HandlerStates, Counters
<1>3. WaitGroupBalance /\ OpenIsLive
  BY <1>1, FS_EmptySet DEF WaitGroupBalance, OpenIsLive, Live, Counters
<1>4. CallersInv /\ WaiterInv
  BY <1>1 DEF CallersInv, WaiterInv
<1> QED
  BY <1>2, <1>3, <1>4 DEF IInv

(* Wait and its wake-up keep the invariant. *)
LEMMA WaitStep ==
    ASSUME IInv, Wait
    PROVE  IInv'
<1> USE DEF IInv, Wait, WaitCall, WaitWake, stopping, accepting
<1>1. Registered' = Registered /\ Live' = Live /\ ShutDown' = ShutDown
  BY SetsUnchanged DEF ShutDown
<1>2. TypeOK'
  BY DEF TypeOK
<1>3. WaitGroupBalance' /\ OpenIsLive' /\ CallersInv'
  BY <1>1 DEF WaitGroupBalance, OpenIsLive, Live, CallersInv
<1>4. WaiterInv'
  <2>1. handlers = 0 => Registered = {}
    BY ZeroCount DEF WaitGroupBalance, Registered, ShutDown
  <2> QED
    BY <1>1, <2>1 DEF WaiterInv
<1> QED
  BY <1>2, <1>3, <1>4

(* What Done does to the counter and to the waiter, for either caller. *)
LEMMA DoneStep ==
    ASSUME IInv, WaitGroupDone, WaitGroupBalance',
           Registered' \subseteq Registered, ShutDown => ShutDown',
           handlers > 0
    PROVE  WaiterInv' /\ handlers' \in Nat /\ drained' \in BOOLEAN
                      /\ late' = late
                      /\ waiter' \in {"idle", "parked", "woken", "returned", "panic"}
<1> USE DEF IInv, WaitGroupDone
<1>1. handlers' = 0 => Registered' = {} /\ ShutDown'
  <2>1. Registered' \in SUBSET Conns /\ ShutDown' \in BOOLEAN
    BY DEF Registered, ShutDown
  <2> QED
    BY <2>1, ZeroCount DEF WaitGroupBalance
<1>2. handlers' \in Nat /\ (handlers' = 0 <=> handlers = 1)
  BY DEF TypeOK
<1> QED
  BY <1>1, <1>2 DEF WaiterInv, TypeOK

(* The four steps of Shutdown keep the invariant. *)
LEMMA ShutdownStep ==
    ASSUME IInv, NEW s \in Callers, Shutdown(s)
    PROVE  IInv'
<1> USE DEF IInv, CallerGoto, accepting, waitGroup
<1>1. Registered' = Registered /\ Live' = Live /\ Cardinality(Registered) \in Nat
  BY SetsUnchanged, SetsAreFinite
     DEF Shutdown, ShutdownLoad, ShutdownStore, ShutdownClose, ShutdownDone
<1>2. CASE ShutdownLoad(s)
  <2> USE <1>2 DEF ShutdownLoad
  <2>1. TypeOK' /\ CallersInv'
    BY DEF TypeOK, CallersInv
  <2>2. ShutDown' = ShutDown
    BY DEF ShutDown, CallersInv, TypeOK
  <2>3. WaitGroupBalance' /\ OpenIsLive' /\ WaiterInv'
    BY <1>1, <2>2 DEF WaitGroupBalance, OpenIsLive, Live, WaiterInv
  <2> QED
    BY <2>1, <2>3
<1>3. CASE ShutdownStore(s)
  <2> USE <1>3 DEF ShutdownStore
  <2>1. TypeOK' /\ CallersInv'
    BY DEF TypeOK, CallersInv
  <2>2. ShutDown' = ShutDown
    BY DEF ShutDown, CallersInv, TypeOK
  <2>3. WaitGroupBalance' /\ OpenIsLive' /\ WaiterInv'
    BY <1>1, <2>2 DEF WaitGroupBalance, OpenIsLive, Live, WaiterInv
  <2> QED
    BY <2>1, <2>3
<1>4. CASE ShutdownClose(s)
  <2> USE <1>4 DEF ShutdownClose
  <2>0. TypeOK'
    BY DEF TypeOK
  <2>1. TypeOK' /\ CallersInv'
    BY <2>0 DEF TypeOK, CallersInv
  <2>2. ShutDown' = ShutDown
    BY DEF ShutDown, CallersInv, TypeOK
  <2>3. WaitGroupBalance' /\ OpenIsLive' /\ WaiterInv'
    BY <1>1, <2>2 DEF WaitGroupBalance, OpenIsLive, Live, WaiterInv
  <2> QED
    BY <2>1, <2>3
<1>5. CASE ShutdownDone(s)
  <2> USE <1>5 DEF ShutdownDone
  <2>1. ~ShutDown /\ ShutDown'
    BY DEF ShutDown, CallersInv, TypeOK
  <2>2. handlers > 0 /\ WaitGroupBalance'
    BY <1>1, <2>1 DEF WaitGroupBalance, WaitGroupDone
  <2>3. /\ WaiterInv' /\ handlers' \in Nat /\ drained' \in BOOLEAN
        /\ late' = late
        /\ waiter' \in {"idle", "parked", "woken", "returned", "panic"}
    BY <1>1, <2>1, <2>2, DoneStep
  <2>4. TypeOK' /\ CallersInv' /\ OpenIsLive'
    BY <1>1, <2>3 DEF TypeOK, CallersInv, OpenIsLive, Live
  <2> QED
    BY <2>2, <2>3, <2>4
<1> QED
  BY <1>2, <1>3, <1>4, <1>5 DEF Shutdown

(* What a step does to the sets that are counted when it moves handler c. *)
LEMMA MovedHandler ==
    ASSUME TypeOK, NEW c \in Conns, NEW to \in HandlerStates,
           handler' = [handler EXCEPT ![c] = to]
    PROVE  /\ Registered' = IF to \in {"fuse", "done"} THEN Registered \cup {c}
                                                       ELSE Registered \ {c}
           /\ Live' = IF to \in {"none", "accepted", "close", "closed"}
                      THEN Live \ {c} ELSE Live \cup {c}
           /\ handler' \in [Conns -> HandlerStates]
BY DEF TypeOK, Registered, Live

(* A step that moves c without touching the WaitGroup or the Shutdown      *)
(* calls keeps the invariant when c stays on its side of both counts, and  *)
(* conn.open is left alone.                                                *)
LEMMA QuietMove ==
    ASSUME IInv, NEW c \in Conns, NEW from \in HandlerStates,
           NEW to \in HandlerStates, Goto(c, from, to),
           from \in {"fuse", "done"} <=> to \in {"fuse", "done"},
           from \in {"none", "accepted", "close", "closed"}
              <=> to \in {"none", "accepted", "close", "closed"},
           UNCHANGED <<waitGroup, stopping>>,
           count'["open"] = count["open"]
    PROVE  /\ WaitGroupBalance' /\ OpenIsLive' /\ CallersInv' /\ WaiterInv'
           /\ handler' \in [Conns -> HandlerStates]
<1> USE DEF IInv, Goto, waitGroup, stopping
<1>1. /\ Registered' = Registered
      /\ Live' = Live
      /\ handler' \in [Conns -> HandlerStates]
  BY MovedHandler DEF Registered, Live, TypeOK
<1>2. ShutDown' = ShutDown
  BY DEF ShutDown
<1> QED
  BY <1>1, <1>2 DEF WaitGroupBalance, OpenIsLive, Live, CallersInv, WaiterInv

(* The accept loop keeps the invariant. *)
LEMMA AcceptStep ==
    ASSUME IInv, Accept
    PROVE  IInv'
<1> USE DEF IInv
<1>1. ASSUME NEW c \in Conns, ListenerAccept(c) PROVE IInv'
  <2> USE <1>1 DEF ListenerAccept
  <2>1. /\ WaitGroupBalance' /\ OpenIsLive' /\ CallersInv' /\ WaiterInv'
        /\ handler' \in [Conns -> HandlerStates]
    BY QuietMove DEF HandlerStates
  <2> QED
    BY <2>1 DEF TypeOK, stopping, waitGroup
<1>2. ASSUME NEW c \in Conns, Spawn(c) PROVE IInv'
  <2> USE <1>2 DEF Spawn, Goto, stopping, waitGroup
  <2>1. /\ Registered' = Registered
        /\ c \notin Live /\ Live' = Live \cup {c}
        /\ handler' \in [Conns -> HandlerStates]
    BY MovedHandler DEF HandlerStates, Registered, Live
  <2>2. Cardinality(Live') = Cardinality(Live) + 1
    BY <2>1, SetsAreFinite, CardinalityStep
  <2>3. count' \in [Counters -> Nat] /\ count'["open"] = count["open"] + 1
    BY DEF TypeOK, Counters
  <2>4. OpenIsLive'
    BY <2>2, <2>3 DEF OpenIsLive, Live
  <2>5. WaitGroupBalance' /\ CallersInv' /\ WaiterInv'
    BY <2>1 DEF WaitGroupBalance, CallersInv, WaiterInv, ShutDown
  <2> QED
    BY <2>1, <2>3, <2>4, <2>5 DEF TypeOK
<1>3. CASE ListenerError
  <2> USE <1>3 DEF ListenerError, stopping, waitGroup
  <2>1. Registered' = Registered /\ Live' = Live
    BY SetsUnchanged
  <2>2. acceptErrors' \in 0 .. MaxAcceptErrors
    BY ProxyAssumption DEF TypeOK
  <2> QED
    BY <2>1, <2>2 DEF TypeOK, WaitGroupBalance, OpenIsLive, Live, CallersInv,
                      WaiterInv, ShutDown
<1>4. CASE AcceptError
  <2> USE <1>4 DEF AcceptError, Inc, stopping, waitGroup
  <2>1. Registered' = Registered /\ Live' = Live
    BY SetsUnchanged
  <2>2. count' \in [Counters -> Nat] /\ count'["open"] = count["open"]
    BY DEF TypeOK, Counters
  <2> QED
    BY <2>1, <2>2 DEF TypeOK, WaitGroupBalance, OpenIsLive, Live, CallersInv,
                      WaiterInv, ShutDown
<1> QED
  BY <1>1, <1>2, <1>3, <1>4 DEF Accept

(* The handler steps that do nothing but move on. *)
LEMMA MoveStep ==
    ASSUME IInv, NEW c \in Conns, NEW from \in HandlerStates,
           NEW to \in HandlerStates, Move(c, from, to),
           from \in {"fuse", "done"} <=> to \in {"fuse", "done"},
           from \in {"none", "accepted", "close", "closed"}
              <=> to \in {"none", "accepted", "close", "closed"}
    PROVE  IInv'
<1> USE DEF IInv, Move, others, accepting
<1>1. /\ WaitGroupBalance' /\ OpenIsLive' /\ CallersInv' /\ WaiterInv'
      /\ handler' \in [Conns -> HandlerStates]
  BY QuietMove
<1> QED
  BY <1>1 DEF TypeOK, stopping, waitGroup

(* Every step of a handler keeps the invariant. *)
LEMMA HandlerStep ==
    ASSUME IInv, NEW c \in Conns, Handler(c)
    PROVE  IInv'
<1> USE DEF IInv, others, accepting
<1>1. CASE HandshakeOk(c) \/ HandshakeError(c)
  BY <1>1, MoveStep DEF HandshakeOk, HandshakeError, HandlerStates
<1>2. CASE DialError(c) \/ HeaderOk(c) \/ HeaderError(c) \/ ConnClose(c)
  BY <1>2, MoveStep DEF DialError, HeaderOk, HeaderError, ConnClose,
                        HandlerStates
<1>3. CASE HandshakeTimeout(c) \/ HandshakeFailed(c) \/ CountSuccess(c)
  <2> USE <1>3 DEF HandshakeTimeout, HandshakeFailed, CountSuccess, Inc
  <2>1. count' \in [Counters -> Nat] /\ count'["open"] = count["open"]
    BY DEF TypeOK, Counters
  <2>2. /\ WaitGroupBalance' /\ OpenIsLive' /\ CallersInv' /\ WaiterInv'
        /\ handler' \in [Conns -> HandlerStates]
    BY <2>1, QuietMove DEF HandlerStates
  <2> QED
    BY <2>1, <2>2 DEF TypeOK, stopping, waitGroup
<1>4. CASE DialOk(c) \/ FuseReturns(c)
  <2> USE <1>4 DEF DialOk, FuseReturns
  <2>1. /\ WaitGroupBalance' /\ OpenIsLive' /\ CallersInv' /\ WaiterInv'
        /\ handler' \in [Conns -> HandlerStates]
    BY QuietMove DEF HandlerStates
  <2>2. backend' \in [Conns -> {"none", "open", "shut"}]
    BY DEF TypeOK
  <2> QED
    BY <2>1, <2>2 DEF TypeOK, stopping, waitGroup
<1>5. CASE HandlersAdd(c)
  <2> USE <1>5 DEF HandlersAdd, WaitGroupAdd, Goto, stopping
  <2>1. /\ c \notin Registered /\ Registered' = Registered \cup {c}
        /\ Live' = Live
        /\ handler' \in [Conns -> HandlerStates]
    BY MovedHandler DEF HandlerStates, Registered, Live
  <2>2. Cardinality(Registered') = Cardinality(Registered) + 1
    BY <2>1, SetsAreFinite, CardinalityStep
  <2>3. ShutDown' = ShutDown /\ Cardinality(Registered) \in Nat
    BY SetsAreFinite DEF ShutDown
  <2>4. WaitGroupBalance'
    BY <2>2, <2>3 DEF WaitGroupBalance
  <2>5. WaiterInv'
    BY <2>1, <2>3 DEF WaiterInv, TypeOK
  <2>6. late' \subseteq Conns /\ handlers' \in Nat
    BY DEF TypeOK
  <2>7. TypeOK'
    BY <2>1, <2>6 DEF TypeOK
  <2>8. OpenIsLive' /\ CallersInv'
    BY <2>1 DEF OpenIsLive, Live, CallersInv
  <2> QED
    BY <2>4, <2>5, <2>7, <2>8
<1>6. CASE HandlersDone(c)
  <2> USE <1>6 DEF HandlersDone, Goto, stopping
  <2>1. /\ c \in Registered /\ Registered' = Registered \ {c}
        /\ Live' = Live
        /\ handler' \in [Conns -> HandlerStates]
    BY MovedHandler DEF HandlerStates, Registered, Live
  <2>2. /\ Cardinality(Registered') = Cardinality(Registered) - 1
        /\ Cardinality(Registered') \in Nat
    <3>1. IsFiniteSet(Registered')
      BY <2>1, SetsAreFinite, FS_RemoveElement
    <3> QED
      BY <2>1, <3>1, SetsAreFinite, CardinalityStep, FS_CardinalityType
  <2>3. ShutDown' = ShutDown /\ Cardinality(Registered) \in Nat
    BY SetsAreFinite DEF ShutDown
  <2>4. handlers > 0 /\ WaitGroupBalance'
    BY <2>2, <2>3 DEF WaitGroupBalance, WaitGroupDone
  <2>5. /\ WaiterInv' /\ handlers' \in Nat /\ drained' \in BOOLEAN
        /\ late' = late
        /\ waiter' \in {"idle", "parked", "woken", "returned", "panic"}
    BY <2>1, <2>3, <2>4, DoneStep
  <2>6. TypeOK' /\ OpenIsLive' /\ CallersInv'
    BY <2>1, <2>5 DEF TypeOK, OpenIsLive, Live, CallersInv
  <2> QED
    BY <2>4, <2>5, <2>6
<1>7. CASE OpenDec(c)
  <2> USE <1>7 DEF OpenDec, Goto, stopping, waitGroup
  <2>1. /\ Registered' = Registered
        /\ c \in Live /\ Live' = Live \ {c}
        /\ handler' \in [Conns -> HandlerStates]
    BY MovedHandler DEF HandlerStates, Registered, Live
  <2>2. /\ Cardinality(Live') = Cardinality(Live) - 1
        /\ Cardinality(Live') \in Nat
    <3>1. IsFiniteSet(Live')
      BY <2>1, SetsAreFinite, FS_RemoveElement
    <3> QED
      BY <2>1, <3>1, SetsAreFinite, CardinalityStep, FS_CardinalityType
  <2>3. count["open"] = Cardinality(Live) /\ Cardinality(Live) \in Nat
    BY SetsAreFinite DEF OpenIsLive, Live
  <2>4. count'["open"] = count["open"] - 1
    BY DEF TypeOK, Counters
  <2>5. count' \in [Counters -> Nat]
    BY <2>2, <2>3, <2>4 DEF TypeOK, Counters
  <2>6. OpenIsLive'
    BY <2>2, <2>3, <2>4 DEF OpenIsLive, Live
  <2>7. WaitGroupBalance' /\ CallersInv' /\ WaiterInv'
    BY <2>1 DEF WaitGroupBalance, CallersInv, WaiterInv, ShutDown
  <2> QED
    BY <2>1, <2>5, <2>6, <2>7 DEF TypeOK
<1> QED
  BY <1>1, <1>2, <1>3, <1>4, <1>5, <1>6, <1>7
     DEF Handler, Handshake, Dial, Header

(* A step that changes nothing keeps the invariant. *)
LEMMA StutterStep ==
    ASSUME IInv, UNCHANGED vars
    PROVE  IInv'
<1> USE DEF IInv, vars, waitGroup, stopping, accepting
<1>1. Registered' = Registered /\ Live' = Live /\ ShutDown' = ShutDown
  BY SetsUnchanged DEF ShutDown
<1> QED
  BY <1>1 DEF TypeOK, WaitGroupBalance, OpenIsLive, Live, CallersInv, WaiterInv

(* The invariant holds of every behaviour of the proxy. *)
THEOREM Invariance == Spec => []IInv
<1>1. IInv /\ [Next]_vars => IInv'
  BY ShutdownStep, WaitStep, AcceptStep, HandlerStep, StutterStep DEF Next
<1> QED
  BY <1>1, InitInv, PTL DEF Spec

-----------------------------------------------------------------------------
(* Type correctness.  It includes that neither the WaitGroup counter       *)
(* (sync.WaitGroup panics on a negative one) nor conn.open drops below     *)
(* zero, however handlers and repeated Shutdown calls interleave.          *)
THEOREM TypeCorrect == Spec => []TypeOK
BY Invariance, PTL DEF IInv

(* The WaitGroup counts exactly the registered handlers and Shutdown's one. *)
THEOREM BalanceHolds == Spec => []WaitGroupBalance
BY Invariance, PTL DEF IInv

(* The metric conn.open is the number of live connections. *)
THEOREM OpenCounterCorrect == Spec => []OpenIsLive
BY Invariance, PTL DEF IInv

-----------------------------------------------------------------------------
(* The other counters.  Before its dial a handler has no backend, and a    *)
(* backend is shut behind fuse and only there.                             *)
BackendInv ==
    \A c \in Conns :
        /\ handler[c] \in {"none", "accepted", "handshake", "failed", "dial"}
              => backend[c] = "none"
        /\ backend[c] = "shut"
              => handler[c] \in {"done", "dec", "close", "closed"}
        /\ handler[c] = "done" => backend[c] = "shut"

(* An error that Accept has returned and not yet looked at will be counted *)
(* unless quit is set; it was then an error of an open listener.           *)
Uncounted == IF acceptor = "error" /\ ~quit THEN 1 ELSE 0
ErrorInv ==
    count["error"] + Uncounted <= acceptErrors + Cardinality(EndedWithoutBackend)

Forwarded ==
    {c \in Conns : handler[c] \in {"add", "fuse"} \/ backend[c] = "shut"}

CountInv == BackendInv /\ ErrorInv /\ SuccessCount

(* The two sets that are counted are finite, and grow by at most the       *)
(* handler that moves.                                                     *)
LEMMA CountedSets ==
    /\ IsFiniteSet(EndedWithoutBackend) /\ Cardinality(EndedWithoutBackend) \in Nat
    /\ IsFiniteSet(Forwarded) /\ Cardinality(Forwarded) \in Nat
<1>1. EndedWithoutBackend \in SUBSET Conns /\ Forwarded \in SUBSET Conns
  BY DEF EndedWithoutBackend, Forwarded
<1> QED
  BY <1>1, ProxyAssumption, FS_Subset, FS_CardinalityType

(* A handler that moves on without ending and without starting to be       *)
(* forwarded, its backend as it was, changes neither set.                  *)
LEMMA CountQuietMove ==
    ASSUME TypeOK, CountInv, NEW c \in Conns, NEW from, NEW to \in HandlerStates,
           Goto(c, from, to), UNCHANGED backend,
           from \in {"dec", "close", "closed"} <=> to \in {"dec", "close", "closed"},
           from \in {"add", "fuse"} <=> to \in {"add", "fuse"}
    PROVE  EndedWithoutBackend' = EndedWithoutBackend /\ Forwarded' = Forwarded
BY DEF TypeOK, Goto, EndedWithoutBackend, Forwarded

(* Steps that leave handlers and backends alone: Shutdown, Wait and the    *)
(* errors of the accept loop.                                              *)
LEMMA CountNoHandler ==
    ASSUME IInv, CountInv, UNCHANGED <<handler, backend>>,
           \/ \E s \in Callers : Shutdown(s)
           \/ Wait \/ ListenerError \/ AcceptError \/ UNCHANGED vars
    PROVE  CountInv'
<1> USE DEF IInv, CountInv, stopping, accepting
<1>1. EndedWithoutBackend' = EndedWithoutBackend /\ Forwarded' = Forwarded
  BY DEF EndedWithoutBackend, Forwarded
<1>2. BackendInv'
  BY DEF BackendInv
<1>3. /\ count["error"] \in Nat /\ acceptErrors \in Nat
      /\ Cardinality(EndedWithoutBackend) \in Nat
  BY CountedSets DEF TypeOK, Counters
<1>4. CASE \E s \in Callers : Shutdown(s)
  <2>1. count' = count /\ UNCHANGED accepting /\ (quit => quit')
    BY <1>4 DEF Shutdown, ShutdownLoad, ShutdownStore, ShutdownClose,
                ShutdownDone, CallerGoto
  <2> QED
    BY <1>1, <1>2, <1>3, <2>1 DEF ErrorInv, Uncounted, SuccessCount, Forwarded
<1>5. CASE Wait \/ UNCHANGED vars
  <2>1. count' = count /\ UNCHANGED <<accepting, quit>>
    BY <1>5 DEF Wait, WaitCall, WaitWake, vars
  <2> QED
    BY <1>1, <1>2, <1>3, <2>1 DEF ErrorInv, Uncounted, SuccessCount, Forwarded
<1>6. CASE ListenerError
  <2>1. ~listenerOpen => quit
    BY DEF CallersInv
  <2> QED
    BY <1>1, <1>2, <1>3, <1>6, <2>1
       DEF ListenerError, ErrorInv, Uncounted, SuccessCount, Forwarded
<1>7. CASE AcceptError
  <2>1. /\ count'["success"] = count["success"]
        /\ count'["error"] = IF quit THEN count["error"] ELSE count["error"] + 1
    BY <1>7 DEF AcceptError, Inc, TypeOK, Counters
  <2> QED
    BY <1>1, <1>2, <1>3, <1>7, <2>1
       DEF AcceptError, ErrorInv, Uncounted, SuccessCount, Forwarded
<1> QED
  BY <1>4, <1>5, <1>6, <1>7

(* The moves of a handler that end nothing and start nothing. *)
LEMMA CountQuiet ==
    ASSUME IInv, CountInv, NEW c \in Conns,
           \/ ListenerAccept(c) \/ Spawn(c) \/ HandshakeOk(c)
           \/ HandshakeError(c) \/ HandshakeTimeout(c) \/ HeaderOk(c)
           \/ HandlersAdd(c) \/ OpenDec(c) \/ ConnClose(c)
    PROVE  CountInv'
<1> USE DEF IInv, CountInv, others, stopping, accepting, Goto, Move,
            ListenerAccept, Spawn, HandshakeOk, HandshakeError,
            HandshakeTimeout, HeaderOk, HandlersAdd, OpenDec, ConnClose
<1>1. EndedWithoutBackend' = EndedWithoutBackend /\ Forwarded' = Forwarded
  BY CountQuietMove DEF HandlerStates
<1>2. BackendInv'
  BY DEF BackendInv, TypeOK
<1>3. /\ count'["error"] = count["error"]
      /\ count'["success"] = count["success"]
      /\ acceptErrors' = acceptErrors
  BY DEF TypeOK, Counters, Inc
<1>4. Uncounted' = Uncounted
  BY DEF Uncounted
<1> QED
  BY <1>1, <1>2, <1>3, <1>4 DEF ErrorInv, SuccessCount, Forwarded

(* The moves of a handler that start or end something. *)
LEMMA CountMoves ==
    ASSUME IInv, CountInv, NEW c \in Conns,
           \/ HandshakeFailed(c) \/ DialOk(c) \/ DialError(c)
           \/ HeaderError(c) \/ CountSuccess(c) \/ FuseReturns(c) \/ HandlersDone(c)
    PROVE  CountInv'
<1> USE DEF IInv, CountInv, others, stopping, accepting, Goto, Move
<1>0. /\ count["error"] \in Nat /\ acceptErrors \in Nat
      /\ Cardinality(EndedWithoutBackend) \in Nat
      /\ count["success"] = Cardinality(Forwarded)
  BY CountedSets DEF TypeOK, Counters, SuccessCount, Forwarded
<1>1. CASE HandshakeFailed(c) \/ DialError(c)
  <2> USE <1>1 DEF HandshakeFailed, DialError, Inc
  <2>1. BackendInv'
    BY DEF BackendInv, TypeOK
  <2>2. /\ c \notin EndedWithoutBackend
        /\ EndedWithoutBackend' = EndedWithoutBackend \cup {c}
        /\ Forwarded' = Forwarded
    BY DEF EndedWithoutBackend, Forwarded, TypeOK, BackendInv
  <2>3. Cardinality(EndedWithoutBackend') = Cardinality(EndedWithoutBackend) + 1
    BY <2>2, CountedSets, CardinalityStep
  <2>4. /\ count'["error"] \in {count["error"], count["error"] + 1}
        /\ count'["success"] = count["success"]
        /\ acceptErrors' = acceptErrors /\ Uncounted' = Uncounted
    BY DEF TypeOK, Counters, Uncounted
  <2> QED
    BY <1>0, <2>1, <2>2, <2>3, <2>4
       DEF ErrorInv, Uncounted, SuccessCount, Forwarded
<1>2. CASE CountSuccess(c)
  <2> USE <1>2 DEF CountSuccess, Inc
  <2>1. BackendInv'
    BY DEF BackendInv, TypeOK
  <2>2. /\ EndedWithoutBackend' = EndedWithoutBackend
        /\ c \notin Forwarded /\ Forwarded' = Forwarded \cup {c}
    BY DEF EndedWithoutBackend, Forwarded, TypeOK, BackendInv
  <2>3. Cardinality(Forwarded') = Cardinality(Forwarded) + 1
    BY <2>2, CountedSets, CardinalityStep
  <2>4. /\ count'["error"] = count["error"]
        /\ count'["success"] = count["success"] + 1
        /\ acceptErrors' = acceptErrors /\ Uncounted' = Uncounted
    BY DEF TypeOK, Counters, Uncounted
  <2> QED
    BY <1>0, <2>1, <2>2, <2>3, <2>4
       DEF ErrorInv, SuccessCount, Forwarded
<1>3. CASE DialOk(c) \/ HeaderError(c) \/ FuseReturns(c) \/ HandlersDone(c)
  <2> USE <1>3 DEF DialOk, HeaderError, FuseReturns, HandlersDone
  <2>1. BackendInv'
    BY DEF BackendInv, TypeOK
  <2>2. EndedWithoutBackend \subseteq EndedWithoutBackend'
    BY DEF EndedWithoutBackend, TypeOK
  <2>3. Forwarded' = Forwarded
    BY DEF Forwarded, TypeOK, BackendInv
  <2>4. /\ count' = count
        /\ acceptErrors' = acceptErrors /\ Uncounted' = Uncounted
    BY DEF Uncounted
  <2>5. EndedWithoutBackend' \in SUBSET Conns
    BY DEF EndedWithoutBackend
  <2>6. /\ Cardinality(EndedWithoutBackend) <= Cardinality(EndedWithoutBackend')
        /\ Cardinality(EndedWithoutBackend') \in Nat
    BY <2>2, <2>5, ProxyAssumption, FS_Subset, FS_CardinalityType
  <2> QED
    BY <1>0, <2>1, <2>3, <2>4, <2>6
       DEF ErrorInv, Uncounted, SuccessCount, Forwarded
<1> QED
  BY <1>1, <1>2, <1>3

(* These hold in every behaviour. *)
THEOREM CountInvariance == Spec => []CountInv
<1>1. Init => CountInv
  <2> SUFFICES ASSUME Init PROVE CountInv
    OBVIOUS
  <2>1. EndedWithoutBackend = {} /\ Forwarded = {}
    BY DEF Init, EndedWithoutBackend, Forwarded
  <2> QED
    BY <2>1, FS_EmptySet
       DEF Init, Counters, CountInv, BackendInv, ErrorInv, Uncounted,
           SuccessCount, Forwarded
<1>2. IInv /\ CountInv /\ [Next]_vars => CountInv'
  <2> SUFFICES ASSUME IInv, CountInv, [Next]_vars PROVE CountInv'
    OBVIOUS
  <2>1. ASSUME NEW s \in Callers, Shutdown(s) PROVE CountInv'
    BY <2>1, CountNoHandler
       DEF Shutdown, ShutdownLoad, ShutdownStore, ShutdownClose, ShutdownDone,
           CallerGoto
  <2>2. CASE Wait \/ UNCHANGED vars
    BY <2>2, CountNoHandler DEF Wait, WaitCall, WaitWake, vars
  <2>3. CASE Accept
    BY <2>3, CountNoHandler, CountQuiet DEF Accept, ListenerError, AcceptError
  <2>4. ASSUME NEW c \in Conns, Handler(c) PROVE CountInv'
    BY <2>4, CountQuiet, CountMoves DEF Handler, Handshake, Dial, Header
  <2> QED
    BY <2>1, <2>2, <2>3, <2>4 DEF Next
<1> QED
  BY <1>1, <1>2, Invariance, PTL DEF Spec

(* accept.error is at most the number of failures of an open listener plus *)
(* the number of connections that ended without a backend, so that the     *)
(* closing by Shutdown has no share in it (proxy.go:121, 122, 143, 147).   *)
THEOREM ErrorsAreErrors == Spec => []ShutdownIsNoError
<1>1. IInv /\ CountInv => ShutdownIsNoError
  <2> SUFFICES ASSUME IInv, CountInv PROVE ShutdownIsNoError
    OBVIOUS
  <2>1. /\ count["error"] \in Nat /\ acceptErrors \in Nat
        /\ Cardinality(EndedWithoutBackend) \in Nat
    BY CountedSets DEF IInv, TypeOK, Counters
  <2> QED
    BY <2>1 DEF CountInv, ErrorInv, Uncounted, ShutdownIsNoError
<1> QED
  BY <1>1, Invariance, CountInvariance, PTL

(* A handler ends with its backend still open only by the return after a   *)
(* failed header: the other ways out have no backend or have shut it.      *)
LEMMA LeftOpenStep ==
    ASSUME IInv, BackendInv, [Next]_vars, LeftOpen' # LeftOpen
    PROVE  \E c \in Conns : HeaderError(c)
<1> USE DEF IInv, TypeOK, others, stopping, accepting, Goto, Move
<1>1. CASE UNCHANGED <<handler, backend>>
  BY <1>1 DEF LeftOpen
<1>2. ASSUME NEW c \in Conns,
             \/ ListenerAccept(c) \/ Spawn(c) \/ Handshake(c)
             \/ HandshakeFailed(c) \/ Dial(c) \/ HeaderOk(c)
      PROVE  FALSE
  <2>1. LeftOpen' = LeftOpen
    BY <1>2 DEF ListenerAccept, Spawn, Handshake, HandshakeOk, HandshakeError,
       HandshakeTimeout, HandshakeFailed, Dial, DialOk, DialError, HeaderOk,
       LeftOpen, BackendInv
  <2> QED
    BY <2>1
<1>3. ASSUME NEW c \in Conns,
             \/ CountSuccess(c) \/ HandlersAdd(c) \/ FuseReturns(c)
             \/ HandlersDone(c) \/ OpenDec(c) \/ ConnClose(c)
      PROVE  FALSE
  <2>1. LeftOpen' = LeftOpen
    BY <1>3 DEF CountSuccess, HandlersAdd, FuseReturns, HandlersDone, OpenDec,
       ConnClose, LeftOpen, BackendInv
  <2> QED
    BY <2>1
<1>4. CASE (\E s \in Callers : Shutdown(s)) \/ Wait \/ ListenerError \/ AcceptError
  BY <1>1, <1>4 DEF Shutdown, ShutdownLoad, ShutdownStore, ShutdownClose,
     ShutdownDone, CallerGoto, Wait, WaitCall, WaitWake, ListenerError, AcceptError
<1> QED
  BY <1>1, <1>2, <1>3, <1>4 DEF Next, Accept, Handler, Header, vars

(* accept.success is the number of connections that are about to be        *)
(* forwarded, are forwarded, or had their backend shut behind fuse, and    *)
(* only the return after a failed header leaves a backend open behind its  *)
(* handler (proxy.go:165-183).                                             *)
THEOREM SuccessesAreForwarded == Spec => SuccessIsForwarded
<1>1. IInv /\ CountInv /\ [Next]_vars
         => [LeftOpen' # LeftOpen => \E c \in Conns : HeaderError(c)]_vars
  BY LeftOpenStep DEF CountInv
<1>2. CountInv => SuccessCount
  BY DEF CountInv
<1> QED
  BY <1>1, <1>2, Invariance, CountInvariance, PTL DEF Spec, SuccessIsForwarded

-----------------------------------------------------------------------------
(* The proxy implements Drain. *)

Released == waiter \in {"woken", "returned", "panic"}

(* Shutdown's Close is the Close of the contract, and its Done may be the  *)
(* Finish; the other steps of Shutdown do not show.                        *)
LEMMA ShutdownRefines ==
    ASSUME IInv, NEW s \in Callers, Shutdown(s)
    PROVE  [Contract!Next]_Contract!vars
<1> USE DEF IInv, CallerGoto, accepting, waitGroup
<1>1. Registered' = Registered
  BY SetsUnchanged
     DEF Shutdown, ShutdownLoad, ShutdownStore, ShutdownClose, ShutdownDone
<1>2. CASE ShutdownLoad(s) \/ ShutdownStore(s)
  BY <1>1, <1>2 DEF ShutdownLoad, ShutdownStore, Contract!vars
<1>3. CASE ShutdownClose(s)
  <2>1. listenerOpen
    BY <1>3 DEF ShutdownClose, CallersInv, TypeOK
  <2> QED
    BY <1>1, <1>3, <2>1 DEF ShutdownClose, Contract!Next, Contract!Close
<1>4. CASE ShutdownDone(s)
  <2> USE <1>4 DEF ShutdownDone, WaitGroupDone
  <2>1. ~ShutDown /\ ~listenerOpen
    BY DEF ShutDown, CallersInv, TypeOK
  <2>2. handlers = 1 => Registered = {}
    <3>1. Cardinality(Registered) \in Nat /\ IsFiniteSet(Registered)
      BY SetsAreFinite
    <3> QED
      BY <2>1, <3>1, FS_EmptySet DEF WaitGroupBalance
  <2>3. CASE waiter' = waiter
    BY <1>1, <2>3 DEF Contract!vars
  <2>4. CASE waiter' # waiter
    BY <1>1, <2>1, <2>2, <2>4 DEF Contract!Next, Contract!Finish
  <2> QED
    BY <2>3, <2>4
<1> QED
  BY <1>2, <1>3, <1>4 DEF Shutdown

(* A Wait that finds the counter at zero is a Finish. *)
LEMMA WaitRefines ==
    ASSUME IInv, Wait
    PROVE  [Contract!Next]_Contract!vars
<1> USE DEF IInv, Wait, stopping
<1>1. Registered' = Registered
  BY SetsUnchanged DEF WaitCall, WaitWake
<1>2. CASE WaitCall
  <2>1. handlers = 0 => Registered = {} /\ ShutDown
    BY ZeroCount DEF WaitGroupBalance, Registered, ShutDown
  <2>2. ShutDown => ~listenerOpen
    BY DEF ShutDown, CallersInv
  <2>3. CASE handlers = 0
    BY <1>1, <1>2, <2>1, <2>2, <2>3 DEF WaitCall, Contract!Next, Contract!Finish
  <2>4. CASE handlers # 0
    BY <1>1, <1>2, <2>4 DEF WaitCall, Contract!vars
  <2> QED
    BY <2>3, <2>4
<1>3. CASE WaitWake
  BY <1>1, <1>3 DEF WaitWake, Contract!vars
<1> QED
  BY <1>2, <1>3

(* A step that keeps the handlers between Add and Done, the WaitGroup and  *)
(* the listener as they are does not show.                                 *)
LEMMA QuietRefines ==
    ASSUME TypeOK, UNCHANGED <<waitGroup, listenerOpen>>,
           \/ UNCHANGED handler
           \/ \E c \in Conns, from, to \in HandlerStates :
                 /\ Goto(c, from, to)
                 /\ from \in {"fuse", "done"} <=> to \in {"fuse", "done"}
    PROVE  UNCHANGED Contract!vars
<1>1. Registered' = Registered
  BY DEF TypeOK, Registered, Goto
<1> QED
  BY <1>1 DEF waitGroup, Contract!vars

(* The handlers: Add is a Join unless it comes late, Done is a Leave and   *)
(* may be the one that releases Wait.                                      *)
LEMMA HandlerRefines ==
    ASSUME IInv, NEW c \in Conns, Handler(c)
    PROVE  [Contract!Next]_Contract!vars
<1> USE DEF IInv, others, stopping
<1>1. CASE HandlersAdd(c)
  <2> USE <1>1 DEF HandlersAdd, WaitGroupAdd, Goto
  <2>1. c \notin Registered /\ Registered' = Registered \cup {c}
    BY MovedHandler DEF HandlerStates, Registered
  <2>2. CASE drained
    BY <2>1, <2>2 DEF Contract!vars
  <2>3. CASE ~drained
    <3>1. ~Released
      BY <2>3 DEF WaiterInv, Released
    <3>2. c \notin late
      BY <2>3 DEF WaiterInv
    <3> QED
      BY <2>1, <2>3, <3>1, <3>2 DEF Released, Contract!Next, Contract!Join
  <2> QED
    BY <2>2, <2>3 DEF TypeOK
<1>2. CASE HandlersDone(c)
  <2> USE <1>2 DEF HandlersDone, WaitGroupDone, Goto
  <2>1. c \in Registered /\ Registered' = Registered \ {c} /\ late' = late
    BY MovedHandler DEF HandlerStates, Registered
  <2>2. CASE waiter' = waiter
    <3>1. CASE c \in late
      BY <2>1, <2>2, <3>1 DEF Contract!vars
    <3>2. CASE c \notin late
      BY <2>1, <2>2, <3>2 DEF Contract!Next, Contract!Leave
    <3> QED
      BY <3>1, <3>2
  <2>3. CASE waiter' # waiter
    <3>1. handlers = 1 /\ waiter = "parked" /\ waiter' = "woken"
      BY <2>3
    <3>2. Registered = {c} /\ ShutDown
      <4>1. Cardinality(Registered \ {c}) = Cardinality(Registered) - 1
        BY <2>1, SetsAreFinite, CardinalityStep
      <4>2. IsFiniteSet(Registered \ {c}) /\ Cardinality(Registered \ {c}) \in Nat
        BY SetsAreFinite, FS_RemoveElement, FS_CardinalityType
      <4>3. Cardinality(Registered \ {c}) = 0 /\ ShutDown
        BY <3>1, <4>1, <4>2, SetsAreFinite DEF WaitGroupBalance
      <4> QED
        BY <2>1, <4>2, <4>3, FS_EmptySet
    <3>3. ~listenerOpen
      BY <3>2 DEF ShutDown, CallersInv
    <3>4. CASE c \in late
      BY <2>1, <3>1, <3>2, <3>3, <3>4 DEF Contract!Next, Contract!Finish
    <3>5. CASE c \notin late
      BY <2>1, <3>1, <3>2, <3>3, <3>5 DEF Contract!Next, Contract!LastLeaves
    <3> QED
      BY <3>4, <3>5
  <2> QED
    BY <2>2, <2>3
<1>3. CASE \/ HandshakeOk(c) \/ HandshakeError(c) \/ HandshakeTimeout(c)
           \/ HandshakeFailed(c) \/ DialOk(c) \/ DialError(c) \/ HeaderOk(c)
           \/ HeaderError(c) \/ CountSuccess(c) \/ FuseReturns(c) \/ OpenDec(c)
           \/ ConnClose(c)
  <2>1. UNCHANGED <<waitGroup, listenerOpen>>
    BY <1>3 DEF HandshakeOk, HandshakeError, HandshakeTimeout, HandshakeFailed,
       DialOk, DialError, HeaderOk, HeaderError, CountSuccess, FuseReturns,
       OpenDec, ConnClose, Move
  <2>2. \E from, to \in HandlerStates :
           /\ Goto(c, from, to)
           /\ from \in {"fuse", "done"} <=> to \in {"fuse", "done"}
    BY <1>3 DEF HandshakeOk, HandshakeError, HandshakeTimeout, HandshakeFailed,
       DialOk, DialError, HeaderOk, HeaderError, CountSuccess, FuseReturns,
       OpenDec, ConnClose, Move, HandlerStates
  <2> QED
    BY <2>1, <2>2, QuietRefines
<1> QED
  BY <1>1, <1>2, <1>3 DEF Handler, Handshake, Dial, Header

(* Every behaviour of the proxy is one that the contract allows. *)
THEOREM ProxyImplementsDrain == Spec => ImplementsDrain
<1>1. Init => Contract!Init
  BY DEF Init, Registered, Contract!Init
<1>2. IInv /\ [Next]_vars => [Contract!Next]_Contract!vars
  <2> SUFFICES ASSUME IInv, [Next]_vars PROVE [Contract!Next]_Contract!vars
    OBVIOUS
  <2>1. CASE Accept
    <3>1. TypeOK /\ UNCHANGED <<waitGroup, listenerOpen>>
      BY <2>1 DEF IInv, Accept, ListenerAccept, Spawn, ListenerError,
                  AcceptError, stopping
    <3>2. \/ UNCHANGED handler
          \/ \E c \in Conns, from, to \in HandlerStates :
                /\ Goto(c, from, to)
                /\ from \in {"fuse", "done"} <=> to \in {"fuse", "done"}
      BY <2>1 DEF Accept, ListenerAccept, Spawn, ListenerError, AcceptError,
                  HandlerStates
    <3> QED
      BY <3>1, <3>2, QuietRefines
  <2>2. CASE UNCHANGED vars
    BY <2>2, QuietRefines DEF vars, stopping, IInv
  <2> QED
    BY <2>1, <2>2, ShutdownRefines, WaitRefines, HandlerRefines DEF Next
<1> QED
  BY <1>1, <1>2, Invariance, PTL DEF Spec, ImplementsDrain, Contract!Spec

-----------------------------------------------------------------------------
(* Wait.  A goroutine parked in it has a Done to come, and it panics only  *)
(* when a handler joined after the counter was zero.                       *)
WakeInv ==
    /\ waiter = "parked" => handlers # 0
    /\ waiter = "panic" => late # {}

(* Only these steps touch the WaitGroup. *)
LEMMA WaitGroupSteps ==
    ASSUME [Next]_vars
    PROVE  \/ UNCHANGED waitGroup
           \/ WaitGroupDone
           \/ \E c \in Conns : WaitGroupAdd(c)
           \/ WaitCall
           \/ WaitWake
<1>1. CASE UNCHANGED vars
  BY <1>1 DEF vars
<1>2. CASE Wait
  BY <1>2 DEF Wait
<1>3. CASE Accept
  BY <1>3 DEF Accept, ListenerAccept, Spawn, ListenerError, AcceptError
<1>4. ASSUME NEW s \in Callers, Shutdown(s)
      PROVE  UNCHANGED waitGroup \/ WaitGroupDone
  BY <1>4 DEF Shutdown, ShutdownLoad, ShutdownStore, ShutdownClose, ShutdownDone
<1>5. ASSUME NEW c \in Conns, Handler(c)
      PROVE  UNCHANGED waitGroup \/ WaitGroupDone \/ WaitGroupAdd(c)
  BY <1>5 DEF Handler, Handshake, HandshakeOk, HandshakeError,
     HandshakeTimeout, HandshakeFailed, Dial, DialOk, DialError, Header,
     HeaderOk, HeaderError, CountSuccess, HandlersAdd, FuseReturns,
     HandlersDone, OpenDec, ConnClose, Move
<1> QED
  BY <1>1, <1>2, <1>3, <1>4, <1>5 DEF Next

(* A goroutine released with the counter at zero finds it moved only if a  *)
(* handler has joined since.                                               *)
LEMMA WakeStep ==
    ASSUME IInv, WakeInv, [Next]_vars
    PROVE  WakeInv'
<1> USE DEF IInv, WakeInv, TypeOK
<1>1. CASE UNCHANGED waitGroup
  BY <1>1 DEF waitGroup
<1>2. CASE WaitGroupDone
  BY <1>2 DEF WaitGroupDone
<1>3. ASSUME NEW c \in Conns, WaitGroupAdd(c)
      PROVE  WakeInv'
  <2>1. late \subseteq late' /\ waiter' = waiter /\ handlers' # 0
    BY <1>3 DEF WaitGroupAdd
  <2> QED
    BY <2>1
<1>4. CASE WaitCall
  BY <1>4 DEF WaitCall
<1>5. CASE WaitWake
  <2>1. drained /\ Registered \subseteq late /\ ShutDown
    BY <1>5 DEF WaitWake, WaiterInv
  <2>2. Registered = {} => handlers = 0
    BY <2>1, FS_EmptySet DEF WaitGroupBalance
  <2> QED
    BY <1>5, <2>1, <2>2 DEF WaitWake
<1> QED
  BY <1>1, <1>2, <1>3, <1>4, <1>5, WaitGroupSteps

(* So it is in every behaviour of the proxy (proxy.go:123, 131, 181, 182). *)
THEOREM WakeInvariance == Spec => []WakeInv
<1>1. Init => WakeInv
  BY DEF Init, WakeInv
<1>2. IInv /\ WakeInv /\ [Next]_vars => WakeInv'
  BY WakeStep
<1> QED
  BY <1>1, <1>2, Invariance, PTL DEF Spec

ParkedIsAwaited ==
    waiter = "parked" => Registered # {} \/ ~ShutDown

(* No wake-up is lost: while a goroutine is parked in Wait the counter is  *)
(* not zero, so that a handler or Shutdown still has a Done to call        *)
(* (proxy.go:123, 131, 182).                                               *)
THEOREM NoLostWakeup == Spec => []ParkedIsAwaited
<1>1. IInv /\ WakeInv => ParkedIsAwaited
  BY FS_EmptySet DEF IInv, WakeInv, ParkedIsAwaited, WaitGroupBalance
<1> QED
  BY <1>1, Invariance, WakeInvariance, PTL

(* Both promises of the comment on Wait hold as long as no handler calls   *)
(* Add(1) after the counter has been zero: Wait does not panic, and when   *)
(* it has returned nothing is being forwarded.  The late Add of a handler  *)
(* that was still in its handshake or dialling is the only way in which    *)
(* either fails (proxy.go:126-132, 181).                                   *)
THEOREM OnlyLateHandlersBreakWait ==
    Spec => [](late = {} => WaitIsSafe /\ WaitMeansDrained)
<1>1. IInv /\ WakeInv => (late = {} => WaitIsSafe /\ WaitMeansDrained)
  BY DEF IInv, WakeInv, WaiterInv, WaitIsSafe, WaitMeansDrained, Registered
<1> QED
  BY <1>1, Invariance, WakeInvariance, PTL

=============================================================================

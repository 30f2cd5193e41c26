-------------------------------- MODULE Proxy --------------------------------
(***************************************************************************)
(* The connection handling of proxy/proxy.go: the accept loop, one handler *)
(* goroutine per accepted connection, the callers of Shutdown and the      *)
(* caller of Wait, with the WaitGroup and the counters they share.         *)
(*                                                                         *)
(* Every step that reads or writes state shared by two goroutines is an    *)
(* action of its own.  What happens inside fuse is in module Fuse; here    *)
(* fuse is a handler state that ends in one step.                          *)
(***************************************************************************)
EXTENDS Integers, FiniteSets

CONSTANTS
    Conns,            \* the connections clients may open
    Callers,          \* the calls of Shutdown, made one after the other
    IsTLS,            \* the listener yields *tls.Conn (server mode)
    ProxyProtocol,    \* EnableProxyProtocol was called
    MaxAcceptErrors   \* bound: how often Accept fails on an open listener

ASSUME ProxyAssumption ==
    /\ IsFiniteSet(Conns)
    /\ IsTLS \in BOOLEAN
    /\ ProxyProtocol \in BOOLEAN
    /\ MaxAcceptErrors \in Nat

VARIABLES
    quit,             \* Proxy.quit
    listenerOpen,     \* Proxy.Listener has not been closed
    handlers,         \* the counter of the WaitGroup Proxy.handlers
    drained,          \* history: that counter has been zero
    late,             \* history: handlers that called Add(1) after that
    acceptor,         \* where the goroutine running Accept is
    acceptErrors,     \* Accept failures on an open listener so far
    handler,          \* where the goroutine of each connection is
    backend,          \* the connection each handler dialled
    caller,           \* where each call of Shutdown is
    waiter,           \* where the goroutine that calls Wait is
    count             \* openCounter, totalCounter, ... by metric name

waitGroup == <<handlers, drained, late, waiter>>
stopping  == <<quit, listenerOpen, caller>>
accepting == <<acceptor, acceptErrors>>
vars == <<waitGroup, stopping, accepting, handler, backend, count>>

HandlerStates == {"none", "accepted", "handshake", "failed", "dial", "header",
                  "success", "add", "fuse", "done", "dec", "close", "closed"}

Counters == {"open", "total", "success", "error", "timeout"}

TypeOK ==
    /\ quit \in BOOLEAN
    /\ listenerOpen \in BOOLEAN
    /\ handlers \in Nat
    /\ drained \in BOOLEAN
    /\ late \subseteq Conns
    /\ acceptor \in {"accept", "conn", "error", "returned"}
    /\ acceptErrors \in 0 .. MaxAcceptErrors
    /\ handler \in [Conns -> HandlerStates]
    /\ backend \in [Conns -> {"none", "open", "shut"}]
    /\ caller \in [Callers -> {"idle", "store", "close", "done", "returned"}]
    /\ waiter \in {"idle", "parked", "woken", "returned", "panic"}
    /\ count \in [Counters -> Nat]

(* New adds one to the WaitGroup, so that Wait blocks until Shutdown. *)
InitialHandlers == 1

Init ==
    /\ quit = FALSE
    /\ listenerOpen = TRUE
    /\ handlers = InitialHandlers
    /\ drained = FALSE
    /\ late = {}
    /\ acceptor = "accept"
    /\ acceptErrors = 0
    /\ handler = [c \in Conns |-> "none"]
    /\ backend = [c \in Conns |-> "none"]
    /\ caller = [s \in Callers |-> "idle"]
    /\ waiter = "idle"
    /\ count = [k \in Counters |-> 0]

-----------------------------------------------------------------------------
(* sync.WaitGroup.  Done releases the parked goroutine when the counter    *)
(* reaches zero; when that goroutine runs again it panics if the counter   *)
(* has moved in between ("WaitGroup is reused before previous Wait has     *)
(* returned").  A negative counter panics in Done itself.                  *)

WaitGroupAdd(c) ==
    /\ handlers' = handlers + 1
    /\ late' = IF drained THEN late \cup {c} ELSE late
    /\ UNCHANGED <<drained, waiter>>

WaitGroupDone ==
    /\ handlers' = handlers - 1
    /\ drained' = (drained \/ handlers = 1)
    /\ waiter' = IF handlers = 1 /\ waiter = "parked" THEN "woken" ELSE waiter
    /\ UNCHANGED late

(* A panic in any goroutine ends the process. *)
Running == handlers >= 0 /\ waiter # "panic"

(* Wait, and the wake-up inside it. *)
WaitCall ==
    /\ waiter = "idle"
    /\ waiter' = IF handlers = 0 THEN "returned" ELSE "parked"
    /\ UNCHANGED <<handlers, drained, late, stopping, accepting, handler,
                   backend, count>>

WaitWake ==
    /\ waiter = "woken"
    /\ waiter' = IF handlers = 0 THEN "returned" ELSE "panic"
    /\ UNCHANGED <<handlers, drained, late, stopping, accepting, handler,
                   backend, count>>

-----------------------------------------------------------------------------
(* Shutdown.  The calls come one after the other, as in signalHandler      *)
(* (which makes one) and in the tests (which make several).                *)

CallerGoto(s, from, to) ==
    /\ caller[s] = from
    /\ caller' = [caller EXCEPT ![s] = to]
    /\ UNCHANGED <<accepting, handler, backend, count>>

(* Mutant: the early return is missing. *)
ShutdownLoadUnchecked(s) ==
    /\ \A t \in Callers : caller[t] \in {"idle", "returned"}
    /\ CallerGoto(s, "idle", "store")
    /\ UNCHANGED <<quit, listenerOpen, waitGroup>>

ShutdownLoad(s) ==
    /\ \A t \in Callers : caller[t] \in {"idle", "returned"}
    /\ CallerGoto(s, "idle", IF quit THEN "returned" ELSE "store")
    /\ UNCHANGED <<quit, listenerOpen, waitGroup>>

(* Mutant: the listener is closed while quit is still unset. *)
CloseBeforeStore(s) ==
    /\ CallerGoto(s, "store", "close")
    /\ listenerOpen' = FALSE
    /\ UNCHANGED <<quit, waitGroup>>

ShutdownStore(s) ==
    /\ CallerGoto(s, "store", "close")
    /\ quit' = TRUE
    /\ UNCHANGED <<listenerOpen, waitGroup>>

ShutdownClose(s) ==
    /\ CallerGoto(s, "close", "done")
    /\ listenerOpen' = FALSE
    /\ UNCHANGED <<quit, waitGroup>>

ShutdownDone(s) ==
    /\ CallerGoto(s, "done", "returned")
    /\ WaitGroupDone
    /\ UNCHANGED <<quit, listenerOpen>>

-----------------------------------------------------------------------------
(* The accept loop. *)

Goto(c, from, to) ==
    /\ handler[c] = from
    /\ handler' = [handler EXCEPT ![c] = to]

Inc(k) == count' = [count EXCEPT ![k] = @ + 1]

(* Listener.Accept returns a connection ... *)
ListenerAccept(c) ==
    /\ acceptor = "accept"
    /\ listenerOpen
    /\ acceptor' = "conn"
    /\ Goto(c, "none", "accepted")
    /\ UNCHANGED <<acceptErrors, stopping, waitGroup, backend, count>>

(* ... or an error: always once it is closed, now and then before. *)
ListenerError ==
    /\ acceptor = "accept"
    /\ acceptor' = "error"
    /\ \/ ~listenerOpen /\ UNCHANGED acceptErrors
       \/ /\ listenerOpen
          /\ acceptErrors < MaxAcceptErrors
          /\ acceptErrors' = acceptErrors + 1
    /\ UNCHANGED <<stopping, waitGroup, handler, backend, count>>

(* Mutant: the loop goes on after Shutdown. *)
AcceptErrorContinues ==
    /\ acceptor = "error"
    /\ acceptor' = "accept"
    /\ IF quit THEN UNCHANGED count ELSE Inc("error")
    /\ UNCHANGED <<acceptErrors, stopping, waitGroup, handler, backend>>

(* The loop ends on an error if quit is set, and counts it otherwise. *)
AcceptError ==
    /\ acceptor = "error"
    /\ \/ quit /\ acceptor' = "returned" /\ UNCHANGED count
       \/ ~quit /\ acceptor' = "accept" /\ Inc("error")
    /\ UNCHANGED <<acceptErrors, stopping, waitGroup, handler, backend>>

Spawn(c) ==
    /\ acceptor = "conn"
    /\ acceptor' = "accept"
    /\ Goto(c, "accepted", "handshake")
    /\ count' = [count EXCEPT !["open"] = @ + 1, !["total"] = @ + 1]
    /\ UNCHANGED <<acceptErrors, stopping, waitGroup, backend>>

-----------------------------------------------------------------------------
(* The handler of connection c. *)

others == <<stopping, accepting>>
Move(c, from, to) ==
    Goto(c, from, to) /\ UNCHANGED <<others, waitGroup, backend, count>>

(* The handshake succeeds; forceHandshake does nothing for a connection    *)
(* that is not *tls.Conn.                                                  *)
HandshakeOk(c) == Move(c, "handshake", "dial")

(* The peer is refused or goes away, or a deadline cannot be set. *)
HandshakeError(c) == IsTLS /\ Move(c, "handshake", "failed")

(* The deadline set before the handshake passes. *)
NoDeadline(c) == FALSE   \* mutant: SetDeadline is not called
HandshakeTimeout(c) ==
    /\ IsTLS
    /\ Goto(c, "handshake", "failed")
    /\ Inc("timeout")
    /\ UNCHANGED <<others, waitGroup, backend>>

HandshakeFailed(c) ==
    /\ Goto(c, "failed", "dec")
    /\ Inc("error")
    /\ UNCHANGED <<others, waitGroup, backend>>

DialOk(c) ==
    /\ Goto(c, "dial", IF ProxyProtocol THEN "header" ELSE "success")
    /\ backend' = [backend EXCEPT ![c] = "open"]
    /\ UNCHANGED <<others, waitGroup, count>>

(* Mutant: a connection that comes with an error stays open. *)
DialErrorLeavesBackend(c) ==
    /\ Goto(c, "dial", "dec")
    /\ backend' = [backend EXCEPT ![c] = "open"]
    /\ UNCHANGED <<others, waitGroup, count>>

(* Mutant: the return skips the Dec of conn.open. *)
DialErrorSkipsDec(c) == Move(c, "dial", "close")
DialError(c) == Move(c, "dial", "dec")

HeaderOk(c) == Move(c, "header", "success")

(* The early return closes the client (deferred) and not the backend. *)
HeaderError(c) == Move(c, "header", "dec")

CountSuccess(c) ==
    /\ Goto(c, "success", "add")
    /\ Inc("success")
    /\ UNCHANGED <<others, waitGroup, backend>>

(* Mutant: the handler does not join the WaitGroup. *)
HandlersAddDropped(c) == Move(c, "add", "fuse")

HandlersAdd(c) ==
    /\ Goto(c, "add", "fuse")
    /\ WaitGroupAdd(c)
    /\ UNCHANGED <<others, backend, count>>

(* fuse returns: both directions of both connections are shut. *)
FuseReturns(c) ==
    /\ Goto(c, "fuse", "done")
    /\ backend' = [backend EXCEPT ![c] = "shut"]
    /\ UNCHANGED <<others, waitGroup, count>>

(* The deferred calls, last deferred first. *)
HandlersDoneDropped(c) == Move(c, "done", "dec")   \* mutant: no Done

HandlersDone(c) ==
    /\ Goto(c, "done", "dec")
    /\ WaitGroupDone
    /\ UNCHANGED <<others, backend, count>>

OpenDec(c) ==
    /\ Goto(c, "dec", "close")
    /\ count' = [count EXCEPT !["open"] = @ - 1]
    /\ UNCHANGED <<others, waitGroup, backend>>

ConnClose(c) == Move(c, "close", "closed")

-----------------------------------------------------------------------------
Shutdown(s) ==
    ShutdownLoad(s) \/ ShutdownStore(s) \/ ShutdownClose(s) \/ ShutdownDone(s)

Wait == WaitCall \/ WaitWake

Accept ==
    \/ \E c \in Conns : ListenerAccept(c) \/ Spawn(c)
    \/ ListenerError
    \/ AcceptError

Handshake(c) ==
    \/ HandshakeOk(c)
    \/ HandshakeError(c)
    \/ HandshakeTimeout(c)

Dial(c) == DialOk(c) \/ DialError(c)

Header(c) == HeaderOk(c) \/ HeaderError(c)

Handler(c) ==
    \/ Handshake(c)
    \/ HandshakeFailed(c)
    \/ Dial(c)
    \/ Header(c)
    \/ CountSuccess(c)
    \/ HandlersAdd(c)
    \/ FuseReturns(c)
    \/ HandlersDone(c)
    \/ OpenDec(c)
    \/ ConnClose(c)

(* Every goroutine has returned, or the process has panicked. *)
Finished ==
    \/ ~Running
    \/ /\ acceptor = "returned"
       /\ waiter = "returned"
       /\ \A s \in Callers : caller[s] = "returned"
       /\ \A c \in Conns : handler[c] \in {"none", "closed"}

Next ==
    \/ Running /\ \E s \in Callers : Shutdown(s)
    \/ Running /\ Wait
    \/ Running /\ Accept
    \/ Running /\ \E c \in Conns : Handler(c)
    \/ Finished /\ UNCHANGED vars

Spec == Init /\ [][Next]_vars

(* What the code guarantees to happen: a goroutine that can run does; a    *)
(* handshake ends at its deadline if not before; a dial ends at its        *)
(* timeout if not before; a header of a few bytes fits the buffer of a     *)
(* fresh socket.  Nothing makes a client connect or finish its handshake,  *)
(* a caller call Shutdown or a forwarded connection end.                   *)
FairHandler(c) ==
    \/ ~IsTLS /\ HandshakeOk(c)
    \/ HandshakeTimeout(c)
    \/ HandshakeFailed(c)
    \/ Dial(c)
    \/ Header(c)
    \/ CountSuccess(c)
    \/ HandlersAdd(c)
    \/ HandlersDone(c)
    \/ OpenDec(c)
    \/ ConnClose(c)

FairAccept ==
    \/ ~listenerOpen /\ ListenerError
    \/ AcceptError
    \/ \E c \in Conns : Spawn(c)

FairShutdown(s) == ShutdownStore(s) \/ ShutdownClose(s) \/ ShutdownDone(s)

Fairness ==
    /\ \A s \in Callers : WF_vars(Running /\ FairShutdown(s))
    /\ WF_vars(Running /\ Wait)
    /\ WF_vars(Running /\ FairAccept)
    /\ \A c \in Conns : WF_vars(Running /\ FairHandler(c))

FairSpec == Spec /\ Fairness

-----------------------------------------------------------------------------
(* Safety. *)

Registered == {c \in Conns : handler[c] \in {"fuse", "done"}}
ShutDown == \E s \in Callers : caller[s] = "returned"

(* The WaitGroup counts the handlers between Add and Done, plus one until  *)
(* Shutdown has run to its end: no path through a handler or through       *)
(* repeated Shutdown calls adds or removes one too many (proxy.go:108,     *)
(* 123, 181, 182).                                                         *)
WaitGroupBalance ==
    handlers = Cardinality(Registered) + (IF ShutDown THEN 0 ELSE 1)

(* The proxy keeps the contract of module Drain: Wait gets past its        *)
(* wake-up only after Shutdown has closed the listener for good and every  *)
(* handler that joined before the counter was zero has left, and no such   *)
(* handler joins later (proxy.go:117-132, 181, 182).                       *)
Contract == INSTANCE Drain WITH
    accepting <- listenerOpen,
    forwarding <- Registered \ late,
    finished <- waiter \in {"woken", "returned", "panic"}
ImplementsDrain == Contract!Spec

(* conn.open is the number of connections between the accept loop's Inc    *)
(* and the handler's deferred Dec, whichever way the handler ends          *)
(* (proxy.go:151, 156).                                                    *)
OpenIsLive ==
    count["open"] = Cardinality({c \in Conns : handler[c] \notin
                                  {"none", "accepted", "close", "closed"}})

(* accept.error never exceeds the failures of an open listener plus the    *)
(* connections that ended without a backend: closing the listener in       *)
(* Shutdown is not counted, because quit is stored before Close            *)
(* (proxy.go:121, 122, 143, 147).                                          *)
EndedWithoutBackend ==
    {c \in Conns : handler[c] \in {"dec", "close", "closed"}
                     /\ backend[c] = "none"}
ShutdownIsNoError ==
    count["error"] <= acceptErrors + Cardinality(EndedWithoutBackend)

(* accept.success is the number of connections that are about to be        *)
(* forwarded, are forwarded, or had their backend shut behind fuse, and    *)
(* nothing but the early return after a failed header leaves a backend     *)
(* open behind its handler (proxy.go:165-183).                             *)
SuccessCount ==
    count["success"] =
        Cardinality({c \in Conns : \/ handler[c] \in {"add", "fuse"}
                                  \/ backend[c] = "shut"})
LeftOpen ==
    {c \in Conns : handler[c] \in {"dec", "close", "closed"}
                     /\ backend[c] = "open"}
SuccessIsForwarded ==
    /\ []SuccessCount
    /\ [][LeftOpen' # LeftOpen => \E c \in Conns : HeaderError(c)]_vars

(* What the comment on Wait promises: when it has returned, connections    *)
(* are drained, so that none is being forwarded (proxy.go:126).            *)
WaitMeansDrained ==
    waiter = "returned" => \A c \in Conns : handler[c] # "fuse"

(* What the comment on Wait promises to a caller that runs Accept in a     *)
(* goroutine: calling Wait is safe, so it does not panic (proxy.go:128).   *)
WaitIsSafe == waiter # "panic"

-----------------------------------------------------------------------------
(* Liveness. *)

(* A connection that got a handler is forwarded or closed: neither a       *)
(* silent client nor a silent backend holds it before that (proxy.go:188). *)
HandlerDecides ==
    \A c \in Conns :
        handler[c] = "handshake" ~> handler[c] \in {"fuse", "closed"} \/ ~Running

(* After Shutdown the accept loop ends (proxy.go:135).                     *)
AcceptLoopEnds == quit ~> acceptor = "returned" \/ ~Running

(* If forwarded connections end, a caller of Wait gets past it after       *)
(* Shutdown (proxy.go:126).                                                *)
WaitEnds ==
    (\A c \in Conns : []<>(handler[c] # "fuse"))
        => (quit ~> waiter = "returned" \/ ~Running)

=============================================================================

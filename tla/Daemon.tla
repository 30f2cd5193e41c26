-------------------------------- MODULE Daemon --------------------------------
(***************************************************************************)
(* The process around the proxy: serverListen and clientListen of main.go, *)
(* signalHandler, reloadHandler and reload of signals.go, and the status   *)
(* handler of status.go.                                                   *)
(*                                                                         *)
(* The main goroutine starts everything, handles signals and waits for the *)
(* proxy; a second goroutine reloads on a timer; AfterFunc may end the     *)
(* process; HTTP requests read the status.  The proxy is reduced to its    *)
(* listener, the connections and what Wait sees of them (module Proxy has  *)
(* the rest), and cert.Reload to one step (module Certificate).            *)
(***************************************************************************)
EXTENDS Naturals, Sequences

CONSTANTS
    Conns,          \* connections
    HasCert,        \* buildCertificate returned a certificate, not nil
    TimedReload,    \* --timed-reload is not zero
    StatusNet,      \* the network of --status, or "off"
    MaxSignals      \* bound: signals sent to the process

ASSUME DaemonAssumption ==
    /\ {HasCert, TimedReload} \subseteq BOOLEAN
    /\ StatusNet \in {"off", "tcp", "unix"}
    /\ MaxSignals \in Nat

VARIABLES
    main,           \* where the main goroutine is
    reloader,       \* where each goroutine is inside reload
    exit,           \* "running", or how the process ended
    signals,        \* the channel of signalHandler
    notified,       \* signal.Notify is in effect
    sent,           \* signals sent so far
    forceTimer,     \* the AfterFunc of the shutdown timeout
    listener,       \* the proxy's listener: "none", "bound", "closed"
    accepting,      \* go p.Accept() has been started
    conn,           \* connections: "none", "pending" until handlers.Add, then
                    \* "forwarding", or "late" when the WaitGroup has been zero
    listening, reloading,   \* statusHandler
    statusHTTP,     \* the status server: "off", "up" or "down"
    request,        \* an HTTP request for /_status
    answer          \* ... and what it was told

status == <<listening, reloading>>
signalling == <<signals, notified, sent>>
proxy == <<listener, accepting, conn>>
http == <<statusHTTP, request, answer>>
vars == <<main, reloader, exit, signalling, forceTimer, proxy, status, http>>

Goroutines == {"main", "ticker"}
Signals == {"shutdown", "refresh"}
ChannelSize == 3
Ending == {"wait", "parked", "woken", "exit"}
Messages == {"initializing", "reloading", "listening"}

(* Values of the variables; the main goroutine is in its signal loop's     *)
(* reload exactly while it runs reload (signals.go calls it in place).     *)
TypeOK ==
    /\ main \in {"listen", "serveStatus", "accept", "listening", "notify",
                 "select", "reload", "shutdown"} \cup Ending
    /\ reloader \in [Goroutines -> {"idle", "cert", "listening"}]
    /\ main = "reload" <=> reloader["main"] # "idle"
    /\ exit \in {"running", "zero", "one", "killed", "panic"}
    /\ signals \in Seq(Signals) /\ Len(signals) <= ChannelSize
    /\ notified \in BOOLEAN
    /\ sent \in 0 .. MaxSignals
    /\ forceTimer \in {"off", "armed"}
    /\ listener \in {"none", "bound", "closed"}
    /\ accepting \in BOOLEAN
    /\ conn \in [Conns -> {"none", "pending", "forwarding", "late"}]
    /\ listening \in BOOLEAN
    /\ reloading \in BOOLEAN
    /\ statusHTTP \in {"off", "up", "down"}
    /\ request \in {"none", "dialOk", "dialFailed"}
    /\ answer \in [ok : BOOLEAN, message : Messages]

Init ==
    /\ main = "listen"
    /\ reloader = [g \in Goroutines |-> "idle"]
    /\ exit = "running"
    /\ signals = <<>>
    /\ notified = FALSE
    /\ sent = 0
    /\ forceTimer = "off"
    /\ listener = "none"
    /\ accepting = FALSE
    /\ conn = [c \in Conns |-> "none"]
    /\ listening = FALSE
    /\ reloading = FALSE
    /\ statusHTTP = "off"
    /\ request = "none"
    /\ answer = [ok |-> FALSE, message |-> "initializing"]

-----------------------------------------------------------------------------
(* Start-up, in the order of serverListen and clientListen. *)

MainGoto(from, to) == main = from /\ main' = to

Listen ==
    /\ MainGoto("listen", "serveStatus")
    /\ listener' = "bound"
    /\ UNCHANGED <<reloader, exit, signalling, forceTimer, accepting, conn,
                   status, http>>

(* A flag, an address or a port that cannot be used: run returns the error. *)
StartError ==
    /\ main = "listen"
    /\ exit' = "one"
    /\ UNCHANGED <<main, reloader, signalling, forceTimer, proxy, status, http>>

(* Mutant: the status port is served before the proxy's listener is bound. *)
ServeStatusEarly ==
    /\ main \in {"listen", "serveStatus"}
    /\ main' = IF main = "listen" THEN "listen" ELSE "accept"
    /\ statusHTTP' = IF StatusNet # "off" THEN "up" ELSE "off"
    /\ UNCHANGED <<reloader, exit, signalling, forceTimer, proxy, status,
                   request, answer>>

ServeStatus ==
    /\ MainGoto("serveStatus", "accept")
    /\ statusHTTP' = IF StatusNet # "off" THEN "up" ELSE "off"
    /\ UNCHANGED <<reloader, exit, signalling, forceTimer, proxy, status,
                   request, answer>>

(* serveStatus fails.  When a UNIX socket cannot be bound, the type        *)
(* assertion on the nil listener comes before the check of the error.      *)
StatusError ==
    /\ main = "serveStatus"
    /\ StatusNet # "off"
    /\ exit' \in IF StatusNet = "unix" THEN {"one", "panic"} ELSE {"one"}
    /\ UNCHANGED <<main, reloader, signalling, forceTimer, proxy, status, http>>

GoAccept ==
    /\ MainGoto("accept", "listening")
    /\ accepting' = TRUE
    /\ UNCHANGED <<reloader, exit, signalling, forceTimer, listener, conn,
                   status, http>>

MainListening ==
    /\ MainGoto("listening", "notify")
    /\ listening' = TRUE
    /\ reloading' = FALSE
    /\ UNCHANGED <<reloader, exit, signalling, forceTimer, proxy, http>>

Notify ==
    /\ MainGoto("notify", "select")
    /\ notified' = TRUE
    /\ UNCHANGED <<reloader, exit, signals, sent, forceTimer, proxy,
                   status, http>>

-----------------------------------------------------------------------------
(* reload, in goroutine g. *)

(* status.Reloading() *)
Reloading(g) ==
    /\ reloader[g] = "idle"
    /\ reloader' = [reloader EXCEPT ![g] = "cert"]
    /\ reloading' = TRUE
    /\ UNCHANGED listening

(* Mutant: reload returns when cert.Reload fails. *)
CertReloadReturns(g) ==
    /\ reloader[g] = "cert"
    /\ \/ reloader' = [reloader EXCEPT ![g] = "listening"] /\ UNCHANGED main
       \/ /\ reloader' = [reloader EXCEPT ![g] = "idle"]
          /\ main' = IF g = "main" THEN "select" ELSE main
    /\ UNCHANGED <<exit, signalling, forceTimer, proxy, status, http>>

(* context.cert.Reload(): a call on a nil interface panics; an error is    *)
(* logged.                                                                 *)
CertReload(g) ==
    /\ reloader[g] = "cert"
    /\ reloader' = [reloader EXCEPT ![g] = "listening"]
    /\ exit' = IF HasCert THEN exit ELSE "panic"
    /\ UNCHANGED <<main, signalling, forceTimer, proxy, status, http>>

(* status.Listening(), after which the main goroutine selects again. *)
Listening(g) ==
    /\ reloader[g] = "listening"
    /\ reloader' = [reloader EXCEPT ![g] = "idle"]
    /\ listening' = TRUE
    /\ reloading' = FALSE
    /\ main' = IF g = "main" THEN "select" ELSE main
    /\ UNCHANGED <<exit, signalling, forceTimer, proxy, http>>

(* reloadHandler starts with run and reloads at every tick. *)
Tick ==
    /\ TimedReload
    /\ Reloading("ticker")
    /\ UNCHANGED <<main, exit, signalling, forceTimer, proxy, http>>

-----------------------------------------------------------------------------
(* Signals.  The runtime does not wait for room in the channel.  Without   *)
(* Notify, SIGINT and SIGTERM end the process and SIGUSR1 does nothing.    *)

Send(sig) ==
    /\ sent < MaxSignals
    /\ sent' = sent + 1
    /\ \/ /\ notified
          /\ Len(signals) < ChannelSize
          /\ signals' = Append(signals, sig)
          /\ UNCHANGED exit
       \/ /\ notified
          /\ Len(signals) = ChannelSize
          /\ UNCHANGED <<signals, exit>>
       \/ /\ ~notified
          /\ exit' = IF sig = "shutdown" THEN "killed" ELSE exit
          /\ UNCHANGED signals
    /\ UNCHANGED <<main, reloader, notified, forceTimer, proxy, status, http>>

(* Mutant: the signal handler reloads in a goroutine of its own. *)
ReceiveRefreshAsync ==
    /\ main = "select"
    /\ signals # <<>> /\ Head(signals) = "refresh"
    /\ signals' = Tail(signals)
    /\ Reloading("main")
    /\ UNCHANGED <<main, exit, notified, sent, forceTimer, proxy, http>>

ReceiveRefresh ==
    /\ main = "select"
    /\ signals # <<>> /\ Head(signals) = "refresh"
    /\ signals' = Tail(signals)
    /\ main' = "reload"
    /\ Reloading("main")
    /\ UNCHANGED <<exit, notified, sent, forceTimer, proxy, http>>

(* Mutant: no forced exit. *)
ReceiveShutdownNoTimer ==
    /\ main = "select"
    /\ signals # <<>> /\ Head(signals) = "shutdown"
    /\ signals' = Tail(signals)
    /\ main' = "shutdown"
    /\ UNCHANGED <<reloader, exit, notified, sent, forceTimer, proxy,
                   status, http>>

(* The status server is shut down in a goroutine of its own, the forced    *)
(* exit is armed, and p.Shutdown closes the listener.                      *)
ReceiveShutdown ==
    /\ main = "select"
    /\ signals # <<>> /\ Head(signals) = "shutdown"
    /\ signals' = Tail(signals)
    /\ main' = "shutdown"
    /\ forceTimer' = "armed"
    /\ UNCHANGED <<reloader, exit, notified, sent, proxy, status, http>>

StatusShutdown ==
    /\ main \in {"shutdown"} \cup Ending
    /\ statusHTTP = "up"
    /\ statusHTTP' = "down"
    /\ UNCHANGED <<main, reloader, exit, signalling, forceTimer, proxy, status,
                   request, answer>>

(* p.Shutdown(), return from signalHandler with the deferred signal.Stop. *)
ProxyShutdown ==
    /\ MainGoto("shutdown", "wait")
    /\ listener' = "closed"
    /\ notified' = FALSE
    /\ UNCHANGED <<reloader, exit, signals, sent, forceTimer,
                   accepting, conn, status, http>>

(* Connections that called handlers.Add(1) and not yet Done. *)
Registered == {c \in Conns : conn[c] \in {"forwarding", "late"}}

(* Mutant: main does not call p.Wait(). *)
WaitCallMissing ==
    /\ MainGoto("wait", "exit")
    /\ UNCHANGED <<reloader, exit, signalling, forceTimer, proxy, status, http>>

(* p.Wait() returns at once when the WaitGroup is at zero, or parks main. *)
WaitCall ==
    /\ MainGoto("wait", IF Registered = {} THEN "exit" ELSE "parked")
    /\ UNCHANGED <<reloader, exit, signalling, forceTimer, proxy, status, http>>

(* Back from its semaphore, Wait returns, or panics if the WaitGroup has   *)
(* been used again since the Done that woke it.                            *)
WaitWake ==
    /\ main = "woken"
    /\ \/ Registered = {} /\ main' = "exit" /\ UNCHANGED exit
       \/ Registered # {} /\ exit' = "panic" /\ UNCHANGED main
    /\ UNCHANGED <<reloader, signalling, forceTimer, proxy, status, http>>

(* run returns nil, and main exits with status zero. *)
Exit ==
    /\ main = "exit"
    /\ exit' = "zero"
    /\ UNCHANGED <<main, reloader, signalling, forceTimer, proxy, status, http>>

ForceExit ==
    /\ forceTimer = "armed"
    /\ exit' = "one"
    /\ UNCHANGED <<main, reloader, signalling, forceTimer, proxy, status, http>>

-----------------------------------------------------------------------------
(* The proxy, and requests for /_status. *)

Connection(c, from, to) ==
    /\ conn[c] = from /\ conn' = [conn EXCEPT ![c] = to]
    /\ UNCHANGED <<reloader, exit, signalling, forceTimer, listener, accepting,
                   status, http>>

ConnectionAccept(c) ==
    /\ listener = "bound" /\ accepting
    /\ Connection(c, "none", "pending")
    /\ UNCHANGED main

(* Shutdown has given back its one, and so has everybody who came in time. *)
Drained == listener = "closed" /\ \A c \in Conns : conn[c] # "forwarding"

(* Dropped, or joined to a backend and registered. *)
ConnectionSetUp(c) ==
    /\ Connection(c, "pending", "none")
          \/ Connection(c, "pending", IF Drained THEN "late" ELSE "forwarding")
    /\ UNCHANGED main

(* Ended by one of its peers; the last Done wakes main. *)
ConnectionEnd(c) ==
    /\ \E from \in {"forwarding", "late"} : Connection(c, from, "none")
    /\ main' = IF main = "parked" /\ Registered = {c} THEN "woken" ELSE main

(* ServeHTTP dials the backend first ... *)
RequestDial ==
    /\ statusHTTP = "up"
    /\ request = "none"
    /\ request' \in {"dialOk", "dialFailed"}
    /\ UNCHANGED <<main, reloader, exit, signalling, forceTimer, proxy, status,
                   statusHTTP, answer>>

(* ... and takes the lock to read the status afterwards. *)
RequestAnswer ==
    /\ request # "none"
    /\ request' = "none"
    /\ answer' = [ok |-> listening /\ request = "dialOk",
                  message |-> IF ~listening THEN "initializing"
                              ELSE IF reloading THEN "reloading"
                              ELSE "listening"]
    /\ UNCHANGED <<main, reloader, exit, signalling, forceTimer, proxy, status,
                   statusHTTP>>

-----------------------------------------------------------------------------
Start ==
    \/ Listen \/ StartError \/ ServeStatus \/ StatusError
    \/ GoAccept \/ MainListening \/ Notify

Reload(g) == CertReload(g) \/ Listening(g)

SignalHandler == ReceiveRefresh \/ ReceiveShutdown \/ ProxyShutdown

Wait == WaitCall \/ WaitWake \/ Exit

Environment ==
    \/ \E sig \in Signals : Send(sig)
    \/ \E c \in Conns : ConnectionAccept(c) \/ ConnectionSetUp(c) \/ ConnectionEnd(c)
    \/ RequestDial

Running == exit = "running"

Next ==
    \/ Running /\ Start
    \/ Running /\ SignalHandler
    \/ Running /\ Wait
    \/ Running /\ \E g \in Goroutines : Reload(g)
    \/ Running /\ Tick
    \/ Running /\ ForceExit
    \/ Running /\ StatusShutdown
    \/ Running /\ RequestAnswer
    \/ Running /\ Environment
    \/ ~Running /\ UNCHANGED vars

Spec == Init /\ [][Next]_vars

(* Goroutines run and timers fire.  Nothing makes anybody send a signal or *)
(* a request, or end a connection.                                         *)
Fairness ==
    /\ WF_vars(Running /\ Start)
    /\ WF_vars(Running /\ SignalHandler)
    /\ WF_vars(Running /\ Wait)
    /\ \A g \in Goroutines : WF_vars(Running /\ Reload(g))
    /\ WF_vars(Running /\ ForceExit)
    /\ WF_vars(Running /\ StatusShutdown)
    /\ WF_vars(Running /\ RequestAnswer)

FairSpec == Spec /\ Fairness

-----------------------------------------------------------------------------
(* Safety *)

(* Reloads of the two goroutines overlap in any way (one may finish while  *)
(* the other is half way, and the ticker may reload before main.go:465):   *)
(* when none is under way, the status is "listening", never "reloading"    *)
(* for ever after a failed reload (signals.go:88-96).                      *)
StatusSettles ==
    /\ main \notin {"listen", "serveStatus", "accept", "listening"}
    /\ \A g \in Goroutines : reloader[g] = "idle"
    => listening /\ ~reloading

(* The ticker calls status.Listening() even while the process starts.      *)
(* Still nobody is told "ok" before the listening socket exists, because   *)
(* serveStatus is called after it is bound (main.go:436-454).              *)
OkMeansBound ==
    [][answer' # answer /\ answer'.ok => listener # "none"]_vars

(* What exit status zero tells the one who started the process (contract   *)
(* Drain): the listener is closed, and every connection that registered    *)
(* before the WaitGroup was at zero has ended; a forced exit and a panic   *)
(* are not reported as such (signals.go:60-70, main.go:464-469).  Nothing  *)
(* is said of a connection that is pending or late: exit zero may cut it,  *)
(* as run proxy_drain shows.                                               *)
Contract == INSTANCE Drain WITH
    accepting <- listener # "closed",
    forwarding <- {c \in Conns : conn[c] = "forwarding"},
    finished <- exit = "zero"
ImplementsDrain == Contract!Spec

(* The error paths of reload and of serveStatus report the error, and Wait *)
(* returns; none ends in a run-time panic (signals.go:91, main.go:564).    *)
NeverPanics == exit # "panic"

-----------------------------------------------------------------------------
(* Liveness *)

InChannel(sig) == \E i \in 1 .. Len(signals) : signals[i] = sig

(* A shutdown signal in the channel ends the process, whatever reloads are *)
(* queued before it and although connections may never end: drained, or    *)
(* forced by the timeout (signals.go:51-71).                               *)
ShutdownEndsProcess == InChannel("shutdown") ~> ~Running

(* "reloading" is a passing status. *)
ReloadEnds == reloading ~> ~reloading \/ ~Running

=============================================================================

----------------------------- MODULE DaemonProofs -----------------------------
(***************************************************************************)
(* Proofs about module Daemon, for every configuration of certificate,     *)
(* timed reload and status port and any number of signals.                 *)
(***************************************************************************)
EXTENDS Daemon, TLAPS

(* The status says "reloading" only while somebody reloads, and once the   *)
(* main goroutine has reported it, the process is listening for good.      *)
StatusInv ==
    /\ reloading => \E g \in Goroutines : reloader[g] # "idle"
    /\ main \notin {"listen", "serveStatus", "accept", "listening"} => listening

(* The listener follows the main goroutine, and the status port is served  *)
(* only once it is bound.                                                  *)
ListenerInv ==
    /\ main = "listen" => listener = "none"
    /\ main # "listen" => listener # "none"
    /\ main \in Ending <=> listener = "closed"
    /\ statusHTTP = "up" => main # "listen"
    /\ request # "none" => main # "listen"

IInv == TypeOK /\ StatusInv /\ ListenerInv

-----------------------------------------------------------------------------
(* The invariant holds when the process starts (main.go:436). *)
THEOREM DaemonInit == Init => IInv
  <1> SUFFICES ASSUME Init PROVE IInv  OBVIOUS
  <1>1. signals \in Seq(Signals) /\ Len(signals) <= ChannelSize
    BY DEF Init, ChannelSize
  <1>2. answer \in [ok : BOOLEAN, message : Messages]
    BY DEF Init, Messages
  <1>3. TypeOK
    <2>1. {notified, accepting, listening, reloading} \subseteq BOOLEAN
      BY DEF Init
    <2>2. sent \in 0 .. MaxSignals
      BY DaemonAssumption DEF Init
    <2>3. /\ main = "listen" /\ exit = "running" /\ forceTimer = "off"
          /\ reloader = [g \in Goroutines |-> "idle"]
          /\ listener = "none" /\ conn = [c \in Conns |-> "none"]
          /\ statusHTTP = "off" /\ request = "none"
      BY DEF Init
    <2> QED  BY <1>1, <1>2, <2>1, <2>2, <2>3 DEF TypeOK, Goroutines
  <1> QED  BY <1>3 DEF Init, IInv, StatusInv, ListenerInv, Goroutines, Ending

(* The channel takes what there is room for, in the order of arrival. *)
LEMMA ChannelTypes ==
    ASSUME TypeOK
    PROVE  /\ \A sig \in Signals : Len(signals) < ChannelSize =>
                 /\ Append(signals, sig) \in Seq(Signals)
                 /\ Len(Append(signals, sig)) <= ChannelSize
           /\ signals # <<>> =>
                 /\ Tail(signals) \in Seq(Signals)
                 /\ Len(Tail(signals)) <= ChannelSize
  <1>1. signals \in Seq(Signals) /\ Len(signals) \in Nat
        /\ Len(signals) <= ChannelSize
    BY DEF TypeOK
  <1>2. ASSUME NEW sig \in Signals, Len(signals) < ChannelSize
        PROVE  /\ Append(signals, sig) \in Seq(Signals)
               /\ Len(Append(signals, sig)) <= ChannelSize
    BY <1>1, <1>2 DEF ChannelSize
  <1>3. ASSUME signals # <<>>
        PROVE  /\ Tail(signals) \in Seq(Signals)
               /\ Len(Tail(signals)) <= ChannelSize
    BY <1>1, <1>3 DEF ChannelSize
  <1> QED  BY <1>2, <1>3

(* Start-up keeps the invariant. *)
LEMMA StartKeeps == ASSUME IInv, Start PROVE IInv'
  <1> USE DEF IInv, signalling, proxy, status, http, MainGoto, Goroutines, Ending
  <1>1. CASE Listen
    BY <1>1 DEF Listen, TypeOK, StatusInv, ListenerInv
  <1>2. CASE StartError
    BY <1>2 DEF StartError, TypeOK, StatusInv, ListenerInv
  <1>3. CASE ServeStatus
    BY <1>3 DEF ServeStatus, TypeOK, StatusInv, ListenerInv
  <1>4. CASE StatusError
    BY <1>4 DEF StatusError, TypeOK, StatusInv, ListenerInv
  <1>5. CASE GoAccept
    BY <1>5 DEF GoAccept, TypeOK, StatusInv, ListenerInv
  <1>6. CASE MainListening
    <2>1. listening' \in BOOLEAN /\ reloading' \in BOOLEAN
      BY <1>6 DEF MainListening
    <2>2. /\ main = "listening" /\ main' = "notify"
          /\ UNCHANGED <<reloader, exit, signals, notified, sent, forceTimer,
                         listener, accepting, conn, statusHTTP, request, answer>>
      BY <1>6 DEF MainListening
    <2>3. TypeOK'  BY <2>1, <2>2 DEF TypeOK
    <2>4. StatusInv'  BY <1>6 DEF MainListening, StatusInv
    <2>5. ListenerInv'  BY <2>2 DEF ListenerInv
    <2> QED  BY <2>3, <2>4, <2>5
  <1>7. CASE Notify
    <2>1. TypeOK'  BY <1>7 DEF Notify, TypeOK
    <2> QED  BY <1>7, <2>1 DEF Notify, StatusInv, ListenerInv
  <1> QED  BY <1>1, <1>2, <1>3, <1>4, <1>5, <1>6, <1>7 DEF Start

(* So does a reload, in either goroutine. *)
LEMMA ReloadKeeps ==
    ASSUME IInv, Tick \/ \E g \in Goroutines : Reload(g) PROVE IInv'
  <1> USE DEF IInv, signalling, proxy, status, http, Goroutines
  <1>1. CASE Tick
    BY <1>1 DEF Tick, Reloading, TypeOK, StatusInv, ListenerInv
  <1>2. ASSUME NEW g \in Goroutines, CertReload(g) PROVE IInv'
    <2>1. TypeOK'  BY <1>2 DEF CertReload, TypeOK
    <2>2. StatusInv'  BY <1>2 DEF CertReload, TypeOK, StatusInv
    <2> QED  BY <1>2, <2>1, <2>2 DEF CertReload, ListenerInv
  <1>3. ASSUME NEW g \in Goroutines, Listening(g) PROVE IInv'
    <2>1. g = "main" => main = "reload"
      BY <1>3 DEF Listening, TypeOK
    <2>2. TypeOK'
      <3>1. reloader' \in [Goroutines -> {"idle", "cert", "listening"}]
        BY <1>3 DEF Listening, TypeOK
      <3>2. main' = "reload" <=> reloader'["main"] # "idle"
        <4>1. CASE g = "main"  BY <1>3, <4>1 DEF Listening, TypeOK
        <4>2. CASE g = "ticker"  BY <1>3, <4>2 DEF Listening, TypeOK
        <4> QED  BY <4>1, <4>2
      <3>3. main' \in {"listen", "serveStatus", "accept", "listening",
                       "notify", "select", "reload", "shutdown"} \cup Ending
        BY <1>3 DEF Listening, TypeOK
      <3>4. listening' \in BOOLEAN /\ reloading' \in BOOLEAN
        BY <1>3 DEF Listening
      <3>5. UNCHANGED <<exit, signals, notified, sent, forceTimer, listener,
                        accepting, conn, statusHTTP, request, answer>>
        BY <1>3 DEF Listening
      <3> QED  BY <3>1, <3>2, <3>3, <3>4, <3>5 DEF TypeOK
    <2>3. StatusInv'  BY <1>3 DEF Listening, StatusInv
    <2>4. ListenerInv'  BY <1>3, <2>1 DEF Listening, ListenerInv, Ending
    <2> QED  BY <2>2, <2>3, <2>4
  <1> QED  BY <1>1, <1>2, <1>3 DEF Reload

(* So does the signal handler. *)
LEMMA SignalKeeps ==
    ASSUME IInv, SignalHandler \/ Wait \/ ForceExit \/ StatusShutdown
    PROVE  IInv'
  <1> USE DEF IInv, signalling, proxy, status, http, Goroutines, MainGoto, Ending
  <1>1. CASE ReceiveRefresh
    <2>1. TypeOK'
      BY <1>1, ChannelTypes DEF ReceiveRefresh, Reloading, TypeOK
    <2>2. StatusInv' /\ ListenerInv'
      BY <1>1 DEF ReceiveRefresh, Reloading, TypeOK, StatusInv, ListenerInv
    <2> QED  BY <2>1, <2>2
  <1>2. CASE ReceiveShutdown
    <2>1. TypeOK'
      BY <1>2, ChannelTypes DEF ReceiveShutdown, TypeOK
    <2> QED  BY <1>2, <2>1 DEF ReceiveShutdown, StatusInv, ListenerInv
  <1>3. CASE ProxyShutdown
    <2>1. notified' \in BOOLEAN  BY <1>3 DEF ProxyShutdown
    <2>2. /\ main = "shutdown" /\ main' = "wait" /\ listener' = "closed"
          /\ UNCHANGED <<reloader, exit, signals, sent, forceTimer, accepting,
                         conn, listening, reloading, statusHTTP, request, answer>>
      BY <1>3 DEF ProxyShutdown
    <2>3. TypeOK'  BY <2>1, <2>2 DEF TypeOK
    <2>4. StatusInv'  BY <2>2 DEF StatusInv
    <2>5. ListenerInv'  BY <2>2 DEF ListenerInv
    <2> QED  BY <2>3, <2>4, <2>5
  <1>4. CASE WaitCall
    BY <1>4 DEF WaitCall, Ending, TypeOK, StatusInv, ListenerInv
  <1>7. CASE WaitWake
    BY <1>7 DEF WaitWake, Ending, TypeOK, StatusInv, ListenerInv
  <1>8. CASE Exit
    BY <1>8 DEF Exit, TypeOK, StatusInv, ListenerInv
  <1>5. CASE ForceExit
    BY <1>5 DEF ForceExit, TypeOK, StatusInv, ListenerInv
  <1>6. CASE StatusShutdown
    BY <1>6 DEF StatusShutdown, TypeOK, StatusInv, ListenerInv
  <1> QED  BY <1>1, <1>2, <1>3, <1>4, <1>5, <1>6, <1>7, <1>8
       DEF SignalHandler, Wait

(* So do signals, connections and status requests. *)
LEMMA EnvironmentKeeps ==
    ASSUME IInv, Environment \/ RequestAnswer PROVE IInv'
  <1> USE DEF IInv, signalling, proxy, status, http, Goroutines
  <1>1. ASSUME NEW sig \in Signals, Send(sig) PROVE IInv'
    <2>1. signals' \in Seq(Signals) /\ Len(signals') <= ChannelSize
      BY <1>1, ChannelTypes DEF Send, TypeOK
    <2>2. sent' \in 0 .. MaxSignals
      BY <1>1, DaemonAssumption DEF Send, TypeOK
    <2>3. exit' \in {"running", "zero", "one", "killed", "panic"}
      BY <1>1 DEF Send, TypeOK
    <2>4. TypeOK'  BY <1>1, <2>1, <2>2, <2>3 DEF Send, TypeOK
    <2> QED  BY <1>1, <2>4 DEF Send, StatusInv, ListenerInv
  <1>2. ASSUME NEW c \in Conns,
               ConnectionAccept(c) \/ ConnectionSetUp(c) \/ ConnectionEnd(c)
        PROVE  IInv'
    <2>1. conn' \in [Conns -> {"none", "pending", "forwarding", "late"}]
      BY <1>2 DEF ConnectionAccept, ConnectionSetUp, ConnectionEnd, Connection, TypeOK
    <2>2. main' = main \/ (main = "parked" /\ main' = "woken")
      BY <1>2 DEF ConnectionAccept, ConnectionSetUp, ConnectionEnd
    <2>3. UNCHANGED <<reloader, exit, signals, notified, sent, forceTimer, listener,
                      accepting, listening, reloading, statusHTTP, request, answer>>
      BY <1>2 DEF ConnectionAccept, ConnectionSetUp, ConnectionEnd, Connection
    <2>4. TypeOK'
      BY <2>1, <2>2, <2>3 DEF TypeOK, Ending
    <2>5. StatusInv' /\ ListenerInv'
      BY <2>2, <2>3 DEF StatusInv, ListenerInv, Ending
    <2> QED  BY <2>4, <2>5
  <1>3. CASE RequestDial
    BY <1>3 DEF RequestDial, TypeOK, StatusInv, ListenerInv
  <1>4. CASE RequestAnswer
    BY <1>4 DEF RequestAnswer, TypeOK, Messages, StatusInv, ListenerInv
  <1> QED
    BY <1>1, <1>2, <1>3, <1>4 DEF Environment

(* Every step of main, of the ticker and of their environment keeps it. *)
THEOREM DaemonStep == IInv /\ [Next]_vars => IInv'
  <1> SUFFICES ASSUME IInv, [Next]_vars PROVE IInv'  OBVIOUS
  <1>1. CASE UNCHANGED vars
    BY <1>1 DEF vars, signalling, proxy, status, http, IInv, TypeOK,
                StatusInv, ListenerInv
  <1> QED
    BY <1>1, StartKeeps, ReloadKeeps, SignalKeeps, EnvironmentKeeps DEF Next

(* The inductive invariant holds in every reachable state. *)
THEOREM DaemonInvariance == Spec => []IInv
    BY DaemonInit, DaemonStep, PTL DEF Spec

-----------------------------------------------------------------------------
(* The variables have their types; the main goroutine is in reload exactly *)
(* while it runs reload (signals.go:74), and no more than three signals    *)
(* are queued (signals.go:44).                                             *)
THEOREM DaemonTypeCorrect == Spec => []TypeOK
  <1>1. IInv => TypeOK  BY DEF IInv
  <1> QED  BY <1>1, DaemonInvariance, PTL

(* However reloads overlap, the status is "listening" whenever none is     *)
(* under way (signals.go:88-96, status.go:57-68).                          *)
THEOREM StatusAlwaysSettles == Spec => []StatusSettles
  <1>1. IInv => StatusSettles
    BY DEF IInv, StatusInv, StatusSettles, TypeOK
  <1> QED  BY <1>1, DaemonInvariance, PTL

(* Nobody is told "ok" before the listening socket exists (main.go:436-454,*)
(* status.go:89-118).                                                      *)
THEOREM OkOnlyWhenBound == Spec => OkMeansBound
  <1>1. IInv /\ [Next]_vars
            => [answer' # answer /\ answer'.ok => listener # "none"]_vars
    <2> SUFFICES ASSUME IInv, Next, answer' # answer
                 PROVE  listener # "none"
      OBVIOUS
    <2>1. RequestAnswer
      BY DEF Next, Start, SignalHandler, Environment, Reload, Tick, Wait, WaitCall,
             WaitWake, Exit,
             Listen, StartError, ServeStatus, StatusError, GoAccept,
             MainListening, Notify, ReceiveRefresh, ReceiveShutdown,
             ProxyShutdown, CertReload, Listening, ForceExit, StatusShutdown,
             Send, ConnectionAccept, ConnectionSetUp, ConnectionEnd,
             Connection, RequestDial, http, vars
    <2> QED  BY <2>1 DEF RequestAnswer, IInv, ListenerInv
  <1> QED  BY <1>1, DaemonInvariance, PTL DEF Spec, OkMeansBound

-----------------------------------------------------------------------------
(* Where the process may end by a panic, and how it is forced to end. *)

(* A panic comes from a reload without a certificate, from a UNIX status   *)
(* socket that could not be bound, or from Wait, woken up when a late      *)
(* connection has registered.                                              *)
PanicInv ==
    exit = "panic" =>
        \/ ~HasCert /\ \E g \in Goroutines : reloader[g] = "listening"
        \/ StatusNet = "unix" /\ main = "serveStatus"
        \/ main = "woken" /\ \E c \in Conns : conn[c] = "late"

(* The forced exit is armed from the shutdown signal on, and not before. *)
TimerInv == main \in {"shutdown"} \cup Ending <=> forceTimer = "armed"

(* Once Wait is about to return, all those who came in time have left. *)
WaitInv == main \in {"woken", "exit"} => Drained

(* Wait gets there only through a WaitGroup at zero, and whoever registers *)
(* afterwards is late.                                                     *)
LEMMA WaitStep == ASSUME IInv, WaitInv, Next PROVE WaitInv'
  <1> USE DEF IInv, signalling, proxy, status, http, MainGoto, WaitInv, Drained
  <1>1. CASE main' \notin {"woken", "exit"}
    BY <1>1
  <1>2. CASE main' = main /\ listener' = listener /\ conn' = conn
    BY <1>2
  <1>3. CASE WaitCall
    BY <1>3 DEF WaitCall, Registered, ListenerInv, Ending
  <1>4. CASE WaitWake
    BY <1>4 DEF WaitWake
  <1>5. ASSUME NEW c \in Conns, ConnectionSetUp(c)
        PROVE  WaitInv'
    BY <1>5 DEF ConnectionSetUp, Connection, TypeOK
  <1>6. ASSUME NEW c \in Conns, ConnectionEnd(c)
        PROVE  WaitInv'
    <2>1. conn' = [conn EXCEPT ![c] = "none"] /\ listener' = listener
      BY <1>6 DEF ConnectionEnd, Connection
    <2>2. CASE main' = main
      BY <2>1, <2>2 DEF TypeOK
    <2>3. CASE main = "parked" /\ Registered = {c}
      BY <2>1, <2>3 DEF TypeOK, Registered, ListenerInv, Ending
    <2> QED  BY <1>6, <2>2, <2>3 DEF ConnectionEnd
  <1>7. ASSUME NEW c \in Conns, ConnectionAccept(c)
        PROVE  WaitInv'
    BY <1>7 DEF ConnectionAccept, Connection
  <1>8. \/ main' \notin {"woken", "exit"}
        \/ main' = main /\ listener' = listener /\ conn' = conn
        \/ WaitCall \/ WaitWake
        \/ \E c \in Conns : ConnectionAccept(c) \/ ConnectionSetUp(c) \/ ConnectionEnd(c)
    BY DEF Next, Start, SignalHandler, Environment, Reload, Tick, Wait, Exit, Listen,
           StartError, ServeStatus, StatusError, GoAccept, MainListening, Notify,
           ReceiveRefresh, ReceiveShutdown, ProxyShutdown, CertReload, Listening,
           ForceExit, StatusShutdown, Send, RequestDial, RequestAnswer, vars
  <1> QED  BY <1>1, <1>2, <1>3, <1>4, <1>5, <1>6, <1>7, <1>8

(* Once main is woken or about to exit, the drain is over. *)
THEOREM WaitInvariance == Spec => []WaitInv
  <1>1. Init => WaitInv
    BY DEF Init, WaitInv
  <1>2. IInv /\ WaitInv /\ [Next]_vars => WaitInv'
    <2>1. WaitInv /\ UNCHANGED vars => WaitInv'
      BY DEF WaitInv, Drained, vars, proxy
    <2> QED  BY <2>1, WaitStep
  <1> QED  BY <1>1, <1>2, DaemonInvariance, PTL DEF Spec

(* Only those three steps make a panic, and none follows it. *)
LEMMA PanicStep == ASSUME IInv, WaitInv, PanicInv, Next PROVE PanicInv'
  <1> USE DEF IInv, signalling, proxy, status, http, MainGoto, PanicInv
  <1>1. CASE ~Running
    BY <1>1 DEF Next, vars
  <1>2. CASE Running /\ StatusError
    BY <1>2 DEF StatusError
  <1>3. ASSUME NEW g \in Goroutines, Running, CertReload(g)
        PROVE  PanicInv'
    BY <1>3 DEF CertReload, TypeOK, Running
  <1>4. CASE Running /\ exit' # "panic"
    BY <1>4
  <1>5. CASE Running /\ WaitWake
    <2>1. CASE Registered # {}
      <3>1. PICK c \in Conns : conn[c] = "late"
        BY <1>5, <2>1 DEF WaitWake, WaitInv, Drained, Registered
      <3>2. main' = "woken" /\ conn' = conn
        BY <1>5, <2>1 DEF WaitWake
      <3> QED  BY <3>1, <3>2
    <2>2. CASE Registered = {}
      BY <1>5, <2>2 DEF WaitWake, Running
    <2> QED  BY <2>1, <2>2
  <1>6. Running /\ ~StatusError /\ ~WaitWake /\ ~(\E g \in Goroutines : CertReload(g))
            => exit' # "panic"
    BY DEF Next, Start, SignalHandler, Environment, Reload, Tick, Wait, WaitCall,
             WaitWake, Exit, Listen,
           StartError, ServeStatus, GoAccept, MainListening, Notify,
           ReceiveRefresh, ReceiveShutdown, ProxyShutdown, Listening,
           ForceExit, StatusShutdown, Send, ConnectionAccept,
           ConnectionSetUp, ConnectionEnd, Connection, RequestDial,
           RequestAnswer, Running, vars
  <1> QED  BY <1>1, <1>2, <1>3, <1>4, <1>6, <1>5

(* The signal loop is left by the shutdown signal alone, which arms the    *)
(* timer.                                                                  *)
LEMMA TimerStep == ASSUME IInv, TimerInv, Next PROVE TimerInv'
  <1> USE DEF IInv, TypeOK, TimerInv, MainGoto, Ending
  <1>1. CASE main' = main /\ forceTimer' = forceTimer
    BY <1>1
  <1>2. CASE Start
    BY <1>2 DEF Start, Listen, StartError, ServeStatus, StatusError, GoAccept,
                MainListening, Notify
  <1>3. CASE SignalHandler
    BY <1>3 DEF SignalHandler, ReceiveRefresh, ReceiveShutdown, ProxyShutdown
  <1>4. ASSUME NEW g \in Goroutines, Listening(g)
        PROVE  TimerInv'
    BY <1>4 DEF Listening
  <1>5. CASE main \in Ending /\ main' \in Ending /\ forceTimer' = forceTimer
    BY <1>5
  <1>6. CASE Wait
    BY <1>6 DEF Wait, WaitCall, WaitWake, Exit
  <1>7. Start \/ SignalHandler \/ Wait \/ (\E g \in Goroutines : Listening(g))
            \/ (main' = main /\ forceTimer' = forceTimer)
            \/ (main \in Ending /\ main' \in Ending /\ forceTimer' = forceTimer)
    BY DEF Next, Environment, Reload, Tick, Wait, WaitCall,
             WaitWake, Exit, CertReload, ForceExit,
           StatusShutdown, Send, ConnectionAccept, ConnectionSetUp,
           ConnectionEnd, Connection, RequestDial, RequestAnswer, vars
  <1> QED  BY <1>1, <1>2, <1>3, <1>4, <1>5, <1>6, <1>7

(* A process that ended by a panic reloaded without a certificate          *)
(* (signals.go:90), could not bind its UNIX status socket (main.go:559),   *)
(* or was waking up in Wait while a late connection was registered         *)
(* (proxy.go:131): there is no fourth cause.                               *)
THEOREM OnlyThreePanics == Spec => []PanicInv
  <1>1. Init => PanicInv
    BY DEF Init, PanicInv
  <1>2. IInv /\ WaitInv /\ PanicInv /\ [Next]_vars => PanicInv'
    <2>1. PanicInv /\ UNCHANGED vars => PanicInv'
      BY DEF PanicInv, vars, proxy
    <2> QED  BY <2>1, PanicStep
  <1> QED  BY <1>1, <1>2, DaemonInvariance, WaitInvariance, PTL DEF Spec

(* The forced exit is armed exactly while the process shuts down: a        *)
(* reload, an error or a signal never arms it, and no step after the       *)
(* shutdown signal disarms it (signals.go:60-70).                          *)
THEOREM ForcedExitIsArmed == Spec => []TimerInv
  <1>1. Init => TimerInv
    BY DEF Init, TimerInv, Ending
  <1>2. IInv /\ TimerInv /\ [Next]_vars => TimerInv'
    <2>1. TimerInv /\ UNCHANGED vars => TimerInv'
      BY DEF TimerInv, vars
    <2> QED  BY <2>1, TimerStep
  <1> QED  BY <1>1, <1>2, DaemonInvariance, PTL DEF Spec

ShutdownKept ==
    [][InChannel("shutdown") => InChannel("shutdown")' \/ forceTimer' = "armed"]_vars

(* A queued shutdown signal is never lost: a step either leaves one in the *)
(* channel, a full channel and reloads before it notwithstanding, or       *)
(* receives it and arms the forced exit (signals.go:44-75).                *)
THEOREM QueuedShutdownIsKept == Spec => ShutdownKept
  <1>1. IInv /\ [Next]_vars =>
            [InChannel("shutdown") =>
                InChannel("shutdown")' \/ forceTimer' = "armed"]_vars
    <2> SUFFICES ASSUME IInv, Next, InChannel("shutdown"), forceTimer' # "armed"
                 PROVE  InChannel("shutdown")'
      OBVIOUS
    <2>1. PICK i \in 1 .. Len(signals) : signals[i] = "shutdown"
      BY DEF InChannel
    <2>2. signals \in Seq(Signals)
      BY DEF IInv, TypeOK
    <2>3. CASE signals' = signals
      BY <2>3 DEF InChannel
    <2>4. CASE ReceiveRefresh
      <3>1. signals # <<>> /\ Head(signals) = "refresh" /\ signals' = Tail(signals)
        BY <2>4 DEF ReceiveRefresh
      <3>2. i # 1
        BY <2>1, <2>2, <3>1
      <3>3. /\ i - 1 \in 1 .. Len(Tail(signals))
            /\ Tail(signals)[i - 1] = signals[i]
        BY <2>1, <2>2, <3>1, <3>2
      <3> QED  BY <2>1, <3>1, <3>3 DEF InChannel
    <2>5. ASSUME NEW sig \in Signals, signals' = Append(signals, sig)
          PROVE  InChannel("shutdown")'
      <3>1. /\ i \in 1 .. Len(Append(signals, sig))
            /\ Append(signals, sig)[i] = signals[i]
        BY <2>1, <2>2
      <3> QED  BY <2>1, <2>5, <3>1 DEF InChannel
    <2>6. \/ signals' = signals \/ ReceiveRefresh
          \/ \E sig \in Signals : signals' = Append(signals, sig)
      BY DEF Next, Start, SignalHandler, Environment, Reload, Tick, Wait, WaitCall,
             WaitWake, Exit,
             Listen, StartError, ServeStatus, StatusError, GoAccept,
             MainListening, Notify, ReceiveShutdown, ProxyShutdown,
             CertReload, Listening, ForceExit, StatusShutdown, Send,
             ConnectionAccept, ConnectionSetUp, ConnectionEnd, Connection,
             RequestDial, RequestAnswer, signalling, vars
    <2> QED  BY <2>3, <2>4, <2>5, <2>6
  <1> QED  BY <1>1, DaemonInvariance, PTL DEF Spec, ShutdownKept

-----------------------------------------------------------------------------
(* The contract of module Drain. *)

(* A step that leaves listener and connections alone and does not exit     *)
(* with status zero is invisible to the contract.                          *)
LEMMA InvisibleStep ==
    ASSUME Running,
           (listener' = "closed") = (listener = "closed"),
           conn' = conn, exit' # "zero"
    PROVE  UNCHANGED Contract!vars
    BY DEF Running, Contract!vars

(* Every step is one of the contract, or invisible to it. *)
LEMMA DrainStep ==
    ASSUME IInv, WaitInv, Next PROVE [Contract!Next]_(Contract!vars)
  <1> USE DEF IInv, signalling, proxy, status, http, MainGoto
  <1>1. CASE ~Running /\ UNCHANGED vars
    BY <1>1 DEF vars, Contract!vars
  <1>2. CASE Running /\ Start
    <2>1. /\ (listener' = "closed") = (listener = "closed")
          /\ conn' = conn /\ exit' # "zero"
      BY <1>2 DEF Running, Start, Listen, StartError, ServeStatus, StatusError,
                  GoAccept, MainListening, Notify, ListenerInv
    <2> QED  BY <1>2, <2>1, InvisibleStep
  <1>3. CASE Running /\ ProxyShutdown
    <2>1. listener # "closed"  BY <1>3 DEF ProxyShutdown, ListenerInv, Ending
    <2>2. Contract!Close
      BY <1>3, <2>1 DEF ProxyShutdown, Contract!Close
    <2> QED  BY <2>2 DEF Contract!Next
  <1>4. CASE Running /\ (ReceiveRefresh \/ ReceiveShutdown)
    BY <1>4, InvisibleStep DEF ReceiveRefresh, ReceiveShutdown, Running
  <1>5. CASE Running /\ Wait
    <2>1. CASE WaitCall \/ WaitWake
      BY <1>5, <2>1, InvisibleStep DEF WaitCall, WaitWake, Running
    <2>2. CASE Exit
      <3>1. Contract!Finish
        BY <1>5, <2>2 DEF Exit, Running, WaitInv, Drained, Contract!Finish
      <3> QED  BY <3>1 DEF Contract!Next
    <2> QED  BY <1>5, <2>1, <2>2 DEF Wait
  <1>6. CASE Running /\ (Tick \/ \E g \in Goroutines : Reload(g))
    BY <1>6, InvisibleStep
       DEF Tick, Reload, CertReload, Listening, Running
  <1>7. CASE Running /\ (ForceExit \/ StatusShutdown \/ RequestAnswer \/ RequestDial)
    BY <1>7, InvisibleStep
       DEF ForceExit, StatusShutdown, RequestAnswer, RequestDial, Running
  <1>8. ASSUME NEW sig \in Signals, Running, Send(sig)
        PROVE  [Contract!Next]_(Contract!vars)
    BY <1>8, InvisibleStep DEF Send, Running
  <1>9. ASSUME Running, NEW c \in Conns,
               ConnectionAccept(c) \/ ConnectionSetUp(c) \/ ConnectionEnd(c)
        PROVE  [Contract!Next]_(Contract!vars)
    <2> DEFINE Joined == {d \in Conns : conn[d] = "forwarding"}
    <2>1. PICK to \in {"none", "pending", "forwarding", "late"} :
              conn' = [conn EXCEPT ![c] = to] /\ (conn[c] = "forwarding" => to = "none")
      BY <1>9 DEF ConnectionAccept, ConnectionSetUp, ConnectionEnd, Connection
    <2>2. UNCHANGED <<listener, exit>> /\ exit # "zero"
      BY <1>9 DEF ConnectionAccept, ConnectionSetUp, ConnectionEnd, Connection, Running
    <2>3. \A d \in Conns : conn'[d] = IF d = c THEN to ELSE conn[d]
      BY <2>1 DEF TypeOK
    <2>4. CASE conn[c] = "forwarding"
      <3>1. c \in Joined /\ Joined' = Joined \ {c}
        BY <2>1, <2>3, <2>4
      <3>2. Contract!Leave(c)
        BY <2>2, <3>1 DEF Contract!Leave
      <3> QED  BY <3>2 DEF Contract!Next
    <2>5. CASE conn[c] # "forwarding" /\ to = "forwarding"
      <3>1. c \notin Joined /\ Joined' = Joined \cup {c}
        BY <2>3, <2>5
      <3>2. Contract!Join(c)
        BY <2>2, <3>1 DEF Contract!Join
      <3> QED  BY <3>2 DEF Contract!Next
    <2>6. CASE conn[c] # "forwarding" /\ to # "forwarding"
      <3>1. Joined' = Joined
        BY <2>3, <2>6
      <3> QED  BY <2>2, <3>1 DEF Contract!vars
    <2> QED  BY <2>4, <2>5, <2>6
  <1> QED
    BY <1>1, <1>2, <1>3, <1>4, <1>5, <1>6, <1>7, <1>8, <1>9
       DEF Next, SignalHandler, Environment

(* The process implements the contract of module Drain: exit status zero   *)
(* means a closed listener and that every connection which registered      *)
(* before the WaitGroup was at zero has ended; a forced exit or a panic    *)
(* never looks like it (signals.go:60-70, main.go:464-469).                *)
THEOREM DaemonImplementsDrain == Spec => ImplementsDrain
  <1>1. Init => Contract!Init
    BY DEF Init, Contract!Init
  <1>2. IInv /\ WaitInv /\ [Next]_vars => [Contract!Next]_(Contract!vars)
    <2>1. UNCHANGED vars => UNCHANGED Contract!vars
      BY DEF vars, proxy, Contract!vars
    <2> QED  BY <2>1, DrainStep
  <1> QED
    BY <1>1, <1>2, DaemonInvariance, WaitInvariance, PTL
       DEF Spec, ImplementsDrain, Contract!Spec

=============================================================================

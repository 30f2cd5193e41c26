------------------------------ MODULE MtlsDialer ------------------------------
(***************************************************************************)
(* dialWithDialer of certloader/dialer.go: a timer and a handshake         *)
(* goroutine race to put a result on a channel, and the first one decides. *)
(* Several handlers dial at the same time, each in a call of its own.      *)
(***************************************************************************)
EXTENDS Naturals, Sequences

CONSTANTS
    Dials,      \* the calls of Dial
    ViaProxy    \* the inner dialer is an HTTP CONNECT tunnel

ASSUME DialerAssumption == ViaProxy \in BOOLEAN

VARIABLES
    caller,     \* where each call is: "dial", "receive", then "ok" or "err"
    rawConn,    \* its connection: "none", "open" or "closed"
    timer,      \* its AfterFunc: "armed" or "sent"
    shaker,     \* its handshake goroutine: "none", "running" or "sent"
    verified,   \* history: its handshake has succeeded
    errChannel  \* its channel of results

vars == <<caller, rawConn, timer, shaker, verified, errChannel>>

Results == {"nil", "failed", "timeout"}
ChannelSize == 2

TypeOK ==
    /\ caller \in [Dials -> {"dial", "receive", "ok", "err"}]
    /\ rawConn \in [Dials -> {"none", "open", "closed"}]
    /\ timer \in [Dials -> {"armed", "sent"}]
    /\ shaker \in [Dials -> {"none", "running", "sent"}]
    /\ verified \in [Dials -> BOOLEAN]
    /\ errChannel \in [Dials -> Seq(Results)]
    /\ \A d \in Dials :
          /\ Len(errChannel[d]) <= ChannelSize
          /\ rawConn[d] = "none" <=> shaker[d] = "none"

Init ==
    /\ caller = [d \in Dials |-> "dial"]
    /\ rawConn = [d \in Dials |-> "none"]
    /\ timer = [d \in Dials |-> "armed"]
    /\ shaker = [d \in Dials |-> "none"]
    /\ verified = [d \in Dials |-> FALSE]
    /\ errChannel = [d \in Dials |-> <<>>]

Send(d, result) ==
    /\ Len(errChannel[d]) < ChannelSize
    /\ errChannel' = [errChannel EXCEPT ![d] = Append(@, result)]

-----------------------------------------------------------------------------
(* The inner dialer returns an error ... *)
DialError(d) ==
    /\ caller[d] = "dial"
    /\ caller' = [caller EXCEPT ![d] = "err"]
    /\ UNCHANGED <<rawConn, timer, shaker, verified, errChannel>>

(* Mutant: no goroutine runs the handshake. *)
DialOkNoHandshake(d) ==
    /\ caller[d] = "dial"
    /\ caller' = [caller EXCEPT ![d] = "receive"]
    /\ rawConn' = [rawConn EXCEPT ![d] = "open"]
    /\ UNCHANGED <<timer, shaker, verified, errChannel>>

(* ... or a connection, on which the handshake starts. *)
DialOk(d) ==
    /\ caller[d] = "dial"
    /\ caller' = [caller EXCEPT ![d] = "receive"]
    /\ rawConn' = [rawConn EXCEPT ![d] = "open"]
    /\ shaker' = [shaker EXCEPT ![d] = "running"]
    /\ UNCHANGED <<timer, verified, errChannel>>

NoTimer(d) == FALSE   \* mutant: AfterFunc is not called

TimerFires(d) ==
    /\ timer[d] = "armed"
    /\ timer' = [timer EXCEPT ![d] = "sent"]
    /\ Send(d, "timeout")
    /\ UNCHANGED <<caller, rawConn, shaker, verified>>

HandshakeOk(d) ==
    /\ shaker[d] = "running"
    /\ rawConn[d] = "open"
    /\ shaker' = [shaker EXCEPT ![d] = "sent"]
    /\ verified' = [verified EXCEPT ![d] = TRUE]
    /\ Send(d, "nil")
    /\ UNCHANGED <<caller, rawConn, timer>>

(* The peer fails verification or goes away, or the connection is closed. *)
HandshakeError(d) ==
    /\ shaker[d] = "running"
    /\ shaker' = [shaker EXCEPT ![d] = "sent"]
    /\ Send(d, "failed")
    /\ UNCHANGED <<caller, rawConn, timer, verified>>

(* Mutant: rawConn is not closed on an error. *)
ReceiveNoClose(d) ==
    /\ caller[d] = "receive"
    /\ errChannel[d] # <<>>
    /\ errChannel' = [errChannel EXCEPT ![d] = Tail(@)]
    /\ caller' = [caller EXCEPT ![d] =
                     IF Head(errChannel[d]) = "nil" THEN "ok" ELSE "err"]
    /\ UNCHANGED <<rawConn, timer, shaker, verified>>

(* The first result decides. *)
Receive(d) ==
    /\ caller[d] = "receive"
    /\ errChannel[d] # <<>>
    /\ errChannel' = [errChannel EXCEPT ![d] = Tail(@)]
    /\ LET err == Head(errChannel[d]) IN
       IF err = "nil"
       THEN /\ caller' = [caller EXCEPT ![d] = "ok"]
            /\ UNCHANGED rawConn
       ELSE /\ caller' = [caller EXCEPT ![d] = "err"]
            /\ rawConn' = [rawConn EXCEPT ![d] = "closed"]
    /\ UNCHANGED <<timer, shaker, verified>>

-----------------------------------------------------------------------------
Dial(d) == DialOk(d) \/ DialError(d)
Handshake(d) == HandshakeOk(d) \/ HandshakeError(d)

Next == \E d \in Dials :
            Dial(d) \/ TimerFires(d) \/ Handshake(d) \/ Receive(d)

Spec == Init /\ [][Next]_vars

(* The timer fires; a handshake on a closed connection fails; a net.Dialer *)
(* with a timeout returns.  A CONNECT tunnel waits for the proxy's answer  *)
(* without a deadline, and nothing makes a peer answer.                    *)
Fairness ==
    \A d \in Dials :
        /\ WF_vars(~ViaProxy /\ Dial(d))
        /\ WF_vars(TimerFires(d))
        /\ WF_vars(rawConn[d] = "closed" /\ HandshakeError(d))
        /\ WF_vars(Receive(d))

FairSpec == Spec /\ Fairness

-----------------------------------------------------------------------------
Returned(d) == caller[d] \in {"ok", "err"}

(* A connection handed to the caller has completed its handshake and is    *)
(* open, and a timer that fires later leaves it alone; after an error no   *)
(* connection is left open (dialer.go:80-87).                              *)
ResultMatchesConnection ==
    \A d \in Dials :
        /\ caller[d] = "ok" => verified[d] /\ rawConn[d] = "open"
        /\ caller[d] = "err" => rawConn[d] # "open"

(* A call ends within the timeout, whatever the peer does (dialer.go:66;   *)
(* main.go:103: "Timeout for establishing connections, handshakes.").      *)
DialEnds == \A d \in Dials : <>Returned(d)

(* Neither the timer nor the handshake goroutine is left behind: both      *)
(* results fit into the channel even if nobody receives (dialer.go:65).    *)
NoGoroutineLeft ==
    \A d \in Dials :
        Returned(d) ~> timer[d] = "sent" /\ shaker[d] \in {"none", "sent"}

=============================================================================

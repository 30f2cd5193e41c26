--------------------------------- MODULE Fuse ---------------------------------
(***************************************************************************)
(* fuse and copyData of proxy/proxy.go: two goroutines copy between the    *)
(* client's and the backend's socket, one per direction, and each shuts    *)
(* its source for reading and its destination for writing when it ends.    *)
(*                                                                         *)
(* A direction is named after its source.  A chunk of data is a unit; the  *)
(* peers at the far ends send, read, half-close and go away as they like.  *)
(***************************************************************************)
EXTENDS Naturals

CONSTANTS
    MaxData,    \* bound: chunks a peer sends
    Buffer      \* chunks a socket takes before a Write on it blocks

ASSUME FuseAssumption == MaxData \in Nat /\ Buffer \in Nat \ {0}

Sides == {"client", "backend"}
Other(s) == IF s = "client" THEN "backend" ELSE "client"

(* Server mode: a TLS client and a plain backend.  Client mode: a plain    *)
(* client and a TLS backend.                                               *)
Kinds == [client : {"tls"}, backend : {"tcp", "unix"}]
            \cup [client : {"tcp", "unix"}, backend : {"tls"}]

VARIABLES
    kind,       \* the type of each socket
    peer,       \* each peer: "open", "finished" sending, or "gone"
    sent,       \* chunks each peer has sent
    taken,      \* chunks read from each socket
    outbox,     \* chunks written to each socket that its peer has not read
    got,        \* chunks each peer has read
    rd, wr,     \* each socket can be read, written
    closed,     \* each socket has been closed as a whole
    reset,      \* ... and that dropped what was in its outbox
    pc,         \* where each copyData is
    cause       \* history: what ended each copy loop

peers   == <<peer, sent, got>>
sockets == <<rd, wr, closed, reset>>
vars == <<kind, peers, taken, outbox, sockets, pc, cause>>

TypeOK ==
    /\ kind \in Kinds
    /\ peer \in [Sides -> {"open", "finished", "gone"}]
    /\ sent \in [Sides -> 0 .. MaxData]
    /\ taken \in [Sides -> 0 .. MaxData]
    /\ outbox \in [Sides -> 0 .. Buffer]
    /\ got \in [Sides -> 0 .. MaxData]
    /\ rd \in [Sides -> BOOLEAN]
    /\ wr \in [Sides -> BOOLEAN]
    /\ closed \in [Sides -> BOOLEAN]
    /\ reset \in [Sides -> BOOLEAN]
    /\ pc \in [Sides -> {"read", "write", "closeSrc", "closeDst", "done"}]
    /\ cause \in [Sides -> {"none", "eof", "error"}]

Init ==
    /\ kind \in Kinds
    /\ peer = [s \in Sides |-> "open"]
    /\ sent = [s \in Sides |-> 0]
    /\ taken = [s \in Sides |-> 0]
    /\ outbox = [s \in Sides |-> 0]
    /\ got = [s \in Sides |-> 0]
    /\ rd = [s \in Sides |-> TRUE]
    /\ wr = [s \in Sides |-> TRUE]
    /\ closed = [s \in Sides |-> FALSE]
    /\ reset = [s \in Sides |-> FALSE]
    /\ pc = [s \in Sides |-> "read"]
    /\ cause = [s \in Sides |-> "none"]

-----------------------------------------------------------------------------
(* The peers and the network. *)

PeerSend(s) ==
    /\ peer[s] = "open"
    /\ sent[s] < MaxData
    /\ sent' = [sent EXCEPT ![s] = @ + 1]
    /\ UNCHANGED <<kind, peer, got, taken, outbox, sockets, pc, cause>>

(* A FIN or a TLS close_notify: no more data, but the peer still reads. *)
PeerFinish(s) ==
    /\ peer[s] = "open"
    /\ peer' = [peer EXCEPT ![s] = "finished"]
    /\ UNCHANGED <<kind, sent, got, taken, outbox, sockets, pc, cause>>

PeerGone(s) ==
    /\ peer[s] # "gone"
    /\ peer' = [peer EXCEPT ![s] = "gone"]
    /\ outbox' = [outbox EXCEPT ![s] = 0]
    /\ UNCHANGED <<kind, sent, got, taken, sockets, pc, cause>>

PeerRead(s) ==
    /\ outbox[s] > 0
    /\ outbox' = [outbox EXCEPT ![s] = @ - 1]
    /\ got' = [got EXCEPT ![s] = @ + 1]
    /\ UNCHANGED <<kind, peer, sent, taken, sockets, pc, cause>>

-----------------------------------------------------------------------------
(* copyData with source s: the loop of io.CopyBuffer ... *)

Goto(s, from, to) ==
    /\ pc[s] = from
    /\ pc' = [pc EXCEPT ![s] = to]

ReadData(s) ==
    /\ Goto(s, "read", "write")
    /\ rd[s] /\ taken[s] < sent[s]
    /\ taken' = [taken EXCEPT ![s] = @ + 1]
    /\ UNCHANGED <<kind, peers, outbox, sockets, cause>>

(* End of input: everything has been read and the peer sends no more. *)
ReadEOF(s) ==
    /\ Goto(s, "read", "closeSrc")
    /\ rd[s] /\ taken[s] = sent[s] /\ peer[s] # "open"
    /\ cause' = [cause EXCEPT ![s] = "eof"]
    /\ UNCHANGED <<kind, peers, taken, outbox, sockets>>

(* The peer has reset the connection; what was not read is lost. *)
ReadError(s) ==
    /\ Goto(s, "read", "closeSrc")
    /\ peer[s] = "gone"
    /\ cause' = [cause EXCEPT ![s] = "error"]
    /\ UNCHANGED <<kind, peers, taken, outbox, sockets>>

(* A Write to a socket whose peer has gone may still succeed. *)
Write(s, to, n) ==
    LET d == Other(s) IN
    /\ Goto(s, "write", to)
    /\ wr[d] /\ outbox[d] < Buffer
    /\ outbox' = [outbox EXCEPT ![d] = IF peer[d] = "gone" THEN @ ELSE @ + n]
    /\ UNCHANGED <<kind, peers, taken, sockets, cause>>

WriteDataAgain(s) == Write(s, "write", 1)   \* mutant: the chunk stays pending
WriteDataShort(s) == Write(s, "read", 0)    \* mutant: a short write is ignored
WriteData(s) == Write(s, "read", 1)

WriteError(s) ==
    /\ Goto(s, "write", "closeSrc")
    /\ ~wr[Other(s)] \/ peer[Other(s)] = "gone"
    /\ cause' = [cause EXCEPT ![s] = "error"]
    /\ UNCHANGED <<kind, peers, taken, outbox, sockets>>

(* Close of a whole socket.  The kernel may drop what the peer has not     *)
(* read if linger is zero or if unread input is pending.                   *)
Close(s, lingerZero) ==
    /\ rd' = [rd EXCEPT ![s] = FALSE]
    /\ wr' = [wr EXCEPT ![s] = FALSE]
    /\ closed' = [closed EXCEPT ![s] = TRUE]
    /\ IF ~closed[s] /\ (lingerZero \/ taken[s] < sent[s])
       THEN /\ reset' = [reset EXCEPT ![s] = TRUE]
            /\ \E n \in {0, outbox[s]} : outbox' = [outbox EXCEPT ![s] = n]
       ELSE UNCHANGED <<reset, outbox>>

(* ... then the two type switches. *)
CloseRead(s) ==
    /\ rd' = [rd EXCEPT ![s] = FALSE]
    /\ UNCHANGED <<wr, closed, reset, outbox>>

(* Mutant: the source switch's case for a Unix socket does nothing. *)
CloseSrcForgetsUnix(s) ==
    /\ Goto(s, "closeSrc", "closeDst")
    /\ \/ kind[s] = "tcp" /\ CloseRead(s)
       \/ kind[s] = "unix" /\ UNCHANGED <<sockets, outbox>>
       \/ kind[s] = "tls" /\ Close(s, FALSE)
    /\ UNCHANGED <<kind, peers, taken, cause>>

(* Mutant: every source is closed as a whole. *)
CloseSrcAlwaysCloses(s) ==
    /\ Goto(s, "closeSrc", "closeDst")
    /\ Close(s, kind[s] = "tcp")
    /\ UNCHANGED <<kind, peers, taken, cause>>

CloseSrc(s) ==
    /\ Goto(s, "closeSrc", "closeDst")
    /\ \/ kind[s] \in {"tcp", "unix"} /\ CloseRead(s)
       \/ kind[s] = "tls" /\ Close(s, FALSE)
    /\ UNCHANGED <<kind, peers, taken, cause>>

(* Mutant: the destination switch's case for a Unix socket does nothing. *)
CloseDstForgetsUnix(s) ==
    /\ Goto(s, "closeDst", "done")
    /\ wr' = IF kind[Other(s)] = "unix" THEN wr
             ELSE [wr EXCEPT ![Other(s)] = FALSE]
    /\ UNCHANGED <<kind, peers, taken, outbox, rd, closed, reset, cause>>

CloseDst(s) ==
    /\ Goto(s, "closeDst", "done")
    /\ wr' = [wr EXCEPT ![Other(s)] = FALSE]
    /\ UNCHANGED <<kind, peers, taken, outbox, rd, closed, reset, cause>>

(* fuse returns when both copies are done; the handler then closes the     *)
(* client, and the garbage collector some time later the backend.  Both    *)
(* switches have set linger to zero on a TCP socket by then.               *)
Returned == \A s \in Sides : pc[s] = "done"

ConnClose ==
    /\ Returned /\ ~closed["client"]
    /\ Close("client", kind["client"] = "tcp")
    /\ UNCHANGED <<kind, peers, taken, pc, cause>>

Finalize ==
    /\ Returned /\ closed["client"] /\ ~closed["backend"]
    /\ Close("backend", kind["backend"] = "tcp")
    /\ UNCHANGED <<kind, peers, taken, pc, cause>>

-----------------------------------------------------------------------------
Peer(s) == PeerSend(s) \/ PeerFinish(s) \/ PeerGone(s) \/ PeerRead(s)

CopyData(s) ==
    \/ ReadData(s) \/ ReadEOF(s) \/ ReadError(s)
    \/ WriteData(s) \/ WriteError(s)
    \/ CloseSrc(s) \/ CloseDst(s)

Next ==
    \/ \E s \in Sides : Peer(s) \/ CopyData(s)
    \/ ConnClose
    \/ Finalize

Spec == Init /\ [][Next]_vars

(* Goroutines run, and peers read what they are sent.  Nothing makes a     *)
(* peer send, finish or go away.                                           *)
Fairness ==
    /\ \A s \in Sides : WF_vars(CopyData(s)) /\ WF_vars(PeerRead(s))
    /\ WF_vars(ConnClose)

FairSpec == Spec /\ Fairness

-----------------------------------------------------------------------------
(* When fuse returns, both sockets are shut in both directions, whatever   *)
(* their types and whichever side ended first: the four branches of the    *)
(* type switches add up (proxy.go:249-269).                                *)
ReturnedMeansShut == Returned => \A s \in Sides : ~rd[s] /\ ~wr[s]

(* A half-close by a plain peer leaves the other direction alone: a copy   *)
(* is cut short only after some peer has gone away, or after a TLS peer    *)
(* has finished, whose socket is closed as a whole (proxy.go:249-256).     *)
HalfCloseIsOneWay ==
    (\E s \in Sides : cause[s] = "error") =>
        \E s \in Sides : \/ peer[s] = "gone"
                         \/ kind[s] = "tls" /\ peer[s] # "open"

(* A peer that finished in order had everything it sent forwarded, as long *)
(* as the other end is there to take it and its socket was not reset       *)
(* (proxy.go:243).                                                         *)
CleanEndIsComplete ==
    \A s \in Sides :
        cause[s] = "eof" /\ peer[Other(s)] # "gone" /\ ~reset[Other(s)]
            => got[Other(s)] + outbox[Other(s)] = sent[s]

(* The end of one peer's data reaches the other peer (proxy.go:258-269).   *)
EndPropagates ==
    \A s \in Sides : peer[s] # "open" ~> ~wr[Other(s)]

(* If peers that are told of the end finish as well, then a connection     *)
(* ends when either peer does: fuse returns and the client is closed       *)
(* (proxy.go:234).                                                         *)
ConnectionEnds ==
    (\A s \in Sides : ~wr[s] ~> peer[s] # "open")
        => \A s \in Sides : peer[s] # "open" ~> Returned /\ closed["client"]

=============================================================================

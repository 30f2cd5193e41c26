------------------------------ MODULE FuseProofs ------------------------------
(***************************************************************************)
(* Proofs about module Fuse, for any amount of data and any buffer.        *)
(***************************************************************************)
EXTENDS Fuse, TLAPS

(* The chunk that a copy has read and not written. *)
InHand(s) == IF pc[s] = "write" THEN 1 ELSE 0

(* What the place of a copy says about its two sockets. *)
ShutInv(s) ==
    /\ pc[s] \in {"closeDst", "done"} => ~rd[s]
    /\ pc[s] = "done" => ~wr[Other(s)]
    /\ ~wr[s] => closed[s] \/ pc[Other(s)] = "done"
    /\ closed[s] => \/ Returned
                    \/ kind[s] = "tls" /\ pc[s] \in {"closeDst", "done"}

(* What ended a copy, and what that says about its source. *)
CauseInv(s) ==
    /\ pc[s] \in {"read", "write"} <=> cause[s] = "none"
    /\ cause[s] = "eof" => peer[s] # "open" /\ taken[s] = sent[s]

(* No chunk is made up, and none is lost but by an error, a peer that goes *)
(* away or a reset.                                                        *)
FlowInv(s) ==
    LET d == Other(s) IN
    /\ taken[s] <= sent[s]
    /\ got[d] + outbox[d] + InHand(s) <= taken[s]
    /\ cause[s] # "error" /\ peer[d] # "gone" /\ ~reset[d]
          => got[d] + outbox[d] + InHand(s) = taken[s]

IInv ==
    /\ TypeOK
    /\ HalfCloseIsOneWay
    /\ \A s \in Sides : ShutInv(s) /\ CauseInv(s) /\ FlowInv(s)

-----------------------------------------------------------------------------
(* The two sides. *)
LEMMA OtherFacts ==
    ASSUME NEW s \in Sides
    PROVE  /\ Other(s) \in Sides /\ Other(s) # s /\ Other(Other(s)) = s
           /\ \A t \in Sides : t = s \/ t = Other(s)
    BY DEF Sides, Other

(* The invariant holds when fuse is called. *)
THEOREM FuseInit == Init => IInv
  <1> SUFFICES ASSUME Init PROVE IInv  OBVIOUS
  <1>1. TypeOK
    BY FuseAssumption DEF Init, TypeOK
  <1>2. HalfCloseIsOneWay
    BY DEF Init, HalfCloseIsOneWay
  <1>3. ASSUME NEW s \in Sides PROVE ShutInv(s) /\ CauseInv(s) /\ FlowInv(s)
    BY OtherFacts DEF Init, ShutInv, CauseInv, FlowInv, InHand
  <1> QED  BY <1>1, <1>2, <1>3 DEF IInv

-----------------------------------------------------------------------------
(* The peers: sockets, copies and what ended them stay as they are. *)
LEMMA PeerKeeps ==
    ASSUME IInv, NEW s \in Sides, Peer(s) PROVE IInv'
  <1> USE DEF peers, sockets
  <1>1. /\ UNCHANGED <<kind, taken, rd, wr, closed, reset, pc, cause>>
        /\ \A t \in Sides : peer[t] # "open" => peer'[t] # "open"
        /\ \A t \in Sides : peer[t] = "gone" => peer'[t] = "gone"
        /\ \A t \in Sides : peer[t] # "open" => sent'[t] = sent[t]
        /\ \A t \in Sides : sent'[t] >= sent[t]
        /\ \A t \in Sides : got'[t] + outbox'[t] <= got[t] + outbox[t]
        /\ \A t \in Sides : peer'[t] # "gone" =>
                               got'[t] + outbox'[t] = got[t] + outbox[t]
    BY DEF Peer, PeerSend, PeerFinish, PeerGone, PeerRead, IInv, TypeOK
  <1>2. got'[s] \in 0 .. MaxData
    <2>1. CASE PeerRead(s)
      <3>1. got'[s] = got[s] + 1 /\ outbox[s] > 0
        BY <2>1 DEF PeerRead, IInv, TypeOK
      <3>2. got[s] + outbox[s] <= MaxData
        BY OtherFacts, FuseAssumption DEF IInv, FlowInv, InHand, TypeOK
      <3> QED  BY <3>1, <3>2, FuseAssumption DEF IInv, TypeOK
    <2>2. CASE ~PeerRead(s)
      BY <2>2 DEF Peer, PeerSend, PeerFinish, PeerGone, IInv, TypeOK
    <2> QED  BY <2>1, <2>2
  <1>3. TypeOK'
    BY <1>2, FuseAssumption
       DEF Peer, PeerSend, PeerFinish, PeerGone, PeerRead, IInv, TypeOK
  <1>4. HalfCloseIsOneWay'
    BY <1>1 DEF IInv, HalfCloseIsOneWay
  <1>5. ASSUME NEW t \in Sides PROVE ShutInv(t)' /\ CauseInv(t)' /\ FlowInv(t)'
    <2>1. ShutInv(t)'
      BY <1>1 DEF IInv, ShutInv, Returned
    <2>2. CauseInv(t)'
      BY <1>1 DEF IInv, CauseInv
    <2>3. FlowInv(t)'
      BY <1>1, <1>3, OtherFacts DEF IInv, FlowInv, InHand, TypeOK
    <2> QED  BY <2>1, <2>2, <2>3
  <1> QED  BY <1>3, <1>4, <1>5 DEF IInv

(* A copy reads. *)
LEMMA ReadKeeps ==
    ASSUME IInv, NEW s \in Sides, ReadData(s) PROVE IInv'
  <1> USE DEF peers, sockets, ReadData, Goto
  <1>1. TypeOK'  BY FuseAssumption DEF IInv, TypeOK
  <1>2. HalfCloseIsOneWay'  BY DEF IInv, HalfCloseIsOneWay
  <1>3. ASSUME NEW t \in Sides PROVE ShutInv(t)' /\ CauseInv(t)' /\ FlowInv(t)'
    <2>1. ShutInv(t)'
      BY OtherFacts DEF IInv, TypeOK, ShutInv, Returned
    <2>2. CauseInv(t)'
      BY DEF IInv, TypeOK, CauseInv
    <2>3. FlowInv(t)'
      BY OtherFacts DEF IInv, TypeOK, FlowInv, InHand
    <2> QED  BY <2>1, <2>2, <2>3
  <1> QED  BY <1>1, <1>2, <1>3 DEF IInv

(* A copy writes. *)
LEMMA WriteKeeps ==
    ASSUME IInv, NEW s \in Sides, WriteData(s) PROVE IInv'
  <1> USE DEF peers, sockets, WriteData, Write, Goto
  <1>1. TypeOK'  BY OtherFacts, FuseAssumption DEF IInv, TypeOK
  <1>2. HalfCloseIsOneWay'  BY DEF IInv, HalfCloseIsOneWay
  <1>3. ASSUME NEW t \in Sides PROVE ShutInv(t)' /\ CauseInv(t)' /\ FlowInv(t)'
    <2>1. ShutInv(t)'
      BY OtherFacts DEF IInv, TypeOK, ShutInv, Returned
    <2>2. CauseInv(t)'
      BY DEF IInv, TypeOK, CauseInv
    <2>3. FlowInv(t)'
      BY OtherFacts DEF IInv, TypeOK, FlowInv, InHand
    <2> QED  BY <2>1, <2>2, <2>3
  <1> QED  BY <1>1, <1>2, <1>3 DEF IInv

(* A copy ends.  The socket it could not write was shut by the copy in the *)
(* other direction, which was at its end before.                           *)
LEMMA EndKeeps ==
    ASSUME IInv, NEW s \in Sides, ReadEOF(s) \/ ReadError(s) \/ WriteError(s)
    PROVE  IInv'
  <1> USE DEF peers, sockets, Goto
  <1>1. /\ UNCHANGED <<kind, peer, sent, got, taken, outbox,
                       rd, wr, closed, reset>>
        /\ pc[s] \in {"read", "write"} /\ pc'[s] = "closeSrc"
        /\ \A t \in Sides \ {s} : pc'[t] = pc[t] /\ cause'[t] = cause[t]
        /\ cause'[s] \in {"eof", "error"}
        /\ cause'[s] = "eof" => ReadEOF(s)
    BY DEF ReadEOF, ReadError, WriteError, IInv, TypeOK
  <1>2. TypeOK'
    BY DEF ReadEOF, ReadError, WriteError, IInv, TypeOK
  <1>3. HalfCloseIsOneWay'
    <2>1. CASE \E t \in Sides : cause[t] = "error"
      BY <1>1, <2>1 DEF IInv, HalfCloseIsOneWay
    <2>2. CASE ReadEOF(s) /\ ~ \E t \in Sides : cause[t] = "error"
      BY <2>2 DEF ReadEOF, IInv, TypeOK, HalfCloseIsOneWay
    <2>3. CASE ReadError(s)
      BY <2>3 DEF ReadError, HalfCloseIsOneWay
    <2>4. CASE WriteError(s) /\ ~ \E t \in Sides : cause[t] = "error"
      <3> DEFINE d == Other(s)
      <3>1. d \in Sides /\ (peer[d] = "gone" \/ ~wr[d])
        BY <2>4, OtherFacts DEF WriteError
      <3>2. CASE peer[d] = "gone"
        BY <1>1, <3>1, <3>2 DEF HalfCloseIsOneWay
      <3>3. CASE ~wr[d]
        <4>1. closed[d]
          BY <1>1, <3>1, <3>3, OtherFacts DEF IInv, ShutInv
        <4>2. kind[d] = "tls" /\ pc[d] \in {"closeDst", "done"}
          BY <1>1, <3>1, <4>1 DEF IInv, ShutInv, Returned
        <4>3. cause[d] = "eof"
          BY <2>4, <3>1, <4>2 DEF IInv, CauseInv, TypeOK
        <4>4. peer[d] # "open"
          BY <3>1, <4>3 DEF IInv, CauseInv
        <4> QED  BY <1>1, <3>1, <4>2, <4>4 DEF HalfCloseIsOneWay
      <3> QED  BY <3>1, <3>2, <3>3
    <2> QED  BY <2>1, <2>2, <2>3, <2>4
  <1>4. ASSUME NEW t \in Sides PROVE ShutInv(t)' /\ CauseInv(t)' /\ FlowInv(t)'
    <2>1. ShutInv(t)'
      BY <1>1, OtherFacts DEF IInv, ShutInv, Returned
    <2>2. CauseInv(t)'
      BY <1>1 DEF IInv, CauseInv, ReadEOF
    <2>3. FlowInv(t)'
      <3>1. /\ taken[t] \in Nat /\ got[Other(t)] \in Nat
            /\ outbox[Other(t)] \in Nat /\ FlowInv(t)
        BY OtherFacts DEF IInv, TypeOK
      <3>2. CASE t # s
        <4>1. InHand(t)' = InHand(t) /\ cause'[t] = cause[t]
          BY <1>1, <3>2 DEF InHand
        <4> QED  BY <1>1, <3>1, <4>1 DEF FlowInv
      <3>3. CASE t = s /\ cause'[s] = "error"
        <4>1. InHand(t)' = 0 /\ InHand(t) \in Nat
          BY <1>1, <3>3 DEF InHand
        <4> QED  BY <1>1, <3>1, <3>3, <4>1 DEF FlowInv
      <3>4. CASE t = s /\ cause'[s] = "eof"
        <4>1. pc[s] = "read" /\ cause[s] = "none"
          BY <1>1, <3>4 DEF ReadEOF, IInv, CauseInv
        <4>2. InHand(t)' = 0 /\ InHand(t) = 0
          BY <1>1, <3>4, <4>1 DEF InHand
        <4> QED  BY <1>1, <3>1, <3>4, <4>1, <4>2 DEF FlowInv
      <3> QED  BY <1>1, <3>2, <3>3, <3>4
    <2> QED  BY <2>1, <2>2, <2>3
  <1> QED  BY <1>2, <1>3, <1>4 DEF IInv

-----------------------------------------------------------------------------
(* Close shuts one socket and may drop what is in its outbox. *)
LEMMA CloseFacts ==
    ASSUME TypeOK, NEW s \in Sides, NEW z, Close(s, z)
    PROVE  /\ rd' \in [Sides -> BOOLEAN] /\ wr' \in [Sides -> BOOLEAN]
           /\ closed' \in [Sides -> BOOLEAN] /\ reset' \in [Sides -> BOOLEAN]
           /\ outbox' \in [Sides -> 0 .. Buffer]
           /\ ~rd'[s] /\ ~wr'[s]
           /\ \A t \in Sides \ {s} :
                 /\ rd'[t] = rd[t] /\ wr'[t] = wr[t] /\ closed'[t] = closed[t]
                 /\ reset'[t] = reset[t] /\ outbox'[t] = outbox[t]
           /\ outbox'[s] <= outbox[s]
           /\ ~reset'[s] => ~reset[s] /\ outbox'[s] = outbox[s]
  <1>1. /\ rd' \in [Sides -> BOOLEAN] /\ wr' \in [Sides -> BOOLEAN]
        /\ closed' \in [Sides -> BOOLEAN]
        /\ ~rd'[s] /\ ~wr'[s]
        /\ \A t \in Sides \ {s} :
              rd'[t] = rd[t] /\ wr'[t] = wr[t] /\ closed'[t] = closed[t]
    BY DEF Close, TypeOK
  <1>2. CASE ~closed[s] /\ (z \/ taken[s] < sent[s])
    <2>1. /\ reset' = [reset EXCEPT ![s] = TRUE]
          /\ \E n \in {0, outbox[s]} : outbox' = [outbox EXCEPT ![s] = n]
      BY <1>2 DEF Close
    <2>2. /\ reset' \in [Sides -> BOOLEAN] /\ reset'[s]
          /\ \A t \in Sides \ {s} : reset'[t] = reset[t]
      BY <2>1 DEF TypeOK
    <2>3. /\ outbox' \in [Sides -> 0 .. Buffer] /\ outbox'[s] <= outbox[s]
          /\ \A t \in Sides \ {s} : outbox'[t] = outbox[t]
      BY <2>1, FuseAssumption DEF TypeOK
    <2> QED  BY <1>1, <2>2, <2>3
  <1>3. CASE ~(~closed[s] /\ (z \/ taken[s] < sent[s]))
    <2>1. UNCHANGED <<reset, outbox>>
      BY <1>3 DEF Close
    <2> QED  BY <1>1, <2>1 DEF TypeOK
  <1> QED  BY <1>2, <1>3

(* Chunks: a step that reads and writes nothing, and may drop what is in   *)
(* the outbox of a socket that it resets.                                  *)
LEMMA FlowKeeps ==
    ASSUME IInv, TypeOK', UNCHANGED <<peer, sent, got, taken, cause>>,
           \A t \in Sides :
              /\ InHand(t)' = InHand(t)
              /\ outbox'[t] <= outbox[t]
              /\ ~reset'[t] => ~reset[t] /\ outbox'[t] = outbox[t]
    PROVE  \A t \in Sides : FlowInv(t)'
  <1> SUFFICES ASSUME NEW t \in Sides PROVE FlowInv(t)'  OBVIOUS
  <1>1. FlowInv(t) /\ Other(t) \in Sides  BY OtherFacts DEF IInv
  <1>2. InHand(t) \in Nat /\ InHand(t)' = InHand(t)  BY DEF InHand
  <1>3. /\ taken[t] \in Nat /\ got[Other(t)] \in Nat
        /\ outbox[Other(t)] \in Nat /\ outbox'[Other(t)] \in Nat
    BY <1>1 DEF IInv, TypeOK
  <1> QED  BY <1>1, <1>2, <1>3 DEF FlowInv

(* Shutting the source for reading keeps the invariant. *)
LEMMA CloseSrcKeeps ==
    ASSUME IInv, NEW s \in Sides, CloseSrc(s) PROVE IInv'
  <1> USE DEF peers
  <1>1. /\ UNCHANGED <<kind, peer, sent, got, taken, cause>>
        /\ pc[s] = "closeSrc" /\ pc'[s] = "closeDst"
        /\ pc' \in [Sides -> {"read", "write", "closeSrc", "closeDst", "done"}]
        /\ \A t \in Sides \ {s} : pc'[t] = pc[t]
    BY DEF CloseSrc, Goto, IInv, TypeOK
  <1>2. /\ rd' \in [Sides -> BOOLEAN] /\ wr' \in [Sides -> BOOLEAN]
        /\ closed' \in [Sides -> BOOLEAN] /\ reset' \in [Sides -> BOOLEAN]
        /\ outbox' \in [Sides -> 0 .. Buffer]
        /\ ~rd'[s]
        /\ \A t \in Sides \ {s} :
              /\ rd'[t] = rd[t] /\ wr'[t] = wr[t] /\ closed'[t] = closed[t]
              /\ reset'[t] = reset[t] /\ outbox'[t] = outbox[t]
        /\ outbox'[s] <= outbox[s]
        /\ ~reset'[s] => ~reset[s] /\ outbox'[s] = outbox[s]
        /\ \/ wr'[s] = wr[s] /\ closed'[s] = closed[s]
           \/ ~wr'[s] /\ closed'[s] /\ kind[s] = "tls"
    <2>1. CASE CloseRead(s)
      BY <2>1 DEF CloseRead, IInv, TypeOK
    <2>2. CASE kind[s] = "tls" /\ Close(s, FALSE)
      <3>1. closed'[s]  BY <2>2 DEF Close, IInv, TypeOK
      <3> QED  BY <2>2, <3>1, CloseFacts DEF IInv
    <2> QED  BY <2>1, <2>2 DEF CloseSrc
  <1>3. TypeOK'
    BY <1>1, <1>2 DEF IInv, TypeOK
  <1>4. HalfCloseIsOneWay'
    BY <1>1 DEF IInv, HalfCloseIsOneWay
  <1>5. \A t \in Sides : FlowInv(t)'
    <2>1. \A t \in Sides : InHand(t)' = InHand(t)
      BY <1>1 DEF InHand
    <2>2. ASSUME NEW t \in Sides
          PROVE  /\ outbox'[t] <= outbox[t]
                 /\ ~reset'[t] => ~reset[t] /\ outbox'[t] = outbox[t]
      BY <1>2, <1>3 DEF IInv, TypeOK
    <2> QED  BY <1>1, <1>3, <2>1, <2>2, FlowKeeps
  <1>6. ASSUME NEW t \in Sides PROVE ShutInv(t)' /\ CauseInv(t)'
    <2>0. ~Returned
      BY <1>1 DEF Returned
    <2>1. ShutInv(t)'
      BY <1>1, <1>2, <2>0, OtherFacts DEF IInv, ShutInv
    <2>2. CauseInv(t)'
      BY <1>1 DEF IInv, CauseInv
    <2> QED  BY <2>1, <2>2
  <1> QED  BY <1>3, <1>4, <1>5, <1>6 DEF IInv

(* Shutting the destination for writing keeps the invariant. *)
LEMMA CloseDstKeeps ==
    ASSUME IInv, NEW s \in Sides, CloseDst(s) PROVE IInv'
  <1> USE DEF peers
  <1>1. /\ UNCHANGED <<kind, peer, sent, got, taken, outbox, rd, closed,
                       reset, cause>>
        /\ pc[s] = "closeDst" /\ pc'[s] = "done"
        /\ pc' \in [Sides -> {"read", "write", "closeSrc", "closeDst", "done"}]
        /\ \A t \in Sides \ {s} : pc'[t] = pc[t]
    BY DEF CloseDst, Goto, IInv, TypeOK
  <1>2. /\ wr' \in [Sides -> BOOLEAN] /\ ~wr'[Other(s)] /\ wr'[s] = wr[s]
    BY OtherFacts DEF CloseDst, IInv, TypeOK
  <1>3. TypeOK'
    BY <1>1, <1>2 DEF IInv, TypeOK
  <1>4. HalfCloseIsOneWay'
    BY <1>1 DEF IInv, HalfCloseIsOneWay
  <1>5. \A t \in Sides : FlowInv(t)'
    <2>1. \A t \in Sides : InHand(t)' = InHand(t)
      BY <1>1 DEF InHand
    <2>2. \A t \in Sides : outbox[t] \in Nat  BY DEF IInv, TypeOK
    <2> QED  BY <1>1, <1>3, <2>1, <2>2, FlowKeeps
  <1>6. ASSUME NEW t \in Sides PROVE ShutInv(t)' /\ CauseInv(t)'
    <2>0. ~Returned
      BY <1>1 DEF Returned
    <2>1. ShutInv(t)'
      BY <1>1, <1>2, <2>0, OtherFacts DEF IInv, ShutInv
    <2>2. CauseInv(t)'
      BY <1>1 DEF IInv, CauseInv
    <2> QED  BY <2>1, <2>2
  <1> QED  BY <1>3, <1>4, <1>5, <1>6 DEF IInv

(* The closing after fuse has returned. *)
LEMMA FinalCloseKeeps ==
    ASSUME IInv, Returned, NEW s \in Sides, NEW z, Close(s, z),
           UNCHANGED <<kind, peers, taken, pc, cause>>
    PROVE  IInv'
  <1> USE DEF peers
  <1>1. TypeOK'
    BY CloseFacts DEF IInv, TypeOK
  <1>2. HalfCloseIsOneWay'
    BY DEF IInv, HalfCloseIsOneWay
  <1>3. \A t \in Sides : FlowInv(t)'
    <2>1. \A t \in Sides : InHand(t)' = InHand(t)
      BY DEF InHand
    <2>2. ASSUME NEW t \in Sides
          PROVE  /\ outbox'[t] <= outbox[t]
                 /\ ~reset'[t] => ~reset[t] /\ outbox'[t] = outbox[t]
      BY CloseFacts DEF IInv, TypeOK
    <2> QED  BY <1>1, <2>1, <2>2, FlowKeeps
  <1>4. ASSUME NEW t \in Sides PROVE ShutInv(t)' /\ CauseInv(t)'
    <2>1. Returned' /\ pc'[t] = "done" /\ pc'[Other(t)] = "done"
      BY OtherFacts DEF Returned
    <2>2. ~rd'[t] /\ ~wr'[Other(t)]
      <3>1. ~rd[t] /\ ~wr[Other(t)]
        BY <2>1 DEF IInv, ShutInv
      <3> QED  BY <3>1, CloseFacts, OtherFacts DEF IInv
    <2>3. ShutInv(t)'
      BY <2>1, <2>2 DEF ShutInv
    <2>4. CauseInv(t)'
      BY DEF IInv, CauseInv
    <2> QED  BY <2>3, <2>4
  <1> QED  BY <1>1, <1>2, <1>3, <1>4 DEF IInv

-----------------------------------------------------------------------------
(* Every step of either copy loop and of the peers keeps the invariant. *)
THEOREM FuseStep == IInv /\ [Next]_vars => IInv'
  <1> SUFFICES ASSUME IInv, [Next]_vars PROVE IInv'  OBVIOUS
  <1>1. ASSUME NEW s \in Sides, Peer(s) \/ CopyData(s) PROVE IInv'
    BY <1>1, PeerKeeps, ReadKeeps, WriteKeeps, EndKeeps, CloseSrcKeeps,
       CloseDstKeeps DEF CopyData
  <1>2. CASE ConnClose
    BY <1>2, FinalCloseKeeps DEF ConnClose, Sides
  <1>3. CASE Finalize
    BY <1>3, FinalCloseKeeps DEF Finalize, Sides
  <1>4. CASE UNCHANGED vars
    <2> USE DEF vars, peers, sockets
    <2>1. TypeOK' /\ HalfCloseIsOneWay'
      BY <1>4 DEF IInv, TypeOK, HalfCloseIsOneWay
    <2>2. ASSUME NEW s \in Sides
          PROVE  ShutInv(s)' /\ CauseInv(s)' /\ FlowInv(s)'
      BY <1>4 DEF IInv, ShutInv, Returned, CauseInv, FlowInv, InHand
    <2> QED  BY <2>1, <2>2 DEF IInv
  <1> QED  BY <1>1, <1>2, <1>3, <1>4 DEF Next

(* The inductive invariant holds in every reachable state. *)
THEOREM FuseInvariance == Spec => []IInv
    BY FuseInit, FuseStep, PTL DEF Spec

(* The variables have their types. *)
THEOREM FuseTypeCorrect == Spec => []TypeOK
  <1>1. IInv => TypeOK  BY DEF IInv
  <1> QED  BY <1>1, FuseInvariance, PTL

NothingMadeUp ==
    \A s \in Sides : got[Other(s)] + outbox[Other(s)] + InHand(s) <= sent[s]

(* Neither copy makes data up or delivers it twice: what a peer has        *)
(* received, what is on its way to it and what the copy has in hand are    *)
(* together no more than what the other peer sent (proxy.go:243).          *)
THEOREM CopiesMakeNothingUp == Spec => []NothingMadeUp
  <1>1. ASSUME IInv, NEW s \in Sides
        PROVE  got[Other(s)] + outbox[Other(s)] + InHand(s) <= sent[s]
    BY <1>1, OtherFacts DEF IInv, TypeOK, FlowInv, InHand
  <1>2. IInv => NothingMadeUp  BY <1>1 DEF NothingMadeUp
  <1> QED  BY <1>2, FuseInvariance, PTL

(* For every pair of socket types, both sockets are shut in both           *)
(* directions when fuse returns (proxy.go:249-269).                        *)
THEOREM SocketsAreShut == Spec => []ReturnedMeansShut
  <1>1. IInv => ReturnedMeansShut
    BY OtherFacts DEF IInv, ShutInv, Returned, ReturnedMeansShut
  <1> QED  BY <1>1, FuseInvariance, PTL

(* A half-close of a plain peer never cuts the other direction short       *)
(* (proxy.go:249-256).                                                     *)
THEOREM HalfClosesAreOneWay == Spec => []HalfCloseIsOneWay
  <1>1. IInv => HalfCloseIsOneWay  BY DEF IInv
  <1> QED  BY <1>1, FuseInvariance, PTL

(* A peer that finished in order had everything it sent forwarded, unless  *)
(* the other end has gone or was reset (proxy.go:243).                     *)
THEOREM CleanEndsAreComplete == Spec => []CleanEndIsComplete
  <1>1. IInv => CleanEndIsComplete
    <2> SUFFICES ASSUME IInv, NEW s \in Sides, cause[s] = "eof",
                        peer[Other(s)] # "gone", ~reset[Other(s)]
                 PROVE  got[Other(s)] + outbox[Other(s)] = sent[s]
      BY DEF CleanEndIsComplete
    <2>1. pc[s] # "write" /\ taken[s] = sent[s]
      BY DEF IInv, CauseInv
    <2>2. got[Other(s)] \in Nat /\ outbox[Other(s)] \in Nat
      BY OtherFacts DEF IInv, TypeOK
    <2> QED  BY <2>1, <2>2 DEF IInv, FlowInv, InHand
  <1> QED  BY <1>1, FuseInvariance, PTL

=============================================================================

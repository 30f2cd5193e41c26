----------------------------- MODULE DialerProofs -----------------------------
(***************************************************************************)
(* Proofs about module MtlsDialer, for any number of concurrent calls.     *)
(***************************************************************************)
EXTENDS MtlsDialer, TLAPS

Sent(place) == IF place = "sent" THEN 1 ELSE 0

(* The connection follows the caller. *)
ConnInv(d) ==
    /\ caller[d] = "dial" => rawConn[d] = "none"
    /\ caller[d] = "receive" => rawConn[d] = "open"
    /\ caller[d] = "ok" => verified[d] /\ rawConn[d] = "open"
    /\ caller[d] = "err" => rawConn[d] # "open"

(* Each result in the channel is from somebody who is done with sending,   *)
(* and "nil" is there only after a successful handshake.                   *)
ChannelInv(d) ==
    /\ Len(errChannel[d]) <= Sent(timer[d]) + Sent(shaker[d])
    /\ \A i \in 1 .. Len(errChannel[d]) : errChannel[d][i] = "nil" => verified[d]

IInv == TypeOK /\ \A d \in Dials : ConnInv(d) /\ ChannelInv(d)

(* Neither the timer nor the handshake ever waits for room in the channel. *)
SendsNeverBlock ==
    \A d \in Dials :
        timer[d] = "armed" \/ shaker[d] = "running"
            => Len(errChannel[d]) < ChannelSize

-----------------------------------------------------------------------------
(* A step of one call does not touch the others. *)
OthersKeep(d) ==
    \A e \in Dials \ {d} :
        /\ caller'[e] = caller[e] /\ rawConn'[e] = rawConn[e]
        /\ timer'[e] = timer[e] /\ shaker'[e] = shaker[e]
        /\ verified'[e] = verified[e] /\ errChannel'[e] = errChannel[e]

(* So it is enough to look at the call that takes the step. *)
LEMMA OneCall ==
    ASSUME IInv, NEW d \in Dials, TypeOK', OthersKeep(d),
           ConnInv(d)', ChannelInv(d)'
    PROVE  IInv'
  <1>1. ASSUME NEW e \in Dials, e # d PROVE ConnInv(e)' /\ ChannelInv(e)'
    BY <1>1 DEF IInv, OthersKeep, ConnInv, ChannelInv
  <1> QED  BY <1>1 DEF IInv

(* A result is put behind the others. *)
LEMMA SendFacts ==
    ASSUME TypeOK, NEW d \in Dials, NEW result \in Results, Send(d, result)
    PROVE  /\ errChannel' \in [Dials -> Seq(Results)]
           /\ \A e \in Dials \ {d} : errChannel'[e] = errChannel[e]
           /\ Len(errChannel'[d]) = Len(errChannel[d]) + 1
           /\ Len(errChannel'[d]) <= ChannelSize
           /\ \A i \in 1 .. Len(errChannel'[d]) :
                 \/ i \in 1 .. Len(errChannel[d])
                    /\ errChannel'[d][i] = errChannel[d][i]
                 \/ errChannel'[d][i] = result
  <1>1. errChannel[d] \in Seq(Results) /\ Len(errChannel[d]) \in Nat
    BY DEF TypeOK
  <1>2. errChannel'[d] = Append(errChannel[d], result)
    BY DEF Send, TypeOK
  <1>3. errChannel' \in [Dials -> Seq(Results)]
    BY <1>1 DEF Send, TypeOK
  <1>4. \A e \in Dials \ {d} : errChannel'[e] = errChannel[e]
    BY DEF Send, TypeOK
  <1>5. Len(errChannel'[d]) = Len(errChannel[d]) + 1
    BY <1>1, <1>2
  <1>6. Len(errChannel'[d]) <= ChannelSize
    BY <1>1, <1>5 DEF Send, ChannelSize
  <1>7. ASSUME NEW i \in 1 .. Len(errChannel'[d])
        PROVE  \/ i \in 1 .. Len(errChannel[d])
                  /\ errChannel'[d][i] = errChannel[d][i]
               \/ errChannel'[d][i] = result
    BY <1>1, <1>2, <1>5, <1>7
  <1> QED  BY <1>3, <1>4, <1>5, <1>6, <1>7

-----------------------------------------------------------------------------
(* The invariant holds when the calls begin. *)
THEOREM DialerInit == Init => IInv
    BY DEF Init, IInv, TypeOK, ConnInv, ChannelInv, Sent, ChannelSize

(* Every step of the caller, the goroutine and the timer keeps it. *)
THEOREM DialerStep == IInv /\ [Next]_vars => IInv'
  <1> SUFFICES ASSUME IInv, [Next]_vars PROVE IInv'  OBVIOUS
  <1> USE DEF Sent, ChannelSize
  <1>1. ASSUME NEW d \in Dials, DialError(d)  PROVE IInv'
    BY <1>1 DEF DialError, IInv, TypeOK, ConnInv, ChannelInv
  <1>2. ASSUME NEW d \in Dials, DialOk(d)  PROVE IInv'
    <2>1. TypeOK'  BY <1>2 DEF DialOk, IInv, TypeOK
    <2>2. OthersKeep(d)  BY <1>2 DEF DialOk, IInv, TypeOK, OthersKeep
    <2>3. ConnInv(d)'  BY <1>2 DEF DialOk, IInv, TypeOK, ConnInv
    <2>4. shaker[d] # "sent"
      BY <1>2 DEF DialOk, IInv, TypeOK, ConnInv
    <2>5. ChannelInv(d)'
      BY <1>2, <2>4 DEF DialOk, IInv, TypeOK, ChannelInv
    <2> QED  BY <2>1, <2>2, <2>3, <2>5, OneCall
  <1>3. ASSUME NEW d \in Dials, TimerFires(d)  PROVE IInv'
    <2> USE <1>3 DEF TimerFires
    <2>0. Send(d, "timeout") /\ "timeout" \in Results /\ TypeOK
      BY DEF IInv, Results
    <2>1. TypeOK'  BY <2>0, SendFacts DEF TypeOK
    <2>2. OthersKeep(d)  BY <2>0, SendFacts DEF TypeOK, OthersKeep
    <2>3. ConnInv(d)'  BY DEF IInv, ConnInv
    <2>4. Len(errChannel[d]) \in Nat /\ timer'[d] = "sent"
      BY DEF IInv, TypeOK
    <2>5. Len(errChannel'[d]) <= Sent(timer'[d]) + Sent(shaker'[d])
      BY <2>0, <2>4, SendFacts DEF IInv, ChannelInv
    <2>6. ChannelInv(d)'
      BY <2>0, <2>5, SendFacts DEF IInv, ChannelInv
    <2> QED  BY <2>1, <2>2, <2>3, <2>6, OneCall
  <1>4. ASSUME NEW d \in Dials, HandshakeOk(d)  PROVE IInv'
    <2> USE <1>4 DEF HandshakeOk
    <2>0. Send(d, "nil") /\ "nil" \in Results /\ TypeOK
      BY DEF IInv, Results
    <2>1. TypeOK'  BY <2>0, SendFacts DEF TypeOK
    <2>2. OthersKeep(d)  BY <2>0, SendFacts DEF TypeOK, OthersKeep
    <2>3. verified'[d] = TRUE /\ shaker'[d] = "sent"  BY <2>0 DEF TypeOK
    <2>4. ConnInv(d)'  BY <2>3 DEF IInv, ConnInv
    <2>5. Len(errChannel[d]) \in Nat  BY <2>0 DEF TypeOK
    <2>6. Len(errChannel'[d]) <= Sent(timer'[d]) + Sent(shaker'[d])
      BY <2>0, <2>3, <2>5, SendFacts DEF IInv, ChannelInv
    <2>7. ChannelInv(d)'  BY <2>3, <2>6 DEF ChannelInv
    <2> QED  BY <2>1, <2>2, <2>4, <2>7, OneCall
  <1>5. ASSUME NEW d \in Dials, HandshakeError(d)  PROVE IInv'
    <2> USE <1>5 DEF HandshakeError
    <2>0. Send(d, "failed") /\ "failed" \in Results /\ TypeOK
      BY DEF IInv, Results
    <2>1. TypeOK'  BY <2>0, SendFacts DEF TypeOK
    <2>2. OthersKeep(d)  BY <2>0, SendFacts DEF TypeOK, OthersKeep
    <2>3. ConnInv(d)'  BY DEF IInv, ConnInv
    <2>4. Len(errChannel[d]) \in Nat /\ shaker'[d] = "sent"
      BY <2>0 DEF TypeOK
    <2>5. Len(errChannel'[d]) <= Sent(timer'[d]) + Sent(shaker'[d])
      BY <2>0, <2>4, SendFacts DEF IInv, ChannelInv
    <2>6. ChannelInv(d)'
      BY <2>0, <2>5, SendFacts DEF IInv, ChannelInv
    <2> QED  BY <2>1, <2>2, <2>3, <2>6, OneCall
  <1>6. ASSUME NEW d \in Dials, Receive(d)  PROVE IInv'
    <2> USE <1>6 DEF Receive
    <2> DEFINE ch == errChannel[d]
    <2>1. ch \in Seq(Results) /\ ch # <<>> /\ Len(ch) \in Nat
      BY DEF IInv, TypeOK
    <2>2. /\ errChannel'[d] = Tail(ch)
          /\ Len(Tail(ch)) = Len(ch) - 1
          /\ Tail(ch) \in Seq(Results)
          /\ \A i \in 1 .. Len(Tail(ch)) : Tail(ch)[i] = ch[i + 1]
      BY <2>1 DEF IInv, TypeOK
    <2>3. Head(ch) = ch[1] /\ 1 \in 1 .. Len(ch)
      BY <2>1
    <2>4. ch[1] = "nil" => verified[d]
      BY <2>3 DEF IInv, ChannelInv
    <2>5. /\ ch[1] = "nil" => caller'[d] = "ok" /\ rawConn'[d] = rawConn[d]
          /\ ch[1] # "nil" => caller'[d] = "err" /\ rawConn'[d] = "closed"
          /\ rawConn[d] = "open"
      BY <2>3 DEF IInv, TypeOK, ConnInv
    <2>6. OthersKeep(d)
      BY DEF IInv, TypeOK, OthersKeep
    <2>7. TypeOK'
      <3>1. errChannel' \in [Dials -> Seq(Results)]
        BY <2>2 DEF IInv, TypeOK
      <3>2. \A e \in Dials : Len(errChannel'[e]) <= ChannelSize
        BY <2>1, <2>2, <2>6 DEF IInv, TypeOK, OthersKeep
      <3>3. /\ caller' \in [Dials -> {"dial", "receive", "ok", "err"}]
            /\ rawConn' \in [Dials -> {"none", "open", "closed"}]
        BY DEF IInv, TypeOK
      <3> QED  BY <2>5, <2>6, <3>1, <3>2, <3>3 DEF IInv, TypeOK, OthersKeep
    <2>8. ConnInv(d)'  BY <2>4, <2>5 DEF IInv, ConnInv
    <2>9. ChannelInv(d)'
      <3>1. \A i \in 1 .. Len(Tail(ch)) : i + 1 \in 1 .. Len(ch)
        BY <2>1, <2>2
      <3> QED  BY <2>1, <2>2, <3>1 DEF IInv, ChannelInv
    <2> QED  BY <2>6, <2>7, <2>8, <2>9, OneCall
  <1>7. CASE UNCHANGED vars
    BY <1>7 DEF vars, IInv, TypeOK, ConnInv, ChannelInv
  <1> QED
    BY <1>1, <1>2, <1>3, <1>4, <1>5, <1>6, <1>7 DEF Next, Dial, Handshake

(* The inductive invariant holds in every reachable state. *)
THEOREM DialerInvariance == Spec => []IInv
    BY DialerInit, DialerStep, PTL DEF Spec

-----------------------------------------------------------------------------
(* The variables have their types, and the channel holds at most its two   *)
(* results (dialer.go:65).                                                 *)
THEOREM DialerTypeCorrect == Spec => []TypeOK
  <1>1. IInv => TypeOK  BY DEF IInv
  <1> QED  BY <1>1, DialerInvariance, PTL

(* Whatever timer and handshake do, a caller gets a verified and open      *)
(* connection or an error and nothing open (dialer.go:80-87).              *)
THEOREM DialResultCorrect == Spec => []ResultMatchesConnection
  <1>1. IInv => ResultMatchesConnection
    BY DEF IInv, ConnInv, ResultMatchesConnection
  <1> QED  BY <1>1, DialerInvariance, PTL

(* A channel of two is large enough for the timer and the handshake to     *)
(* send at any time, also after the caller has gone (dialer.go:65-78).     *)
THEOREM ChannelIsLargeEnough == Spec => []SendsNeverBlock
  <1>1. IInv => SendsNeverBlock
    <2> SUFFICES ASSUME IInv, NEW d \in Dials,
                        timer[d] = "armed" \/ shaker[d] = "running"
                 PROVE  Len(errChannel[d]) < ChannelSize
      BY DEF SendsNeverBlock
    <2>1. Len(errChannel[d]) \in Nat  BY DEF IInv, TypeOK
    <2>2. Sent(timer[d]) + Sent(shaker[d]) < 2  BY DEF Sent
    <2>3. Sent(timer[d]) + Sent(shaker[d]) \in Nat  BY DEF Sent
    <2> QED  BY <2>1, <2>2, <2>3 DEF IInv, ChannelInv, ChannelSize
  <1> QED  BY <1>1, DialerInvariance, PTL

-----------------------------------------------------------------------------
(* Until a call takes its result, all that was sent is in its channel. *)
NothingTaken(d) ==
    caller[d] \in {"dial", "receive"}
        => Len(errChannel[d]) = Sent(timer[d]) + Sent(shaker[d])

AccountInv == \A d \in Dials : NothingTaken(d)

(* Each of the two sends adds one result, and a Receive ends the call. *)
LEMMA AccountStep ==
    ASSUME IInv, AccountInv, [Next]_vars PROVE AccountInv'
  <1> USE DEF Sent
  <1>1. ASSUME NEW d \in Dials, OthersKeep(d), NothingTaken(d)'
        PROVE  AccountInv'
    BY <1>1 DEF AccountInv, NothingTaken, OthersKeep
  <1>2. ASSUME NEW d \in Dials, DialError(d)  PROVE AccountInv'
    <2>1. OthersKeep(d) /\ NothingTaken(d)'
      BY <1>2 DEF DialError, IInv, TypeOK, OthersKeep, NothingTaken
    <2> QED  BY <1>1, <2>1
  <1>3. ASSUME NEW d \in Dials, DialOk(d)  PROVE AccountInv'
    <2>1. OthersKeep(d)  BY <1>3 DEF DialOk, IInv, TypeOK, OthersKeep
    <2>2. caller[d] = "dial" /\ shaker[d] = "none" /\ shaker'[d] = "running"
      BY <1>3 DEF DialOk, IInv, TypeOK, ConnInv
    <2>3. NothingTaken(d)'
      BY <1>3, <2>2 DEF DialOk, AccountInv, NothingTaken
    <2> QED  BY <1>1, <2>1, <2>3
  <1>4. ASSUME NEW d \in Dials, NEW result \in Results, Send(d, result),
               UNCHANGED caller,
               Sent(timer'[d]) + Sent(shaker'[d])
                   = Sent(timer[d]) + Sent(shaker[d]) + 1
        PROVE  NothingTaken(d)'
    <2>1. Len(errChannel'[d]) = Len(errChannel[d]) + 1
      BY <1>4, SendFacts DEF IInv
    <2> QED  BY <1>4, <2>1 DEF AccountInv, NothingTaken
  <1>5. ASSUME NEW d \in Dials, TimerFires(d)  PROVE AccountInv'
    <2>1. Send(d, "timeout") /\ "timeout" \in Results /\ TypeOK
      BY <1>5 DEF TimerFires, IInv, Results
    <2>2. OthersKeep(d)
      BY <1>5, <2>1, SendFacts DEF TimerFires, TypeOK, OthersKeep
    <2>3. /\ UNCHANGED caller
          /\ timer[d] = "armed" /\ timer'[d] = "sent" /\ shaker' = shaker
      BY <1>5, <2>1 DEF TimerFires, TypeOK
    <2>4. NothingTaken(d)'  BY <1>4, <2>1, <2>3
    <2> QED  BY <1>1, <2>2, <2>4
  <1>6. ASSUME NEW d \in Dials, Handshake(d)  PROVE AccountInv'
    <2>1. PICK result \in Results : Send(d, result)
      BY <1>6 DEF Handshake, HandshakeOk, HandshakeError, Results
    <2>2. OthersKeep(d)
      BY <1>6, <2>1, SendFacts
         DEF Handshake, HandshakeOk, HandshakeError, IInv, TypeOK, OthersKeep
    <2>3. /\ UNCHANGED caller
          /\ shaker[d] = "running" /\ shaker'[d] = "sent" /\ timer' = timer
      BY <1>6 DEF Handshake, HandshakeOk, HandshakeError, IInv, TypeOK
    <2>4. NothingTaken(d)'  BY <1>4, <2>1, <2>3
    <2> QED  BY <1>1, <2>2, <2>4
  <1>7. ASSUME NEW d \in Dials, Receive(d)  PROVE AccountInv'
    <2>1. OthersKeep(d)  BY <1>7 DEF Receive, IInv, TypeOK, OthersKeep
    <2>2. caller'[d] \in {"ok", "err"}  BY <1>7 DEF Receive, IInv, TypeOK
    <2> QED  BY <1>1, <2>1, <2>2 DEF NothingTaken
  <1>8. CASE UNCHANGED vars
    BY <1>8 DEF vars, AccountInv, NothingTaken
  <1> QED
    BY <1>2, <1>3, <1>5, <1>6, <1>7, <1>8 DEF Next, Dial

ReceiveIsServed ==
    \A d \in Dials :
        caller[d] = "receive" => timer[d] = "armed" \/ errChannel[d] # <<>>

(* A caller never waits for a result that nobody will send: while it is at *)
(* the receive, one is in its channel or its timer has yet to fire. This   *)
(* is what makes the timeout end a call (dialer.go:66-70, 80).             *)
THEOREM ReceiveNeverStarves == Spec => []ReceiveIsServed
  <1>1. Init => AccountInv
    BY DEF Init, AccountInv, NothingTaken, Sent
  <1>2. IInv /\ AccountInv => ReceiveIsServed
    <2> SUFFICES ASSUME IInv, AccountInv, NEW d \in Dials,
                        caller[d] = "receive", timer[d] # "armed"
                 PROVE  errChannel[d] # <<>>
      BY DEF ReceiveIsServed
    <2>1. timer[d] = "sent"  BY DEF IInv, TypeOK
    <2>2. Len(errChannel[d]) = 1 + Sent(shaker[d])
      BY <2>1 DEF AccountInv, NothingTaken, Sent
    <2>3. Len(errChannel[d]) # 0  BY <2>2 DEF Sent
    <2> QED  BY <2>3
  <1> QED
    BY <1>1, <1>2, AccountStep, DialerInvariance, PTL DEF Spec

=============================================================================

------------------------- MODULE UdpConnProxyProofs -------------------------
(***************************************************************************)
(* Theorems about UdpConnProxy, for every number of calls, every size of   *)
(* the sequence space and every channel capacity.  The inductive invariant *)
(* adds to CallInv what the event loop knows while it is blocked on a send *)
(* and where the replies on their way come from.                           *)
(***************************************************************************)
EXTENDS UdpConnProxy, RemoteCallProofs

\* Blocked on a send, the event loop holds a call that waits under the
\* sequence number of the reply.
LoopInv ==
    /\ loop.at = "send" => loop.call \in Calls
    /\ loop.at = "reply" => /\ loop.call \in Calls
                            /\ loop.rsp \in Calls
                            /\ SeqOf(loop.rsp) = SeqOf(loop.call)
                            /\ reqMap[SeqOf(loop.call)] = loop.call

\* Packages are those of calls that have started; replies are to requests the
\* server has received.
OriginInv ==
    /\ loop.at = "send" => pc[loop.call] # "idle"
    /\ \A i \in 1 .. Len(sendChan) : pc[sendChan[i]] # "idle"
    /\ \A i \in 1 .. Len(recvChan) : recvChan[i] \in wire \union {None}
    /\ loop.at = "reply" => loop.rsp \in wire
    /\ \A n \in Calls : rspChan[n] # None => rspChan[n] \in wire

IInv == TypeOK /\ CallInv /\ LoopInv /\ OriginInv

-----------------------------------------------------------------------------
LEMMA InitIInv == Init => IInv
  <1> SUFFICES ASSUME Init PROVE IInv
    OBVIOUS
  <1>1. CallInv
    BY InitCallInv DEF Init
  <1>2. TypeOK
    BY <1>1 DEF CallInv, Init, TypeOK, AtSelect, LoopStates
  <1>3. LoopInv
    BY DEF Init, LoopInv, AtSelect
  <1>4. OriginInv
    BY DEF Init, InitCalls, OriginInv, AtSelect
  <1> QED
    BY <1>1, <1>2, <1>3, <1>4 DEF IInv

LEMMA CallerIInv == ASSUME IInv, Callers, UNCHANGED netVars PROVE IInv'
  <1> USE DEF IInv, netVars
  <1>1. CallInv'
    BY CallersStep
  <1>2. TypeOK'
    BY <1>1 DEF CallInv, TypeOK
  <1>3. LoopInv'
    BY CallersFacts DEF LoopInv
  <1>4. OriginInv'
    <2>1. /\ loop.at = "send" => pc'[loop.call] # "idle"
          /\ \A i \in 1 .. Len(sendChan) : pc'[sendChan[i]] # "idle"
      BY CallersFacts DEF OriginInv, LoopInv, TypeOK
    <2>2. \A n \in Calls : rspChan'[n] # None => rspChan'[n] \in wire
      BY CallersFacts DEF OriginInv
    <2> QED
      BY <2>1, <2>2 DEF OriginInv
  <1> QED
    BY <1>1, <1>2, <1>3, <1>4

LEMMA LoopCancelIInv == ASSUME IInv, LoopCancel PROVE IInv'
  <1> USE DEF IInv, LoopCancel, netVars
  <1>1. CallInv'
    BY TakeCancelStep
  <1>2. TypeOK'
    BY <1>1 DEF CallInv, TypeOK
  <1>3. LoopInv'
    BY DEF LoopInv, AtSelect
  <1>4. OriginInv'
    BY DEF OriginInv, AtSelect, TakeCancel
  <1> QED
    BY <1>1, <1>2, <1>3, <1>4

LEMMA LoopRequestIInv == ASSUME IInv, LoopRequest PROVE IInv'
  <1> USE DEF IInv, LoopRequest
  <1>1. CallInv'
    BY TakeRequestStep
  <1>2. Head(reqChan).call \in Calls /\ pc[Head(reqChan).call] # "idle"
    BY DequeueFacts DEF CallInv, TakeRequest, ChanInv, Outstanding
  <1>3. loop'.at = "send" /\ loop'.call = Head(reqChan).call /\ loop' \in LoopStates
    BY <1>2 DEF AtSelect, LoopStates
  <1>4. TypeOK'
    BY <1>1, <1>3 DEF CallInv, TypeOK
  <1>5. LoopInv'
    BY <1>2, <1>3 DEF LoopInv
  <1>6. OriginInv'
    BY <1>2, <1>3 DEF OriginInv, TakeRequest
  <1> QED
    BY <1>1, <1>4, <1>5, <1>6

LEMMA LoopSendIInv == ASSUME IInv, LoopSend PROVE IInv'
  <1> USE DEF IInv, LoopSend
  <1>1. CallInv'
    BY StutterStep
  <1>2. loop.call \in Calls /\ sendChan \in Seq(Calls)
    BY DEF LoopInv, TypeOK
  <1>3. TypeOK'
    BY <1>1, <1>2, AppendFacts DEF CallInv, TypeOK, AtSelect, LoopStates
  <1>4. LoopInv'
    BY DEF LoopInv, AtSelect
  <1>5. OriginInv'
    BY <1>2, AppendFacts DEF OriginInv, AtSelect, callVars
  <1> QED
    BY <1>1, <1>3, <1>4, <1>5

\* Receiving from recvChan.
LEMMA RecvFacts ==
  ASSUME IInv, recvChan # <<>>
  PROVE  /\ Tail(recvChan) \in Seq(Calls \union {None})
         /\ Head(recvChan) \in wire \union {None}
         /\ \A i \in 1 .. Len(Tail(recvChan)) : Tail(recvChan)[i] \in wire \union {None}
  <1>1. recvChan \in Seq(Calls \union {None})
    BY DEF IInv, TypeOK
  <1>2. Head(recvChan) = recvChan[1] /\ 1 \in 1 .. Len(recvChan)
    BY <1>1, TailFacts
  <1> QED
    BY <1>1, <1>2, TailFacts DEF IInv, OriginInv

LEMMA LoopDropIInv == ASSUME IInv, LoopDrop PROVE IInv'
  <1> USE DEF IInv, LoopDrop
  <1>1. CallInv'
    BY StutterStep
  <1>2. TypeOK'
    BY <1>1, RecvFacts DEF CallInv, TypeOK
  <1>3. LoopInv'
    BY DEF LoopInv, AtSelect
  <1>4. OriginInv'
    BY RecvFacts DEF OriginInv, AtSelect, callVars
  <1> QED
    BY <1>1, <1>2, <1>3, <1>4

LEMMA LoopMatchIInv == ASSUME IInv, LoopMatch PROVE IInv'
  <1> USE DEF IInv, LoopMatch
  <1> DEFINE rsp == Head(recvChan)
             n   == WaitingFor(rsp)
  <1>1. CallInv'
    BY StutterStep
  <1>2. rsp \in Calls /\ rsp \in wire
    BY RecvFacts DEF WaitingFor, TypeOK
  <1>3. SeqOf(rsp) \in Seqs /\ n = reqMap[SeqOf(rsp)] /\ n # None
    BY <1>2, SeqOfType DEF WaitingFor, Calls, None
  <1>4. n \in Calls /\ SeqOf(rsp) = SeqOf(n) /\ reqMap[SeqOf(n)] = n
    BY <1>3 DEF CallInv, TypeOKCalls, MapInv
  <1>5. loop' \in LoopStates /\ loop'.at = "reply" /\ loop'.call = n /\ loop'.rsp = rsp
    BY <1>2, <1>4 DEF LoopStates
  <1>6. TypeOK'
    BY <1>1, <1>5, RecvFacts DEF CallInv, TypeOK
  <1>7. LoopInv'
    BY <1>2, <1>4, <1>5 DEF LoopInv, callVars
  <1>8. OriginInv'
    BY <1>2, <1>5, RecvFacts DEF OriginInv, callVars
  <1> QED
    BY <1>1, <1>6, <1>7, <1>8

LEMMA LoopReplyIInv == ASSUME IInv, LoopReply PROVE IInv'
  <1> USE DEF IInv, LoopReply
  <1>1. CallInv'
    BY PutReplyStep DEF LoopInv
  <1>2. TypeOK'
    BY <1>1 DEF CallInv, TypeOK, AtSelect, LoopStates
  <1>3. LoopInv'
    BY DEF LoopInv, AtSelect
  <1>4. OriginInv'
    BY DEF OriginInv, AtSelect, PutReply, CallInv, TypeOKCalls, LoopInv
  <1> QED
    BY <1>1, <1>2, <1>3, <1>4

LEMMA SendHandlerIInv == ASSUME IInv, SendHandler PROVE IInv'
  <1> USE DEF IInv, SendHandler
  <1>1. CallInv'
    BY StutterStep
  <1>2. /\ sendChan \in Seq(Calls) /\ sendChan' \in Seq(Calls) /\ Head(sendChan) \in Calls
        /\ \A i \in 1 .. Len(sendChan') :
             i + 1 \in 1 .. Len(sendChan) /\ sendChan'[i] = sendChan[i + 1]
    BY TailFacts DEF TypeOK
  <1>3. TypeOK'
    BY <1>1, <1>2 DEF CallInv, TypeOK
  <1>4. LoopInv'
    BY DEF LoopInv, callVars
  <1>5. OriginInv'
    BY <1>2 DEF OriginInv, callVars
  <1> QED
    BY <1>1, <1>3, <1>4, <1>5

LEMMA RecvHandlerIInv == ASSUME IInv, RecvHandler PROVE IInv'
  <1> USE DEF IInv, RecvHandler
  <1>1. CallInv'
    BY StutterStep
  <1>2. PICK rsp \in wire \union {None} : recvChan' = Append(recvChan, rsp)
    OBVIOUS
  <1>3. recvChan \in Seq(Calls \union {None}) /\ rsp \in Calls \union {None}
    BY DEF TypeOK
  <1>4. TypeOK'
    BY <1>1, <1>2, <1>3, AppendFacts DEF CallInv, TypeOK
  <1>5. LoopInv'
    BY DEF LoopInv, callVars
  <1>6. \A i \in 1 .. Len(recvChan') : recvChan'[i] \in wire \union {None}
    BY <1>2, <1>3, AppendFacts DEF OriginInv
  <1>7. OriginInv'
    BY <1>6 DEF OriginInv, callVars
  <1> QED
    BY <1>1, <1>4, <1>5, <1>7

\* IInv is inductive.
LEMMA NextIInv == ASSUME IInv, [Next]_vars PROVE IInv'
  <1>1. CASE UNCHANGED vars
    <2>1. CallInv'
      BY <1>1, StutterStep DEF IInv, vars
    <2> QED
      BY <1>1, <2>1 DEF IInv, vars, callVars, netVars, TypeOK, CallInv, LoopInv, OriginInv
  <1>2. CASE Callers /\ UNCHANGED netVars
    BY <1>2, CallerIInv
  <1>3. CASE EventLoop
    BY <1>3, LoopCancelIInv, LoopRequestIInv, LoopSendIInv, LoopDropIInv,
       LoopMatchIInv, LoopReplyIInv DEF EventLoop
  <1>4. CASE SendHandler \/ RecvHandler
    BY <1>4, SendHandlerIInv, RecvHandlerIInv
  <1> QED
    BY <1>1, <1>2, <1>3, <1>4 DEF Next

LEMMA SpecIInv == SafeSpec => []IInv
  BY InitIInv, NextIInv, PTL DEF SafeSpec

-----------------------------------------------------------------------------
\* Every variable keeps its type (UDPConnMgr, RequestToRemote).
THEOREM UdpTypeOK == SafeSpec => []TypeOK
  <1>1. IInv => TypeOK
    BY DEF IInv
  <1> QED
    BY <1>1, SpecIInv, PTL

\* The event loop never stands still before a RspChan (udpConnStart, line
\* 254), whatever is duplicated or late and even if sequence numbers wrap.
THEOREM UdpRspSlotFree == SafeSpec => []RspSlotFree
  <1>1. IInv => RspSlotFree
    BY SeqOfType DEF IInv, CallInv, LoopInv, MapInv, RspSlotFree, Calls, None
  <1> QED
    BY <1>1, SpecIInv, PTL

\* A timed-out call does not stay in reqMap: its cancel is behind its request
\* (RequestToRemote, line 95), even if sequence numbers wrap.
THEOREM UdpNoOrphan == SafeSpec => []NoOrphan
  <1>1. IInv => NoOrphan
    BY DEF IInv, CallInv
  <1> QED
    BY <1>1, SpecIInv, PTL

\* A reply always has the sequence number of the call it is given to.
THEOREM UdpSameSeqReply == SafeSpec => []SameSeqReply
  <1>1. IInv => SameSeqReply
    BY DEF IInv, CallInv
  <1> QED
    BY <1>1, SpecIInv, PTL

\* Until the 32-bit counter wraps, a call returns its own reply or none.
THEOREM UdpOwnReply == ASSUME NoWrap PROVE SafeSpec => []OwnReply
  <1>1. IInv => OwnReply
    BY NoWrap, SeqOfExact DEF IInv, CallInv, TypeOKCalls, SameSeqReply, OwnReply
  <1> QED
    BY <1>1, SpecIInv, PTL

\* Only the caller of a call makes the event loop forget it unanswered: no
\* cancel of another call removes its entry (line 237) and no other request
\* replaces it (line 240), until the counter wraps.
THEOREM UdpKeepsWaiters == ASSUME NoWrap PROVE SafeSpec => KeepsWaiters
  <1>1. ASSUME IInv, [Next]_vars PROVE [KeepsWaiting]_callVars
    BY <1>1, NoWrap, KeepCallers, KeepTakeCancel, KeepTakeRequest, KeepPutReply
    DEF IInv, LoopInv, Next, EventLoop, LoopCancel, LoopRequest, LoopSend, LoopDrop,
        LoopMatch, LoopReply, SendHandler, RecvHandler, vars
  <1> QED
    BY <1>1, SpecIInv, PTL DEF SafeSpec, KeepsWaiters

-----------------------------------------------------------------------------
\* Every step of a caller is a step of the service, or none.
LEMMA CallerRefines ==
  ASSUME NoWrap, IInv, Callers, UNCHANGED netVars PROVE [Rpc!Next]_Rpc!vars
  <1>1. \A n \in Calls : rspChan[n] # None => rspChan[n] \in wire
    BY DEF IInv, OriginInv
  <1>2. wire' = wire
    BY DEF netVars
  <1>3. CASE UNCHANGED <<AbsStatus, AbsReply>>
    BY <1>2, <1>3 DEF Rpc!vars
  <1>4. ASSUME NEW n \in Calls, CallerIssues(n) PROVE Rpc!Issue(n)
    BY <1>2, <1>4 DEF CallerIssues, Rpc!Issue
  <1>5. ASSUME NEW n \in Calls, CallerAnswers(n) PROVE Rpc!Answer(n)
    BY <1>1, <1>2, <1>5 DEF CallerAnswers, Rpc!Answer, Calls, None
  <1>6. ASSUME NEW n \in Calls, CallerExpires(n) PROVE Rpc!Expire(n)
    BY <1>2, <1>6 DEF CallerExpires, Rpc!Expire
  <1> QED
    BY <1>3, <1>4, <1>5, <1>6, NoWrap, CallerView DEF IInv, Rpc!Next, Rpc!Return

\* A package written is a request served; everything else is internal.
LEMMA NetRefines ==
  ASSUME IInv, EventLoop \/ SendHandler \/ RecvHandler PROVE [Rpc!Next]_Rpc!vars
  <1>1. UNCHANGED <<AbsStatus, AbsReply>>
    BY AbstractStutter
    DEF EventLoop, LoopCancel, LoopRequest, LoopSend, LoopDrop, LoopMatch, LoopReply,
        TakeCancel, TakeRequest, PutReply, SendHandler, RecvHandler, callVars
  <1>2. CASE wire' = wire
    BY <1>1, <1>2 DEF Rpc!vars
  <1>3. CASE SendHandler /\ wire' = wire \union {Head(sendChan)}
    <2>1. Head(sendChan) \in Calls /\ pc[Head(sendChan)] # "idle"
      <3>1. Head(sendChan) = sendChan[1] /\ Head(sendChan) \in Calls /\ 1 \in 1 .. Len(sendChan)
        BY <1>3, TailFacts DEF SendHandler, IInv, TypeOK
      <3> QED
        BY <3>1 DEF IInv, OriginInv
    <2>2. AbsStatus[Head(sendChan)] # "idle"
      BY <2>1 DEF AbsStatus, StatusOf
    <2>3. Rpc!Serve(Head(sendChan))
      BY <1>1, <1>3, <2>2 DEF Rpc!Serve
    <2> QED
      BY <2>1, <2>3 DEF Rpc!Next
  <1> QED
    BY <1>2, <1>3
    DEF EventLoop, LoopCancel, LoopRequest, LoopSend, LoopDrop, LoopMatch, LoopReply,
        SendHandler, RecvHandler, netVars

\* Safety half of ImplementsRpc: until the counter wraps, the proxy does only
\* what the abstract service may do.
THEOREM UdpImplementsRpc == ASSUME NoWrap PROVE SafeSpec => Rpc!SafeSpec
  <1>1. Init => Rpc!Init
    BY AbstractInit DEF Init, Rpc!Init
  <1>2. ASSUME IInv, [Next]_vars PROVE [Rpc!Next]_Rpc!vars
    <2>1. CASE UNCHANGED vars
      BY <2>1, AbstractStutter DEF vars, callVars, netVars, Rpc!vars
    <2>2. CASE Next
      BY <1>2, <2>2, NoWrap, CallerRefines, NetRefines DEF Next
    <2> QED
      BY <1>2, <2>1, <2>2
  <1> QED
    BY <1>1, <1>2, SpecIInv, PTL DEF SafeSpec, Rpc!SafeSpec
=============================================================================

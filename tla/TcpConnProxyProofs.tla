------------------------- MODULE TcpConnProxyProofs -------------------------
(***************************************************************************)
(* Theorems about TcpConnProxy, for every number of calls, every size of   *)
(* the sequence space, every channel capacity and every socket buffer.     *)
(* The inductive invariant adds to CallInv what the event loop knows while *)
(* it is blocked, where the replies on their way come from, and how the    *)
(* handlers and the connection they close depend on each other.            *)
(***************************************************************************)
EXTENDS TcpConnProxy, RemoteCallProofs

LoopInv ==
    /\ loop.at = "send" => loop.call \in Calls
    /\ loop.at = "reply" => /\ loop.call \in Calls
                            /\ loop.rsp \in Calls
                            /\ SeqOf(loop.rsp) = SeqOf(loop.call)
                            /\ reqMap[SeqOf(loop.call)] = loop.call

\* Packages belong to calls that have started ...
PackageInv ==
    /\ loop.at = "send" => pc[loop.call] # "idle"
    /\ \A i \in 1 .. Len(sendChan) : pc[sendChan[i]] # "idle"
    /\ \A i \in 1 .. Len(out) : pc[out[i]] # "idle"

\* ... and replies to requests the server has read.
ReplyInv ==
    /\ \A i \in 1 .. Len(in) : in[i] \in served
    /\ readBatch \subseteq served
    /\ \A i \in 1 .. Len(recvChan) : recvChan[i] \subseteq served
    /\ loop.batch \subseteq served
    /\ loop.at = "reply" => loop.rsp \in served
    /\ \A n \in Calls : rspChan[n] # None => rspChan[n] \in served

\* The handlers run from LoopStart on; the connection is closed by the first
\* of them to leave and stays closed.
ConnInv ==
    /\ loop.at = "start" => sender = "off" /\ receiver = "off" /\ pauseConn = "open"
    /\ closed = 0 => pauseConn = "open" /\ sender = "running" /\ receiver = "running"
    /\ loop.at # "start" /\ closed = -1 => pauseConn = "closed"
    /\ sender = "done" \/ receiver = "done" => closed = -1 /\ loop.at # "start"
    /\ pauseConn # "panic"

IInv == TypeOK /\ CallInv /\ LoopInv /\ PackageInv /\ ReplyInv /\ ConnInv

-----------------------------------------------------------------------------
LEMMA InitIInv == Init => IInv
  <1> SUFFICES ASSUME Init PROVE IInv
    OBVIOUS
  <1>1. CallInv
    BY InitCallInv DEF Init
  <1>2. TypeOK
    BY <1>1 DEF CallInv, Init, TypeOK, At, LoopStates, SRV_STATUS_OK, SRV_STATUS_RECONNECT
  <1>3. LoopInv /\ PackageInv /\ ConnInv
    BY DEF Init, LoopInv, PackageInv, ConnInv, At
  <1>4. ReplyInv
    BY DEF Init, InitCalls, ReplyInv, At
  <1> QED
    BY <1>1, <1>2, <1>3, <1>4 DEF IInv

\* The places of the event loop are what they look like.
LEMMA LoopFacts ==
  /\ \A b : NextInBatch(b).at \in {"select", "batch"} /\ NextInBatch(b).batch = b
  /\ \A b \in SUBSET Calls : NextInBatch(b) \in LoopStates
  /\ AtSelect.at = "select" /\ AtSelect.batch = {} /\ AtSelect \in LoopStates
  BY DEF NextInBatch, AtSelect, At, LoopStates

LEMMA CallerIInv == ASSUME IInv, Caller PROVE IInv'
  <1> USE DEF IInv, Caller, procVars, connVars, peerVars
  <1>0. Callers
    BY DEF Callers
  <1>1. CallInv'
    BY <1>0, CallersStep
  <1>2. TypeOK'
    BY <1>1 DEF CallInv, TypeOK
  <1>3. LoopInv' /\ ConnInv'
    BY <1>0, CallersFacts DEF LoopInv, ConnInv
  <1>4. PackageInv'
    <2>1. \A i \in 1 .. Len(sendChan) : sendChan[i] \in Calls
      BY DEF TypeOK
    <2>2. \A i \in 1 .. Len(out) : out[i] \in Calls
      BY DEF TypeOK
    <2>3. \A n \in Calls : pc[n] # "idle" => pc'[n] # "idle"
      BY <1>0, CallersFacts
    <2> QED
      BY <2>1, <2>2, <2>3 DEF PackageInv, LoopInv
  <1>5. ReplyInv'
    BY <1>0, CallersFacts DEF ReplyInv
  <1> QED
    BY <1>1, <1>2, <1>3, <1>4, <1>5

LEMMA LoopStartIInv == ASSUME IInv, LoopStart PROVE IInv'
  <1> USE DEF IInv, LoopStart
  <1>1. CallInv'
    BY StutterStep
  <1>2. loop.at = "start" /\ loop'.at = "select" /\ loop'.batch = {} /\ loop' \in LoopStates
    BY LoopFacts DEF At
  <1>3. TypeOK'
    BY <1>1, <1>2 DEF CallInv, TypeOK, peerVars
  <1>4. LoopInv' /\ ConnInv'
    BY <1>2 DEF LoopInv, ConnInv
  <1>5. PackageInv' /\ ReplyInv'
    BY <1>2 DEF PackageInv, ReplyInv, peerVars, callVars
  <1> QED
    BY <1>1, <1>3, <1>4, <1>5

LEMMA LoopCancelIInv == ASSUME IInv, LoopCancel PROVE IInv'
  <1> USE DEF IInv, LoopCancel, procVars, connVars, peerVars
  <1>1. CallInv'
    BY TakeCancelStep
  <1>2. TypeOK'
    BY <1>1 DEF CallInv, TypeOK
  <1>3. LoopInv' /\ ConnInv'
    BY LoopFacts DEF LoopInv, ConnInv
  <1>4. PackageInv' /\ ReplyInv'
    BY LoopFacts DEF PackageInv, ReplyInv, TakeCancel
  <1> QED
    BY <1>1, <1>2, <1>3, <1>4

LEMMA LoopRequestIInv == ASSUME IInv, LoopRequest PROVE IInv'
  <1> USE DEF IInv, LoopRequest, connVars, peerVars
  <1>1. CallInv'
    BY TakeRequestStep
  <1>2. Head(reqChan).call \in Calls /\ pc[Head(reqChan).call] # "idle"
    BY DequeueFacts DEF CallInv, TakeRequest, ChanInv, Outstanding
  <1>3. /\ loop'.at = "send" /\ loop'.call = Head(reqChan).call /\ loop'.batch = {}
        /\ loop' \in LoopStates
    BY <1>2 DEF At, LoopStates
  <1>4. TypeOK'
    BY <1>1, <1>3 DEF CallInv, TypeOK
  <1>5. LoopInv' /\ ConnInv'
    BY <1>2, <1>3, LoopFacts DEF LoopInv, ConnInv
  <1>6. PackageInv' /\ ReplyInv'
    BY <1>2, <1>3 DEF PackageInv, ReplyInv, TakeRequest
  <1> QED
    BY <1>1, <1>4, <1>5, <1>6

LEMMA LoopSendIInv == ASSUME IInv, LoopSend PROVE IInv'
  <1> USE DEF IInv, LoopSend, connVars, peerVars
  <1>1. CallInv'
    BY StutterStep
  <1>2. loop.call \in Calls /\ sendChan \in Seq(Calls)
    BY DEF LoopInv, TypeOK
  <1>3. TypeOK'
    BY <1>1, <1>2, AppendFacts, LoopFacts DEF CallInv, TypeOK
  <1>4. LoopInv' /\ ConnInv'
    BY LoopFacts DEF LoopInv, ConnInv
  <1>5. \A i \in 1 .. Len(sendChan') : pc[sendChan'[i]] # "idle"
    BY <1>2, AppendFacts DEF PackageInv
  <1>6. PackageInv' /\ ReplyInv'
    BY <1>5, LoopFacts DEF PackageInv, ReplyInv, callVars
  <1> QED
    BY <1>1, <1>3, <1>4, <1>6

LEMMA LoopBatchIInv == ASSUME IInv, LoopBatch PROVE IInv'
  <1> USE DEF IInv, LoopBatch, connVars, peerVars
  <1>1. CallInv'
    BY StutterStep
  <1>2. /\ recvChan \in Seq(SUBSET Calls) /\ recvChan' \in Seq(SUBSET Calls)
        /\ Head(recvChan) \in SUBSET Calls
        /\ Head(recvChan) = recvChan[1] /\ 1 \in 1 .. Len(recvChan)
        /\ \A i \in 1 .. Len(recvChan') :
             i + 1 \in 1 .. Len(recvChan) /\ recvChan'[i] = recvChan[i + 1]
    BY TailFacts DEF TypeOK
  <1>3. TypeOK'
    BY <1>1, <1>2, LoopFacts DEF CallInv, TypeOK
  <1>4. LoopInv' /\ ConnInv'
    BY LoopFacts DEF LoopInv, ConnInv
  <1>5. PackageInv' /\ ReplyInv'
    BY <1>2, LoopFacts DEF PackageInv, ReplyInv, callVars
  <1> QED
    BY <1>1, <1>3, <1>4, <1>5

LEMMA LoopSkipIInv == ASSUME IInv, LoopSkip PROVE IInv'
  <1> USE DEF IInv, LoopSkip, connVars, peerVars
  <1>1. CallInv'
    BY StutterStep
  <1>2. PICK rsp \in loop.batch : loop' = NextInBatch(loop.batch \ {rsp})
    OBVIOUS
  <1>3. loop.batch \in SUBSET Calls /\ loop.at = "batch"
    BY DEF TypeOK, LoopStates
  <1>4. TypeOK'
    BY <1>1, <1>2, <1>3, LoopFacts DEF CallInv, TypeOK
  <1>5. LoopInv' /\ ConnInv'
    BY <1>2, <1>3, LoopFacts DEF LoopInv, ConnInv
  <1>6. PackageInv' /\ ReplyInv'
    BY <1>2, LoopFacts DEF PackageInv, ReplyInv, callVars
  <1> QED
    BY <1>1, <1>4, <1>5, <1>6

LEMMA LoopMatchIInv == ASSUME IInv, LoopMatch PROVE IInv'
  <1> USE DEF IInv, LoopMatch, connVars, peerVars
  <1>1. CallInv'
    BY StutterStep
  <1>2. PICK rsp \in loop.batch :
          /\ reqMap[SeqOf(rsp)] # None
          /\ loop' = [at |-> "reply", call |-> reqMap[SeqOf(rsp)], rsp |-> rsp,
                      batch |-> loop.batch \ {rsp}]
    OBVIOUS
  <1>3. rsp \in Calls /\ loop.batch \subseteq Calls /\ loop.at = "batch"
    BY DEF TypeOK, LoopStates
  <1> DEFINE n == reqMap[SeqOf(rsp)]
  <1>4. n \in Calls /\ SeqOf(rsp) = SeqOf(n) /\ reqMap[SeqOf(n)] = n
    BY <1>2, <1>3, SeqOfType DEF CallInv, TypeOKCalls, MapInv
  <1>5. loop' \in LoopStates
    BY <1>2, <1>3, <1>4 DEF LoopStates
  <1>6. TypeOK'
    BY <1>1, <1>5 DEF CallInv, TypeOK
  <1>7. LoopInv' /\ ConnInv'
    BY <1>2, <1>3, <1>4 DEF LoopInv, ConnInv, callVars
  <1>8. PackageInv' /\ ReplyInv'
    BY <1>2, <1>3 DEF PackageInv, ReplyInv, callVars
  <1> QED
    BY <1>1, <1>6, <1>7, <1>8

LEMMA LoopReplyIInv == ASSUME IInv, LoopReply PROVE IInv'
  <1> USE DEF IInv, LoopReply, connVars, peerVars
  <1>1. CallInv'
    BY PutReplyStep DEF LoopInv
  <1>2. loop.batch \in SUBSET Calls
    BY DEF TypeOK, LoopStates
  <1>3. TypeOK'
    BY <1>1, <1>2, LoopFacts DEF CallInv, TypeOK
  <1>4. LoopInv' /\ ConnInv'
    BY LoopFacts DEF LoopInv, ConnInv
  <1>5. PackageInv'
    BY LoopFacts DEF PackageInv, PutReply
  <1>6. ReplyInv'
    BY LoopFacts DEF ReplyInv, PutReply, CallInv, TypeOKCalls, LoopInv
  <1> QED
    BY <1>1, <1>3, <1>4, <1>5, <1>6

-----------------------------------------------------------------------------
LEMMA SendWriteIInv == ASSUME IInv, SendWrite PROVE IInv'
  <1> USE DEF IInv, SendWrite, connVars
  <1>1. CallInv'
    BY StutterStep
  <1>2. /\ sendChan \in Seq(Calls) /\ sendChan' \in Seq(Calls) /\ Head(sendChan) \in Calls
        /\ Head(sendChan) = sendChan[1] /\ 1 \in 1 .. Len(sendChan)
        /\ \A i \in 1 .. Len(sendChan') :
             i + 1 \in 1 .. Len(sendChan) /\ sendChan'[i] = sendChan[i + 1]
    BY TailFacts DEF TypeOK
  <1>3. /\ out \in Seq(Calls) /\ out' \in Seq(Calls)
        /\ \A i \in 1 .. Len(out') : out'[i] = Head(sendChan) \/ (i \in 1 .. Len(out) /\ out'[i] = out[i])
    BY <1>2, AppendFacts DEF TypeOK
  <1>4. TypeOK'
    BY <1>1, <1>2, <1>3 DEF CallInv, TypeOK
  <1>5. LoopInv' /\ ConnInv'
    BY DEF LoopInv, ConnInv, callVars
  <1>6. PackageInv'
    BY <1>2, <1>3 DEF PackageInv, callVars
  <1>7. ReplyInv'
    BY DEF ReplyInv, callVars
  <1> QED
    BY <1>1, <1>4, <1>5, <1>6, <1>7

LEMMA SendFailIInv == ASSUME IInv, SendFail PROVE IInv'
  <1> USE DEF IInv, SendFail, connVars, peerVars
  <1>1. CallInv'
    BY StutterStep
  <1>2. /\ sendChan \in Seq(Calls) /\ sendChan' \in Seq(Calls)
        /\ \A i \in 1 .. Len(sendChan') :
             i + 1 \in 1 .. Len(sendChan) /\ sendChan'[i] = sendChan[i + 1]
    BY TailFacts DEF TypeOK
  <1>3. TypeOK'
    BY <1>1, <1>2 DEF CallInv, TypeOK
  <1>4. LoopInv' /\ ConnInv'
    BY DEF LoopInv, ConnInv, callVars
  <1>5. PackageInv' /\ ReplyInv'
    BY <1>2 DEF PackageInv, ReplyInv, callVars
  <1> QED
    BY <1>1, <1>3, <1>4, <1>5

\* tcpConnClose closes once, and afterwards the connection is closed.
LEMMA CloseFacts ==
  ASSUME IInv, tcpConnClose, loop.at # "start"
  PROVE  /\ closed' = -1 /\ pauseConn' = "closed"
         /\ srvStatus' \in [info : {SRV_STATUS_OK, SRV_STATUS_RECONNECT},
                            mgr : {SRV_STATUS_OK, SRV_STATUS_RECONNECT}]
  BY DEF IInv, TypeOK, ConnInv, tcpConnClose, connVars

LEMMA SendPauseIInv == ASSUME IInv, SendPause PROVE IInv'
  <1> USE DEF IInv, SendPause, peerVars
  <1>1. CallInv'
    BY StutterStep
  <1>2. loop.at # "start"
    BY DEF ConnInv
  <1>3. TypeOK'
    BY <1>1, <1>2, CloseFacts DEF CallInv, TypeOK
  <1>4. LoopInv' /\ ConnInv'
    BY <1>2, CloseFacts DEF LoopInv, ConnInv, callVars
  <1>5. PackageInv' /\ ReplyInv'
    BY DEF PackageInv, ReplyInv, callVars
  <1> QED
    BY <1>1, <1>3, <1>4, <1>5

LEMMA RecvFailIInv == ASSUME IInv, RecvFail PROVE IInv'
  <1> USE DEF IInv, RecvFail, peerVars
  <1>1. CallInv'
    BY StutterStep
  <1>2. loop.at # "start"
    BY DEF ConnInv
  <1>3. TypeOK'
    BY <1>1, <1>2, CloseFacts DEF CallInv, TypeOK
  <1>4. LoopInv' /\ ConnInv'
    BY <1>2, CloseFacts DEF LoopInv, ConnInv, callVars
  <1>5. PackageInv' /\ ReplyInv'
    BY DEF PackageInv, ReplyInv, callVars
  <1> QED
    BY <1>1, <1>3, <1>4, <1>5

\* Taking a prefix of a stream, and what is left of it.
LEMMA PrefixFacts ==
  ASSUME NEW T, NEW s \in Seq(T), NEW k \in 1 .. Len(s)
  PROVE  /\ SubSeq(s, 1, k) \in Seq(T)
         /\ \A i \in 1 .. Len(SubSeq(s, 1, k)) : i \in 1 .. Len(s) /\ SubSeq(s, 1, k)[i] = s[i]
         /\ SubSeq(s, k + 1, Len(s)) \in Seq(T)
         /\ \A i \in 1 .. Len(SubSeq(s, k + 1, Len(s))) :
               k + i \in 1 .. Len(s) /\ SubSeq(s, k + 1, Len(s))[i] = s[k + i]
  OBVIOUS

LEMMA RecvReadIInv == ASSUME IInv, RecvRead PROVE IInv'
  <1> USE DEF IInv, RecvRead, connVars
  <1>1. CallInv'
    BY StutterStep
  <1>2. PICK k \in 1 .. Len(in) : /\ readBatch' = SeqMap(SubSeq(in, 1, k))
                                  /\ in' = SubSeq(in, k + 1, Len(in))
    OBVIOUS
  <1>3. in \in Seq(Calls) /\ served \in SUBSET Calls
    BY DEF TypeOK
  <1>4. readBatch' \subseteq served
    BY <1>2, <1>3, PrefixFacts DEF SeqMap, ReplyInv
  <1>5. in' \in Seq(Calls) /\ \A i \in 1 .. Len(in') : in'[i] \in served
    BY <1>2, <1>3, PrefixFacts DEF ReplyInv
  <1>6. TypeOK'
    BY <1>1, <1>3, <1>4, <1>5 DEF CallInv, TypeOK
  <1>7. LoopInv' /\ ConnInv'
    BY DEF LoopInv, ConnInv, callVars
  <1>8. PackageInv' /\ ReplyInv'
    BY <1>4, <1>5 DEF PackageInv, ReplyInv, callVars
  <1> QED
    BY <1>1, <1>6, <1>7, <1>8

LEMMA RecvPushIInv == ASSUME IInv, RecvPush PROVE IInv'
  <1> USE DEF IInv, RecvPush, connVars, peerVars
  <1>1. CallInv'
    BY StutterStep
  <1>2. /\ recvChan' \in Seq(SUBSET Calls)
        /\ \A i \in 1 .. Len(recvChan') : recvChan'[i] \subseteq served
    BY AppendFacts DEF TypeOK, ReplyInv
  <1>3. TypeOK'
    BY <1>1, <1>2 DEF CallInv, TypeOK
  <1>4. LoopInv' /\ ConnInv'
    BY DEF LoopInv, ConnInv, callVars
  <1>5. PackageInv' /\ ReplyInv'
    BY <1>2 DEF PackageInv, ReplyInv, callVars
  <1> QED
    BY <1>1, <1>3, <1>4, <1>5

LEMMA ServerIInv == ASSUME IInv, Server PROVE IInv'
  <1> USE DEF IInv, procVars, connVars
  <1>1. CallInv' /\ LoopInv' /\ ConnInv'
    BY StutterStep
    DEF Server, ServerRead, ServerReply, ServerClose, LoopInv, ConnInv, callVars
  <1>2. CASE ServerRead
    <2>1. /\ Head(out) \in Calls /\ out' \in Seq(Calls)
          /\ \A i \in 1 .. Len(out') : i + 1 \in 1 .. Len(out) /\ out'[i] = out[i + 1]
      BY <1>2, TailFacts DEF ServerRead, TypeOK
    <2> QED
      BY <1>1, <1>2, <2>1
      DEF ServerRead, CallInv, TypeOK, PackageInv, ReplyInv, callVars
  <1>3. CASE ServerReply
    <2>1. PICK n \in served : replied' = replied + 1 /\ in' = Append(in, n)
      BY <1>3 DEF ServerReply
    <2>2. in \in Seq(Calls) /\ n \in Calls
      BY DEF TypeOK
    <2>3. in' \in Seq(Calls) /\ \A i \in 1 .. Len(in') : in'[i] \in served
      BY <2>1, <2>2, AppendFacts DEF ReplyInv
    <2>4. TypeOK'
      BY <1>1, <1>3, <2>1, <2>2, <2>3 DEF ServerReply, CallInv, TypeOK
    <2>5. PackageInv' /\ ReplyInv'
      BY <1>3, <2>1, <2>3 DEF ServerReply, PackageInv, ReplyInv, callVars
    <2> QED
      BY <1>1, <2>4, <2>5
  <1>4. CASE ServerClose
    <2>1. TypeOK'
      BY <1>1, <1>4 DEF ServerClose, CallInv, TypeOK
    <2>2. PackageInv' /\ ReplyInv'
      BY <1>4 DEF ServerClose, PackageInv, ReplyInv, callVars
    <2> QED
      BY <1>1, <2>1, <2>2
  <1> QED
    BY <1>2, <1>3, <1>4 DEF Server

\* IInv is inductive.
LEMMA NextIInv == ASSUME IInv, [Next]_vars PROVE IInv'
  <1>1. CASE UNCHANGED vars
    <2>1. CallInv'
      BY <1>1, StutterStep DEF IInv, vars
    <2> QED
      BY <1>1, <2>1 DEF IInv, vars, callVars, procVars, connVars, peerVars, TypeOK, CallInv,
                        LoopInv, PackageInv, ReplyInv, ConnInv
  <1>2. CASE EventLoop
    BY <1>2, LoopStartIInv, LoopCancelIInv, LoopRequestIInv, LoopSendIInv,
       LoopBatchIInv, LoopSkipIInv, LoopMatchIInv, LoopReplyIInv DEF EventLoop
  <1>3. CASE Handlers
    BY <1>3, SendWriteIInv, SendFailIInv, SendPauseIInv, RecvReadIInv, RecvPushIInv,
       RecvFailIInv DEF Handlers
  <1> QED
    BY <1>1, <1>2, <1>3, CallerIInv, ServerIInv DEF Next

LEMMA SpecIInv == SafeSpec => []IInv
  BY InitIInv, NextIInv, PTL DEF SafeSpec

-----------------------------------------------------------------------------
\* Every variable keeps its type (TCPConnMgr, RequestToRemote).
THEOREM TcpTypeOK == SafeSpec => []TypeOK
  <1>1. IInv => TypeOK
    BY DEF IInv
  <1> QED
    BY <1>1, SpecIInv, PTL

\* The event loop never stands still before a RspChan (tcpConnStart, line
\* 401), in the middle of a batch or not, even if sequence numbers wrap.
THEOREM TcpRspSlotFree == SafeSpec => []RspSlotFree
  <1>1. IInv => RspSlotFree
    BY SeqOfType DEF IInv, CallInv, LoopInv, MapInv, RspSlotFree, Calls, None
  <1> QED
    BY <1>1, SpecIInv, PTL

\* A timed-out call does not stay in reqMap as long as the event loop runs: its
\* cancel is behind its request (RequestToRemote, line 95).
THEOREM TcpNoOrphan == SafeSpec => []NoOrphan
  <1>1. IInv => NoOrphan
    BY DEF IInv, CallInv
  <1> QED
    BY <1>1, SpecIInv, PTL

\* Until the 32-bit counter wraps, a call returns its own reply or none.
THEOREM TcpOwnReply == ASSUME NoWrap PROVE SafeSpec => []OwnReply
  <1>1. IInv => OwnReply
    BY NoWrap, SeqOfExact DEF IInv, CallInv, TypeOKCalls, SameSeqReply, OwnReply
  <1> QED
    BY <1>1, SpecIInv, PTL

\* The deferred tcpConnClose of both handlers never close pauseConn twice.
THEOREM TcpClosedOnce == SafeSpec => []ClosedOnce
  <1>1. IInv => ClosedOnce
    BY DEF IInv, ConnInv, ClosedOnce
  <1> QED
    BY <1>1, SpecIInv, PTL

\* A handler that has left has closed the connection for the other one.
THEOREM TcpHandlersLeaveTogether == SafeSpec => []HandlersLeaveTogether
  <1>1. IInv => HandlersLeaveTogether
    BY DEF IInv, ConnInv, HandlersLeaveTogether
  <1> QED
    BY <1>1, SpecIInv, PTL

\* Only the caller of a call makes the event loop forget it unanswered (lines
\* 388, 391 and 402), until the counter wraps.
THEOREM TcpKeepsWaiters == ASSUME NoWrap PROVE SafeSpec => KeepsWaiters
  <1>1. ASSUME IInv, [Next]_vars PROVE [KeepsWaiting]_callVars
    <2>1. CASE Caller
      BY <1>1, <2>1, KeepCallers DEF IInv, Caller, Callers
    <2>2. CASE EventLoop
      BY <1>1, <2>2, NoWrap, KeepTakeCancel, KeepTakeRequest, KeepPutReply
      DEF IInv, LoopInv, EventLoop, LoopStart, LoopCancel, LoopRequest, LoopSend,
          LoopBatch, LoopSkip, LoopMatch, LoopReply
    <2>3. CASE Handlers \/ Server \/ UNCHANGED vars
      BY <2>3 DEF Handlers, SendWrite, SendFail, SendPause, RecvRead, RecvPush, RecvFail,
                  Server, ServerRead, ServerReply, ServerClose, vars
    <2> QED
      BY <1>1, <2>1, <2>2, <2>3 DEF Next
  <1> QED
    BY <1>1, SpecIInv, PTL DEF SafeSpec, KeepsWaiters

-----------------------------------------------------------------------------
\* Every step of a caller is a step of the service, or none.
LEMMA CallerRefines == ASSUME NoWrap, IInv, Caller PROVE [Rpc!Next]_Rpc!vars
  <1>0. Callers /\ CallInv
    BY DEF Caller, Callers, IInv
  <1>1. \A n \in Calls : rspChan[n] # None => rspChan[n] \in served
    BY DEF IInv, ReplyInv
  <1>2. served' = served
    BY DEF Caller, peerVars
  <1>3. CASE UNCHANGED <<AbsStatus, AbsReply>>
    BY <1>2, <1>3 DEF Rpc!vars
  <1>4. ASSUME NEW n \in Calls, CallerIssues(n) PROVE Rpc!Issue(n)
    BY <1>2, <1>4 DEF CallerIssues, Rpc!Issue
  <1>5. ASSUME NEW n \in Calls, CallerAnswers(n) PROVE Rpc!Answer(n)
    BY <1>1, <1>2, <1>5 DEF CallerAnswers, Rpc!Answer, Calls, None
  <1>6. ASSUME NEW n \in Calls, CallerExpires(n) PROVE Rpc!Expire(n)
    BY <1>2, <1>6 DEF CallerExpires, Rpc!Expire
  <1> QED
    BY <1>0, <1>3, <1>4, <1>5, <1>6, NoWrap, CallerView DEF Rpc!Next, Rpc!Return

\* A request read by the server is served; everything else is internal.
LEMMA NetRefines ==
  ASSUME IInv, EventLoop \/ Handlers \/ Server PROVE [Rpc!Next]_Rpc!vars
  <1>1. UNCHANGED <<AbsStatus, AbsReply>>
    BY AbstractStutter
    DEF EventLoop, LoopStart, LoopCancel, LoopRequest, LoopSend, LoopBatch, LoopSkip,
        LoopMatch, LoopReply, TakeCancel, TakeRequest, PutReply, Handlers, SendWrite,
        SendFail, SendPause, RecvRead, RecvPush, RecvFail, Server, ServerRead,
        ServerReply, ServerClose, callVars
  <1>2. CASE served' = served
    BY <1>1, <1>2 DEF Rpc!vars
  <1>3. CASE ServerRead
    <2>1. Head(out) \in Calls /\ pc[Head(out)] # "idle"
      <3>1. Head(out) = out[1] /\ Head(out) \in Calls /\ 1 \in 1 .. Len(out)
        BY <1>3, TailFacts DEF ServerRead, IInv, TypeOK
      <3> QED
        BY <3>1 DEF IInv, PackageInv
    <2>2. AbsStatus[Head(out)] # "idle"
      BY <2>1 DEF AbsStatus, StatusOf
    <2>3. Rpc!Serve(Head(out))
      BY <1>1, <1>3, <2>2 DEF ServerRead, Rpc!Serve
    <2> QED
      BY <2>1, <2>3 DEF Rpc!Next
  <1> QED
    BY <1>2, <1>3
    DEF EventLoop, LoopStart, LoopCancel, LoopRequest, LoopSend, LoopBatch, LoopSkip,
        LoopMatch, LoopReply, Handlers, SendWrite, SendFail, SendPause, RecvRead,
        RecvPush, RecvFail, Server, ServerReply, ServerClose, peerVars

\* Until the counter wraps, the proxy does only what the abstract service may
\* do, through disconnection as well.
THEOREM TcpImplementsRpc == ASSUME NoWrap PROVE SafeSpec => ImplementsRpc
  <1>1. Init => Rpc!Init
    BY AbstractInit DEF Init, Rpc!Init
  <1>2. ASSUME IInv, [Next]_vars PROVE [Rpc!Next]_Rpc!vars
    <2>1. CASE UNCHANGED vars
      BY <2>1, AbstractStutter DEF vars, callVars, peerVars, Rpc!vars
    <2>2. CASE Next
      BY <1>2, <2>2, NoWrap, CallerRefines, NetRefines DEF Next
    <2> QED
      BY <1>2, <2>1, <2>2
  <1> QED
    BY <1>1, <1>2, SpecIInv, PTL DEF SafeSpec, Rpc!SafeSpec, ImplementsRpc
=============================================================================

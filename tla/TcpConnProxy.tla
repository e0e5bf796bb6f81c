---------------------------- MODULE TcpConnProxy ----------------------------
(***************************************************************************)
(* TCPConnMgr of xman_conn_proxy.go: the event loop of tcpConnStart, its   *)
(* tcpSendHandler and tcpRecvHandler, one TCP connection and the server at *)
(* its other end, which may stop reading, answer a request never, late or  *)
(* more than once and in any order, and close the connection at any time.  *)
(*                                                                         *)
(* Nothing sets SrvInfo.srvStatus to SRV_STATUS_RECONNECT (line 464 is     *)
(* commented out), so chooseRemoteSrv never gets to tcpConnReconnect: a    *)
(* connection that is closed stays closed.                                 *)
(***************************************************************************)
EXTENDS RemoteCall, FiniteSets

CONSTANTS
    NetCap,         \* packages the request stream holds before Write blocks
    MaxAnswers      \* bound: answers the server gives in all

ASSUME NetCapAssumption == NetCap \in Nat \ {0}

VARIABLES
    loop,           \* the event loop: see LoopStates
    sendChan,       \* FIFO of packages to write
    recvChan,       \* FIFO of batches: one seqMap per Read, as a set of replies
    sender,         \* tcpSendHandler: "off", "running" or "done"
    receiver,       \* tcpRecvHandler: "off", "running" or "done"
    readBatch,      \* the seqMap the receiver is about to push, or {}
    closed,         \* tcpMgr.closed: 0 while the handlers may run, else -1
    pauseConn,      \* the channel closed by tcpConnClose; "panic" if it is twice
    srvStatus,      \* [info |-> SrvInfo.srvStatus, mgr |-> tcpMgr.srvStatus]
    peerOpen,       \* the server has not closed its end
    out,            \* stream of requests written and not yet read by the server
    served,         \* requests the server has read
    replied,        \* how many answers the server has given
    in              \* stream of replies written and not yet read by the receiver

procVars == <<loop, sendChan, recvChan, sender, receiver, readBatch>>
connVars == <<closed, pauseConn, srvStatus>>
peerVars == <<peerOpen, out, served, replied, in>>
vars == <<callVars, procVars, connVars, peerVars>>

SRV_STATUS_OK == 1
SRV_STATUS_RECONNECT == 2

LoopStates == [at : {"start", "select", "send", "batch", "reply"},
               call : Calls \union {None}, rsp : Calls \union {None},
               batch : SUBSET Calls]
At(place) == [at |-> place, call |-> None, rsp |-> None, batch |-> {}]
AtSelect == At("select")

\* Waiting for one more reply than the batch has.
MutNextInBatchStays(b) == [At("batch") EXCEPT !.batch = b]

\* for seq, pkg := range rsp: on to the next reply, or back to the select.
NextInBatch(b) == IF b = {} THEN AtSelect ELSE [At("batch") EXCEPT !.batch = b]

Init ==
    /\ InitCalls
    /\ loop      = At("start")
    /\ sendChan  = <<>>
    /\ recvChan  = <<>>
    /\ sender    = "off"
    /\ receiver  = "off"
    /\ readBatch = {}
    /\ closed    = -1
    /\ pauseConn = "open"
    /\ srvStatus = [info |-> SRV_STATUS_OK, mgr |-> SRV_STATUS_OK]
    /\ peerOpen  = TRUE
    /\ out       = <<>>
    /\ served    = {}
    /\ replied   = 0
    /\ in        = <<>>

TypeOK ==
    /\ TypeOKCalls
    /\ loop      \in LoopStates
    /\ sendChan  \in Seq(Calls)
    /\ recvChan  \in Seq(SUBSET Calls)
    /\ sender    \in {"off", "running", "done"}
    /\ receiver  \in {"off", "running", "done"}
    /\ readBatch \in SUBSET Calls
    /\ closed    \in {-1, 0}
    /\ pauseConn \in {"open", "closed", "panic"}
    /\ srvStatus \in [info : {SRV_STATUS_OK, SRV_STATUS_RECONNECT},
                      mgr : {SRV_STATUS_OK, SRV_STATUS_RECONNECT}]
    /\ peerOpen  \in BOOLEAN
    /\ out       \in Seq(Calls)
    /\ served    \in SUBSET Calls
    /\ replied   \in Nat
    /\ in        \in Seq(Calls)

-----------------------------------------------------------------------------
(* Callers: chooseRemoteSrv looks at SrvInfo.srvStatus before a call gets  *)
(* its number; the rest of RequestToRemote does not depend on the protocol.*)
Caller ==
    /\ \/ srvStatus.info = SRV_STATUS_OK /\ StartCall
       \/ \E n \in Calls : CallerStep(n)
    /\ UNCHANGED <<procVars, connVars, peerVars>>

-----------------------------------------------------------------------------
(* The event loop.                                                         *)

\* tcpConnSendAndRecv: CAS(closed, -1, 0), then both handlers are started.
LoopStart ==
    /\ loop = At("start")
    /\ loop' = AtSelect
    /\ closed' = 0
    /\ sender' = "running"
    /\ receiver' = "running"
    /\ UNCHANGED <<callVars, sendChan, recvChan, readBatch, pauseConn, srvStatus, peerVars>>

\* case req := <-tcpMgr.reqChan, a cancel.
LoopCancel ==
    /\ loop = AtSelect
    /\ TakeCancel
    /\ UNCHANGED <<procVars, connVars, peerVars>>

\* case req := <-tcpMgr.reqChan, a request.
LoopRequest ==
    /\ loop = AtSelect
    /\ TakeRequest
    /\ loop' = [At("send") EXCEPT !.call = Head(reqChan).call]
    /\ UNCHANGED <<sendChan, recvChan, sender, receiver, readBatch, connVars, peerVars>>

\* sendChan <- req.ReqPkg: nobody makes room once the send handler is done.
LoopSend ==
    /\ loop.at = "send"
    /\ Room(sendChan)
    /\ sendChan' = Append(sendChan, loop.call)
    /\ loop' = AtSelect
    /\ UNCHANGED <<callVars, recvChan, sender, receiver, readBatch, connVars, peerVars>>

\* case rsp := <-tcpMgr.recvChan
LoopBatch ==
    /\ loop = AtSelect
    /\ recvChan # <<>>
    /\ loop' = NextInBatch(Head(recvChan))
    /\ recvChan' = Tail(recvChan)
    /\ UNCHANGED <<callVars, sendChan, sender, receiver, readBatch, connVars, peerVars>>

\* A reply of the batch, in the map's arbitrary order: "seq not found".
LoopSkip ==
    /\ loop.at = "batch"
    /\ \E rsp \in loop.batch :
         /\ reqMap[SeqOf(rsp)] = None
         /\ loop' = NextInBatch(loop.batch \ {rsp})
    /\ UNCHANGED <<callVars, sendChan, recvChan, sender, receiver, readBatch, connVars, peerVars>>

\* A reply of the batch somebody waits for.
LoopMatch ==
    /\ loop.at = "batch"
    /\ \E rsp \in loop.batch :
         /\ reqMap[SeqOf(rsp)] # None
         /\ loop' = [at |-> "reply", call |-> reqMap[SeqOf(rsp)], rsp |-> rsp,
                     batch |-> loop.batch \ {rsp}]
    /\ UNCHANGED <<callVars, sendChan, recvChan, sender, receiver, readBatch, connVars, peerVars>>

\* req.RspChan <- pkg; delete(tcpMgr.reqMap, req.ReqSeq)
LoopReply ==
    /\ loop.at = "reply"
    /\ PutReply(loop.call, loop.rsp)
    /\ loop' = NextInBatch(loop.batch)
    /\ UNCHANGED <<sendChan, recvChan, sender, receiver, readBatch, connVars, peerVars>>

EventLoop ==
    \/ LoopStart \/ LoopCancel \/ LoopRequest \/ LoopSend
    \/ LoopBatch \/ LoopSkip \/ LoopMatch \/ LoopReply

-----------------------------------------------------------------------------
(* The handlers.                                                           *)

\* Forgetting to tell the send handler.
MutTcpConnCloseQuiet ==
    IF closed = 0
    THEN /\ closed' = -1
         /\ srvStatus' = [srvStatus EXCEPT !.mgr = SRV_STATUS_RECONNECT]
         /\ UNCHANGED pauseConn
    ELSE UNCHANGED connVars

\* Closing without looking who closed before.
MutTcpConnCloseTwice ==
    /\ closed' = -1
    /\ pauseConn' = IF pauseConn = "open" THEN "closed" ELSE "panic"
    /\ srvStatus' = [srvStatus EXCEPT !.mgr = SRV_STATUS_RECONNECT]

\* if CompareAndSwap(closed, 0, -1): close the socket and pauseConn, and mark
\* the manager - but not the SrvInfo that chooseRemoteSrv looks at.
tcpConnClose ==
    IF closed = 0
    THEN /\ closed' = -1
         /\ pauseConn' = IF pauseConn = "open" THEN "closed" ELSE "panic"
         /\ srvStatus' = [srvStatus EXCEPT !.mgr = SRV_STATUS_RECONNECT]
    ELSE UNCHANGED connVars

\* The select takes sendChan: Write succeeds, blocking while the stream holds
\* NetCap packages the server has not read ...
SendWrite ==
    /\ sender = "running"
    /\ sendChan # <<>>
    /\ closed = 0 /\ peerOpen
    /\ Len(out) < NetCap
    /\ out' = Append(out, Head(sendChan))
    /\ sendChan' = Tail(sendChan)
    /\ UNCHANGED <<callVars, loop, recvChan, sender, receiver, readBatch, connVars,
                   peerOpen, served, replied, in>>

\* ... or fails because either end is closed: logged, the package is lost.
SendFail ==
    /\ sender = "running"
    /\ sendChan # <<>>
    /\ closed = -1 \/ ~ peerOpen
    /\ sendChan' = Tail(sendChan)
    /\ UNCHANGED <<callVars, loop, recvChan, sender, receiver, readBatch, connVars, peerVars>>

\* The select takes pauseConn: return, with the deferred tcpConnClose.
SendPause ==
    /\ sender = "running"
    /\ pauseConn # "open"
    /\ sender' = "done"
    /\ tcpConnClose
    /\ UNCHANGED <<callVars, loop, sendChan, recvChan, receiver, readBatch, peerVars>>

\* Replies with one sequence number read at once: the last one is kept.
SeqMap(s) == {s[i] : i \in {j \in 1 .. Len(s) :
                \A k \in j + 1 .. Len(s) : SeqOf(s[k]) # SeqOf(s[j])}}

\* conn.Read: some of what the stream holds, unpacked into one seqMap.  A Read
\* that completes no package changes nothing.
RecvRead ==
    /\ receiver = "running"
    /\ readBatch = {}
    /\ \E k \in 1 .. Len(in) :
         /\ readBatch' = SeqMap(SubSeq(in, 1, k))
         /\ in' = SubSeq(in, k + 1, Len(in))
    /\ UNCHANGED <<callVars, loop, sendChan, recvChan, sender, receiver, connVars,
                   peerOpen, out, served, replied>>

\* tcpMgr.recvChan <- seqMap
RecvPush ==
    /\ readBatch # {}
    /\ Room(recvChan)
    /\ recvChan' = Append(recvChan, readBatch)
    /\ readBatch' = {}
    /\ UNCHANGED <<callVars, loop, sendChan, sender, receiver, connVars, peerVars>>

\* EOF or a reset, with or without replies still unread: return, with the
\* deferred tcpConnClose.
RecvFail ==
    /\ receiver = "running"
    /\ readBatch = {}
    /\ ~ peerOpen
    /\ receiver' = "done"
    /\ tcpConnClose
    /\ UNCHANGED <<callVars, loop, sendChan, recvChan, sender, readBatch, peerVars>>

Handlers == SendWrite \/ SendFail \/ SendPause \/ RecvRead \/ RecvPush \/ RecvFail

-----------------------------------------------------------------------------
(* The remote server: outside this package, free to do nothing.            *)
ServerRead ==
    /\ peerOpen
    /\ out # <<>>
    /\ served' = served \union {Head(out)}
    /\ out' = Tail(out)
    /\ UNCHANGED <<callVars, procVars, connVars, peerOpen, replied, in>>

ServerReply ==
    /\ peerOpen
    /\ closed = 0
    /\ replied < MaxAnswers
    /\ replied' = replied + 1
    /\ \E n \in served : in' = Append(in, n)
    /\ UNCHANGED <<callVars, procVars, connVars, peerOpen, out, served>>

ServerClose ==
    /\ peerOpen
    /\ peerOpen' = FALSE
    /\ UNCHANGED <<callVars, procVars, connVars, out, served, replied, in>>

Server == ServerRead \/ ServerReply \/ ServerClose

-----------------------------------------------------------------------------
Next == Caller \/ EventLoop \/ Handlers \/ Server

(***************************************************************************)
(* As for UDP: every goroutine runs, timers fire and the two selects do    *)
(* not pass over a ready case for ever.  Nothing is assumed of the server. *)
(***************************************************************************)
Fairness ==
    /\ \A n \in Calls : WF_vars(Caller /\ (Enqueue(n) \/ Timeout(n) \/ Cancel(n)))
    /\ SF_vars(LoopCancel \/ LoopRequest)
    /\ WF_vars(EventLoop)
    /\ WF_vars(SendWrite \/ SendFail)
    /\ SF_vars(SendPause)
    /\ WF_vars(RecvRead \/ RecvPush \/ RecvFail)

SafeSpec == Init /\ [][Next]_vars
Spec == SafeSpec /\ Fairness

-----------------------------------------------------------------------------
\* The event loop never blocks on a RspChan, whatever batch it works through.
RspSlotFree == loop.at = "reply" => rspChan[loop.call] = None

\* The deferred tcpConnClose of both handlers close pauseConn once: closing a
\* closed channel panics.
ClosedOnce == pauseConn # "panic"

\* What the two handlers promise each other: once one has left, the
\* connection is closed, so that the other one leaves.
HandlersLeaveTogether ==
    "done" \in {sender, receiver} => closed = -1 /\ pauseConn # "open"

\* Once one handler has left the other one leaves too.
BothLeave == "done" \in {sender, receiver} ~> sender = "done" /\ receiver = "done"

\* RequestToRemote has no timer while it waits for room in reqChan.  A call can
\* only fail to return if the event loop is stuck for good behind a sendChan
\* nobody drains: the connection is closed, or the server stopped reading.  As
\* there are finitely many calls, there is a time when all have returned.
Stuck ==
    /\ loop.at = "send"
    /\ ~ Room(sendChan)
    /\ closed = -1 \/ Len(out) = NetCap
Returned(n) == pc[n] \in {"answered", "timedout"}
ReturnsUnlessStuck ==
    <>[]Stuck \/ []<>(\A n \in Calls : pc[n] = "idle" \/ Returned(n))

\* chooseRemoteSrv refuses a call (ErrRemoteSrvUnConnect, "Remote SRV not
\* connected.") when the connection of the server it chose is down.
DownIsRefused == [][ calls' # calls => srvStatus.mgr = SRV_STATUS_OK ]_vars

\* Apart from liveness, the abstract service is implemented here as well.
Rpc == INSTANCE RpcService WITH
    Calls  <- Calls,
    status <- AbsStatus,
    reply  <- AbsReply,
    served <- served
ImplementsRpc == Rpc!SafeSpec
=============================================================================

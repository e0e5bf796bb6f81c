---------------------------- MODULE UdpConnProxy ----------------------------
(***************************************************************************)
(* UDPConnMgr of xman_conn_proxy.go: the event loop of udpConnStart, its   *)
(* udpSendHandler and udpRecvHandler, and a network that loses, delays,    *)
(* reorders and duplicates datagrams.                                      *)
(*                                                                         *)
(*    callers --reqChan--> event loop --sendChan--> send handler --> wire  *)
(*    callers <--RspChan-- event loop <--recvChan-- recv handler <-- wire  *)
(*                                                                         *)
(* Every channel operation that can block is a step of its own.            *)
(***************************************************************************)
EXTENDS RemoteCall

VARIABLES
    loop,           \* the event loop: at the select, or blocked on a send
    sendChan,       \* FIFO of packages to write
    recvChan,       \* FIFO of datagrams read; None is one that fails to unpack
    wire            \* calls whose request datagram reached the server

netVars == <<loop, sendChan, recvChan, wire>>
vars == <<callVars, netVars>>

LoopStates == [at : {"select", "send", "reply"},
               call : Calls \union {None}, rsp : Calls \union {None}]
AtSelect == [at |-> "select", call |-> None, rsp |-> None]

Init ==
    /\ InitCalls
    /\ loop     = AtSelect
    /\ sendChan = <<>>
    /\ recvChan = <<>>
    /\ wire     = {}

TypeOK ==
    /\ TypeOKCalls
    /\ loop     \in LoopStates
    /\ sendChan \in Seq(Calls)
    /\ recvChan \in Seq(Calls \union {None})
    /\ wire     \subseteq Calls

-----------------------------------------------------------------------------
\* case req := <-udpMgr.reqChan, a cancel.
LoopCancel ==
    /\ loop = AtSelect
    /\ TakeCancel
    /\ UNCHANGED netVars

\* case req := <-udpMgr.reqChan, a request.
LoopRequest ==
    /\ loop = AtSelect
    /\ TakeRequest
    /\ loop' = [loop EXCEPT !.at = "send", !.call = Head(reqChan).call]
    /\ UNCHANGED <<sendChan, recvChan, wire>>

\* sendChan <- req.ReqPkg: the event loop stands still while it is full.
LoopSend ==
    /\ loop.at = "send"
    /\ Room(sendChan)
    /\ sendChan' = Append(sendChan, loop.call)
    /\ loop' = AtSelect
    /\ UNCHANGED <<callVars, recvChan, wire>>

\* The call a datagram is for: none if it does not unpack or nobody waits.
WaitingFor(rsp) == IF rsp = None THEN None ELSE reqMap[SeqOf(rsp)]

\* case rsp := <-udpMgr.recvChan: unpack failed, or "seq not found".
LoopDrop ==
    /\ loop = AtSelect
    /\ recvChan # <<>>
    /\ WaitingFor(Head(recvChan)) = None
    /\ recvChan' = Tail(recvChan)
    /\ UNCHANGED <<callVars, loop, sendChan, wire>>

\* case rsp := <-udpMgr.recvChan: somebody waits under this sequence number.
LoopMatch ==
    /\ loop = AtSelect
    /\ recvChan # <<>>
    /\ WaitingFor(Head(recvChan)) # None
    /\ loop' = [at |-> "reply", call |-> WaitingFor(Head(recvChan)),
                rsp |-> Head(recvChan)]
    /\ recvChan' = Tail(recvChan)
    /\ UNCHANGED <<callVars, sendChan, wire>>

\* req.RspChan <- rspPkg; delete(udpMgr.reqMap, req.ReqSeq)
LoopReply ==
    /\ loop.at = "reply"
    /\ PutReply(loop.call, loop.rsp)
    /\ loop' = AtSelect
    /\ UNCHANGED <<sendChan, recvChan, wire>>

\* udpSendHandler: conn.Write of the next package; on error it is dropped.
SendHandler ==
    /\ sendChan # <<>>
    /\ sendChan' = Tail(sendChan)
    /\ \/ wire' = wire \union {Head(sendChan)}
       \/ UNCHANGED wire
    /\ UNCHANGED <<callVars, loop, recvChan>>

\* udpRecvHandler: a datagram arrives - the server's reply to any request it
\* has seen, however old and however often answered, or an unreadable one.
\* A failed Read changes nothing.
RecvHandler ==
    /\ Room(recvChan)
    /\ \E rsp \in wire \union {None} : recvChan' = Append(recvChan, rsp)
    /\ UNCHANGED <<callVars, loop, sendChan, wire>>

EventLoop == LoopCancel \/ LoopRequest \/ LoopSend \/ LoopDrop \/ LoopMatch \/ LoopReply

Next ==
    \/ Callers /\ UNCHANGED netVars
    \/ EventLoop
    \/ SendHandler
    \/ RecvHandler

(***************************************************************************)
(* Goroutines are never starved by the scheduler, a timer that runs fires, *)
(* and a select that finds both channels ready picks at random, so neither *)
(* case is passed over for ever: strong fairness on taking a Request.      *)
(* Nothing is assumed of the network or of the server.                     *)
(***************************************************************************)
Fairness ==
    /\ \A n \in Calls : /\ WF_vars(Enqueue(n) /\ UNCHANGED netVars)
                        /\ WF_vars(Timeout(n) /\ UNCHANGED netVars)
                        /\ WF_vars(Cancel(n) /\ UNCHANGED netVars)
    /\ SF_vars(LoopCancel \/ LoopRequest)
    /\ WF_vars(EventLoop)
    /\ WF_vars(SendHandler)

SafeSpec == Init /\ [][Next]_vars
Spec == SafeSpec /\ Fairness

-----------------------------------------------------------------------------
\* The event loop never blocks on a RspChan: when it is about to send a reply
\* the slot is empty, duplicates and late answers included.  Were it taken by
\* a caller that timed out, the whole proxy would stop.
RspSlotFree == loop.at = "reply" => rspChan[loop.call] = None

\* The proxy implements the abstract service, liveness included.
Rpc == INSTANCE RpcService WITH
    Calls  <- Calls,
    status <- AbsStatus,
    reply  <- AbsReply,
    served <- wire
ImplementsRpc == Rpc!Spec
=============================================================================

----------------------------- MODULE RemoteCall -----------------------------
(***************************************************************************)
(* The caller side of the connection proxy: RequestToRemote in             *)
(* xman_conn_proxy.go, for the callers that share one registered remote    *)
(* server (one SrvInfo, hence one sequence counter and one reqChan).       *)
(* With it comes the table the event loop keeps of them, reqMap, and what  *)
(* the loop does to it: udpConnStart and tcpConnStart share that code word *)
(* for word.  UdpConnProxy and TcpConnProxy extend this module with their  *)
(* goroutines and their network.                                           *)
(*                                                                         *)
(* A call is known by its number n: the value the 64-bit wide, never       *)
(* wrapping, count of calls had when it was started.  What the code knows  *)
(* is the 32-bit SeqOf(n).  The request of call n, the package packed for  *)
(* it and the reply the remote server makes for it are all written n.      *)
(***************************************************************************)
EXTENDS Integers, Sequences

CONSTANTS
    MaxCalls,       \* bound: calls started in a behaviour
    SeqMod,         \* size of the sequence space, 2^32 in the code (uint32)
    ReqMaxSize      \* capacity of reqChan, sendChan and recvChan ("MaxReq")

ASSUME MaxCallsAssumption   == MaxCalls \in Nat
ASSUME SeqModAssumption     == SeqMod \in Nat \ {0}
ASSUME ReqMaxSizeAssumption == ReqMaxSize \in Nat \ {0}

Calls == 1 .. MaxCalls
None  == 0
Seqs  == 0 .. SeqMod - 1

\* No two calls share a sequence number.
NoWrap == MaxCalls < SeqMod

VARIABLES
    calls,          \* remoteSrvSeq, before it is truncated to 32 bits
    pc,             \* pc[n]: where the goroutine of call n stands
    rspChan,        \* rspChan[n]: the one slot of n's RspChan, or None
    result,         \* result[n]: the reply call n returned, or None
    reqChan,        \* FIFO of Requests, plain and cancelling
    reqMap          \* sequence number -> the call waiting under it, or None

callVars == <<calls, pc, rspChan, result, reqChan, reqMap>>

\* Counting in a copy of the SrvInfo.
MutSeqOfCopy(n) == 1 % SeqMod

\* atomic.AddUint32(&remoteSrvSeq, 1), for the n-th call.
SeqOf(n) == n % SeqMod

\* Cancelling whatever number the counter has reached by now.
MutCancelRequestLatest(n) == [cancel |-> TRUE, seq |-> SeqOf(calls), call |-> None]

\* The two Request literals the code builds.  A cancel carries no call.
NormalRequest(n) == [cancel |-> FALSE, seq |-> SeqOf(n), call |-> n]
CancelRequest(n) == [cancel |-> TRUE,  seq |-> SeqOf(n), call |-> None]

Requests == [cancel : BOOLEAN, seq : Seqs, call : Calls \union {None}]

Room(ch) == Len(ch) < ReqMaxSize

PcStates == {"idle", "numbered", "waiting", "cancelling", "answered", "timedout"}

InitCalls ==
    /\ calls   = 0
    /\ pc      = [n \in Calls |-> "idle"]
    /\ rspChan = [n \in Calls |-> None]
    /\ result  = [n \in Calls |-> None]
    /\ reqChan = <<>>
    /\ reqMap  = [s \in Seqs |-> None]

TypeOKCalls ==
    /\ calls   \in 0 .. MaxCalls
    /\ pc      \in [Calls -> PcStates]
    /\ rspChan \in [Calls -> Calls \union {None}]
    /\ result  \in [Calls -> Calls \union {None}]
    /\ reqChan \in Seq(Requests)
    /\ reqMap  \in [Seqs -> Calls \union {None}]

\* A call takes its number; the package is packed and the Request built.
StartCall ==
    /\ calls < MaxCalls
    /\ calls' = calls + 1
    /\ pc' = [pc EXCEPT ![calls + 1] = "numbered"]
    /\ UNCHANGED <<rspChan, result, reqChan, reqMap>>

\* valChan <- reqPkg: blocks, with no timer running yet, while reqChan is full.
Enqueue(n) ==
    /\ pc[n] = "numbered"
    /\ Room(reqChan)
    /\ reqChan' = Append(reqChan, NormalRequest(n))
    /\ pc' = [pc EXCEPT ![n] = "waiting"]
    /\ UNCHANGED <<calls, rspChan, result, reqMap>>

\* case rspPkg := <-reqPkg.RspChan
GetReply(n) ==
    /\ pc[n] = "waiting"
    /\ rspChan[n] # None
    /\ result' = [result EXCEPT ![n] = rspChan[n]]
    /\ rspChan' = [rspChan EXCEPT ![n] = None]
    /\ pc' = [pc EXCEPT ![n] = "answered"]
    /\ UNCHANGED <<calls, reqChan, reqMap>>

\* case <-time.After(timeout): select may take it even with a reply in the slot.
Timeout(n) ==
    /\ pc[n] = "waiting"
    /\ pc' = [pc EXCEPT ![n] = "cancelling"]
    /\ UNCHANGED <<calls, rspChan, result, reqChan, reqMap>>

\* Giving up without telling the event loop.
MutCancelSilent(n) ==
    /\ pc[n] = "cancelling"
    /\ pc' = [pc EXCEPT ![n] = "timedout"]
    /\ UNCHANGED <<calls, rspChan, result, reqChan, reqMap>>

\* The cancel goes through the same FIFO, so it may block as well.
Cancel(n) ==
    /\ pc[n] = "cancelling"
    /\ Room(reqChan)
    /\ reqChan' = Append(reqChan, CancelRequest(n))
    /\ pc' = [pc EXCEPT ![n] = "timedout"]
    /\ UNCHANGED <<calls, rspChan, result, reqMap>>

CallerStep(n) == Enqueue(n) \/ GetReply(n) \/ Timeout(n) \/ Cancel(n)

Callers == StartCall \/ \E n \in Calls : CallerStep(n)

-----------------------------------------------------------------------------
(* What the event loop does with what it receives.  reqMap is touched by   *)
(* the loop's goroutine alone, so a receive and the map update that        *)
(* follows it are one step.                                                *)

\* Dropping the head of the queue and nothing else.
MutTakeCancelForgets ==
    /\ reqChan # <<>>
    /\ Head(reqChan).cancel
    /\ reqChan' = Tail(reqChan)
    /\ UNCHANGED <<calls, pc, rspChan, result, reqMap>>

\* case req := <-reqChan with req.IsCancel: drop the entry, if there is one.
TakeCancel ==
    /\ reqChan # <<>>
    /\ Head(reqChan).cancel
    /\ reqMap' = [reqMap EXCEPT ![Head(reqChan).seq] = None]
    /\ reqChan' = Tail(reqChan)
    /\ UNCHANGED <<calls, pc, rspChan, result>>

\* case req := <-reqChan: remember the request; its package is sent next.
TakeRequest ==
    /\ reqChan # <<>>
    /\ ~ Head(reqChan).cancel
    /\ reqMap' = [reqMap EXCEPT ![Head(reqChan).seq] = Head(reqChan).call]
    /\ reqChan' = Tail(reqChan)
    /\ UNCHANGED <<calls, pc, rspChan, result>>

\* Answering without forgetting the request.
MutPutReplyKeeps(n, rsp) ==
    /\ rspChan[n] = None
    /\ rspChan' = [rspChan EXCEPT ![n] = rsp]
    /\ UNCHANGED <<calls, pc, result, reqChan, reqMap>>

\* req.RspChan <- rspPkg (one slot, blocks when it is taken), then the delete.
PutReply(n, rsp) ==
    /\ rspChan[n] = None
    /\ rspChan' = [rspChan EXCEPT ![n] = rsp]
    /\ reqMap' = [reqMap EXCEPT ![SeqOf(n)] = None]
    /\ UNCHANGED <<calls, pc, result, reqChan>>

-----------------------------------------------------------------------------
\* The view of the callers the abstract RpcService speaks of.
StatusOf(n) ==
    CASE pc[n] \in {"numbered", "waiting", "cancelling"} -> "pending"
      [] OTHER -> pc[n]

ReplyOf(n) == IF result[n] = None THEN {} ELSE {result[n]}

AbsStatus == [n \in Calls |-> StatusOf(n)]
AbsReply  == [n \in Calls |-> ReplyOf(n)]

\* A reply reaches only the call it was made for, whatever was lost,
\* duplicated, reordered or late (RequestToRemote, the reqMap lookup).
OwnReply == \A n \in Calls : result[n] \in {None, n}

\* With sequence numbers reused, what still holds: the reply has the
\* sequence number of the call.
SameSeqReply == \A n \in Calls : result[n] # None => SeqOf(result[n]) = SeqOf(n)

\* reqMap does not leak: an entry whose caller gave up is still to be removed
\* by a cancel in reqChan - the cancel did not overtake its request.
CancelQueued(s) == \E i \in 1 .. Len(reqChan) : reqChan[i].cancel /\ reqChan[i].seq = s
NoOrphan == \A s \in Seqs :
    reqMap[s] # None /\ pc[reqMap[s]] = "timedout" => CancelQueued(s)

\* Nobody cancels a call but its own caller: the entry of a call that still
\* waits leaves reqMap only together with the reply put in its RspChan.
Registered(n) == \E s \in Seqs : reqMap[s] = n
KeepsWaiting == \A n \in Calls :
    pc[n] = "waiting" /\ Registered(n) => Registered(n)' \/ rspChan'[n] # None
KeepsWaiters == [][KeepsWaiting]_callVars

\* Every call a caller gave up is eventually forgotten by the event loop.
Drained == \A n \in Calls : [](pc[n] = "timedout" => <>[]~Registered(n))
=============================================================================

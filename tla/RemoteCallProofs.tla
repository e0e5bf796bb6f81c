-------------------------- MODULE RemoteCallProofs --------------------------
(***************************************************************************)
(* The inductive invariant of the callers and of reqMap, kept by every     *)
(* operation of RemoteCall.  The proofs about the UDP and the TCP proxy    *)
(* rest on it; what is proved holds for every number of calls, every size  *)
(* of the sequence space and every channel capacity.                       *)
(*                                                                         *)
(* CallInv follows one Request on its way: it is in reqChan, then in       *)
(* reqMap, then its reply is in RspChan, and never in two of these places. *)
(* Only what has the form NoWrap => ... needs sequence numbers not to wrap.*)
(***************************************************************************)
EXTENDS RemoteCall, TLAPS

\* The states of a call whose Request has been handed over but not answered.
Outstanding == {"waiting", "cancelling", "timedout"}

\* Calls beyond the counter have not started.
CounterInv == \A n \in Calls : pc[n] = "idle" <=> n > calls

\* Nothing is in the reply slot of a call that has not sent its Request.
FreshInv == \A n \in Calls : pc[n] \in {"idle", "numbered"} => rspChan[n] = None

\* A Request still in reqChan: outstanding, unanswered, not in reqMap.
ChanInv == \A i \in 1 .. Len(reqChan) : ~ reqChan[i].cancel =>
    /\ reqChan[i].call \in Calls
    /\ reqChan[i].seq = SeqOf(reqChan[i].call)
    /\ pc[reqChan[i].call] \in Outstanding
    /\ rspChan[reqChan[i].call] = None
    /\ \A s \in Seqs : reqMap[s] # reqChan[i].call

\* No Request is in reqChan twice.
OnceInv == \A i, j \in 1 .. Len(reqChan) :
    ~ reqChan[i].cancel /\ ~ reqChan[j].cancel /\ reqChan[i].call = reqChan[j].call
        => i = j

\* The cancel of a call that gave up is behind its Request.
CancelInv == \A i \in 1 .. Len(reqChan) :
    ~ reqChan[i].cancel /\ pc[reqChan[i].call] = "timedout" =>
        \E j \in 1 .. Len(reqChan) :
            j > i /\ reqChan[j].cancel /\ reqChan[j].seq = reqChan[i].seq

\* An entry of reqMap is under its own sequence number and unanswered.
MapInv == \A s \in Seqs : reqMap[s] # None =>
    /\ s = SeqOf(reqMap[s])
    /\ pc[reqMap[s]] \in Outstanding
    /\ rspChan[reqMap[s]] = None

\* What is in the slot carries the sequence number of the call.
SlotInv == \A n \in Calls : rspChan[n] # None => SeqOf(rspChan[n]) = SeqOf(n)

\* A cancel in reqChan was sent by a call that gave up.
GaveUpInv == \A i \in 1 .. Len(reqChan) : reqChan[i].cancel =>
    \E n \in Calls : pc[n] = "timedout" /\ SeqOf(n) = reqChan[i].seq

\* Only an answered call has a result.
ResultInv == \A n \in Calls : result[n] # None <=> pc[n] = "answered"

CallInv ==
    /\ TypeOKCalls
    /\ CounterInv
    /\ FreshInv
    /\ ChanInv
    /\ OnceInv
    /\ CancelInv
    /\ MapInv
    /\ NoOrphan
    /\ SlotInv
    /\ SameSeqReply
    /\ GaveUpInv
    /\ ResultInv

-----------------------------------------------------------------------------
\* A truncated sequence number is a key of reqMap.
LEMMA SeqOfType == \A n \in Calls : SeqOf(n) \in Seqs
  BY SeqModAssumption, MaxCallsAssumption DEF SeqOf, Seqs, Calls

\* While the counter has not wrapped, the sequence number is the call.
LEMMA SeqOfExact == NoWrap => \A n \in Calls : SeqOf(n) = n
  BY SeqModAssumption, MaxCallsAssumption DEF SeqOf, Calls, NoWrap

\* The Requests the code builds are Requests.
LEMMA RequestType ==
    \A n \in Calls : NormalRequest(n) \in Requests /\ CancelRequest(n) \in Requests
  BY SeqOfType DEF NormalRequest, CancelRequest, Requests

\* Sending on a FIFO.
LEMMA AppendFacts ==
  ASSUME NEW T, NEW s \in Seq(T), NEW e \in T
  PROVE  /\ Append(s, e) \in Seq(T)
         /\ Len(Append(s, e)) = Len(s) + 1
         /\ Append(s, e)[Len(s) + 1] = e
         /\ \A i \in 1 .. Len(s) : Append(s, e)[i] = s[i]
  OBVIOUS

\* Receiving from a FIFO.
LEMMA TailFacts ==
  ASSUME NEW T, NEW s \in Seq(T), s # <<>>
  PROVE  /\ Tail(s) \in Seq(T)
         /\ Head(s) \in T
         /\ Head(s) = s[1]
         /\ Len(s) \in Nat \ {0}
         /\ Len(Tail(s)) = Len(s) - 1
         /\ \A i \in 1 .. Len(Tail(s)) : i + 1 \in 1 .. Len(s) /\ Tail(s)[i] = s[i + 1]
  OBVIOUS

-----------------------------------------------------------------------------
\* The state newly registered connections start from.
LEMMA InitCallInv == InitCalls => CallInv
  <1> SUFFICES ASSUME InitCalls PROVE CallInv
    OBVIOUS
  <1> USE DEF InitCalls, None
  <1>1. TypeOKCalls
    BY SeqModAssumption, MaxCallsAssumption
    DEF TypeOKCalls, PcStates, Seqs, Calls, Requests
  <1>2. CounterInv /\ FreshInv /\ SlotInv /\ SameSeqReply /\ ResultInv
    BY MaxCallsAssumption DEF CounterInv, FreshInv, SlotInv, SameSeqReply, ResultInv, Calls
  <1>3. ChanInv /\ OnceInv /\ CancelInv /\ GaveUpInv
    BY DEF ChanInv, OnceInv, CancelInv, GaveUpInv
  <1>4. MapInv /\ NoOrphan
    BY DEF MapInv, NoOrphan
  <1> QED
    BY <1>1, <1>2, <1>3, <1>4 DEF CallInv

\* A new call touches nothing but its own program counter.
LEMMA StartCallStep == ASSUME CallInv, StartCall PROVE CallInv'
  <1> USE DEF CallInv, StartCall
  <1>0. calls + 1 \in Calls /\ pc[calls + 1] = "idle" /\ calls \in Nat
    BY MaxCallsAssumption DEF CounterInv, TypeOKCalls, Calls
  <1>1. TypeOKCalls'
    BY <1>0, MaxCallsAssumption DEF TypeOKCalls, PcStates
  <1>2. CounterInv'
    BY <1>0, MaxCallsAssumption DEF TypeOKCalls, CounterInv, Calls
  <1>3. FreshInv' /\ SlotInv' /\ SameSeqReply' /\ ResultInv'
    BY <1>0 DEF FreshInv, SlotInv, SameSeqReply, ResultInv, TypeOKCalls
  <1>4. ChanInv' /\ OnceInv' /\ CancelInv'
    BY <1>0 DEF ChanInv, OnceInv, CancelInv, Outstanding, TypeOKCalls
  <1>5. MapInv'
    BY <1>0 DEF MapInv, Outstanding, TypeOKCalls
  <1>6. NoOrphan'
    BY <1>0 DEF NoOrphan, CancelQueued, TypeOKCalls
  <1>7. GaveUpInv'
    BY <1>0 DEF GaveUpInv, TypeOKCalls
  <1> QED
    BY <1>1, <1>2, <1>3, <1>4, <1>5, <1>6, <1>7

\* A Request is new when it is sent: it is in none of the three places.
LEMMA EnqueueStep == ASSUME CallInv, NEW n \in Calls, Enqueue(n) PROVE CallInv'
  <1> USE DEF CallInv, Enqueue
  <1> DEFINE q == NormalRequest(n)
             k == Len(reqChan) + 1
  <1>0. /\ reqChan \in Seq(Requests) /\ reqChan' \in Seq(Requests)
        /\ Len(reqChan') = k /\ k \in Nat
        /\ reqChan'[k] = q
        /\ \A i \in 1 .. Len(reqChan) : reqChan'[i] = reqChan[i]
        /\ q.call = n /\ ~ q.cancel /\ q.seq = SeqOf(n)
    BY AppendFacts, RequestType DEF TypeOKCalls, NormalRequest
  <1>1. \A i \in 1 .. k : i = k \/ (i \in 1 .. Len(reqChan) /\ reqChan'[i] = reqChan[i])
    BY <1>0
  <1>2. \A i \in 1 .. Len(reqChan) : ~ reqChan[i].cancel => reqChan[i].call # n
    BY DEF ChanInv, Outstanding
  <1>3. \A s \in Seqs : reqMap[s] # n
    BY DEF MapInv, Outstanding, Calls, None
  <1>4. TypeOKCalls' /\ CounterInv' /\ FreshInv' /\ SlotInv' /\ SameSeqReply' /\ ResultInv'
    BY <1>0 DEF TypeOKCalls, PcStates, CounterInv, FreshInv, SlotInv, SameSeqReply, ResultInv
  <1>5. ChanInv'
    BY <1>0, <1>1, <1>2, <1>3 DEF ChanInv, FreshInv, Outstanding, TypeOKCalls
  <1>6. OnceInv'
    BY <1>0, <1>1, <1>2 DEF OnceInv
  <1>7. CancelInv'
    <2> SUFFICES ASSUME NEW i \in 1 .. Len(reqChan'), ~ reqChan'[i].cancel,
                        pc'[reqChan'[i].call] = "timedout"
                 PROVE  \E j \in 1 .. Len(reqChan') :
                          j > i /\ reqChan'[j].cancel /\ reqChan'[j].seq = reqChan'[i].seq
      BY DEF CancelInv
    <2>1. i # k
      BY <1>0 DEF TypeOKCalls
    <2>2. i \in 1 .. Len(reqChan) /\ reqChan'[i] = reqChan[i]
      BY <1>0, <1>1, <2>1
    <2>3. pc[reqChan[i].call] = "timedout"
      BY <1>2, <2>2 DEF ChanInv, TypeOKCalls
    <2>4. PICK j \in 1 .. Len(reqChan) :
            j > i /\ reqChan[j].cancel /\ reqChan[j].seq = reqChan[i].seq
      BY <2>2, <2>3 DEF CancelInv
    <2>5. j \in 1 .. Len(reqChan') /\ reqChan'[j] = reqChan[j]
      BY <1>0
    <2> QED
      BY <2>2, <2>4, <2>5
  <1>8. MapInv'
    BY <1>3 DEF MapInv, Outstanding, TypeOKCalls
  <1>9. NoOrphan'
    BY <1>0, <1>3 DEF NoOrphan, CancelQueued, TypeOKCalls
  <1>10. GaveUpInv'
    BY <1>0, <1>1 DEF GaveUpInv, TypeOKCalls
  <1> QED
    BY <1>4, <1>5, <1>6, <1>7, <1>8, <1>9, <1>10

\* A call with a reply in its slot has left reqChan and reqMap for good.
LEMMA GetReplyStep == ASSUME CallInv, NEW n \in Calls, GetReply(n) PROVE CallInv'
  <1> USE DEF CallInv, GetReply
  <1>1. \A i \in 1 .. Len(reqChan) : ~ reqChan[i].cancel => reqChan[i].call # n
    BY DEF ChanInv
  <1>2. \A s \in Seqs : reqMap[s] # n
    BY DEF MapInv, Calls, None
  <1>3. TypeOKCalls' /\ CounterInv' /\ FreshInv' /\ SlotInv'
    BY DEF TypeOKCalls, PcStates, CounterInv, FreshInv, SlotInv
  <1>4. SameSeqReply' /\ ResultInv'
    BY DEF SameSeqReply, SlotInv, ResultInv, TypeOKCalls
  <1>5. ChanInv' /\ OnceInv' /\ CancelInv'
    BY <1>1 DEF ChanInv, OnceInv, CancelInv, TypeOKCalls
  <1>6. MapInv' /\ NoOrphan'
    BY <1>2 DEF MapInv, NoOrphan, CancelQueued, TypeOKCalls
  <1>7. GaveUpInv'
    BY DEF GaveUpInv, TypeOKCalls
  <1> QED
    BY <1>3, <1>4, <1>5, <1>6, <1>7

\* The timer fires: the Request stays where it is.
LEMMA TimeoutStep == ASSUME CallInv, NEW n \in Calls, Timeout(n) PROVE CallInv'
  <1> USE DEF CallInv, Timeout
  <1>1. TypeOKCalls' /\ CounterInv' /\ FreshInv' /\ SlotInv' /\ SameSeqReply' /\ ResultInv'
    BY DEF TypeOKCalls, PcStates, CounterInv, FreshInv, SlotInv, SameSeqReply, ResultInv
  <1>2. ChanInv' /\ OnceInv' /\ CancelInv'
    BY DEF ChanInv, OnceInv, CancelInv, Outstanding, TypeOKCalls
  <1>3. MapInv' /\ NoOrphan' /\ GaveUpInv'
    BY DEF MapInv, NoOrphan, CancelQueued, GaveUpInv, Outstanding, TypeOKCalls
  <1> QED
    BY <1>1, <1>2, <1>3

\* The cancel goes behind everything that is in reqChan, its Request included.
LEMMA CancelStep == ASSUME CallInv, NEW n \in Calls, Cancel(n) PROVE CallInv'
  <1> USE DEF CallInv, Cancel
  <1> DEFINE q == CancelRequest(n)
             k == Len(reqChan) + 1
  <1>0. /\ reqChan \in Seq(Requests) /\ reqChan' \in Seq(Requests)
        /\ Len(reqChan') = k /\ k \in Nat /\ k \in 1 .. k
        /\ reqChan'[k] = q
        /\ \A i \in 1 .. Len(reqChan) : i \in 1 .. k /\ k > i /\ reqChan'[i] = reqChan[i]
        /\ q.cancel /\ q.seq = SeqOf(n)
    BY AppendFacts, RequestType DEF TypeOKCalls, CancelRequest
  <1>1. \A i \in 1 .. k : i = k \/ (i \in 1 .. Len(reqChan) /\ reqChan'[i] = reqChan[i])
    BY <1>0
  <1>2. TypeOKCalls' /\ CounterInv' /\ FreshInv' /\ SlotInv' /\ SameSeqReply' /\ ResultInv'
    BY <1>0 DEF TypeOKCalls, PcStates, CounterInv, FreshInv, SlotInv, SameSeqReply, ResultInv
  <1>3. ChanInv'
    BY <1>0, <1>1 DEF ChanInv, Outstanding, TypeOKCalls
  <1>4. OnceInv'
    BY <1>0, <1>1 DEF OnceInv
  <1>5. CancelInv'
    BY <1>0, <1>1 DEF CancelInv, ChanInv, TypeOKCalls
  <1>6. MapInv'
    BY DEF MapInv, Outstanding, TypeOKCalls
  <1>7. NoOrphan'
    BY <1>0 DEF NoOrphan, CancelQueued, MapInv, TypeOKCalls
  <1>8. GaveUpInv'
    BY <1>0, <1>1 DEF GaveUpInv, TypeOKCalls
  <1> QED
    BY <1>2, <1>3, <1>4, <1>5, <1>6, <1>7, <1>8

\* Callers keep the invariant.
LEMMA CallersStep == ASSUME CallInv, Callers PROVE CallInv'
  BY StartCallStep, EnqueueStep, GetReplyStep, TimeoutStep, CancelStep
  DEF Callers, CallerStep

-----------------------------------------------------------------------------
\* reqChan after its head is received: every Request moves one place forward.
LEMMA DequeueFacts ==
  ASSUME TypeOKCalls, reqChan # <<>>, reqChan' = Tail(reqChan)
  PROVE  /\ reqChan' \in Seq(Requests)
         /\ 1 \in 1 .. Len(reqChan)
         /\ Head(reqChan) = reqChan[1]
         /\ Head(reqChan) \in Requests
         /\ Head(reqChan).seq \in Seqs
         /\ \A i \in 1 .. Len(reqChan') :
               i \in Int /\ i + 1 \in 1 .. Len(reqChan) /\ i + 1 # 1 /\ reqChan'[i] = reqChan[i + 1]
         /\ \A i \in 1 .. Len(reqChan) : i > 1 =>
               i \in Int /\ i - 1 \in 1 .. Len(reqChan') /\ reqChan'[i - 1] = reqChan[i]
  <1>1. reqChan \in Seq(Requests) /\ \A r \in Requests : r.seq \in Seqs
    BY DEF TypeOKCalls, Requests
  <1>2. /\ Tail(reqChan) \in Seq(Requests)
        /\ Head(reqChan) \in Requests
        /\ Head(reqChan) = reqChan[1]
        /\ Len(reqChan) \in Nat \ {0}
        /\ Len(Tail(reqChan)) = Len(reqChan) - 1
        /\ \A i \in 1 .. Len(Tail(reqChan)) :
              i + 1 \in 1 .. Len(reqChan) /\ Tail(reqChan)[i] = reqChan[i + 1]
    BY <1>1, TailFacts
  <1>3. Head(reqChan).seq \in Seqs
    BY <1>1, <1>2
  <1> QED
    BY <1>2, <1>3

\* Cancels stay behind the Requests they are for.
LEMMA CancelInvTail ==
  ASSUME TypeOKCalls, CancelInv, reqChan # <<>>, reqChan' = Tail(reqChan), pc' = pc
  PROVE  CancelInv'
  <1> SUFFICES ASSUME NEW i \in 1 .. Len(reqChan'), ~ reqChan'[i].cancel,
                      pc[reqChan'[i].call] = "timedout"
               PROVE  \E j \in 1 .. Len(reqChan') :
                        j > i /\ reqChan'[j].cancel /\ reqChan'[j].seq = reqChan'[i].seq
    BY DEF CancelInv
  <1>1. i + 1 \in 1 .. Len(reqChan) /\ reqChan'[i] = reqChan[i + 1] /\ i = (i + 1) - 1
    BY DequeueFacts
  <1>2. \E j \in 1 .. Len(reqChan) :
          j > i + 1 /\ reqChan[j].cancel /\ reqChan[j].seq = reqChan'[i].seq
    BY <1>1 DEF CancelInv
  <1>3. \E j \in 1 .. Len(reqChan') :
          j > (i + 1) - 1 /\ reqChan'[j].cancel /\ reqChan'[j].seq = reqChan'[i].seq
    <2>1. PICK j \in 1 .. Len(reqChan) :
            j > i + 1 /\ reqChan[j].cancel /\ reqChan[j].seq = reqChan'[i].seq
      BY <1>2
    <2>2. j > 1 /\ j \in Int /\ i \in Int
      BY <2>1, DequeueFacts
    <2>3. j - 1 \in 1 .. Len(reqChan') /\ reqChan'[j - 1] = reqChan[j] /\ j - 1 > (i + 1) - 1
      BY <2>1, <2>2, DequeueFacts
    <2> QED
      BY <2>1, <2>3
  <1> QED
    BY <1>1, <1>3

\* Removing an entry and the cancel that asked for it leaves no orphan.
LEMMA TakeCancelStep == ASSUME CallInv, TakeCancel PROVE CallInv'
  <1> USE DEF CallInv, TakeCancel
  <1> DEFINE h == Head(reqChan)
  <1>1. \A s \in Seqs : reqMap'[s] = IF s = h.seq THEN None ELSE reqMap[s]
    BY DequeueFacts DEF TypeOKCalls
  <1>2. TypeOKCalls' /\ CounterInv' /\ FreshInv' /\ SlotInv' /\ SameSeqReply' /\ ResultInv'
    BY DequeueFacts DEF TypeOKCalls, PcStates, CounterInv, FreshInv, SlotInv, SameSeqReply, ResultInv
  <1>3. ChanInv'
    BY DequeueFacts, <1>1 DEF ChanInv, Calls, None
  <1>4. OnceInv'
    <2> SUFFICES ASSUME NEW i \in 1 .. Len(reqChan'), NEW j \in 1 .. Len(reqChan'),
                        ~ reqChan'[i].cancel, ~ reqChan'[j].cancel,
                        reqChan'[i].call = reqChan'[j].call
                 PROVE  i = j
      BY DEF OnceInv
    <2>1. i + 1 = j + 1
      BY DequeueFacts DEF OnceInv
    <2> QED
      BY <2>1, DequeueFacts
  <1>5. CancelInv'
    BY CancelInvTail
  <1>6. MapInv'
    BY <1>1 DEF MapInv
  <1>7. NoOrphan'
    <2> SUFFICES ASSUME NEW s \in Seqs, reqMap'[s] # None, pc[reqMap'[s]] = "timedout"
                 PROVE  \E j \in 1 .. Len(reqChan') : reqChan'[j].cancel /\ reqChan'[j].seq = s
      BY DEF NoOrphan, CancelQueued
    <2>1. s # h.seq /\ reqMap'[s] = reqMap[s]
      BY <1>1
    <2>2. PICK j \in 1 .. Len(reqChan) : reqChan[j].cancel /\ reqChan[j].seq = s
      BY <2>1 DEF NoOrphan, CancelQueued
    <2>3. j # 1
      BY <2>1, <2>2, DequeueFacts
    <2>4. j > 1
      BY <2>3
    <2> QED
      BY <2>2, <2>4, DequeueFacts
  <1>8. GaveUpInv'
    BY DequeueFacts DEF GaveUpInv
  <1> QED
    BY <1>2, <1>3, <1>4, <1>5, <1>6, <1>7, <1>8

\* A Request moves from reqChan to reqMap; if its call gave up meanwhile, the
\* cancel is still behind it.
LEMMA TakeRequestStep == ASSUME CallInv, TakeRequest PROVE CallInv'
  <1> USE DEF CallInv, TakeRequest
  <1> DEFINE h == Head(reqChan)
  <1>1. /\ h.call \in Calls /\ h.seq = SeqOf(h.call) /\ h.seq \in Seqs
        /\ pc[h.call] \in Outstanding /\ rspChan[h.call] = None
    BY DequeueFacts DEF ChanInv
  <1>2. \A s \in Seqs : reqMap'[s] = IF s = h.seq THEN h.call ELSE reqMap[s]
    BY <1>1 DEF TypeOKCalls
  <1>3. TypeOKCalls' /\ CounterInv' /\ FreshInv' /\ SlotInv' /\ SameSeqReply' /\ ResultInv'
    BY DequeueFacts, <1>1
    DEF TypeOKCalls, PcStates, CounterInv, FreshInv, SlotInv, SameSeqReply, ResultInv
  <1>4. ChanInv'
    <2>1. \A i \in 1 .. Len(reqChan') : ~ reqChan'[i].cancel => reqChan'[i].call # h.call
      BY DequeueFacts DEF OnceInv
    <2> QED
      BY DequeueFacts, <1>2, <2>1 DEF ChanInv
  <1>5. OnceInv'
    <2> SUFFICES ASSUME NEW i \in 1 .. Len(reqChan'), NEW j \in 1 .. Len(reqChan'),
                        ~ reqChan'[i].cancel, ~ reqChan'[j].cancel,
                        reqChan'[i].call = reqChan'[j].call
                 PROVE  i = j
      BY DEF OnceInv
    <2>1. i + 1 = j + 1
      BY DequeueFacts DEF OnceInv
    <2> QED
      BY <2>1, DequeueFacts
  <1>6. CancelInv'
    BY CancelInvTail
  <1>7. MapInv'
    BY <1>1, <1>2 DEF MapInv
  <1>8. NoOrphan'
    <2> SUFFICES ASSUME NEW s \in Seqs, reqMap'[s] # None, pc[reqMap'[s]] = "timedout"
                 PROVE  \E j \in 1 .. Len(reqChan') : reqChan'[j].cancel /\ reqChan'[j].seq = s
      BY DEF NoOrphan, CancelQueued
    <2>1. \E j \in 1 .. Len(reqChan) : j > 1 /\ reqChan[j].cancel /\ reqChan[j].seq = s
      <3>1. CASE s = h.seq
        BY <3>1, <1>2, DequeueFacts DEF CancelInv
      <3>2. CASE s # h.seq
        <4>1. PICK j \in 1 .. Len(reqChan) : reqChan[j].cancel /\ reqChan[j].seq = s
          BY <3>2, <1>2 DEF NoOrphan, CancelQueued
        <4>2. j # 1
          BY <4>1, DequeueFacts
        <4> QED
          BY <4>1, <4>2
      <3> QED
        BY <3>1, <3>2
    <2>2. PICK j \in 1 .. Len(reqChan) : j > 1 /\ reqChan[j].cancel /\ reqChan[j].seq = s
      BY <2>1
    <2>3. j - 1 \in 1 .. Len(reqChan') /\ reqChan'[j - 1] = reqChan[j]
      BY <2>2, DequeueFacts
    <2> QED
      BY <2>2, <2>3
  <1>9. GaveUpInv'
    BY DequeueFacts DEF GaveUpInv
  <1> QED
    BY <1>3, <1>4, <1>5, <1>6, <1>7, <1>8, <1>9

\* The call a reply is put for leaves reqMap with it.
LEMMA PutReplyStep ==
  ASSUME CallInv, NEW n \in Calls, NEW rsp \in Calls, PutReply(n, rsp),
         SeqOf(rsp) = SeqOf(n), reqMap[SeqOf(n)] = n
  PROVE  CallInv'
  <1> USE DEF CallInv, PutReply
  <1>0. SeqOf(n) \in Seqs /\ n # None
    BY SeqOfType DEF Calls, None
  <1>1. \A s \in Seqs : reqMap'[s] = IF s = SeqOf(n) THEN None ELSE reqMap[s]
    BY <1>0 DEF TypeOKCalls
  <1>2. \A s \in Seqs : reqMap'[s] # n
    BY <1>0, <1>1 DEF MapInv
  <1>3. \A i \in 1 .. Len(reqChan) : ~ reqChan[i].cancel => reqChan[i].call # n
    BY <1>0 DEF ChanInv
  <1>4. pc[n] \in Outstanding
    BY <1>0 DEF MapInv
  <1>5. TypeOKCalls' /\ CounterInv' /\ SameSeqReply' /\ ResultInv'
    BY DEF TypeOKCalls, PcStates, CounterInv, SameSeqReply, ResultInv
  <1>6. FreshInv' /\ SlotInv'
    BY <1>4 DEF FreshInv, SlotInv, Outstanding, TypeOKCalls
  <1>7. ChanInv' /\ OnceInv' /\ CancelInv'
    BY <1>1, <1>3 DEF ChanInv, OnceInv, CancelInv, TypeOKCalls, Calls, None
  <1>8. MapInv'
    BY <1>1, <1>2 DEF MapInv, TypeOKCalls
  <1>9. NoOrphan'
    BY <1>1 DEF NoOrphan, CancelQueued
  <1>10. GaveUpInv'
    BY DEF GaveUpInv
  <1> QED
    BY <1>5, <1>6, <1>7, <1>8, <1>9, <1>10

\* What does not touch the callers keeps the invariant.
LEMMA StutterStep == ASSUME CallInv, UNCHANGED callVars PROVE CallInv'
  BY DEF CallInv, callVars, TypeOKCalls, CounterInv, FreshInv, ChanInv, OnceInv,
         CancelInv, MapInv, NoOrphan, CancelQueued, SlotInv, SameSeqReply,
         GaveUpInv, ResultInv

-----------------------------------------------------------------------------
\* Callers move only forward, and only GetReply empties a slot.
LEMMA CallersFacts ==
  ASSUME CallInv, Callers
  PROVE  /\ reqMap' = reqMap
         /\ \A n \in Calls : pc[n] # "idle" => pc'[n] # "idle"
         /\ \A n \in Calls : rspChan'[n] \in {rspChan[n], None}
  BY DEF Callers, CallerStep, StartCall, Enqueue, GetReply, Timeout, Cancel,
         CallInv, TypeOKCalls, CounterInv

(* KeepsWaiting, operation by operation.  No two calls share a sequence    *)
(* number, so an entry is overwritten or cancelled only by its own call.   *)
LEMMA KeepCallers == ASSUME CallInv, Callers PROVE KeepsWaiting
  BY CallersFacts DEF KeepsWaiting, Registered

LEMMA KeepTakeCancel == ASSUME NoWrap, CallInv, TakeCancel PROVE KeepsWaiting
  <1> SUFFICES ASSUME NEW n \in Calls, pc[n] = "waiting", NEW s \in Seqs, reqMap[s] = n
               PROVE  reqMap'[s] = n
    BY DEF KeepsWaiting, Registered
  <1>1. s = n
    BY NoWrap, SeqOfExact DEF CallInv, MapInv, Calls, None
  <1>2. PICK m \in Calls : pc[m] = "timedout" /\ SeqOf(m) = Head(reqChan).seq
    BY DequeueFacts DEF TakeCancel, CallInv, GaveUpInv
  <1>3. Head(reqChan).seq # s
    BY <1>1, <1>2, NoWrap, SeqOfExact
  <1> QED
    BY <1>3, DequeueFacts DEF TakeCancel, CallInv, TypeOKCalls

LEMMA KeepTakeRequest == ASSUME NoWrap, CallInv, TakeRequest PROVE KeepsWaiting
  <1> SUFFICES ASSUME NEW n \in Calls, pc[n] = "waiting", NEW s \in Seqs, reqMap[s] = n
               PROVE  reqMap'[s] = n
    BY DEF KeepsWaiting, Registered
  <1>1. s = n
    BY NoWrap, SeqOfExact DEF CallInv, MapInv, Calls, None
  <1>2. Head(reqChan).call \in Calls /\ Head(reqChan).seq = Head(reqChan).call
    BY DequeueFacts, NoWrap, SeqOfExact DEF TakeRequest, CallInv, ChanInv
  <1> QED
    BY <1>1, <1>2 DEF TakeRequest, CallInv, TypeOKCalls

LEMMA KeepPutReply ==
  ASSUME NoWrap, CallInv, NEW m \in Calls, NEW rsp \in Calls, PutReply(m, rsp)
  PROVE  KeepsWaiting
  <1> SUFFICES ASSUME NEW n \in Calls, pc[n] = "waiting", NEW s \in Seqs, reqMap[s] = n
               PROVE  reqMap'[s] = n \/ rspChan'[n] # None
    BY DEF KeepsWaiting, Registered
  <1>1. s = n /\ SeqOf(m) = m
    BY NoWrap, SeqOfExact DEF CallInv, MapInv, Calls, None
  <1> QED
    BY <1>1 DEF PutReply, CallInv, TypeOKCalls, Calls, None

-----------------------------------------------------------------------------
(* What the abstract service sees of the callers.                          *)
LEMMA AbstractInit ==
  InitCalls => AbsStatus = [n \in Calls |-> "idle"] /\ AbsReply = [n \in Calls |-> {}]
  BY DEF InitCalls, AbsStatus, AbsReply, StatusOf, ReplyOf

LEMMA AbstractStutter ==
  (pc' = pc => AbsStatus' = AbsStatus) /\ (result' = result => AbsReply' = AbsReply)
  BY DEF AbsStatus, AbsReply, StatusOf, ReplyOf

\* When one call moves, only its status does.
LEMMA StatusFacts ==
  ASSUME CallInv, NEW n \in Calls, NEW st \in PcStates, pc' = [pc EXCEPT ![n] = st]
  PROVE  AbsStatus' = [AbsStatus EXCEPT ![n] =
           IF st \in {"numbered", "waiting", "cancelling"} THEN "pending" ELSE st]
  BY DEF AbsStatus, StatusOf, CallInv, TypeOKCalls, PcStates

CallerIssues(n) ==
    /\ AbsStatus[n] = "idle"
    /\ AbsStatus' = [AbsStatus EXCEPT ![n] = "pending"]
    /\ AbsReply' = AbsReply
CallerAnswers(n) ==
    /\ AbsStatus[n] = "pending"
    /\ rspChan[n] = n
    /\ AbsStatus' = [AbsStatus EXCEPT ![n] = "answered"]
    /\ AbsReply' = [AbsReply EXCEPT ![n] = {n}]
CallerExpires(n) ==
    /\ AbsStatus[n] = "pending"
    /\ AbsStatus' = [AbsStatus EXCEPT ![n] = "timedout"]
    /\ AbsReply' = AbsReply

\* A step of a caller issues, answers or expires a call, or is internal.
LEMMA CallerView ==
  ASSUME NoWrap, CallInv, Callers
  PROVE  \/ UNCHANGED <<AbsStatus, AbsReply>>
         \/ \E n \in Calls : CallerIssues(n) \/ CallerAnswers(n) \/ CallerExpires(n)
  <1>1. CASE StartCall
    <2>1. calls + 1 \in Calls /\ pc[calls + 1] = "idle"
      BY <1>1, MaxCallsAssumption DEF StartCall, CallInv, CounterInv, TypeOKCalls, Calls
    <2>2. AbsStatus[calls + 1] = "idle"
      BY <2>1 DEF AbsStatus, StatusOf
    <2>3. CallerIssues(calls + 1)
      BY <1>1, <2>1, <2>2, StatusFacts, AbstractStutter DEF StartCall, CallerIssues, PcStates
    <2> QED
      BY <2>1, <2>3
  <1>2. ASSUME NEW n \in Calls, Enqueue(n) \/ Timeout(n) PROVE UNCHANGED <<AbsStatus, AbsReply>>
    <2>1. AbsStatus' = AbsStatus
      BY <1>2 DEF Enqueue, Timeout, AbsStatus, StatusOf, CallInv, TypeOKCalls
    <2> QED
      BY <1>2, <2>1, AbstractStutter DEF Enqueue, Timeout
  <1>3. ASSUME NEW n \in Calls, GetReply(n) PROVE CallerAnswers(n)
    <2>1. rspChan[n] = n
      BY <1>3, NoWrap, SeqOfExact DEF GetReply, CallInv, TypeOKCalls, SlotInv
    <2>2. AbsStatus[n] = "pending"
      BY <1>3 DEF GetReply, AbsStatus, StatusOf
    <2>3. AbsStatus' = [AbsStatus EXCEPT ![n] = "answered"]
      BY <1>3, StatusFacts DEF GetReply, PcStates
    <2>4. AbsReply' = [AbsReply EXCEPT ![n] = {n}]
      BY <1>3, <2>1 DEF GetReply, AbsReply, ReplyOf, CallInv, TypeOKCalls, None, Calls
    <2> QED
      BY <2>1, <2>2, <2>3, <2>4 DEF CallerAnswers
  <1>4. ASSUME NEW n \in Calls, Cancel(n) PROVE CallerExpires(n)
    <2>1. AbsStatus[n] = "pending"
      BY <1>4 DEF Cancel, AbsStatus, StatusOf
    <2>2. AbsStatus' = [AbsStatus EXCEPT ![n] = "timedout"]
      BY <1>4, StatusFacts DEF Cancel, PcStates
    <2> QED
      BY <1>4, <2>1, <2>2, AbstractStutter DEF Cancel, CallerExpires
  <1> QED
    BY <1>1, <1>2, <1>3, <1>4 DEF Callers, CallerStep
=============================================================================

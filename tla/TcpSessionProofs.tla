-------------------------- MODULE TcpSessionProofs --------------------------
(***************************************************************************)
(* Theorems about TcpSession, for every number of packages and every       *)
(* channel capacity: how a session ends (EndInv) and where a package is    *)
(* (PlaceInv); and about the TimingWheel its timeouts come from, for every *)
(* number of waiters and every size.                                       *)
(***************************************************************************)
EXTENDS TcpSession, TimingWheel, TLAPS

\* closed and stopSessionChan move together, no loop runs before Start and no
\* loop leaves before the session is closed.
EndInv ==
    /\ closed = -1 => recvLoop = "off" /\ sendLoop = "off" /\ pkgLoop = "off"
    /\ closed = 1 <=> stopChan # "open"
    /\ ClosedOnce
    /\ LeaverCloses

\* What has been read but not pushed keeps recvLoop in the unpack handler.
PlaceInv ==
    /\ read <= sent
    /\ pushed < read <=> recvLoop = "push"
    /\ OnePlace

\* sendLoop writes a reply.
WriteInv == sendLoop = "write" => writing \in Pkgs

IInv == TypeOK /\ EndInv /\ PlaceInv /\ WriteInv

-----------------------------------------------------------------------------
\* What Append and Tail do to a channel of packages.
LEMMA ChanFacts ==
  ASSUME NEW ch \in Seq(Pkgs)
  PROVE  /\ Len(ch) \in Nat
         /\ \A i \in 1 .. Len(ch) : ch[i] \in Pkgs
         /\ \A p \in Pkgs :
              /\ Append(ch, p) \in Seq(Pkgs)
              /\ Len(Append(ch, p)) = Len(ch) + 1
              /\ \A i \in 1 .. Len(ch) : Append(ch, p)[i] = ch[i]
              /\ Append(ch, p)[Len(ch) + 1] = p
         /\ ch # <<>> =>
              /\ Head(ch) = ch[1] /\ Head(ch) \in Pkgs
              /\ Tail(ch) \in Seq(Pkgs)
              /\ Len(ch) >= 1
              /\ Len(Tail(ch)) = Len(ch) - 1
              /\ \A i \in 1 .. Len(ch) - 1 : Tail(ch)[i] = ch[i + 1]
  OBVIOUS

LEMMA InitIInv == Init => IInv
  <1> SUFFICES ASSUME Init PROVE IInv
    OBVIOUS
  <1>1. TypeOK
    BY MaxPkgsAssumption, IdleLimitAssumption DEF Init, TypeOK, Pkgs, None
  <1>2. EndInv
    BY DEF Init, EndInv, ClosedOnce, LeaverCloses
  <1>3. PlaceInv
    BY MaxPkgsAssumption DEF Init, PlaceInv, OnePlace, Pkgs
  <1>4. WriteInv
    BY DEF Init, WriteInv
  <1> QED
    BY <1>1, <1>2, <1>3, <1>4 DEF IInv

LEMMA StartIInv == ASSUME IInv, Start PROVE IInv'
  BY DEF IInv, TypeOK, EndInv, ClosedOnce, LeaverCloses, PlaceInv, OnePlace,
         WriteInv, Start, chans, input, clock, client

LEMMA RecvReadIInv == ASSUME IInv, RecvRead PROVE IInv'
  <1> USE DEF IInv, RecvRead, session, chans, client
  <1>1. TypeOK'
    BY MaxPkgsAssumption, IdleLimitAssumption DEF TypeOK
  <1>2. EndInv'
    BY DEF EndInv, ClosedOnce, LeaverCloses
  <1>3. PlaceInv'
    BY MaxPkgsAssumption DEF PlaceInv, OnePlace, TypeOK
  <1> QED
    BY <1>1, <1>2, <1>3 DEF WriteInv, TypeOK

LEMMA RecvPushIInv == ASSUME IInv, RecvPush PROVE IInv'
  <1> USE DEF IInv, RecvPush, session, clock, client
  <1>1. pushed + 1 \in Pkgs /\ pushed + 1 <= read
    BY MaxPkgsAssumption DEF TypeOK, PlaceInv, Pkgs
  <1>2. pkgChan' \in Seq(Pkgs) /\ Len(pkgChan') = Len(pkgChan) + 1
    BY <1>1, ChanFacts DEF TypeOK
  <1>3. TypeOK'
    BY <1>1, <1>2, MaxPkgsAssumption DEF TypeOK, Pkgs
  <1>4. EndInv'
    BY DEF EndInv, ClosedOnce, LeaverCloses
  <1>5. PlaceInv'
    <2>1. \A i \in 1 .. Len(pkgChan') : pkgChan'[i] = pushed' - Len(pkgChan') + i
      BY <1>1, <1>2, ChanFacts DEF TypeOK, PlaceInv, OnePlace
    <2>2. pushed' - Len(pkgChan') = pushed - Len(pkgChan)
      BY <1>2, ChanFacts DEF TypeOK
    <2> QED
      BY <1>1, <2>1, <2>2 DEF TypeOK, PlaceInv, OnePlace
  <1> QED
    BY <1>3, <1>4, <1>5 DEF WriteInv

LEMMA RecvFailIInv == ASSUME IInv, RecvFail PROVE IInv'
  <1> USE DEF IInv, RecvFail, Close, session, chans, input, clock, client
  <1>1. TypeOK'
    BY DEF TypeOK
  <1>2. EndInv'
    BY DEF EndInv, ClosedOnce, LeaverCloses, TypeOK
  <1>3. PlaceInv'
    BY DEF PlaceInv, OnePlace
  <1> QED
    BY <1>1, <1>2, <1>3 DEF WriteInv

-----------------------------------------------------------------------------
LEMMA SendLoopIInv == ASSUME IInv, SendLoop PROVE IInv'
  <1> USE DEF IInv, Close, session, chans, input, clock, client
  <1>1. CASE SendTake
    <2>1. TypeOK' /\ writing' \in Pkgs
      BY <1>1, ChanFacts DEF SendTake, TypeOK
    <2> QED
      BY <1>1, <2>1 DEF SendTake, EndInv, ClosedOnce, LeaverCloses, PlaceInv, OnePlace, WriteInv
  <1>2. CASE SendWrite
    <2>1. toClient' \in Seq(Pkgs)
      BY <1>2, ChanFacts DEF SendWrite, TypeOK, WriteInv
    <2> QED
      BY <1>2, <2>1 DEF SendWrite, TypeOK, EndInv, ClosedOnce, LeaverCloses, PlaceInv, OnePlace, WriteInv
  <1>3. CASE SendFail
    BY <1>3 DEF SendFail, TypeOK, EndInv, ClosedOnce, LeaverCloses, PlaceInv, OnePlace, WriteInv
  <1>4. CASE SendCheck
    BY <1>4 DEF SendCheck, TypeOK, EndInv, ClosedOnce, LeaverCloses, PlaceInv, OnePlace, WriteInv
  <1>5. CASE SendStop
    BY <1>5 DEF SendStop, TypeOK, EndInv, ClosedOnce, LeaverCloses, PlaceInv, OnePlace, WriteInv
  <1> QED
    BY <1>1, <1>2, <1>3, <1>4, <1>5 DEF SendLoop

-----------------------------------------------------------------------------
LEMMA PkgLoopIInv == ASSUME IInv, PkgLoop PROVE IInv'
  <1> USE DEF IInv, session, input, clock, client
  <1>1. CASE PkgTake
    <2>1. TypeOK'
      BY <1>1, ChanFacts DEF PkgTake, loops, TypeOK
    <2>2. EndInv' /\ WriteInv'
      BY <1>1 DEF PkgTake, loops, EndInv, ClosedOnce, LeaverCloses, WriteInv
    <2>3. PlaceInv'
      <3>1. /\ Len(pkgChan) \in Nat /\ Len(pkgChan') = Len(pkgChan) - 1
            /\ Head(pkgChan) \in Pkgs
            /\ Head(pkgChan) = pushed - Len(pkgChan) + 1
            /\ \A i \in 1 .. Len(pkgChan') : pkgChan'[i] = pkgChan[i + 1]
        BY <1>1, ChanFacts DEF PkgTake, TypeOK, PlaceInv, OnePlace
      <3>2. \A i \in 1 .. Len(pkgChan') : pkgChan'[i] = pushed' - Len(pkgChan') + i
        BY <1>1, <3>1 DEF PkgTake, TypeOK, PlaceInv, OnePlace
      <3>3. \A p \in Pkgs : handler'[p] # "none" <=> p <= pushed' - Len(pkgChan')
        <4>1. \A p \in Pkgs : p \in Int
                /\ handler'[p] = IF p = Head(pkgChan) THEN "running" ELSE handler[p]
          BY <1>1 DEF PkgTake, TypeOK, Pkgs
        <4>2. \A p \in Pkgs : handler[p] # "none" <=> p <= pushed - Len(pkgChan)
          BY DEF PlaceInv, OnePlace
        <4>3. pushed' = pushed /\ pushed \in Int
          BY <1>1 DEF PkgTake, TypeOK
        <4> QED
          BY <3>1, <4>1, <4>2, <4>3
      <3> QED
        BY <1>1, <3>2, <3>3 DEF PkgTake, loops, PlaceInv, OnePlace
    <2> QED
      BY <2>1, <2>2, <2>3
  <1>2. CASE PkgStop
    BY <1>2 DEF PkgStop, chans, TypeOK, EndInv, ClosedOnce, LeaverCloses, PlaceInv,
                OnePlace, WriteInv
  <1> QED
    BY <1>1, <1>2 DEF PkgLoop

\* Whatever AsyncSend returns, the package keeps having had its handler.
LEMMA AsyncSendIInv == ASSUME IInv, NEW p \in Pkgs, AsyncSend(p) PROVE IInv'
  <1> USE DEF IInv, AsyncSend, session, loops, input, clock, client
  <1>1. TypeOK'
    <2>0. handler \in [Pkgs -> {"none", "running", "ok", "stopped", "full", "quiet"}]
          /\ sendChan \in Seq(Pkgs)
      BY DEF TypeOK
    <2>1. sendChan' \in Seq(Pkgs)
      <3>1. sendChan' = sendChan \/ sendChan' = Append(sendChan, p)
        BY Zenon
      <3>2. Append(sendChan, p) \in Seq(Pkgs)
        BY ONLY <2>0, ChanFacts, p \in Pkgs
      <3> QED
        BY ONLY <2>0, <3>1, <3>2
    <2>2. handler' \in [Pkgs -> {"none", "running", "ok", "stopped", "full", "quiet"}]
      <3>1. handler' = handler
            \/ \E r \in {"ok", "stopped", "full"} : handler' = [handler EXCEPT ![p] = r]
        BY Zenon
      <3> QED
        BY <2>0, <3>1
    <2> QED
      BY <2>1, <2>2 DEF TypeOK
  <1>2. EndInv' /\ WriteInv'
    BY DEF EndInv, ClosedOnce, LeaverCloses, WriteInv
  <1>3. PlaceInv'
    BY DEF PlaceInv, OnePlace, TypeOK
  <1> QED
    BY <1>1, <1>2, <1>3

LEMMA NoAnswerIInv == ASSUME IInv, NEW p \in Pkgs, NoAnswer(p) PROVE IInv'
  BY DEF IInv, NoAnswer, TypeOK, EndInv, ClosedOnce, LeaverCloses, PlaceInv, OnePlace,
         WriteInv, session, loops, input, clock, client

LEMMA ClientIInv == ASSUME IInv, Client \/ Tick PROVE IInv'
  <1> USE DEF IInv, session, loops, chans
  <1>1. TypeOK'
    <2>1. CASE ClientSend
      BY <2>1, MaxPkgsAssumption DEF ClientSend, TypeOK, clock, client
    <2>2. CASE ClientRead
      <3>1. toClient \in Seq(Pkgs) /\ gotten \in SUBSET Pkgs
        BY DEF TypeOK
      <3>2. toClient # <<>> /\ toClient' = Tail(toClient) /\ gotten' = gotten \union {Head(toClient)}
        BY <2>2 DEF ClientRead
      <3>3. toClient' \in Seq(Pkgs) /\ gotten' \in SUBSET Pkgs
        <4>1. Head(toClient) \in Pkgs /\ Tail(toClient) \in Seq(Pkgs)
          BY <3>1, <3>2, ChanFacts, Zenon
        <4>2. gotten \union {Head(toClient)} \in SUBSET Pkgs
          BY ONLY <3>1, <4>1
        <4> QED
          BY <3>2, <4>1, <4>2, Zenon
      <3> QED
        BY <2>2, <3>3 DEF ClientRead, TypeOK, clock, input
    <2>3. CASE ClientClose
      <3>1. peerOpen' = FALSE /\ UNCHANGED <<session, loops, chans, input, clock, toClient, gotten>>
        BY <2>3, Zenon DEF ClientClose
      <3>2. peerOpen' \in BOOLEAN
        BY <3>1, Zenon
      <3> QED
        BY <3>1, <3>2 DEF TypeOK, clock, input
    <2>4. CASE Tick
      BY <2>4, IdleLimitAssumption DEF Tick, TypeOK, input, client
    <2> QED
      BY <2>1, <2>2, <2>3, <2>4 DEF Client
  <1>2. EndInv' /\ WriteInv'
    BY DEF Client, ClientSend, ClientRead, ClientClose, Tick, EndInv, ClosedOnce,
           LeaverCloses, WriteInv
  <1>3. PlaceInv'
    BY MaxPkgsAssumption DEF Client, ClientSend, ClientRead, ClientClose, Tick,
           PlaceInv, OnePlace, TypeOK, input
  <1> QED
    BY <1>1, <1>2, <1>3

-----------------------------------------------------------------------------
LEMMA NextIInv == IInv /\ [Next]_vars => IInv'
  <1> SUFFICES ASSUME IInv, [Next]_vars PROVE IInv'
    OBVIOUS
  <1>1. CASE UNCHANGED vars
    BY <1>1 DEF IInv, TypeOK, EndInv, ClosedOnce, LeaverCloses, PlaceInv, OnePlace,
                WriteInv, vars, session, loops, chans, input, clock, client
  <1>2. CASE RecvLoop
    BY <1>2, RecvReadIInv, RecvPushIInv, RecvFailIInv DEF RecvLoop
  <1> QED
    BY <1>1, <1>2, StartIInv, SendLoopIInv, PkgLoopIInv, AsyncSendIInv, NoAnswerIInv,
       ClientIInv DEF Next

LEMMA SpecIInv == SafeSpec => []IInv
  BY InitIInv, NextIInv, PTL DEF SafeSpec

\* The loops, the channels and the handlers keep their types.
THEOREM SessionTypeOK == SafeSpec => []TypeOK
  BY SpecIInv, PTL DEF IInv

\* Close, deferred by both recvLoop and sendLoop, in either order closes
\* stopSessionChan once: Close never panics.
THEOREM SessionClosedOnce == SafeSpec => []ClosedOnce
  <1>1. IInv => ClosedOnce
    BY DEF IInv, EndInv
  <1> QED
    BY <1>1, SpecIInv, PTL

\* The loop that leaves first has closed the session: the others are told.
THEOREM SessionLeaverCloses == SafeSpec => []LeaverCloses
  <1>1. IInv => LeaverCloses
    BY DEF IInv, EndInv
  <1> QED
    BY <1>1, SpecIInv, PTL

\* From Read to its goroutine a package is neither lost, doubled nor overtaken.
THEOREM SessionOnePlace == SafeSpec => []OnePlace
  <1>1. IInv => OnePlace
    BY DEF IInv, PlaceInv
  <1> QED
    BY <1>1, SpecIInv, PTL

-----------------------------------------------------------------------------
(* The timing wheel.                                                       *)

Slot(i) == (pos + i) % Buckets

WheelInv ==
    /\ made = swaps + Buckets
    /\ \A i \in Index : cs[Slot(i)] = swaps + i

ClosedInv ==
    /\ run = "close" => lastC = swaps - 1
    /\ \A c \in Nat : c \in closedCs <=> c < swaps /\ ~ (run = "close" /\ c = lastC)

WaitInv == \A w \in Waiters : Given(w) =>
    /\ wait[w].c = wait[w].tick + wait[w].k
    /\ wait[w].state = "fired" => wait[w].c \in closedCs

\* Ticks worked off since a call, in hand and in the channel: two of them may
\* be older than the call.
PaceInv == \A w \in Waiters : Given(w) =>
    Swaps(w) + (IF run = "tick" THEN 1 ELSE 0) + tickerC <= now - wait[w].at + 2

TurnInv == WheelTypes /\ WheelInv /\ ClosedInv /\ WaitInv /\ PaceInv

-----------------------------------------------------------------------------
\* A remainder within two turns.
LEMMA ModFacts == \A a \in 0 .. 2 * Buckets - 1 :
    a % Buckets = IF a < Buckets THEN a ELSE a - Buckets
  <1>1. ASSUME NEW n \in Nat \ {0}, NEW a \in 0 .. n - 1 PROVE a % n = a
    OBVIOUS
  <1>2. ASSUME NEW n \in Nat \ {0}, NEW a \in n .. n + n - 1 PROVE a % n = a - n
    OBVIOUS
  <1> QED
    BY <1>1, <1>2, BucketsAssumption

\* The slots ahead of the wheel, before and after it moves by one.
LEMMA SlotFacts ==
  ASSUME pos \in Index
  PROVE  /\ \A i \in Index : Slot(i) \in Index
         /\ Slot(0) = pos
         /\ (pos + 1) % Buckets \in Index
         /\ \A i \in Index : i + 1 \in Index =>
              /\ (((pos + 1) % Buckets) + i) % Buckets = Slot(i + 1)
              /\ Slot(i + 1) # pos
         /\ (((pos + 1) % Buckets) + (Buckets - 1)) % Buckets = pos
  BY ModFacts, BucketsAssumption DEF Slot, Index

LEMMA WheelInitInv == WheelInit => TurnInv
  <1> SUFFICES ASSUME WheelInit PROVE TurnInv
    OBVIOUS
  <1> USE DEF WheelInit
  <1>0. \A i \in Index : i \in Nat /\ i \in 0 .. 2 * Buckets - 1 /\ i < Buckets
    BY BucketsAssumption DEF Index
  <1>1. WheelTypes
    <2>1. cs \in [Index -> Nat] /\ pos \in Index
      BY <1>0, BucketsAssumption DEF Index
    <2>2. wait \in [Waiters -> [state : {"idle", "waiting", "fired", "panic"},
                                 k : Nat, at : Nat, tick : Nat, c : Nat]]
      BY DEF NoCall
    <2> QED
      BY <2>1, <2>2, BucketsAssumption DEF WheelTypes
  <1>2. WheelInv
    <2>1. \A i \in Index : Slot(i) = i
      BY <1>0, ModFacts DEF Slot
    <2> QED
      BY <1>0, <2>1, BucketsAssumption DEF WheelInv
  <1>3. ClosedInv /\ WaitInv /\ PaceInv
    BY DEF ClosedInv, WaitInv, PaceInv, Given, NoCall
  <1> QED
    BY <1>1, <1>2, <1>3 DEF TurnInv

LEMMA TickerInv == ASSUME TurnInv, TickerTick PROVE TurnInv'
  <1> USE DEF TurnInv, TickerTick, ring
  <1>1. WheelTypes'
    BY DEF WheelTypes
  <1>2. WheelInv' /\ ClosedInv' /\ WaitInv'
    BY DEF WheelInv, Slot, ClosedInv, WaitInv, Given
  <1>3. PaceInv'
    BY DEF PaceInv, Given, Swaps, WheelTypes
  <1> QED
    BY <1>1, <1>2, <1>3

\* After hands out the channel k places ahead.
LEMMA AfterInv ==
  ASSUME TurnInv, NEW w \in Waiters, NEW k \in 0 .. MaxTimeout, After(w, k) PROVE TurnInv'
  <1> USE DEF TurnInv, After, ring
  <1>0. k \in Nat /\ (~ TooMuch(k) => k \in Index)
    BY MaxTimeoutAssumption, BucketsAssumption DEF TooMuch, Index
  <1>1. ~ TooMuch(k) => cs[(pos + k) % Buckets] = swaps + k
    BY <1>0 DEF WheelInv, Slot
  <1>2. WheelTypes'
    BY <1>0, <1>1 DEF WheelTypes
  <1>3. WheelInv' /\ ClosedInv'
    BY DEF WheelInv, Slot, ClosedInv
  <1>4. WaitInv'
    BY <1>1 DEF WaitInv, Given, WheelTypes
  <1>5. PaceInv'
    BY DEF PaceInv, Given, Swaps, WheelTypes
  <1> QED
    BY <1>2, <1>3, <1>4, <1>5

LEMMA WakeInv == ASSUME TurnInv, NEW w \in Waiters, Wake(w) PROVE TurnInv'
  <1> USE DEF TurnInv, Wake, ring
  <1>1. WheelTypes'
    BY DEF WheelTypes
  <1>2. WheelInv' /\ ClosedInv'
    BY DEF WheelInv, Slot, ClosedInv
  <1>3. WaitInv' /\ PaceInv'
    BY DEF WaitInv, PaceInv, Given, Swaps, WheelTypes
  <1> QED
    BY <1>1, <1>2, <1>3

LEMMA RunTickInv == ASSUME TurnInv, RunTick PROVE TurnInv'
  <1> USE DEF TurnInv, RunTick, ring
  <1>1. WheelTypes'
    BY DEF WheelTypes
  <1>2. WheelInv' /\ ClosedInv' /\ WaitInv'
    BY DEF WheelInv, Slot, ClosedInv, WaitInv, Given
  <1>3. PaceInv'
    BY DEF PaceInv, Given, Swaps, WheelTypes
  <1> QED
    BY <1>1, <1>2, <1>3

\* The slot the wheel leaves becomes the last of those ahead.
LEMMA RunSwapInv == ASSUME TurnInv, RunSwap PROVE TurnInv'
  <1> USE DEF TurnInv, RunSwap
  <1>0. pos \in Index /\ swaps \in Nat /\ cs \in [Index -> Nat] /\ Buckets \in Nat \ {0}
    BY BucketsAssumption DEF WheelTypes
  <1>1. cs[pos] = swaps
    BY <1>0, SlotFacts DEF WheelInv, Index
  <1>2. WheelTypes'
    BY <1>0, SlotFacts DEF WheelTypes
  <1>3. WheelInv'
    <2>1. made' = swaps' + Buckets
      BY <1>0 DEF WheelInv
    <2>2. ASSUME NEW i \in Index PROVE cs'[(pos' + i) % Buckets] = swaps' + i
      <3>1. CASE i + 1 \in Index
        <4>1. (pos' + i) % Buckets = Slot(i + 1) /\ Slot(i + 1) # pos /\ Slot(i + 1) \in Index
          BY <1>0, <3>1, SlotFacts
        <4> QED
          BY <1>0, <3>1, <4>1 DEF WheelInv, Index
      <3>2. CASE i = Buckets - 1
        <4>1. (pos' + i) % Buckets = pos
          BY <1>0, <3>2, SlotFacts
        <4> QED
          BY <1>0, <3>2, <4>1 DEF WheelInv
      <3> QED
        BY <1>0, <3>1, <3>2 DEF Index
    <2> QED
      BY <2>1, <2>2 DEF WheelInv, Slot
  <1>4. ClosedInv'
    BY <1>0, <1>1 DEF ClosedInv
  <1>5. WaitInv'
    BY DEF WaitInv, Given
  <1>6. PaceInv'
    BY DEF PaceInv, Given, Swaps, WheelTypes
  <1> QED
    BY <1>2, <1>3, <1>4, <1>5, <1>6

LEMMA RunCloseInv == ASSUME TurnInv, RunClose PROVE TurnInv'
  <1> USE DEF TurnInv, RunClose, ring
  <1>1. WheelTypes'
    BY DEF WheelTypes
  <1>2. WheelInv'
    BY DEF WheelInv, Slot
  <1>3. ClosedInv'
    BY DEF ClosedInv, WheelTypes
  <1>4. WaitInv'
    BY DEF WaitInv, Given
  <1>5. PaceInv'
    BY DEF PaceInv, Given, Swaps, WheelTypes
  <1> QED
    BY <1>1, <1>2, <1>3, <1>4, <1>5

LEMMA StopInv == ASSUME TurnInv, RunQuit \/ Stop \/ UNCHANGED wheelVars PROVE TurnInv'
  <1> USE DEF TurnInv, RunQuit, Stop, wheelVars, ring
  <1>1. WheelTypes'
    BY DEF WheelTypes
  <1>2. WheelInv' /\ ClosedInv'
    BY DEF WheelInv, Slot, ClosedInv
  <1>3. WaitInv' /\ PaceInv'
    BY DEF WaitInv, PaceInv, Given, Swaps
  <1> QED
    BY <1>1, <1>2, <1>3

LEMMA WheelSpecInv == WheelSpec => []TurnInv
  <1>1. ASSUME TurnInv, [WheelNext]_wheelVars PROVE TurnInv'
    BY <1>1, TickerInv, AfterInv, WakeInv, RunTickInv, RunSwapInv, RunCloseInv, StopInv
    DEF WheelNext, Run
  <1> QED
    BY <1>1, WheelInitInv, PTL DEF WheelSpec

-----------------------------------------------------------------------------
\* Every variable keeps its type (TimingWheel).
THEOREM WheelTypeOK == WheelSpec => []WheelTypes
  <1>1. TurnInv => WheelTypes
    BY DEF TurnInv
  <1> QED
    BY <1>1, WheelSpecInv, PTL

\* After(timeout) never wakes its caller before the wheel has turned
\* timeout / interval + 1 times (After, onTicker).
THEOREM WheelNeverEarly == WheelSpec => []NeverEarly
  <1>1. TurnInv => NeverEarly
    BY DEF TurnInv, WheelTypes, ClosedInv, WaitInv, Given, NeverEarly, Swaps
  <1> QED
    BY <1>1, WheelSpecInv, PTL

\* No wake-up is lost between the lock of After and the close outside the lock
\* of onTicker.
THEOREM WheelFiresInTime == WheelSpec => []FiresInTime
  <1>1. TurnInv => FiresInTime
    BY DEF TurnInv, WheelTypes, ClosedInv, WaitInv, Given, FiresInTime, Swaps
  <1> QED
    BY <1>1, WheelSpecInv, PTL

\* onTicker closes no channel twice.
THEOREM WheelNeverClosedTwice == WheelSpec => []NeverClosedTwice
  <1>1. TurnInv => NeverClosedTwice
    BY DEF TurnInv, WheelTypes, ClosedInv, NeverClosedTwice
  <1> QED
    BY <1>1, WheelSpecInv, PTL

\* A caller of After is woken at most two intervals early, however late run
\* works the ticks off.
THEOREM WheelAlmostPunctual == WheelSpec => []AlmostPunctual
  <1>1. TurnInv => AlmostPunctual
    BY DEF TurnInv, WheelTypes, ClosedInv, WaitInv, PaceInv, Given, AlmostPunctual, Swaps
  <1> QED
    BY <1>1, WheelSpecInv, PTL
=============================================================================

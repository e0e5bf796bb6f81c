----------------------------- MODULE TcpSession -----------------------------
(***************************************************************************)
(* xman_session.go: one TCPSession of a TCPServer, its three goroutines,   *)
(* the handler goroutines they start, and a client that sends packages,    *)
(* reads replies or does not, goes silent or closes.                       *)
(*                                                                         *)
(*   client -> recvLoop --pkgChan--> pkgChanLoop -> one goroutine a package*)
(*   client <- sendLoop <--sendChan-- AsyncSend  <-- that goroutine        *)
(*                                                                         *)
(* Packages are numbered in the order the client sends them; the reply to  *)
(* p is p.  Time is counted in sessionCheck periods (10 s): how long the   *)
(* client has been silent and how long the timer of the select has run,    *)
(* both only as far as the code can tell the difference.                   *)
(***************************************************************************)
EXTENDS Integers, Sequences

CONSTANTS
    MaxPkgs,        \* bound: packages the client sends
    SendChanSize,   \* capacity of pkgChan and of sendChan
    NetCap,         \* replies the stream to the client holds
    IdleLimit       \* sessionTimeout / sessionCheck, 12 in the code

ASSUME MaxPkgsAssumption      == MaxPkgs \in Nat
ASSUME SendChanSizeAssumption == SendChanSize \in Nat \ {0}
ASSUME NetCapAssumption       == NetCap \in Nat \ {0}
ASSUME IdleLimitAssumption    == IdleLimit \in Nat \ {0}

Pkgs == 1 .. MaxPkgs
None == 0

VARIABLES
    closed,         \* -1 before Start, 0 open, 1 closed
    stopChan,       \* stopSessionChan: "open", "closed"; "panic" if closed twice
    recvLoop,       \* "off", "read", "push" (in the unpack handler) or "done"
    sendLoop,       \* "off", "select", "write" or "done"
    pkgLoop,        \* pkgChanLoop: "off", "select" or "done"
    pkgChan,        \* FIFO of packages
    sendChan,       \* FIFO of replies
    writing,        \* the reply sendLoop is writing, or None
    handler,        \* handler[p]: none yet, running, quiet or what AsyncSend returned
    sent,           \* packages the client has sent
    read,           \* packages recvLoop has read
    pushed,         \* packages the unpack handler has pushed
    silent,         \* periods since the last Read, up to IdleLimit + 1
    timer,          \* periods since the select of sendLoop was entered, up to 1
    toClient,       \* replies written that the client has not read
    gotten,         \* replies the client has read
    peerOpen        \* the client has not closed its end

loops  == <<recvLoop, sendLoop, pkgLoop>>
chans  == <<pkgChan, sendChan, writing, handler>>
input  == <<sent, read, pushed>>
clock  == <<silent, timer>>
client == <<toClient, gotten, peerOpen>>
session == <<closed, stopChan>>
vars == <<session, loops, chans, input, clock, client>>

Init ==
    /\ closed   = -1
    /\ stopChan = "open"
    /\ recvLoop = "off"
    /\ sendLoop = "off"
    /\ pkgLoop  = "off"
    /\ pkgChan  = <<>>
    /\ sendChan = <<>>
    /\ writing  = None
    /\ handler  = [p \in Pkgs |-> "none"]
    /\ sent     = 0
    /\ read     = 0
    /\ pushed   = 0
    /\ silent   = 0
    /\ timer    = 0
    /\ toClient = <<>>
    /\ gotten   = {}
    /\ peerOpen = TRUE

TypeOK ==
    /\ closed   \in {-1, 0, 1}
    /\ stopChan \in {"open", "closed", "panic"}
    /\ recvLoop \in {"off", "read", "push", "done"}
    /\ sendLoop \in {"off", "select", "write", "done"}
    /\ pkgLoop  \in {"off", "select", "done"}
    /\ pkgChan  \in Seq(Pkgs)
    /\ sendChan \in Seq(Pkgs)
    /\ writing  \in Pkgs \union {None}
    /\ handler  \in [Pkgs -> {"none", "running", "ok", "stopped", "full", "quiet"}]
    /\ sent     \in 0 .. MaxPkgs
    /\ read     \in 0 .. MaxPkgs
    /\ pushed   \in 0 .. MaxPkgs
    /\ silent   \in 0 .. IdleLimit + 1
    /\ timer    \in {0, 1}
    /\ toClient \in Seq(Pkgs)
    /\ gotten   \in SUBSET Pkgs
    /\ peerOpen \in BOOLEAN

Room(ch) == Len(ch) < SendChanSize

-----------------------------------------------------------------------------
\* Closing without looking who closed before.
MutCloseTwice ==
    /\ closed' = 1
    /\ stopChan' = IF stopChan = "open" THEN "closed" ELSE "panic"

\* Marking the session closed without waking the other loops.
MutCloseQuiet == closed' = 1 /\ UNCHANGED stopChan

\* if CompareAndSwap(closed, 0, 1): close the socket and stopSessionChan.
Close ==
    IF closed = 0
    THEN /\ closed' = 1
         /\ stopChan' = IF stopChan = "open" THEN "closed" ELSE "panic"
    ELSE UNCHANGED session

\* CompareAndSwap(closed, -1, 0), then the three loops.
Start ==
    /\ closed = -1
    /\ closed' = 0
    /\ recvLoop' = "read"
    /\ sendLoop' = "select"
    /\ pkgLoop' = "select"
    /\ UNCHANGED <<stopChan, chans, input, clock, client>>

-----------------------------------------------------------------------------
(* recvLoop                                                                *)

\* conn.Read returns bytes that complete no package, or some packages, which
\* the unpack handler then pushes one by one.
RecvRead ==
    /\ recvLoop = "read"
    /\ closed = 0
    /\ read < sent
    /\ \E n \in read .. sent :
         /\ read' = n
         /\ recvLoop' = IF n = read THEN "read" ELSE "push"
    /\ silent' = 0
    /\ UNCHANGED <<session, sendLoop, pkgLoop, chans, sent, pushed, timer, client>>

\* The unpack handler sends on pkgChan and blocks while it is full.
RecvPush ==
    /\ recvLoop = "push"
    /\ Room(pkgChan)
    /\ pkgChan' = Append(pkgChan, pushed + 1)
    /\ pushed' = pushed + 1
    /\ recvLoop' = IF pushed + 1 = read THEN "read" ELSE "push"
    /\ UNCHANGED <<session, sendLoop, pkgLoop, sendChan, writing, handler, sent, read,
                   clock, client>>

\* Close leaving the socket open: only the client can end the Read.
MutRecvFailPeer ==
    /\ recvLoop = "read"
    /\ ~ peerOpen
    /\ recvLoop' = "done"
    /\ Close
    /\ UNCHANGED <<sendLoop, pkgLoop, chans, input, clock, client>>

\* EOF, a reset, or the socket closed by sendLoop; then the deferred Close.
RecvFail ==
    /\ recvLoop = "read"
    /\ closed = 1 \/ ~ peerOpen
    /\ recvLoop' = "done"
    /\ Close
    /\ UNCHANGED <<sendLoop, pkgLoop, chans, input, clock, client>>

-----------------------------------------------------------------------------
(* sendLoop: every turn of the loop asks the timing wheel for a new timer. *)

\* case sendbuf = <-s.sendChan
SendTake ==
    /\ sendLoop = "select"
    /\ sendChan # <<>>
    /\ writing' = Head(sendChan)
    /\ sendChan' = Tail(sendChan)
    /\ sendLoop' = "write"
    /\ UNCHANGED <<session, recvLoop, pkgLoop, pkgChan, handler, input, clock, client>>

\* A short write taken for a success.
MutSendWriteLoses ==
    /\ sendLoop = "write"
    /\ closed = 0
    /\ Len(toClient) < NetCap
    /\ writing' = None
    /\ sendLoop' = "select"
    /\ timer' = 0
    /\ UNCHANGED <<session, recvLoop, pkgLoop, pkgChan, sendChan, handler, input, silent,
                   toClient, gotten, peerOpen>>

\* conn.Write, which has no deadline and blocks while the stream is full.
SendWrite ==
    /\ sendLoop = "write"
    /\ closed = 0
    /\ Len(toClient) < NetCap
    /\ toClient' = Append(toClient, writing)
    /\ writing' = None
    /\ sendLoop' = "select"
    /\ timer' = 0
    /\ UNCHANGED <<session, recvLoop, pkgLoop, pkgChan, sendChan, handler, input, silent,
                   gotten, peerOpen>>

\* The write fails, at once or when it was blocked: return, deferred Close.
SendFail ==
    /\ sendLoop = "write"
    /\ closed = 1 \/ ~ peerOpen
    /\ writing' = None
    /\ sendLoop' = "done"
    /\ Close
    /\ UNCHANGED <<recvLoop, pkgLoop, pkgChan, sendChan, handler, input, clock, client>>

\* Looking at the wrong end of the limit.
MutSendCheckNever ==
    /\ sendLoop = "select"
    /\ timer = 1
    /\ timer' = 0
    /\ UNCHANGED <<session, loops, chans, input, silent, client>>

\* case <-s.tw.After(sessionCheck): has the client been silent for too long?
SendCheck ==
    /\ sendLoop = "select"
    /\ timer = 1
    /\ IF silent > IdleLimit
       THEN sendLoop' = "done" /\ Close /\ UNCHANGED timer
       ELSE timer' = 0 /\ UNCHANGED <<sendLoop, session>>
    /\ UNCHANGED <<recvLoop, pkgLoop, chans, input, silent, client>>

\* case <-s.stopSessionChan
SendStop ==
    /\ sendLoop = "select"
    /\ stopChan # "open"
    /\ sendLoop' = "done"
    /\ Close
    /\ UNCHANGED <<recvLoop, pkgLoop, chans, input, clock, client>>

-----------------------------------------------------------------------------
(* pkgChanLoop and the goroutines it starts                                *)

\* case pkg := <-s.pkgChan: go s.packageHandler(s, pkg)
PkgTake ==
    /\ pkgLoop = "select"
    /\ pkgChan # <<>>
    /\ handler' = [handler EXCEPT ![Head(pkgChan)] = "running"]
    /\ pkgChan' = Tail(pkgChan)
    /\ UNCHANGED <<session, loops, sendChan, writing, input, clock, client>>

\* case <-s.stopSessionChan
PkgStop ==
    /\ pkgLoop = "select"
    /\ stopChan # "open"
    /\ pkgLoop' = "done"
    /\ UNCHANGED <<session, recvLoop, sendLoop, chans, input, clock, client>>

\* AsyncSend: of the cases that are ready select takes any, so a reply may be
\* accepted after the session stopped; default only if none is ready.
AsyncSend(p) ==
    /\ handler[p] = "running"
    /\ \/ /\ Room(sendChan)
          /\ sendChan' = Append(sendChan, p)
          /\ handler' = [handler EXCEPT ![p] = "ok"]
       \/ /\ stopChan # "open"
          /\ handler' = [handler EXCEPT ![p] = "stopped"]
          /\ UNCHANGED sendChan
       \/ /\ stopChan = "open" /\ ~ Room(sendChan)
          /\ handler' = [handler EXCEPT ![p] = "full"]
          /\ UNCHANGED sendChan
    /\ UNCHANGED <<session, loops, pkgChan, writing, input, clock, client>>

\* A handler that returns without answering.
NoAnswer(p) ==
    /\ handler[p] = "running"
    /\ handler' = [handler EXCEPT ![p] = "quiet"]
    /\ UNCHANGED <<session, loops, pkgChan, sendChan, writing, input, clock, client>>

-----------------------------------------------------------------------------
(* The client and the clock.                                               *)
ClientSend ==
    /\ peerOpen
    /\ sent < MaxPkgs
    /\ sent' = sent + 1
    /\ UNCHANGED <<session, loops, chans, read, pushed, clock, client>>

ClientRead ==
    /\ toClient # <<>>
    /\ toClient' = Tail(toClient)
    /\ gotten' = gotten \union {Head(toClient)}
    /\ UNCHANGED <<session, loops, chans, input, clock, peerOpen>>

ClientClose ==
    /\ peerOpen
    /\ peerOpen' = FALSE
    /\ UNCHANGED <<session, loops, chans, input, clock, toClient, gotten>>

\* A period passes, as far as anybody can tell.
Tick ==
    /\ closed = 0
    /\ silent <= IdleLimit \/ timer = 0
    /\ silent' = IF silent <= IdleLimit THEN silent + 1 ELSE silent
    /\ timer' = 1
    /\ UNCHANGED <<session, loops, chans, input, client>>

RecvLoop == RecvRead \/ RecvPush \/ RecvFail
SendLoop == SendTake \/ SendWrite \/ SendFail \/ SendCheck \/ SendStop
PkgLoop  == PkgTake \/ PkgStop
Client   == ClientSend \/ ClientRead \/ ClientClose

Next ==
    \/ Start
    \/ RecvLoop \/ SendLoop \/ PkgLoop
    \/ \E p \in Pkgs : AsyncSend(p) \/ NoAnswer(p)
    \/ Client
    \/ Tick

\* Goroutines run and time passes; nothing is assumed of the client.  A select
\* picks at random among its ready cases, hence strong fairness on the cases of
\* sendLoop, the only loop that can go round for ever.
Fairness ==
    /\ WF_vars(Start)
    /\ WF_vars(RecvLoop)
    /\ WF_vars(SendLoop)
    /\ SF_vars(SendTake) /\ SF_vars(SendCheck) /\ SF_vars(SendStop)
    /\ WF_vars(PkgLoop)
    /\ \A p \in Pkgs : WF_vars(AsyncSend(p) \/ NoAnswer(p))
    /\ WF_vars(Tick)

SafeSpec == Init /\ [][Next]_vars
Spec == SafeSpec /\ Fairness

-----------------------------------------------------------------------------
\* Whoever leaves first, stopSessionChan is closed once (closing it again in
\* the deferred Close of the other loop would panic).
ClosedOnce == stopChan # "panic"

\* A loop that has left has closed the session for the others.
LeaverCloses ==
    "done" \in {recvLoop, sendLoop, pkgLoop} => closed = 1 /\ stopChan # "open"

\* A package read is in one place only: still to be pushed, in pkgChan, or with
\* its one handler; none is lost or handled twice.
OnePlace ==
    /\ pushed <= read
    /\ \A i \in 1 .. Len(pkgChan) : pkgChan[i] = pushed - Len(pkgChan) + i
    /\ \A p \in Pkgs : handler[p] # "none" <=> p <= pushed - Len(pkgChan)

\* Closing the session ends sendLoop and pkgChanLoop, even a sendLoop blocked
\* in a write.
LoopsEnd == closed = 1 ~> sendLoop = "done" /\ pkgLoop = "done"

\* recvLoop ends too, unless it is left behind for good in the unpack handler:
\* pkgChan is full and pkgChanLoop has gone.
LeftBehind == recvLoop = "push" /\ ~ Room(pkgChan) /\ pkgLoop = "done"
RecvEndsOrLeaks == closed = 1 ~> (recvLoop = "done" \/ []LeftBehind)

\* A client silent beyond the limit is dropped, if sendLoop has nothing to
\* write: both a reply and a blocked write put the check off.
Quiet == silent > IdleLimit /\ sendLoop = "select" /\ sendChan = <<>>
SilentIsDropped == []<>(~ Quiet)

\* A reply AsyncSend accepted gets written, unless the session is closed or the
\* client does not read.
Stalled == sendLoop = "write" /\ Len(toClient) = NetCap
Written(p) == p \in gotten \/ \E i \in 1 .. Len(toClient) : toClient[i] = p
AcceptedIsWritten == \A p \in Pkgs :
    [](handler[p] = "ok" => <>(Written(p) \/ closed = 1 \/ []Stalled))

=============================================================================

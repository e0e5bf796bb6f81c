---------------------------- MODULE TimingWheel -----------------------------
(***************************************************************************)
(* utils/xman_timewheel.go: a ring of channels, one of which is closed and *)
(* replaced at every tick, and After, which hands out the channel that is  *)
(* to be closed some ticks from now.  Callers of After, the goroutine of   *)
(* run and the runtime's ticker take their steps in any order.             *)
(*                                                                         *)
(* Time is counted in intervals; After(timeout) matters only through       *)
(* k = timeout / interval.  Channels are numbered in the order in which    *)
(* they are made.                                                          *)
(***************************************************************************)
EXTENDS Integers

CONSTANTS
    Waiters,        \* the callers of After, one call each
    Buckets,        \* len(w.cs)
    MaxTimeout,     \* bound: the largest k asked for, may exceed the wheel
    MaxTime         \* bound: intervals in a behaviour

ASSUME BucketsAssumption    == Buckets \in Nat \ {0}
ASSUME MaxTimeoutAssumption == MaxTimeout \in Nat
ASSUME MaxTimeAssumption    == MaxTime \in Nat

VARIABLES
    now,            \* intervals since the ticker was started
    tickerC,        \* ticks in the ticker's channel, which holds one
    run,            \* the goroutine: at its "select", in onTicker, or gone
    lastC,          \* the channel onTicker is about to close
    pos, cs,        \* the wheel
    made,           \* channels made so far
    closedCs,       \* channels that are closed
    swaps,          \* ticks the wheel has worked off
    quit,           \* the channel w.quit: see WheelTypes
    wait            \* wait[w]: what w asked for, when, and what it was given

wheelVars == <<now, tickerC, run, lastC, pos, cs, made, closedCs, swaps, quit, wait>>
ring == <<pos, cs, made, swaps>>

Index == 0 .. Buckets - 1
NoCall == [state |-> "idle", k |-> 0, at |-> 0, tick |-> 0, c |-> 0]

WheelInit ==
    /\ now      = 0
    /\ tickerC  = 0
    /\ run      = "select"
    /\ lastC    = 0
    /\ pos      = 0
    /\ cs       = [i \in Index |-> i]
    /\ made     = Buckets
    /\ closedCs = {}
    /\ swaps    = 0
    /\ quit     = "open"
    /\ wait     = [w \in Waiters |-> NoCall]

WheelTypes ==
    /\ now      \in Nat
    /\ tickerC  \in {0, 1}
    /\ run      \in {"select", "tick", "close", "done"}
    /\ lastC    \in Nat
    /\ pos      \in Index
    /\ cs       \in [Index -> Nat]
    /\ made     \in Nat
    /\ closedCs \in SUBSET Nat
    /\ swaps    \in Nat
    /\ quit     \in {"open", "closed", "panic"}
    /\ wait     \in [Waiters -> [state : {"idle", "waiting", "fired", "panic"},
                                 k : Nat, at : Nat, tick : Nat, c : Nat]]

-----------------------------------------------------------------------------
\* The runtime's ticker: its channel holds one tick, more are dropped.
TickerTick ==
    /\ now < MaxTime
    /\ now' = now + 1
    /\ tickerC' = 1
    /\ UNCHANGED <<run, lastC, ring, closedCs, quit, wait>>

\* The bound check as it would be with > instead of >=.
MutTooMuch(k) == k > Buckets

\* timeout >= w.maxTimeout
TooMuch(k) == k >= Buckets

\* After(k * interval): panic, or look the channel up under the lock.
After(w, k) ==
    /\ wait[w].state = "idle"
    /\ wait' = [wait EXCEPT ![w] =
         [state |-> IF TooMuch(k) THEN "panic" ELSE "waiting",
          k |-> k, at |-> now, tick |-> swaps,
          c |-> IF TooMuch(k) THEN 0 ELSE cs[(pos + k) % Buckets]]]
    /\ UNCHANGED <<now, tickerC, run, lastC, ring, closedCs, quit>>

\* The receive from the channel After returned goes through.
Wake(w) ==
    /\ wait[w].state = "waiting"
    /\ wait[w].c \in closedCs
    /\ wait' = [wait EXCEPT ![w].state = "fired"]
    /\ UNCHANGED <<now, tickerC, run, lastC, ring, closedCs, quit>>

\* case <-w.ticker.C
RunTick ==
    /\ run = "select"
    /\ tickerC = 1
    /\ tickerC' = 0
    /\ run' = "tick"
    /\ UNCHANGED <<now, lastC, ring, closedCs, quit, wait>>

\* Moving on before the channel is replaced.
MutRunSwapNext ==
    /\ run = "tick"
    /\ lastC' = cs[pos]
    /\ pos' = (pos + 1) % Buckets
    /\ cs' = [cs EXCEPT ![pos'] = made]
    /\ made' = made + 1
    /\ swaps' = swaps + 1
    /\ run' = "close"
    /\ UNCHANGED <<now, tickerC, closedCs, quit, wait>>

\* Leaving the old channel in its slot.
MutRunSwapKeeps ==
    /\ run = "tick"
    /\ lastC' = cs[pos]
    /\ pos' = (pos + 1) % Buckets
    /\ swaps' = swaps + 1
    /\ run' = "close"
    /\ UNCHANGED <<now, tickerC, cs, made, closedCs, quit, wait>>

\* onTicker, under the lock: a fresh channel for the slot the wheel leaves.
RunSwap ==
    /\ run = "tick"
    /\ lastC' = cs[pos]
    /\ cs' = [cs EXCEPT ![pos] = made]
    /\ made' = made + 1
    /\ pos' = (pos + 1) % Buckets
    /\ swaps' = swaps + 1
    /\ run' = "close"
    /\ UNCHANGED <<now, tickerC, closedCs, quit, wait>>

\* onTicker, after the unlock: wake everybody who waits for this tick.
RunClose ==
    /\ run = "close"
    /\ closedCs' = closedCs \union {lastC}
    /\ run' = "select"
    /\ UNCHANGED <<now, tickerC, lastC, ring, quit, wait>>

\* case <-w.quit
RunQuit ==
    /\ run = "select"
    /\ quit # "open"
    /\ run' = "done"
    /\ UNCHANGED <<now, tickerC, lastC, ring, closedCs, quit, wait>>

\* close(w.quit): a second Stop panics, in its caller's goroutine.
Stop ==
    /\ quit # "panic"
    /\ quit' = IF quit = "open" THEN "closed" ELSE "panic"
    /\ UNCHANGED <<now, tickerC, run, lastC, ring, closedCs, wait>>

Run == RunTick \/ RunSwap \/ RunClose \/ RunQuit

WheelNext ==
    \/ TickerTick
    \/ Run
    \/ Stop
    \/ \E w \in Waiters : Wake(w) \/ \E k \in 0 .. MaxTimeout : After(w, k)

WheelSpec == WheelInit /\ [][WheelNext]_wheelVars

-----------------------------------------------------------------------------
Given(w)  == wait[w].state \in {"waiting", "fired"}
Swaps(w)  == swaps - wait[w].tick

\* A waiter is never woken before the wheel has turned k + 1 times since its
\* call: k whole intervals at least when the ticks are worked off at once.
NeverEarly == \A w \in Waiters : wait[w].state = "fired" => Swaps(w) >= wait[w].k + 1

\* No wake-up is lost between the lock of After and the close outside the lock
\* of onTicker: after k + 1 turns the channel is closed or about to be.
FiresInTime == \A w \in Waiters :
    Given(w) /\ Swaps(w) >= wait[w].k + 1 =>
        \/ wait[w].c \in closedCs
        \/ run = "close" /\ lastC = wait[w].c

\* Closing a closed channel panics.
NeverClosedTwice == run = "close" => lastC \notin closedCs

\* In time rather than in turns: when After is called, one tick may be waiting
\* in the ticker's channel and another be in the hands of onTicker, so a
\* waiter can be woken up to two intervals early, never more.
AlmostPunctual == \A w \in Waiters :
    wait[w].c \in closedCs /\ Given(w) => now >= wait[w].at + wait[w].k - 1
=============================================================================

------------------------------ MODULE ConnPool ------------------------------
(***************************************************************************)
(* TCPConnPool of xman_conn_proxy.go: a channel of connections that several *)
(* goroutines take from with Get and Reconnect.  An operation keeps what it *)
(* has taken, one connection alive or several dead ones, until it returns,  *)
(* by deferred calls of Release; the caller uses the connection after that. *)
(***************************************************************************)
EXTENDS Naturals, SequencesExt, FiniteSetsExt

CONSTANTS
    Users,      \* goroutines that use the pool
    Repairers,  \* those of them that call Reconnect, the others call Get
    Conns,      \* its connections; there are maxIdle of them
    MaxCalls    \* bound on the operations called

ASSUME ConnsAssumption == IsFiniteSet(Conns) /\ Conns # {}

Pool == "pool"
ASSUME PoolAssumption == Pool \notin Conns

maxIdle == Cardinality(Conns)

VARIABLES
    conns,      \* the channel, a FIFO of connections
    srvStatus,  \* of each connection's manager: "ok" or "reconnect"
    srvInfo,    \* of each manager and of the pool: nil, or the srvStatus it has
    pc,         \* what each user is doing
    held,       \* the connections whose Release he has deferred, in that order
    result,     \* what the operation is about to return
    calls       \* how many operations have been called

vars == <<conns, srvStatus, srvInfo, pc, held, result, calls>>

Pending    == "pending"
Panicked   == "panic"
Failed     == "nil"
Nil        == "nil"
Results    == Conns \union {Pending, Panicked, Failed}

ASSUME ResultsAssumption == Conns \cap {Pending, Panicked, Failed} = {}

TypeOK ==
    /\ conns     \in Seq(Conns)
    /\ srvStatus \in [Conns -> {"ok", "reconnect"}]
    /\ srvInfo   \in [Conns \union {Pool} -> {Nil, "ok", "reconnect"}]
    /\ pc        \in [Users -> {"out", "Get", "Reconnect"}]
    /\ held      \in [Users -> Seq(Conns)]
    /\ result    \in [Users -> Results]
    /\ calls     \in Nat

\* NewTCPConnPool dials all of them, or the program exits.  Neither it nor
\* TCPConnHandler sets a srvInfo; TCPConnProxyHandler does, for its own manager.
Init ==
    /\ conns = SetToSeq(Conns)
    /\ srvStatus = [c \in Conns |-> "ok"]
    /\ srvInfo = [p \in Conns \union {Pool} |-> Nil]
    /\ pc = [u \in Users |-> "out"]
    /\ held = [u \in Users |-> <<>>]
    /\ result = [u \in Users |-> Pending]
    /\ calls = 0

-----------------------------------------------------------------------------
\* The connection's handlers leave: tcpConnClose.
Lose(c) ==
    /\ srvStatus[c] = "ok"
    /\ srvStatus' = [srvStatus EXCEPT ![c] = "reconnect"]
    /\ UNCHANGED <<conns, srvInfo, pc, held, result, calls>>

Call(u) ==
    /\ pc[u] = "out"
    /\ calls < MaxCalls
    /\ calls' = calls + 1
    /\ pc' = [pc EXCEPT ![u] = IF u \in Repairers THEN "Reconnect" ELSE "Get"]
    /\ UNCHANGED <<conns, srvStatus, srvInfo, held, result>>

Returns(u, res) == result' = [result EXCEPT ![u] = res]

\* i++; i >= pool.maxIdle/2
GivesUp(u) == Len(held'[u]) >= maxIdle \div 2

\* The next connection of the range over pool.conns, and the deferred Release.
Take(u) ==
    /\ result[u] = Pending
    /\ conns # <<>>
    /\ conns' = Tail(conns)
    /\ held' = [held EXCEPT ![u] = Append(@, Head(conns))]

\* What the dereference of a srvInfo does: srvStatus is set, or a panic.
SetInfo(u, p, status, res) ==
    IF srvInfo[p] = Nil THEN Returns(u, Panicked) /\ UNCHANGED srvInfo
    ELSE Returns(u, res) /\ srvInfo' = [srvInfo EXCEPT ![p] = status]

\* Half of them dead is noted in pool.srvInfo before the error is returned.
Get(u) ==
    /\ pc[u] = "Get"
    /\ Take(u)
    /\ \/ /\ srvStatus[Head(conns)] = "ok"
          /\ Returns(u, Head(conns))
          /\ UNCHANGED srvInfo
       \/ /\ srvStatus[Head(conns)] # "ok"
          /\ GivesUp(u)
          /\ SetInfo(u, Pool, "reconnect", Failed)
       \/ /\ srvStatus[Head(conns)] # "ok"
          /\ ~GivesUp(u)
          /\ UNCHANGED <<result, srvInfo>>
    /\ UNCHANGED <<srvStatus, pc, calls>>

\* A redial that touches no srvInfo, and whose success the loop does not see.
MutReconnectGoesOn(u, c) ==
    /\ srvStatus' = [srvStatus EXCEPT ![c] = "ok"]
    /\ UNCHANGED <<result, srvInfo>>

\* tcpConnReconnect after its dial has succeeded: tcpMgr.srvInfo is set, then the
\* srvStatus of Reconnect, which returns the connection.
Redial(u, c) ==
    /\ SetInfo(u, c, "ok", c)
    /\ srvStatus' = IF srvInfo[c] = Nil THEN srvStatus ELSE [srvStatus EXCEPT ![c] = "ok"]

Reconnect(u) ==
    /\ pc[u] = "Reconnect"
    /\ Take(u)
    /\ \/ /\ srvStatus[Head(conns)] = "ok"
          /\ Returns(u, Head(conns))
          /\ UNCHANGED <<srvStatus, srvInfo>>
       \/ /\ srvStatus[Head(conns)] # "ok"
          /\ Redial(u, Head(conns))
       \/ /\ srvStatus[Head(conns)] # "ok"         \* the dial failed
          /\ IF GivesUp(u) THEN Returns(u, Failed) ELSE UNCHANGED result
          /\ UNCHANGED <<srvStatus, srvInfo>>
    /\ UNCHANGED <<pc, calls>>

\* Releasing the first connection taken and forgetting the others.
MutRelease(u) ==
    /\ conns' = Append(conns, Head(held[u]))
    /\ held' = [held EXCEPT ![u] = <<>>]

\* The deferred calls run last to first, after a panic too.
Release(u) ==
    /\ conns' = Append(conns, Last(held[u]))
    /\ held' = [held EXCEPT ![u] = Front(@)]

\* The operation is over with the last of them.
Leave(u) ==
    /\ result[u] # Pending
    /\ Len(conns) < maxIdle
    /\ Release(u)
    /\ IF held'[u] # <<>> THEN UNCHANGED <<pc, result>>
       ELSE /\ pc' = [pc EXCEPT ![u] = "out"]
            /\ result' = [result EXCEPT ![u] = Pending]
    /\ UNCHANGED <<srvStatus, srvInfo, calls>>

Operation(u) == Get(u) \/ Reconnect(u) \/ Leave(u)

\* A panic is recovered by the caller, as net/http does for its handlers;
\* otherwise it is the last thing the program does.
Next ==
    \/ \E c \in Conns : Lose(c)
    \/ \E u \in Users : Call(u) \/ Operation(u)

\* A goroutine that can go on is not passed over for ever.
Fairness == \A u \in Users : WF_vars(Operation(u))

SafeSpec == Init /\ [][Next]_vars
Spec == SafeSpec /\ Fairness

-----------------------------------------------------------------------------
\* Every connection is in the channel or deferred by one operation, once: none
\* is lost or doubled when an operation fails or panics half way, and so no
\* Release finds the channel full.
EveryConnOnce ==
    /\ IsInjective(conns)
    /\ \A u \in Users : /\ IsInjective(held[u])
                        /\ ToSet(held[u]) \cap ToSet(conns) = {}
                        /\ \A v \in Users \ {u} : ToSet(held[u]) \cap ToSet(held[v]) = {}
    /\ Conns = ToSet(conns) \union UNION {ToSet(held[u]) : u \in Users}

\* An operation keeps nobody from a connection that is alive, except for the
\* moment in which it returns it: all else it holds was dead and has stayed so.
KeepsOnlyDead == \A u \in Users : \A c \in ToSet(held[u]) :
    c # result[u] => srvStatus[c] = "reconnect"

\* An operation in the range over pool.conns.
Looking(u) == pc[u] # "out" /\ result[u] = Pending

\* All connections, dead ones, are held by operations that wait for another.
Stuck == Conns = UNION {ToSet(held[u]) : u \in {v \in Users : Looking(v)}}

\* Get and Reconnect return, or panic, unless the pool is stuck for good.
ReturnsUnlessStuck == \A u \in Users : Looking(u) ~> (pc[u] = "out" \/ Stuck)
=============================================================================

------------------------------- MODULE Startup -------------------------------
(***************************************************************************)
(* A program of package xman from its configuration to its clients: main   *)
(* registers the servers and the remote servers of the file and sets their *)
(* handlers (xman_global_config.go), RunServer starts a loop for each      *)
(* server (xman_tcp_srv.go, xman_udp_srv.go), and what they start chooses  *)
(* a remote server for each call (chooseRemoteSrv), while the handler of   *)
(* Reload may register another.  The remote servers have one tag.          *)
(*                                                                         *)
(* A panic that nothing recovers, and os.Exit, end the program: fault says *)
(* which it was, and nothing happens after it.                             *)
(***************************************************************************)
EXTENDS Naturals, Sequences, FiniteSets

CONSTANTS
    Callers,        \* goroutines started for the packages of clients
    MaxSections,    \* bound on the Server and on the Conn sections
    maxRemoteSrvIP

ASSUME BoundsAssumption == MaxSections \in Nat /\ maxRemoteSrvIP \in Nat

VARIABLES
    config,         \* what the file says, section by section
    main,           \* where main is, and in which section
    srv,            \* each server: registered, its goroutine started, serving, ...
    handled,        \* the servers whose handlers are set
    waiting,        \* the servers a client has connected to, or sent a datagram
    srvInfos,       \* the remote servers; allSrvNum is their number
    srvIdx,
    caller,         \* where each caller is in RequestToRemote, and his choice
    reload,         \* whether the reload handler is registering a remote server
    fault

startVars == <<config, main, srv, handled, waiting, srvInfos, srvIdx, caller, reload, fault>>
remote == <<srvInfos, srvIdx, caller, reload>>

Sections   == 1..MaxSections
SrvKinds   == {"tcp", "udp", "other", "missing"}
ConnKinds  == {"tcp", "udp", "nocmd", "missing"}
SrvInfos   == [conn : 0..MaxSections, connMgr : BOOLEAN, handlers : BOOLEAN]
UpTo(S)    == UNION {[1..n -> S] : n \in 0..MaxSections}

StartTyped ==
    /\ config \in [srvs : UpTo(SrvKinds), conns : UpTo(ConnKinds)]
    /\ main \in [at : {"servers", "conns", "dialing", "handlers", "serve"}, i : Nat]
    /\ srv \in [Sections -> {"none", "listening", "started", "serving", "closed"}]
    /\ handled \subseteq Sections /\ waiting \subseteq Sections
    /\ srvInfos \in Seq(SrvInfos)
    /\ srvIdx \in Nat
    /\ caller \in [Callers -> [at : {"out", "read", "use"}, idx : Nat]]
    /\ reload \in BOOLEAN
    /\ fault \in {"none", "init error", "no server handlers", "wrong handlers", "no pack handler",
                  "no unpack handler", "no connMgr", "no SrvInfo", "too many", "dial"}

StartInit ==
    /\ config \in [srvs : UpTo(SrvKinds), conns : UpTo(ConnKinds)]
    /\ main = [at |-> "servers", i |-> 1]
    /\ srv = [i \in Sections |-> "none"]
    /\ handled = {} /\ waiting = {}
    /\ srvInfos = <<>> /\ srvIdx = 0
    /\ caller = [c \in Callers |-> [at |-> "out", idx |-> 0]]
    /\ reload = FALSE /\ fault = "none"

Ends(why) == fault' = why /\ UNCHANGED <<main, srv, handled, waiting, remote>>

-----------------------------------------------------------------------------
(* Registration of a remote server, in two steps.                          *)

\* The SrvInfo is there for everybody before there is a connection.
Publish(conn, handlers) == srvInfos' =
    Append(srvInfos, [conn |-> conn, connMgr |-> FALSE, handlers |-> handlers])

\* TCPConnHandler has dialled: the connMgr is set and its goroutines start.
Connect == srvInfos' = [srvInfos EXCEPT ![Len(srvInfos)].connMgr = TRUE]

Full == Len(srvInfos) >= maxRemoteSrvIP

-----------------------------------------------------------------------------
(* InitFromConfig, in main.                                                *)

\* Server sections: the listener is open when the next section is looked at.
InitServer ==
    /\ main.at = "servers" /\ main.i \in DOMAIN config.srvs
    /\ \/ /\ config.srvs[main.i] \in {"tcp", "udp"}
          /\ srv' = [srv EXCEPT ![main.i] = "listening"]
          /\ main' = [main EXCEPT !.i = @ + 1]
          /\ UNCHANGED <<handled, waiting, remote, fault>>
       \/ Ends("init error")    \* ErrSrvSection, ErrUnknowNetwork or, of any, ErrSrvStart

\* No server is an error; so is a SrvNum that is no number.
InitServersEnd ==
    /\ main.at = "servers" /\ main.i \notin DOMAIN config.srvs
    /\ IF config.srvs = <<>> THEN Ends("init error")
       ELSE main' = [at |-> "conns", i |-> 1] /\ UNCHANGED <<srv, handled, waiting, remote, fault>>

\* Conn sections: only "tcp" with a CMD is registered, without handlers.
InitConn ==
    /\ main.at = "conns" /\ main.i \in DOMAIN config.conns
    /\ CASE config.conns[main.i] = "missing" -> Ends("init error")
         [] config.conns[main.i] = "tcp" /\ Full -> Ends("too many")
         [] config.conns[main.i] = "tcp" /\ ~ Full ->
               /\ Publish(main.i, FALSE)
               /\ main' = [main EXCEPT !.at = "dialing"]
               /\ UNCHANGED <<srv, handled, waiting, srvIdx, caller, reload, fault>>
         [] OTHER -> main' = [main EXCEPT !.i = @ + 1] /\ UNCHANGED <<srv, handled, waiting, remote, fault>>

InitDial ==
    /\ main.at = "dialing"
    /\ \/ /\ Connect
          /\ main' = [at |-> "conns", i |-> main.i + 1]
          /\ UNCHANGED <<srv, handled, waiting, srvIdx, caller, reload, fault>>
       \/ Ends("dial")

InitConnsEnd ==
    /\ main.at = "conns" /\ main.i \notin DOMAIN config.conns
    /\ main' = [at |-> "handlers", i |-> 0]
    /\ UNCHANGED <<srv, handled, waiting, remote, fault>>

-----------------------------------------------------------------------------
(* What the program does with it.                                          *)

\* SetSrvHandler: a name that is not in srvMap is an error main does not look
\* at; handlers of the other protocol fail the type assertion.
SetSrvHandler(i) ==
    /\ main.at = "handlers" /\ srv[i] # "none"
    /\ \/ handled' = handled \union {i} /\ UNCHANGED <<main, srv, waiting, remote, fault>>
       \/ Ends("wrong handlers")

\* SetConnHandler: the same for a remote server of connMap.
SetConnHandler(k) ==
    /\ main.at = "handlers"
    /\ \/ /\ srvInfos' = [srvInfos EXCEPT ![k].handlers = TRUE]
          /\ UNCHANGED <<main, srv, handled, waiting, srvIdx, caller, reload, fault>>
       \/ Ends("wrong handlers")

\* Not waiting for the slow ones.
MutRunServer ==
    /\ main.at = "handlers"
    /\ main' = [at |-> "serve", i |-> 0]
    /\ \E S \in SUBSET Sections : srv' = [i \in Sections |->
           IF srv[i] = "listening" /\ i \in S THEN "started" ELSE srv[i]]
    /\ UNCHANGED <<handled, waiting, remote, fault>>

\* RunServer starts a goroutine for each server of srvMap, and waits for ever.
RunServer ==
    /\ main.at = "handlers"
    /\ main' = [at |-> "serve", i |-> 0]
    /\ srv' = [i \in Sections |-> IF srv[i] = "listening" THEN "started" ELSE srv[i]]
    /\ UNCHANGED <<handled, waiting, remote, fault>>

Main == InitServer \/ InitServersEnd \/ InitConn \/ InitDial \/ InitConnsEnd \/ RunServer

-----------------------------------------------------------------------------
(* AcceptLoop and RunUDPServer.                                            *)

StartLoop(i) ==
    /\ srv[i] = "started"
    /\ IF i \in handled
       THEN srv' = [srv EXCEPT ![i] = "serving"] /\ UNCHANGED <<main, handled, waiting, remote, fault>>
       ELSE Ends("no server handlers")

\* A client in the backlog of a listener, or a datagram in the socket's buffer.
ClientComes(i) ==
    /\ srv[i] \in {"listening", "started", "serving"}
    /\ waiting' = waiting \union {i}
    /\ UNCHANGED <<main, srv, handled, remote, fault>>

\* Accept and NewSession; ReadFromUDP and the package's goroutine, or a datagram
\* that does not unpack.  Errors of ReadFromUDP, and temporary ones of Accept,
\* change nothing.
Serve(i) ==
    /\ srv[i] = "serving" /\ i \in waiting
    /\ waiting' = waiting \ {i}
    /\ UNCHANGED <<main, srv, handled, remote, fault>>

\* Accept fails for good: the loop returns and closes the listener.
AcceptFails(i) ==
    /\ srv[i] = "serving" /\ config.srvs[i] = "tcp"
    /\ srv' = [srv EXCEPT ![i] = "closed"]
    /\ waiting' = waiting \ {i}
    /\ UNCHANGED <<main, handled, remote, fault>>

Loop(i) == StartLoop(i) \/ Serve(i)

-----------------------------------------------------------------------------
(* RequestToRemote up to the channel, by a package's goroutine.            *)

\* Going on to the number of servers itself.
MutNextIdx == IF srvIdx >= Len(srvInfos) THEN 0 ELSE srvIdx + 1

nextIdx == (srvIdx + 1) % Len(srvInfos)

\* addSrvIdx, under the lock.
AddSrvIdx(c) ==
    /\ caller[c].at = "out" /\ srvInfos # <<>>
    /\ \E i \in Sections : srv[i] \in {"serving", "closed"}
    /\ srvIdx' = nextIdx
    /\ caller' = [caller EXCEPT ![c].at = "read"]
    /\ UNCHANGED <<main, srv, handled, waiting, srvInfos, reload, fault>>

\* srvIdx is read again, without it.  Its server's srvStatus is always OK.
ReadSrvIdx(c) ==
    /\ caller[c].at = "read"
    /\ caller' = [caller EXCEPT ![c] = [at |-> "use", idx |-> srvIdx]]
    /\ UNCHANGED <<main, srv, handled, waiting, srvInfos, srvIdx, reload, fault>>

UseSrv(c) ==
    /\ caller[c].at = "use"
    /\ LET k == caller[c].idx + 1 IN
       CASE k \notin DOMAIN srvInfos -> Ends("no SrvInfo")
         [] k \in DOMAIN srvInfos /\ ~ srvInfos[k].handlers -> Ends("no pack handler")
         [] k \in DOMAIN srvInfos /\ srvInfos[k].handlers /\ ~ srvInfos[k].connMgr -> Ends("no connMgr")
         [] OTHER -> /\ caller' = [caller EXCEPT ![c] = [at |-> "out", idx |-> 0]]
                     /\ UNCHANGED <<main, srv, handled, waiting, srvInfos, srvIdx, reload, fault>>

\* The first bytes of a remote server, in tcpRecvHandler.
RemoteSends(k) ==
    /\ srvInfos[k].connMgr /\ ~ srvInfos[k].handlers
    /\ Ends("no unpack handler")

\* The handler of Reload registers a remote server, with its handlers.
ReloadRegisters ==
    /\ main.at = "serve" /\ ~ reload
    /\ IF Full THEN Ends("too many")
       ELSE /\ Publish(0, TRUE)
            /\ reload' = TRUE
            /\ UNCHANGED <<main, srv, handled, waiting, srvIdx, caller, fault>>

ReloadDials ==
    /\ reload
    /\ \/ /\ Connect
          /\ reload' = FALSE
          /\ UNCHANGED <<main, srv, handled, waiting, srvIdx, caller, fault>>
       \/ Ends("dial")

StartNext ==
    /\ fault = "none"
    /\ config' = config
    /\ \/ Main
       \/ \E i \in Sections : SetSrvHandler(i) \/ ClientComes(i) \/ AcceptFails(i) \/ Loop(i)
       \/ \E k \in DOMAIN srvInfos : SetConnHandler(k) \/ RemoteSends(k)
       \/ \E c \in Callers : AddSrvIdx(c) \/ ReadSrvIdx(c) \/ UseSrv(c)
       \/ ReloadRegisters \/ ReloadDials

\* A dial ends, goroutines run, Accept does not fail for ever.
StartFairness ==
    /\ WF_startVars(fault = "none" /\ config' = config /\ Main)
    /\ \A i \in Sections : WF_startVars(fault = "none" /\ config' = config /\ Loop(i))

StartSafeSpec == StartInit /\ [][StartNext]_startVars
StartSpec == StartSafeSpec /\ StartFairness

-----------------------------------------------------------------------------
\* The servers and the remote servers have all been given their handlers.
Prepared ==
    /\ \A i \in Sections : srv[i] # "none" => i \in handled
    /\ \A k \in DOMAIN srvInfos : srvInfos[k].handlers

\* A program that has set every handler before RunServer panics, or exits, from
\* then on only because the reload handler registers: when there are too many,
\* when the dial fails, or when a caller meets the one not connected yet.
PreparedIsSafe == main.at = "serve" /\ Prepared /\ fault # "none" =>
    \/ fault = "too many" /\ Full
    \/ fault \in {"dial", "no connMgr"} /\ reload

\* Whoever waits at a server, its listener open before the program serves, is
\* served, or the loop or the program is gone.
WaitersAreServed == \A i \in Sections :
    i \in waiting ~> (i \notin waiting \/ fault # "none")
=============================================================================

----------------------------- MODULE RpcService -----------------------------
(***************************************************************************)
(* What RequestToRemote (xman_conn_proxy.go) promises its callers, with no *)
(* channel, map or socket in sight.  A call is issued, returns exactly     *)
(* once, and returns either the reply the remote server produced for that  *)
(* very call - which then was served - or a timeout.  A call that timed    *)
(* out may still be served afterwards, its reply is nobody's.              *)
(*                                                                         *)
(* UdpConnProxy and TcpConnProxy are shown to implement this module.       *)
(***************************************************************************)
CONSTANT Calls              \* the calls ever issued; the reply to c is c

VARIABLES
    status,                 \* status[c] \in {"idle","pending","answered","timedout"}
    reply,                  \* reply[c] \subseteq Calls: what c returned
    served                  \* the calls the remote server has received

vars == <<status, reply, served>>

Init ==
    /\ status = [c \in Calls |-> "idle"]
    /\ reply  = [c \in Calls |-> {}]
    /\ served = {}

\* A goroutine calls RequestToRemote.
Issue(c) ==
    /\ status[c] = "idle"
    /\ status' = [status EXCEPT ![c] = "pending"]
    /\ UNCHANGED <<reply, served>>

\* The request reaches the remote server, perhaps after its call timed out.
Serve(c) ==
    /\ status[c] # "idle"
    /\ served' = served \union {c}
    /\ UNCHANGED <<status, reply>>

\* The call returns the reply made for it.
Answer(c) ==
    /\ status[c] = "pending"
    /\ c \in served
    /\ status' = [status EXCEPT ![c] = "answered"]
    /\ reply' = [reply EXCEPT ![c] = {c}]
    /\ UNCHANGED served

\* The call returns ErrRemoteSrvTimeout.
Expire(c) ==
    /\ status[c] = "pending"
    /\ status' = [status EXCEPT ![c] = "timedout"]
    /\ UNCHANGED <<reply, served>>

Return(c) == Answer(c) \/ Expire(c)

Next == \E c \in Calls : Issue(c) \/ Serve(c) \/ Return(c)

SafeSpec == Init /\ [][Next]_vars

\* Every call that is issued returns.
Spec == SafeSpec /\ \A c \in Calls : WF_vars(Return(c))
=============================================================================

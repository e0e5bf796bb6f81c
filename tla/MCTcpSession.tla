---------------------------- MODULE MCTcpSession ----------------------------
(* A session with a client that sends three packages, over channels and a  *)
(* stream that hold one.                                                   *)
EXTENDS TcpSession
=============================================================================

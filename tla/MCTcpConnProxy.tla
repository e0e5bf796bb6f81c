--------------------------- MODULE MCTcpConnProxy ---------------------------
(* Three calls: with a stream, a sendChan and a reqChan of one each, enough to *)
(* fill the stream, sendChan and the event loop behind a server that does not  *)
(* read, and leave a cancel for reqChan and one that finds it full.  Two       *)
(* answers, to two requests or twice to one, perhaps in one batch.             *)
EXTENDS TcpConnProxy
=============================================================================

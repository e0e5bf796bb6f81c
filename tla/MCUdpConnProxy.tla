--------------------------- MODULE MCUdpConnProxy ---------------------------
(* Small instances of UdpConnProxy: three calls over channels of capacity  *)
(* one, without and with reuse of sequence numbers.                        *)
EXTENDS UdpConnProxy
=============================================================================

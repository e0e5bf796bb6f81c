----------------------------- MODULE MCStartup -----------------------------
(* Every configuration of up to two servers and two remote servers; two    *)
(* callers, and room for one remote server more.                           *)
EXTENDS Startup
=============================================================================

----------------------------- MODULE MCConnPool -----------------------------
(* Four connections and four users: the least with which operations that  *)
(* each hold a dead connection can wait for one another.                   *)
EXTENDS ConnPool
=============================================================================

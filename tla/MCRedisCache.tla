---------------------------- MODULE MCRedisCache ----------------------------
(* Two clients and two keys: an operation may overlap one on the same key, *)
(* one on another key, and a ClearAll.                                     *)
EXTENDS RedisCache
=============================================================================

---------------------------- MODULE MCRollingLog ----------------------------
(* Two goroutines log, by size and by day: enough lines to fill every backup  *)
(* and come round to the first, enough days for two rotations, and two        *)
(* restarts, each over whatever files the one before left.                    *)
EXTENDS RollingLog
=============================================================================

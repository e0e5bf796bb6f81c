--------------------------- MODULE MCTimingWheel ----------------------------
(* A wheel of three buckets, two waiters, time for two turns of the wheel. *)
EXTENDS TimingWheel, TLC
CONSTANTS w1, w2
MCWaiters == {w1, w2}
Symmetry == Permutations(MCWaiters)
=============================================================================

------------------------------- MODULE MCDiff -------------------------------
(* Files of up to four lines over three values, or five over two, and two   *)
(* of seven that differ at both ends, far enough for two groups.  Two       *)
(* values have the same hash and the third is in their bucket.  As runes, 1 *)
(* is a space and 2 a bracket.                                              *)
EXTENDS Diff
Long    == {<<3, 1, 2, 2, 1, 2, 3>>, <<1, 1, 2, 2, 1, 2, 1>>}
MCFiles == BoundedSeq(Items, 4) \union [1 .. 5 -> Items \ {3}] \union Long
MCHash  == [x \in Items |-> IF x = 3 THEN 2 ELSE 0]
MCScore == [x \in Items |-> IF x = 1 THEN 100 ELSE IF x = 2 THEN 40 ELSE 0]
=============================================================================

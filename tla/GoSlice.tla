------------------------------ MODULE GoSlice -------------------------------
(***************************************************************************)
(* What Go does in                                                         *)
(*                                                                         *)
(*    for i, x := range s {                                                *)
(*        if match(x) { s = append(s[:i], s[i+1:]...) }                    *)
(*    }                                                                    *)
(*                                                                         *)
(* the loop by which xman_config.go takes names out of its order lists.    *)
(* The range goes over the slice as it was, so over its old length, and    *)
(* sees the array that append shifts under it; s[i+1:] panics as soon as s *)
(* has become shorter than i+1.                                            *)
(***************************************************************************)
EXTENDS Integers, SequencesExt

\* The array under the slice, the length of s and whether the loop panicked.
\* Places are counted from 1.
RangeState(s) == [array |-> s, len |-> Len(s), panic |-> FALSE]

\* Shortening the slice without moving what follows.
MutShiftLast(st, i) == [st EXCEPT !.len = @ - 1]

\* append(s[:i], s[i+1:]...)
Shift(st, i) ==
    [st EXCEPT !.array = [j \in DOMAIN @ |-> IF i <= j /\ j < st.len THEN @[j + 1] ELSE @[j]],
               !.len = @ - 1]

\* One turn of the loop, Match being the set of the elements to take out.
Turn(st, i, Match) ==
    IF st.panic \/ st.array[i] \notin Match THEN st
    ELSE IF i <= st.len THEN Shift(st, i)
    ELSE [st EXCEPT !.panic = TRUE]

\* The loop after each of its turns.
RangeStates(s, Match) ==
    LET st[i \in 0 .. Len(s)] ==
            IF i = 0 THEN RangeState(s) ELSE Turn(st[i - 1], i, Match)
    IN  st

RangeDelete(s, Match) ==
    LET end == RangeStates(s, Match)[Len(s)]
    IN  [slice |-> SubSeq(end.array, 1, end.len), panic |-> end.panic]

-----------------------------------------------------------------------------
(* To say what the loop leaves.                                            *)

\* The elements of s outside Match, in their order.
OthersUpTo(s, Match) ==
    LET others[i \in 0 .. Len(s)] ==
            IF i = 0 THEN <<>>
            ELSE IF s[i] \in Match THEN others[i - 1] ELSE Append(others[i - 1], s[i])
    IN  others
Others(s, Match) == OthersUpTo(s, Match)[Len(s)]

\* The last element is in Match, and so is one before it.
Overruns(s, Match) == s # <<>> /\ s[Len(s)] \in Match /\ \E k \in 1 .. Len(s) - 1 : s[k] \in Match
=============================================================================

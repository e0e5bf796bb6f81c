--------------------------- MODULE FindEquivLines ---------------------------
(***************************************************************************)
(* find_equiv_lines of xdiff.go: the numbers that stand for the lines of   *)
(* two files, by a hash table with chains.  compare_line is equality, none *)
(* of the flags of the package being set.                                  *)
(***************************************************************************)
EXTENDS Integers, SequencesExt

CONSTANTS
    Items,          \* lines
    Hash,           \* compute_hash, from Items to Nat
    Buckets         \* size of the hash table

ASSUME BucketsAssumption == Buckets \in Nat \ {0}
ASSUME HashAssumption    == Hash \in [Items -> Nat]

Sides == {1, 2}

\* Taking equal hashes for equal lines.
MutFoundIn(chain, x) == {i \in DOMAIN chain : Hash[chain[i].line] = Hash[x]}

\* The entries of a bucket's chain that a line equals.
FoundIn(chain, x) ==
    {i \in DOMAIN chain : Hash[chain[i].line] = Hash[x] /\ chain[i].line = x}

\* A new entry comes behind the first one.
Chained(chain, entry) ==
    IF chain = <<>> THEN <<entry>> ELSE <<Head(chain), entry>> \o Tail(chain)

Classify(st, x) ==
    LET b     == Hash[x] % Buckets
        chain == st.table[b]
    IN  IF FoundIn(chain, x) # {}
        THEN [st EXCEPT !.ids = Append(@, chain[CHOOSE i \in FoundIn(chain, x) : TRUE].id)]
        ELSE [st EXCEPT !.ids = Append(@, st.next),
                        !.table[b] = Chained(chain, [id |-> st.next, line |-> x]),
                        !.next = @ + 1]

NoLines == [table |-> [b \in 0 .. Buckets - 1 |-> <<>>], ids |-> <<>>, next |-> 1]

\* The loop after each of the lines.
Classified(lines) ==
    LET st[i \in 0 .. Len(lines)] == IF i = 0 THEN NoLines ELSE Classify(st[i - 1], lines[i])
    IN  st

\* The numbers of the lines of both files, which share the table.
EquivIds(data) ==
    LET both == Classified(data[1] \o data[2])[Len(data[1]) + Len(data[2])].ids
    IN  [f \in Sides |-> IF f = 1 THEN SubSeq(both, 1, Len(data[1]))
                         ELSE SubSeq(both, Len(data[1]) + 1, Len(both))]

\* Two lines of either file have the same number just when they are the same.
SameLines(data, ids) == \A f, g \in Sides :
    \A i \in DOMAIN data[f], j \in DOMAIN data[g] :
        (ids[f][i] = ids[g][j]) = (data[f][i] = data[g][j])
=============================================================================

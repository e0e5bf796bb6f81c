-------------------------------- MODULE Diff --------------------------------
(***************************************************************************)
(* Comparing two files (diff_file of xdiff.go), from their lines to what   *)
(* is shown, and comparing two lines rune by rune (diff_lines), which      *)
(* shares the middle part.  One action is one function of the pipeline, or *)
(* one turn of its loop where it works in place or recursively.            *)
(*                                                                         *)
(* None of the flags of the package is ever set, so lines are compared     *)
(* exactly, blank ones count, and the output is HTML in two columns.       *)
(*                                                                         *)
(* side 1 and 2 are the two files.  Positions count from 0, as in the      *)
(* code; a range is given by its first position and the one after it.      *)
(***************************************************************************)
EXTENDS FindEquivLines, Myers

CONSTANTS
    Files,          \* bound: the files compared, sequences of lines, or of runes
    Context,        \* flag_context_lines
    Score           \* rune_edge_score, from runes to Nat

ASSUME FilesAssumption   == Files \subseteq Seq(Items)
ASSUME ContextAssumption == Context \in Nat
ASSUME ScoreAssumption   == Score \in [Items -> Nat]

Other(side) == 3 - side
Least(a, b) == IF a < b THEN a ELSE b
Greatest(a, b) == IF a < b THEN b ELSE a

VARIABLES
    mode,           \* "lines" or "runes"
    data,           \* what is compared, for each side
    stage,
    ids,            \* the numbers that stand for the lines
    change,         \* is a line (or rune) changed?
    zstart,         \* where the compressed part begins
    zids, zcount,   \* the compressed part, and the lines each entry stands for
    zchange,        \* is an entry changed?
    stack,          \* calls of algorithm_lcs to come: [s, e], each for both sides
    v,              \* the array of algorithm_sms
    side, start,    \* the list shift_boundaries works on, and its cursor
    i1, i2,         \* the cursors of report_diff
    ops,            \* the group it is gathering
    shown           \* the groups shown so far

input == <<mode, data>>
cursors == <<side, start>>
report == <<i1, i2, ops, shown>>
vars == <<input, stage, ids, change, zstart, zids, zcount, zchange, stack, v, cursors, report>>

Unchanged(n) == [i \in 1 .. n |-> FALSE]

\* do_diff: from where algorithm_lcs starts, and how large v is.
Whole(a, b) == <<[s |-> <<0, 0>>, e |-> <<Len(a), Len(b)>>]>>
Array(a, b) == [i \in 0 .. 2 * ((Len(a) + Len(b) + 1) * 2 + 2) - 1 |-> 0]

\* Files whose bytes differ (in line ends, it may be) or two runs of runes.
Init ==
    /\ data \in [Sides -> Files]
    /\ \/ mode = "lines" /\ stage = "equiv"
          /\ ids = [f \in Sides |-> <<>>]
          /\ zids = [f \in Sides |-> <<>>]
          /\ stack = <<>>
          /\ v = <<>>
       \/ mode = "runes" /\ stage = "lcs"
          /\ ids = data
          /\ zids = data
          /\ stack = Whole(data[1], data[2])
          /\ v = Array(data[1], data[2])
    /\ change  = [f \in Sides |-> Unchanged(Len(data[f]))]
    /\ zchange = change
    /\ zstart  = [f \in Sides |-> 0]
    /\ zcount  = [f \in Sides |-> <<>>]
    /\ side = 1 /\ start = 0
    /\ i1 = 0 /\ i2 = 0
    /\ ops = <<>> /\ shown = <<>>

-----------------------------------------------------------------------------
(* find_equiv_lines.                                                       *)

Equiv ==
    /\ stage = "equiv"
    /\ ids' = EquivIds(data)
    /\ stage' = "compress"
    /\ UNCHANGED <<input, change, zstart, zids, zcount, zchange, stack, v, cursors, report>>

-----------------------------------------------------------------------------
(* compress_equiv_ids.                                                     *)

\* Does the line at p of one side not occur in the other?
Alone(f, p) == At(ids[f], p) \notin ToSet(ids[Other(f)])

\* Where the ends of what both have in common are, lines that occur in one of them
\* only passed over: from the start ...
FrontTurn(p) ==
    IF p[1] = Len(ids[1]) \/ p[2] = Len(ids[2]) THEN p
    ELSE IF Alone(1, p[1]) THEN <<p[1] + 1, p[2]>>
    ELSE IF Alone(2, p[2]) THEN <<p[1], p[2] + 1>>
    ELSE IF At(ids[1], p[1]) = At(ids[2], p[2]) THEN <<p[1] + 1, p[2] + 1>>
    ELSE p

FrontEnd ==
    LET at[i \in 0 .. Len(ids[1]) + Len(ids[2])] ==
          IF i = 0 THEN <<0, 0>> ELSE FrontTurn(at[i - 1])
    IN  at[Len(ids[1]) + Len(ids[2])]

\* ... and from the end, as far as s.
BackTurn(s, p) ==
    IF p[1] = s[1] \/ p[2] = s[2] THEN p
    ELSE IF Alone(1, p[1] - 1) THEN <<p[1] - 1, p[2]>>
    ELSE IF Alone(2, p[2] - 1) THEN <<p[1], p[2] - 1>>
    ELSE IF At(ids[1], p[1] - 1) = At(ids[2], p[2] - 1) THEN <<p[1] - 1, p[2] - 1>>
    ELSE p

BackEnd(s) ==
    LET at[i \in 0 .. Len(ids[1]) + Len(ids[2])] ==
          IF i = 0 THEN <<Len(ids[1]), Len(ids[2])>> ELSE BackTurn(s, at[i - 1])
    IN  at[Len(ids[1]) + Len(ids[2])]

\* The lines passed over are marked; the others there have their twins.
Excluded(s, e) ==
    [f \in Sides |-> [p \in DOMAIN change[f] |->
        (p <= s[f] \/ e[f] < p) /\ Alone(f, p - 1)]]

MarkedRange(ch, f, s, e) ==
    [ch EXCEPT ![f] = [p \in DOMAIN @ |-> @[p] \/ (s < p /\ p <= e)]]

\* One line of the rest: a run of lines that occur in one file only becomes one
\* entry, with a negative number nothing else has.
Merge(f, st, p) ==
    LET last == Len(st.zids)
    IN  IF Alone(f, p) /\ st.alone
        THEN [st EXCEPT !.zcount[last] = @ + 1, !.zids[last] = - st.next, !.next = @ + 1]
        ELSE [zids   |-> Append(st.zids, IF Alone(f, p) THEN - At(ids[f], p) ELSE At(ids[f], p)),
              zcount |-> Append(st.zcount, 1),
              alone  |-> Alone(f, p),
              next   |-> st.next]

Compressed(f, s, e, next) ==
    LET st[i \in 0 .. e - s] ==
          IF i = 0 THEN [zids |-> <<>>, zcount |-> <<>>, alone |-> FALSE, next |-> next]
          ELSE Merge(f, st[i - 1], s + i - 1)
    IN  st[e - s]

Compress ==
    /\ stage = "compress"
    /\ LET s == FrontEnd
           e == BackEnd(s)
           z1 == Compressed(1, s[1], e[1], 1 + CHOOSE n \in ToSet(ids[1] \o ids[2]) :
                                                  \A m \in ToSet(ids[1] \o ids[2]) : m <= n)
           z2 == Compressed(2, s[2], e[2], z1.next)
       IN  \/ /\ s[1] = e[1] \/ s[2] = e[2]
              /\ change' = LET f == IF s[1] = e[1] THEN 2 ELSE 1
                           IN  MarkedRange(Excluded(s, e), f, s[f], e[f])
              /\ stage' = "shift"
              /\ UNCHANGED <<zstart, zids, zcount, zchange, stack, v>>
           \/ /\ s[1] < e[1] /\ s[2] < e[2]
              /\ change' = Excluded(s, e)
              /\ zstart' = s
              /\ zids' = <<z1.zids, z2.zids>>
              /\ zcount' = <<z1.zcount, z2.zcount>>
              /\ zchange' = <<Unchanged(Len(z1.zids)), Unchanged(Len(z2.zids))>>
              /\ stack' = Whole(z1.zids, z2.zids)
              /\ v' = Array(z1.zids, z2.zids)
              /\ stage' = "lcs"
    /\ UNCHANGED <<input, ids, cursors, report>>

-----------------------------------------------------------------------------
(* algorithm_lcs, a call at a time.                                        *)

\* How many items two ranges have in common at the start, and then at the end.
Same(s, e) == Run(e[1] - s[1], {i \in 0 .. e[1] - s[1] - 1 :
    s[2] + i < e[2] /\ At(zids[1], s[1] + i) = At(zids[2], s[2] + i)})
SameBack(s, e) == Run(e[1] - s[1], {i \in 0 .. e[1] - s[1] - 1 :
    s[2] < e[2] - i /\ At(zids[1], e[1] - i - 1) = At(zids[2], e[2] - i - 1)})

\* Where to divide: a point, or the two ends of a middle snake.
Divide(a, b) ==
    CASE Len(a) = 1 -> [v |-> v, snake |-> FindOne(a[1], b) \o FindOne(a[1], b)]
      [] Len(a) # 1 /\ Len(b) = 1 ->
           LET at == FindOne(b[1], a) IN [v |-> v, snake |-> <<at[2], at[1], at[2], at[1]>>]
      [] OTHER -> MiddleSnake(a, b, v)

Lcs ==
    /\ stage = "lcs"
    /\ stack # <<>>
    /\ LET s0 == Head(stack).s
           e0 == Head(stack).e
           n  == Same(s0, e0)
           s  == <<s0[1] + n, s0[2] + n>>
           m  == SameBack(s, e0)
           e  == <<e0[1] - m, e0[2] - m>>
           a  == SubSeq(zids[1], s[1] + 1, e[1])
           b  == SubSeq(zids[2], s[2] + 1, e[2])
           at == Divide(a, b)
       IN  \/ /\ \/ Len(a) = 0 \/ Len(b) = 0 \/ (Len(a) = 1 /\ Len(b) = 1)
              /\ zchange' = MarkedRange(MarkedRange(zchange, 1, s[1], e[1]), 2, s[2], e[2])
              /\ stack' = Tail(stack)
              /\ UNCHANGED v
           \/ /\ ~ (Len(a) = 0 \/ Len(b) = 0 \/ (Len(a) = 1 /\ Len(b) = 1))
              /\ stack' = <<[s |-> s, e |-> <<s[1] + at.snake[1], s[2] + at.snake[2]>>],
                            [s |-> <<s[1] + at.snake[3], s[2] + at.snake[4]>>, e |-> e]>>
                          \o Tail(stack)
              /\ v' = at.v
              /\ UNCHANGED zchange
    /\ UNCHANGED <<input, stage, ids, change, zstart, zids, zcount, cursors, report>>

\* expand_change_list: every entry stands for zcount lines again.
Expanded(f) ==
    LET st[i \in 0 .. Len(zcount[f])] ==
          IF i = 0 THEN <<>> ELSE st[i - 1] \o [j \in 1 .. zcount[f][i] |-> zchange[f][i]]
    IN  st[Len(zcount[f])]

Expand ==
    /\ stage = "lcs"
    /\ stack = <<>>
    /\ change' = IF mode = "runes" THEN zchange
                 ELSE [f \in Sides |-> [p \in DOMAIN change[f] |->
                        LET z == p - zstart[f]
                        IN  change[f][p] \/ (z \in DOMAIN Expanded(f) /\ Expanded(f)[z])]]
    /\ stage' = "shift"
    /\ UNCHANGED <<input, ids, zstart, zids, zcount, zchange, stack, v, cursors, report>>

-----------------------------------------------------------------------------
(* shift_boundaries, a chunk of changes at a time.                         *)

ch == change[side]
list == ids[side]
clen == Len(ch)
Is(p) == 0 <= p /\ p < clen /\ At(ch, p)            \* changed
IsNot(p) == 0 <= p /\ p < clen /\ ~ At(ch, p)       \* not changed

\* The first place from p on that is not changed, or the end.
EndOf(p) == p + Run(clen - p, {i \in 0 .. clen : Is(p + i)})

\* find_shift_boundary: how far the chunk [s, e) can go up and down.
UpBy(s, e) ==
    Run(s, {n \in 0 .. s : IsNot(s - n - 1) /\ At(list, s - n - 1) = At(list, e - n - 1)})
DownBy(s, e) ==
    Run(clen - e, {n \in 0 .. clen : IsNot(e + n) /\ At(list, e + n) = At(list, s + n)})

\* Setting the new places without resetting the old ones.
MutShifted(s, e, by) == [q \in DOMAIN ch |-> ch[q] \/ (s + by < q /\ q <= e + by)]

\* do_shift_boundary.
Shifted(s, e, by) ==
    [q \in DOMAIN ch |-> IF s + by < q /\ q <= e + by THEN TRUE
                         ELSE IF Least(s, e + by) < q /\ q <= Greatest(e, s + by) THEN FALSE
                         ELSE ch[q]]

\* Where the chunk that reaches up to p begins.
StartOf(c, p) == p - Run(p, {i \in 0 .. p - 1 : At(c, p - i - 1)})

\* The first of the best places for a chunk of runes; 0 stands if none is better.
RuneScore(s, e, i) == Score[At(list, s + i)] + Score[At(list, e + i - 1)]
Best(s, e, up, down) ==
    CHOOSE i \in -up .. down :
        /\ \A j \in -up .. down : RuneScore(s, e, j) <= RuneScore(s, e, i)
        /\ i # 0 => /\ RuneScore(s, e, i) > RuneScore(s, e, 0)
                    /\ \A j \in -up .. i - 1 : RuneScore(s, e, j) < RuneScore(s, e, i)

ShiftTo(s, e, by) == change' = [change EXCEPT ![side] = Shifted(s, e, by)]

\* Shifting whether the chunk merges with another or not.
MutShiftChunk ==
    LET s    == CHOOSE p \in start .. clen - 1 : Is(p) /\ \A q \in start .. p - 1 : ~ Is(q)
        e    == EndOf(s + 1)
        up   == IF s = 0 THEN 0 ELSE UpBy(s, e)
        down == IF s = 0 THEN 0 ELSE DownBy(s, e)
    IN  \/ up > 0 /\ ShiftTo(s, e, -up) /\ start' = s - up
        \/ up = 0 /\ down > 0 /\ ShiftTo(s, e, down) /\ start' = s
        \/ up = 0 /\ down = 0 /\ UNCHANGED change /\ start' = e

ShiftChunk ==
    LET s    == CHOOSE p \in start .. clen - 1 : Is(p) /\ \A q \in start .. p - 1 : ~ Is(q)
        e    == EndOf(s + 1)
        up   == IF s = 0 THEN 0 ELSE UpBy(s, e)
        down == IF s = 0 THEN 0 ELSE DownBy(s, e)
        upMerge   == up > 0 /\ ~ IsNot(s - up - 1)
        downMerge == down > 0 /\ ~ IsNot(e + down)
        merged    == StartOf(Shifted(s, e, -up), s - up)
        best      == Best(s, e, up, down)
    IN  \/ /\ upMerge
           /\ ShiftTo(s, e, -up)
           /\ start' = IF merged > 0 THEN merged ELSE s
        \/ /\ ~ upMerge /\ downMerge
           /\ ShiftTo(s, e, down)
           /\ start' = s + down
        \/ /\ ~ upMerge /\ ~ downMerge /\ up + down > 0 /\ mode = "runes"
           /\ ShiftTo(s, e, best)
           /\ start' = IF best > 0 THEN e + best ELSE e
        \/ /\ ~ upMerge /\ ~ downMerge /\ (up + down = 0 \/ mode = "lines")
           /\ start' = e
           /\ UNCHANGED change

Shift ==
    /\ stage = "shift"
    /\ \E p \in start .. clen - 1 : Is(p)
    /\ ShiftChunk
    /\ UNCHANGED <<input, stage, ids, zstart, zids, zcount, zchange, stack, v, side, report>>

ShiftEnd ==
    /\ stage = "shift"
    /\ \A p \in start .. clen - 1 : ~ Is(p)
    /\ start' = 0
    /\ \/ side = 1 /\ side' = 2 /\ UNCHANGED stage
       \/ side = 2 /\ stage' = (IF mode = "lines" THEN "report" ELSE "done") /\ UNCHANGED side
    /\ UNCHANGED <<input, ids, change, zstart, zids, zcount, zchange, stack, v, report>>

-----------------------------------------------------------------------------
(* report_diff.                                                            *)

Op(op, s1, e1, s2, e2) == [op |-> op, s |-> <<s1, s2>>, e |-> <<e1, e2>>]

\* The end of the last op of the group.
LastEnd == IF ops = <<>> THEN <<0, 0>> ELSE ops[Len(ops)].e

\* Unchanged lines up to e from s, if there are any.
Between(s, e) == IF s[1] < e[1] \/ s[2] < e[2] THEN <<Op("same", s[1], e[1], s[2], e[2])>> ELSE <<>>

Closes(op) ==
    /\ ops # <<>>
    /\ \/ op.op = "end"
       \/ \A f \in Sides : op.s[f] - LastEnd[f] > 2 * Context

Trailing(op) ==
    Between(LastEnd, [f \in Sides |-> Least(op.s[f], LastEnd[f] + Context)])

\* Showing the lines before a change from the context on, shown already or not.
MutLeading(op) == Between([f \in Sides |-> Greatest(0, op.s[f] - Context)], op.s)

Leading(op) == Between([f \in Sides |-> Greatest(LastEnd[f], op.s[f] - Context)], op.s)

\* add_change_segment.
AddSegment(op) ==
    /\ shown' = IF Closes(op) THEN Append(shown, ops \o Trailing(op)) ELSE shown
    /\ ops' = (IF Closes(op) THEN <<>> ELSE ops) \o Leading(op)
                \o (IF op.op = "end" THEN <<>> ELSE <<op>>)

\* The end of the changes that begin at p; next_change_segment.
ChangeEnd(f, p) ==
    CHOOSE q \in p + 1 .. Len(change[f]) :
        /\ \A r \in p .. q - 1 : At(change[f], r)
        /\ q = Len(change[f]) \/ ~ At(change[f], q)

Changed(f, p) == p < Len(change[f]) /\ At(change[f], p)
Kept(f, p) == p < Len(change[f]) /\ ~ At(change[f], p)

Report ==
    /\ stage = "report"
    /\ \/ /\ Kept(1, i1) /\ Kept(2, i2)
          /\ i1' = i1 + 1 /\ i2' = i2 + 1
          /\ UNCHANGED <<ops, shown>>
       \/ /\ Changed(1, i1) /\ Changed(2, i2)
          /\ i1' = ChangeEnd(1, i1) /\ i2' = ChangeEnd(2, i2)
          /\ AddSegment(Op("modify", i1, i1', i2, i2'))
       \/ /\ Changed(1, i1) /\ ~ Changed(2, i2)
          /\ i1' = ChangeEnd(1, i1) /\ UNCHANGED i2
          /\ AddSegment(Op("remove", i1, i1', i2, i2))
       \/ /\ ~ Changed(1, i1) /\ Changed(2, i2)
          /\ i2' = ChangeEnd(2, i2) /\ UNCHANGED i1
          /\ AddSegment(Op("insert", i1, i1, i2, i2'))
    /\ UNCHANGED <<input, stage, ids, change, zstart, zids, zcount, zchange, stack, v, cursors>>

\* Both at the end, or one, where the other has an unchanged line: the case that
\* "should not" be reached, which leaves the last group unshown.
ReportEnd ==
    /\ stage = "report"
    /\ ~ Changed(1, i1) /\ ~ Changed(2, i2) /\ ~ (Kept(1, i1) /\ Kept(2, i2))
    /\ IF i1 = Len(change[1]) /\ i2 = Len(change[2]) /\ ops # <<>>
       THEN AddSegment(Op("end", i1, i1, i2, i2))
       ELSE UNCHANGED <<ops, shown>>
    /\ stage' = "done"
    /\ UNCHANGED <<input, ids, change, zstart, zids, zcount, zchange, stack, v, cursors, i1, i2>>

-----------------------------------------------------------------------------
Done == stage = "done" /\ UNCHANGED vars

Next == Equiv \/ Compress \/ Lcs \/ Expand \/ Shift \/ ShiftEnd \/ Report \/ ReportEnd \/ Done

\* The one goroutine that compares goes on until it is done: weak fairness, said
\* without ENABLED, since there is a step to take until then (no deadlock).
Fairness == []<><<Next>>_vars \/ <>[](stage = "done")

Spec == Init /\ [][Next]_vars /\ Fairness

-----------------------------------------------------------------------------
\* Whatever collides in the hash table, two lines of either file get the same
\* number just when they are the same.
NumbersAreLines == stage \notin {"equiv", "lcs"} => SameLines(data, ids)

\* The text without what is marked, up to each of its items.
KeptUpTo(text, marks) ==
    LET kept[i \in 0 .. Len(text)] ==
          IF i = 0 THEN <<>>
          ELSE IF marks[i] THEN kept[i - 1] ELSE Append(kept[i - 1], text[i])
    IN  kept
KeptText(text, marks) == KeptUpTo(text, marks)[Len(text)]

KeptOf(f) == KeptText(data[f], change[f])
Compared == stage \in {"shift", "report", "done"}

\* What is not marked as changed is the same text in both, before, during and
\* after shifting.
KeepsCommonText == Compared => KeptOf(1) = KeptOf(2)

\* Length of a longest common subsequence, by its definition.
LcsLength ==
    LET n[i \in 0 .. Len(data[1]), j \in 0 .. Len(data[2])] ==
          IF i = 0 \/ j = 0 THEN 0
          ELSE IF data[1][i] = data[2][j] THEN n[i - 1, j - 1] + 1
          ELSE Greatest(n[i - 1, j], n[i, j - 1])
    IN  n[Len(data[1]), Len(data[2])]

\* As few lines as possible are marked, and shifting does not mark more.
MarksFewest == Compared => Len(KeptOf(1)) = LcsLength

\* shift_boundaries, which goes back after a merge, comes to an end.
Terminates == <>(stage = "done")

\* The lines of one side that are shown as changed, and as context, in order.
Places(f, kinds) ==
    FlattenSeq([i \in DOMAIN FlattenSeq(shown) |->
        LET op == FlattenSeq(shown)[i]
        IN  IF op.op \in kinds THEN [k \in 1 .. op.e[f] - op.s[f] |-> op.s[f] + k] ELSE <<>>])

\* Every changed line of either file is shown just once and as changed.  Other
\* lines are shown once at most, with the same text on both sides, and in
\* stretches of at most Context lines next to a change.
ShowsTheChanges == (stage = "done" /\ mode = "lines") => \A f \in Sides :
    LET all  == Places(f, {"same", "modify", "remove", "insert"})
        same == ToSet(Places(f, {"same"}))
    IN  /\ \A i, j \in DOMAIN all : i < j => all[i] < all[j]
        /\ ToSet(all) \ same = {p \in DOMAIN data[f] : change[f][p]}
        /\ \A i \in DOMAIN FlattenSeq(shown) :
             LET op == FlattenSeq(shown)[i]
             IN  op.op = "same" => /\ SubSeq(data[1], op.s[1] + 1, op.e[1])
                                        = SubSeq(data[2], op.s[2] + 1, op.e[2])
                                   /\ op.e[f] - op.s[f] <= Context
=============================================================================

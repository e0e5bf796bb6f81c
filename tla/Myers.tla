------------------------------- MODULE Myers --------------------------------
(***************************************************************************)
(* The comparison at the heart of the diff (xdiff.go): the search for a    *)
(* middle snake of Myers' O(ND) algorithm, in both directions over one     *)
(* array v, which the caller passes on from subproblem to subproblem with  *)
(* whatever the last one left in it.                                       *)
(*                                                                         *)
(* Positions in the data count from 0, as in the code.                     *)
(***************************************************************************)
EXTENDS Integers, SequencesExt

At(data, i) == data[i + 1]

\* Where a loop stops that counts up from 0 while it finds itself in Ok, and to n
\* at most.
Run(n, Ok) == CHOOSE k \in 0 .. n : 0 .. k - 1 \subseteq Ok /\ (k = n \/ k \notin Ok)

\* v[i] = x; there is no case for an i beyond the array, where Go panics.
Put(v, i, x) == CASE i \in DOMAIN v -> [v EXCEPT ![i] = x]

\* How far a diagonal is followed from x, downwards and upwards.
Down(a, b, x, k) == x + Run(Len(a), {i \in 0 .. Len(a) :
    x + i < Len(a) /\ x + i - k < Len(b) /\ At(a, x + i) = At(b, x + i - k)})
Up(a, b, x, k) == x - Run(Len(a), {i \in 0 .. Len(a) :
    x - i > 0 /\ x - i > k /\ At(a, x - i - 1) = At(b, x - i - k - 1)})

\* The parameters of one search, from the lengths of the data.
Search(a, b) ==
    LET max == Len(a) + Len(b) + 1
        upK == Len(a) - Len(b)
    IN  [max |-> max, upK |-> upK, odd |-> upK % 2 # 0,
         down |-> max, up |-> max - upK + max + max + 2]

\* The search ends with the snake from u to x on diagonal k.
Found(st, u, x, k) == [st EXCEPT !.snake = <<u, u - k, x, x - k>>]
Goes(st) == st.snake = <<>>

\* A turn of either loop over the diagonals k of distance d.  st.z is the value
\* of v on the diagonal before.
ForwardTurn(a, b, d, st, k) ==
    LET s   == Search(a, b)
        old == st.v[s.down + k + 1]
        u   == IF k > -d /\ (k = d \/ st.z >= old) THEN st.z + 1 ELSE old
        x   == Down(a, b, u, k)
    IN  IF s.odd /\ s.upK - d < k /\ k < s.upK + d /\ st.v[s.up + k] <= x
        THEN Found(st, u, x, k)
        ELSE [st EXCEPT !.v = Put(@, s.down + k, x), !.z = old]

\* Preferring the way that has come less far.
MutBackwardTurn(a, b, d, st, k) ==
    LET s    == Search(a, b)
        next == IF k < s.upK + d THEN st.v[s.up + k + 1] ELSE st.z
        u    == IF k < s.upK + d /\ (k = s.upK - d \/ next >= st.z) THEN next - 1 ELSE st.z
        x    == Up(a, b, u, k)
    IN  IF ~ s.odd /\ -d <= k /\ k <= d /\ x <= st.v[s.down + k]
        THEN Found(st, x, u, k)
        ELSE [st EXCEPT !.v = Put(@, s.up + k, x), !.z = next]

BackwardTurn(a, b, d, st, k) ==
    LET s    == Search(a, b)
        next == IF k < s.upK + d THEN st.v[s.up + k + 1] ELSE st.z
        u    == IF k < s.upK + d /\ (k = s.upK - d \/ next <= st.z) THEN next - 1 ELSE st.z
        x    == Up(a, b, u, k)
    IN  IF ~ s.odd /\ -d <= k /\ k <= d /\ x <= st.v[s.down + k]
        THEN Found(st, x, u, k)
        ELSE [st EXCEPT !.v = Put(@, s.up + k, x), !.z = next]

\* A loop after each of its n turns, unless the snake was found before.
Turns(n, first, Turn(_, _)) ==
    LET st[i \in 0 .. n] ==
          IF i = 0 THEN first
          ELSE LET last == st[i - 1] IN IF Goes(last) THEN Turn(last, i) ELSE last
    IN  st

\* All diagonals of distance d, forwards and then backwards.
Distance(a, b, st, d) ==
    LET s    == Search(a, b)
        down == Turns(d + 1, st, LAMBDA t, i : ForwardTurn(a, b, d, t, -d + 2 * (i - 1)))[d + 1]
        up   == [down EXCEPT !.z = down.v[s.up + s.upK - d - 1]]
    IN  IF Goes(down)
        THEN Turns(d + 1, up, LAMBDA t, i : BackwardTurn(a, b, d, t, s.upK - d + 2 * (i - 1)))[d + 1]
        ELSE down

\* algorithm_sms: the middle snake and what is left in v.
MiddleSnake(a, b, v) ==
    LET s  == Search(a, b)
        v1 == Put(Put(v, s.down + 1, 0), s.down, 0)
        v2 == Put(Put(v1, s.up + s.upK - 1, Len(a)), s.up + s.upK, Len(a))
    IN  Turns(s.max, [v |-> v2, snake |-> <<>>, z |-> 0],
              LAMBDA st, d : Distance(a, b, st, d))[s.max]

\* find_one_sms: where one value is to be divided off a list.
FindOne(value, list) ==
    IF \E i \in DOMAIN list : list[i] = value
    THEN <<0, CHOOSE i \in 0 .. Len(list) - 1 :
                At(list, i) = value /\ \A j \in 0 .. i - 1 : At(list, j) # value>>
    ELSE <<1, 0>>
=============================================================================

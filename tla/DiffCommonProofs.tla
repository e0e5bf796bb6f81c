-------------------------- MODULE DiffCommonProofs --------------------------
(***************************************************************************)
(* What is not marked as changed is the same text on both sides, and what  *)
(* is marked is what the report shows: the invariants KeepsCommonText and  *)
(* ShowsTheChanges of Diff, for all files, hash functions, scores and      *)
(* amounts of context.                                                     *)
(*                                                                         *)
(* "The same" is said by links: from one place in both texts to a later    *)
(* one, past marked items of either and pairs of equal items of both.  A   *)
(* link from the start of both texts to their ends is what the first of    *)
(* the two needs; the stages of the comparison each link a part of the     *)
(* way.  The second follows from it and from a list of all that            *)
(* report_diff has shown and gathered.                                     *)
(***************************************************************************)
EXTENDS DiffProofs

(***************************************************************************)
(* Links.  t is a pair of texts and M the pair of the places that are      *)
(* marked in them.  A point <<i, j>> is i items into the first text and j  *)
(* into the second; a set of points is closed if it holds with a point     *)
(* those behind a marked item of either text, or behind two equal items    *)
(* that are not marked.                                                    *)
(***************************************************************************)
Points == Nat \X Nat

Closed(t, M, R) == \A i, j \in Nat : <<i, j>> \in R =>
    /\ i < Len(t[1]) /\ i + 1 \in M[1] => <<i + 1, j>> \in R
    /\ j < Len(t[2]) /\ j + 1 \in M[2] => <<i, j + 1>> \in R
    /\ (/\ i < Len(t[1]) /\ i + 1 \notin M[1]
        /\ j < Len(t[2]) /\ j + 1 \notin M[2]
        /\ t[1][i + 1] = t[2][j + 1]) => <<i + 1, j + 1>> \in R

\* From p to q the unmarked items of the two texts are the same.
Linked(t, M, p, q) == \A R \in SUBSET Points : p \in R /\ Closed(t, M, R) => q \in R

\* Links follow on one another.
LEMMA LinkedTo ==
  ASSUME NEW t, NEW M, NEW p, NEW q, NEW r, Linked(t, M, p, q), Linked(t, M, q, r)
  PROVE  Linked(t, M, p, r)
  BY DEF Linked

\* Along marked items of the first text,
LEMMA LinkedFirst ==
  ASSUME NEW t, NEW M, NEW i \in Nat, NEW k \in Nat, NEW j \in Nat,
         i <= k, k <= Len(t[1]), Len(t[1]) \in Nat, i + 1 .. k \subseteq M[1]
  PROVE  Linked(t, M, <<i, j>>, <<k, j>>)
  <1> SUFFICES ASSUME NEW R \in SUBSET Points, <<i, j>> \in R, Closed(t, M, R)
               PROVE  <<k, j>> \in R
    BY DEF Linked
  <1> DEFINE T == {n \in 0 .. k - i : <<i + n, j>> \in R}
  <1>1. 0 \in T
    BY i + 0 = i
  <1>2. ASSUME NEW n \in 0 .. (k - i) - 1, n \in T PROVE n + 1 \in T
    <2>1. i + n \in Nat /\ i + n < Len(t[1]) /\ (i + n) + 1 \in i + 1 .. k /\ n + 1 \in 0 .. k - i
      OBVIOUS
    <2>2. <<(i + n) + 1, j>> \in R
      BY <1>2, <2>1 DEF Closed
    <2>3. (i + n) + 1 = i + (n + 1)
      OBVIOUS
    <2> QED
      BY <2>1, <2>2, <2>3
  <1>3. k - i \in Nat /\ i + (k - i) = k
    OBVIOUS
  <1>4. k - i \in T
    <2> DEFINE N == k - i
    <2> HIDE DEF T
    <2>1. N \in Nat /\ \A n \in 0 .. N - 1 : n \in T => n + 1 \in T
      BY <1>2, <1>3
    <2> HIDE DEF N
    <2>2. \A n \in 0 .. N : n \in T
      BY <1>1, <2>1, Induction, Zenon
    <2> QED
      BY <2>1, <2>2 DEF N
  <1> QED
    BY <1>3, <1>4 DEF T

\* ... or of the second.
LEMMA LinkedSecond ==
  ASSUME NEW t, NEW M, NEW i \in Nat, NEW j \in Nat, NEW k \in Nat,
         j <= k, k <= Len(t[2]), Len(t[2]) \in Nat, j + 1 .. k \subseteq M[2]
  PROVE  Linked(t, M, <<i, j>>, <<i, k>>)
  <1> SUFFICES ASSUME NEW R \in SUBSET Points, <<i, j>> \in R, Closed(t, M, R)
               PROVE  <<i, k>> \in R
    BY DEF Linked
  <1> DEFINE T == {n \in 0 .. k - j : <<i, j + n>> \in R}
  <1>1. 0 \in T
    BY j + 0 = j
  <1>2. ASSUME NEW n \in 0 .. (k - j) - 1, n \in T PROVE n + 1 \in T
    <2>1. j + n \in Nat /\ j + n < Len(t[2]) /\ (j + n) + 1 \in j + 1 .. k /\ n + 1 \in 0 .. k - j
      OBVIOUS
    <2>2. <<i, (j + n) + 1>> \in R
      BY <1>2, <2>1 DEF Closed
    <2>3. (j + n) + 1 = j + (n + 1)
      OBVIOUS
    <2> QED
      BY <2>1, <2>2, <2>3
  <1>3. k - j \in Nat /\ j + (k - j) = k
    OBVIOUS
  <1>4. k - j \in T
    <2> DEFINE N == k - j
    <2> HIDE DEF T
    <2>1. N \in Nat /\ \A n \in 0 .. N - 1 : n \in T => n + 1 \in T
      BY <1>2, <1>3
    <2> HIDE DEF N
    <2>2. \A n \in 0 .. N : n \in T
      BY <1>1, <2>1, Induction, Zenon
    <2> QED
      BY <2>1, <2>2 DEF N
  <1> QED
    BY <1>3, <1>4 DEF T

\* Along equal items that are not marked.
LEMMA LinkedDiagonal ==
  ASSUME NEW t, NEW M, NEW i \in Nat, NEW j \in Nat, NEW n \in Nat,
         Len(t[1]) \in Nat, Len(t[2]) \in Nat, i + n <= Len(t[1]), j + n <= Len(t[2]),
         \A k \in 0 .. n - 1 : /\ (i + k) + 1 \notin M[1] /\ (j + k) + 1 \notin M[2]
                               /\ t[1][(i + k) + 1] = t[2][(j + k) + 1]
  PROVE  Linked(t, M, <<i, j>>, <<i + n, j + n>>)
  <1> SUFFICES ASSUME NEW R \in SUBSET Points, <<i, j>> \in R, Closed(t, M, R)
               PROVE  <<i + n, j + n>> \in R
    BY DEF Linked
  <1> DEFINE T == {k \in 0 .. n : <<i + k, j + k>> \in R}
  <1>1. 0 \in T
    BY i + 0 = i, j + 0 = j
  <1>2. ASSUME NEW k \in 0 .. n - 1, k \in T PROVE k + 1 \in T
    <2>1. /\ i + k \in Nat /\ i + k < Len(t[1]) /\ j + k \in Nat /\ j + k < Len(t[2])
          /\ k + 1 \in 0 .. n
      OBVIOUS
    <2>2. <<(i + k) + 1, (j + k) + 1>> \in R
      BY <1>2, <2>1 DEF Closed
    <2>3. (i + k) + 1 = i + (k + 1) /\ (j + k) + 1 = j + (k + 1)
      OBVIOUS
    <2> QED
      BY <2>1, <2>2, <2>3
  <1> HIDE DEF T
  <1>4. \A k \in 0 .. n : k \in T
    BY <1>1, <1>2, Induction
  <1> QED
    BY <1>4 DEF T

\* No item of either text comes later in q than in p.
Before(p, q) == p[1] <= q[1] /\ p[2] <= q[2]

\* Two pairs of sets of places that are the same from p to q.
SameMarks(M, W, p, q) ==
    /\ \A k \in p[1] + 1 .. q[1] : k \in M[1] <=> k \in W[1]
    /\ \A k \in p[2] + 1 .. q[2] : k \in M[2] <=> k \in W[2]

\* A link does not depend on what is marked elsewhere.
LEMMA LinkedStays ==
  ASSUME NEW t, NEW M, NEW W, NEW p \in Points, NEW q \in Points, Before(p, q),
         SameMarks(M, W, p, q), Linked(t, M, p, q)
  PROVE  Linked(t, W, p, q)
  <1> SUFFICES ASSUME NEW R \in SUBSET Points, p \in R, Closed(t, W, R)
               PROVE  q \in R
    BY DEF Linked
  <1> DEFINE S == {x \in Points : Before(p, x) /\ (Before(x, q) => x \in R)}
  <1>0. /\ p[1] \in Nat /\ p[2] \in Nat /\ q[1] \in Nat /\ q[2] \in Nat
    BY DEF Points
  <1>1. p \in S
    BY <1>0 DEF Before
  <1>2. Closed(t, M, S)
    <2> SUFFICES ASSUME NEW i \in Nat, NEW j \in Nat, <<i, j>> \in S
                 PROVE  /\ i < Len(t[1]) /\ i + 1 \in M[1] => <<i + 1, j>> \in S
                        /\ j < Len(t[2]) /\ j + 1 \in M[2] => <<i, j + 1>> \in S
                        /\ (/\ i < Len(t[1]) /\ i + 1 \notin M[1]
                            /\ j < Len(t[2]) /\ j + 1 \notin M[2]
                            /\ t[1][i + 1] = t[2][j + 1]) => <<i + 1, j + 1>> \in S
      BY DEF Closed
    <2>1. p[1] <= i /\ p[2] <= j /\ (i <= q[1] /\ j <= q[2] => <<i, j>> \in R)
      BY DEF Before
    <2>2. ASSUME NEW x \in Nat, NEW y \in Nat, i <= x, j <= y, x <= q[1] /\ y <= q[2] => <<x, y>> \in R
          PROVE  <<x, y>> \in S
      BY <1>0, <2>1, <2>2 DEF Before, Points
    <2>3. i + 1 <= q[1] => (i + 1 \in M[1] <=> i + 1 \in W[1])
      BY <1>0, <2>1 DEF SameMarks
    <2>4. j + 1 <= q[2] => (j + 1 \in M[2] <=> j + 1 \in W[2])
      BY <1>0, <2>1 DEF SameMarks
    <2>5. ASSUME i < Len(t[1]), i + 1 \in M[1] PROVE <<i + 1, j>> \in S
      <3>1. i + 1 <= q[1] /\ j <= q[2] => <<i + 1, j>> \in R
        <4> SUFFICES ASSUME i + 1 <= q[1], j <= q[2] PROVE <<i + 1, j>> \in R
          OBVIOUS
        <4>1. <<i, j>> \in R /\ i + 1 \in W[1]
          BY <1>0, <2>1, <2>3, <2>5
        <4> QED
          BY <2>5, <4>1 DEF Closed
      <3> QED
        BY <2>2, <3>1
    <2>6. ASSUME j < Len(t[2]), j + 1 \in M[2] PROVE <<i, j + 1>> \in S
      <3>1. i <= q[1] /\ j + 1 <= q[2] => <<i, j + 1>> \in R
        <4> SUFFICES ASSUME i <= q[1], j + 1 <= q[2] PROVE <<i, j + 1>> \in R
          OBVIOUS
        <4>1. <<i, j>> \in R /\ j + 1 \in W[2]
          BY <1>0, <2>1, <2>4, <2>6
        <4> QED
          BY <2>6, <4>1 DEF Closed
      <3> QED
        BY <2>2, <3>1
    <2>7. ASSUME i < Len(t[1]), i + 1 \notin M[1], j < Len(t[2]), j + 1 \notin M[2],
                 t[1][i + 1] = t[2][j + 1]
          PROVE  <<i + 1, j + 1>> \in S
      <3>1. i + 1 <= q[1] /\ j + 1 <= q[2] => <<i + 1, j + 1>> \in R
        <4> SUFFICES ASSUME i + 1 <= q[1], j + 1 <= q[2] PROVE <<i + 1, j + 1>> \in R
          OBVIOUS
        <4>1. <<i, j>> \in R /\ i + 1 \notin W[1] /\ j + 1 \notin W[2]
          BY <1>0, <2>1, <2>3, <2>4, <2>7
        <4> QED
          BY <2>7, <4>1 DEF Closed
      <3> QED
        BY <2>2, <3>1
    <2> QED
      BY <2>5, <2>6, <2>7
  <1>3. q \in S
    BY <1>1, <1>2 DEF Linked
  <1> QED
    BY <1>0, <1>3 DEF Before

\* The places marked in each text.
Marked(m) == [f \in Sides |-> {p \in DOMAIN m[f] : m[f][p]}]

\* Items of t that are equal stand for equal items of a and b.
Stand(t, a, b) == /\ Len(t[1]) = Len(a) /\ Len(t[2]) = Len(b)
                  /\ \A i \in 1 .. Len(a), j \in 1 .. Len(b) : t[1][i] = t[2][j] => a[i] = b[j]

\* If the ends of two texts are linked to their starts, what is not marked of them is
\* the same.
LEMMA LinkedKeepsText ==
  ASSUME NEW a \in Seq(Items), NEW b \in Seq(Items), NEW m \in [Sides -> Seq(BOOLEAN)],
         Len(m[1]) = Len(a), Len(m[2]) = Len(b),
         NEW t, Stand(t, a, b),
         Linked(t, Marked(m), <<0, 0>>, <<Len(a), Len(b)>>)
  PROVE  KeptText(a, m[1]) = KeptText(b, m[2])
  <1> DEFINE k1 == KeptUpTo(a, m[1])
             k2 == KeptUpTo(b, m[2])
             R == {x \in Points : x[1] <= Len(a) /\ x[2] <= Len(b) /\ k1[x[1]] = k2[x[2]]}
  <1>0. /\ KeptLoop(a, m[1], k1, Len(a)) /\ KeptLoop(b, m[2], k2, Len(b))
        /\ Len(a) \in Nat /\ Len(b) \in Nat /\ 1 \in Sides /\ 2 \in Sides
    <2>1. 1 \in Sides /\ 2 \in Sides
      BY DEF Sides
    <2>2. m[1] \in Seq(BOOLEAN) /\ m[2] \in Seq(BOOLEAN)
      BY <2>1
    <2> QED
      BY <2>1, <2>2, KeptUpToDef
  <1>6. /\ Len(t[1]) = Len(a) /\ Len(t[2]) = Len(b)
        /\ \A i \in 1 .. Len(a), j \in 1 .. Len(b) : t[1][i] = t[2][j] => a[i] = b[j]
    BY DEF Stand
  <1>1. /\ \A i \in 1 .. Len(a) : i \in Marked(m)[1] <=> m[1][i]
        /\ \A j \in 1 .. Len(b) : j \in Marked(m)[2] <=> m[2][j]
    <2>1. DOMAIN m[1] = 1 .. Len(a) /\ DOMAIN m[2] = 1 .. Len(b)
      BY <1>0
    <2>2. Marked(m)[1] = {p \in DOMAIN m[1] : m[1][p]} /\ Marked(m)[2] = {p \in DOMAIN m[2] : m[2][p]}
      BY <1>0 DEF Marked
    <2> QED
      BY <2>1, <2>2, Zenon
  <1>2. <<0, 0>> \in R
    BY <1>0 DEF KeptLoop, Points
  <1>3. Closed(t, Marked(m), R)
    <2> SUFFICES ASSUME NEW i \in Nat, NEW j \in Nat, <<i, j>> \in R
                 PROVE  /\ i < Len(t[1]) /\ i + 1 \in Marked(m)[1] => <<i + 1, j>> \in R
                        /\ j < Len(t[2]) /\ j + 1 \in Marked(m)[2] => <<i, j + 1>> \in R
                        /\ (/\ i < Len(t[1]) /\ i + 1 \notin Marked(m)[1]
                            /\ j < Len(t[2]) /\ j + 1 \notin Marked(m)[2]
                            /\ t[1][i + 1] = t[2][j + 1]) => <<i + 1, j + 1>> \in R
      BY DEF Closed
    <2>1. i <= Len(a) /\ j <= Len(b) /\ k1[i] = k2[j]
      OBVIOUS
    <2> HIDE DEF k1, k2
    <2>2. i < Len(a) => /\ i + 1 \in 1 .. Len(a) /\ i + 1 <= Len(a) /\ (i + 1) - 1 = i
      BY <1>0
    <2>3. j < Len(b) => /\ j + 1 \in 1 .. Len(b) /\ j + 1 <= Len(b) /\ (j + 1) - 1 = j
      BY <1>0
    <2>4. i < Len(a) => k1[i + 1] = IF m[1][i + 1] THEN k1[i] ELSE Append(k1[i], a[i + 1])
      BY <1>0, <2>2 DEF KeptLoop
    <2>5. j < Len(b) => k2[j + 1] = IF m[2][j + 1] THEN k2[j] ELSE Append(k2[j], b[j + 1])
      BY <1>0, <2>3 DEF KeptLoop
    <2>6. ASSUME NEW x \in Nat, NEW y \in Nat, x <= Len(a), y <= Len(b), k1[x] = k2[y]
          PROVE  <<x, y>> \in R
      BY <2>6 DEF Points
    <2> HIDE DEF R
    <2>7. ASSUME i < Len(a), i + 1 \in Marked(m)[1] PROVE <<i + 1, j>> \in R
      <3>1. k1[i + 1] = k1[i]
        BY <1>1, <2>2, <2>4, <2>7, Zenon
      <3> QED
        BY <2>1, <2>2, <2>6, <2>7, <3>1
    <2>8. ASSUME j < Len(b), j + 1 \in Marked(m)[2] PROVE <<i, j + 1>> \in R
      <3>1. k2[j + 1] = k2[j]
        BY <1>1, <2>3, <2>5, <2>8, Zenon
      <3> QED
        BY <2>1, <2>3, <2>6, <2>8, <3>1
    <2>9. ASSUME i < Len(a), i + 1 \notin Marked(m)[1], j < Len(b), j + 1 \notin Marked(m)[2],
                 t[1][i + 1] = t[2][j + 1]
          PROVE  <<i + 1, j + 1>> \in R
      <3>1. k1[i + 1] = Append(k1[i], a[i + 1]) /\ k2[j + 1] = Append(k2[j], b[j + 1])
        BY <1>1, <2>2, <2>3, <2>4, <2>5, <2>9, Zenon
      <3>2. a[i + 1] = b[j + 1]
        BY <1>6, <2>2, <2>3, <2>9
      <3>3. k1[i + 1] = k2[j + 1]
        BY <2>1, <3>1, <3>2, Zenon
      <3> QED
        BY <2>2, <2>3, <2>6, <2>9, <3>3
    <2> QED
      BY <2>7, <2>8, <2>9, <1>6
  <1>4. R \in SUBSET Points
    OBVIOUS
  <1>5. <<Len(a), Len(b)>> \in R
    <2> HIDE DEF R
    <2> QED
      BY <1>2, <1>3, <1>4 DEF Linked
  <1> QED
    BY <1>5, Zenon DEF KeptText

(***************************************************************************)
(* Loops. A loop of the code is a function of the number of turns made;    *)
(* what holds of its states is shown for all of them at once.              *)
(***************************************************************************)

\* What holds at the start of a loop and after a turn if before it, holds all along.
LEMMA LoopStates ==
  ASSUME NEW n \in Nat, NEW g, NEW S, g[0] \in S[0],
         \A i \in 1 .. n : g[i - 1] \in S[i - 1] => g[i] \in S[i]
  PROVE  \A i \in 0 .. n : g[i] \in S[i]
  <1> DEFINE T == {i \in 0 .. n : g[i] \in S[i]}
  <1>1. 0 \in T
    OBVIOUS
  <1>2. ASSUME NEW i \in 0 .. n - 1, i \in T PROVE i + 1 \in T
    <2>1. i + 1 \in 1 .. n /\ (i + 1) - 1 = i /\ i + 1 \in 0 .. n
      OBVIOUS
    <2> QED
      BY <1>2, <2>1
  <1> HIDE DEF T
  <1>3. \A i \in 0 .. n - 1 : i \in T => i + 1 \in T
    BY <1>2
  <1>4. \A i \in 0 .. n : i \in T
    BY <1>1, <1>3, Induction
  <1> QED
    BY <1>4 DEF T

\* f are the states of a loop of n turns; step[i] is what turn i does to the states in
\* S[i - 1].
LoopOf(n, S, first, step, f) ==
    /\ f = [i \in 0 .. n |-> f[i]]
    /\ f[0] = first
    /\ \A i \in 1 .. n : f[i - 1] \in S[i - 1] /\ f[i] = step[i][f[i - 1]]

\* A loop whose turns lead from states in S[i - 1] to states in S[i] has its states.
LEMMA LoopExists ==
  ASSUME NEW n \in Nat, NEW S, NEW first \in S[0], NEW step,
         \A i \in 1 .. n : \A z \in S[i - 1] : step[i][z] \in S[i]
  PROVE  \E f : LoopOf(n, S, first, step, f)
  <1> DEFINE Ok(f, k) == /\ f = [i \in 0 .. k |-> f[i]]
                         /\ f[0] = first
                         /\ \A i \in 1 .. k : f[i - 1] \in S[i - 1] /\ f[i] = step[i][f[i - 1]]
                         /\ f[k] \in S[k]
             T == {k \in 0 .. n : \E f : Ok(f, k)}
  <1>1. 0 \in T
    <2> DEFINE f == [i \in 0 .. 0 |-> first]
    <2>1. f = [i \in 0 .. 0 |-> f[i]] /\ f[0] = first /\ 1 .. 0 = {} /\ 0 \in 0 .. n
      OBVIOUS
    <2> HIDE DEF f
    <2>2. Ok(f, 0)
      BY <2>1
    <2> QED
      BY <2>1, <2>2
  <1>2. ASSUME NEW k \in 0 .. n - 1, k \in T PROVE k + 1 \in T
    <2>1. PICK f : Ok(f, k)
      BY <1>2
    <2> DEFINE g == [i \in 0 .. k + 1 |-> IF i = k + 1 THEN step[k + 1][f[k]] ELSE f[i]]
    <2>2. k + 1 \in 1 .. n /\ (k + 1) - 1 = k /\ k + 1 \in 0 .. n /\ 0 \in 0 .. k + 1 /\ 0 # k + 1
      OBVIOUS
    <2>3. step[k + 1][f[k]] \in S[k + 1]
      BY <2>1, <2>2
    <2>4. g = [i \in 0 .. k + 1 |-> g[i]]
      OBVIOUS
    <2>5. g[0] = first /\ g[k + 1] \in S[k + 1]
      BY <2>1, <2>2, <2>3
    <2>6. ASSUME NEW i \in 1 .. k + 1 PROVE g[i - 1] \in S[i - 1] /\ g[i] = step[i][g[i - 1]]
      <3>1. CASE i = k + 1
        <4>1. g[i] = step[i][f[k]] /\ g[i - 1] = f[k] /\ i - 1 = k
          BY <3>1
        <4> QED
          BY <2>1, <4>1
      <3>2. CASE i # k + 1
        <4>1. i \in 1 .. k /\ g[i] = f[i] /\ g[i - 1] = f[i - 1]
          BY <3>2
        <4> QED
          BY <2>1, <4>1
      <3> QED
        BY <3>1, <3>2
    <2> HIDE DEF g
    <2>7. Ok(g, k + 1)
      BY <2>4, <2>5, <2>6
    <2> QED
      BY <2>2, <2>7
  <1>3. n \in T
    <2> HIDE DEF T
    <2>1. \A k \in 0 .. n - 1 : k \in T => k + 1 \in T
      BY <1>2
    <2>2. \A k \in 0 .. n : k \in T
      BY <1>1, <2>1, Induction
    <2> QED
      BY <2>2
  <1> QED
    BY <1>3 DEF LoopOf

(***************************************************************************)
(* compress_equiv_ids: the lines passed over at the start and at the end.  *)
(***************************************************************************)

\* The numbers of the lines are positive, one for each line.
Numbered == /\ ids \in [Sides -> Seq(Nat \ {0})]
            /\ \A f \in Sides : Len(ids[f]) = Len(data[f])

\* All lines that do not occur on the other side.
AllAlone == [f \in Sides |-> {p \in 1 .. Len(ids[f]) : Alone(f, p - 1)}]

\* What the loop from the start has passed over is linked: lines marked that are
\* alone, and the others.
LEMMA FrontTurnLinks ==
  ASSUME NEW L1 \in Nat, NEW L2 \in Nat, Len(ids[1]) = L1, Len(ids[2]) = L2,
         NEW p \in Points, p[1] <= L1, p[2] <= L2, Linked(ids, AllAlone, <<0, 0>>, p)
  PROVE  LET q == FrontTurn(p)
         IN  q \in Points /\ q[1] <= L1 /\ q[2] <= L2 /\ Linked(ids, AllAlone, <<0, 0>>, q)
  <1> DEFINE q == FrontTurn(p)
  <1>0. /\ p[1] \in Nat /\ p[2] \in Nat /\ p = <<p[1], p[2]>>
        /\ (p[1] + 1) - 1 = p[1] /\ (p[2] + 1) - 1 = p[2]
    BY DEF Points
  <1>1. /\ AllAlone[1] = {k \in 1 .. L1 : Alone(1, k - 1)}
        /\ AllAlone[2] = {k \in 1 .. L2 : Alone(2, k - 1)}
    BY DEF AllAlone, Sides
  <1>2. CASE p[1] = L1 \/ p[2] = L2
    <2>1. q = p
      BY <1>2 DEF FrontTurn
    <2> QED
      BY <2>1
  <1>3. CASE ~ (p[1] = L1 \/ p[2] = L2)
    <2>0. p[1] < L1 /\ p[2] < L2 /\ p[1] + 1 \in 1 .. L1 /\ p[2] + 1 \in 1 .. L2
      BY <1>0, <1>3
    <2>1. CASE Alone(1, p[1])
      <3>1. q = <<p[1] + 1, p[2]>>
        BY <1>3, <2>1 DEF FrontTurn
      <3>2. p[1] + 1 \in AllAlone[1]
        BY <1>0, <1>1, <2>0, <2>1
      <3>3. Linked(ids, AllAlone, <<p[1], p[2]>>, <<p[1] + 1, p[2]>>)
        <4>1. p[1] + 1 .. p[1] + 1 \subseteq AllAlone[1]
          BY <1>0, <3>2
        <4> QED
          BY <1>0, <2>0, <4>1, LinkedFirst
      <3>4. Linked(ids, AllAlone, <<0, 0>>, q)
        BY <1>0, <3>1, <3>3, LinkedTo
      <3> QED
        BY <1>0, <2>0, <3>1, <3>4 DEF Points
    <2>2. CASE ~ Alone(1, p[1]) /\ Alone(2, p[2])
      <3>1. q = <<p[1], p[2] + 1>>
        BY <1>3, <2>2 DEF FrontTurn
      <3>2. p[2] + 1 \in AllAlone[2]
        BY <1>0, <1>1, <2>0, <2>2
      <3>3. Linked(ids, AllAlone, <<p[1], p[2]>>, <<p[1], p[2] + 1>>)
        <4>1. p[2] + 1 .. p[2] + 1 \subseteq AllAlone[2]
          BY <1>0, <3>2
        <4> QED
          BY <1>0, <2>0, <4>1, LinkedSecond
      <3>4. Linked(ids, AllAlone, <<0, 0>>, q)
        BY <1>0, <3>1, <3>3, LinkedTo
      <3> QED
        BY <1>0, <2>0, <3>1, <3>4 DEF Points
    <2>3. CASE /\ ~ Alone(1, p[1]) /\ ~ Alone(2, p[2])
               /\ At(ids[1], p[1]) = At(ids[2], p[2])
      <3>1. q = <<p[1] + 1, p[2] + 1>>
        BY <1>3, <2>3 DEF FrontTurn
      <3>2. p[1] + 1 \notin AllAlone[1] /\ p[2] + 1 \notin AllAlone[2]
        BY <1>0, <1>1, <2>3
      <3>3. ids[1][p[1] + 1] = ids[2][p[2] + 1]
        BY <2>3 DEF At
      <3>4. Linked(ids, AllAlone, <<p[1], p[2]>>, <<p[1] + 1, p[2] + 1>>)
        <4>1. \A k \in 0 .. 1 - 1 : /\ (p[1] + k) + 1 \notin AllAlone[1]
                                    /\ (p[2] + k) + 1 \notin AllAlone[2]
                                    /\ ids[1][(p[1] + k) + 1] = ids[2][(p[2] + k) + 1]
          <5>1. \A k \in 0 .. 1 - 1 : p[1] + k = p[1] /\ p[2] + k = p[2]
            BY <1>0
          <5> QED
            BY <3>2, <3>3, <5>1
        <4>2. /\ 1 \in Nat /\ Len(ids[1]) \in Nat /\ Len(ids[2]) \in Nat
              /\ p[1] + 1 <= Len(ids[1]) /\ p[2] + 1 <= Len(ids[2])
          BY <1>0, <2>0
        <4> QED
          BY <1>0, <4>1, <4>2, LinkedDiagonal, Zenon
      <3>5. Linked(ids, AllAlone, <<0, 0>>, q)
        BY <1>0, <3>1, <3>4, LinkedTo
      <3> QED
        BY <1>0, <2>0, <3>1, <3>5 DEF Points
    <2>4. CASE /\ ~ Alone(1, p[1]) /\ ~ Alone(2, p[2])
               /\ At(ids[1], p[1]) # At(ids[2], p[2])
      <3>1. q = p
        BY <1>3, <2>4 DEF FrontTurn
      <3> QED
        BY <3>1
    <2> QED
      BY <2>1, <2>2, <2>3, <2>4
  <1> QED
    BY <1>2, <1>3

\* So it is with all that the loop from the start passes over.
LEMMA FrontEndLinks ==
  ASSUME NEW L1 \in Nat, NEW L2 \in Nat, Len(ids[1]) = L1, Len(ids[2]) = L2
  PROVE  LET q == FrontEnd
         IN  q \in Points /\ q[1] <= L1 /\ q[2] <= L2 /\ Linked(ids, AllAlone, <<0, 0>>, q)
  <1> DEFINE R == {p \in Points : p[1] <= L1 /\ p[2] <= L2 /\ Linked(ids, AllAlone, <<0, 0>>, p)}
             n == L1 + L2
             S == [i \in 0 .. n |-> R]
             step == [i \in 1 .. n |-> [z \in R |-> FrontTurn(z)]]
             Def(g) == [i \in 0 .. n |-> IF i = 0 THEN <<0, 0>> ELSE FrontTurn(g[i - 1])]
             at == CHOOSE g : g = Def(g)
  <1>1. FrontEnd = at[n]
    BY DEF FrontEnd
  <1>2. <<0, 0>> \in R
    BY DEF Points, Linked
  <1>3. \A z \in R : FrontTurn(z) \in R
    BY FrontTurnLinks
  <1>4. n \in Nat
    OBVIOUS
  <1> HIDE DEF R, n
  <1>5. \E g : g = Def(g)
    <2>1. \A i \in 0 .. n : S[i] = R
      OBVIOUS
    <2>2. \A i \in 1 .. n : \A z \in S[i - 1] : step[i][z] = FrontTurn(z) /\ z \in R
      <3>1. \A i \in 1 .. n : i - 1 \in 0 .. n
        BY <1>4
      <3> QED
        BY <2>1, <3>1
    <2>3. <<0, 0>> \in S[0]
      BY <1>2, <1>4, <2>1
    <2>4. \A i \in 1 .. n : \A z \in S[i - 1] : step[i][z] \in S[i]
      <3>1. \A i \in 1 .. n : i \in 0 .. n
        BY <1>4
      <3> QED
        BY <1>3, <2>1, <2>2, <3>1
    <2> HIDE DEF S, step
    <2>5. PICK f : LoopOf(n, S, <<0, 0>>, step, f)
      BY <1>4, <2>3, <2>4, LoopExists
    <2>6. \A i \in 0 .. n : f[i] = IF i = 0 THEN <<0, 0>> ELSE FrontTurn(f[i - 1])
      <3>1. \A i \in 0 .. n : i = 0 \/ (i # 0 /\ i \in 1 .. n)
        BY <1>4
      <3> QED
        BY <2>2, <2>5, <3>1 DEF LoopOf
    <2>7. f = Def(f)
      BY <2>5, <2>6, Zenon DEF LoopOf
    <2> QED
      BY <2>7
  <1>6. at = Def(at)
    BY <1>5
  <1> HIDE DEF at
  <1>7. at[0] = <<0, 0>> /\ \A i \in 1 .. n : at[i] = FrontTurn(at[i - 1])
    <2>1. \A i \in 0 .. n : at[i] = Def(at)[i]
      BY <1>6
    <2>2. 0 \in 0 .. n /\ \A i \in 1 .. n : i \in 0 .. n /\ i # 0
      BY <1>4
    <2>3. \A i \in 0 .. n : at[i] = IF i = 0 THEN <<0, 0>> ELSE FrontTurn(at[i - 1])
      BY <2>1
    <2> QED
      BY <2>2, <2>3, Zenon
  <1>8. \A i \in 0 .. n : at[i] \in R
    <2> DEFINE T == {i \in 0 .. n : at[i] \in R}
    <2>1. 0 \in T
      BY <1>2, <1>4, <1>7
    <2>2. \A i \in 0 .. n - 1 : i + 1 \in 1 .. n /\ (i + 1) - 1 = i /\ i + 1 \in 0 .. n
      BY <1>4
    <2>3. \A i \in 0 .. n - 1 : i \in T => i + 1 \in T
      BY <1>3, <1>7, <2>2
    <2> HIDE DEF T
    <2>4. \A i \in 0 .. n : i \in T
      BY <1>4, <2>1, <2>3, Induction
    <2> QED
      BY <2>4 DEF T
  <1>9. at[n] \in R
    BY <1>4, <1>8
  <1> QED
    BY <1>1, <1>9 DEF R

\* A turn of the loop from the end, which stays behind where the first one ended.
LEMMA BackTurnLinks ==
  ASSUME NEW L1 \in Nat, NEW L2 \in Nat, Len(ids[1]) = L1, Len(ids[2]) = L2,
         NEW s \in Points, NEW r, NEW p \in Points, p[1] <= L1, p[2] <= L2, Before(s, p),
         Linked(ids, AllAlone, p, r)
  PROVE  LET q == BackTurn(s, p)
         IN  q \in Points /\ q[1] <= L1 /\ q[2] <= L2 /\ Before(s, q) /\ Linked(ids, AllAlone, q, r)
  <1> DEFINE q == BackTurn(s, p)
  <1>0. /\ s[1] \in Nat /\ s[2] \in Nat /\ s[1] <= p[1] /\ s[2] <= p[2]
        /\ p[1] \in Nat /\ p[2] \in Nat /\ p = <<p[1], p[2]>>
        /\ (p[1] - 1) + 1 = p[1] /\ (p[2] - 1) + 1 = p[2]
    BY DEF Points, Before
  <1>1. /\ AllAlone[1] = {k \in 1 .. L1 : Alone(1, k - 1)}
        /\ AllAlone[2] = {k \in 1 .. L2 : Alone(2, k - 1)}
    BY DEF AllAlone, Sides
  <1>2. CASE p[1] = s[1] \/ p[2] = s[2]
    <2>1. q = p
      BY <1>2 DEF BackTurn
    <2> QED
      BY <2>1
  <1>3. CASE ~ (p[1] = s[1] \/ p[2] = s[2])
    <2>0. /\ p[1] - 1 \in Nat /\ p[2] - 1 \in Nat /\ s[1] <= p[1] - 1 /\ s[2] <= p[2] - 1
          /\ p[1] \in 1 .. L1 /\ p[2] \in 1 .. L2 /\ p[1] - 1 <= L1 /\ p[2] - 1 <= L2
      BY <1>0, <1>3
    <2>1. CASE Alone(1, p[1] - 1)
      <3>1. q = <<p[1] - 1, p[2]>>
        BY <1>3, <2>1 DEF BackTurn
      <3>2. p[1] \in AllAlone[1]
        BY <1>1, <2>0, <2>1
      <3>3. Linked(ids, AllAlone, <<p[1] - 1, p[2]>>, <<p[1], p[2]>>)
        <4> DEFINE x == p[1] - 1
        <4>1. /\ x \in Nat /\ x <= p[1] /\ x + 1 = p[1] /\ p[1] <= Len(ids[1])
              /\ Len(ids[1]) \in Nat
          BY <1>0, <2>0
        <4> HIDE DEF x
        <4>2. x + 1 .. p[1] \subseteq AllAlone[1]
          BY <1>0, <3>2, <4>1
        <4>3. Linked(ids, AllAlone, <<x, p[2]>>, <<p[1], p[2]>>)
          BY <1>0, <4>1, <4>2, LinkedFirst, Zenon
        <4> QED
          BY <4>3 DEF x
      <3>4. Linked(ids, AllAlone, q, r)
        BY <1>0, <3>1, <3>3, LinkedTo
      <3> QED
        BY <1>0, <2>0, <3>1, <3>4 DEF Points, Before
    <2>2. CASE ~ Alone(1, p[1] - 1) /\ Alone(2, p[2] - 1)
      <3>1. q = <<p[1], p[2] - 1>>
        BY <1>3, <2>2 DEF BackTurn
      <3>2. p[2] \in AllAlone[2]
        BY <1>1, <2>0, <2>2
      <3>3. Linked(ids, AllAlone, <<p[1], p[2] - 1>>, <<p[1], p[2]>>)
        <4> DEFINE y == p[2] - 1
        <4>1. /\ y \in Nat /\ y <= p[2] /\ y + 1 = p[2] /\ p[2] <= Len(ids[2])
              /\ Len(ids[2]) \in Nat
          BY <1>0, <2>0
        <4> HIDE DEF y
        <4>2. y + 1 .. p[2] \subseteq AllAlone[2]
          BY <1>0, <3>2, <4>1
        <4>3. Linked(ids, AllAlone, <<p[1], y>>, <<p[1], p[2]>>)
          BY <1>0, <4>1, <4>2, LinkedSecond, Zenon
        <4> QED
          BY <4>3 DEF y
      <3>4. Linked(ids, AllAlone, q, r)
        BY <1>0, <3>1, <3>3, LinkedTo
      <3> QED
        BY <1>0, <2>0, <3>1, <3>4 DEF Points, Before
    <2>3. CASE /\ ~ Alone(1, p[1] - 1) /\ ~ Alone(2, p[2] - 1)
               /\ At(ids[1], p[1] - 1) = At(ids[2], p[2] - 1)
      <3>1. q = <<p[1] - 1, p[2] - 1>>
        BY <1>3, <2>3 DEF BackTurn
      <3>2. p[1] \notin AllAlone[1] /\ p[2] \notin AllAlone[2]
        BY <1>1, <2>3
      <3>3. ids[1][p[1]] = ids[2][p[2]]
        BY <1>0, <2>3 DEF At
      <3>4. Linked(ids, AllAlone, <<p[1] - 1, p[2] - 1>>, <<p[1], p[2]>>)
        <4> DEFINE x == p[1] - 1
                   y == p[2] - 1
        <4>1. x \in Nat /\ y \in Nat /\ x + 1 = p[1] /\ y + 1 = p[2]
          BY <1>0, <2>0
        <4> HIDE DEF x, y
        <4>2. \A k \in 0 .. 1 - 1 : /\ (x + k) + 1 \notin AllAlone[1]
                                    /\ (y + k) + 1 \notin AllAlone[2]
                                    /\ ids[1][(x + k) + 1] = ids[2][(y + k) + 1]
          <5>1. \A k \in 0 .. 1 - 1 : x + k = x /\ y + k = y
            BY <4>1
          <5> QED
            BY <3>2, <3>3, <4>1, <5>1
        <4>3. /\ 1 \in Nat /\ Len(ids[1]) \in Nat /\ Len(ids[2]) \in Nat
              /\ x + 1 <= Len(ids[1]) /\ y + 1 <= Len(ids[2])
          BY <1>0, <2>0, <4>1
        <4>4. Linked(ids, AllAlone, <<x, y>>, <<x + 1, y + 1>>)
          BY <4>1, <4>2, <4>3, LinkedDiagonal, Zenon
        <4> QED
          BY <4>1, <4>4 DEF x, y
      <3>5. Linked(ids, AllAlone, q, r)
        BY <1>0, <3>1, <3>4, LinkedTo
      <3> QED
        BY <1>0, <2>0, <3>1, <3>5 DEF Points, Before
    <2>4. CASE /\ ~ Alone(1, p[1] - 1) /\ ~ Alone(2, p[2] - 1)
               /\ At(ids[1], p[1] - 1) # At(ids[2], p[2] - 1)
      <3>1. q = p
        BY <1>3, <2>4 DEF BackTurn
      <3> QED
        BY <3>1
    <2> QED
      BY <2>1, <2>2, <2>3, <2>4
  <1> QED
    BY <1>2, <1>3

\* So all that it passes over is linked to the end.
LEMMA BackEndLinks ==
  ASSUME NEW L1 \in Nat, NEW L2 \in Nat, Len(ids[1]) = L1, Len(ids[2]) = L2,
         NEW s \in Points, s[1] <= L1, s[2] <= L2
  PROVE  LET q == BackEnd(s)
         IN  /\ q \in Points /\ q[1] <= L1 /\ q[2] <= L2 /\ Before(s, q)
             /\ Linked(ids, AllAlone, q, <<L1, L2>>)
  <1> DEFINE r == <<L1, L2>>
             R == {p \in Points : /\ p[1] <= L1 /\ p[2] <= L2 /\ Before(s, p)
                                  /\ Linked(ids, AllAlone, p, r)}
             n == L1 + L2
             S == [i \in 0 .. n |-> R]
             step == [i \in 1 .. n |-> [z \in R |-> BackTurn(s, z)]]
             Def(g) == [i \in 0 .. n |-> IF i = 0 THEN r ELSE BackTurn(s, g[i - 1])]
             at == CHOOSE g : g = Def(g)
  <1>1. BackEnd(s) = at[n]
    BY DEF BackEnd
  <1>2. r \in R
    BY DEF Points, Linked, Before
  <1>3. \A z \in R : BackTurn(s, z) \in R
    <2> HIDE DEF r
    <2> QED
      BY BackTurnLinks
  <1>4. n \in Nat
    OBVIOUS
  <1> HIDE DEF R, n, r
  <1>5. \E g : g = Def(g)
    <2>1. \A i \in 0 .. n : S[i] = R
      OBVIOUS
    <2>2. \A i \in 1 .. n : \A z \in S[i - 1] : step[i][z] = BackTurn(s, z) /\ z \in R
      <3>1. \A i \in 1 .. n : i - 1 \in 0 .. n
        BY <1>4
      <3> QED
        BY <2>1, <3>1
    <2>3. r \in S[0]
      BY <1>2, <1>4, <2>1
    <2>4. \A i \in 1 .. n : \A z \in S[i - 1] : step[i][z] \in S[i]
      <3>1. \A i \in 1 .. n : i \in 0 .. n
        BY <1>4
      <3> QED
        BY <1>3, <2>1, <2>2, <3>1
    <2> HIDE DEF S, step
    <2>5. PICK f : LoopOf(n, S, r, step, f)
      BY <1>4, <2>3, <2>4, LoopExists
    <2>6. \A i \in 0 .. n : f[i] = IF i = 0 THEN r ELSE BackTurn(s, f[i - 1])
      <3>1. \A i \in 0 .. n : i = 0 \/ (i # 0 /\ i \in 1 .. n)
        BY <1>4
      <3> QED
        BY <2>2, <2>5, <3>1 DEF LoopOf
    <2>7. f = Def(f)
      BY <2>5, <2>6, Zenon DEF LoopOf
    <2> QED
      BY <2>7
  <1>6. at = Def(at)
    BY <1>5
  <1> HIDE DEF at
  <1>7. at[0] = r /\ \A i \in 1 .. n : at[i] = BackTurn(s, at[i - 1])
    <2>1. \A i \in 0 .. n : at[i] = Def(at)[i]
      BY <1>6
    <2>2. 0 \in 0 .. n /\ \A i \in 1 .. n : i \in 0 .. n /\ i # 0
      BY <1>4
    <2>3. \A i \in 0 .. n : at[i] = IF i = 0 THEN r ELSE BackTurn(s, at[i - 1])
      BY <2>1
    <2> QED
      BY <2>2, <2>3, Zenon
  <1>8. \A i \in 0 .. n : at[i] \in R
    <2> DEFINE T == {i \in 0 .. n : at[i] \in R}
    <2>1. 0 \in T
      BY <1>2, <1>4, <1>7
    <2>2. \A i \in 0 .. n - 1 : i + 1 \in 1 .. n /\ (i + 1) - 1 = i /\ i + 1 \in 0 .. n
      BY <1>4
    <2>3. \A i \in 0 .. n - 1 : i \in T => i + 1 \in T
      BY <1>3, <1>7, <2>2
    <2> HIDE DEF T
    <2>4. \A i \in 0 .. n : i \in T
      BY <1>4, <2>1, <2>3, Induction
    <2> QED
      BY <2>4 DEF T
  <1>9. at[n] \in R
    BY <1>4, <1>8
  <1> QED
    BY <1>1, <1>9 DEF R, r

(***************************************************************************)
(* compress_equiv_ids: the lines of the middle are merged into entries,    *)
(* each of them one line or several that only this side has.               *)
(***************************************************************************)

\* A sequence with one item more, and with another one in a place.
Longer(S, s, x) ==
    LET t == Append(s, x)
    IN  /\ t \in Seq(S) /\ Len(t) = Len(s) + 1 /\ t[Len(s) + 1] = x
        /\ \A k \in 1 .. Len(s) : t[k] = s[k]
Joined(S, s, u) ==
    LET t == s \o u
    IN  /\ t \in Seq(S) /\ Len(t) = Len(s) + Len(u)
        /\ \A k \in 1 .. Len(s) : t[k] = s[k]
        /\ \A k \in 1 .. Len(u) : t[Len(s) + k] = u[k]
Replaced(S, s, i, x) ==
    LET t == [s EXCEPT ![i] = x]
    IN  /\ t \in Seq(S) /\ Len(t) = Len(s) /\ t[i] = x
        /\ \A k \in 1 .. Len(s) : k # i => t[k] = s[k]

\* Append and an assignment to an element change a sequence so.
LEMMA SequenceChanges ==
  ASSUME NEW S, NEW s \in Seq(S), NEW x \in S
  PROVE  Longer(S, s, x) /\ \A i \in 1 .. Len(s) : Replaced(S, s, i, x)
  BY DEF Longer, Replaced

\* Two sequences of S, one after the other, are one.
LEMMA SequencesJoined ==
  ASSUME NEW S, NEW s \in Seq(S), NEW t \in Seq(S)
  PROVE  Joined(S, s, t)
  BY DEF Joined

\* m lines are laid out in entries that stand for count[k] of them each: entry k for
\* those from pos[k - 1] on.
Laid(count, pos, m) ==
    /\ pos \in [0 .. Len(count) -> Nat]
    /\ pos[0] = 0
    /\ pos[Len(count)] = m
    /\ \A k \in 1 .. Len(count) : pos[k] = pos[k - 1] + count[k]

\* What entries of lines of side f have for numbers that are not a line's: what is
\* alone, negative, and new numbers from first to next.
Lone(f, first, next) ==
    {- x : x \in (ToSet(ids[f]) \ ToSet(ids[Other(f)])) \union (first .. next - 1)}

\* An entry for the lines from s on has such a number, or that of its one line.
Stands(f, s, lone, z, count, pos) == \A k \in 1 .. Len(count) :
    \/ z[k] \in lone
    \/ count[k] = 1 /\ z[k] = ids[f][(s + pos[k - 1]) + 1]

\* The states of the loop that merges lines.
MergeStates == [zids : Seq(Int), zcount : Seq(Nat), alone : BOOLEAN, next : Nat]

\* Where the loop is after i lines.
Merged(f, s, first, i) == {st \in MergeStates :
    /\ first <= st.next
    /\ Len(st.zids) = Len(st.zcount)
    /\ st.alone => st.zids # <<>>
    /\ \E pos : /\ Laid(st.zcount, pos, i)
                /\ Stands(f, s, Lone(f, first, st.next), st.zids, st.zcount, pos)}

\* A turn of compress_equiv_ids' second loop takes one line more: into the last
\* entry, if both are of this side alone, or into one of its own.
LEMMA MergeStep ==
  ASSUME Numbered, NEW f \in Sides, NEW s \in Nat, NEW first \in Nat, NEW i \in Nat \ {0},
         s + (i - 1) < Len(ids[f]), NEW st \in Merged(f, s, first, i - 1)
  PROVE  Merge(f, st, s + (i - 1)) \in Merged(f, s, first, i)
  <1> DEFINE p == s + (i - 1)
             Z == st.zids
             C == st.zcount
             A == st.alone
             N == st.next
             n == Len(Z)
             x == At(ids[f], p)
             r == Merge(f, st, p)
  <1>0. /\ st = [zids |-> Z, zcount |-> C, alone |-> A, next |-> N]
        /\ first <= N /\ n = Len(Z) /\ n = Len(C) /\ n \in Nat
        /\ Z \in Seq(Int) /\ C \in Seq(Nat) /\ N \in Nat /\ A \in BOOLEAN
        /\ (A => Z # <<>>)
    BY DEF Merged, MergeStates
  <1>6. /\ n = Len(Z) /\ n = Len(C) /\ n \in Nat /\ Z \in Seq(Int) /\ C \in Seq(Nat)
        /\ N \in Nat /\ (A => Z # <<>>) /\ first <= N
    BY <1>0
  <1>1. x \in Nat \ {0} /\ x = ids[f][p + 1] /\ x \in ToSet(ids[f])
    <2>1. ids[f] \in Seq(Nat \ {0})
      BY DEF Numbered
    <2>2. p + 1 \in 1 .. Len(ids[f])
      OBVIOUS
    <2>3. x = ids[f][p + 1]
      BY DEF At
    <2>4. DOMAIN ids[f] = 1 .. Len(ids[f])
      BY <2>1
    <2>5. x \in ToSet(ids[f])
      <3> HIDE DEF p, x
      <3> QED
        BY <2>2, <2>3, <2>4 DEF ToSet
    <2> QED
      BY <2>1, <2>2, <2>3, <2>5
  <1>2. PICK pos : /\ Laid(C, pos, i - 1)
                   /\ Stands(f, s, Lone(f, first, N), Z, C, pos)
    BY DEF Merged
  <1>9. n = Len(Z) /\ s + (i - 1) = p /\ p + 1 = s + i
    OBVIOUS
  <1> HIDE DEF n, p, Z, C, A, N
  <1>3. /\ pos \in [0 .. n -> Nat] /\ pos[0] = 0 /\ pos[n] = i - 1
        /\ \A k \in 1 .. n : pos[k] = pos[k - 1] + C[k]
    BY <1>0, <1>2 DEF Laid
  <1>4. CASE Alone(f, p) /\ A
    <2>0. n \in 1 .. n /\ n # 0 /\ n - 1 \in 0 .. n /\ n - 1 # n
      <3>1. n # 0
        BY <1>4, <1>6, EmptySeq
      <3> QED
        BY <1>6, <3>1
    <2> DEFINE z == [Z EXCEPT ![n] = - N]
               c == [C EXCEPT ![n] = @ + 1]
               q == [pos EXCEPT ![n] = i]
    <2>1. r = [st EXCEPT !.zcount[n] = @ + 1, !.zids[n] = - st.next, !.next = @ + 1]
      BY <1>4 DEF Merge, n, Z, A
    <2>2. r = [zids |-> z, zcount |-> c, alone |-> A, next |-> N + 1]
      <3>1. st.zids = Z /\ st.zcount = C /\ st.alone = A /\ st.next = N
        BY DEF Z, C, A, N
      <3> HIDE DEF r
      <3> QED
        BY <1>0, <2>1, <3>1
    <2> HIDE DEF r
    <2>3. z \in Seq(Int) /\ Len(z) = n /\ z[n] = - N /\ \A k \in 1 .. n : k # n => z[k] = Z[k]
      <3> DEFINE y == - N
      <3>1. y \in Int
        BY <1>6
      <3> HIDE DEF y
      <3>2. n \in 1 .. Len(Z)
        BY <1>6, <2>0
      <3>3. Replaced(Int, Z, n, y)
        BY <1>6, <3>1, <3>2, SequenceChanges, Zenon
      <3> QED
        BY <1>6, <3>3 DEF y, Replaced
    <2>4. c \in Seq(Nat) /\ Len(c) = n /\ c[n] = C[n] + 1 /\ \A k \in 1 .. n : k # n => c[k] = C[k]
      <3> DEFINE y == C[n] + 1
      <3>1. y \in Nat
        BY <1>6, <2>0
      <3> HIDE DEF y
      <3>2. n \in 1 .. Len(C)
        BY <1>6, <2>0
      <3>3. Replaced(Nat, C, n, y)
        BY <1>6, <3>1, <3>2, SequenceChanges, Zenon
      <3> QED
        BY <1>6, <3>3 DEF y, Replaced
    <2>5. /\ \A k \in 1 .. n - 1 : z[k] = Z[k] /\ c[k] = C[k]
          /\ z[n] = - N /\ c[n] = C[n] + 1
      <3>1. \A k \in 1 .. n - 1 : k \in 1 .. n /\ k # n
        BY <2>0
      <3> QED
        BY <2>3, <2>4, <3>1
    <2>6. /\ q \in [0 .. n -> Nat] /\ \A k \in 0 .. n - 1 : q[k] = pos[k]
          /\ q[n] = i
      BY <1>3, <2>0
    <2> HIDE DEF z, c, q
    <2>7. Laid(c, q, i)
      <3>1. ASSUME NEW k \in 1 .. n PROVE q[k] = q[k - 1] + c[k]
        <4>1. CASE k = n
          <5>1. pos[n] = pos[n - 1] + C[n]
            BY <1>3, <2>0
          <5>3. pos[n - 1] \in Nat
            BY <1>3, <2>0
          <5>4. C[n] \in Nat
            BY <1>6, <2>0
          <5>2. q[n - 1] = pos[n - 1]
            BY <2>0, <2>6
          <5> DEFINE x0 == pos[n - 1]
                     y0 == C[n]
          <5>5. x0 \in Nat /\ y0 \in Nat /\ i - 1 = x0 + y0
            BY <1>3, <5>1, <5>3, <5>4
          <5> HIDE DEF x0, y0
          <5>6. i = x0 + (y0 + 1)
            BY ONLY <5>5, i \in Nat \ {0}
          <5>7. q[n] = i /\ q[n - 1] = x0 /\ c[n] = y0 + 1
            BY <2>4, <2>6, <5>2 DEF x0, y0
          <5> QED
            BY <4>1, <5>6, <5>7
        <4>2. CASE k # n
          <5>1. k \in 1 .. n - 1 /\ k \in 0 .. n - 1 /\ k - 1 \in 0 .. n - 1
            BY <1>0, <4>2
          <5> QED
            BY <1>3, <2>5, <2>6, <5>1
        <4> QED
          BY <4>1, <4>2
      <3>2. q[0] = 0
        BY <1>0, <1>3, <2>0, <2>6
      <3> QED
        BY <2>4, <2>6, <3>1, <3>2 DEF Laid
    <2>8. Stands(f, s, Lone(f, first, N + 1), z, c, q)
      <3> SUFFICES ASSUME NEW k \in 1 .. n
                   PROVE  \/ z[k] \in Lone(f, first, N + 1)
                          \/ c[k] = 1 /\ z[k] = ids[f][(s + q[k - 1]) + 1]
        BY <2>4 DEF Stands
      <3>1. CASE k = n
        <4>1. N \in first .. (N + 1) - 1
          BY <1>0
        <4> QED
          BY <2>5, <3>1, <4>1 DEF Lone
      <3>2. CASE k # n
        <4>1. k \in 1 .. n - 1 /\ k - 1 \in 0 .. n - 1
          BY <1>0, <3>2
        <4>2. Lone(f, first, N) \subseteq Lone(f, first, N + 1)
          <5>1. first .. N - 1 \subseteq first .. (N + 1) - 1
            BY <1>0
          <5> QED
            BY <5>1 DEF Lone
        <4>3. \/ Z[k] \in Lone(f, first, N)
              \/ C[k] = 1 /\ Z[k] = ids[f][(s + pos[k - 1]) + 1]
          BY <1>0, <1>2 DEF Stands
        <4> QED
          BY <2>5, <2>6, <4>1, <4>2, <4>3
      <3> QED
        BY <3>1, <3>2
    <2>9. z # <<>>
      BY <2>0, <2>3
    <2>10. r \in MergeStates /\ first <= r.next /\ Len(r.zids) = Len(r.zcount) /\ r.zids # <<>>
           /\ r.zcount = c /\ r.zids = z /\ r.next = N + 1
      <3>1. z \in Seq(Int) /\ c \in Seq(Nat) /\ A \in BOOLEAN /\ N + 1 \in Nat /\ first <= N + 1
        BY <1>6, <1>0, <2>3, <2>4
      <3>2. r \in MergeStates
        BY <2>2, <3>1, Zenon DEF MergeStates
      <3>3. r.zcount = c /\ r.zids = z /\ r.next = N + 1
        BY <2>2
      <3> QED
        BY <2>3, <2>4, <2>9, <3>1, <3>2, <3>3
    <2>11. r \in Merged(f, s, first, i)
      BY <2>7, <2>8, <2>10 DEF Merged
    <2> QED
      BY <2>11 DEF r, p
  <1>5. CASE ~ (Alone(f, p) /\ A)
    <2> DEFINE y == IF Alone(f, p) THEN - x ELSE x
               z == Append(Z, y)
               c == Append(C, 1)
               q == [k \in 0 .. n + 1 |-> IF k = n + 1 THEN i ELSE pos[k]]
    <2>1. r = [zids |-> z, zcount |-> c, alone |-> Alone(f, p), next |-> N]
      BY <1>5 DEF Merge, n, Z, C, A, N
    <2>2. Alone(f, p) \in BOOLEAN
      BY DEF Alone
    <2>3. y \in Int
      BY <1>1
    <2> HIDE DEF x, y, r
    <2>4. z \in Seq(Int) /\ Len(z) = n + 1 /\ z[n + 1] = y
          /\ \A k \in 1 .. n : z[k] = Z[k]
      <3>1. Longer(Int, Z, y)
        BY <1>6, <2>3, SequenceChanges, Zenon
      <3> QED
        BY <1>6, <3>1 DEF Longer
    <2>5. c \in Seq(Nat) /\ Len(c) = n + 1 /\ c[n + 1] = 1
          /\ \A k \in 1 .. n : c[k] = C[k]
      <3>1. Longer(Nat, C, 1)
        BY <1>6, 1 \in Nat, SequenceChanges, Zenon
      <3> QED
        BY <1>6, <3>1 DEF Longer
    <2>6. /\ q \in [0 .. n + 1 -> Nat] /\ \A k \in 0 .. n : q[k] = pos[k]
          /\ q[n + 1] = i
      BY <1>0, <1>3
    <2> HIDE DEF z, c, q
    <2>7. Laid(c, q, i)
      <3>1. ASSUME NEW k \in 1 .. n + 1 PROVE q[k] = q[k - 1] + c[k]
        <4>1. CASE k = n + 1
          <5>1. k - 1 = n /\ n \in 0 .. n
            BY <1>0, <4>1
          <5> QED
            BY <1>3, <2>5, <2>6, <4>1, <5>1
        <4>2. CASE k # n + 1
          <5>1. k \in 1 .. n /\ k \in 0 .. n /\ k - 1 \in 0 .. n
            BY <1>0, <4>2
          <5> QED
            BY <1>3, <2>5, <2>6, <5>1
        <4> QED
          BY <4>1, <4>2
      <3>2. q[0] = 0
        BY <1>0, <1>3, <2>6
      <3> QED
        BY <2>5, <2>6, <3>1, <3>2 DEF Laid
    <2>8. Stands(f, s, Lone(f, first, N), z, c, q)
      <3> SUFFICES ASSUME NEW k \in 1 .. n + 1
                   PROVE  \/ z[k] \in Lone(f, first, N)
                          \/ c[k] = 1 /\ z[k] = ids[f][(s + q[k - 1]) + 1]
        BY <2>5 DEF Stands
      <3>1. CASE k = n + 1 /\ Alone(f, p)
        <4>1. x \in ToSet(ids[f]) \ ToSet(ids[Other(f)])
          BY <1>1, <3>1 DEF Alone, x
        <4> QED
          BY <2>4, <3>1, <4>1 DEF Lone, y
      <3>2. CASE k = n + 1 /\ ~ Alone(f, p)
        <4>1. k - 1 = n /\ n \in 0 .. n
          BY <1>0, <3>2
        <4>2. q[k - 1] = i - 1
          BY <1>3, <2>6, <4>1
        <4>3. (s + q[k - 1]) + 1 = p + 1
          BY <1>9, <4>2
        <4>4. z[k] = x
          BY <2>4, <3>2 DEF y
        <4>5. z[k] = ids[f][(s + q[k - 1]) + 1]
          BY <1>1, <4>3, <4>4
        <4> QED
          BY <2>5, <3>2, <4>5
      <3>3. CASE k # n + 1
        <4>1. k \in 1 .. n /\ k - 1 \in 0 .. n
          BY <1>0, <3>3
        <4>2. \/ Z[k] \in Lone(f, first, N)
              \/ C[k] = 1 /\ Z[k] = ids[f][(s + pos[k - 1]) + 1]
          BY <1>0, <1>2, <4>1 DEF Stands
        <4> QED
          BY <2>4, <2>5, <2>6, <4>1, <4>2
      <3> QED
        BY <3>1, <3>2, <3>3
    <2>9. z # <<>>
      BY <1>0, <2>4
    <2>10. r \in MergeStates /\ first <= r.next /\ Len(r.zids) = Len(r.zcount) /\ r.zids # <<>>
           /\ r.zcount = c /\ r.zids = z /\ r.next = N
      BY <1>0, <2>1, <2>2, <2>4, <2>5, <2>9 DEF MergeStates
    <2>11. r \in Merged(f, s, first, i)
      BY <2>7, <2>8, <2>10 DEF Merged
    <2> QED
      BY <2>11 DEF r, p
  <1> QED
    BY <1>4, <1>5

\* After the loop the entries stand for all lines from s to e.
LEMMA CompressedMerged ==
  ASSUME Numbered, NEW f \in Sides, NEW s \in Nat, NEW e \in Nat, s <= e, e <= Len(ids[f]),
         NEW first \in Nat
  PROVE  Compressed(f, s, e, first) \in Merged(f, s, first, e - s)
  <1> DEFINE n == e - s
             r == [zids |-> <<>>, zcount |-> <<>>, alone |-> FALSE, next |-> first]
             S == [i \in 0 .. n |-> Merged(f, s, first, i)]
             step == [i \in 1 .. n |-> [z \in S[i - 1] |-> Merge(f, z, s + (i - 1))]]
             Def(g) == [i \in 0 .. n |-> IF i = 0 THEN r ELSE Merge(f, g[i - 1], s + (i - 1))]
             st == CHOOSE g : g = Def(g)
  <1>1. Compressed(f, s, e, first) = st[n]
    BY DEF Compressed
  <1>2. r \in Merged(f, s, first, 0)
    <2> DEFINE pos == [k \in 0 .. 0 |-> 0]
    <2>1. pos \in [0 .. 0 -> Nat] /\ pos[0] = 0
      OBVIOUS
    <2> HIDE DEF pos
    <2>2. Len(<<>>) = 0 /\ <<>> \in Seq(Int) /\ <<>> \in Seq(Nat) /\ 1 .. 0 = {}
      OBVIOUS
    <2>3. Laid(<<>>, pos, 0)
      BY <2>1, <2>2 DEF Laid
    <2>4. Stands(f, s, Lone(f, first, first), <<>>, <<>>, pos)
      BY <2>2 DEF Stands
    <2>5. r \in MergeStates /\ r.zids = <<>> /\ r.zcount = <<>> /\ r.next = first /\ ~ r.alone
      BY <2>2 DEF MergeStates
    <2> HIDE DEF r
    <2> QED
      BY <2>3, <2>4, <2>5 DEF Merged
  <1>3. n \in Nat
    OBVIOUS
  <1>4. \A i \in 1 .. n : \A z \in Merged(f, s, first, i - 1) :
          Merge(f, z, s + (i - 1)) \in Merged(f, s, first, i)
    <2> SUFFICES ASSUME NEW i \in 1 .. n, NEW z \in Merged(f, s, first, i - 1)
                 PROVE  Merge(f, z, s + (i - 1)) \in Merged(f, s, first, i)
      OBVIOUS
    <2>1. i \in Nat \ {0} /\ s + (i - 1) < Len(ids[f])
      <3>1. Len(ids[f]) \in Nat
        BY DEF Numbered
      <3> QED
        BY <3>1
    <2> QED
      BY <2>1, MergeStep
  <1> HIDE DEF r, n
  <1>5. \A i \in 0 .. n : S[i] = Merged(f, s, first, i)
    OBVIOUS
  <1>6. \A i \in 1 .. n : i - 1 \in 0 .. n /\ i \in 0 .. n /\ i # 0
    BY <1>3
  <1>7. \A i \in 1 .. n : \A z \in S[i - 1] :
          step[i][z] = Merge(f, z, s + (i - 1)) /\ step[i][z] \in S[i]
    BY <1>4, <1>5, <1>6
  <1>8. r \in S[0]
    BY <1>2, <1>3, <1>5
  <1> HIDE DEF S, step
  <1>9. \E g : g = Def(g)
    <2>1. PICK g : LoopOf(n, S, r, step, g)
      BY <1>3, <1>7, <1>8, LoopExists
    <2>2. \A i \in 0 .. n : g[i] = IF i = 0 THEN r ELSE Merge(f, g[i - 1], s + (i - 1))
      <3>1. \A i \in 0 .. n : i = 0 \/ (i # 0 /\ i \in 1 .. n)
        BY <1>3
      <3> QED
        BY <1>7, <2>1, <3>1 DEF LoopOf
    <2>3. g = Def(g)
      BY <2>1, <2>2, Zenon DEF LoopOf
    <2> QED
      BY <2>3
  <1>10. st = Def(st)
    BY <1>9
  <1> HIDE DEF st
  <1>11. st[0] = r /\ \A i \in 1 .. n : st[i] = Merge(f, st[i - 1], s + (i - 1))
    <2>1. \A i \in 0 .. n : st[i] = Def(st)[i]
      BY <1>10
    <2>2. 0 \in 0 .. n
      BY <1>3
    <2>3. \A i \in 0 .. n : st[i] = IF i = 0 THEN r ELSE Merge(f, st[i - 1], s + (i - 1))
      BY <2>1
    <2> QED
      BY <1>6, <2>2, <2>3, Zenon
  <1>12. \A i \in 0 .. n : st[i] \in S[i]
    <2>1. st[0] \in S[0]
      BY <1>8, <1>11
    <2>2. \A i \in 1 .. n : st[i - 1] \in S[i - 1] => st[i] \in S[i]
      BY <1>7, <1>11
    <2> QED
      BY <1>3, <2>1, <2>2, LoopStates
  <1>13. st[n] \in Merged(f, s, first, n)
    BY <1>3, <1>5, <1>12
  <1> QED
    BY <1>1, <1>13 DEF n

\* The ends of both files.
Ends == <<Len(data[1]), Len(data[2])>>

\* Outside the rest in the middle, from s to e, just the lines that are alone are
\* marked.
AloneOutside(m, s, e) == \A f \in Sides : \A p \in 1 .. Len(data[f]) :
    p <= s[f] \/ e[f] < p => (m[f][p] <=> p \in AllAlone[f])

\* What compress_equiv_ids marks first, and with it one side's rest.
LEMMA ExcludedFacts ==
  ASSUME DiffInv, Numbered, NEW s \in Points, NEW e \in Points, Before(s, e), Before(e, Ends)
  PROVE  /\ AloneOutside(Excluded(s, e), s, e)
         /\ \A f \in Sides : \A p \in s[f] + 1 .. e[f] : ~ Excluded(s, e)[f][p]
         /\ \A f \in Sides : /\ AloneOutside(MarkedRange(Excluded(s, e), f, s[f], e[f]), s, e)
                             /\ \A p \in s[f] + 1 .. e[f] :
                                  MarkedRange(Excluded(s, e), f, s[f], e[f])[f][p]
  <1> DEFINE x == Excluded(s, e)
             r(f) == MarkedRange(x, f, s[f], e[f])
  <1>0. /\ \A f \in Sides : s[f] \in Nat /\ e[f] \in Nat /\ s[f] <= e[f] /\ e[f] <= Len(data[f])
        /\ \A f \in Sides : Len(data[f]) \in Nat
    BY DEF Points, Before, Ends, Sides, DiffInv
  <1>1. \A f \in Sides : DOMAIN change[f] = 1 .. Len(data[f]) /\ Len(ids[f]) = Len(data[f])
    BY DEF DiffInv, MarksOf, Numbered
  <1>2. \A f \in Sides : \A p \in 1 .. Len(data[f]) :
          x[f][p] <=> (p <= s[f] \/ e[f] < p) /\ Alone(f, p - 1)
    BY <1>1, Zenon DEF Excluded
  <1>3. \A f \in Sides : \A p \in 1 .. Len(data[f]) : Alone(f, p - 1) <=> p \in AllAlone[f]
    <2>1. \A f \in Sides : AllAlone[f] = {p \in 1 .. Len(ids[f]) : Alone(f, p - 1)}
      BY DEF AllAlone
    <2> QED
      BY <1>1, <2>1
  <1>4. MarksOf(x)
    BY ExcludedMarks DEF DiffInv
  <1> HIDE DEF x
  <1>5. AloneOutside(x, s, e)
    BY <1>2, <1>3, Zenon DEF AloneOutside
  <1>6. \A f \in Sides : \A p \in s[f] + 1 .. e[f] :
          p \in 1 .. Len(data[f]) /\ ~ (p <= s[f]) /\ ~ (e[f] < p) /\ s[f] < p /\ p <= e[f]
    BY <1>0
  <1>7. \A f \in Sides : \A p \in s[f] + 1 .. e[f] : ~ x[f][p]
    BY <1>2, <1>6, Zenon
  <1>8. ASSUME NEW f \in Sides
        PROVE  AloneOutside(r(f), s, e) /\ \A p \in s[f] + 1 .. e[f] : r(f)[f][p]
    <2>1. x = [g \in Sides |-> x[g]] /\ \A g \in Sides : DOMAIN x[g] = 1 .. Len(data[g])
      BY <1>4 DEF MarksOf
    <2>2. r(f) = [g \in Sides |-> IF g = f THEN [p \in 1 .. Len(data[f]) |->
                                                    x[f][p] \/ (s[f] < p /\ p <= e[f])]
                                  ELSE x[g]]
      BY <2>1 DEF MarkedRange
    <2> HIDE DEF r
    <2>3. \A g \in Sides : g # f => r(f)[g] = x[g]
      BY <2>2
    <2>4. r(f)[f] = [p \in 1 .. Len(data[f]) |-> x[f][p] \/ (s[f] < p /\ p <= e[f])]
      BY <2>2
    <2>5. \A p \in 1 .. Len(data[f]) : r(f)[f][p] <=> x[f][p] \/ (s[f] < p /\ p <= e[f])
      BY <2>4, Zenon
    <2>6. \A p \in 1 .. Len(data[f]) : p <= s[f] \/ e[f] < p => ~ (s[f] < p /\ p <= e[f])
      BY <1>0
    <2>7. ASSUME NEW g \in Sides, NEW p \in 1 .. Len(data[g]), p <= s[g] \/ e[g] < p
          PROVE  r(f)[g][p] <=> x[g][p]
      <3>1. CASE g # f
        BY <2>3, <3>1, Zenon
      <3>2. CASE g = f
        BY <2>5, <2>6, <2>7, <3>2, Zenon
      <3> QED
        BY <3>1, <3>2
    <2>8. AloneOutside(r(f), s, e)
      BY <1>5, <2>7, Zenon DEF AloneOutside
    <2>9. \A p \in s[f] + 1 .. e[f] : r(f)[f][p]
      BY <1>6, <2>5, Zenon
    <2> QED
      BY <2>8, <2>9
  <1> QED
    BY <1>5, <1>7, <1>8 DEF x

\* The rest is within both texts; before and after it all is linked.
LEMMA RestPlace ==
  ASSUME DiffInv, Numbered, NEW s, NEW e, s = FrontEnd, e = BackEnd(s)
  PROVE  /\ s \in Points /\ e \in Points /\ Before(s, e) /\ Before(e, Ends)
         /\ Linked(ids, AllAlone, <<0, 0>>, s) /\ Linked(ids, AllAlone, e, Ends)
  <1>0. \A f \in Sides : Len(data[f]) \in Nat /\ Len(ids[f]) = Len(data[f])
    BY DEF DiffInv, Numbered
  <1>1. s \in Points /\ Before(s, Ends) /\ Linked(ids, AllAlone, <<0, 0>>, s)
    BY <1>0, FrontEndLinks DEF Sides, Ends, Before
  <1>2. /\ e \in Points /\ Before(s, e) /\ Before(e, Ends)
        /\ Linked(ids, AllAlone, e, Ends)
    BY <1>0, <1>1, BackEndLinks DEF Sides, Ends, Before
  <1> QED
    BY <1>1, <1>2

\* Both ends are linked to where the rest begins and ends.
LEMMA OutsideLinked ==
  ASSUME DiffInv, Numbered, NEW s, NEW e, s = FrontEnd, e = BackEnd(s),
         NEW m, MarksOf(m), AloneOutside(m, s, e)
  PROVE  Linked(ids, Marked(m), <<0, 0>>, s) /\ Linked(ids, Marked(m), e, Ends)
  <1>0. \A f \in Sides : Len(data[f]) \in Nat /\ Len(ids[f]) = Len(data[f])
    BY DEF DiffInv, Numbered
  <1>1. s \in Points /\ Linked(ids, AllAlone, <<0, 0>>, s)
    BY RestPlace
  <1>2. e \in Points /\ Before(s, e) /\ Before(e, Ends) /\ Linked(ids, AllAlone, e, Ends)
    BY RestPlace
  <1>3. /\ \A f \in Sides : s[f] \in Nat /\ e[f] \in Nat /\ s[f] <= e[f] /\ e[f] <= Len(data[f])
        /\ \A f \in Sides : Ends[f] = Len(data[f]) /\ <<0, 0>>[f] = 0
        /\ 1 \in Sides /\ 2 \in Sides
    BY <1>0, <1>1, <1>2 DEF Points, Before, Ends, Sides
  <1>4. \A f \in Sides : \A p \in 1 .. Len(data[f]) : p \in Marked(m)[f] <=> m[f][p]
    <2>1. \A f \in Sides : DOMAIN m[f] = 1 .. Len(data[f])
      BY DEF MarksOf
    <2>2. \A f \in Sides : Marked(m)[f] = {p \in DOMAIN m[f] : m[f][p]}
      BY DEF Marked
    <2> QED
      BY <2>1, <2>2, Zenon
  <1>5. \A f \in Sides : \A p \in 1 .. Len(data[f]) : p <= s[f] \/ e[f] < p =>
          (p \in AllAlone[f] <=> p \in Marked(m)[f])
    BY <1>4, Zenon DEF AloneOutside
  <1>6. \A f \in Sides : \A p \in <<0, 0>>[f] + 1 .. s[f] : p \in 1 .. Len(data[f]) /\ p <= s[f]
    BY <1>3
  <1>7. SameMarks(AllAlone, Marked(m), <<0, 0>>, s)
    BY <1>3, <1>5, <1>6, Zenon DEF SameMarks
  <1>8. \A f \in Sides : \A p \in e[f] + 1 .. Ends[f] : p \in 1 .. Len(data[f]) /\ e[f] < p
    BY <1>0, <1>3
  <1>9. SameMarks(AllAlone, Marked(m), e, Ends)
    BY <1>3, <1>5, <1>8, Zenon DEF SameMarks
  <1>10. <<0, 0>> \in Points /\ Ends \in Points /\ Before(<<0, 0>>, s)
    BY <1>0, <1>3 DEF Points, Before, Ends
  <1> HIDE DEF Ends
  <1>11. Linked(ids, Marked(m), <<0, 0>>, s)
    BY <1>1, <1>7, <1>10, LinkedStays
  <1>12. Linked(ids, Marked(m), e, Ends)
    BY <1>2, <1>9, <1>10, LinkedStays
  <1> QED
    BY <1>11, <1>12

(***************************************************************************)
(* The invariant. Between any two subproblems of algorithm_lcs that wait   *)
(* on the stack, and before the first and after the last, the texts        *)
(* compared are linked; nothing in a subproblem is marked. For lines,      *)
(* these texts are the entries of a part of the files, framed by lines     *)
(* that are linked too.                                                    *)
(***************************************************************************)

\* Links of all of both texts mean that what is not marked of them is the same.
LEMMA LinkedKept ==
  ASSUME DiffInv, stage # "equiv", \A f \in Sides : Len(ids[f]) = Len(data[f]),
         NEW m, MarksOf(m), Linked(ids, Marked(m), <<0, 0>>, Ends)
  PROVE  KeptText(data[1], m[1]) = KeptText(data[2], m[2])
  <1>1. /\ 1 \in Sides /\ 2 \in Sides
        /\ data[1] \in Seq(Items) /\ data[2] \in Seq(Items)
    BY DEF Sides, DiffInv
  <1>2. /\ m \in [Sides -> Seq(BOOLEAN)] /\ Len(m[1]) = Len(data[1]) /\ Len(m[2]) = Len(data[2])
        /\ Len(ids[1]) = Len(data[1]) /\ Len(ids[2]) = Len(data[2])
    BY <1>1 DEF MarksOf
  <1>3. \A i \in 1 .. Len(data[1]), j \in 1 .. Len(data[2]) :
          ids[1][i] = ids[2][j] => data[1][i] = data[2][j]
    <2>1. SameLines(data, ids)
      BY DEF DiffInv
    <2>2. DOMAIN data[1] = 1 .. Len(data[1]) /\ DOMAIN data[2] = 1 .. Len(data[2])
      BY <1>1
    <2> QED
      BY <1>1, <2>1, <2>2 DEF SameLines
  <1>5. Stand(ids, data[1], data[2])
    BY <1>2, <1>3 DEF Stand
  <1>4. Linked(ids, Marked(m), <<0, 0>>, <<Len(data[1]), Len(data[2])>>)
    BY DEF Ends
  <1> QED
    BY <1>1, <1>2, <1>4, <1>5, LinkedKeepsText

-----------------------------------------------------------------------------
\* Entries of the two sides that are equal stand for one line each, which are equal.
TwinLines(s, za, zb, ca, cb, pa, pb) ==
    \A i \in 1 .. Len(za), j \in 1 .. Len(zb) : za[i] = zb[j] =>
        /\ ca[i] = 1 /\ cb[j] = 1
        /\ ids[1][(s[1] + pa[i - 1]) + 1] = ids[2][(s[2] + pb[j - 1]) + 1]

\* The entries stand for lines in a row.
Entries(e, pos) ==
    /\ \A f \in Sides : /\ zcount[f] \in Seq(Nat) /\ Len(zcount[f]) = Len(zids[f])
                        /\ Laid(zcount[f], pos[f], e[f] - zstart[f])
    /\ TwinLines(zstart, zids[1], zids[2], zcount[1], zcount[2], pos[1], pos[2])

\* The lines before and after the compressed part are linked, and none in it is
\* marked yet.
Framed(e, pos) ==
    /\ zstart \in Points /\ e \in Points /\ Before(zstart, e) /\ Before(e, Ends)
    /\ Linked(ids, Marked(change), <<0, 0>>, zstart)
    /\ Linked(ids, Marked(change), e, Ends)
    /\ \A f \in Sides : \A p \in zstart[f] + 1 .. e[f] : ~ change[f][p]
    /\ Entries(e, pos)

\* The subproblems st of comparing the texts t are in order.  What is between them is
\* linked by the marks m; what is in them, not marked.
From(st, i)  == IF i = 0 THEN <<0, 0>> ELSE st[i].e
To(t, st, i) == IF i = Len(st) + 1 THEN <<Len(t[1]), Len(t[2])>> ELSE st[i].s

Ordered(t, st) ==
    /\ st \in Seq([s : Points, e : Points])
    /\ \A i \in 1 .. Len(st) : /\ Before(st[i].s, st[i].e)
                               /\ Before(st[i].e, <<Len(t[1]), Len(t[2])>>)
    /\ \A i, j \in 1 .. Len(st) : i < j => Before(st[i].e, st[j].s)

\* Nothing in the subproblem r is marked.
Untouched(m, r) == \A f \in Sides : \A p \in r.s[f] + 1 .. r.e[f] : ~ m[f][p]

\* Marks m for the items of the texts t.
Texts(S, t, m) ==
    /\ t \in [Sides -> Seq(S)]
    /\ m \in [Sides -> Seq(BOOLEAN)]
    /\ \A f \in Sides : Len(m[f]) = Len(t[f])

\* The last index of the array that find_middle_snake uses, for texts a and b.
ArrayEnd(a, b) == 4 * (Len(a) + Len(b) + 1) + 3

\* Comparing the texts t: what is left to do, and what has been done.
Solving(S, t, m, st, w) ==
    /\ Texts(S, t, m)
    /\ Ordered(t, st)
    /\ \A i \in 1 .. Len(st) : Untouched(m, st[i])
    /\ \A i \in 0 .. Len(st) : Linked(t, Marked(m), From(st, i), To(t, st, i + 1))
    /\ w \in [0 .. ArrayEnd(t[1], t[2]) -> Int]

\* What is compared: runes, or the numbers of lines.
Signs == IF mode = "runes" THEN Items ELSE Int

\* What links the texts at each stage, and what follows from it when all is linked.
CommonInv ==
    /\ stage = "compress" => Numbered
    /\ stage = "lcs" => Solving(Signs, zids, zchange, stack, v)
    /\ stage = "lcs" /\ mode = "lines" => Numbered /\ \E e, pos : Framed(e, pos)
    /\ stage = "lcs" /\ mode = "runes" => zids = data
    /\ KeepsCommonText

-----------------------------------------------------------------------------
\* A pair as a function of the side.
LEMMA PairOfSides ==
  ASSUME NEW S, NEW x \in S, NEW y \in S
  PROVE  <<x, y>> \in [Sides -> S] /\ <<x, y>>[1] = x /\ <<x, y>>[2] = y
  BY DEF Sides

\* The first subproblem is everything, and nothing is marked.
LEMMA SolvingStart ==
  ASSUME NEW S, NEW t \in [Sides -> Seq(S)], NEW m,
         m = [f \in Sides |-> Unchanged(Len(t[f]))]
  PROVE  Solving(S, t, m, Whole(t[1], t[2]), Array(t[1], t[2]))
  <1> DEFINE z == <<Len(t[1]), Len(t[2])>>
             r == [s |-> <<0, 0>>, e |-> z]
             st == <<r>>
  <1>0. Len(t[1]) \in Nat /\ Len(t[2]) \in Nat
    BY DEF Sides
  <1>1. st = Whole(t[1], t[2])
    BY DEF Whole
  <1>2. Array(t[1], t[2]) \in [0 .. ArrayEnd(t[1], t[2]) -> Int]
    <2>1. ArrayEnd(t[1], t[2]) = 2 * ((Len(t[1]) + Len(t[2]) + 1) * 2 + 2) - 1
      <3>1. \A x, y \in Nat : 4 * (x + y + 1) + 3 = 2 * ((x + y + 1) * 2 + 2) - 1
        OBVIOUS
      <3> QED
        BY <1>0, <3>1 DEF ArrayEnd
    <2> QED
      BY <2>1 DEF Array
  <1>3. Texts(S, t, m)
    <2>1. \A n \in Nat : Unchanged(n) \in Seq(BOOLEAN) /\ Len(Unchanged(n)) = n
      BY DEF Unchanged
    <2>2. \A f \in Sides : Len(t[f]) \in Nat
      OBVIOUS
    <2> QED
      BY <2>1, <2>2 DEF Texts
  <1>4. \A f \in Sides : \A p \in 1 .. Len(t[f]) : ~ m[f][p]
    BY DEF Unchanged
  <1>5. /\ z \in Points /\ <<0, 0>> \in Points /\ Before(<<0, 0>>, z) /\ Before(z, z)
        /\ z[1] = Len(t[1]) /\ z[2] = Len(t[2])
    BY <1>0 DEF Points, Before
  <1>6. Untouched(m, r)
    <2>1. \A f \in Sides : r.s[f] = 0 /\ r.e[f] = Len(t[f])
      BY <1>0 DEF Sides
    <2> HIDE DEF r
    <2> QED
      BY <1>4, <2>1 DEF Untouched
  <1> HIDE DEF z
  <1>7. Len(st) = 1 /\ st[1] = r /\ st \in Seq([s : Points, e : Points])
    BY <1>5
  <1>8. r.s = <<0, 0>> /\ r.e = z
    OBVIOUS
  <1> HIDE DEF st, r
  <1>9. \A i \in 1 .. 1 : i = 1
    OBVIOUS
  <1>10. Ordered(t, st)
    <2>1. \A i, j \in 1 .. 1 : ~ (i < j)
      OBVIOUS
    <2> QED
      BY <1>5, <1>7, <1>8, <1>9, <2>1 DEF Ordered, z
  <1>11. \A i \in 1 .. Len(st) : Untouched(m, st[i])
    BY <1>6, <1>7, <1>9
  <1>12. \A i \in 0 .. Len(st) : Linked(t, Marked(m), From(st, i), To(t, st, i + 1))
    <2>1. From(st, 0) = <<0, 0>> /\ To(t, st, 0 + 1) = <<0, 0>>
      BY <1>7, <1>8 DEF From, To
    <2>2. From(st, 1) = z /\ To(t, st, 1 + 1) = z
      BY <1>7, <1>8 DEF From, To, z
    <2>3. \A x : Linked(t, Marked(m), x, x)
      BY DEF Linked
    <2>4. \A i \in 0 .. Len(st) : i = 0 \/ i = 1
      BY <1>7
    <2> QED
      BY <2>1, <2>2, <2>3, <2>4
  <1> QED
    BY <1>1, <1>2, <1>3, <1>10, <1>11, <1>12 DEF Solving

(***************************************************************************)
(* compress_equiv_ids keeps the invariant.                                 *)
(***************************************************************************)

\* Later entries begin further on, and none beyond the end.
LEMMA LaidUp ==
  ASSUME NEW count \in Seq(Nat), NEW pos, NEW m \in Nat, Laid(count, pos, m)
  PROVE  /\ \A k \in 1 .. Len(count) : /\ pos[k - 1] \in Nat /\ pos[k] \in Nat /\ count[k] \in Nat
                                       /\ pos[k] = pos[k - 1] + count[k]
         /\ \A i \in 0 .. Len(count) : \A k \in 0 .. i : pos[k] <= pos[i]
         /\ \A k \in 1 .. Len(count) : pos[k] <= m
  <1> DEFINE n == Len(count)
  <1>0. /\ n \in Nat /\ pos \in [0 .. n -> Nat] /\ pos[n] = m
        /\ \A k \in 1 .. n : pos[k] = pos[k - 1] + count[k] /\ count[k] \in Nat
    BY DEF Laid
  <1> HIDE DEF n
  <1>1. ASSUME NEW i \in 0 .. n PROVE \A k \in 0 .. i : pos[k] <= pos[i]
    <2> DEFINE T == {d \in 0 .. i : pos[i - d] <= pos[i]}
    <2>1. 0 \in T
      BY <1>0, i - 0 = i
    <2>2. ASSUME NEW d \in 0 .. i - 1, d \in T PROVE d + 1 \in T
      <3>1. i - d \in 1 .. n /\ (i - d) - 1 = i - (d + 1) /\ i - (d + 1) \in 0 .. n /\ d + 1 \in 0 .. i
        BY <1>0
      <3>2. pos[i - d] = pos[i - (d + 1)] + count[i - d] /\ count[i - d] \in Nat
        BY <1>0, <3>1
      <3>3. pos[i - (d + 1)] \in Nat /\ pos[i - d] <= pos[i] /\ pos[i] \in Nat
        BY <1>0, <2>2, <3>1
      <3> QED
        BY <3>1, <3>2, <3>3
    <2> HIDE DEF T
    <2>3. \A d \in 0 .. i - 1 : d \in T => d + 1 \in T
      BY <2>2
    <2>4. \A d \in 0 .. i : d \in T
      <3>1. i \in Nat
        OBVIOUS
      <3> QED
        BY <2>1, <2>3, <3>1, Induction
    <2> SUFFICES ASSUME NEW k \in 0 .. i PROVE pos[k] <= pos[i]
      OBVIOUS
    <2>5. i - k \in 0 .. i /\ i - (i - k) = k
      OBVIOUS
    <2>6. i - k \in T
      BY <2>4, <2>5
    <2>7. pos[i - (i - k)] <= pos[i]
      BY <2>6 DEF T
    <2> QED
      BY <2>5, <2>7
  <1>2. \A k \in 1 .. n : pos[k] <= m
    <2>1. n \in 0 .. n /\ \A k \in 1 .. n : k \in 0 .. n
      BY <1>0
    <2> QED
      BY <1>0, <1>1, <2>1
  <1>3. \A k \in 1 .. n : pos[k - 1] \in Nat /\ pos[k] \in Nat
    <2>1. \A k \in 1 .. n : k - 1 \in 0 .. n /\ k \in 0 .. n
      BY <1>0
    <2> QED
      BY <1>0, <2>1
  <1> QED
    BY <1>0, <1>1, <1>2, <1>3 DEF n

\* No line of one side is among the numbers that only the other side has.
LEMMA LoneApart ==
  ASSUME Numbered, NEW first \in Nat \ {0}, NEW m \in Nat, NEW n \in Nat, first <= m, m <= n,
         \A f \in Sides : \A x \in ToSet(ids[f]) : x < first
  PROVE  /\ Lone(1, first, m) \intersect Lone(2, m, n) = {}
         /\ \A x \in Lone(1, first, m) \union Lone(2, m, n) : x \in Int /\ x < 0
  <1>0. \A f \in Sides : \A x \in ToSet(ids[f]) : x \in Nat /\ x > 0 /\ x < first
    <2>1. \A f \in Sides : ids[f] \in Seq(Nat \ {0})
      BY DEF Numbered
    <2>2. ASSUME NEW f \in Sides, NEW x \in ToSet(ids[f]) PROVE x \in Nat \ {0}
      BY <2>1, <2>2 DEF ToSet
    <2> QED
      BY <2>2
  <1>1. Other(1) = 2 /\ Other(2) = 1 /\ 1 \in Sides /\ 2 \in Sides
    BY DEF Other, Sides
  <1> DEFINE A == (ToSet(ids[1]) \ ToSet(ids[2])) \union (first .. m - 1)
             B == (ToSet(ids[2]) \ ToSet(ids[1])) \union (m .. n - 1)
  <1>2. Lone(1, first, m) = {- x : x \in A} /\ Lone(2, m, n) = {- x : x \in B}
    BY <1>1, Zenon DEF Lone
  <1>3. \A x \in A : x \in Nat /\ x > 0
    BY <1>0, <1>1
  <1>4. \A x \in B : x \in Nat /\ x > 0
    BY <1>0, <1>1
  <1>5. A \intersect B = {}
    <2>1. \A x \in ToSet(ids[1]) \union ToSet(ids[2]) : x \in Nat /\ x < first
      BY <1>0, <1>1
    <2> HIDE DEF Numbered
    <2> QED
      BY <2>1
  <1> HIDE DEF A, B
  <1>6. \A x \in A, y \in B : - x # - y
    BY <1>3, <1>4, <1>5
  <1>7. \A x \in A \union B : - x \in Int /\ - x < 0
    BY <1>3, <1>4
  <1> QED
    BY <1>2, <1>6, <1>7

\* Entries of both sides that are equal are one line each, the same.
LEMMA Twins ==
  ASSUME Numbered, NEW first \in Nat \ {0}, \A f \in Sides : \A x \in ToSet(ids[f]) : x < first,
         NEW s \in Points, NEW e \in Points, Before(s, e), Before(e, <<Len(ids[1]), Len(ids[2])>>),
         NEW z1 \in Merged(1, s[1], first, e[1] - s[1]),
         NEW z2 \in Merged(2, s[2], z1.next, e[2] - s[2])
  PROVE  \E p1, p2 :
           /\ Laid(z1.zcount, p1, e[1] - s[1]) /\ Laid(z2.zcount, p2, e[2] - s[2])
           /\ TwinLines(s, z1.zids, z2.zids, z1.zcount, z2.zcount, p1, p2)
  <1>0. /\ s[1] \in Nat /\ s[2] \in Nat /\ e[1] - s[1] \in Nat /\ e[2] - s[2] \in Nat
        /\ e[1] <= Len(ids[1]) /\ e[2] <= Len(ids[2]) /\ e[1] \in Nat /\ e[2] \in Nat
        /\ ids[1] \in Seq(Nat \ {0}) /\ ids[2] \in Seq(Nat \ {0})
    BY DEF Points, Before, Numbered, Sides
  <1> DEFINE L1 == Lone(1, first, z1.next)
             L2 == Lone(2, z1.next, z2.next)
  <1>1. /\ z1.zids \in Seq(Int) /\ z1.zcount \in Seq(Nat) /\ Len(z1.zids) = Len(z1.zcount)
        /\ z1.next \in Nat /\ first <= z1.next
    BY DEF Merged, MergeStates
  <1>2. /\ z2.zids \in Seq(Int) /\ z2.zcount \in Seq(Nat) /\ Len(z2.zids) = Len(z2.zcount)
        /\ z2.next \in Nat /\ z1.next <= z2.next
    BY DEF Merged, MergeStates
  <1>3. PICK p1 : Laid(z1.zcount, p1, e[1] - s[1]) /\ Stands(1, s[1], L1, z1.zids, z1.zcount, p1)
    BY DEF Merged
  <1>4. PICK p2 : Laid(z2.zcount, p2, e[2] - s[2]) /\ Stands(2, s[2], L2, z2.zids, z2.zcount, p2)
    BY DEF Merged
  <1>5. L1 \intersect L2 = {} /\ \A x \in L1 \union L2 : x \in Int /\ x < 0
    BY <1>1, <1>2, LoneApart
  <1> HIDE DEF L1, L2
  <1> DEFINE Z1 == z1.zids
             Z2 == z2.zids
             C1 == z1.zcount
             C2 == z2.zcount
  <1> HIDE DEF Z1, Z2, C1, C2
  <1>6. \A i \in 1 .. Len(Z1) : \/ Z1[i] \in L1
                                \/ /\ C1[i] = 1 /\ Z1[i] = ids[1][(s[1] + p1[i - 1]) + 1]
                                   /\ Z1[i] \in Nat
    <2> SUFFICES ASSUME NEW i \in 1 .. Len(Z1), Z1[i] \notin L1
                 PROVE  /\ C1[i] = 1 /\ Z1[i] = ids[1][(s[1] + p1[i - 1]) + 1]
                        /\ Z1[i] \in Nat
      OBVIOUS
    <2>0. i \in 1 .. Len(C1) /\ C1 \in Seq(Nat) /\ Laid(C1, p1, e[1] - s[1])
      BY <1>1, <1>3 DEF Z1, C1
    <2>1. C1[i] = 1 /\ Z1[i] = ids[1][(s[1] + p1[i - 1]) + 1]
      BY <1>3, <2>0 DEF Stands, Z1, C1
    <2>2. p1[i - 1] \in Nat /\ p1[i] = p1[i - 1] + C1[i] /\ p1[i] <= e[1] - s[1]
      BY <1>0, <2>0, LaidUp
    <2>3. (s[1] + p1[i - 1]) + 1 \in 1 .. Len(ids[1])
      <3>1. \A a, b, q, n, r \in Nat : r = q + 1 /\ r <= b - a /\ b <= n => (a + q) + 1 \in 1 .. n
        OBVIOUS
      <3>2. Len(ids[1]) \in Nat
        BY <1>0
      <3>3. p1[i] \in Nat /\ p1[i] = p1[i - 1] + 1
        BY <2>1, <2>2
      <3> QED
        BY <1>0, <2>2, <3>1, <3>2, <3>3
    <2> QED
      BY <1>0, <2>1, <2>3
  <1>7. \A i \in 1 .. Len(Z2) : \/ Z2[i] \in L2
                                \/ /\ C2[i] = 1 /\ Z2[i] = ids[2][(s[2] + p2[i - 1]) + 1]
                                   /\ Z2[i] \in Nat
    <2> SUFFICES ASSUME NEW i \in 1 .. Len(Z2), Z2[i] \notin L2
                 PROVE  /\ C2[i] = 1 /\ Z2[i] = ids[2][(s[2] + p2[i - 1]) + 1]
                        /\ Z2[i] \in Nat
      OBVIOUS
    <2>0. i \in 1 .. Len(C2) /\ C2 \in Seq(Nat) /\ Laid(C2, p2, e[2] - s[2])
      BY <1>2, <1>4 DEF Z2, C2
    <2>1. C2[i] = 1 /\ Z2[i] = ids[2][(s[2] + p2[i - 1]) + 1]
      BY <1>4, <2>0 DEF Stands, Z2, C2
    <2>2. p2[i - 1] \in Nat /\ p2[i] = p2[i - 1] + C2[i] /\ p2[i] <= e[2] - s[2]
      BY <1>0, <2>0, LaidUp
    <2>3. (s[2] + p2[i - 1]) + 1 \in 1 .. Len(ids[2])
      <3>1. \A a, b, q, n, r \in Nat : r = q + 1 /\ r <= b - a /\ b <= n => (a + q) + 1 \in 1 .. n
        OBVIOUS
      <3>2. Len(ids[2]) \in Nat
        BY <1>0
      <3>3. p2[i] \in Nat /\ p2[i] = p2[i - 1] + 1
        BY <2>1, <2>2
      <3> QED
        BY <1>0, <2>2, <3>1, <3>2, <3>3
    <2> QED
      BY <1>0, <2>1, <2>3
  <1>8. ASSUME NEW i \in 1 .. Len(Z1), NEW j \in 1 .. Len(Z2), Z1[i] = Z2[j]
        PROVE  /\ C1[i] = 1 /\ C2[j] = 1
               /\ ids[1][(s[1] + p1[i - 1]) + 1] = ids[2][(s[2] + p2[j - 1]) + 1]
    <2>1. Z1[i] \notin L1
      <3> SUFFICES ASSUME Z1[i] \in L1 PROVE FALSE
        OBVIOUS
      <3>1. Z2[j] \notin L2 /\ Z2[j] < 0 /\ Z2[j] \in Int
        BY <1>5, <1>8
      <3>2. Z2[j] \in Nat
        BY <1>7, <3>1
      <3> QED
        BY <3>1, <3>2
    <2>2. Z1[i] \in Nat
      BY <1>6, <2>1
    <2>3. Z2[j] \notin L2
      <3> SUFFICES ASSUME Z2[j] \in L2 PROVE FALSE
        OBVIOUS
      <3>1. Z2[j] < 0 /\ Z2[j] \in Nat
        BY <1>5, <1>8, <2>2
      <3> QED
        BY <3>1
    <2> QED
      BY <1>6, <1>7, <1>8, <2>1, <2>3
  <1>9. TwinLines(s, Z1, Z2, C1, C2, p1, p2)
    BY <1>8 DEF TwinLines
  <1> QED
    BY <1>3, <1>4, <1>9 DEF Z1, Z2, C1, C2

\* The numbers that compress_equiv_ids makes up are beyond those of the lines.
LEMMA BeyondAll ==
  ASSUME NEW a \in Seq(Nat \ {0}), NEW b \in Seq(Nat \ {0}), a # <<>>
  PROVE  LET n == 1 + CHOOSE n \in ToSet(a \o b) : \A m \in ToSet(a \o b) : m <= n
         IN  n \in Nat \ {0} /\ \A x \in ToSet(a) \union ToSet(b) : x < n
  <1> DEFINE w == a \o b
             N == Len(w) - 1
             f == [i \in 0 .. N |-> w[i + 1]]
             T == ToSet(w)
             g == CHOOSE n \in T : \A m \in T : m <= n
  <1>1. /\ w \in Seq(Nat \ {0}) /\ Len(w) = Len(a) + Len(b) /\ Len(a) \in Nat /\ Len(b) \in Nat
        /\ \A i \in 1 .. Len(a) : w[i] = a[i]
        /\ \A i \in 1 .. Len(b) : w[Len(a) + i] = b[i]
    OBVIOUS
  <1>2. Len(a) # 0
    BY EmptySeq
  <1> HIDE DEF w
  <1>3. N \in Nat /\ T = {w[i] : i \in 1 .. Len(w)} /\ 1 .. Len(w) = DOMAIN w
    <2>1. 1 .. Len(w) = DOMAIN w
      BY <1>1
    <2>2. N \in Nat
      BY <1>1, <1>2
    <2> QED
      BY <2>1, <2>2, Zenon DEF ToSet
  <1>4. \A i \in 0 .. N : f[i] \in Nat
    BY <1>1
  <1> HIDE DEF N
  <1>5. PICK k \in 0 .. N : \A j \in 0 .. N : f[j] <= f[k]
    <2> HIDE DEF f
    <2> QED
      BY <1>3, <1>4, GreatestOf
  <1>6. f[k] \in T /\ \A x \in T : x <= f[k]
    <2>1. k + 1 \in 1 .. Len(w) /\ f[k] = w[k + 1]
      BY <1>1 DEF N
    <2>2. \A i \in 1 .. Len(w) : i - 1 \in 0 .. N /\ f[i - 1] = w[i]
      BY <1>1 DEF N
    <2> HIDE DEF f
    <2>3. \A i \in 1 .. Len(w) : w[i] <= f[k]
      BY <1>5, <2>2
    <2> QED
      BY <1>3, <2>1, <2>3
  <1> HIDE DEF f, T
  <1>7. g \in T /\ \A x \in T : x <= g
    BY <1>6
  <1>8. \A x \in T : x \in Nat
    BY <1>1, <1>3
  <1>9. ToSet(a) \union ToSet(b) \subseteq T
    <2>1. \A x \in ToSet(a) : x \in T
      <3>1. ToSet(a) = {a[i] : i \in 1 .. Len(a)}
        BY DEF ToSet
      <3>2. \A i \in 1 .. Len(a) : i \in 1 .. Len(w)
        BY <1>1
      <3> QED
        BY <1>1, <1>3, <3>1, <3>2
    <2>2. \A x \in ToSet(b) : x \in T
      <3>1. ToSet(b) = {b[i] : i \in 1 .. Len(b)}
        BY DEF ToSet
      <3>2. \A i \in 1 .. Len(b) : Len(a) + i \in 1 .. Len(w)
        BY <1>1
      <3> QED
        BY <1>1, <1>3, <3>1, <3>2
    <2> QED
      BY <2>1, <2>2
  <1> HIDE DEF g
  <1>10. 1 + g \in Nat \ {0} /\ \A x \in ToSet(a) \union ToSet(b) : x < 1 + g
    BY <1>7, <1>8, <1>9
  <1> QED
    BY <1>10 DEF g, T, w

\* If one side has nothing left, the rest of the other is changed, and all is linked.
LEMMA OneSidedLinked ==
  ASSUME DiffInv, Numbered, stage # "equiv", NEW s, NEW e, s = FrontEnd, e = BackEnd(s),
         NEW f \in Sides, s[Other(f)] = e[Other(f)],
         NEW m, m = MarkedRange(Excluded(s, e), f, s[f], e[f])
  PROVE  KeptText(data[1], m[1]) = KeptText(data[2], m[2])
  <1>0. \A g \in Sides : Len(data[g]) \in Nat /\ Len(ids[g]) = Len(data[g])
    BY DEF DiffInv, Numbered
  <1>1. s \in Points /\ e \in Points /\ Before(s, e) /\ Before(e, Ends)
    BY RestPlace
  <1>3. MarksOf(m)
    BY ExcludedMarks, MarkedRangeMarks DEF DiffInv
  <1>4. AloneOutside(m, s, e) /\ \A p \in s[f] + 1 .. e[f] : m[f][p]
    BY <1>1, ExcludedFacts
  <1>5. Linked(ids, Marked(m), <<0, 0>>, s) /\ Linked(ids, Marked(m), e, Ends)
    BY <1>3, <1>4, OutsideLinked
  <1>6. s[f] + 1 .. e[f] \subseteq Marked(m)[f]
    <2>1. DOMAIN m[f] = 1 .. Len(data[f])
      BY <1>3 DEF MarksOf
    <2>2. Marked(m)[f] = {p \in DOMAIN m[f] : m[f][p]}
      BY DEF Marked
    <2>3. \A p \in s[f] + 1 .. e[f] : p \in 1 .. Len(data[f])
      <3>1. s[f] \in Nat /\ e[f] \in Nat /\ e[f] <= Len(data[f]) /\ Len(data[f]) \in Nat
        BY <1>0, <1>1 DEF Points, Before, Ends, Sides
      <3> QED
        BY <3>1
    <2> QED
      BY <1>4, <2>1, <2>2, <2>3
  <1>7. /\ s[1] \in Nat /\ s[2] \in Nat /\ e[1] \in Nat /\ e[2] \in Nat
        /\ s = <<s[1], s[2]>> /\ e = <<e[1], e[2]>> /\ s[1] <= e[1] /\ s[2] <= e[2]
        /\ e[1] <= Len(ids[1]) /\ e[2] <= Len(ids[2]) /\ Len(ids[1]) \in Nat /\ Len(ids[2]) \in Nat
    BY <1>0, <1>1 DEF Points, Before, Ends, Sides
  <1>8. Linked(ids, Marked(m), s, e)
    <2> DEFINE a == s[1]
               b == s[2]
               c == e[1]
               d == e[2]
    <2>1. CASE f = 1
      <3>1. d = b
        BY <2>1 DEF Other
      <3>2. /\ a + 1 .. c \subseteq Marked(m)[1] /\ a \in Nat /\ b \in Nat /\ c \in Nat
            /\ a <= c /\ c <= Len(ids[1]) /\ Len(ids[1]) \in Nat
        BY <1>6, <1>7, <2>1
      <3> HIDE DEF a, b, c
      <3>3. Linked(ids, Marked(m), <<a, b>>, <<c, b>>)
        BY <3>2, LinkedFirst
      <3> QED
        BY <1>7, <3>1, <3>3 DEF a, b, c
    <2>2. CASE f = 2
      <3>1. c = a
        BY <2>2 DEF Other
      <3>2. /\ b + 1 .. d \subseteq Marked(m)[2] /\ a \in Nat /\ b \in Nat /\ d \in Nat
            /\ b <= d /\ d <= Len(ids[2]) /\ Len(ids[2]) \in Nat
        BY <1>6, <1>7, <2>2
      <3> HIDE DEF a, b, d
      <3>3. Linked(ids, Marked(m), <<a, b>>, <<a, d>>)
        BY <3>2, LinkedSecond
      <3> QED
        BY <1>7, <3>1, <3>3 DEF a, b, d
    <2> QED
      BY <2>1, <2>2 DEF Sides
  <1>9. Linked(ids, Marked(m), <<0, 0>>, Ends)
    BY <1>5, <1>8, LinkedTo
  <1> QED
    BY <1>0, <1>3, <1>9, LinkedKept

\* compress_equiv_ids leaves entries to compare in a frame of linked lines, or has
\* marked what only one side has left.
LEMMA CompressCommon == ASSUME DiffInv, CommonInv, Compress PROVE CommonInv'
  <1>0. stage = "compress" /\ mode = "lines" /\ Numbered /\ DiffInv'
    BY NextDiffInv DEF CommonInv, DiffInv, Compress, Next
  <1>1. UNCHANGED <<mode, data, ids>>
    BY DEF Compress, input
  <1> DEFINE s == FrontEnd
             e == BackEnd(s)
             first == 1 + CHOOSE n \in ToSet(ids[1] \o ids[2]) :
                            \A m \in ToSet(ids[1] \o ids[2]) : m <= n
             z1 == Compressed(1, s[1], e[1], first)
             z2 == Compressed(2, s[2], e[2], z1.next)
  <1>2. s \in Points /\ e \in Points /\ Before(s, e) /\ Before(e, Ends)
    <2> HIDE DEF s, e
    <2>1. s = FrontEnd /\ e = BackEnd(s)
      BY DEF s, e
    <2> QED
      BY <1>0, <2>1, RestPlace
  <1>3. \/ /\ s[1] = e[1] \/ s[2] = e[2]
           /\ change' = LET f == IF s[1] = e[1] THEN 2 ELSE 1
                        IN  MarkedRange(Excluded(s, e), f, s[f], e[f])
           /\ stage' = "shift"
        \/ /\ s[1] < e[1] /\ s[2] < e[2]
           /\ change' = Excluded(s, e)
           /\ zstart' = s
           /\ zids' = <<z1.zids, z2.zids>>
           /\ zcount' = <<z1.zcount, z2.zcount>>
           /\ zchange' = <<Unchanged(Len(z1.zids)), Unchanged(Len(z2.zids))>>
           /\ stack' = Whole(z1.zids, z2.zids)
           /\ v' = Array(z1.zids, z2.zids)
           /\ stage' = "lcs"
    BY DEF Compress
  <1>4. s = FrontEnd /\ e = BackEnd(s)
    OBVIOUS
  <1> HIDE DEF s, e, first
  <1>5. CASE /\ s[1] = e[1] \/ s[2] = e[2]
             /\ change' = LET f == IF s[1] = e[1] THEN 2 ELSE 1
                          IN  MarkedRange(Excluded(s, e), f, s[f], e[f])
             /\ stage' = "shift"
    <2> DEFINE f == IF s[1] = e[1] THEN 2 ELSE 1
    <2>1. f \in Sides /\ s[Other(f)] = e[Other(f)]
      BY <1>5 DEF Sides, Other
    <2>2. change' = MarkedRange(Excluded(s, e), f, s[f], e[f])
      BY <1>5
    <2> HIDE DEF f
    <2>3. KeptText(data[1], change'[1]) = KeptText(data[2], change'[2])
      BY <1>0, <1>4, <2>1, <2>2, OneSidedLinked
    <2>4. KeepsCommonText'
      BY <1>1, <2>3 DEF KeepsCommonText, KeptOf
    <2> QED
      BY <1>5, <2>4 DEF CommonInv
  <1>6. CASE /\ s[1] < e[1] /\ s[2] < e[2]
             /\ change' = Excluded(s, e)
             /\ zstart' = s
             /\ zids' = <<z1.zids, z2.zids>>
             /\ zcount' = <<z1.zcount, z2.zcount>>
             /\ zchange' = <<Unchanged(Len(z1.zids)), Unchanged(Len(z2.zids))>>
             /\ stack' = Whole(z1.zids, z2.zids)
             /\ v' = Array(z1.zids, z2.zids)
             /\ stage' = "lcs"
    <2>0. /\ s[1] \in Nat /\ s[2] \in Nat /\ e[1] \in Nat /\ e[2] \in Nat
          /\ s[1] <= e[1] /\ s[2] <= e[2] /\ e[1] <= Len(ids[1]) /\ e[2] <= Len(ids[2])
          /\ ids[1] \in Seq(Nat \ {0}) /\ ids[2] \in Seq(Nat \ {0}) /\ 1 \in Sides /\ 2 \in Sides
          /\ Len(ids[1]) = Len(data[1]) /\ Len(ids[2]) = Len(data[2])
      BY <1>0, <1>2, <1>6 DEF Points, Before, Ends, Sides, Numbered
    <2>1. first \in Nat \ {0} /\ \A f \in Sides : \A x \in ToSet(ids[f]) : x < first
      <3>1. ids[1] # <<>>
        BY <1>6, <2>0, EmptySeq
      <3>2. first \in Nat \ {0} /\ \A x \in ToSet(ids[1]) \union ToSet(ids[2]) : x < first
        BY <2>0, <3>1, BeyondAll DEF first
      <3> QED
        BY <3>2 DEF Sides
    <2>2. z1 \in Merged(1, s[1], first, e[1] - s[1])
      <3> HIDE DEF z2
      <3> QED
        BY <1>0, <2>0, <2>1, CompressedMerged
    <2> HIDE DEF z1
    <2>3. z1.next \in Nat /\ z1.zids \in Seq(Int) /\ z1.zcount \in Seq(Nat) /\ Len(z1.zids) = Len(z1.zcount)
      BY <2>2 DEF Merged, MergeStates
    <2>4. z2 \in Merged(2, s[2], z1.next, e[2] - s[2])
      BY <1>0, <2>0, <2>3, CompressedMerged
    <2> HIDE DEF z2
    <2>5. z2.zids \in Seq(Int) /\ z2.zcount \in Seq(Nat) /\ Len(z2.zids) = Len(z2.zcount)
      BY <2>4 DEF Merged, MergeStates
    <2>6. PICK p1, p2 :
           /\ Laid(z1.zcount, p1, e[1] - s[1]) /\ Laid(z2.zcount, p2, e[2] - s[2])
           /\ TwinLines(s, z1.zids, z2.zids, z1.zcount, z2.zcount, p1, p2)
      <3>1. Before(e, <<Len(ids[1]), Len(ids[2])>>)
        BY <2>0 DEF Before
      <3> QED
        BY <1>0, <1>2, <2>1, <2>2, <2>4, <3>1, Twins
    <2>7. Solving(Signs, zids, zchange, stack, v)'
      <3>1. /\ zids' \in [Sides -> Seq(Int)] /\ zids'[1] = z1.zids /\ zids'[2] = z2.zids
        BY <1>6, <2>3, <2>5, PairOfSides, Zenon
      <3>2. zchange' = [f \in Sides |-> Unchanged(Len(zids'[f]))]
        BY <1>6, <3>1 DEF Sides
      <3>3. Solving(Int, zids', zchange', Whole(zids'[1], zids'[2]), Array(zids'[1], zids'[2]))
        BY <3>1, <3>2, SolvingStart
      <3>4. Signs' = Int
        BY <1>0, <1>1 DEF Signs
      <3>5. Solving(Int, zids', zchange', stack', v')
        BY <1>6, <3>1, <3>3
      <3> QED
        BY <3>4, <3>5 DEF Solving, Texts, Ordered, Untouched, From, To, Linked, Closed
    <2>8. Numbered'
      BY <1>0, <1>1 DEF Numbered
    <2>12. PICK d : d = e
      OBVIOUS
    <2>9. Framed(d, <<p1, p2>>)'
      <3>1. Linked(ids, Marked(change'), <<0, 0>>, s) /\ Linked(ids, Marked(change'), e, Ends)
        <4>1. MarksOf(change')
          BY <1>0, <1>1 DEF DiffInv, MarksOf
        <4>2. AloneOutside(change', s, e)
          BY <1>0, <1>2, <1>6, ExcludedFacts
        <4> QED
          BY <1>0, <1>4, <4>1, <4>2, OutsideLinked
      <3>2. \A f \in Sides : \A p \in s[f] + 1 .. e[f] : ~ change'[f][p]
        BY <1>0, <1>2, <1>6, ExcludedFacts
      <3> QED
        <4>1. Entries(d, <<p1, p2>>)'
          <5>1. /\ zids'[1] = z1.zids /\ zids'[2] = z2.zids /\ zstart' = s
                /\ zcount'[1] = z1.zcount /\ zcount'[2] = z2.zcount
            BY <1>6
          <5>2. <<p1, p2>>[1] = p1 /\ <<p1, p2>>[2] = p2
            OBVIOUS
          <5>3. TwinLines(zstart, zids[1], zids[2], zcount[1], zcount[2], <<p1, p2>>[1], <<p1, p2>>[2])'
            BY <1>1, <2>6, <5>1, <5>2 DEF TwinLines
          <5>4. ASSUME NEW f \in Sides
                PROVE  /\ zcount'[f] \in Seq(Nat) /\ Len(zcount'[f]) = Len(zids'[f])
                       /\ Laid(zcount'[f], <<p1, p2>>[f], d[f] - zstart'[f])
            <6>1. CASE f = 1
              BY <2>3, <2>6, <2>12, <5>1, <5>2, <6>1
            <6>2. CASE f = 2
              BY <2>5, <2>6, <2>12, <5>1, <5>2, <6>2
            <6> QED
              BY <6>1, <6>2 DEF Sides
          <5> QED
            BY <5>3, <5>4 DEF Entries
        <4>2. zstart' = s /\ Ends' = Ends /\ ids' = ids
          BY <1>1, <1>6 DEF Ends
        <4> HIDE DEF Ends
        <4>3. /\ Linked(ids, Marked(change), <<0, 0>>, zstart)'
              /\ Linked(ids, Marked(change), d, Ends)'
          <5>1. /\ Linked(ids, Marked(change'), <<0, 0>>, s)
                /\ Linked(ids, Marked(change'), d, Ends)
            BY <2>12, <3>1
          <5>2. Marked(change)' = Marked(change')
            BY DEF Marked
          <5> QED
            BY <4>2, <5>1, <5>2 DEF Linked, Closed
        <4> QED
          BY <1>2, <2>12, <3>2, <4>1, <4>2, <4>3 DEF Framed
    <2>10. ~ Compared'
      BY <1>6 DEF Compared
    <2>11. \E x, y : Framed(x, y)'
      BY <2>9
    <2> QED
      BY <1>0, <1>1, <1>6, <2>7, <2>8, <2>10, <2>11 DEF CommonInv, KeepsCommonText
  <1> QED
    BY <1>3, <1>5, <1>6

(***************************************************************************)
(* expand_change_list keeps the invariant.                                 *)
(***************************************************************************)

\* What is marked of the first i entries, expanded.
Expands(w, marks, count, pos, i) ==
    /\ w \in Seq(BOOLEAN)
    /\ Len(w) = pos[i]
    /\ \A k \in 1 .. i : \A j \in 1 .. count[k] : w[pos[k - 1] + j] = marks[k]

\* An entry more: its mark, as often as it stands for a line.
LEMMA ExpandsStep ==
  ASSUME NEW count \in Seq(Nat), NEW pos, NEW m \in Nat, Laid(count, pos, m),
         NEW marks \in Seq(BOOLEAN), Len(marks) = Len(count),
         NEW i \in 1 .. Len(count), NEW w, Expands(w, marks, count, pos, i - 1)
  PROVE  Expands(w \o [j \in 1 .. count[i] |-> marks[i]], marks, count, pos, i)
  <1> DEFINE c == count[i]
             b == marks[i]
             x == [j \in 1 .. c |-> b]
             r == w \o x
             p == pos[i - 1]
  <1>1. c \in Nat /\ b \in BOOLEAN /\ pos[i] = p + c /\ p \in Nat
    <2>1. b \in BOOLEAN
      BY DOMAIN marks = 1 .. Len(count)
    <2> QED
      BY <2>1, LaidUp
  <1>2. w \in Seq(BOOLEAN) /\ Len(w) = p
    BY DEF Expands
  <1> HIDE DEF c, b, p
  <1>3. x \in Seq(BOOLEAN) /\ Len(x) = c /\ \A j \in 1 .. c : x[j] = b
    BY <1>1
  <1> HIDE DEF x
  <1>4. /\ r \in Seq(BOOLEAN) /\ Len(r) = p + c
        /\ \A k \in 1 .. p : r[k] = w[k]
        /\ \A j \in 1 .. c : r[p + j] = x[j]
    <2>1. Joined(BOOLEAN, w, x)
      BY <1>2, <1>3, SequencesJoined, Zenon
    <2> QED
      BY <1>2, <1>3, <2>1 DEF Joined
  <1> HIDE DEF r
  <1>5. ASSUME NEW k \in 1 .. i, NEW j \in 1 .. count[k] PROVE r[pos[k - 1] + j] = marks[k]
    <2>1. CASE k = i
      BY <1>3, <1>4, <2>1 DEF c, b, p
    <2>2. CASE k # i
      <3>1. k \in 1 .. i - 1 /\ k \in 1 .. Len(count)
        BY <2>2
      <3>2. w[pos[k - 1] + j] = marks[k]
        BY <3>1 DEF Expands
      <3>3. pos[k - 1] + j \in 1 .. p
        <4>1. /\ pos[k - 1] \in Nat /\ pos[k] \in Nat /\ pos[k] = pos[k - 1] + count[k]
              /\ count[k] \in Nat
          BY <3>1, LaidUp
        <4>2. pos[k] <= p
          <5>1. k \in 0 .. i - 1 /\ i - 1 \in 0 .. Len(count)
            BY <3>1
          <5> QED
            BY <5>1, LaidUp DEF p
        <4>3. \A a, q, x0, y \in Nat : q = a + x0 /\ q <= y => \A z \in 1 .. x0 : a + z \in 1 .. y
          OBVIOUS
        <4> QED
          BY <1>1, <4>1, <4>2, <4>3
      <3> QED
        BY <1>4, <3>2, <3>3
    <2> QED
      BY <2>1, <2>2
  <1>6. Expands(r, marks, count, pos, i)
    BY <1>1, <1>4, <1>5 DEF Expands
  <1> QED
    BY <1>6 DEF r, x, c, b

\* expand_change_list gives each line the mark of its entry.
LEMMA ExpandedFacts ==
  ASSUME NEW f \in Sides, zcount[f] \in Seq(Nat), NEW pos, NEW m \in Nat, Laid(zcount[f], pos, m),
         zchange[f] \in Seq(BOOLEAN), Len(zchange[f]) = Len(zcount[f])
  PROVE  /\ Expands(Expanded(f), zchange[f], zcount[f], pos, Len(zcount[f]))
         /\ Len(Expanded(f)) = m
  <1> DEFINE c == zcount[f]
             n == Len(c)
             b == zchange[f]
             Step(w, i) == w \o [j \in 1 .. c[i] |-> b[i]]
             S == [i \in 0 .. n |-> {w \in Seq(BOOLEAN) : Expands(w, b, c, pos, i)}]
             step == [i \in 1 .. n |-> [w \in S[i - 1] |-> Step(w, i)]]
             Def(g) == [i \in 0 .. n |-> IF i = 0 THEN <<>> ELSE Step(g[i - 1], i)]
             st == CHOOSE g : g = Def(g)
  <1>1. Expanded(f) = st[n]
    BY DEF Expanded
  <1>2. n \in Nat /\ pos[0] = 0 /\ pos[n] = m
    BY DEF Laid
  <1>3. \A i \in 0 .. n : S[i] = {w \in Seq(BOOLEAN) : Expands(w, b, c, pos, i)}
    OBVIOUS
  <1>4. \A i \in 1 .. n : \A w : Expands(w, b, c, pos, i - 1) => Expands(Step(w, i), b, c, pos, i)
    BY ExpandsStep
  <1> HIDE DEF n
  <1>5. \A i \in 1 .. n : i - 1 \in 0 .. n /\ i \in 0 .. n /\ i # 0
    BY <1>2
  <1>6. Expands(<<>>, b, c, pos, 0)
    <2>1. Len(<<>>) = 0 /\ <<>> \in Seq(BOOLEAN) /\ 1 .. 0 = {}
      OBVIOUS
    <2> QED
      BY <1>2, <2>1 DEF Expands
  <1> HIDE DEF Step, c, b
  <1>7. \A i \in 1 .. n : \A w \in S[i - 1] : step[i][w] = Step(w, i) /\ step[i][w] \in S[i]
    <2>1. ASSUME NEW i \in 1 .. n, NEW w \in S[i - 1] PROVE Step(w, i) \in S[i]
      <3>1. Expands(Step(w, i), b, c, pos, i)
        BY <1>3, <1>4, <1>5
      <3>2. Step(w, i) \in Seq(BOOLEAN)
        BY <3>1 DEF Expands
      <3> QED
        BY <1>3, <1>5, <3>1, <3>2
    <2> HIDE DEF S
    <2> QED
      BY <1>5, <2>1
  <1>8. <<>> \in S[0]
    <2>1. <<>> \in Seq(BOOLEAN) /\ 0 \in 0 .. n
      BY <1>2
    <2> QED
      BY <1>3, <1>6, <2>1
  <1> HIDE DEF S, step
  <1>9. \E g : g = Def(g)
    <2>1. PICK g : LoopOf(n, S, <<>>, step, g)
      BY <1>2, <1>7, <1>8, LoopExists
    <2>2. \A i \in 0 .. n : g[i] = IF i = 0 THEN <<>> ELSE Step(g[i - 1], i)
      <3>1. \A i \in 0 .. n : i = 0 \/ (i # 0 /\ i \in 1 .. n)
        BY <1>2
      <3> QED
        BY <1>7, <2>1, <3>1 DEF LoopOf
    <2>3. g = Def(g)
      BY <2>1, <2>2, Zenon DEF LoopOf
    <2> QED
      BY <2>3
  <1>10. st = Def(st)
    BY <1>9
  <1> HIDE DEF st
  <1>11. st[0] = <<>> /\ \A i \in 1 .. n : st[i] = Step(st[i - 1], i)
    <2>1. \A i \in 0 .. n : st[i] = Def(st)[i]
      BY <1>10
    <2>2. 0 \in 0 .. n
      BY <1>2
    <2>3. \A i \in 0 .. n : st[i] = IF i = 0 THEN <<>> ELSE Step(st[i - 1], i)
      BY <2>1
    <2> QED
      BY <1>5, <2>2, <2>3, Zenon
  <1>12. \A i \in 0 .. n : st[i] \in S[i]
    <2>1. st[0] \in S[0]
      BY <1>8, <1>11
    <2>2. \A i \in 1 .. n : st[i - 1] \in S[i - 1] => st[i] \in S[i]
      BY <1>7, <1>11
    <2> QED
      BY <1>2, <2>1, <2>2, LoopStates
  <1>13. Expands(st[n], b, c, pos, n)
    BY <1>2, <1>3, <1>12
  <1> QED
    BY <1>1, <1>2, <1>13 DEF Expands, n, b, c

\* Marks of lines that are those of the entries the lines are in.
AsEntries(c, pos) == \A f \in Sides : \A k \in 1 .. Len(zids[f]) : \A j \in 1 .. zcount[f][k] :
    c[f][(zstart[f] + pos[f][k - 1]) + j] = zchange[f][k]

\* Where the lines of an entry are.
LEMMA EntryPlace ==
  ASSUME Numbered, stage # "equiv", NEW e, NEW pos, Framed(e, pos), NEW f \in Sides, NEW k \in 1 .. Len(zids[f])
  PROVE  /\ zstart[f] + pos[f][k - 1] \in Nat /\ zcount[f][k] \in Nat
         /\ zstart[f] + pos[f][k] = (zstart[f] + pos[f][k - 1]) + zcount[f][k]
         /\ zstart[f] + pos[f][k] <= e[f]
         /\ e[f] \in Nat /\ zstart[f] \in Nat /\ e[f] <= Len(ids[f]) /\ Len(ids[f]) \in Nat
  <1>1. /\ e[f] \in Nat /\ zstart[f] \in Nat /\ e[f] <= Len(ids[f]) /\ Len(ids[f]) \in Nat
        /\ e[f] - zstart[f] \in Nat
    <2>1. ids[f] \in Seq(Nat \ {0}) /\ Len(ids[f]) = Len(data[f])
      BY DEF Numbered
    <2>2. zstart \in Points /\ e \in Points /\ Before(zstart, e) /\ Before(e, Ends)
      BY DEF Framed
    <2>3. e[f] \in Nat /\ zstart[f] \in Nat /\ e[f] <= Ends[f] /\ zstart[f] <= e[f]
      BY <2>2 DEF Points, Before, Sides
    <2>4. Ends[f] = Len(data[f])
      BY DEF Ends, Sides
    <2> QED
      BY <2>1, <2>3, <2>4
  <1>2. zcount[f] \in Seq(Nat) /\ Len(zcount[f]) = Len(zids[f])
        /\ Laid(zcount[f], pos[f], e[f] - zstart[f])
    BY DEF Framed, Entries
  <1>3. /\ pos[f][k - 1] \in Nat /\ pos[f][k] \in Nat /\ zcount[f][k] \in Nat
        /\ pos[f][k] = pos[f][k - 1] + zcount[f][k]
        /\ pos[f][k] <= e[f] - zstart[f]
    <2> DEFINE t == zcount[f]
               q == pos[f]
               d == e[f] - zstart[f]
    <2>1. t \in Seq(Nat) /\ d \in Nat /\ Laid(t, q, d) /\ k \in 1 .. Len(t)
      BY <1>1, <1>2
    <2> HIDE DEF t, q, d
    <2>2. /\ q[k - 1] \in Nat /\ q[k] \in Nat /\ t[k] \in Nat
          /\ q[k] = q[k - 1] + t[k] /\ q[k] <= d
      BY <2>1, LaidUp
    <2> QED
      BY <2>2 DEF t, q, d
  <1> DEFINE s == zstart[f]
             d == e[f]
             x == pos[f][k - 1]
             y == pos[f][k]
             c == zcount[f][k]
  <1>4. s \in Nat /\ d \in Nat /\ x \in Nat /\ y \in Nat /\ c \in Nat /\ y = x + c /\ y <= d - s
    BY <1>1, <1>3
  <1> HIDE DEF s, d, x, y, c
  <1>5. s + x \in Nat /\ s + y = (s + x) + c /\ s + y <= d
    BY ONLY <1>4
  <1> QED
    BY <1>1, <1>4, <1>5 DEF s, d, x, y, c

\* Links of the entries are links of the lines: a marked entry is some marked lines,
\* and two equal ones stand for a pair of equal lines.
LEMMA ExpandedLinked ==
  ASSUME DiffInv, Numbered, stage = "lcs", NEW e, NEW pos, Framed(e, pos), NEW c, MarksOf(c),
         zchange \in [Sides -> Seq(BOOLEAN)], \A f \in Sides : Len(zchange[f]) = Len(zids[f]),
         \A f \in Sides : Len(zids[f]) \in Nat,
         AsEntries(c, pos),
         Linked(zids, Marked(zchange), <<0, 0>>, <<Len(zids[1]), Len(zids[2])>>)
  PROVE  Linked(ids, Marked(c), zstart, e)
  <1> SUFFICES ASSUME NEW R \in SUBSET Points, zstart \in R, Closed(ids, Marked(c), R)
               PROVE  e \in R
    BY DEF Linked
  <1> DEFINE n1 == Len(zids[1])
             n2 == Len(zids[2])
             P1(i) == zstart[1] + pos[1][i]
             P2(i) == zstart[2] + pos[2][i]
             Z == {x \in Points : x[1] <= n1 /\ x[2] <= n2 /\ <<P1(x[1]), P2(x[2])>> \in R}
  <1>0. /\ 1 \in Sides /\ 2 \in Sides /\ n1 \in Nat /\ n2 \in Nat
        /\ \A f \in Sides : Len(ids[f]) = Len(data[f]) /\ Len(ids[f]) \in Nat
    BY DEF Sides, Numbered
  <1>1. \A k \in 1 .. n1 :
           /\ P1(k - 1) \in Nat /\ zcount[1][k] \in Nat /\ P1(k) = P1(k - 1) + zcount[1][k]
           /\ P1(k) <= Len(ids[1])
    <2>1. ASSUME NEW k \in 1 .. n1
          PROVE  /\ P1(k - 1) \in Nat /\ zcount[1][k] \in Nat /\ P1(k) = P1(k - 1) + zcount[1][k]
                 /\ P1(k) <= Len(ids[1])
      <3>1. /\ P1(k - 1) \in Nat /\ zcount[1][k] \in Nat /\ P1(k) = P1(k - 1) + zcount[1][k]
            /\ P1(k) <= e[1] /\ e[1] <= Len(ids[1]) /\ e[1] \in Nat /\ Len(ids[1]) \in Nat
        BY <1>0, EntryPlace
      <3> QED
        BY <3>1
    <2> QED
      BY <2>1
  <1>2. \A k \in 1 .. n2 :
           /\ P2(k - 1) \in Nat /\ zcount[2][k] \in Nat /\ P2(k) = P2(k - 1) + zcount[2][k]
           /\ P2(k) <= Len(ids[2])
    <2>1. ASSUME NEW k \in 1 .. n2
          PROVE  /\ P2(k - 1) \in Nat /\ zcount[2][k] \in Nat /\ P2(k) = P2(k - 1) + zcount[2][k]
                 /\ P2(k) <= Len(ids[2])
      <3>1. /\ P2(k - 1) \in Nat /\ zcount[2][k] \in Nat /\ P2(k) = P2(k - 1) + zcount[2][k]
            /\ P2(k) <= e[2] /\ e[2] <= Len(ids[2]) /\ e[2] \in Nat /\ Len(ids[2]) \in Nat
        BY <1>0, EntryPlace
      <3> QED
        BY <3>1
    <2> QED
      BY <2>1
  <1>3. /\ P1(0) = zstart[1] /\ P2(0) = zstart[2] /\ P1(n1) = e[1] /\ P2(n2) = e[2]
        /\ \A i \in 0 .. n1 : P1(i) \in Nat
        /\ \A i \in 0 .. n2 : P2(i) \in Nat
    <2>1. zstart \in Points /\ e \in Points
      BY DEF Framed
    <2>2. \A f \in Sides : /\ Len(zcount[f]) = Len(zids[f])
                           /\ Laid(zcount[f], pos[f], e[f] - zstart[f])
      BY DEF Framed, Entries
    <2>3. /\ zstart[1] \in Nat /\ zstart[2] \in Nat /\ e[1] \in Nat /\ e[2] \in Nat
      BY <2>1 DEF Points
    <2>4. \A f \in Sides : /\ pos[f] \in [0 .. Len(zids[f]) -> Nat] /\ pos[f][0] = 0
                           /\ pos[f][Len(zids[f])] = e[f] - zstart[f]
      BY <2>2 DEF Laid
    <2>5. \A x, y \in Nat : x + (y - x) = y /\ x + 0 = x /\ x + y \in Nat
      OBVIOUS
    <2>6. /\ pos[1] \in [0 .. n1 -> Nat] /\ pos[1][0] = 0 /\ pos[1][n1] = e[1] - zstart[1]
          /\ pos[2] \in [0 .. n2 -> Nat] /\ pos[2][0] = 0 /\ pos[2][n2] = e[2] - zstart[2]
      BY <1>0, <2>4
    <2>7. (\A i \in 0 .. n1 : pos[1][i] \in Nat) /\ (\A i \in 0 .. n2 : pos[2][i] \in Nat)
      BY <2>6
    <2>8. P1(0) = zstart[1] /\ P2(0) = zstart[2]
      BY <2>3, <2>5, <2>6
    <2>9. P1(n1) = e[1] /\ P2(n2) = e[2]
      BY <2>3, <2>5, <2>6
    <2>10. (\A i \in 0 .. n1 : P1(i) \in Nat) /\ (\A i \in 0 .. n2 : P2(i) \in Nat)
      <3>1. (\A i \in 0 .. n1 : P1(i) \in Nat)
        BY <2>3, <2>5, <2>7
      <3>2. (\A i \in 0 .. n2 : P2(i) \in Nat)
        BY <2>3, <2>5, <2>7
      <3> QED
        BY <3>1, <3>2, Zenon
    <2> QED
      BY <2>8, <2>9, <2>10
  <1>4. \A x, y : <<x, y>>[1] = x /\ <<x, y>>[2] = y
    OBVIOUS
  <1>5. <<0, 0>> \in Z
    <2>1. <<P1(0), P2(0)>> = zstart
      BY <1>3 DEF Framed, Points
    <2>2. <<0, 0>> \in Points /\ 0 <= n1 /\ 0 <= n2
      BY <1>0 DEF Points
    <2> HIDE DEF P1, P2
    <2> QED
      BY <1>4, <2>1, <2>2
  <1>6. /\ \A k \in 1 .. n1 : k \in Marked(zchange)[1] <=> zchange[1][k]
        /\ \A k \in 1 .. n2 : k \in Marked(zchange)[2] <=> zchange[2][k]
    <2>1. Marked(zchange)[1] = {p \in DOMAIN zchange[1] : zchange[1][p]}
          /\ Marked(zchange)[2] = {p \in DOMAIN zchange[2] : zchange[2][p]}
      BY <1>0 DEF Marked
    <2>2. DOMAIN zchange[1] = 1 .. n1 /\ DOMAIN zchange[2] = 1 .. n2
      BY <1>0
    <2> QED
      BY <2>1, <2>2, Zenon
  <1>7. /\ \A k \in 1 .. Len(ids[1]) : k \in Marked(c)[1] <=> c[1][k]
        /\ \A k \in 1 .. Len(ids[2]) : k \in Marked(c)[2] <=> c[2][k]
    <2>1. Marked(c)[1] = {p \in DOMAIN c[1] : c[1][p]}
          /\ Marked(c)[2] = {p \in DOMAIN c[2] : c[2][p]}
      BY <1>0 DEF Marked
    <2>2. DOMAIN c[1] = 1 .. Len(ids[1]) /\ DOMAIN c[2] = 1 .. Len(ids[2])
      <3>1. \A f \in Sides : c[f] \in Seq(BOOLEAN) /\ Len(c[f]) = Len(ids[f])
        BY <1>0 DEF MarksOf
      <3> QED
        BY <1>0, <3>1
    <2> QED
      BY <2>1, <2>2, Zenon
  <1>8. \A f \in Sides : \A k \in 1 .. Len(zids[f]) : \A j \in 1 .. zcount[f][k] :
           c[f][(zstart[f] + pos[f][k - 1]) + j] = zchange[f][k]
    BY DEF AsEntries
  <1>9. /\ \A k \in 1 .. n1 : \A j \in 1 .. zcount[1][k] : c[1][P1(k - 1) + j] = zchange[1][k]
        /\ \A k \in 1 .. n2 : \A j \in 1 .. zcount[2][k] : c[2][P2(k - 1) + j] = zchange[2][k]
    BY <1>0, <1>8
  <1>10. \A i \in 1 .. n1, j \in 1 .. n2 : zids[1][i] = zids[2][j] =>
            /\ zcount[1][i] = 1 /\ zcount[2][j] = 1
            /\ ids[1][P1(i - 1) + 1] = ids[2][P2(j - 1) + 1]
    <2>1. TwinLines(zstart, zids[1], zids[2], zcount[1], zcount[2], pos[1], pos[2])
      BY DEF Framed, Entries
    <2> QED
      BY <2>1 DEF TwinLines
  <1> HIDE DEF P1, P2
  <1>11. ASSUME NEW x \in Nat, NEW y \in Nat, x <= n1, y <= n2, <<P1(x), P2(y)>> \in R
         PROVE  <<x, y>> \in Z
    BY <1>4, <1>11 DEF Points
  <1>12. \A x \in Z : x[1] <= n1 /\ x[2] <= n2 /\ <<P1(x[1]), P2(x[2])>> \in R
    OBVIOUS
  <1>13. Z \in SUBSET Points
    OBVIOUS
  <1> HIDE DEF Z
  <1>14. Closed(zids, Marked(zchange), Z)
    <2> SUFFICES ASSUME NEW i \in Nat, NEW j \in Nat, <<i, j>> \in Z
                 PROVE  /\ i < n1 /\ i + 1 \in Marked(zchange)[1] => <<i + 1, j>> \in Z
                        /\ j < n2 /\ j + 1 \in Marked(zchange)[2] => <<i, j + 1>> \in Z
                        /\ (/\ i < n1 /\ i + 1 \notin Marked(zchange)[1]
                            /\ j < n2 /\ j + 1 \notin Marked(zchange)[2]
                            /\ zids[1][i + 1] = zids[2][j + 1]) => <<i + 1, j + 1>> \in Z
      BY DEF Closed
    <2>1. i <= n1 /\ j <= n2 /\ <<P1(i), P2(j)>> \in R
      BY <1>4, <1>12
    <2>2. /\ i < n1 => i + 1 \in 1 .. n1 /\ i + 1 <= n1 /\ (i + 1) - 1 = i
          /\ j < n2 => j + 1 \in 1 .. n2 /\ j + 1 <= n2 /\ (j + 1) - 1 = j
          /\ i \in 0 .. n1 /\ j \in 0 .. n2 /\ i + 1 \in Nat /\ j + 1 \in Nat
      BY <1>0, <2>1
    <2>3. P1(i) \in Nat /\ P2(j) \in Nat
      BY <1>3, <2>2
    <2>4. i < n1 => /\ P1(i + 1) = P1(i) + zcount[1][i + 1] /\ zcount[1][i + 1] \in Nat
                    /\ P1(i + 1) <= Len(ids[1])
                    /\ \A q \in 1 .. zcount[1][i + 1] : c[1][P1(i) + q] = zchange[1][i + 1]
      <3>1. i < n1 => /\ P1(i + 1) = P1(i) + zcount[1][i + 1] /\ zcount[1][i + 1] \in Nat
                      /\ P1(i + 1) <= Len(ids[1])
        BY <1>1, <2>2
      <3>2. i < n1 => \A q \in 1 .. zcount[1][i + 1] : c[1][P1(i) + q] = zchange[1][i + 1]
        BY <1>9, <2>2
      <3> QED
        BY <3>1, <3>2, Zenon
    <2>5. j < n2 => /\ P2(j + 1) = P2(j) + zcount[2][j + 1] /\ zcount[2][j + 1] \in Nat
                    /\ P2(j + 1) <= Len(ids[2])
                    /\ \A q \in 1 .. zcount[2][j + 1] : c[2][P2(j) + q] = zchange[2][j + 1]
      <3>1. j < n2 => /\ P2(j + 1) = P2(j) + zcount[2][j + 1] /\ zcount[2][j + 1] \in Nat
                      /\ P2(j + 1) <= Len(ids[2])
        BY <1>2, <2>2
      <3>2. j < n2 => \A q \in 1 .. zcount[2][j + 1] : c[2][P2(j) + q] = zchange[2][j + 1]
        BY <1>9, <2>2
      <3> QED
        BY <3>1, <3>2, Zenon
    <2> DEFINE p == P1(i)
               q == P2(j)
               p2 == P1(i + 1)
               q2 == P2(j + 1)
    <2>6. ASSUME i < n1, i + 1 \in Marked(zchange)[1] PROVE <<i + 1, j>> \in Z
      <3>1. zchange[1][i + 1]
        BY <1>6, <2>2, <2>6
      <3>2. p + 1 .. p2 \subseteq Marked(c)[1]
        <4> SUFFICES ASSUME NEW k \in p + 1 .. p2 PROVE k \in Marked(c)[1]
          OBVIOUS
        <4>1. k - p \in 1 .. zcount[1][i + 1] /\ p + (k - p) = k /\ k \in 1 .. Len(ids[1])
          <5>1. p \in Nat /\ p2 = p + zcount[1][i + 1] /\ zcount[1][i + 1] \in Nat /\ p2 <= Len(ids[1])
            BY <2>3, <2>4, <2>6
          <5>2. Len(ids[1]) \in Nat
            BY <1>0
          <5>3. \A x, c1, n \in Nat : x + c1 <= n => \A l \in x + 1 .. x + c1 :
                   l - x \in 1 .. c1 /\ x + (l - x) = l /\ l \in 1 .. n
            OBVIOUS
          <5> HIDE DEF p, p2
          <5> QED
            BY ONLY <5>1, <5>2, <5>3, k \in p + 1 .. p2
        <4>2. c[1][p + (k - p)]
          BY <2>4, <2>6, <3>1, <4>1
        <4> QED
          BY <1>7, <4>1, <4>2
      <3>3. p \in Nat /\ q \in Nat /\ p2 \in Nat /\ p <= p2 /\ p2 <= Len(ids[1]) /\ Len(ids[1]) \in Nat
        BY <1>0, <2>3, <2>4, <2>6
      <3> HIDE DEF p, q, p2
      <3>4. Linked(ids, Marked(c), <<p, q>>, <<p2, q>>)
        BY <3>2, <3>3, LinkedFirst
      <3>5. <<p2, q>> \in R
        BY <2>1, <3>4 DEF Linked, p, q
      <3> QED
        BY <1>11, <2>1, <2>2, <2>6, <3>5 DEF p2, q
    <2>7. ASSUME j < n2, j + 1 \in Marked(zchange)[2] PROVE <<i, j + 1>> \in Z
      <3>1. zchange[2][j + 1]
        BY <1>6, <2>2, <2>7
      <3>2. q + 1 .. q2 \subseteq Marked(c)[2]
        <4> SUFFICES ASSUME NEW k \in q + 1 .. q2 PROVE k \in Marked(c)[2]
          OBVIOUS
        <4>1. k - q \in 1 .. zcount[2][j + 1] /\ q + (k - q) = k /\ k \in 1 .. Len(ids[2])
          <5>1. q \in Nat /\ q2 = q + zcount[2][j + 1] /\ zcount[2][j + 1] \in Nat /\ q2 <= Len(ids[2])
            BY <2>3, <2>5, <2>7
          <5>2. Len(ids[2]) \in Nat
            BY <1>0
          <5>3. \A x, c1, n \in Nat : x + c1 <= n => \A l \in x + 1 .. x + c1 :
                   l - x \in 1 .. c1 /\ x + (l - x) = l /\ l \in 1 .. n
            OBVIOUS
          <5> HIDE DEF q, q2
          <5> QED
            BY ONLY <5>1, <5>2, <5>3, k \in q + 1 .. q2
        <4>2. c[2][q + (k - q)]
          BY <2>5, <2>7, <3>1, <4>1
        <4> QED
          BY <1>7, <4>1, <4>2
      <3>3. p \in Nat /\ q \in Nat /\ q2 \in Nat /\ q <= q2 /\ q2 <= Len(ids[2]) /\ Len(ids[2]) \in Nat
        BY <1>0, <2>3, <2>5, <2>7
      <3> HIDE DEF p, q, q2
      <3>4. Linked(ids, Marked(c), <<p, q>>, <<p, q2>>)
        BY <3>2, <3>3, LinkedSecond
      <3>5. <<p, q2>> \in R
        BY <2>1, <3>4 DEF Linked, p, q
      <3> QED
        BY <1>11, <2>1, <2>2, <2>7, <3>5 DEF p, q2
    <2>8. ASSUME i < n1, i + 1 \notin Marked(zchange)[1], j < n2, j + 1 \notin Marked(zchange)[2],
                 zids[1][i + 1] = zids[2][j + 1]
          PROVE  <<i + 1, j + 1>> \in Z
      <3>1. ~ zchange[1][i + 1] /\ ~ zchange[2][j + 1]
        BY <1>6, <2>2, <2>8
      <3>2. zcount[1][i + 1] = 1 /\ zcount[2][j + 1] = 1 /\ ids[1][p + 1] = ids[2][q + 1]
        BY <1>10, <2>2, <2>8
      <3>3. p2 = p + 1 /\ q2 = q + 1 /\ ~ c[1][p + 1] /\ ~ c[2][q + 1]
            /\ p2 <= Len(ids[1]) /\ q2 <= Len(ids[2])
        BY <2>4, <2>5, <2>8, <3>1, <3>2
      <3>4. p \in Nat /\ q \in Nat /\ Len(ids[1]) \in Nat /\ Len(ids[2]) \in Nat
        BY <1>0, <2>3
      <3>5. <<p, q>> \in R
        BY <2>1
      <3>6. <<p2, q2>> \in R => <<i + 1, j + 1>> \in Z
        BY <1>11, <2>2, <2>8
      <3> HIDE DEF p, q, p2, q2
      <3>7. p + 1 \in 1 .. Len(ids[1]) /\ q + 1 \in 1 .. Len(ids[2]) /\ p < Len(ids[1]) /\ q < Len(ids[2])
        BY <3>3, <3>4
      <3>8. p + 1 \notin Marked(c)[1] /\ q + 1 \notin Marked(c)[2]
        BY <1>7, <3>3, <3>7
      <3>9. <<p + 1, q + 1>> \in R
        BY <3>2, <3>4, <3>5, <3>7, <3>8, Zenon DEF Closed
      <3> QED
        BY <3>3, <3>6, <3>9
    <2> QED
      BY <2>6, <2>7, <2>8
  <1>15. <<n1, n2>> \in Z
    BY <1>5, <1>13, <1>14 DEF Linked
  <1>16. <<P1(n1), P2(n2)>> \in R
    BY <1>4, <1>12, <1>15
  <1>17. <<P1(n1), P2(n2)>> = e
    BY <1>3 DEF Framed, Points
  <1> QED
    BY <1>16, <1>17

\* expand_change_list, side by side.
LEMMA ExpandMarks ==
  ASSUME DiffInv, Numbered, stage = "lcs", mode = "lines", Expand, NEW e, NEW pos, Framed(e, pos),
         zchange \in [Sides -> Seq(BOOLEAN)], \A f \in Sides : Len(zchange[f]) = Len(zids[f]),
         NEW f \in Sides
  PROVE  /\ \A p \in 1 .. Len(ids[f]) : p <= zstart[f] \/ e[f] < p => change'[f][p] = change[f][p]
         /\ \A k \in 1 .. Len(zids[f]) : \A j \in 1 .. zcount[f][k] :
              change'[f][(zstart[f] + pos[f][k - 1]) + j] = zchange[f][k]
  <1> DEFINE s == zstart[f]
             x == Expanded(f)
             m == e[f] - s
             n == Len(ids[f])
  <1>1. change' = [g \in Sides |-> [p \in DOMAIN change[g] |->
                     LET z == p - zstart[g]
                     IN  change[g][p] \/ (z \in DOMAIN Expanded(g) /\ Expanded(g)[z])]]
    BY DEF Expand
  <1>2. n \in Nat /\ DOMAIN change[f] = 1 .. n /\ \A p \in 1 .. n : change[f][p] \in BOOLEAN
    <2>1. ids[f] \in Seq(Nat \ {0}) /\ Len(ids[f]) = Len(data[f])
      BY DEF Numbered
    <2>2. change[f] \in Seq(BOOLEAN) /\ Len(change[f]) = Len(data[f])
      BY DEF DiffInv, MarksOf
    <2> QED
      BY <2>1, <2>2
  <1>3. \A p \in 1 .. n : change'[f][p] = (change[f][p] \/ (p - s \in DOMAIN x /\ x[p - s]))
    <2>1. change'[f] = [p \in 1 .. n |-> change[f][p] \/ (p - s \in DOMAIN x /\ x[p - s])]
      BY <1>1, <1>2, Zenon
    <2> QED
      BY <2>1
  <1> HIDE DEF x
  <1>4. s \in Nat /\ e[f] \in Nat /\ s <= e[f] /\ e[f] <= n /\ m \in Nat
    <2>1. zstart \in Points /\ e \in Points /\ Before(zstart, e) /\ Before(e, Ends)
      BY DEF Framed
    <2>2. e[f] \in Nat /\ s \in Nat /\ e[f] <= Ends[f] /\ s <= e[f]
      BY <2>1 DEF Points, Before, Sides
    <2>3. Ends[f] = Len(data[f]) /\ Len(data[f]) = n
      BY DEF Ends, Sides, Numbered
    <2> QED
      BY <2>2, <2>3
  <1>5. /\ zcount[f] \in Seq(Nat) /\ Len(zcount[f]) = Len(zids[f])
        /\ Laid(zcount[f], pos[f], m)
    BY DEF Framed, Entries
  <1>6. Expands(x, zchange[f], zcount[f], pos[f], Len(zcount[f])) /\ Len(x) = m
    BY <1>4, <1>5, ExpandedFacts DEF x
  <1>7. DOMAIN x = 1 .. m
    BY <1>4, <1>6 DEF Expands
  <1> HIDE DEF s, m, n
  <1>8. ASSUME NEW p \in 1 .. n, p <= s \/ e[f] < p PROVE change'[f][p] = change[f][p]
    <2>1. p - s \notin 1 .. m
      BY <1>4, <1>8 DEF m
    <2>2. change[f][p] \in BOOLEAN
      BY <1>2
    <2> QED
      BY <1>3, <1>7, <2>1, <2>2, Zenon
  <1>9. ASSUME NEW k \in 1 .. Len(zids[f]), NEW j \in 1 .. zcount[f][k]
        PROVE  change'[f][(s + pos[f][k - 1]) + j] = zchange[f][k]
    <2> DEFINE q == pos[f][k - 1]
               p == (s + q) + j
    <2>1. q \in Nat /\ pos[f][k] \in Nat /\ zcount[f][k] \in Nat /\ pos[f][k] = q + zcount[f][k]
          /\ pos[f][k] <= m
      <3> DEFINE t == zcount[f]
                 y == pos[f]
      <3>1. t \in Seq(Nat) /\ m \in Nat /\ Laid(t, y, m) /\ k \in 1 .. Len(t)
        BY <1>4, <1>5
      <3> HIDE DEF t, y
      <3>2. /\ y[k - 1] \in Nat /\ y[k] \in Nat /\ t[k] \in Nat
            /\ y[k] = y[k - 1] + t[k] /\ y[k] <= m
        BY <3>1, LaidUp
      <3> QED
        BY <3>2 DEF t, y
    <2>2. p - s = q + j /\ q + j \in 1 .. m /\ p \in s + 1 .. e[f] /\ p \in 1 .. n
      <3> DEFINE c == zcount[f][k]
                 d == e[f]
                 y == pos[f][k]
      <3>1. /\ n \in Nat /\ s \in Nat /\ d \in Nat /\ d <= n /\ m = d - s /\ j \in 1 .. c
            /\ q \in Nat /\ y \in Nat /\ c \in Nat /\ y = q + c /\ y <= m
        BY <1>2, <1>4, <2>1 DEF m
      <3> HIDE DEF q, c, d, y
      <3>2. p - s = q + j /\ q + j \in 1 .. m /\ p \in s + 1 .. d /\ p \in 1 .. n
        BY ONLY <3>1
      <3> QED
        BY <3>2 DEF d
    <2>3. x[q + j] = zchange[f][k]
      BY <1>5, <1>6 DEF Expands
    <2>4. zchange[f][k] \in BOOLEAN
      BY DOMAIN zchange[f] = 1 .. Len(zids[f])
    <2>5. ~ change[f][p]
      BY <2>2 DEF Framed, s
    <2> HIDE DEF p, q
    <2>6. change'[f][p] = (change[f][p] \/ (p - s \in DOMAIN x /\ x[p - s]))
      BY <1>3, <2>2
    <2>7. change'[f][p] = zchange[f][k]
      BY <1>7, <2>2, <2>3, <2>4, <2>5, <2>6, Zenon
    <2> QED
      BY <2>7 DEF p, q
  <1> QED
    BY <1>8, <1>9 DEF s, n

\* The links of the entries, all of them by now, close the frame.
LEMMA ExpandCommon == ASSUME DiffInv, CommonInv, Expand PROVE CommonInv'
  <1>0. stage = "lcs" /\ stack = <<>> /\ stage' = "shift" /\ UNCHANGED <<mode, data, ids, zids>>
    BY DEF Expand, input
  <1>1. DiffInv' /\ MarksOf(change')
    <2>1. DiffInv'
      BY NextDiffInv DEF Next
    <2> QED
      BY <1>0, <2>1 DEF DiffInv, MarksOf
  <1>2. Solving(Signs, zids, zchange, stack, v) /\ (mode = "lines" \/ mode = "runes")
    BY <1>0 DEF CommonInv, DiffInv
  <1>3. /\ zids \in [Sides -> Seq(Signs)] /\ zchange \in [Sides -> Seq(BOOLEAN)]
        /\ \A f \in Sides : Len(zchange[f]) = Len(zids[f]) /\ Len(zids[f]) \in Nat
    BY <1>2 DEF Solving, Texts
  <1>4. Linked(zids, Marked(zchange), <<0, 0>>, <<Len(zids[1]), Len(zids[2])>>)
    <2>1. Len(stack) = 0 /\ 0 \in 0 .. Len(stack) /\ 0 + 1 = Len(stack) + 1
      BY <1>0
    <2>2. Linked(zids, Marked(zchange), From(stack, 0), To(zids, stack, 0 + 1))
      BY <1>2, <2>1 DEF Solving
    <2>3. From(stack, 0) = <<0, 0>> /\ To(zids, stack, 0 + 1) = <<Len(zids[1]), Len(zids[2])>>
      BY <2>1, Zenon DEF From, To
    <2> QED
      BY <2>2, <2>3
  <1>5. Linked(ids, Marked(change'), <<0, 0>>, Ends) /\ \A f \in Sides : Len(ids[f]) = Len(data[f])
    <2>1. CASE mode = "runes"
      <3>1. zids = data /\ ids = data /\ change' = zchange
        BY <1>0, <2>1 DEF CommonInv, DiffInv, Expand
      <3> QED
        BY <1>4, <3>1 DEF Ends
    <2>2. CASE mode = "lines"
      <3>1. Numbered /\ \E e, pos : Framed(e, pos)
        BY <1>0, <2>2 DEF CommonInv
      <3>2. PICK e, pos : Framed(e, pos)
        BY <3>1
      <3>3. AsEntries(change', pos)
        <4>1. ASSUME NEW f \in Sides
              PROVE  \A k \in 1 .. Len(zids[f]) : \A j \in 1 .. zcount[f][k] :
                        change'[f][(zstart[f] + pos[f][k - 1]) + j] = zchange[f][k]
          BY <1>0, <1>3, <2>2, <3>1, <3>2, ExpandMarks
        <4> QED
          BY <4>1 DEF AsEntries
      <3>4. Linked(ids, Marked(change'), zstart, e)
        BY <1>0, <1>1, <1>3, <1>4, <3>1, <3>2, <3>3, ExpandedLinked
      <3>5. /\ zstart \in Points /\ e \in Points /\ Before(zstart, e) /\ Before(e, Ends)
            /\ Linked(ids, Marked(change), <<0, 0>>, zstart)
            /\ Linked(ids, Marked(change), e, Ends)
            /\ Ends \in Points /\ <<0, 0>> \in Points /\ Before(<<0, 0>>, zstart)
        <4>1. Len(data[1]) \in Nat /\ Len(data[2]) \in Nat
          BY DEF DiffInv, Sides
        <4>2. Ends \in Points /\ <<0, 0>> \in Points
          BY <4>1 DEF Points, Ends
        <4>3. zstart \in Points => Before(<<0, 0>>, zstart)
          BY DEF Points, Before
        <4> QED
          BY <3>2, <4>2, <4>3 DEF Framed
      <3>6. \A f \in Sides : \A p \in 1 .. Len(data[f]) : p <= zstart[f] \/ e[f] < p =>
               (p \in Marked(change)[f] <=> p \in Marked(change')[f])
        <4> SUFFICES ASSUME NEW f \in Sides, NEW p \in 1 .. Len(data[f]), p <= zstart[f] \/ e[f] < p
                     PROVE  p \in Marked(change)[f] <=> p \in Marked(change')[f]
          OBVIOUS
        <4>1. DOMAIN change[f] = 1 .. Len(data[f]) /\ DOMAIN change'[f] = 1 .. Len(data[f])
          <5>1. MarksOf(change)
            BY DEF DiffInv
          <5>2. change[f] \in Seq(BOOLEAN) /\ Len(change[f]) = Len(data[f])
                /\ change'[f] \in Seq(BOOLEAN) /\ Len(change'[f]) = Len(data[f])
            BY <1>1, <5>1 DEF MarksOf
          <5> QED
            BY <5>2
        <4>2. Len(ids[f]) = Len(data[f])
          BY <3>1 DEF Numbered
        <4>3. change'[f][p] = change[f][p]
          <5>1. \A q \in 1 .. Len(ids[f]) : q <= zstart[f] \/ e[f] < q => change'[f][q] = change[f][q]
            BY <1>0, <1>3, <2>2, <3>1, <3>2, ExpandMarks
          <5> QED
            BY <4>2, <5>1
        <4>4. Marked(change)[f] = {q \in DOMAIN change[f] : change[f][q]}
              /\ Marked(change')[f] = {q \in DOMAIN change'[f] : change'[f][q]}
          BY DEF Marked
        <4> QED
          BY <4>1, <4>3, <4>4, Zenon
      <3>7. SameMarks(Marked(change), Marked(change'), <<0, 0>>, zstart)
            /\ SameMarks(Marked(change), Marked(change'), e, Ends)
        <4>1. /\ zstart[1] \in Nat /\ zstart[2] \in Nat /\ e[1] \in Nat /\ e[2] \in Nat
              /\ zstart[1] <= Len(data[1]) /\ zstart[2] <= Len(data[2])
              /\ Len(data[1]) \in Nat /\ Len(data[2]) \in Nat
          <5>1. /\ zstart[1] \in Nat /\ zstart[2] \in Nat /\ e[1] \in Nat /\ e[2] \in Nat
                /\ zstart[1] <= e[1] /\ zstart[2] <= e[2] /\ e[1] <= Ends[1] /\ e[2] <= Ends[2]
            BY <3>5 DEF Points, Before
          <5>2. Ends[1] = Len(data[1]) /\ Ends[2] = Len(data[2])
            BY DEF Ends
          <5>3. Len(data[1]) \in Nat /\ Len(data[2]) \in Nat
            BY DEF DiffInv, Sides
          <5> QED
            BY <5>1, <5>2, <5>3
        <4>2. \A a, b \in Nat : /\ \A p \in 0 + 1 .. a : a <= b => p \in 1 .. b /\ p <= a
                                /\ \A p \in a + 1 .. b : p \in 1 .. b /\ a < p
          OBVIOUS
        <4>3. <<0, 0>>[1] = 0 /\ <<0, 0>>[2] = 0 /\ Ends[1] = Len(data[1]) /\ Ends[2] = Len(data[2])
              /\ 1 \in Sides /\ 2 \in Sides
          BY DEF Ends, Sides
        <4>4. \A p \in 0 + 1 .. zstart[1] : p \in 1 .. Len(data[1]) /\ p <= zstart[1]
          BY <4>1, <4>2
        <4>5. \A p \in 0 + 1 .. zstart[2] : p \in 1 .. Len(data[2]) /\ p <= zstart[2]
          BY <4>1, <4>2
        <4>6. \A p \in e[1] + 1 .. Len(data[1]) : p \in 1 .. Len(data[1]) /\ e[1] < p
          BY <4>1, <4>2
        <4>7. \A p \in e[2] + 1 .. Len(data[2]) : p \in 1 .. Len(data[2]) /\ e[2] < p
          BY <4>1, <4>2
        <4>8. SameMarks(Marked(change), Marked(change'), <<0, 0>>, zstart)
          BY <3>6, <4>3, <4>4, <4>5, Zenon DEF SameMarks
        <4>9. SameMarks(Marked(change), Marked(change'), e, Ends)
          BY <3>6, <4>3, <4>6, <4>7, Zenon DEF SameMarks
        <4> QED
          BY <4>8, <4>9
      <3>8. Linked(ids, Marked(change'), <<0, 0>>, zstart)
        BY <3>5, <3>7, LinkedStays
      <3>9. Linked(ids, Marked(change'), e, Ends)
        BY <3>5, <3>7, LinkedStays
      <3>10. Linked(ids, Marked(change'), <<0, 0>>, Ends)
        BY <3>4, <3>8, <3>9, LinkedTo
      <3> QED
        BY <3>1, <3>10 DEF Numbered
    <2> QED
      BY <1>2, <2>1, <2>2
  <1>6. KeptText(data[1], change'[1]) = KeptText(data[2], change'[2])
    BY <1>0, <1>1, <1>5, LinkedKept
  <1>7. KeepsCommonText'
    BY <1>0, <1>6 DEF KeepsCommonText, KeptOf
  <1> QED
    BY <1>0, <1>7 DEF CommonInv

(***************************************************************************)
(* The search for a middle snake. It goes on from both ends of two texts,  *)
(* distance by distance, and must find a snake within both texts before    *)
(* the distance is as large as both are long, though its loops do not stop *)
(* at the ends of the texts.                                               *)
(***************************************************************************)

\* A layer g of a search over a text of N items and one of M holds how far it has
\* come at distance d, as a position in the first text, on the diagonals 2i - d for
\* i from 0 to d.  The next layer starts from the better of two neighbours, a step
\* along either text, ...
Start(d, g, i) == IF i = 0 THEN g[0]
                  ELSE IF i = d \/ g[i - 1] >= g[i] THEN g[i - 1] + 1 ELSE g[i]

\* ... and may go on along the diagonal within both.
Ahead(N, M, d, g0, g1) ==
    \A i \in 0 .. d :
        /\ Start(d, g0, i) <= g1[i]
        /\ g1[i] = Start(d, g0, i) \/ (g1[i] <= N /\ g1[i] - 2 * i + d <= M)

\* d steps have been made.
Reached(d, g) == \A i \in 0 .. d : i <= g[i]

\* On the diagonals up to 2h + d the layer ends before the text does; beyond them it
\* may be out of range, the more so the further the diagonal is, and then the one
\* below it is hardly less.
Upper(N, h, d, g) ==
    /\ \A i \in 0 .. d : i <= h + d => g[i] < N
    /\ \A i \in 0 .. d : i > h + d => g[i] <= N + (i - h - d - 1)
    /\ g[0] <= N
    /\ \A i \in 1 .. d : g[i] > N => g[i - 1] >= g[i] - 1

\* So the next layer starts in range where this one ended before the text.
LEMMA UpperStart ==
  ASSUME NEW N \in Nat, NEW h \in Int, NEW d \in Nat \ {0}, NEW g \in [0 .. d - 1 -> Int],
         Upper(N, h, d - 1, g), NEW i \in 0 .. d, i <= h + d
  PROVE  Start(d, g, i) <= N
  <1>1. CASE i = 0
    BY <1>1 DEF Start, Upper
  <1>2. CASE i # 0
    <2>1. i - 1 \in 0 .. d - 1 /\ i - 1 <= h + (d - 1)
      BY <1>2
    <2>2. g[i - 1] < N /\ g[i - 1] \in Int
      BY <2>1 DEF Upper
    <2>3. CASE i = d \/ g[i - 1] >= g[i]
      BY <1>2, <2>2, <2>3 DEF Start
    <2>4. CASE ~ (i = d \/ g[i - 1] >= g[i])
      <3>1. i \in 0 .. d - 1 /\ g[i] \in Int
        BY <2>4
      <3>2. g[i] <= N
        <4>1. CASE i <= h + (d - 1)
          BY <3>1, <4>1 DEF Upper
        <4>2. CASE i > h + (d - 1)
          <5>1. g[i] <= N + (i - h - (d - 1) - 1)
            BY <3>1, <4>2 DEF Upper
          <5> QED
            BY <3>1, <4>2, <5>1
        <4> QED
          BY <4>1, <4>2
      <3> QED
        BY <1>2, <2>4, <3>2 DEF Start
    <2> QED
      BY <2>3, <2>4
  <1> QED
    BY <1>1, <1>2

\* A start is one of the two neighbours, and not behind either.
LEMMA StartFacts ==
  ASSUME NEW d \in Nat \ {0}, NEW g \in [0 .. d - 1 -> Int], NEW i \in 0 .. d
  PROVE  /\ Start(d, g, i) \in Int
         /\ i <= d - 1 => g[i] <= Start(d, g, i)
         /\ i >= 1 => g[i - 1] + 1 <= Start(d, g, i)
         /\ \/ i >= 1 /\ Start(d, g, i) = g[i - 1] + 1
            \/ i <= d - 1 /\ Start(d, g, i) = g[i]
  <1>1. (i <= d - 1 => g[i] \in Int) /\ (i >= 1 => g[i - 1] \in Int)
    OBVIOUS
  <1> QED
    BY <1>1 DEF Start

\* If the next layer too ends before the text there, so it is with it.
LEMMA UpperNext ==
  ASSUME NEW N \in Nat, NEW M \in Nat, NEW h \in Int, NEW d \in Nat \ {0},
         NEW g \in [0 .. d - 1 -> Int], NEW g1 \in [0 .. d -> Int],
         Upper(N, h, d - 1, g), Ahead(N, M, d, g, g1),
         \A i \in 0 .. d : i <= h + d => g1[i] < N
  PROVE  Upper(N, h, d, g1)
  <1> DEFINE T == {i \in 0 .. d - 1 : i >= h + d => g[i] <= N + (i - h - d - 1)}
  <1>1. /\ \A i \in 0 .. d - 1 : g[i] \in Int
        /\ \A i \in 0 .. d : g1[i] \in Int /\ Start(d, g, i) \in Int
    BY StartFacts
  <1>2. \A i \in 0 .. d - 1 : g[i] <= g1[i]
    <2> SUFFICES ASSUME NEW i \in 0 .. d - 1 PROVE g[i] <= g1[i]
      OBVIOUS
    <2>1. i \in 0 .. d /\ i <= d - 1
      OBVIOUS
    <2>2. g[i] <= Start(d, g, i) /\ Start(d, g, i) <= g1[i]
      BY <2>1, StartFacts DEF Ahead
    <2> QED
      BY <1>1, <2>1, <2>2
  <1>3. ASSUME NEW i \in 0 .. d - 1, i = h + d PROVE g[i] < N
    <2>1. g[i] <= g1[i] /\ g1[i] < N
      BY <1>2, <1>3
    <2> QED
      BY <1>1, <2>1
  <1>4. 0 \in T
    <2>1. g[0] <= N /\ 0 \in 0 .. d - 1
      BY DEF Upper
    <2>2. CASE h + d = 0
      BY <1>1, <1>3, <2>1, <2>2
    <2>3. CASE h + d # 0
      BY <1>1, <2>1, <2>3
    <2> QED
      BY <2>2, <2>3
  <1>5. ASSUME NEW i \in 0 .. d - 2, i \in T PROVE i + 1 \in T
    <2>0. i + 1 \in 0 .. d - 1 /\ i + 1 \in 1 .. d - 1 /\ (i + 1) - 1 = i /\ i \in 0 .. d - 1
      OBVIOUS
    <2>1. g[i + 1] > N => g[i] >= g[i + 1] - 1
      BY <2>0 DEF Upper
    <2>2. g[i] \in Int /\ g[i + 1] \in Int
      BY <1>1, <2>0
    <2>3. i >= h + d => g[i] <= N + (i - h - d - 1)
      BY <1>5
    <2>4. CASE i + 1 = h + d
      BY <1>3, <2>0, <2>2, <2>4
    <2>5. CASE i >= h + d
      <3> DEFINE x == g[i]
                 y == g[i + 1]
                 c == i - h - d
      <3>1. /\ x \in Int /\ y \in Int /\ c \in Nat /\ N \in Nat
            /\ y > N => x >= y - 1
            /\ x <= N + (c - 1)
        BY <2>1, <2>2, <2>3, <2>5
      <3> HIDE DEF x, y, c
      <3>2. y <= N + c
        BY ONLY <3>1
      <3>3. (i + 1) - h - d - 1 = c
        BY DEF c
      <3> QED
        BY <2>0, <3>2, <3>3 DEF y
    <2> QED
      BY <2>0, <2>4, <2>5
  <1> HIDE DEF T
  <1>6. \A i \in 0 .. d - 1 : i \in T
    <2>1. d - 1 \in Nat /\ (d - 1) - 1 = d - 2
      OBVIOUS
    <2> DEFINE n == d - 1
    <2>2. \A i \in 0 .. n - 1 : i \in T => i + 1 \in T
      BY <1>5, <2>1
    <2> HIDE DEF n
    <2>3. n \in Nat
      BY <2>1 DEF n
    <2>4. \A i \in 0 .. n : i \in T
      BY ONLY <1>4, <2>2, <2>3, Induction
    <2> QED
      BY <2>4 DEF n
  <1>7. \A i \in 0 .. d - 1 : i >= h + d => g[i] <= N + (i - h - d - 1)
    BY <1>6 DEF T
  <1>8. ASSUME NEW i \in 0 .. d, i > h + d PROVE g1[i] <= N + (i - h - d - 1)
    <2>1. g1[i] = Start(d, g, i) \/ g1[i] <= N
      BY DEF Ahead
    <2>2. CASE i >= 1 /\ Start(d, g, i) = g[i - 1] + 1
      <3>1. i - 1 \in 0 .. d - 1 /\ i - 1 >= h + d
        BY <1>8, <2>2
      <3>2. g[i - 1] <= N + ((i - 1) - h - d - 1) /\ g[i - 1] \in Int
        BY <1>1, <1>7, <3>1
      <3>3. N + ((i - 1) - h - d - 1) + 1 = N + (i - h - d - 1) /\ N <= N + (i - h - d - 1)
        BY <1>8
      <3>4. g[i - 1] + 1 <= N + (i - h - d - 1)
        <4> DEFINE y == g[i - 1]
                   c == N + ((i - 1) - h - d - 1)
        <4>1. y \in Int /\ c \in Int /\ y <= c
          BY <3>2
        <4> HIDE DEF y, c
        <4>2. y + 1 <= c + 1
          BY ONLY <4>1
        <4> QED
          BY <3>3, <4>2 DEF y, c
      <3>5. g1[i] = g[i - 1] + 1 \/ g1[i] <= N
        BY <2>1, <2>2
      <3>6. g1[i] \in Int /\ N + (i - h - d - 1) \in Int
        BY <1>1
      <3> QED
        BY ONLY <3>2, <3>3, <3>4, <3>5, <3>6, N \in Nat
    <2>3. CASE i <= d - 1 /\ Start(d, g, i) = g[i]
      <3>1. g[i] <= N + (i - h - d - 1) /\ g[i] \in Int
        BY <1>1, <1>7, <1>8, <2>3
      <3> DEFINE x == g1[i]
                 y == g[i]
                 c == i - h - d - 1
      <3>2. /\ x \in Int /\ y \in Int /\ c \in Nat /\ N \in Nat
            /\ y <= N + c /\ (x = y \/ x <= N)
        BY <1>1, <1>8, <2>1, <2>3, <3>1
      <3> HIDE DEF x, y, c
      <3>3. x <= N + c
        BY ONLY <3>2
      <3> QED
        BY <3>3 DEF x, c
    <2> QED
      BY <2>2, <2>3, StartFacts
  <1>9. g1[0] <= N
    <2>1. g[0] <= N /\ Start(d, g, 0) = g[0] /\ 0 \in 0 .. d
      BY DEF Upper, Start
    <2> QED
      BY <2>1 DEF Ahead
  <1>10. ASSUME NEW i \in 1 .. d, g1[i] > N PROVE g1[i - 1] >= g1[i] - 1
    <2>0. i \in 0 .. d /\ i - 1 \in 0 .. d - 1 /\ g1[i] \in Int /\ g1[i - 1] \in Int
          /\ g[i - 1] \in Int /\ g[i - 1] <= g1[i - 1]
      BY <1>1, <1>2
    <2>1. g1[i] = Start(d, g, i)
      BY <1>10, <2>0 DEF Ahead
    <2>2. CASE Start(d, g, i) = g[i - 1] + 1
      BY <2>0, <2>1, <2>2
    <2>3. CASE i <= d - 1 /\ Start(d, g, i) = g[i]
      <3>1. i \in 1 .. d - 1 /\ g[i] > N /\ g[i] \in Int
        BY <1>1, <1>10, <2>1, <2>3
      <3>2. g[i - 1] >= g[i] - 1
        BY <3>1 DEF Upper
      <3> DEFINE x == g[i - 1]
                 y == g[i]
                 x1 == g1[i - 1]
                 y1 == g1[i]
      <3>3. /\ x \in Int /\ y \in Int /\ x1 \in Int /\ y1 \in Int
            /\ x >= y - 1 /\ x <= x1 /\ y1 = y
        BY <2>0, <2>1, <2>3, <3>1, <3>2
      <3> HIDE DEF x, y, x1, y1
      <3>4. x1 >= y1 - 1
        BY ONLY <3>3
      <3> QED
        BY <3>4 DEF x1, y1
    <2> QED
      BY <2>0, <2>2, <2>3, StartFacts
  <1> QED
    BY <1>8, <1>9, <1>10 DEF Upper

\* What is out of range is so by one more than before at most.
LEMMA UpperOver ==
  ASSUME NEW N \in Nat, NEW M \in Nat, NEW h \in Int, NEW d \in Nat \ {0},
         NEW g \in [0 .. d - 1 -> Int], NEW g1 \in [0 .. d -> Int],
         Upper(N, h, d - 1, g), Ahead(N, M, d, g, g1),
         NEW i \in 0 .. d, i > h + d
  PROVE  g1[i] <= N + (i - h - d)
  <1>0. g1[i] \in Int /\ Start(d, g, i) \in Int /\ N <= N + (i - h - d)
    BY StartFacts
  <1>1. g1[i] = Start(d, g, i) \/ g1[i] <= N
    BY DEF Ahead
  <1>2. CASE i >= 1 /\ Start(d, g, i) = g[i - 1] + 1
    <2>1. i - 1 \in 0 .. d - 1 /\ i - 1 > h + (d - 1)
      BY <1>2
    <2>2. g[i - 1] <= N + ((i - 1) - h - (d - 1) - 1) /\ g[i - 1] \in Int
      BY <2>1 DEF Upper
    <2>3. N + ((i - 1) - h - (d - 1) - 1) + 1 = N + (i - h - d)
      OBVIOUS
    <2>4. g[i - 1] + 1 <= N + (i - h - d)
      <3> DEFINE y == g[i - 1]
                 c == N + ((i - 1) - h - (d - 1) - 1)
      <3>1. y \in Int /\ c \in Int /\ y <= c
        BY <2>2
      <3> HIDE DEF y, c
      <3>2. y + 1 <= c + 1
        BY ONLY <3>1
      <3> QED
        BY <2>3, <3>2 DEF y, c
    <2>5. g1[i] = g[i - 1] + 1 \/ g1[i] <= N
      BY <1>1, <1>2
    <2> DEFINE x == g1[i]
               y == g[i - 1]
               c == N + (i - h - d)
    <2>6. x \in Int /\ y \in Int /\ c \in Int /\ N \in Nat /\ N <= c /\ y + 1 <= c /\ (x = y + 1 \/ x <= N)
      BY <1>0, <2>2, <2>4, <2>5
    <2> HIDE DEF x, y, c
    <2>7. x <= c
      BY ONLY <2>6
    <2> QED
      BY <2>7 DEF x, c
  <1>3. CASE i <= d - 1 /\ Start(d, g, i) = g[i]
    <2>1. i \in 0 .. d - 1 /\ i > h + (d - 1)
      BY <1>3
    <2>2. g[i] <= N + (i - h - (d - 1) - 1) /\ g[i] \in Int
      BY <2>1 DEF Upper
    <2>3. N + (i - h - (d - 1) - 1) = N + (i - h - d)
      OBVIOUS
    <2> QED
      BY <1>0, <1>1, <1>3, <2>2, <2>3
  <1> QED
    BY <1>2, <1>3, StartFacts

\* The same layer with the two texts exchanged.
Turned(d, g) == [j \in 0 .. d |-> g[d - j] - 2 * (d - j) + d]

\* The texts exchanged, a layer starts where it did, counted along the other text,
LEMMA TurnedStart ==
  ASSUME NEW d \in Nat \ {0}, NEW g \in [0 .. d - 1 -> Int], NEW j \in 0 .. d
  PROVE  Start(d, Turned(d - 1, g), j) = Start(d, g, d - j) - 2 * (d - j) + d
  <1> DEFINE i == d - j
             t == Turned(d - 1, g)
  <1>0. i \in 0 .. d /\ j = d - i
    OBVIOUS
  <1>1. ASSUME j >= 1 PROVE i \in 0 .. d - 1 /\ t[j - 1] = g[i] - 2 * i + d - 1 /\ g[i] \in Int
    <2>1. j - 1 \in 0 .. d - 1 /\ (d - 1) - (j - 1) = i /\ i \in 0 .. d - 1
      BY <1>0, <1>1
    <2>2. t[j - 1] = g[i] - 2 * i + (d - 1)
      BY <2>1 DEF Turned
    <2>3. g[i] \in Int
      BY <2>1
    <2> HIDE DEF i, t
    <2> QED
      BY <2>1, <2>2, <2>3
  <1>2. ASSUME j <= d - 1
        PROVE  i - 1 \in 0 .. d - 1 /\ t[j] = g[i - 1] - 2 * i + d + 1 /\ g[i - 1] \in Int
    <2>1. j \in 0 .. d - 1 /\ (d - 1) - j = i - 1 /\ i - 1 \in 0 .. d - 1
      BY <1>0, <1>2
    <2>2. t[j] = g[i - 1] - 2 * (i - 1) + (d - 1)
      BY <2>1 DEF Turned
    <2>3. g[i - 1] \in Int
      BY <2>1
    <2>4. i \in Int
      BY <1>0
    <2> HIDE DEF i, t
    <2> QED
      BY <2>1, <2>2, <2>3, <2>4
  <1> HIDE DEF i, t
  <1>3. Start(d, t, j) = Start(d, g, i) - 2 * i + d
    <2>1. CASE j = 0
      BY <1>0, <1>2, <2>1 DEF Start
    <2>2. CASE j = d
      BY <1>0, <1>1, <2>2 DEF Start
    <2>3. CASE j # 0 /\ j # d
      <3>1. /\ j >= 1 /\ j <= d - 1 /\ i # 0 /\ i # d
            /\ t[j - 1] = g[i] - 2 * i + d - 1 /\ g[i] \in Int
            /\ t[j] = g[i - 1] - 2 * i + d + 1 /\ g[i - 1] \in Int
        BY <1>0, <1>1, <1>2, <2>3
      <3>2. Start(d, t, j) = IF t[j - 1] >= t[j] THEN t[j - 1] + 1 ELSE t[j]
        BY <2>3 DEF Start
      <3>3. Start(d, g, i) = IF g[i - 1] >= g[i] THEN g[i - 1] + 1 ELSE g[i]
        BY <3>1 DEF Start
      <3>4. i \in Int /\ d \in Int
        BY <1>0
      <3> DEFINE x == g[i]
                 y == g[i - 1]
                 p == t[j - 1]
                 q == t[j]
      <3>5. p = x - 2 * i + d - 1 /\ x \in Int /\ q = y - 2 * i + d + 1 /\ y \in Int
        BY <3>1
      <3> HIDE DEF x, y, p, q
      <3>6. (IF p >= q THEN p + 1 ELSE q) = (IF y >= x THEN y + 1 ELSE x) - 2 * i + d
        BY ONLY <3>4, <3>5
      <3> QED
        BY <3>2, <3>3, <3>6 DEF x, y, p, q
    <2> QED
      BY <2>1, <2>2, <2>3
  <1> QED
    BY <1>3 DEF i, t

\* ... and goes on as it did.
LEMMA TurnedAhead ==
  ASSUME NEW N \in Nat, NEW M \in Nat, NEW d \in Nat \ {0},
         NEW g \in [0 .. d - 1 -> Int], NEW g1 \in [0 .. d -> Int], Ahead(N, M, d, g, g1)
  PROVE  /\ Turned(d - 1, g) \in [0 .. d - 1 -> Int]
         /\ Turned(d, g1) \in [0 .. d -> Int]
         /\ Ahead(M, N, d, Turned(d - 1, g), Turned(d, g1))
  <1>1. Turned(d - 1, g) \in [0 .. d - 1 -> Int]
    <2>1. \A j \in 0 .. d - 1 : (d - 1) - j \in 0 .. d - 1
      OBVIOUS
    <2> QED
      BY <2>1 DEF Turned
  <1>2. \A j \in 0 .. d : d - j \in 0 .. d
    OBVIOUS
  <1>3. Turned(d, g1) \in [0 .. d -> Int]
    BY <1>2 DEF Turned
  <1>4. ASSUME NEW j \in 0 .. d
        PROVE  /\ Start(d, Turned(d - 1, g), j) <= Turned(d, g1)[j]
               /\ \/ Turned(d, g1)[j] = Start(d, Turned(d - 1, g), j)
                  \/ Turned(d, g1)[j] <= M /\ Turned(d, g1)[j] - 2 * j + d <= N
    <2> DEFINE i == d - j
    <2>1. i \in 0 .. d /\ j = d - i
      OBVIOUS
    <2>2. Turned(d, g1)[j] = g1[i] - 2 * i + d
      BY DEF Turned
    <2>3. Start(d, Turned(d - 1, g), j) = Start(d, g, i) - 2 * i + d
      BY TurnedStart
    <2>4. /\ Start(d, g, i) <= g1[i]
          /\ g1[i] = Start(d, g, i) \/ (g1[i] <= N /\ g1[i] - 2 * i + d <= M)
      BY <2>1 DEF Ahead
    <2>5. Start(d, g, i) \in Int /\ g1[i] \in Int
      BY <2>1, StartFacts
    <2> DEFINE x == g1[i]
               y == Start(d, g, i)
               x1 == Turned(d, g1)[j]
               y1 == Start(d, Turned(d - 1, g), j)
    <2> HIDE DEF i
    <2>6. /\ i \in Int /\ j \in Int /\ j = d - i /\ d \in Nat /\ N \in Nat /\ M \in Nat
          /\ x \in Int /\ y \in Int /\ y <= x /\ (x = y \/ (x <= N /\ x - 2 * i + d <= M))
          /\ x1 = x - 2 * i + d /\ y1 = y - 2 * i + d
      BY <2>1, <2>2, <2>3, <2>4, <2>5
    <2> HIDE DEF x, y, x1, y1
    <2>7. y1 <= x1 /\ (x1 = y1 \/ (x1 <= M /\ x1 - 2 * j + d <= N))
      BY ONLY <2>6
    <2> QED
      BY <2>7 DEF x1, y1
  <1> QED
    BY <1>1, <1>3, <1>4 DEF Ahead

\* A layer that met nothing where it was compared with the other search, on the
\* diagonals from 2l - d to 2h + d.
Within(N, M, h, l, d, g) == Upper(N, h, d, g) /\ Upper(M, -l, d, Turned(d, g))

\* h and l round half of the difference of the lengths down and up.
Halves(N, M, h, l) == h \in Int /\ l \in Int /\ h + l = N - M /\ h <= l /\ l <= h + 1

\* The layer of distance 0 has met nothing.
LEMMA WithinFirst ==
  ASSUME NEW N \in Nat \ {0}, NEW M \in Nat \ {0}, NEW h, NEW l, Halves(N, M, h, l),
         NEW g \in [0 .. 0 -> Int], g[0] = 0
  PROVE  Within(N, M, h, l, 0, g)
  <1>1. h \in Int /\ l \in Int /\ h + l = N - M /\ h <= l /\ l <= h + 1
    BY DEF Halves
  <1>2. Turned(0, g)[0] = 0
    <2>1. 0 - 0 = 0 /\ 0 - 2 * 0 + 0 = 0 /\ 0 \in 0 .. 0
      OBVIOUS
    <2>2. Turned(0, g)[0] = g[0 - 0] - 2 * (0 - 0) + 0
      BY <2>1 DEF Turned
    <2> QED
      BY <2>1, <2>2
  <1>3. (0 > h => -h - 1 >= 0) /\ (0 > -l => l - 1 >= 0)
    BY <1>1
  <1>4. Upper(N, h, 0, g)
    BY <1>1, <1>3 DEF Upper
  <1> DEFINE t == Turned(0, g)
  <1> HIDE DEF t
  <1>5. t[0] = 0
    BY <1>2 DEF t
  <1>6. Upper(M, -l, 0, t)
    <2> DEFINE k == -l
    <2>1. k \in Int /\ (0 > k => -k - 1 >= 0)
      BY <1>1, <1>3
    <2> HIDE DEF k
    <2>2. Upper(M, k, 0, t)
      BY <1>5, <2>1 DEF Upper
    <2> QED
      BY <2>2 DEF k
  <1> QED
    BY <1>4, <1>6 DEF Within, t

\* On those diagonals the next layer starts in range of both texts.
LEMMA WithinStart ==
  ASSUME NEW N \in Nat, NEW M \in Nat, NEW h \in Int, NEW l \in Int, NEW d \in Nat \ {0},
         NEW g \in [0 .. d - 1 -> Int], Within(N, M, h, l, d - 1, g),
         NEW i \in 0 .. d, l <= i, i <= h + d
  PROVE  Start(d, g, i) <= N /\ Start(d, g, i) - 2 * i + d <= M
  <1>1. Start(d, g, i) <= N
    BY UpperStart DEF Within
  <1> DEFINE j == d - i
             k == -l
             t == Turned(d - 1, g)
  <1>2. j \in 0 .. d /\ i = d - j /\ k \in Int /\ j <= k + d
    OBVIOUS
  <1>3. Start(d, t, j) = Start(d, g, d - j) - 2 * (d - j) + d
    BY <1>2, TurnedStart
  <1>4. t \in [0 .. d - 1 -> Int]
    <2>1. \A q \in 0 .. d - 1 : (d - 1) - q \in 0 .. d - 1
      OBVIOUS
    <2> QED
      BY <2>1 DEF Turned
  <1>5. Upper(M, k, d - 1, t)
    BY DEF Within
  <1> HIDE DEF j, k, t
  <1>6. Start(d, t, j) <= M
    BY <1>2, <1>4, <1>5, UpperStart
  <1> QED
    BY <1>1, <1>2, <1>3, <1>6

\* And if it meets nothing there either, it is such a layer again.
LEMMA WithinNext ==
  ASSUME NEW N \in Nat, NEW M \in Nat, NEW h, NEW l, Halves(N, M, h, l),
         NEW d \in Nat \ {0}, NEW g \in [0 .. d - 1 -> Int], NEW g1 \in [0 .. d -> Int],
         Within(N, M, h, l, d - 1, g), Ahead(N, M, d, g, g1),
         \A i \in 0 .. d : l <= i /\ i <= h + d => g1[i] < N /\ g1[i] - 2 * i + d < M
  PROVE  Within(N, M, h, l, d, g1)
  <1>0. h \in Int /\ l \in Int /\ h + l = N - M /\ h <= l /\ l <= h + 1
    BY DEF Halves
  <1> DEFINE k == -l
             t == Turned(d - 1, g)
             t1 == Turned(d, g1)
  <1>1. t \in [0 .. d - 1 -> Int] /\ t1 \in [0 .. d -> Int] /\ Ahead(M, N, d, t, t1)
    BY TurnedAhead
  <1>2. Upper(N, h, d - 1, g) /\ Upper(M, k, d - 1, t)
    BY DEF Within
  <1>3. \A j \in 0 .. d : t1[j] = g1[d - j] - 2 * (d - j) + d /\ d - j \in 0 .. d
    BY DEF Turned
  <1>4. k \in Int /\ k + l = 0
    BY <1>0
  <1> HIDE DEF k, t, t1
  <1>5. \A i \in 0 .. d : i <= h + d => g1[i] < N
    <2> SUFFICES ASSUME NEW i \in 0 .. d, i <= h + d, i < l PROVE g1[i] < N
      BY <1>0
    <2> DEFINE j == d - i
    <2>1. j \in 0 .. d /\ j > k + d /\ d - j = i
      BY <1>0, <1>4
    <2> HIDE DEF j
    <2>2. t1[j] <= M + (j - k - d)
      BY <1>1, <1>2, <1>4, <2>1, UpperOver
    <2>3. t1[j] = g1[i] - 2 * i + d /\ g1[i] \in Int
      BY <1>3, <2>1
    <2>4. M + (j - k - d) = M + l - i
      BY <1>0, <1>4, <2>1
    <2> DEFINE x == g1[i]
               y == t1[j]
    <2>5. /\ x \in Int /\ y = x - 2 * i + d /\ y <= M + l - i /\ i < l /\ i \in Int /\ d \in Nat
          /\ i <= h + d /\ N \in Nat /\ M \in Nat
      BY <2>2, <2>3, <2>4
    <2> HIDE DEF x, y
    <2>6. x < N
      BY ONLY <1>0, <2>5
    <2> QED
      BY <2>6 DEF x
  <1>6. \A j \in 0 .. d : j <= k + d => t1[j] < M
    <2> SUFFICES ASSUME NEW j \in 0 .. d, j <= k + d PROVE t1[j] < M
      OBVIOUS
    <2> DEFINE i == d - j
    <2>1. i \in 0 .. d /\ l <= i
      BY <1>0, <1>4
    <2>2. t1[j] = g1[i] - 2 * i + d /\ g1[i] \in Int
      BY <1>3, <2>1
    <2> HIDE DEF i
    <2>3. CASE i <= h + d
      BY <2>1, <2>2, <2>3
    <2>4. CASE i > h + d
      <3>1. g1[i] <= N + (i - h - d)
        BY <1>0, <1>2, <2>1, <2>4, UpperOver
      <3> DEFINE x == g1[i]
                 y == t1[j]
      <3>2. /\ x \in Int /\ y = x - 2 * i + d /\ x <= N + (i - h - d) /\ i > h + d
            /\ i \in Int /\ d \in Nat /\ N \in Nat /\ M \in Nat /\ l <= i
        BY <2>1, <2>2, <2>4, <3>1
      <3> HIDE DEF x, y
      <3>3. y < M
        BY ONLY <1>0, <3>2
      <3> QED
        BY <3>3 DEF y
    <2> QED
      BY <1>0, <2>1, <2>3, <2>4
  <1>7. Upper(N, h, d, g1)
    BY <1>0, <1>2, <1>5, UpperNext
  <1>8. Upper(M, k, d, t1)
    BY <1>1, <1>2, <1>4, <1>6, UpperNext
  <1>9. k = -l /\ t1 = Turned(d, g1)
    BY DEF k, t1
  <1> QED
    BY ONLY <1>7, <1>8, <1>9 DEF Within

\* Every step of distance is one along a text.
LEMMA ReachedNext ==
  ASSUME NEW N \in Nat, NEW M \in Nat, NEW d \in Nat \ {0},
         NEW g \in [0 .. d - 1 -> Int], NEW g1 \in [0 .. d -> Int],
         Reached(d - 1, g), Ahead(N, M, d, g, g1)
  PROVE  Reached(d, g1)
  <1> SUFFICES ASSUME NEW i \in 0 .. d PROVE i <= g1[i]
    BY DEF Reached
  <1>1. Start(d, g, i) <= g1[i] /\ g1[i] \in Int /\ Start(d, g, i) \in Int
    BY StartFacts DEF Ahead
  <1>2. CASE i >= 1 /\ Start(d, g, i) = g[i - 1] + 1
    <2>1. i - 1 \in 0 .. d - 1
      BY <1>2
    <2>2. i - 1 <= g[i - 1] /\ g[i - 1] \in Int
      BY <2>1 DEF Reached
    <2> DEFINE x == Start(d, g, i)
               y == g[i - 1]
               z == g1[i]
    <2>3. x <= z /\ z \in Int /\ x = y + 1 /\ i - 1 <= y /\ y \in Int /\ i \in Int
      BY <1>1, <1>2, <2>2
    <2> HIDE DEF x, y, z
    <2>4. i <= z
      BY ONLY <2>3
    <2> QED
      BY <2>4 DEF z
  <1>3. CASE i <= d - 1 /\ Start(d, g, i) = g[i]
    BY <1>1, <1>3 DEF Reached
  <1> QED
    BY <1>2, <1>3, StartFacts

\* So the distance cannot be as large as the texts are long together.
LEMMA SearchEnds ==
  ASSUME NEW N \in Nat, NEW M \in Nat, NEW h, NEW l, Halves(N, M, h, l),
         NEW d \in Nat \ {0}, N + M <= d, NEW g \in [0 .. d -> Int], Reached(d, g)
  PROVE  \E i \in 0 .. d : l <= i /\ i <= h + d /\ ~ (g[i] < N /\ g[i] - 2 * i + d < M)
  <1>0. h \in Int /\ l \in Int /\ h + l = N - M /\ h <= l /\ l <= h + 1
    BY DEF Halves
  <1>1. PICK i \in 0 .. d : l <= i /\ i <= h + d
    <2>1. CASE l >= 0
      <3>1. l \in 0 .. d /\ l <= h + d
        BY <1>0, <2>1
      <3> QED
        BY <1>0, <3>1
    <2>2. CASE l < 0
      <3>1. l <= 0 /\ 0 <= h + d /\ 0 \in 0 .. d
        BY <1>0, <2>2
      <3> WITNESS 0 \in 0 .. d
      <3> QED
        BY <3>1
    <2> QED
      BY <1>0, <2>1, <2>2
  <1>2. i <= g[i] /\ g[i] \in Int
    BY DEF Reached
  <1>3. ~ (g[i] < N /\ g[i] - 2 * i + d < M)
    BY <1>2
  <1> QED
    BY <1>1, <1>3

(***************************************************************************)
(* The array the layers of both searches are kept in, and the loops'       *)
(* states.                                                                 *)
(***************************************************************************)

\* Two stretches of items that are the same, or two equal points, within two texts.
GoodSnake(a, b, s) ==
    /\ s[1] \in Nat /\ s[2] \in Nat /\ s[3] \in Nat /\ s[4] \in Nat
    /\ s[1] <= s[3] /\ s[3] <= Len(a) /\ s[2] <= s[4] /\ s[4] <= Len(b)
    /\ s[4] - s[2] = s[3] - s[1]
    /\ \A i \in 0 .. s[3] - s[1] - 1 : At(a, s[1] + i) = At(b, s[2] + i)

\* A diagonal is followed as far as it stays within both texts.
LEMMA DownFacts ==
  ASSUME NEW S, NEW a \in Seq(S), NEW b \in Seq(S), NEW x \in Int, NEW k \in Int,
         NEW y, y = Down(a, b, x, k)
  PROVE  /\ y \in Int /\ x <= y
         /\ y = x \/ (y <= Len(a) /\ y - k <= Len(b))
         /\ \A i \in 0 .. y - x - 1 : At(a, x + i) = At(b, (x - k) + i)
  <1> DEFINE N == Len(a)
             M == Len(b)
             Ok == {i \in 0 .. N : x + i < N /\ x + i - k < M /\ At(a, x + i) = At(b, x + i - k)}
             r == Run(N, Ok)
  <1>1. N \in Nat /\ M \in Nat /\ y = x + r
    BY DEF Down
  <1>2. \A i \in Ok : x + i < N /\ x + i - k < M /\ At(a, x + i) = At(b, x + i - k)
    OBVIOUS
  <1> HIDE DEF Ok, N, M
  <1>3. r \in 0 .. N /\ 0 .. r - 1 \subseteq Ok
    BY <1>1, RunStops
  <1> HIDE DEF r
  <1>4. y \in Int /\ x <= y /\ y - x = r
    BY <1>1, <1>3
  <1>5. y = x \/ (y <= N /\ y - k <= M)
    <2>1. r # 0 => r - 1 \in Ok
      BY <1>1, <1>3
    <2>2. r # 0 => x + (r - 1) < N /\ x + (r - 1) - k < M
      BY <1>2, <2>1
    <2> QED
      BY <1>1, <1>3, <2>2
  <1>6. \A i \in 0 .. r - 1 : At(a, x + i) = At(b, (x - k) + i)
    <2> SUFFICES ASSUME NEW i \in 0 .. r - 1 PROVE At(a, x + i) = At(b, (x - k) + i)
      OBVIOUS
    <2>1. At(a, x + i) = At(b, x + i - k)
      BY <1>2, <1>3
    <2>2. x + i - k = (x - k) + i
      BY <1>3
    <2> QED
      BY <2>1, <2>2
  <1> QED
    BY <1>4, <1>5, <1>6 DEF N, M

\* And backwards likewise.
LEMMA UpFacts ==
  ASSUME NEW S, NEW a \in Seq(S), NEW b \in Seq(S), NEW x \in Int, NEW k \in Int,
         NEW y, y = Up(a, b, x, k)
  PROVE  /\ y \in Int /\ y <= x
         /\ y = x \/ (y >= 0 /\ y >= k)
         /\ \A i \in 0 .. x - y - 1 : At(a, y + i) = At(b, (y - k) + i)
  <1> DEFINE N == Len(a)
             Ok == {i \in 0 .. N : x - i > 0 /\ x - i > k /\ At(a, x - i - 1) = At(b, x - i - k - 1)}
             r == Run(N, Ok)
  <1>1. N \in Nat /\ y = x - r
    BY DEF Up
  <1>2. \A i \in Ok : x - i > 0 /\ x - i > k /\ At(a, x - i - 1) = At(b, x - i - k - 1)
    OBVIOUS
  <1> HIDE DEF Ok, N
  <1>3. r \in 0 .. N /\ 0 .. r - 1 \subseteq Ok
    BY <1>1, RunStops
  <1> HIDE DEF r
  <1>4. y \in Int /\ y <= x /\ x - y = r
    BY <1>1, <1>3
  <1>5. y = x \/ (y >= 0 /\ y >= k)
    <2>1. r # 0 => r - 1 \in Ok
      BY <1>1, <1>3
    <2>2. r # 0 => x - (r - 1) > 0 /\ x - (r - 1) > k
      BY <1>2, <2>1
    <2> QED
      BY <1>1, <1>3, <2>2
  <1>6. \A i \in 0 .. r - 1 : At(a, y + i) = At(b, (y - k) + i)
    <2> SUFFICES ASSUME NEW i \in 0 .. r - 1 PROVE At(a, y + i) = At(b, (y - k) + i)
      OBVIOUS
    <2> DEFINE j == r - 1 - i
    <2>1. j \in 0 .. r - 1
      BY <1>3
    <2>2. At(a, x - j - 1) = At(b, x - j - k - 1)
      BY <1>2, <1>3, <2>1
    <2>3. x - j - 1 = y + i /\ x - j - k - 1 = (y - k) + i
      BY <1>1, <1>3
    <2> QED
      BY <2>2, <2>3
  <1> QED
    BY <1>4, <1>5, <1>6 DEF N

-----------------------------------------------------------------------------
\* Where the searches of a and b keep their layers: how large the array is at least,
\* and what is on the middle diagonal forwards and backwards.
Far(a, b)  == Len(a) + Len(b) + 1
Room(V)    == 0 .. V
Fits(V, a, b) == V \in Nat /\ 4 * Far(a, b) + 3 <= V
HalfDown(a, b) == (Len(a) - Len(b)) \div 2
HalfUp(a, b)   == (Len(a) - Len(b)) - HalfDown(a, b)
ForeAt(a, b, d, i) == Far(a, b) + (2 * i - d)
BackAt(a, b, d, i) == (3 * Far(a, b) + 2) + (d - 2 * i)

\* The layers of distance d in the array w.
Fore(a, b, d, w) == [i \in 0 .. d |-> w[ForeAt(a, b, d, i)]]
Back(a, b, d, w) == [i \in 0 .. d |-> Len(a) - w[BackAt(a, b, d, i)]]

\* The array w when neither search has met the other within distance d.
Layered(V, a, b, d, w) ==
    /\ w \in [Room(V) -> Int]
    /\ Reached(d, Fore(a, b, d, w))
    /\ Reached(d, Back(a, b, d, w))
    /\ Within(Len(a), Len(b), HalfDown(a, b), HalfUp(a, b), d,
              IF Search(a, b).odd THEN Fore(a, b, d, w) ELSE Back(a, b, d, w))

\* And when the search forwards has gone on to distance d.
Midway(V, a, b, d, w) ==
    /\ w \in [Room(V) -> Int]
    /\ Reached(d, Fore(a, b, d, w))
    /\ Reached(d - 1, Back(a, b, d - 1, w))
    /\ IF Search(a, b).odd
       THEN Within(Len(a), Len(b), HalfDown(a, b), HalfUp(a, b), d, Fore(a, b, d, w))
       ELSE Within(Len(a), Len(b), HalfDown(a, b), HalfUp(a, b), d - 1, Back(a, b, d - 1, w))

\* How far the next layer comes on a diagonal, when it met nothing on it.
Onwards(a, b, d, g, i, x, compared) ==
    /\ Start(d, g, i) <= x
    /\ x = Start(d, g, i) \/ (x <= Len(a) /\ x - 2 * i + d <= Len(b))
    /\ compared /\ HalfUp(a, b) <= i /\ i <= HalfDown(a, b) + d =>
         x < Len(a) /\ x - 2 * i + d < Len(b)

\* The states of the search.
SearchStates(V) == [v : [Room(V) -> Int], snake : Seq(Int), z : Int]

\* The loop forwards after j turns, from the array w: the snake, or the array with
\* only the entries of those turns changed and the one before the next at hand.
ForeState(V, a, b, d, w, j, t) ==
    \/ ~ Goes(t) /\ GoodSnake(a, b, t.snake)
    \/ /\ Goes(t)
       /\ \A q \in Room(V) : (\A i \in 0 .. j - 1 : q # ForeAt(a, b, d, i)) => t.v[q] = w[q]
       /\ \A i \in 0 .. j - 1 :
            Onwards(a, b, d, Fore(a, b, d - 1, w), i, t.v[ForeAt(a, b, d, i)], Search(a, b).odd)
       /\ j \in 1 .. d => t.z = Fore(a, b, d - 1, w)[j - 1]
ForeStates(V, a, b, d, w, j) == {t \in SearchStates(V) : ForeState(V, a, b, d, w, j, t)}

\* And the loop backwards.
BackState(V, a, b, d, w, j, t) ==
    \/ ~ Goes(t) /\ GoodSnake(a, b, t.snake)
    \/ /\ Goes(t)
       /\ \A q \in Room(V) : (\A i \in 0 .. j - 1 : q # BackAt(a, b, d, d - i)) => t.v[q] = w[q]
       /\ \A i \in 0 .. j - 1 :
            Onwards(a, b, d, Back(a, b, d - 1, w), d - i,
                    Len(a) - t.v[BackAt(a, b, d, d - i)], ~ Search(a, b).odd)
       /\ j \in 1 .. d => Len(a) - t.z = Back(a, b, d - 1, w)[d - j]
BackStates(V, a, b, d, w, j) == {t \in SearchStates(V) : BackState(V, a, b, d, w, j, t)}

\* Which diagonals of the one search are the other's: those whose parity is that of
\* the difference of the lengths.
LEMMA HalfFacts ==
  ASSUME NEW S, NEW a \in Seq(S), NEW b \in Seq(S)
  PROVE  /\ Halves(Len(a), Len(b), HalfDown(a, b), HalfUp(a, b))
         /\ HalfDown(a, b) \in Int /\ HalfUp(a, b) \in Int
         /\ Search(a, b).upK = Len(a) - Len(b)
         /\ Search(a, b).odd => /\ Search(a, b).upK = 2 * HalfDown(a, b) + 1
                                /\ HalfUp(a, b) = HalfDown(a, b) + 1
         /\ ~ Search(a, b).odd => /\ Search(a, b).upK = 2 * HalfDown(a, b)
                                  /\ HalfUp(a, b) = HalfDown(a, b)
  <1> DEFINE n == Len(a) - Len(b)
             h == n \div 2
  <1>1. /\ n \in Int /\ Search(a, b).upK = n /\ Search(a, b).odd = (n % 2 # 0)
        /\ HalfDown(a, b) = h /\ HalfUp(a, b) = n - h
    <2>1. n \in Int
      OBVIOUS
    <2>2. Search(a, b).upK = n /\ Search(a, b).odd = (n % 2 # 0)
      BY Zenon DEF Search
    <2> QED
      BY <2>1, <2>2, Zenon DEF HalfDown, HalfUp
  <1>2. \A x \in Int : /\ x \div 2 \in Int
                       /\ x % 2 # 0 => x = 2 * (x \div 2) + 1
                       /\ ~ (x % 2 # 0) => x = 2 * (x \div 2)
    OBVIOUS
  <1>3. h \in Int /\ (n % 2 # 0 => n = 2 * h + 1) /\ (~ (n % 2 # 0) => n = 2 * h)
    BY <1>1, <1>2
  <1> DEFINE o == n % 2 # 0
  <1>4. h \in Int /\ (o => n = 2 * h + 1) /\ (~ o => n = 2 * h)
    BY <1>3
  <1>5. o \in BOOLEAN
    OBVIOUS
  <1> HIDE DEF n, h, o
  <1>6. /\ h + (n - h) = n /\ h <= n - h /\ n - h <= h + 1
        /\ (o => n - h = h + 1) /\ (~ o => n - h = h) /\ n - h \in Int
    BY <1>1, <1>4, <1>5
  <1>7. Halves(Len(a), Len(b), h, n - h)
    BY <1>4, <1>6 DEF Halves, n
  <1> QED
    BY <1>1, <1>4, <1>6, <1>7, Zenon DEF o, n

(***************************************************************************)
(* A turn of the loop forwards, and one of the loop backwards.             *)
(***************************************************************************)

\* The constants of the search: the diagonals' places in the array are in its two
\* halves, around down and up.
LEMMA SearchFacts ==
  ASSUME NEW S, NEW a \in Seq(S), NEW b \in Seq(S)
  PROVE  /\ Search(a, b).max = Far(a, b) /\ Search(a, b).down = Far(a, b)
         /\ Search(a, b).up = (3 * Far(a, b) + 2) - Search(a, b).upK
         /\ Search(a, b).upK \in Int /\ Search(a, b).odd \in BOOLEAN
         /\ Far(a, b) \in Nat \ {0} /\ Len(a) \in Nat /\ Len(b) \in Nat
         /\ Len(a) < Far(a, b) /\ Len(b) < Far(a, b)
  <1>1. /\ Search(a, b).max = Len(a) + Len(b) + 1 /\ Search(a, b).down = Len(a) + Len(b) + 1
        /\ Search(a, b).upK = Len(a) - Len(b)
        /\ Search(a, b).up = (Len(a) + Len(b) + 1) - (Len(a) - Len(b)) + (Len(a) + Len(b) + 1)
                                + (Len(a) + Len(b) + 1) + 2
    BY Zenon DEF Search
  <1>2. Search(a, b).odd = ((Len(a) - Len(b)) % 2 # 0)
    BY Zenon DEF Search
  <1>3. Search(a, b).odd \in BOOLEAN
    BY <1>2
  <1>4. Len(a) \in Nat /\ Len(b) \in Nat
    OBVIOUS
  <1>5. \A x, y \in Nat :
          /\ (x + y + 1) - (x - y) + (x + y + 1) + (x + y + 1) + 2 = (3 * (x + y + 1) + 2) - (x - y)
          /\ x + y + 1 \in Nat \ {0} /\ x < x + y + 1 /\ y < x + y + 1 /\ x - y \in Int
    OBVIOUS
  <1> QED
    BY <1>1, <1>3, <1>4, <1>5 DEF Far

\* Entries of layers one apart are never the same.
LEMMA ForePlaces ==
  ASSUME NEW S, NEW a \in Seq(S), NEW b \in Seq(S), NEW d \in 1 .. Far(a, b), NEW j \in 0 .. d,
         NEW V, Fits(V, a, b)
  PROVE  /\ ForeAt(a, b, d, j) \in Room(V) /\ ForeAt(a, b, d - 1, j) \in Room(V)
         /\ \A i \in 0 .. d : /\ ForeAt(a, b, d, i) # ForeAt(a, b, d - 1, j)
                              /\ i # j => ForeAt(a, b, d, i) # ForeAt(a, b, d, j)
                              /\ ForeAt(a, b, d, i) # BackAt(a, b, d - 1, j)
                              /\ BackAt(a, b, d, i) # ForeAt(a, b, d, j)
  <1> DEFINE m == Far(a, b)
  <1>1. m \in Nat /\ d \in 1 .. m /\ V \in Nat /\ 4 * m + 3 <= V
    BY SearchFacts DEF Fits
  <1> HIDE DEF m
  <1>2. m + (2 * j - d) \in 0 .. V /\ m + (2 * j - (d - 1)) \in 0 .. V
    BY <1>1
  <1>3. ASSUME NEW i \in 0 .. d
        PROVE  /\ m + (2 * i - d) # m + (2 * j - (d - 1))
               /\ i # j => m + (2 * i - d) # m + (2 * j - d)
               /\ m + (2 * i - d) # (3 * m + 2) + ((d - 1) - 2 * j)
               /\ (3 * m + 2) + (d - 2 * i) # m + (2 * j - d)
    BY <1>1
  <1> QED
    BY <1>2, <1>3 DEF ForeAt, BackAt, Room, m

\* A turn of the loop forwards.  Where it compares with the search backwards and does
\* not stay behind it, the snake it returns is one within both texts; otherwise its
\* layer comes one diagonal further.
LEMMA ForwardTurned ==
  ASSUME NEW S, NEW a \in Seq(S), NEW b \in Seq(S), NEW d \in 1 .. Far(a, b), NEW V, Fits(V, a, b), NEW w,
         Layered(V, a, b, d - 1, w), NEW j \in 0 .. d, NEW t \in ForeStates(V, a, b, d, w, j), Goes(t)
  PROVE  ForwardTurn(a, b, d, t, 2 * j - d) \in ForeStates(V, a, b, d, w, j + 1)
  <1> DEFINE N == Len(a)
             M == Len(b)
             m == Far(a, b)
             k == 2 * j - d
             upK == Search(a, b).upK
             up == Search(a, b).up
             odd == Search(a, b).odd
             h == HalfDown(a, b)
             l == HalfUp(a, b)
             g == Fore(a, b, d - 1, w)
             bk == Back(a, b, d - 1, w)
             R == Room(V)
             old == t.v[Search(a, b).down + k + 1]
             u == IF k > -d /\ (k = d \/ t.z >= old) THEN t.z + 1 ELSE old
             x == Down(a, b, u, k)
             Meets == odd /\ upK - d < k /\ k < upK + d /\ t.v[up + k] <= x
             r == ForwardTurn(a, b, d, t, 2 * j - d)
             A(i) == ForeAt(a, b, d, i)
  <1>0. r = IF Meets THEN Found(t, u, x, k)
            ELSE [t EXCEPT !.v = Put(@, Search(a, b).down + k, x), !.z = old]
    BY DEF ForwardTurn
  <1>1. /\ N \in Nat /\ M \in Nat /\ m \in Nat /\ d \in Nat \ {0} /\ d <= m /\ N < m /\ M < m
        /\ upK \in Int /\ upK = N - M /\ up = (3 * m + 2) - upK /\ Search(a, b).down = m
        /\ odd \in BOOLEAN /\ h \in Int /\ l \in Int /\ k \in Int /\ j \in Nat /\ j <= d
        /\ odd => upK = 2 * h + 1 /\ l = h + 1
        /\ h + l = N - M
    <2>1. Halves(N, M, h, l)
      BY HalfFacts
    <2>2. h + l = N - M
      BY <2>1 DEF Halves
    <2>3. /\ N \in Nat /\ M \in Nat /\ m \in Nat \ {0} /\ N < m /\ M < m /\ upK \in Int
          /\ up = (3 * m + 2) - upK /\ Search(a, b).down = m /\ odd \in BOOLEAN
      BY SearchFacts
    <2>4. /\ h \in Int /\ l \in Int /\ upK = N - M
          /\ odd => upK = 2 * h + 1 /\ l = h + 1
      BY HalfFacts
    <2>5. d \in 1 .. m
      OBVIOUS
    <2> HIDE DEF N, M, m, upK, up, odd, h, l
    <2> QED
      BY <2>2, <2>3, <2>4, <2>5
  <1>2. /\ t.v \in [R -> Int] /\ t.z \in Int /\ t.snake \in Seq(Int)
        /\ t = [v |-> t.v, snake |-> t.snake, z |-> t.z]
        /\ \A q \in R : (\A i \in 0 .. j - 1 : q # A(i)) => t.v[q] = w[q]
        /\ \A i \in 0 .. j - 1 : Onwards(a, b, d, g, i, t.v[A(i)], odd)
        /\ j \in 1 .. d => t.z = g[j - 1]
    BY DEF ForeStates, ForeState, SearchStates
  <1>3. /\ w \in [R -> Int] /\ Reached(d - 1, g) /\ Reached(d - 1, bk)
        /\ odd => Within(N, M, h, l, d - 1, g)
    BY DEF Layered
  <1>4. g \in [0 .. d - 1 -> Int] /\ \A i \in 0 .. d - 1 : g[i] = w[ForeAt(a, b, d - 1, i)]
    <2>1. \A i \in 0 .. d - 1 : ForeAt(a, b, d - 1, i) \in R
      <3>1. \A i \in 0 .. d - 1 : i \in 0 .. d
        BY <1>1
      <3> QED
        BY <3>1, ForePlaces
    <2> HIDE DEF R
    <2> QED
      BY <1>3, <2>1 DEF Fore
  <1>5. \A i \in 0 .. j - 1 : i \in 0 .. d /\ i # j
    BY <1>1
  <1>6. old \in Int /\ (j <= d - 1 => old = g[j])
    <2> DEFINE q == ForeAt(a, b, d - 1, j)
    <2>1. Search(a, b).down + k + 1 = q
      BY <1>1 DEF ForeAt
    <2>2. q \in R /\ \A i \in 0 .. j - 1 : q # A(i)
      BY <1>5, ForePlaces
    <2>3. t.v[q] = w[q] /\ w[q] \in Int
      BY <1>2, <1>3, <2>2
    <2> HIDE DEF q
    <2>4. old = w[q]
      BY <2>1, <2>3
    <2>5. j <= d - 1 => j \in 0 .. d - 1
      BY <1>1
    <2> QED
      BY <1>4, <2>3, <2>4, <2>5 DEF q
  <1> HIDE DEF old, N, M, m, upK, up, odd, h, l, R, g, bk
  <1>7. u = Start(d, g, j) /\ u \in Int
    <2>1. CASE j = 0
      <3>1. u = old
        BY <1>1, <2>1
      <3>2. 0 <= d - 1
        BY <1>1
      <3> QED
        BY <1>6, <2>1, <3>1, <3>2 DEF Start
    <2>2. CASE j # 0
      <3>1. k > -d /\ (k = d <=> j = d) /\ j \in 1 .. d /\ (j # d => j <= d - 1)
        BY <1>1, <2>2
      <3>2. u = IF j = d \/ t.z >= old THEN t.z + 1 ELSE old
        BY <3>1
      <3>3. t.z = g[j - 1]
        BY <1>2, <3>1
      <3>4. Start(d, g, j) = IF j = d \/ g[j - 1] >= g[j] THEN g[j - 1] + 1 ELSE g[j]
        BY <2>2 DEF Start
      <3>5. CASE j = d
        BY <1>2, <3>2, <3>3, <3>4, <3>5
      <3>6. CASE j # d
        <4>1. old = g[j]
          BY <1>6, <3>1, <3>6
        <4> QED
          BY <1>2, <1>6, <3>2, <3>3, <3>4, <3>6, <4>1
      <3> QED
        BY <3>5, <3>6
    <2> QED
      BY <2>1, <2>2
  <1> HIDE DEF u
  <1>8. /\ x \in Int /\ u <= x
        /\ x = u \/ (x <= N /\ x - k <= M)
        /\ \A i \in 0 .. x - u - 1 : At(a, u + i) = At(b, (u - k) + i)
    BY <1>1, <1>7, DownFacts DEF N, M
  <1> HIDE DEF x
  <1>9. odd /\ upK - d < k /\ k < upK + d <=> odd /\ l <= j /\ j <= h + d
    BY <1>1
  <1>10. j <= u /\ d - j <= u - k
    <2>1. j >= 1 => j - 1 \in 0 .. d - 1
      BY <1>1
    <2>2. j <= d - 1 => j \in 0 .. d - 1
      BY <1>1
    <2>3. (j >= 1 => j - 1 <= g[j - 1]) /\ (j <= d - 1 => j <= g[j])
      BY <1>3, <2>1, <2>2 DEF Reached
    <2>4. \/ j >= 1 /\ u = g[j - 1] + 1
          \/ j <= d - 1 /\ u = g[j]
      BY <1>1, <1>4, <1>7, StartFacts
    <2>5. (j >= 1 => g[j - 1] \in Int) /\ (j <= d - 1 => g[j] \in Int)
      BY <1>4, <2>1, <2>2
    <2>6. j <= u
      <3> HIDE DEF g
      <3> QED
        BY <1>1, <1>7, <2>3, <2>4, <2>5
    <2> QED
      BY <1>1, <1>7, <2>6
  <1>11. CASE Meets
    <2>1. odd /\ l <= j /\ j <= h + d
      BY <1>9, <1>11
    <2>2. u <= N /\ u - 2 * j + d <= M
      <3>1. Start(d, g, j) <= N /\ Start(d, g, j) - 2 * j + d <= M
        BY <1>1, <1>3, <1>4, <2>1, WithinStart
      <3> QED
        BY <1>7, <3>1
    <2>3. GoodSnake(a, b, <<u, u - k, x, x - k>>)
      <3> DEFINE y == u - k
                 z == x - k
                 s == <<u, y, x, z>>
      <3>1. /\ u \in Nat /\ y \in Nat /\ x \in Nat /\ z \in Nat /\ u <= x /\ x <= N
            /\ y <= z /\ z <= M /\ z - y = x - u
        <4>1. /\ k = 2 * j - d /\ u \in Int /\ x \in Int /\ u <= x /\ j \in Nat /\ d \in Nat /\ j <= d
              /\ N \in Nat /\ M \in Nat
              /\ x = u \/ (x <= N /\ x - k <= M)
          BY <1>1, <1>7, <1>8
        <4>2. y = u - k /\ z = x - k /\ k \in Int
          BY <1>1
        <4> HIDE DEF k, y, z
        <4> QED
          BY ONLY <1>10, <2>2, <4>1, <4>2
      <3>2. \A i \in 0 .. x - u - 1 : At(a, u + i) = At(b, y + i)
        BY <1>8
      <3>3. s[1] = u /\ s[2] = y /\ s[3] = x /\ s[4] = z
        OBVIOUS
      <3> HIDE DEF s, y, z, k
      <3>4. GoodSnake(a, b, s)
        BY <3>1, <3>2, <3>3, Zenon DEF GoodSnake, N, M
      <3> QED
        BY <3>4 DEF s, y, z
    <2> DEFINE s == <<u, u - k, x, x - k>>
    <2>4. s \in Seq(Int) /\ s # <<>>
      BY <1>1, <1>7, <1>8
    <2> HIDE DEF s
    <2>5. r = [v |-> t.v, snake |-> s, z |-> t.z]
      <3>1. r = [t EXCEPT !.snake = s]
        BY <1>0, <1>11 DEF Found, s
      <3> HIDE DEF r
      <3> QED
        BY <1>2, <3>1
    <2>6. r \in SearchStates(V) /\ ~ Goes(r) /\ r.snake = s
      <3> HIDE DEF r
      <3> QED
        BY <1>2, <2>4, <2>5 DEF SearchStates, Goes, R
    <2>7. GoodSnake(a, b, r.snake)
      BY <2>3, <2>6 DEF s
    <2> QED
      BY <2>6, <2>7 DEF ForeStates, ForeState
  <1>12. CASE ~ Meets
    <2> DEFINE y == A(j)
               v1 == [t.v EXCEPT ![y] = x]
    <2>1. Search(a, b).down + k = y
      BY <1>1 DEF ForeAt, m
    <2>2. y \in R /\ \A i \in 0 .. j - 1 : A(i) # y
      BY <1>5, ForePlaces DEF R
    <2>3. Put(t.v, y, x) = v1
      <3>1. y \in DOMAIN t.v
        BY <1>2, <2>2
      <3> QED
        BY <3>1, Zenon DEF Put
    <2>4. r = [t EXCEPT !.v = v1, !.z = old]
      BY <1>0, <1>12, <2>1, <2>3
    <2>5. v1 \in [R -> Int] /\ v1[y] = x /\ \A q \in R : q # y => v1[q] = t.v[q]
      <3> HIDE DEF y, R
      <3> QED
        BY <1>2, <1>8, <2>2
    <2> HIDE DEF v1
    <2>6. r = [v |-> v1, snake |-> t.snake, z |-> old]
      <3> HIDE DEF r
      <3> QED
        BY <1>2, <2>4
    <2>7. /\ r \in SearchStates(V) /\ r.snake = t.snake /\ r.v = v1 /\ r.z = old
      <3> HIDE DEF r
      <3> QED
        BY <1>2, <1>6, <2>5, <2>6 DEF SearchStates, R
    <2> HIDE DEF r
    <2>8. Goes(r)
      BY <2>7 DEF Goes
    <2>9. \A q \in R : (\A i \in 0 .. (j + 1) - 1 : q # A(i)) => r.v[q] = w[q]
      <3> SUFFICES ASSUME NEW q \in R, \A i \in 0 .. (j + 1) - 1 : q # A(i) PROVE r.v[q] = w[q]
        OBVIOUS
      <3>1. j \in 0 .. (j + 1) - 1 /\ \A i \in 0 .. j - 1 : i \in 0 .. (j + 1) - 1
        BY <1>1
      <3>2. q # y /\ \A i \in 0 .. j - 1 : q # A(i)
        BY <3>1
      <3> QED
        BY <1>2, <2>5, <2>7, <3>2
    <2>10. Onwards(a, b, d, g, j, x, odd)
      <3>1. ASSUME odd, l <= j, j <= h + d PROVE x < N /\ x - 2 * j + d < M
        <4> DEFINE i == h + d - j
                   q == BackAt(a, b, d - 1, i)
        <4>1. i \in 0 .. d - 1 /\ i \in 0 .. d
          BY <1>1, <3>1
        <4>2. up + k = q
          <5>1. q = (3 * m + 2) + ((d - 1) - 2 * (h + d - j)) /\ up + k = up + (2 * j - d)
            BY DEF BackAt, m
          <5>2. /\ j \in Int /\ d \in Int /\ h \in Int /\ m \in Int /\ upK \in Int
                /\ up = (3 * m + 2) - upK /\ upK = 2 * h + 1
            BY <1>1, <3>1
          <5> HIDE DEF q, k, m
          <5> QED
            BY ONLY <5>1, <5>2
        <4>3. x < t.v[up + k] \/ ~ (t.v[up + k] \in Int)
          BY <1>8, <1>9, <1>12, <3>1
        <4>4. q \in R /\ \A n \in 0 .. j - 1 : q # A(n)
          <5>1. \A n \in 0 .. j - 1 : q # A(n)
            BY <1>5, <4>1, ForePlaces
          <5>2. q \in R
            <6>1. 4 * m + 3 <= V /\ V \in Nat /\ m \in Nat /\ d \in 1 .. m
              BY SearchFacts DEF Fits, m
            <6>2. q = (3 * m + 2) + ((d - 1) - 2 * i)
              BY DEF BackAt, m
            <6> HIDE DEF q, m, i
            <6>3. q \in 0 .. V
              BY ONLY <4>1, <6>1, <6>2
            <6> QED
              BY <6>3 DEF Room, R
          <5> QED
            BY <5>1, <5>2
        <4>5. t.v[q] = w[q] /\ w[q] \in Int
          BY <1>2, <1>3, <4>4
        <4>6. i <= bk[i] /\ bk[i] = N - w[q]
          BY <1>3, <4>1 DEF Reached, Back, bk, N
        <4>7. x < N - i
          <5> DEFINE p == w[q]
                     c == bk[i]
          <5>1. /\ x \in Int /\ x < p /\ p \in Int /\ c = N - p /\ i <= c /\ i \in Int /\ N \in Int
            BY <1>1, <1>8, <4>1, <4>2, <4>3, <4>5, <4>6
          <5> HIDE DEF p, c, i
          <5> QED
            BY ONLY <5>1
        <4> QED
          BY <1>1, <1>8, <3>1, <4>1, <4>7
      <3>2. x - k = x - 2 * j + d
        BY <1>1, <1>8
      <3> QED
        BY <1>7, <1>8, <3>1, <3>2 DEF Onwards, N, M, h, l
    <2>11. \A i \in 0 .. (j + 1) - 1 : Onwards(a, b, d, g, i, r.v[A(i)], odd)
      <3> SUFFICES ASSUME NEW i \in 0 .. (j + 1) - 1 PROVE Onwards(a, b, d, g, i, r.v[A(i)], odd)
        OBVIOUS
      <3>1. i = j \/ i \in 0 .. j - 1
        BY <1>1
      <3>2. CASE i = j
        BY <2>5, <2>7, <2>10, <3>2
      <3>3. CASE i \in 0 .. j - 1
        <4>1. A(i) \in R /\ A(i) # y
          BY <1>5, <2>2, <3>3, ForePlaces DEF R
        <4> QED
          BY <1>2, <2>5, <2>7, <3>3, <4>1
      <3> QED
        BY <3>1, <3>2, <3>3
    <2>12. j + 1 \in 1 .. d => r.z = g[(j + 1) - 1]
      <3>1. j + 1 \in 1 .. d => j <= d - 1 /\ (j + 1) - 1 = j
        BY <1>1
      <3> QED
        BY <1>6, <2>7, <3>1
    <2> QED
      <3>1. /\ \A q \in Room(V) :
                 (\A i \in 0 .. (j + 1) - 1 : q # ForeAt(a, b, d, i)) => r.v[q] = w[q]
            /\ \A i \in 0 .. (j + 1) - 1 :
                 Onwards(a, b, d, Fore(a, b, d - 1, w), i, r.v[ForeAt(a, b, d, i)], Search(a, b).odd)
            /\ j + 1 \in 1 .. d => r.z = Fore(a, b, d - 1, w)[(j + 1) - 1]
        BY <2>9, <2>11, <2>12 DEF R, g, odd
      <3> QED
        <4>1. ForeState(V, a, b, d, w, j + 1, r)
          BY <2>8, <3>1, Zenon DEF ForeState
        <4> QED
          BY <2>7, <4>1 DEF ForeStates, r
  <1> QED
    BY <1>11, <1>12

\* The same of the entries backwards.
LEMMA BackPlaces ==
  ASSUME NEW S, NEW a \in Seq(S), NEW b \in Seq(S), NEW d \in 1 .. Far(a, b), NEW n \in 0 .. d,
         NEW V, Fits(V, a, b)
  PROVE  /\ BackAt(a, b, d, n) \in Room(V) /\ BackAt(a, b, d - 1, n - 1) \in Room(V)
         /\ BackAt(a, b, d - 1, n) \in Room(V) /\ ForeAt(a, b, d, n) \in Room(V)
         /\ \A i \in 0 .. d : /\ BackAt(a, b, d, i) # BackAt(a, b, d - 1, n - 1)
                              /\ i # n => BackAt(a, b, d, i) # BackAt(a, b, d, n)
                              /\ BackAt(a, b, d, i) # ForeAt(a, b, d, n)
  <1> DEFINE m == Far(a, b)
  <1>1. m \in Nat /\ d \in 1 .. m /\ V \in Nat /\ 4 * m + 3 <= V
    BY SearchFacts DEF Fits
  <1> HIDE DEF m
  <1>2. /\ (3 * m + 2) + (d - 2 * n) \in 0 .. V
        /\ (3 * m + 2) + ((d - 1) - 2 * (n - 1)) \in 0 .. V
        /\ (3 * m + 2) + ((d - 1) - 2 * n) \in 0 .. V
        /\ m + (2 * n - d) \in 0 .. V
    BY <1>1
  <1>3. ASSUME NEW i \in 0 .. d
        PROVE  /\ (3 * m + 2) + (d - 2 * i) # (3 * m + 2) + ((d - 1) - 2 * (n - 1))
               /\ i # n => (3 * m + 2) + (d - 2 * i) # (3 * m + 2) + (d - 2 * n)
               /\ (3 * m + 2) + (d - 2 * i) # m + (2 * n - d)
    BY <1>1
  <1> QED
    BY <1>2, <1>3 DEF ForeAt, BackAt, Room, m

\* A turn of the loop backwards, which compares on the diagonals the loop forwards
\* does not compare on.
LEMMA BackwardTurned ==
  ASSUME NEW S, NEW a \in Seq(S), NEW b \in Seq(S), NEW d \in 1 .. Far(a, b), NEW V, Fits(V, a, b), NEW w,
         Midway(V, a, b, d, w), NEW j \in 0 .. d, NEW t \in BackStates(V, a, b, d, w, j), Goes(t),
         NEW k, k = Search(a, b).upK - d + 2 * j
  PROVE  BackwardTurn(a, b, d, t, k) \in BackStates(V, a, b, d, w, j + 1)
  <1> DEFINE N == Len(a)
             M == Len(b)
             m == Far(a, b)
             upK == Search(a, b).upK
             up == Search(a, b).up
             down == Search(a, b).down
             odd == Search(a, b).odd
             h == HalfDown(a, b)
             l == HalfUp(a, b)
             g == Back(a, b, d - 1, w)
             fw == Fore(a, b, d, w)
             R == Room(V)
             n == d - j
             next == IF k < upK + d THEN t.v[up + k + 1] ELSE t.z
             u == IF k < upK + d /\ (k = upK - d \/ next <= t.z) THEN next - 1 ELSE t.z
             x == Up(a, b, u, k)
             Meets == ~ odd /\ -d <= k /\ k <= d /\ x <= t.v[down + k]
             r == BackwardTurn(a, b, d, t, k)
             A(i) == BackAt(a, b, d, d - i)
  <1>0. r = IF Meets THEN Found(t, x, u, k)
            ELSE [t EXCEPT !.v = Put(@, up + k, x), !.z = next]
    BY DEF BackwardTurn
  <1>1. /\ N \in Nat /\ M \in Nat /\ m \in Nat /\ d \in Nat \ {0} /\ d <= m /\ N < m /\ M < m
        /\ upK \in Int /\ upK = N - M /\ up = (3 * m + 2) - upK /\ down = m
        /\ odd \in BOOLEAN /\ h \in Int /\ l \in Int /\ j \in Nat /\ j <= d
        /\ ~ odd => upK = 2 * h /\ l = h
        /\ h + l = N - M
    <2>1. Halves(N, M, h, l)
      BY HalfFacts
    <2>2. h + l = N - M
      BY <2>1 DEF Halves
    <2>3. /\ N \in Nat /\ M \in Nat /\ m \in Nat \ {0} /\ N < m /\ M < m /\ upK \in Int
          /\ up = (3 * m + 2) - upK /\ down = m /\ odd \in BOOLEAN
      BY SearchFacts
    <2>4. /\ h \in Int /\ l \in Int /\ upK = N - M
          /\ ~ odd => upK = 2 * h /\ l = h
      BY HalfFacts
    <2>5. d \in 1 .. m
      OBVIOUS
    <2> HIDE DEF N, M, m, upK, up, down, odd, h, l
    <2> QED
      BY <2>2, <2>3, <2>4, <2>5
  <1>2. /\ t.v \in [R -> Int] /\ t.z \in Int /\ t.snake \in Seq(Int)
        /\ t = [v |-> t.v, snake |-> t.snake, z |-> t.z]
        /\ \A q \in R : (\A i \in 0 .. j - 1 : q # A(i)) => t.v[q] = w[q]
        /\ \A i \in 0 .. j - 1 : Onwards(a, b, d, g, d - i, N - t.v[A(i)], ~ odd)
        /\ j \in 1 .. d => N - t.z = g[n]
    BY DEF BackStates, BackState, SearchStates
  <1>3. /\ w \in [R -> Int] /\ Reached(d - 1, g) /\ Reached(d, fw)
        /\ ~ odd => Within(N, M, h, l, d - 1, g)
    BY DEF Midway
  <1>4. g \in [0 .. d - 1 -> Int] /\ \A i \in 0 .. d - 1 : g[i] = N - w[BackAt(a, b, d - 1, i)]
    <2>1. \A i \in 0 .. d - 1 : BackAt(a, b, d - 1, i) \in R
      <3>1. \A i \in 0 .. d - 1 : i \in 0 .. d
        BY <1>1
      <3> QED
        BY <3>1, BackPlaces
    <2> HIDE DEF R
    <2>2. \A i \in 0 .. d - 1 : N - w[BackAt(a, b, d - 1, i)] \in Int
      BY <1>1, <1>3, <2>1
    <2> QED
      BY <2>2 DEF Back
  <1>5. /\ \A i \in 0 .. j - 1 : d - i \in 0 .. d /\ d - i # n
        /\ n \in 0 .. d /\ n \in Nat /\ n <= d /\ j = d - n /\ k = upK + d - 2 * n /\ k \in Int
        /\ (k < upK + d <=> n >= 1) /\ (k = upK - d <=> n = d) /\ (j # 0 <=> n # d)
    <2>1. k = upK - d + 2 * j
      OBVIOUS
    <2>2. n = d - j
      OBVIOUS
    <2> HIDE DEF upK, n
    <2>3. /\ n \in 0 .. d /\ n \in Nat /\ n <= d /\ j = d - n /\ k = upK + d - 2 * n /\ k \in Int
      BY ONLY <1>1, <2>1, <2>2
    <2>4. (k < upK + d <=> n >= 1) /\ (k = upK - d <=> n = d) /\ (j # 0 <=> n # d)
      <3>1. upK \in Int /\ d \in Nat /\ d # 0
        BY <1>1
      <3> QED
        BY ONLY <2>3, <3>1
    <2>5. \A i \in 0 .. j - 1 : d - i \in 0 .. d /\ d - i # n
      BY ONLY <1>1, <2>3
    <2> QED
      BY <2>3, <2>4, <2>5
  <1> HIDE DEF n
  <1>6. next \in Int /\ (n >= 1 => N - next = g[n - 1])
    <2>1. CASE n >= 1
      <3> DEFINE q == BackAt(a, b, d - 1, n - 1)
      <3> HIDE DEF m, up, upK, N
      <3>1. up + k + 1 = q
        <4>1. q = (3 * m + 2) + ((d - 1) - 2 * (n - 1))
          BY DEF BackAt, m
        <4> HIDE DEF q
        <4> QED
          BY ONLY <1>1, <1>5, <4>1
      <3>2. q \in R /\ \A i \in 0 .. j - 1 : q # A(i)
        BY <1>5, BackPlaces
      <3>3. t.v[q] = w[q] /\ w[q] \in Int
        BY <1>2, <1>3, <3>2
      <3> HIDE DEF q
      <3>4. next = w[q]
        BY <1>5, <2>1, <3>1, <3>3
      <3>5. n - 1 \in 0 .. d - 1
        BY <1>5, <2>1
      <3>6. g[n - 1] = N - w[q]
        BY <1>4, <3>5 DEF q
      <3> QED
        BY <3>3, <3>4, <3>6
    <2>2. CASE ~ (n >= 1)
      <3>1. next = t.z
        BY <1>5, <2>2
      <3> QED
        BY <1>2, <2>2, <3>1
    <2> QED
      BY <2>1, <2>2
  <1> HIDE DEF next, N, M, m, upK, up, down, odd, h, l, R, g, fw
  <1>7. u \in Int /\ N - u = Start(d, g, n)
    <2>0. u = IF n >= 1 /\ (n = d \/ next <= t.z) THEN next - 1 ELSE t.z
      BY <1>5
    <2>1. n # d => N - t.z = g[n]
      <3>1. n # d => j \in 1 .. d
        BY <1>1, <1>5
      <3> QED
        BY <1>2, <3>1
    <2>2. t.z \in Int /\ next \in Int /\ N \in Int
      BY <1>1, <1>2, <1>6
    <2>3. CASE n = 0
      <3>1. u = t.z /\ n # d
        BY <1>1, <2>0, <2>3
      <3> QED
        BY <2>1, <2>2, <2>3, <3>1 DEF Start
    <2>4. CASE n # 0
      <3>1. n >= 1 /\ N - next = g[n - 1]
        BY <1>5, <1>6, <2>4
      <3>2. Start(d, g, n) = IF n = d \/ g[n - 1] >= g[n] THEN g[n - 1] + 1 ELSE g[n]
        BY <2>4 DEF Start
      <3> DEFINE y == t.z
                 x0 == g[n - 1]
                 x1 == g[n]
      <3>3. y \in Int /\ x0 = N - next /\ (n # d => x1 = N - y)
        BY <2>1, <2>2, <3>1
      <3>4. u = IF n = d \/ next <= y THEN next - 1 ELSE y
        BY <2>0, <3>1
      <3> HIDE DEF u, y, x0, x1
      <3>5. CASE n = d
        BY <2>2, <3>2, <3>3, <3>4, <3>5 DEF x0, x1
      <3>6. CASE n # d
        <4>1. (x0 >= x1 <=> next <= y) /\ x0 \in Int /\ x1 \in Int
          BY <2>2, <3>3, <3>6
        <4>2. Start(d, g, n) = IF next <= y THEN x0 + 1 ELSE x1
          BY <3>2, <3>6, <4>1 DEF x0, x1
        <4> QED
          BY <2>2, <3>3, <3>4, <3>6, <4>1, <4>2
      <3> QED
        BY <3>5, <3>6
    <2> QED
      BY <2>3, <2>4
  <1> HIDE DEF u
  <1>8. /\ x \in Int /\ x <= u
        /\ x = u \/ (x >= 0 /\ x >= k)
        /\ \A i \in 0 .. u - x - 1 : At(a, x + i) = At(b, (x - k) + i)
    <2>1. k \in Int /\ u \in Int
      BY <1>5, <1>7
    <2> HIDE DEF x
    <2>2. x = Up(a, b, u, k)
      BY DEF x
    <2> QED
      BY <2>1, <2>2, UpFacts
  <1> HIDE DEF x
  <1>9. ~ odd /\ -d <= k /\ k <= d <=> ~ odd /\ l <= n /\ n <= h + d
    BY <1>1, <1>5
  <1>10. u <= N - n /\ u - k <= M
    <2>1. n >= 1 => n - 1 \in 0 .. d - 1
      BY <1>5
    <2>2. n <= d - 1 => n \in 0 .. d - 1
      BY <1>5
    <2>3. (n >= 1 => n - 1 <= g[n - 1]) /\ (n <= d - 1 => n <= g[n])
      BY <1>3, <2>1, <2>2 DEF Reached
    <2>4. \/ n >= 1 /\ Start(d, g, n) = g[n - 1] + 1
          \/ n <= d - 1 /\ Start(d, g, n) = g[n]
      BY <1>1, <1>4, <1>5, StartFacts
    <2>5. (n >= 1 => g[n - 1] \in Int) /\ (n <= d - 1 => g[n] \in Int)
      BY <1>4, <2>1, <2>2
    <2>6. n <= Start(d, g, n)
      <3> DEFINE y == Start(d, g, n)
      <3>1. \/ n >= 1 /\ y = g[n - 1] + 1
            \/ n <= d - 1 /\ y = g[n]
        BY <2>4
      <3> HIDE DEF y
      <3>2. n <= y
        BY <1>5, <2>3, <2>5, <3>1
      <3> QED
        BY <3>2 DEF y
    <2>7. n <= N - u
      BY <1>7, <2>6
    <2>8. u - k <= M
      BY ONLY <1>1, <1>5, <1>7, <2>7
    <2>9. u <= N - n
      BY ONLY <1>1, <1>5, <1>7, <2>7
    <2> QED
      BY <2>8, <2>9, Zenon
  <1>11. CASE Meets
    <2>1. ~ odd /\ l <= n /\ n <= h + d
      BY <1>9, <1>11
    <2>2. u >= 0 /\ u >= k
      <3>1. Start(d, g, n) <= N /\ Start(d, g, n) - 2 * n + d <= M
        BY <1>1, <1>3, <1>4, <1>5, <2>1, WithinStart
      <3>2. N - u <= N /\ (N - u) - 2 * n + d <= M
        BY <1>7, <3>1
      <3> QED
        BY <1>1, <1>5, <1>7, <3>2
    <2>3. GoodSnake(a, b, <<x, x - k, u, u - k>>)
      <3> DEFINE y == x - k
                 z == u - k
                 s == <<x, y, u, z>>
      <3>1. /\ u \in Nat /\ y \in Nat /\ x \in Nat /\ z \in Nat /\ x <= u /\ u <= N
            /\ y <= z /\ z <= M /\ z - y = u - x
        <4>1. /\ u \in Int /\ x \in Int /\ x <= u /\ n \in Nat /\ N \in Nat /\ M \in Nat
              /\ x = u \/ (x >= 0 /\ x >= k)
          BY <1>1, <1>5, <1>7, <1>8
        <4>2. y = x - k /\ z = u - k /\ k \in Int
          BY <1>5
        <4> HIDE DEF y, z
        <4> QED
          BY ONLY <1>10, <2>2, <4>1, <4>2
      <3>2. \A i \in 0 .. u - x - 1 : At(a, x + i) = At(b, y + i)
        BY <1>8
      <3>3. s[1] = x /\ s[2] = y /\ s[3] = u /\ s[4] = z
        OBVIOUS
      <3> HIDE DEF s, y, z
      <3>4. GoodSnake(a, b, s)
        BY <3>1, <3>2, <3>3, Zenon DEF GoodSnake, N, M
      <3> QED
        BY <3>4 DEF s, y, z
    <2> DEFINE s == <<x, x - k, u, u - k>>
    <2>4. s \in Seq(Int) /\ s # <<>>
      BY <1>5, <1>7, <1>8
    <2> HIDE DEF s
    <2>5. r = [v |-> t.v, snake |-> s, z |-> t.z]
      <3>1. r = [t EXCEPT !.snake = s]
        BY <1>0, <1>11 DEF Found, s
      <3> HIDE DEF r
      <3> QED
        BY <1>2, <3>1
    <2>6. r \in SearchStates(V) /\ ~ Goes(r) /\ r.snake = s
      <3> HIDE DEF r
      <3> QED
        BY <1>2, <2>4, <2>5 DEF SearchStates, Goes, R
    <2>7. GoodSnake(a, b, r.snake)
      BY <2>3, <2>6 DEF s
    <2> QED
      BY <2>6, <2>7 DEF BackStates, BackState
  <1>12. CASE ~ Meets
    <2> DEFINE y == A(j)
               v1 == [t.v EXCEPT ![y] = x]
    <2>0. y = BackAt(a, b, d, n)
      BY DEF n
    <2>1. up + k = y
      <3>1. y = (3 * m + 2) + (d - 2 * n)
        BY <2>0 DEF BackAt, m
      <3> HIDE DEF y
      <3> QED
        BY ONLY <1>1, <1>5, <3>1
    <2>2. y \in R /\ \A i \in 0 .. j - 1 : A(i) # y
      BY <1>5, <2>0, BackPlaces DEF R
    <2>3. Put(t.v, y, x) = v1
      <3>1. y \in DOMAIN t.v
        BY <1>2, <2>2
      <3> QED
        BY <3>1, Zenon DEF Put
    <2>4. r = [t EXCEPT !.v = v1, !.z = next]
      BY <1>0, <1>12, <2>1, <2>3
    <2>5. v1 \in [R -> Int] /\ v1[y] = x /\ \A q \in R : q # y => v1[q] = t.v[q]
      <3> HIDE DEF y, R
      <3> QED
        BY <1>2, <1>8, <2>2
    <2> HIDE DEF v1
    <2>6. r = [v |-> v1, snake |-> t.snake, z |-> next]
      <3> HIDE DEF r
      <3> QED
        BY <1>2, <2>4
    <2>7. /\ r \in SearchStates(V) /\ r.snake = t.snake /\ r.v = v1 /\ r.z = next
      <3> HIDE DEF r
      <3> QED
        BY <1>2, <1>6, <2>5, <2>6 DEF SearchStates, R
    <2> HIDE DEF r
    <2>8. Goes(r)
      BY <2>7 DEF Goes
    <2>9. \A q \in R : (\A i \in 0 .. (j + 1) - 1 : q # A(i)) => r.v[q] = w[q]
      <3> SUFFICES ASSUME NEW q \in R, \A i \in 0 .. (j + 1) - 1 : q # A(i) PROVE r.v[q] = w[q]
        OBVIOUS
      <3>1. j \in 0 .. (j + 1) - 1 /\ \A i \in 0 .. j - 1 : i \in 0 .. (j + 1) - 1
        BY <1>1
      <3>2. q # y /\ \A i \in 0 .. j - 1 : q # A(i)
        BY <3>1
      <3> QED
        BY <1>2, <2>5, <2>7, <3>2
    <2>10. Onwards(a, b, d, g, n, N - x, ~ odd)
      <3> DEFINE o == N - x
      <3>0. o \in Int /\ o = N - x
        BY <1>1, <1>8
      <3>1. ASSUME ~ odd, l <= n, n <= h + d PROVE o < N /\ o - 2 * n + d < M
        <4> DEFINE i == h + d - n
                   q == ForeAt(a, b, d, i)
        <4>1. i \in 0 .. d
          BY ONLY <1>1, <1>5, <3>1
        <4>2. down + k = q
          <5>1. q = m + (2 * i - d) /\ i = h + d - n
            BY DEF ForeAt, m
          <5> HIDE DEF q, i
          <5> QED
            BY ONLY <1>1, <1>5, <3>1, <4>1, <5>1
        <4>3. x > t.v[down + k] \/ ~ (t.v[down + k] \in Int)
          BY <1>8, <1>9, <1>12, <3>1
        <4>4. q \in R /\ \A c \in 0 .. j - 1 : q # A(c)
          BY <1>5, <4>1, BackPlaces DEF R
        <4>5. t.v[q] = w[q] /\ w[q] \in Int
          BY <1>2, <1>3, <4>4
        <4>6. i <= fw[i] /\ fw[i] = w[q]
          BY <1>3, <4>1 DEF Reached, Fore, fw
        <4>7. i < x
          <5> DEFINE p == w[q]
          <5>1. /\ x \in Int /\ x > p /\ p \in Int /\ i <= p /\ i \in Int
            BY <1>1, <1>8, <4>1, <4>2, <4>3, <4>5, <4>6
          <5> HIDE DEF p, i
          <5> QED
            BY ONLY <5>1
        <4> HIDE DEF o
        <4> QED
          BY <1>1, <1>5, <1>8, <3>0, <3>1, <4>1, <4>7
      <3>2. Start(d, g, n) <= o /\ (o = Start(d, g, n) \/ (o <= N /\ o - 2 * n + d <= M))
        <4> DEFINE y0 == Start(d, g, n)
        <4>1. y0 = N - u
          BY <1>7
        <4>2. x = u \/ (x >= 0 /\ x >= k)
          BY <1>8
        <4>3. k = (N - M) + d - 2 * n /\ N \in Nat /\ M \in Nat /\ n \in Nat /\ d \in Nat
              /\ u \in Int /\ x \in Int /\ x <= u
          BY <1>1, <1>5, <1>7, <1>8
        <4> HIDE DEF y0, o
        <4>4. y0 <= o /\ (o = y0 \/ (o <= N /\ o - 2 * n + d <= M))
          BY ONLY <3>0, <4>1, <4>2, <4>3
        <4> QED
          BY <4>4 DEF y0
      <3> HIDE DEF o
      <3>3. Onwards(a, b, d, g, n, o, ~ odd)
        BY <3>1, <3>2, Zenon DEF Onwards, N, M, h, l
      <3> QED
        BY <3>3 DEF o
    <2>11. \A i \in 0 .. (j + 1) - 1 : Onwards(a, b, d, g, d - i, N - r.v[A(i)], ~ odd)
      <3> SUFFICES ASSUME NEW i \in 0 .. (j + 1) - 1
                   PROVE  Onwards(a, b, d, g, d - i, N - r.v[A(i)], ~ odd)
        OBVIOUS
      <3>1. i = j \/ i \in 0 .. j - 1
        BY <1>1
      <3>2. CASE i = j
        BY <2>5, <2>7, <2>10, <3>2 DEF n
      <3>3. CASE i \in 0 .. j - 1
        <4>1. A(i) \in R /\ A(i) # y
          BY <1>5, <2>2, <3>3, BackPlaces DEF R
        <4> QED
          BY <1>2, <2>5, <2>7, <3>3, <4>1
      <3> QED
        BY <3>1, <3>2, <3>3
    <2>12. j + 1 \in 1 .. d => N - r.z = g[d - (j + 1)]
      <3>1. j + 1 \in 1 .. d => n >= 1 /\ d - (j + 1) = n - 1
        BY <1>1, <1>5
      <3> QED
        BY <1>6, <2>7, <3>1
    <2>13. /\ \A q \in Room(V) :
                 (\A i \in 0 .. (j + 1) - 1 : q # BackAt(a, b, d, d - i)) => r.v[q] = w[q]
           /\ \A i \in 0 .. (j + 1) - 1 :
                 Onwards(a, b, d, Back(a, b, d - 1, w), d - i,
                         Len(a) - r.v[BackAt(a, b, d, d - i)], ~ Search(a, b).odd)
           /\ j + 1 \in 1 .. d => Len(a) - r.z = Back(a, b, d - 1, w)[d - (j + 1)]
      BY <2>9, <2>11, <2>12 DEF R, g, odd, N
    <2>14. BackState(V, a, b, d, w, j + 1, r)
      BY <2>8, <2>13, Zenon DEF BackState
    <2> QED
      BY <2>7, <2>14 DEF BackStates, r
  <1> QED
    BY <1>11, <1>12

(***************************************************************************)
(* The loops of one distance, and of all of them.                          *)
(***************************************************************************)

\* The loops of the search, one by one.
ForeLoop(a, b, d, first) ==
    LET st[i \in 0 .. d + 1] ==
          IF i = 0 THEN first
          ELSE LET last == st[i - 1]
               IN  IF Goes(last) THEN ForwardTurn(a, b, d, last, -d + 2 * (i - 1)) ELSE last
    IN  st

BackLoop(a, b, d, first) ==
    LET st[i \in 0 .. d + 1] ==
          IF i = 0 THEN first
          ELSE LET last == st[i - 1]
               IN  IF Goes(last)
                   THEN BackwardTurn(a, b, d, last, Search(a, b).upK - d + 2 * (i - 1)) ELSE last
    IN  st

DistLoop(a, b, first) ==
    LET st[i \in 0 .. Search(a, b).max] ==
          IF i = 0 THEN first
          ELSE LET last == st[i - 1]
               IN  IF Goes(last) THEN Distance(a, b, last, i) ELSE last
    IN  st

\* The loop backwards begins with whatever is next to the last diagonal.
Aside(a, b, d, t) == [t EXCEPT !.z = t.v[Search(a, b).up + Search(a, b).upK - d - 1]]

\* A distance is the loop forwards and, if it found nothing, the one backwards.
LEMMA DistanceLoops ==
  ASSUME NEW a, NEW b, NEW st, NEW d
  PROVE  Distance(a, b, st, d) =
           IF Goes(ForeLoop(a, b, d, st)[d + 1])
           THEN BackLoop(a, b, d, Aside(a, b, d, ForeLoop(a, b, d, st)[d + 1]))[d + 1]
           ELSE ForeLoop(a, b, d, st)[d + 1]
  BY Zenon DEF Distance, Turns, ForeLoop, BackLoop, Aside

\* What the loop over the distances begins with: the array with the ends put in.
Begun(a, v0) == [v |-> v0, snake |-> <<>>, z |-> 0]
FirstArray(a, b, v0) ==
    LET s == Search(a, b)
    IN  Put(Put(Put(Put(v0, s.down + 1, 0), s.down, 0), s.up + s.upK - 1, Len(a)), s.up + s.upK, Len(a))

\* find_middle_snake is the loop over the distances.
LEMMA MiddleSnakeLoop ==
  ASSUME NEW a, NEW b, NEW v0
  PROVE  MiddleSnake(a, b, v0) = DistLoop(a, b, Begun(a, FirstArray(a, b, v0)))[Search(a, b).max]
  BY Zenon DEF MiddleSnake, Turns, DistLoop, Begun, FirstArray

\* The whole loop forwards.
LEMMA ForeLoopStates ==
  ASSUME NEW S, NEW a \in Seq(S), NEW b \in Seq(S), NEW d \in 1 .. Far(a, b), NEW V, Fits(V, a, b), NEW w,
         Layered(V, a, b, d - 1, w), NEW first \in ForeStates(V, a, b, d, w, 0)
  PROVE  ForeLoop(a, b, d, first)[d + 1] \in ForeStates(V, a, b, d, w, d + 1)
  <1> DEFINE n == d + 1
             Turn(t, i) == IF Goes(t) THEN ForwardTurn(a, b, d, t, -d + 2 * (i - 1)) ELSE t
             P == [i \in 0 .. n |-> ForeStates(V, a, b, d, w, i)]
             step == [i \in 1 .. n |-> [t \in P[i - 1] |-> Turn(t, i)]]
             Def(g) == [i \in 0 .. n |-> IF i = 0 THEN first ELSE Turn(g[i - 1], i)]
             c == CHOOSE g : g = Def(g)
  <1>1. ForeLoop(a, b, d, first) = c
    BY Zenon DEF ForeLoop
  <1>2. n \in Nat /\ d \in Nat
    BY SearchFacts
  <1>3. \A i \in 0 .. n : P[i] = ForeStates(V, a, b, d, w, i)
    OBVIOUS
  <1>4. ASSUME NEW i \in 1 .. n, NEW t \in ForeStates(V, a, b, d, w, i - 1)
        PROVE  Turn(t, i) \in ForeStates(V, a, b, d, w, i)
    <2> DEFINE j == i - 1
    <2>1. j \in 0 .. d /\ j + 1 = i /\ -d + 2 * (i - 1) = 2 * j - d
      BY <1>2
    <2>2. t \in ForeStates(V, a, b, d, w, j)
      OBVIOUS
    <2>3. CASE Goes(t)
      <3> HIDE DEF j
      <3>1. ForwardTurn(a, b, d, t, 2 * j - d) \in ForeStates(V, a, b, d, w, j + 1)
        BY <2>1, <2>2, <2>3, ForwardTurned
      <3> QED
        BY <2>1, <2>3, <3>1
    <2>4. CASE ~ Goes(t)
      <3>1. t \in SearchStates(V) /\ GoodSnake(a, b, t.snake)
        BY <2>2, <2>4 DEF ForeStates, ForeState
      <3> QED
        BY <2>4, <3>1 DEF ForeStates, ForeState
    <2> QED
      BY <2>3, <2>4
  <1> HIDE DEF n, Turn
  <1>5. \A i \in 1 .. n : i - 1 \in 0 .. n /\ i \in 0 .. n /\ i # 0
    BY <1>2
  <1>6. first \in P[0] /\ 0 \in 0 .. n
    BY <1>2
  <1>7. \A i \in 1 .. n : \A t \in P[i - 1] : step[i][t] = Turn(t, i) /\ step[i][t] \in P[i]
    <2>1. ASSUME NEW i \in 1 .. n, NEW t \in P[i - 1] PROVE Turn(t, i) \in P[i]
      BY <1>3, <1>4, <1>5
    <2> HIDE DEF P
    <2> QED
      BY <1>5, <2>1
  <1> HIDE DEF P, step
  <1>8. \E g : g = Def(g)
    <2>1. PICK g : LoopOf(n, P, first, step, g)
      BY <1>2, <1>6, <1>7, LoopExists
    <2>2. \A i \in 0 .. n : g[i] = IF i = 0 THEN first ELSE Turn(g[i - 1], i)
      <3>1. \A i \in 0 .. n : i = 0 \/ (i # 0 /\ i \in 1 .. n)
        BY <1>2
      <3> QED
        BY <1>7, <2>1, <3>1 DEF LoopOf
    <2>3. g = Def(g)
      BY <2>1, <2>2, Zenon DEF LoopOf
    <2> QED
      BY <2>3
  <1>9. c = Def(c)
    BY <1>8
  <1> HIDE DEF c
  <1>10. c[0] = first /\ \A i \in 1 .. n : c[i] = Turn(c[i - 1], i)
    <2>1. \A i \in 0 .. n : c[i] = Def(c)[i]
      BY <1>9
    <2>2. \A i \in 0 .. n : c[i] = IF i = 0 THEN first ELSE Turn(c[i - 1], i)
      BY <2>1
    <2> QED
      BY <1>5, <1>6, <2>2, Zenon
  <1>11. \A i \in 0 .. n : c[i] \in P[i]
    <2>1. c[0] \in P[0]
      BY <1>6, <1>10
    <2>2. \A i \in 1 .. n : c[i - 1] \in P[i - 1] => c[i] \in P[i]
      BY <1>7, <1>10
    <2> QED
      BY <1>2, <2>1, <2>2, LoopStates
  <1>12. c[n] \in ForeStates(V, a, b, d, w, n)
    <2>1. n \in 0 .. n
      BY <1>2
    <2> QED
      BY <1>3, <1>11, <2>1
  <1> QED
    BY <1>1, <1>12 DEF n

\* The whole loop backwards.
LEMMA BackLoopStates ==
  ASSUME NEW S, NEW a \in Seq(S), NEW b \in Seq(S), NEW d \in 1 .. Far(a, b), NEW V, Fits(V, a, b), NEW w,
         Midway(V, a, b, d, w), NEW first \in BackStates(V, a, b, d, w, 0)
  PROVE  BackLoop(a, b, d, first)[d + 1] \in BackStates(V, a, b, d, w, d + 1)
  <1> DEFINE n == d + 1
             Turn(t, i) == IF Goes(t) THEN BackwardTurn(a, b, d, t, Search(a, b).upK - d + 2 * (i - 1)) ELSE t
             P == [i \in 0 .. n |-> BackStates(V, a, b, d, w, i)]
             step == [i \in 1 .. n |-> [t \in P[i - 1] |-> Turn(t, i)]]
             Def(g) == [i \in 0 .. n |-> IF i = 0 THEN first ELSE Turn(g[i - 1], i)]
             c == CHOOSE g : g = Def(g)
  <1>1. BackLoop(a, b, d, first) = c
    BY Zenon DEF BackLoop
  <1>2. n \in Nat /\ d \in Nat
    BY SearchFacts
  <1>3. \A i \in 0 .. n : P[i] = BackStates(V, a, b, d, w, i)
    OBVIOUS
  <1>4. ASSUME NEW i \in 1 .. n, NEW t \in BackStates(V, a, b, d, w, i - 1)
        PROVE  Turn(t, i) \in BackStates(V, a, b, d, w, i)
    <2> DEFINE j == i - 1
    <2>1. j \in 0 .. d /\ j + 1 = i /\ Search(a, b).upK - d + 2 * (i - 1) = Search(a, b).upK - d + 2 * j
      BY <1>2
    <2>2. t \in BackStates(V, a, b, d, w, j)
      OBVIOUS
    <2>3. CASE Goes(t)
      <3> HIDE DEF j
      <3>1. BackwardTurn(a, b, d, t, Search(a, b).upK - d + 2 * j) \in BackStates(V, a, b, d, w, j + 1)
        BY <2>1, <2>2, <2>3, BackwardTurned
      <3> QED
        BY <2>1, <2>3, <3>1
    <2>4. CASE ~ Goes(t)
      <3>1. t \in SearchStates(V) /\ GoodSnake(a, b, t.snake)
        BY <2>2, <2>4 DEF BackStates, BackState
      <3> QED
        BY <2>4, <3>1 DEF BackStates, BackState
    <2> QED
      BY <2>3, <2>4
  <1> HIDE DEF n, Turn
  <1>5. \A i \in 1 .. n : i - 1 \in 0 .. n /\ i \in 0 .. n /\ i # 0
    BY <1>2
  <1>6. first \in P[0] /\ 0 \in 0 .. n
    BY <1>2
  <1>7. \A i \in 1 .. n : \A t \in P[i - 1] : step[i][t] = Turn(t, i) /\ step[i][t] \in P[i]
    <2>1. ASSUME NEW i \in 1 .. n, NEW t \in P[i - 1] PROVE Turn(t, i) \in P[i]
      BY <1>3, <1>4, <1>5
    <2> HIDE DEF P
    <2> QED
      BY <1>5, <2>1
  <1> HIDE DEF P, step
  <1>8. \E g : g = Def(g)
    <2>1. PICK g : LoopOf(n, P, first, step, g)
      BY <1>2, <1>6, <1>7, LoopExists
    <2>2. \A i \in 0 .. n : g[i] = IF i = 0 THEN first ELSE Turn(g[i - 1], i)
      <3>1. \A i \in 0 .. n : i = 0 \/ (i # 0 /\ i \in 1 .. n)
        BY <1>2
      <3> QED
        BY <1>7, <2>1, <3>1 DEF LoopOf
    <2>3. g = Def(g)
      BY <2>1, <2>2, Zenon DEF LoopOf
    <2> QED
      BY <2>3
  <1>9. c = Def(c)
    BY <1>8
  <1> HIDE DEF c
  <1>10. c[0] = first /\ \A i \in 1 .. n : c[i] = Turn(c[i - 1], i)
    <2>1. \A i \in 0 .. n : c[i] = Def(c)[i]
      BY <1>9
    <2>2. \A i \in 0 .. n : c[i] = IF i = 0 THEN first ELSE Turn(c[i - 1], i)
      BY <2>1
    <2> QED
      BY <1>5, <1>6, <2>2, Zenon
  <1>11. \A i \in 0 .. n : c[i] \in P[i]
    <2>1. c[0] \in P[0]
      BY <1>6, <1>10
    <2>2. \A i \in 1 .. n : c[i - 1] \in P[i - 1] => c[i] \in P[i]
      BY <1>7, <1>10
    <2> QED
      BY <1>2, <2>1, <2>2, LoopStates
  <1>12. c[n] \in BackStates(V, a, b, d, w, n)
    <2>1. n \in 0 .. n
      BY <1>2
    <2> QED
      BY <1>3, <1>11, <2>1
  <1> QED
    BY <1>1, <1>12 DEF n

\* What the turns of a loop did to the layer, taken together.
LEMMA OnwardsAll ==
  ASSUME NEW a, NEW b, NEW d \in Nat, NEW g, NEW g1, NEW c,
         \A i \in 0 .. d : Onwards(a, b, d, g, i, g1[i], c)
  PROVE  /\ Ahead(Len(a), Len(b), d, g, g1)
         /\ c => \A i \in 0 .. d : HalfUp(a, b) <= i /\ i <= HalfDown(a, b) + d =>
                   g1[i] < Len(a) /\ g1[i] - 2 * i + d < Len(b)
  <1>1. Ahead(Len(a), Len(b), d, g, g1)
    BY Zenon DEF Ahead, Onwards
  <1>2. c => \A i \in 0 .. d : HalfUp(a, b) <= i /\ i <= HalfDown(a, b) + d =>
                   g1[i] < Len(a) /\ g1[i] - 2 * i + d < Len(b)
    BY Zenon DEF Onwards
  <1> QED
    BY <1>1, <1>2

\* After the loop forwards without a snake there is a layer more forwards, ...
LEMMA ForeEnds ==
  ASSUME NEW S, NEW a \in Seq(S), NEW b \in Seq(S), NEW d \in 1 .. Far(a, b), NEW V, Fits(V, a, b),
         NEW w, Layered(V, a, b, d - 1, w), NEW t \in ForeStates(V, a, b, d, w, d + 1), Goes(t)
  PROVE  Midway(V, a, b, d, t.v)
  <1> DEFINE N == Len(a)
             M == Len(b)
             h == HalfDown(a, b)
             l == HalfUp(a, b)
             odd == Search(a, b).odd
             R == Room(V)
             g == Fore(a, b, d - 1, w)
             g1 == Fore(a, b, d, t.v)
  <1>1. /\ d \in Nat \ {0} /\ d \in Nat /\ d \in 0 .. d /\ N \in Nat /\ M \in Nat /\ Halves(N, M, h, l)
        /\ odd \in BOOLEAN /\ (d + 1) - 1 = d /\ \A i \in 0 .. d - 1 : i \in 0 .. d
    <2>1. d \in Nat \ {0} /\ N \in Nat /\ M \in Nat /\ odd \in BOOLEAN
      BY SearchFacts
    <2>2. Halves(N, M, h, l)
      BY HalfFacts
    <2> HIDE DEF N, M, h, l, odd
    <2> QED
      BY <2>1, <2>2
  <1>2. /\ t.v \in [R -> Int]
        /\ \A q \in R : (\A i \in 0 .. d : q # ForeAt(a, b, d, i)) => t.v[q] = w[q]
        /\ \A i \in 0 .. d : Onwards(a, b, d, g, i, t.v[ForeAt(a, b, d, i)], odd)
    <2>1. ForeState(V, a, b, d, w, d + 1, t) /\ t.v \in [R -> Int]
      BY DEF ForeStates, SearchStates
    <2> QED
      BY <1>1, <2>1, Zenon DEF ForeState
  <1>3. /\ w \in [R -> Int] /\ Reached(d - 1, g) /\ Reached(d - 1, Back(a, b, d - 1, w))
        /\ odd => Within(N, M, h, l, d - 1, g)
        /\ ~ odd => Within(N, M, h, l, d - 1, Back(a, b, d - 1, w))
    BY DEF Layered
  <1>4. g \in [0 .. d - 1 -> Int]
    <2>1. \A i \in 0 .. d - 1 : ForeAt(a, b, d - 1, i) \in R
      BY <1>1, ForePlaces
    <2> HIDE DEF R
    <2> QED
      BY <1>3, <2>1 DEF Fore
  <1>5. g1 \in [0 .. d -> Int] /\ \A i \in 0 .. d : g1[i] = t.v[ForeAt(a, b, d, i)]
    <2>1. \A i \in 0 .. d : ForeAt(a, b, d, i) \in R
      BY ForePlaces
    <2> HIDE DEF R
    <2> QED
      BY <1>2, <2>1 DEF Fore
  <1>6. Back(a, b, d - 1, t.v) = Back(a, b, d - 1, w)
    <2>1. ASSUME NEW i \in 0 .. d - 1 PROVE t.v[BackAt(a, b, d - 1, i)] = w[BackAt(a, b, d - 1, i)]
      <3>1. i \in 0 .. d
        BY <1>1
      <3>2. BackAt(a, b, d - 1, i) \in R
        BY <3>1, BackPlaces
      <3>3. \A n \in 0 .. d : BackAt(a, b, d - 1, i) # ForeAt(a, b, d, n)
        BY <3>1, ForePlaces
      <3> QED
        BY <1>2, <3>2, <3>3
    <2> QED
      BY <2>1, Zenon DEF Back
  <1> HIDE DEF g, g1, N, M, h, l, odd, R
  <1>7. \A i \in 0 .. d : Onwards(a, b, d, g, i, g1[i], odd)
    BY <1>2, <1>5
  <1>8. Ahead(N, M, d, g, g1)
    BY <1>1, <1>7, OnwardsAll DEF N, M
  <1>9. odd => \A i \in 0 .. d : l <= i /\ i <= h + d => g1[i] < N /\ g1[i] - 2 * i + d < M
    BY <1>1, <1>7, OnwardsAll DEF N, M, h, l
  <1>10. Reached(d, g1)
    BY <1>1, <1>3, <1>4, <1>5, <1>8, ReachedNext
  <1>11. odd => Within(N, M, h, l, d, g1)
    <2> SUFFICES ASSUME odd PROVE Within(N, M, h, l, d, g1)
      OBVIOUS
    <2> QED
      BY <1>1, <1>3, <1>4, <1>5, <1>8, <1>9, WithinNext
  <1> QED
    BY <1>2, <1>3, <1>6, <1>10, <1>11, Zenon DEF Midway, g1, N, M, h, l, odd, R

\* ... and after the loop backwards one more on both sides.
LEMMA BackEnds ==
  ASSUME NEW S, NEW a \in Seq(S), NEW b \in Seq(S), NEW d \in 1 .. Far(a, b), NEW V, Fits(V, a, b),
         NEW w, Midway(V, a, b, d, w), NEW t \in BackStates(V, a, b, d, w, d + 1), Goes(t)
  PROVE  Layered(V, a, b, d, t.v)
  <1> DEFINE N == Len(a)
             M == Len(b)
             h == HalfDown(a, b)
             l == HalfUp(a, b)
             odd == Search(a, b).odd
             R == Room(V)
             g == Back(a, b, d - 1, w)
             g1 == Back(a, b, d, t.v)
  <1>1. /\ d \in Nat \ {0} /\ d \in Nat /\ d \in 0 .. d /\ N \in Nat /\ M \in Nat /\ Halves(N, M, h, l)
        /\ odd \in BOOLEAN /\ (d + 1) - 1 = d /\ \A i \in 0 .. d - 1 : i \in 0 .. d
        /\ \A i \in 0 .. d : d - i \in 0 .. d /\ d - (d - i) = i
    <2>1. d \in Nat \ {0} /\ N \in Nat /\ M \in Nat /\ odd \in BOOLEAN
      BY SearchFacts
    <2>2. Halves(N, M, h, l)
      BY HalfFacts
    <2> HIDE DEF N, M, h, l, odd
    <2> QED
      BY <2>1, <2>2
  <1>2. /\ t.v \in [R -> Int]
        /\ \A q \in R : (\A i \in 0 .. d : q # BackAt(a, b, d, d - i)) => t.v[q] = w[q]
        /\ \A i \in 0 .. d : Onwards(a, b, d, g, d - i, N - t.v[BackAt(a, b, d, d - i)], ~ odd)
    <2>1. BackState(V, a, b, d, w, d + 1, t) /\ t.v \in [R -> Int]
      BY DEF BackStates, SearchStates
    <2> QED
      BY <1>1, <2>1, Zenon DEF BackState
  <1>3. /\ w \in [R -> Int] /\ Reached(d - 1, g) /\ Reached(d, Fore(a, b, d, w))
        /\ odd => Within(N, M, h, l, d, Fore(a, b, d, w))
        /\ ~ odd => Within(N, M, h, l, d - 1, g)
    BY DEF Midway
  <1>4. g \in [0 .. d - 1 -> Int]
    <2>1. \A i \in 0 .. d - 1 : BackAt(a, b, d - 1, i) \in R
      BY <1>1, BackPlaces
    <2> HIDE DEF R
    <2>2. \A i \in 0 .. d - 1 : N - w[BackAt(a, b, d - 1, i)] \in Int
      BY <1>1, <1>3, <2>1
    <2> QED
      BY <2>2 DEF Back
  <1>5. g1 \in [0 .. d -> Int] /\ \A i \in 0 .. d : g1[i] = N - t.v[BackAt(a, b, d, i)]
    <2>1. \A i \in 0 .. d : BackAt(a, b, d, i) \in R
      BY BackPlaces
    <2> HIDE DEF R
    <2>2. \A i \in 0 .. d : N - t.v[BackAt(a, b, d, i)] \in Int
      BY <1>1, <1>2, <2>1
    <2> QED
      BY <2>2 DEF Back
  <1>6. Fore(a, b, d, t.v) = Fore(a, b, d, w)
    <2>1. ASSUME NEW i \in 0 .. d PROVE t.v[ForeAt(a, b, d, i)] = w[ForeAt(a, b, d, i)]
      <3>2. ForeAt(a, b, d, i) \in R
        BY BackPlaces
      <3>3. \A n \in 0 .. d : ForeAt(a, b, d, i) # BackAt(a, b, d, d - n)
        <4>1. \A n \in 0 .. d : ForeAt(a, b, d, i) # BackAt(a, b, d, n)
          BY BackPlaces
        <4> QED
          BY <1>1, <4>1
      <3> QED
        BY <1>2, <3>2, <3>3
    <2> QED
      BY <2>1, Zenon DEF Fore
  <1>7. \A i \in 0 .. d : Onwards(a, b, d, g, i, g1[i], ~ odd)
    <2> SUFFICES ASSUME NEW i \in 0 .. d PROVE Onwards(a, b, d, g, i, g1[i], ~ odd)
      OBVIOUS
    <2>1. d - i \in 0 .. d /\ d - (d - i) = i
      BY <1>1
    <2>2. Onwards(a, b, d, g, d - (d - i), N - t.v[BackAt(a, b, d, d - (d - i))], ~ odd)
      BY <1>2, <2>1, Zenon
    <2>3. Onwards(a, b, d, g, i, N - t.v[BackAt(a, b, d, i)], ~ odd)
      BY <2>1, <2>2, Zenon
    <2> QED
      BY <1>5, <2>3, Zenon
  <1> HIDE DEF g, g1, N, M, h, l, odd, R
  <1>8. Ahead(N, M, d, g, g1)
    BY <1>1, <1>7, OnwardsAll DEF N, M
  <1>9. ~ odd => \A i \in 0 .. d : l <= i /\ i <= h + d => g1[i] < N /\ g1[i] - 2 * i + d < M
    BY <1>1, <1>7, OnwardsAll DEF N, M, h, l
  <1>10. Reached(d, g1)
    BY <1>1, <1>3, <1>4, <1>5, <1>8, ReachedNext
  <1>11. ~ odd => Within(N, M, h, l, d, g1)
    <2> SUFFICES ASSUME ~ odd PROVE Within(N, M, h, l, d, g1)
      OBVIOUS
    <2> QED
      BY <1>1, <1>3, <1>4, <1>5, <1>8, <1>9, WithinNext
  <1> QED
    BY <1>2, <1>3, <1>6, <1>10, <1>11, Zenon DEF Layered, g1, N, M, h, l, odd, R

\* The search after the distance d: the snake, or the layers of that distance.
DistState(V, a, b, d, t) ==
    \/ ~ Goes(t) /\ GoodSnake(a, b, t.snake)
    \/ Goes(t) /\ Layered(V, a, b, d, t.v)
DistStates(V, a, b, d) == {t \in SearchStates(V) : DistState(V, a, b, d, t)}

\* So a distance gives a snake or the layers of that distance.
LEMMA DistanceTurned ==
  ASSUME NEW S, NEW a \in Seq(S), NEW b \in Seq(S), NEW d \in 1 .. Far(a, b), NEW V, Fits(V, a, b),
         NEW st \in DistStates(V, a, b, d - 1), Goes(st)
  PROVE  Distance(a, b, st, d) \in DistStates(V, a, b, d)
  <1> DEFINE f == ForeLoop(a, b, d, st)[d + 1]
             first == Aside(a, b, d, f)
             r == BackLoop(a, b, d, first)[d + 1]
  <1>1. Distance(a, b, st, d) = IF Goes(f) THEN r ELSE f
    BY DistanceLoops
  <1>2. st \in SearchStates(V) /\ Layered(V, a, b, d - 1, st.v)
    BY DEF DistStates, DistState
  <1>3. st \in ForeStates(V, a, b, d, st.v, 0)
    <2>1. ~ (0 \in 1 .. d) /\ \A i : ~ (i \in 0 .. 0 - 1)
      OBVIOUS
    <2>2. ForeState(V, a, b, d, st.v, 0, st)
      BY <2>1, Zenon DEF ForeState
    <2> QED
      BY <1>2, <2>2 DEF ForeStates
  <1>4. f \in ForeStates(V, a, b, d, st.v, d + 1)
    BY <1>2, <1>3, ForeLoopStates
  <1> HIDE DEF f
  <1>5. CASE ~ Goes(f)
    <2>1. f \in SearchStates(V) /\ GoodSnake(a, b, f.snake)
      BY <1>4, <1>5 DEF ForeStates, ForeState
    <2> QED
      BY <1>1, <1>5, <2>1 DEF DistStates, DistState
  <1>6. CASE Goes(f)
    <2>1. Midway(V, a, b, d, f.v)
      BY <1>2, <1>4, <1>6, ForeEnds
    <2>2. /\ f \in SearchStates(V) /\ f.v \in [Room(V) -> Int] /\ f.snake \in Seq(Int)
          /\ f = [v |-> f.v, snake |-> f.snake, z |-> f.z]
      BY <1>4 DEF ForeStates, SearchStates
    <2>3. Search(a, b).up + Search(a, b).upK - d - 1 \in Room(V)
      <3> DEFINE m == Far(a, b)
                 u == Search(a, b).upK
                 p == Search(a, b).up
      <3>1. m \in Nat /\ u \in Int /\ p = (3 * m + 2) - u /\ 4 * m + 3 <= V /\ V \in Nat /\ d \in 1 .. m
        BY SearchFacts DEF Fits
      <3> HIDE DEF m, u, p
      <3>2. p + u - d - 1 \in 0 .. V
        BY ONLY <3>1
      <3> QED
        BY <3>2 DEF Room, m, u, p
    <2> DEFINE z1 == f.v[Search(a, b).up + Search(a, b).upK - d - 1]
    <2>4. z1 \in Int
      BY <2>2, <2>3
    <2>5. first = [f EXCEPT !.z = z1]
      BY Zenon DEF Aside
    <2> HIDE DEF z1, first
    <2>6. first = [v |-> f.v, snake |-> f.snake, z |-> z1]
      BY <2>2, <2>5
    <2>7. first \in SearchStates(V) /\ first.v = f.v /\ first.snake = f.snake
      BY <2>2, <2>4, <2>6 DEF SearchStates
    <2>8. Goes(first)
      BY <1>6, <2>7 DEF Goes
    <2>9. first \in BackStates(V, a, b, d, f.v, 0)
      <3>1. ~ (0 \in 1 .. d) /\ \A i : ~ (i \in 0 .. 0 - 1)
        OBVIOUS
      <3>2. BackState(V, a, b, d, f.v, 0, first)
        BY <2>7, <2>8, <3>1, Zenon DEF BackState
      <3> QED
        BY <2>7, <3>2 DEF BackStates
    <2>10. r \in BackStates(V, a, b, d, f.v, d + 1)
      BY <2>1, <2>9, BackLoopStates
    <2> HIDE DEF r
    <2>11. r \in SearchStates(V) /\ (~ Goes(r) => GoodSnake(a, b, r.snake))
      BY <2>10 DEF BackStates, BackState
    <2>12. Goes(r) => Layered(V, a, b, d, r.v)
      BY <2>1, <2>10, BackEnds
    <2> QED
      BY <1>1, <1>6, <2>11, <2>12 DEF DistStates, DistState
  <1> QED
    BY <1>5, <1>6

\* And so do all distances.
LEMMA DistLoopStates ==
  ASSUME NEW S, NEW a \in Seq(S), NEW b \in Seq(S), NEW V, Fits(V, a, b),
         NEW first \in DistStates(V, a, b, 0)
  PROVE  DistLoop(a, b, first)[Far(a, b)] \in DistStates(V, a, b, Far(a, b))
  <1> DEFINE n == Search(a, b).max
             Turn(t, i) == IF Goes(t) THEN Distance(a, b, t, i) ELSE t
             P == [i \in 0 .. n |-> DistStates(V, a, b, i)]
             step == [i \in 1 .. n |-> [t \in P[i - 1] |-> Turn(t, i)]]
             Def(g) == [i \in 0 .. n |-> IF i = 0 THEN first ELSE Turn(g[i - 1], i)]
             c == CHOOSE g : g = Def(g)
  <1>1. DistLoop(a, b, first) = c
    BY Zenon DEF DistLoop
  <1>2. n \in Nat /\ n = Far(a, b)
    BY SearchFacts
  <1>3. \A i \in 0 .. n : P[i] = DistStates(V, a, b, i)
    OBVIOUS
  <1>4. ASSUME NEW i \in 1 .. n, NEW t \in DistStates(V, a, b, i - 1)
        PROVE  Turn(t, i) \in DistStates(V, a, b, i)
    <2>1. i \in 1 .. Far(a, b)
      BY <1>2
    <2>2. CASE Goes(t)
      <3>1. Distance(a, b, t, i) \in DistStates(V, a, b, i)
        BY <2>1, <2>2, DistanceTurned
      <3> QED
        BY <2>2, <3>1
    <2>3. CASE ~ Goes(t)
      <3>1. t \in SearchStates(V) /\ GoodSnake(a, b, t.snake)
        BY <2>3 DEF DistStates, DistState
      <3> QED
        BY <2>3, <3>1 DEF DistStates, DistState
    <2> QED
      BY <2>2, <2>3
  <1> HIDE DEF n, Turn
  <1>5. \A i \in 1 .. n : i - 1 \in 0 .. n /\ i \in 0 .. n /\ i # 0
    BY <1>2
  <1>6. first \in P[0] /\ 0 \in 0 .. n
    BY <1>2
  <1>7. \A i \in 1 .. n : \A t \in P[i - 1] : step[i][t] = Turn(t, i) /\ step[i][t] \in P[i]
    <2>1. ASSUME NEW i \in 1 .. n, NEW t \in P[i - 1] PROVE Turn(t, i) \in P[i]
      BY <1>3, <1>4, <1>5
    <2> HIDE DEF P
    <2> QED
      BY <1>5, <2>1
  <1> HIDE DEF P, step
  <1>8. \E g : g = Def(g)
    <2>1. PICK g : LoopOf(n, P, first, step, g)
      BY <1>2, <1>6, <1>7, LoopExists
    <2>2. \A i \in 0 .. n : g[i] = IF i = 0 THEN first ELSE Turn(g[i - 1], i)
      <3>1. \A i \in 0 .. n : i = 0 \/ (i # 0 /\ i \in 1 .. n)
        BY <1>2
      <3> QED
        BY <1>7, <2>1, <3>1 DEF LoopOf
    <2>3. g = Def(g)
      BY <2>1, <2>2, Zenon DEF LoopOf
    <2> QED
      BY <2>3
  <1>9. c = Def(c)
    BY <1>8
  <1> HIDE DEF c
  <1>10. c[0] = first /\ \A i \in 1 .. n : c[i] = Turn(c[i - 1], i)
    <2>1. \A i \in 0 .. n : c[i] = Def(c)[i]
      BY <1>9
    <2>2. \A i \in 0 .. n : c[i] = IF i = 0 THEN first ELSE Turn(c[i - 1], i)
      BY <2>1
    <2> QED
      BY <1>5, <1>6, <2>2, Zenon
  <1>11. \A i \in 0 .. n : c[i] \in P[i]
    <2>1. c[0] \in P[0]
      BY <1>6, <1>10
    <2>2. \A i \in 1 .. n : c[i - 1] \in P[i - 1] => c[i] \in P[i]
      BY <1>7, <1>10
    <2> QED
      BY <1>2, <2>1, <2>2, LoopStates
  <1>12. c[n] \in DistStates(V, a, b, n)
    <2>1. n \in 0 .. n
      BY <1>2
    <2> QED
      BY <1>3, <1>11, <2>1
  <1> QED
    BY <1>1, <1>2, <1>12

\* An entry put in the array leaves it an array,
LEMMA PutFacts ==
  ASSUME NEW R, NEW f \in [R -> Int], NEW q \in R, NEW x \in Int
  PROVE  Put(f, q, x) \in [R -> Int]
  <1>1. q \in DOMAIN f
    OBVIOUS
  <1>2. Put(f, q, x) = [f EXCEPT ![q] = x]
    BY <1>1, Zenon DEF Put
  <1> QED
    BY <1>2

\* ... is found in its place,
LEMMA PutThere ==
  ASSUME NEW R, NEW f \in [R -> Int], NEW q \in R, NEW x \in Int
  PROVE  Put(f, q, x)[q] = x
  <1>1. q \in DOMAIN f
    OBVIOUS
  <1>2. Put(f, q, x) = [f EXCEPT ![q] = x]
    BY <1>1, Zenon DEF Put
  <1> QED
    BY <1>2

\* ... and leaves the others.
LEMMA PutElse ==
  ASSUME NEW R, NEW f \in [R -> Int], NEW q \in R, NEW x \in Int, NEW p \in R, p # q
  PROVE  Put(f, q, x)[p] = f[p]
  <1>1. q \in DOMAIN f
    OBVIOUS
  <1>2. Put(f, q, x) = [f EXCEPT ![q] = x]
    BY <1>1, Zenon DEF Put
  <1> QED
    BY <1>2

\* The array as the search finds it: layers of distance 0 at the ends of the texts.
LEMMA FirstLayers ==
  ASSUME NEW S, NEW a \in Seq(S), NEW b \in Seq(S), a # <<>>, b # <<>>, NEW V, Fits(V, a, b),
         NEW v0 \in [Room(V) -> Int]
  PROVE  Layered(V, a, b, 0, FirstArray(a, b, v0))
  <1> DEFINE N == Len(a)
             M == Len(b)
             m == Far(a, b)
             h == HalfDown(a, b)
             l == HalfUp(a, b)
             R == Room(V)
             w == FirstArray(a, b, v0)
             g == Fore(a, b, 0, w)
             bk == Back(a, b, 0, w)
  <1>1. N \in Nat \ {0} /\ M \in Nat \ {0} /\ Halves(N, M, h, l)
    <2>1. Halves(N, M, h, l)
      BY HalfFacts
    <2> QED
      BY <2>1
  <1>2. m \in R /\ m + 1 \in R /\ 3 * m + 1 \in R /\ 3 * m + 2 \in R /\ m \in Nat \ {0}
    <2>1. m \in Nat \ {0} /\ 4 * m + 3 <= V /\ V \in Nat
      BY SearchFacts DEF Fits
    <2> HIDE DEF m
    <2>2. m \in 0 .. V /\ m + 1 \in 0 .. V /\ 3 * m + 1 \in 0 .. V /\ 3 * m + 2 \in 0 .. V
      BY ONLY <2>1
    <2> QED
      BY <2>1, <2>2 DEF Room
  <1>3. /\ Search(a, b).down = m /\ Search(a, b).up + Search(a, b).upK = 3 * m + 2
        /\ Search(a, b).up + Search(a, b).upK - 1 = 3 * m + 1
    <2> DEFINE u == Search(a, b).upK
               p == Search(a, b).up
    <2>1. Search(a, b).down = m /\ u \in Int /\ p = (3 * m + 2) - u
      BY SearchFacts
    <2> HIDE DEF m, u, p
    <2>2. p + u = 3 * m + 2 /\ p + u - 1 = 3 * m + 1
      BY ONLY <1>2, <2>1
    <2> QED
      BY <2>1, <2>2 DEF u, p
  <1>4. w = Put(Put(Put(Put(v0, m + 1, 0), m, 0), 3 * m + 1, N), 3 * m + 2, N)
    BY <1>3, Zenon DEF FirstArray
  <1>6. w \in [R -> Int] /\ w[m] = 0 /\ w[3 * m + 2] = N
    <2> DEFINE p == 3 * m + 1
               q == 3 * m + 2
               v1 == Put(v0, m + 1, 0)
               v2 == Put(v1, m, 0)
               v3 == Put(v2, p, N)
               v4 == Put(v3, q, N)
    <2>0. /\ N \in Int /\ 0 \in Int /\ v0 \in [R -> Int] /\ m + 1 \in R /\ m \in R /\ p \in R /\ q \in R
          /\ p # m /\ q # m
      <3> HIDE DEF m
      <3> QED
        BY <1>1, <1>2
    <2>5. w = v4
      BY <1>4, Zenon
    <2> HIDE DEF N, R, w, m, p, q
    <2>1. v1 \in [R -> Int]
      BY <2>0, PutFacts
    <2> HIDE DEF v1
    <2>2. v2 \in [R -> Int] /\ v2[m] = 0
      <3>1. v2 \in [R -> Int]
        BY <2>0, <2>1, PutFacts
      <3>2. v2[m] = 0
        BY <2>0, <2>1, PutThere
      <3> QED
        BY <3>1, <3>2
    <2> HIDE DEF v2
    <2>3. v3 \in [R -> Int] /\ v3[m] = 0
      <3>1. v3 \in [R -> Int]
        BY <2>0, <2>2, PutFacts
      <3>2. v3[m] = v2[m]
        BY <2>0, <2>2, PutElse
      <3> QED
        BY <2>2, <3>1, <3>2
    <2> HIDE DEF v3
    <2>4. v4 \in [R -> Int] /\ v4[m] = 0 /\ v4[q] = N
      <3>1. v4 \in [R -> Int]
        BY <2>0, <2>3, PutFacts
      <3>2. v4[m] = v3[m]
        BY <2>0, <2>3, PutElse
      <3>3. v4[q] = N
        BY <2>0, <2>3, PutThere
      <3> QED
        BY <2>3, <3>1, <3>2, <3>3
    <2> QED
      BY <2>4, <2>5 DEF q
  <1>7. ForeAt(a, b, 0, 0) = m /\ BackAt(a, b, 0, 0) = 3 * m + 2
    <2> HIDE DEF m
    <2>1. m + (2 * 0 - 0) = m /\ (3 * m + 2) + (0 - 2 * 0) = 3 * m + 2
      BY <1>2
    <2> QED
      BY <2>1 DEF ForeAt, BackAt, m
  <1>8. g \in [0 .. 0 -> Int] /\ g[0] = 0 /\ bk \in [0 .. 0 -> Int] /\ bk[0] = 0
    <2>1. \A i \in 0 .. 0 : i = 0
      OBVIOUS
    <2>2. 0 \in 0 .. 0 /\ N - N = 0
      BY <1>1
    <2>3. g = [i \in 0 .. 0 |-> w[ForeAt(a, b, 0, i)]] /\ bk = [i \in 0 .. 0 |-> N - w[BackAt(a, b, 0, i)]]
      BY DEF Fore, Back
    <2> HIDE DEF g, bk, N, w, m
    <2> QED
      BY <1>6, <1>7, <2>1, <2>2, <2>3
  <1> HIDE DEF g, bk, N, M, h, l, R, w
  <1>9. Within(N, M, h, l, 0, g) /\ Within(N, M, h, l, 0, bk)
    BY <1>1, <1>8, WithinFirst
  <1>10. Reached(0, g) /\ Reached(0, bk)
    BY <1>8 DEF Reached
  <1> QED
    BY <1>6, <1>9, <1>10, Zenon DEF Layered, g, bk, N, M, h, l, R, w

\* No layer of the distance the search goes to leaves it without a snake.
LEMMA LastLayers ==
  ASSUME NEW S, NEW a \in Seq(S), NEW b \in Seq(S), NEW V, Fits(V, a, b), NEW w
  PROVE  ~ Layered(V, a, b, Far(a, b), w)
  <1> SUFFICES ASSUME Layered(V, a, b, Far(a, b), w) PROVE FALSE
    OBVIOUS
  <1> DEFINE N == Len(a)
             M == Len(b)
             d == Far(a, b)
             h == HalfDown(a, b)
             l == HalfUp(a, b)
             R == Room(V)
             g == IF Search(a, b).odd THEN Fore(a, b, d, w) ELSE Back(a, b, d, w)
  <1>1. N \in Nat /\ M \in Nat /\ Halves(N, M, h, l) /\ d \in Nat \ {0} /\ N + M <= d /\ d = N + M + 1
    <2>1. Halves(N, M, h, l)
      BY HalfFacts
    <2>2. N \in Nat /\ M \in Nat /\ d = N + M + 1
      BY DEF Far
    <2> HIDE DEF N, M, d
    <2> QED
      BY <2>1, <2>2
  <1>2. w \in [R -> Int] /\ Reached(d, g) /\ Within(N, M, h, l, d, g)
    <2>1. w \in [R -> Int] /\ Within(N, M, h, l, d, g)
      BY Zenon DEF Layered
    <2>2. Reached(d, g)
      BY Zenon DEF Layered
    <2> QED
      BY <2>1, <2>2
  <1>3. g \in [0 .. d -> Int]
    <2>1. d \in 1 .. Far(a, b)
      BY <1>1
    <2>2. \A i \in 0 .. d : ForeAt(a, b, d, i) \in R /\ BackAt(a, b, d, i) \in R
      BY <2>1, BackPlaces
    <2> HIDE DEF R, d
    <2>3. \A i \in 0 .. d : w[ForeAt(a, b, d, i)] \in Int /\ N - w[BackAt(a, b, d, i)] \in Int
      BY <1>1, <1>2, <2>2
    <2>4. Fore(a, b, d, w) \in [0 .. d -> Int] /\ Back(a, b, d, w) \in [0 .. d -> Int]
      BY <2>3 DEF Fore, Back
    <2> QED
      BY <2>4, Zenon
  <1> HIDE DEF g, N, M, h, l, R, d
  <1>4. PICK i \in 0 .. d : l <= i /\ i <= h + d /\ ~ (g[i] < N /\ g[i] - 2 * i + d < M)
    BY <1>1, <1>2, <1>3, SearchEnds
  <1>5. h \in Int /\ l \in Int
    BY <1>1 DEF Halves
  <1>6. g[i] < N
    BY <1>2, <1>4 DEF Within, Upper
  <1>7. g[i] - 2 * i + d < M
    <2> DEFINE j == d - i
               k == -l
               t == Turned(d, g)
    <2>1. j \in 0 .. d /\ j <= k + d /\ d - j = i
      BY <1>1, <1>4, <1>5
    <2>2. t[j] = g[d - j] - 2 * (d - j) + d
      BY <2>1 DEF Turned
    <2>3. Upper(M, k, d, t)
      BY <1>2 DEF Within
    <2> HIDE DEF t, k, j
    <2>4. t[j] < M
      BY <2>1, <2>3 DEF Upper
    <2> QED
      BY <2>1, <2>2, <2>4
  <1> QED
    BY <1>4, <1>6, <1>7

\* The search of two texts that are not empty finds a snake of them.
THEOREM SnakeFound ==
  ASSUME NEW S, NEW a \in Seq(S), NEW b \in Seq(S), a # <<>>, b # <<>>, NEW V, Fits(V, a, b),
         NEW v0 \in [Room(V) -> Int], NEW st, st = MiddleSnake(a, b, v0)
  PROVE  GoodSnake(a, b, st.snake) /\ st.v \in [Room(V) -> Int]
  <1> DEFINE w == FirstArray(a, b, v0)
             first == Begun(a, w)
  <1>1. Layered(V, a, b, 0, w)
    BY FirstLayers
  <1>2. first = [v |-> w, snake |-> <<>>, z |-> 0]
    BY DEF Begun
  <1>3. w \in [Room(V) -> Int]
    BY <1>1 DEF Layered
  <1> HIDE DEF w, first
  <1>4. first \in SearchStates(V) /\ Goes(first) /\ first.v = w
    BY <1>2, <1>3 DEF SearchStates, Goes
  <1>5. first \in DistStates(V, a, b, 0)
    BY <1>1, <1>4 DEF DistStates, DistState
  <1>6. st = DistLoop(a, b, first)[Far(a, b)]
    <2>1. Search(a, b).max = Far(a, b)
      BY SearchFacts
    <2> QED
      BY <2>1, MiddleSnakeLoop, Zenon DEF w, first
  <1>7. st \in DistStates(V, a, b, Far(a, b))
    BY <1>5, <1>6, DistLoopStates
  <1>8. st \in SearchStates(V) /\ DistState(V, a, b, Far(a, b), st)
    BY <1>7 DEF DistStates
  <1>9. GoodSnake(a, b, st.snake)
    BY <1>8, LastLayers DEF DistState
  <1> QED
    BY <1>8, <1>9 DEF SearchStates

(***************************************************************************)
(* algorithm_lcs keeps the invariant, whatever the next subproblem is.     *)
(***************************************************************************)

\* What "in order" says of each subproblem.
LEMMA OrderedFacts ==
  ASSUME NEW t, NEW st, Ordered(t, st)
  PROVE  /\ Len(st) \in Nat /\ st \in Seq([s : Points, e : Points])
         /\ \A j \in 1 .. Len(st) :
              /\ st[j].s \in Points /\ st[j].e \in Points
              /\ Before(st[j].s, st[j].e) /\ Before(st[j].e, <<Len(t[1]), Len(t[2])>>)
         /\ \A j, k \in 1 .. Len(st) : j < k => Before(st[j].e, st[k].s)
  <1> DEFINE B == [s : Points, e : Points]
  <1>1. st \in Seq(B)
    BY DEF Ordered
  <1>2. \A x \in B : x.s \in Points /\ x.e \in Points
    OBVIOUS
  <1> HIDE DEF B
  <1>3. Len(st) \in Nat /\ \A j \in 1 .. Len(st) : st[j] \in B
    BY <1>1
  <1>4. \A j \in 1 .. Len(st) : st[j].s \in Points /\ st[j].e \in Points
    BY <1>2, <1>3, Zenon
  <1>5. \A j \in 1 .. Len(st) : Before(st[j].s, st[j].e) /\ Before(st[j].e, <<Len(t[1]), Len(t[2])>>)
    BY Zenon DEF Ordered
  <1>6. \A j, k \in 1 .. Len(st) : j < k => Before(st[j].e, st[k].s)
    BY Zenon DEF Ordered
  <1> QED
    BY <1>1, <1>3, <1>4, <1>5, <1>6 DEF B

\* What is between the subproblems begins and ends where it should.
LEMMA GapPlaces ==
  ASSUME NEW S, NEW t, NEW m, Texts(S, t, m), NEW st, Ordered(t, st), NEW i \in 0 .. Len(st)
  PROVE  /\ From(st, i) \in Points /\ To(t, st, i + 1) \in Points
         /\ Before(From(st, i), To(t, st, i + 1))
         /\ Before(To(t, st, i + 1), <<Len(t[1]), Len(t[2])>>)
  <1> DEFINE z == <<Len(t[1]), Len(t[2])>>
  <1>1. /\ z \in Points /\ \A p \in Points : Before(<<0, 0>>, p) /\ Before(p, p)
        /\ <<0, 0>> \in Points
    <2>1. Len(t[1]) \in Nat /\ Len(t[2]) \in Nat
      BY DEF Texts, Sides
    <2> QED
      BY <2>1 DEF Points, Before
  <1>2. /\ Len(st) \in Nat
        /\ \A j \in 1 .. Len(st) : /\ st[j].s \in Points /\ st[j].e \in Points
                                   /\ Before(st[j].s, st[j].e) /\ Before(st[j].e, z)
        /\ \A j, k \in 1 .. Len(st) : j < k => Before(st[j].e, st[k].s)
    BY OrderedFacts
  <1>3. \A p, q, r \in Points : Before(p, q) /\ Before(q, r) => Before(p, r)
    BY DEF Before, Points
  <1> HIDE DEF z
  <1>4. From(st, i) \in Points /\ (i # 0 => i \in 1 .. Len(st) /\ From(st, i) = st[i].e)
    BY <1>1, <1>2 DEF From
  <1>5. i = 0 => From(st, i) = <<0, 0>>
    BY DEF From
  <1>6. CASE i = Len(st)
    <2>1. To(t, st, i + 1) = z
      BY <1>2, <1>6 DEF To, z
    <2>2. Before(From(st, i), z)
      BY <1>1, <1>2, <1>4, <1>5
    <2> QED
      BY <1>1, <1>4, <2>1, <2>2 DEF z
  <1>7. CASE i # Len(st)
    <2>1. i + 1 \in 1 .. Len(st) /\ i + 1 # Len(st) + 1 /\ (i # 0 => i < i + 1)
      BY <1>2, <1>7
    <2>2. To(t, st, i + 1) = st[i + 1].s
      BY <2>1 DEF To
    <2>3. Before(From(st, i), st[i + 1].s)
      BY <1>1, <1>2, <1>4, <1>5, <2>1
    <2>4. Before(st[i + 1].s, z)
      BY <1>1, <1>2, <1>3, <2>1
    <2> QED
      BY <1>2, <1>4, <2>1, <2>2, <2>3, <2>4 DEF z
  <1> QED
    BY <1>6, <1>7

\* Marking in the first subproblem leaves the links outside of it.
LEMMA GapsStay ==
  ASSUME NEW S, NEW t, NEW m, NEW st, NEW w, Solving(S, t, m, st, w), st # <<>>,
         NEW m1, Texts(S, t, m1),
         \A f \in Sides : \A p \in 1 .. Len(t[f]) :
           p <= st[1].s[f] \/ st[1].e[f] < p => (m1[f][p] <=> m[f][p]),
         NEW i \in 0 .. Len(st)
  PROVE  Linked(t, Marked(m1), From(st, i), To(t, st, i + 1))
  <1> DEFINE p == From(st, i)
             q == To(t, st, i + 1)
             s0 == st[1].s
             e0 == st[1].e
  <1>1. /\ Texts(S, t, m) /\ Ordered(t, st) /\ Linked(t, Marked(m), p, q)
    BY DEF Solving
  <1>2. /\ p \in Points /\ q \in Points /\ Before(p, q) /\ Before(q, <<Len(t[1]), Len(t[2])>>)
    BY <1>1, GapPlaces
  <1>3. Len(st) \in Nat \ {0} /\ 1 \in 1 .. Len(st)
    BY <1>1 DEF Ordered
  <1>4. s0 \in Points /\ e0 \in Points
    BY <1>1, <1>3, OrderedFacts
  <1>5. Before(q, s0) \/ Before(e0, p)
    <2>1. CASE i = 0
      <3>1. q = s0
        BY <1>3, <2>1 DEF To
      <3> QED
        BY <1>4, <3>1 DEF Before, Points
    <2>2. CASE i # 0
      <3>1. i \in 1 .. Len(st) /\ p = st[i].e
        BY <2>2 DEF From
      <3>2. CASE i = 1
        BY <1>4, <3>1, <3>2 DEF Before, Points
      <3>3. CASE i # 1
        <4>1. Before(e0, st[i].s) /\ Before(st[i].s, st[i].e) /\ st[i].s \in Points
          <5>1. \A x \in 1 .. Len(st) : x # 1 => 1 < x
            OBVIOUS
          <5>2. Before(e0, st[i].s)
            BY <1>1, <1>3, <3>1, <3>3, <5>1, OrderedFacts
          <5>3. Before(st[i].s, st[i].e) /\ st[i].s \in Points
            BY <1>1, <3>1, OrderedFacts
          <5> QED
            BY <5>2, <5>3
        <4> QED
          <5> DEFINE y == st[i].s
          <5>1. y \in Points /\ Before(e0, y) /\ Before(y, p)
            BY <3>1, <4>1
          <5> HIDE DEF y, e0, p
          <5> QED
            BY <1>2, <1>4, <5>1 DEF Before, Points
      <3> QED
        BY <3>2, <3>3
    <2> QED
      BY <2>1, <2>2
  <1>6. /\ \A f \in Sides : /\ p[f] \in Nat /\ q[f] \in Nat /\ s0[f] \in Nat /\ e0[f] \in Nat
                            /\ q[f] <= Len(t[f]) /\ Len(t[f]) \in Nat
                            /\ q[f] <= s0[f] \/ e0[f] <= p[f]
    <2>1. Len(t[1]) \in Nat /\ Len(t[2]) \in Nat
      BY <1>1 DEF Texts, Sides
    <2> HIDE DEF p, q, s0, e0
    <2> QED
      BY <1>2, <1>4, <1>5, <2>1 DEF Points, Before, Sides
  <1> HIDE DEF p, q
  <1>7. ASSUME NEW f \in Sides, NEW k \in p[f] + 1 .. q[f]
        PROVE  k \in 1 .. Len(t[f]) /\ (k <= s0[f] \/ e0[f] < k)
    <2> HIDE DEF s0, e0
    <2> QED
      BY <1>6
  <1>8. \A f \in Sides : \A k \in 1 .. Len(t[f]) :
          (k \in Marked(m)[f] <=> m[f][k]) /\ (k \in Marked(m1)[f] <=> m1[f][k])
    <2>1. \A f \in Sides : DOMAIN m[f] = 1 .. Len(t[f]) /\ DOMAIN m1[f] = 1 .. Len(t[f])
      BY <1>1 DEF Texts
    <2>2. \A f \in Sides : /\ Marked(m)[f] = {x \in DOMAIN m[f] : m[f][x]}
                           /\ Marked(m1)[f] = {x \in DOMAIN m1[f] : m1[f][x]}
      BY DEF Marked
    <2> QED
      BY <2>1, <2>2, Zenon
  <1>9. \A f \in Sides : \A k \in p[f] + 1 .. q[f] : k \in Marked(m)[f] <=> k \in Marked(m1)[f]
    BY <1>7, <1>8, Zenon
  <1>10. SameMarks(Marked(m), Marked(m1), p, q)
    BY <1>9 DEF SameMarks, Sides
  <1>11. Linked(t, Marked(m1), p, q)
    BY <1>1, <1>2, <1>10, LinkedStays
  <1> QED
    BY <1>11 DEF p, q

\* The first subproblem is done with.
LEMMA SolvingMarked ==
  ASSUME NEW S, NEW t, NEW m, NEW st, NEW w, Solving(S, t, m, st, w), st # <<>>,
         NEW m1, Texts(S, t, m1),
         \A f \in Sides : \A p \in 1 .. Len(t[f]) :
           p <= st[1].s[f] \/ st[1].e[f] < p => (m1[f][p] <=> m[f][p]),
         Linked(t, Marked(m1), st[1].s, st[1].e)
  PROVE  Solving(S, t, m1, Tail(st), w)
  <1> DEFINE n == Len(st)
             tl == Tail(st)
             z == <<Len(t[1]), Len(t[2])>>
  <1>1. /\ Ordered(t, st) /\ w \in [0 .. ArrayEnd(t[1], t[2]) -> Int]
        /\ \A i \in 1 .. n : Untouched(m, st[i])
        /\ \A f \in Sides : Len(t[f]) \in Nat
    BY DEF Solving, Texts
  <1>2. /\ st \in Seq([s : Points, e : Points]) /\ n \in Nat \ {0}
        /\ tl \in Seq([s : Points, e : Points]) /\ Len(tl) = n - 1
        /\ \A i \in 1 .. n - 1 : tl[i] = st[i + 1]
    BY <1>1 DEF Ordered
  <1>3. \A i \in 0 .. n : Linked(t, Marked(m1), From(st, i), To(t, st, i + 1))
    BY GapsStay
  <1> HIDE DEF n, tl, z
  <1>4. \A i \in 1 .. n - 1 : i + 1 \in 1 .. n
    BY <1>2
  <1>5. Ordered(t, tl)
    <2>1. \A i \in 1 .. n : Before(st[i].s, st[i].e) /\ Before(st[i].e, z)
      BY <1>1 DEF Ordered, n, z
    <2>2. \A i, j \in 1 .. n : i < j => Before(st[i].e, st[j].s)
      BY <1>1 DEF Ordered, n
    <2>3. \A i \in 1 .. n - 1 : Before(tl[i].s, tl[i].e) /\ Before(tl[i].e, z)
      BY <1>2, <1>4, <2>1
    <2>4. ASSUME NEW i \in 1 .. n - 1, NEW j \in 1 .. n - 1, i < j PROVE Before(tl[i].e, tl[j].s)
      <3>1. i + 1 < j + 1
        BY <2>4
      <3> QED
        BY <1>2, <1>4, <2>2, <3>1
    <2> QED
      BY <1>2, <2>3, <2>4, Zenon DEF Ordered, z
  <1>6. \A i \in 1 .. Len(tl) : Untouched(m1, tl[i])
    <2> SUFFICES ASSUME NEW i \in 1 .. n - 1, NEW f \in Sides,
                        NEW p \in tl[i].s[f] + 1 .. tl[i].e[f]
                 PROVE  ~ m1[f][p]
      BY <1>2 DEF Untouched
    <2> DEFINE r == st[i + 1]
    <2>1. tl[i] = r /\ i + 1 \in 1 .. n /\ 1 < i + 1 /\ 1 \in 1 .. n
      BY <1>2, <1>4
    <2>2. /\ r.s \in Points /\ r.e \in Points /\ st[1].e \in Points
          /\ Before(st[1].e, r.s) /\ Before(r.e, z)
      BY <1>1, <2>1, OrderedFacts DEF n, z
    <2>3. ~ m[f][p]
      BY <1>1, <2>1 DEF Untouched
    <2>4. r.s[f] \in Nat /\ r.e[f] \in Nat /\ st[1].e[f] \in Nat /\ st[1].e[f] <= r.s[f] /\ r.e[f] <= Len(t[f])
      <3> HIDE DEF r
      <3> QED
        BY <2>2 DEF Points, Before, Sides, z
    <2>5. p \in 1 .. Len(t[f]) /\ st[1].e[f] < p
      <3>1. p \in r.s[f] + 1 .. r.e[f]
        BY <2>1
      <3> HIDE DEF r
      <3> QED
        BY <1>1, <2>4, <3>1
    <2> QED
      BY <2>3, <2>5, Zenon
  <1>7. ASSUME NEW i \in 0 .. Len(tl)
        PROVE  Linked(t, Marked(m1), From(tl, i), To(t, tl, i + 1))
    <2>1. i \in 0 .. n - 1 /\ i + 1 \in 0 .. n /\ 0 \in 0 .. n /\ 1 \in 1 .. n
      BY <1>2
    <2>2. To(t, tl, i + 1) = To(t, st, (i + 1) + 1)
      <3>1. CASE i = n - 1
        <4>1. i + 1 = Len(tl) + 1 /\ (i + 1) + 1 = Len(st) + 1
          BY <1>2, <3>1 DEF n
        <4> QED
          BY <4>1 DEF To
      <3>2. CASE i # n - 1
        <4>1. i + 1 # Len(tl) + 1 /\ (i + 1) + 1 # Len(st) + 1 /\ i + 1 \in 1 .. n - 1
          BY <1>2, <2>1, <3>2 DEF n
        <4> QED
          BY <1>2, <4>1 DEF To
      <3> QED
        BY <3>1, <3>2
    <2>3. CASE i = 0
      <3>1. From(tl, i) = <<0, 0>> /\ From(st, 0) = <<0, 0>> /\ From(st, 1) = st[1].e
        BY <2>3 DEF From
      <3>2. To(t, st, 0 + 1) = st[1].s
        <4>1. 0 + 1 # Len(st) + 1 /\ 0 + 1 = 1
          BY <1>2 DEF n
        <4> QED
          BY <4>1 DEF To
      <3>3. Linked(t, Marked(m1), <<0, 0>>, st[1].s)
        BY <1>3, <2>1, <3>1, <3>2
      <3>4. Linked(t, Marked(m1), st[1].e, To(t, st, (i + 1) + 1))
        <4>1. i + 1 = 1
          BY <2>3
        <4> QED
          BY <1>3, <2>1, <3>1, <4>1
      <3>5. Linked(t, Marked(m1), <<0, 0>>, st[1].e)
        BY <3>3, LinkedTo
      <3> QED
        BY <2>2, <3>1, <3>4, <3>5, LinkedTo
    <2>4. CASE i # 0
      <3>1. i \in 1 .. n - 1 /\ i + 1 # 0
        BY <2>1, <2>4
      <3>2. From(tl, i) = From(st, i + 1)
        BY <1>2, <2>4, <3>1 DEF From
      <3> QED
        BY <1>3, <2>1, <2>2, <3>2
    <2> QED
      BY <2>3, <2>4
  <1> QED
    BY <1>1, <1>5, <1>6, <1>7, Zenon DEF Solving, tl

\* Points come before one another in order.
LEMMA BeforeTo ==
  ASSUME NEW p \in Points, NEW q \in Points, NEW r \in Points, Before(p, q), Before(q, r)
  PROVE  Before(p, r)
  BY DEF Before, Points

\* What is in a part of a subproblem is not marked either.
LEMMA UntouchedPart ==
  ASSUME NEW m, NEW r, NEW x, r.s \in Points, r.e \in Points, x.s \in Points, x.e \in Points,
         Before(r.s, x.s), Before(x.e, r.e), Untouched(m, r)
  PROVE  Untouched(m, x)
  <1> SUFFICES ASSUME NEW f \in Sides, NEW p \in x.s[f] + 1 .. x.e[f] PROVE ~ m[f][p]
    BY DEF Untouched
  <1>1. /\ r.s[f] \in Nat /\ r.e[f] \in Nat /\ x.s[f] \in Nat /\ x.e[f] \in Nat
        /\ r.s[f] <= x.s[f] /\ x.e[f] <= r.e[f]
    BY DEF Points, Before, Sides
  <1>2. p \in r.s[f] + 1 .. r.e[f]
    BY <1>1
  <1> QED
    BY <1>2 DEF Untouched

\* The first subproblem is divided into two.
LEMMA SolvingSplit ==
  ASSUME NEW S, NEW t, NEW m, NEW st, NEW w, Solving(S, t, m, st, w), st # <<>>,
         NEW r1 \in [s : Points, e : Points], NEW r2 \in [s : Points, e : Points],
         Before(st[1].s, r1.s), Before(r1.s, r1.e), Before(r1.e, r2.s), Before(r2.s, r2.e),
         Before(r2.e, st[1].e),
         Linked(t, Marked(m), st[1].s, r1.s), Linked(t, Marked(m), r1.e, r2.s),
         Linked(t, Marked(m), r2.e, st[1].e),
         NEW w1 \in [0 .. ArrayEnd(t[1], t[2]) -> Int]
  PROVE  Solving(S, t, m, <<r1, r2>> \o Tail(st), w1)
  <1> DEFINE n == Len(st)
             B == [s : Points, e : Points]
             new == <<r1, r2>> \o Tail(st)
             z == <<Len(t[1]), Len(t[2])>>
             s0 == st[1].s
             e0 == st[1].e
  <1>1. /\ Texts(S, t, m) /\ Ordered(t, st)
        /\ \A i \in 1 .. n : Untouched(m, st[i])
        /\ \A i \in 0 .. n : Linked(t, Marked(m), From(st, i), To(t, st, i + 1))
    BY DEF Solving
  <1>2. /\ n \in Nat /\ st \in Seq(B)
        /\ \A j \in 1 .. n : /\ st[j].s \in Points /\ st[j].e \in Points
                             /\ Before(st[j].s, st[j].e) /\ Before(st[j].e, z)
        /\ \A j, k \in 1 .. n : j < k => Before(st[j].e, st[k].s)
    BY <1>1, OrderedFacts
  <1>3. r1.s \in Points /\ r1.e \in Points /\ r2.s \in Points /\ r2.e \in Points
    OBVIOUS
  <1>4. z \in Points
    <2>1. Len(t[1]) \in Nat /\ Len(t[2]) \in Nat
      BY <1>1 DEF Texts, Sides
    <2> QED
      BY <2>1 DEF Points
  <1>5. /\ n \in Nat \ {0} /\ new \in Seq(B) /\ Len(new) = n + 1 /\ new[1] = r1 /\ new[2] = r2
        /\ \A i \in 3 .. n + 1 : new[i] = st[i - 1]
    <2>1. r1 \in B /\ r2 \in B
      OBVIOUS
    <2> HIDE DEF B
    <2>2. n # 0 /\ st = <<st[1]>> \o Tail(st) /\ Tail(st) \in Seq(B) /\ Len(Tail(st)) = n - 1
      BY <1>2
    <2>3. \A i \in 1 .. n - 1 : Tail(st)[i] = st[i + 1]
      BY <1>2
    <2> DEFINE tl == Tail(st)
    <2> HIDE DEF tl
    <2>4. /\ <<r1, r2>> \o tl \in Seq(B) /\ Len(<<r1, r2>> \o tl) = 2 + Len(tl)
          /\ (<<r1, r2>> \o tl)[1] = r1 /\ (<<r1, r2>> \o tl)[2] = r2
          /\ \A i \in 3 .. 2 + Len(tl) : (<<r1, r2>> \o tl)[i] = tl[i - 2]
      <3>1. tl \in Seq(B)
        BY <2>2 DEF tl
      <3> QED
        BY <2>1, <3>1
    <2>5. \A i \in 3 .. n + 1 : i - 2 \in 1 .. n - 1 /\ (i - 2) + 1 = i - 1 /\ 2 + (n - 1) = n + 1
      BY <1>2
    <2>6. n \in Nat \ {0} /\ 2 + (n - 1) = n + 1
      BY <1>2, <2>2
    <2> HIDE DEF n
    <2> QED
      BY <2>2, <2>3, <2>4, <2>5, <2>6 DEF tl
  <1> HIDE DEF n, B, new, z, s0, e0
  <1>6. 1 \in 1 .. n /\ s0 \in Points /\ e0 \in Points /\ Before(s0, e0) /\ Before(e0, z)
    <2>1. 1 \in 1 .. n
      BY <1>5
    <2> QED
      BY <1>2, <2>1 DEF s0, e0
  <1>7. \A i \in 1 .. n + 1 : i = 1 \/ i = 2 \/ (i \in 3 .. n + 1 /\ i - 1 \in 2 .. n /\ i - 1 \in 1 .. n)
    BY <1>5
  <1>8. Before(r1.e, e0) /\ Before(r1.e, z) /\ Before(r2.e, z) /\ Before(s0, r2.s) /\ Before(r1.e, r2.e)
    <2>1. Before(s0, r1.s) /\ Before(r2.e, e0)
      BY DEF s0, e0
    <2>2. Before(r1.e, r2.e)
      BY <1>3, BeforeTo
    <2>3. Before(r1.e, e0) /\ Before(r2.e, z)
      BY <1>3, <1>4, <1>6, <2>1, <2>2, BeforeTo
    <2>4. Before(r1.e, z)
      BY <1>3, <1>4, <1>6, <2>3, BeforeTo
    <2>5. Before(s0, r1.e)
      BY <1>3, <1>6, <2>1, BeforeTo
    <2>6. Before(s0, r2.s)
      BY <1>3, <1>6, <2>5, BeforeTo
    <2> QED
      BY <2>2, <2>3, <2>4, <2>6
  <1>9. \A i \in 1 .. n + 1 : Before(new[i].s, new[i].e) /\ Before(new[i].e, z)
    BY <1>2, <1>5, <1>7, <1>8
  <1>10. \A k \in 2 .. n : Before(e0, st[k].s) /\ st[k].s \in Points
    <2>1. \A k \in 2 .. n : k \in 1 .. n /\ 1 < k
      BY <1>5
    <2> QED
      BY <1>2, <1>6, <2>1 DEF e0
  <1>11. ASSUME NEW i \in 1 .. n + 1, NEW j \in 1 .. n + 1, i < j PROVE Before(new[i].e, new[j].s)
    <2>1. CASE j = 2
      <3>1. i = 1
        BY <1>11, <2>1
      <3> QED
        BY <1>5, <2>1, <3>1
    <2>2. CASE j \in 3 .. n + 1
      <3>1. new[j] = st[j - 1] /\ j - 1 \in 2 .. n /\ j - 1 \in 1 .. n
        BY <1>5, <2>2
      <3>2. Before(e0, st[j - 1].s) /\ st[j - 1].s \in Points
        BY <1>10, <3>1
      <3>3. CASE i = 1 \/ i = 2
        <4>1. new[i].e \in Points /\ Before(new[i].e, e0)
          <5>1. Before(r2.e, e0)
            BY DEF e0
          <5> QED
            BY <1>3, <1>5, <1>8, <3>3, <5>1
        <4>2. Before(new[i].e, st[j - 1].s)
          BY <1>6, <3>2, <4>1, BeforeTo
        <4> QED
          BY <3>1, <4>2
      <3>4. CASE i \in 3 .. n + 1
        <4>1. new[i] = st[i - 1] /\ i - 1 \in 1 .. n /\ i - 1 < j - 1
          BY <1>5, <1>11, <3>4
        <4> QED
          BY <1>2, <3>1, <4>1
      <3> QED
        BY <1>7, <3>3, <3>4
    <2>3. j # 1
      BY <1>11
    <2> QED
      BY <1>7, <2>1, <2>2, <2>3
  <1>12. Ordered(t, new)
    BY <1>5, <1>9, <1>11, Zenon DEF Ordered, B, z
  <1>13. \A i \in 1 .. Len(new) : Untouched(m, new[i])
    <2>1. Untouched(m, r1) /\ Untouched(m, r2)
      <3>1. Untouched(m, st[1]) /\ st[1].s \in Points /\ st[1].e \in Points
        BY <1>1, <1>6 DEF s0, e0
      <3>2. Before(st[1].s, r1.s) /\ Before(r1.e, st[1].e) /\ Before(st[1].s, r2.s) /\ Before(r2.e, st[1].e)
        BY <1>8 DEF s0, e0
      <3>3. Untouched(m, r1)
        BY <1>3, <3>1, <3>2, UntouchedPart
      <3>4. Untouched(m, r2)
        BY <1>3, <3>1, <3>2, UntouchedPart
      <3> QED
        BY <3>3, <3>4
    <2>2. \A i \in 1 .. n + 1 : Untouched(m, new[i])
      BY <1>1, <1>5, <1>7, <2>1
    <2> QED
      BY <1>5, <2>2
  <1>14. ASSUME NEW i \in 0 .. Len(new)
         PROVE  Linked(t, Marked(m), From(new, i), To(t, new, i + 1))
    <2>0. i \in 0 .. n + 1 /\ (i = 0 \/ i = 1 \/ i \in 2 .. n + 1)
      BY <1>5
    <2>1. CASE i = 0
      <3>1. From(new, i) = <<0, 0>> /\ From(st, 0) = <<0, 0>>
        BY <2>1 DEF From
      <3>2. 1 # Len(new) + 1 /\ 1 # Len(st) + 1 /\ 0 + 1 = 1 /\ 0 \in 0 .. n
        BY <1>5 DEF n
      <3>3. To(t, new, i + 1) = r1.s /\ To(t, st, 0 + 1) = st[1].s
        BY <1>5, <2>1, <3>2 DEF To
      <3>4. Linked(t, Marked(m), <<0, 0>>, st[1].s)
        BY <1>1, <3>1, <3>2, <3>3
      <3>5. Linked(t, Marked(m), <<0, 0>>, r1.s)
        BY <3>4, LinkedTo
      <3> QED
        BY <3>1, <3>3, <3>5
    <2>2. CASE i = 1
      <3>1. 2 # Len(new) + 1 /\ i + 1 = 2 /\ i # 0
        BY <1>5, <2>2
      <3>2. From(new, i) = r1.e /\ To(t, new, i + 1) = r2.s
        BY <1>5, <2>2, <3>1 DEF From, To
      <3> QED
        BY <3>2
    <2>3. CASE i \in 2 .. n + 1
      <3>1. i # 0 /\ i - 1 \in 1 .. n /\ i - 1 \in 0 .. n /\ i - 1 # 0 /\ (i - 1) + 1 = i
        BY <1>5, <2>3
      <3>2. To(t, new, i + 1) = To(t, st, (i - 1) + 1)
        <4>1. CASE i = n + 1
          <5>1. i + 1 = Len(new) + 1 /\ (i - 1) + 1 = Len(st) + 1
            BY <1>5, <3>1, <4>1 DEF n
          <5> QED
            BY <5>1 DEF To
        <4>2. CASE i # n + 1
          <5>1. i + 1 # Len(new) + 1 /\ (i - 1) + 1 # Len(st) + 1 /\ i + 1 \in 3 .. n + 1 /\ (i + 1) - 1 = i
            BY <1>5, <2>3, <3>1, <4>2 DEF n
          <5>2. new[i + 1] = st[i]
            BY <1>5, <5>1
          <5> QED
            BY <3>1, <5>1, <5>2 DEF To
        <4> QED
          BY <4>1, <4>2
      <3>3. Linked(t, Marked(m), st[i - 1].e, To(t, new, i + 1))
        <4>1. From(st, i - 1) = st[i - 1].e
          BY <3>1 DEF From
        <4> QED
          BY <1>1, <3>1, <3>2, <4>1
      <3>4. CASE i = 2
        <4>1. From(new, i) = r2.e /\ i - 1 = 1
          BY <1>5, <3>4 DEF From
        <4>2. Linked(t, Marked(m), r2.e, st[1].e) /\ Linked(t, Marked(m), st[1].e, To(t, new, i + 1))
          BY <3>3, <4>1
        <4>3. Linked(t, Marked(m), r2.e, To(t, new, i + 1))
          BY <4>2, LinkedTo
        <4> QED
          BY <4>1, <4>3
      <3>5. CASE i # 2
        <4>1. i \in 3 .. n + 1
          BY <2>3, <3>5
        <4>2. From(new, i) = st[i - 1].e
          BY <1>5, <3>1, <4>1 DEF From
        <4> QED
          BY <3>3, <4>2
      <3> QED
        BY <3>4, <3>5
    <2> QED
      BY <2>0, <2>1, <2>2, <2>3
  <1> QED
    BY <1>1, <1>12, <1>13, <1>14, Zenon DEF Solving, new

\* What two ranges have in common at the start, ...
LEMMA SameFacts ==
  ASSUME NEW s \in Points, NEW e \in Points, Before(s, e), NEW n, n = Same(s, e)
  PROVE  /\ n \in Nat /\ s[1] + n <= e[1] /\ s[2] + n <= e[2]
         /\ \A k \in 0 .. n - 1 : zids[1][(s[1] + k) + 1] = zids[2][(s[2] + k) + 1]
  <1> DEFINE N == e[1] - s[1]
             Ok == {i \in 0 .. N - 1 :
                      s[2] + i < e[2] /\ At(zids[1], s[1] + i) = At(zids[2], s[2] + i)}
  <1>1. /\ s[1] \in Nat /\ s[2] \in Nat /\ e[1] \in Nat /\ e[2] \in Nat
        /\ s[1] <= e[1] /\ s[2] <= e[2] /\ N \in Nat
    BY DEF Points, Before
  <1>2. n = Run(N, Ok)
    BY DEF Same
  <1>3. \A i \in Ok : s[2] + i < e[2] /\ At(zids[1], s[1] + i) = At(zids[2], s[2] + i)
    OBVIOUS
  <1> HIDE DEF Ok
  <1>4. n \in 0 .. N /\ 0 .. n - 1 \subseteq Ok
    BY <1>1, <1>2, RunStops
  <1>5. s[1] + n <= e[1] /\ s[2] + n <= e[2]
    <2>1. n # 0 => n - 1 \in Ok
      BY <1>4
    <2>2. n # 0 => s[2] + (n - 1) < e[2]
      BY <1>3, <2>1
    <2> QED
      BY <1>1, <1>4, <2>2
  <1>6. \A k \in 0 .. n - 1 : zids[1][(s[1] + k) + 1] = zids[2][(s[2] + k) + 1]
    BY <1>3, <1>4 DEF At
  <1> QED
    BY <1>1, <1>4, <1>5, <1>6

\* ... and at the end.
LEMMA SameBackFacts ==
  ASSUME NEW s \in Points, NEW e \in Points, Before(s, e), NEW n, n = SameBack(s, e)
  PROVE  /\ n \in Nat /\ s[1] <= e[1] - n /\ s[2] <= e[2] - n
         /\ \A k \in 0 .. n - 1 : zids[1][((e[1] - n) + k) + 1] = zids[2][((e[2] - n) + k) + 1]
  <1> DEFINE N == e[1] - s[1]
             Ok == {i \in 0 .. N - 1 :
                      s[2] < e[2] - i /\ At(zids[1], e[1] - i - 1) = At(zids[2], e[2] - i - 1)}
  <1>1. /\ s[1] \in Nat /\ s[2] \in Nat /\ e[1] \in Nat /\ e[2] \in Nat
        /\ s[1] <= e[1] /\ s[2] <= e[2] /\ N \in Nat
    BY DEF Points, Before
  <1>2. n = Run(N, Ok)
    BY DEF SameBack
  <1>3. \A i \in Ok : s[2] < e[2] - i /\ At(zids[1], e[1] - i - 1) = At(zids[2], e[2] - i - 1)
    OBVIOUS
  <1> HIDE DEF Ok
  <1>4. n \in 0 .. N /\ 0 .. n - 1 \subseteq Ok
    BY <1>1, <1>2, RunStops
  <1>5. s[1] <= e[1] - n /\ s[2] <= e[2] - n
    <2>1. n # 0 => n - 1 \in Ok
      BY <1>4
    <2>2. n # 0 => s[2] < e[2] - (n - 1)
      BY <1>3, <2>1
    <2> QED
      BY <1>1, <1>4, <2>2
  <1>6. ASSUME NEW k \in 0 .. n - 1
        PROVE  zids[1][((e[1] - n) + k) + 1] = zids[2][((e[2] - n) + k) + 1]
    <2> DEFINE i == (n - 1) - k
    <2>1. i \in 0 .. n - 1
      BY <1>4
    <2>2. At(zids[1], e[1] - i - 1) = At(zids[2], e[2] - i - 1)
      BY <1>3, <1>4, <2>1
    <2>3. (e[1] - i - 1) + 1 = ((e[1] - n) + k) + 1 /\ (e[2] - i - 1) + 1 = ((e[2] - n) + k) + 1
      BY <1>1, <1>4
    <2> HIDE DEF i
    <2> QED
      BY <2>2, <2>3 DEF At
  <1> QED
    BY <1>1, <1>4, <1>5, <1>6

\* Where a value is divided off a list: before its first place in it, or at once.
LEMMA FindOneFacts ==
  ASSUME NEW S, NEW ls \in Seq(S), NEW x
  PROVE  \/ FindOne(x, ls) = <<1, 0>>
         \/ \E c \in 0 .. Len(ls) - 1 : FindOne(x, ls) = <<0, c>>
  <1> DEFINE N == Len(ls)
             Ok == {i \in 0 .. N : i < N /\ At(ls, i) # x}
             First(i) == At(ls, i) = x /\ \A j \in 0 .. i - 1 : At(ls, j) # x
             c == CHOOSE i \in 0 .. N - 1 : First(i)
             k == Run(N, Ok)
  <1>1. CASE \E i \in DOMAIN ls : ls[i] = x
    <2>1. N \in Nat
      OBVIOUS
    <2>2. PICK i \in 1 .. N : ls[i] = x
      BY <1>1
    <2>3. i - 1 \in 0 .. N - 1 /\ At(ls, i - 1) = x
      <3>1. i - 1 \in 0 .. N - 1 /\ (i - 1) + 1 = i
        BY <2>1
      <3> QED
        BY <2>2, <3>1 DEF At
    <2>4. k \in 0 .. N /\ 0 .. k - 1 \subseteq Ok /\ (k = N \/ k \notin Ok)
      <3> HIDE DEF Ok
      <3> QED
        BY <2>1, RunStops
    <2> HIDE DEF k
    <2>5. i - 1 \notin Ok
      BY <2>3
    <2>6. k \in 0 .. N - 1
      <3>1. ~ (i - 1 \in 0 .. k - 1)
        BY <2>4, <2>5
      <3> HIDE DEF N
      <3> QED
        BY <2>1, <2>2, <2>4, <3>1
    <2>7. First(k)
      <3>1. k \notin Ok /\ k < N /\ k \in 0 .. N
        BY <2>4, <2>6
      <3>2. At(ls, k) = x
        BY <3>1
      <3>3. \A j \in 0 .. k - 1 : At(ls, j) # x
        BY <2>4
      <3> QED
        BY <3>2, <3>3
    <2> HIDE DEF First, N
    <2>8. c \in 0 .. N - 1
      BY <2>6, <2>7
    <2>9. FindOne(x, ls) = <<0, c>>
      BY <1>1, Zenon DEF FindOne, First, N
    <2> QED
      BY <2>8, <2>9 DEF N
  <1>2. CASE ~ \E i \in DOMAIN ls : ls[i] = x
    BY <1>2 DEF FindOne
  <1> QED
    BY <1>1, <1>2

\* The snake of no items that algorithm_lcs makes of a divided text.
LEMMA PairTwice ==
  ASSUME NEW x \in Nat, NEW y \in Nat, NEW p, p = <<x, y>>
  PROVE  (p \o p)[1] = x /\ (p \o p)[2] = y /\ (p \o p)[3] = x /\ (p \o p)[4] = y
  <1>1. p \in Seq(Nat) /\ Len(p) = 2 /\ p[1] = x /\ p[2] = y
    OBVIOUS
  <1>2. \A i \in 1 .. 2 + 2 : (p \o p)[i] = IF i <= 2 THEN p[i] ELSE p[i - 2]
    BY <1>1, ConcatProperties
  <1>3. /\ 1 \in 1 .. 2 + 2 /\ 2 \in 1 .. 2 + 2 /\ 3 \in 1 .. 2 + 2 /\ 4 \in 1 .. 2 + 2
        /\ 1 <= 2 /\ 2 <= 2 /\ ~ (3 <= 2) /\ ~ (4 <= 2) /\ 3 - 2 = 1 /\ 4 - 2 = 2
    OBVIOUS
  <1>4. (p \o p)[1] = p[1] /\ (p \o p)[2] = p[2] /\ (p \o p)[3] = p[1] /\ (p \o p)[4] = p[2]
    BY <1>2, <1>3, Zenon
  <1> QED
    BY <1>1, <1>4, Zenon

\* Two texts that are not empty are divided at a snake of theirs.
LEMMA DivideGood ==
  ASSUME NEW S, NEW a \in Seq(S), NEW b \in Seq(S), a # <<>>, b # <<>>,
         NEW V, Fits(V, a, b), v \in [Room(V) -> Int]
  PROVE  GoodSnake(a, b, Divide(a, b).snake) /\ Divide(a, b).v \in [Room(V) -> Int]
  <1> DEFINE N == Len(a)
             M == Len(b)
  <1>1. N \in Nat \ {0} /\ M \in Nat \ {0}
    OBVIOUS
  <1>2. ASSUME NEW x \in Nat, NEW y \in Nat, x <= N, y <= M, NEW s,
                s[1] = x, s[2] = y, s[3] = x, s[4] = y
        PROVE  GoodSnake(a, b, s)
    <2>2. x - x = 0 /\ y - y = 0 /\ \A i : ~ (i \in 0 .. 0 - 1)
      OBVIOUS
    <2> QED
      BY <1>2, <2>2 DEF GoodSnake
  <1>3. CASE N = 1
    <2> DEFINE p == FindOne(a[1], b)
    <2>1. Divide(a, b) = [v |-> v, snake |-> p \o p]
      BY <1>3 DEF Divide
    <2>2. PICK x, y : x \in 0 .. 1 /\ y \in 0 .. M /\ p = <<x, y>>
      <3>1. CASE p = <<1, 0>>
        BY <1>1, <3>1
      <3>2. CASE p # <<1, 0>>
        <4>1. PICK c \in 0 .. M - 1 : p = <<0, c>>
          BY <3>2, FindOneFacts
        <4> QED
          BY <1>1, <4>1
      <3> QED
        BY <3>1, <3>2
    <2> HIDE DEF p
    <2>3. (p \o p)[1] = x /\ (p \o p)[2] = y /\ (p \o p)[3] = x /\ (p \o p)[4] = y
      <3>1. x \in Nat /\ y \in Nat
        BY <1>1, <2>2
      <3> QED
        BY <2>2, <3>1, PairTwice
    <2>4. x \in Nat /\ y \in Nat /\ x <= N /\ y <= M
      BY <1>1, <1>3, <2>2
    <2>5. GoodSnake(a, b, p \o p)
      BY <1>2, <2>3, <2>4
    <2> QED
      BY <2>1, <2>5
  <1>4. CASE N # 1 /\ M = 1
    <2> DEFINE p == FindOne(b[1], a)
    <2>1. Divide(a, b) = [v |-> v, snake |-> <<p[2], p[1], p[2], p[1]>>]
      BY <1>4 DEF Divide
    <2>2. PICK x, y : x \in 0 .. 1 /\ y \in 0 .. N /\ p = <<x, y>>
      <3>1. CASE p = <<1, 0>>
        BY <1>1, <3>1
      <3>2. CASE p # <<1, 0>>
        <4>1. PICK c \in 0 .. N - 1 : p = <<0, c>>
          BY <3>2, FindOneFacts
        <4> QED
          BY <1>1, <4>1
      <3> QED
        BY <3>1, <3>2
    <2> HIDE DEF p
    <2>3. p[2] = y /\ p[1] = x
      BY <2>2
    <2>4. x \in Nat /\ y \in Nat /\ y <= N /\ x <= M
      BY <1>1, <1>4, <2>2
    <2>5. GoodSnake(a, b, <<p[2], p[1], p[2], p[1]>>)
      BY <1>2, <2>3, <2>4
    <2> QED
      BY <2>1, <2>5
  <1>5. CASE N # 1 /\ M # 1
    <2>1. Divide(a, b) = MiddleSnake(a, b, v)
      BY <1>5 DEF Divide
    <2> QED
      BY <2>1, SnakeFound
  <1> QED
    BY <1>3, <1>4, <1>5

\* What is marked of texts, as a set.
LEMMA TextMarks ==
  ASSUME NEW S, NEW t, NEW m, Texts(S, t, m)
  PROVE  /\ \A f \in Sides : Len(t[f]) \in Nat /\ t[f] \in Seq(S)
         /\ \A f \in Sides : \A k \in 1 .. Len(t[f]) : k \in Marked(m)[f] <=> m[f][k]
  <1>1. \A f \in Sides : DOMAIN m[f] = 1 .. Len(t[f]) /\ Len(t[f]) \in Nat /\ t[f] \in Seq(S)
    BY DEF Texts
  <1>2. \A f \in Sides : Marked(m)[f] = {x \in DOMAIN m[f] : m[f][x]}
    BY DEF Marked
  <1>3. \A f \in Sides : \A k \in 1 .. Len(t[f]) : k \in Marked(m)[f] <=> m[f][k]
    BY <1>1, <1>2, Zenon
  <1> QED
    BY <1>1, <1>3

\* Equal items in a subproblem, which are not marked, are linked.
LEMMA EqualLinked ==
  ASSUME NEW S, NEW t, NEW m, Texts(S, t, m), NEW r, r.s \in Points, r.e \in Points,
         Before(r.e, <<Len(t[1]), Len(t[2])>>), Untouched(m, r),
         NEW p \in Points, NEW q \in Points, NEW n \in Nat, q[1] = p[1] + n, q[2] = p[2] + n,
         Before(r.s, p), Before(q, r.e),
         \A k \in 0 .. n - 1 : t[1][(p[1] + k) + 1] = t[2][(p[2] + k) + 1]
  PROVE  Linked(t, Marked(m), p, q)
  <1> DEFINE i == p[1]
             j == p[2]
  <1>0. 1 \in Sides /\ 2 \in Sides
    BY DEF Sides
  <1>1. /\ i \in Nat /\ j \in Nat /\ p = <<i, j>> /\ q = <<i + n, j + n>>
        /\ r.s[1] \in Nat /\ r.s[2] \in Nat /\ r.e[1] \in Nat /\ r.e[2] \in Nat
    BY DEF Points
  <1>2. /\ r.s[1] <= i /\ r.s[2] <= j /\ i + n <= r.e[1] /\ j + n <= r.e[2]
        /\ r.e[1] <= Len(t[1]) /\ r.e[2] <= Len(t[2])
    BY DEF Before
  <1>3. /\ Len(t[1]) \in Nat /\ Len(t[2]) \in Nat
        /\ \A k \in 1 .. Len(t[1]) : k \in Marked(m)[1] <=> m[1][k]
        /\ \A k \in 1 .. Len(t[2]) : k \in Marked(m)[2] <=> m[2][k]
    BY <1>0, TextMarks
  <1>4. /\ \A k \in r.s[1] + 1 .. r.e[1] : ~ m[1][k]
        /\ \A k \in r.s[2] + 1 .. r.e[2] : ~ m[2][k]
    BY <1>0 DEF Untouched
  <1> DEFINE N == Len(t[1])
             M == Len(t[2])
             x1 == r.s[1]
             x2 == r.s[2]
             y1 == r.e[1]
             y2 == r.e[2]
  <1>8. /\ i \in Nat /\ j \in Nat /\ N \in Nat /\ M \in Nat /\ n \in Nat
        /\ x1 \in Nat /\ x2 \in Nat /\ y1 \in Nat /\ y2 \in Nat
        /\ x1 <= i /\ x2 <= j /\ i + n <= y1 /\ j + n <= y2 /\ y1 <= N /\ y2 <= M
    BY <1>1, <1>2, <1>3
  <1>5. ASSUME NEW k \in 0 .. n - 1
        PROVE  (i + k) + 1 \notin Marked(m)[1] /\ (j + k) + 1 \notin Marked(m)[2]
    <2>1. /\ (i + k) + 1 \in 1 .. N /\ (i + k) + 1 \in x1 + 1 .. y1
          /\ (j + k) + 1 \in 1 .. M /\ (j + k) + 1 \in x2 + 1 .. y2
      <3>1. k \in 0 .. n - 1
        OBVIOUS
      <3> HIDE DEF i, j, N, M, x1, x2, y1, y2
      <3> QED
        BY ONLY <1>8, <3>1
    <2> QED
      BY <1>3, <1>4, <2>1, Zenon
  <1>6. i + n <= N /\ j + n <= M
    <2> HIDE DEF i, j, N, M, x1, x2, y1, y2
    <2> QED
      BY ONLY <1>8
  <1>7. Linked(t, Marked(m), <<i, j>>, <<i + n, j + n>>)
    <2>1. \A k \in 0 .. n - 1 : /\ (i + k) + 1 \notin Marked(m)[1] /\ (j + k) + 1 \notin Marked(m)[2]
                                /\ t[1][(i + k) + 1] = t[2][(j + k) + 1]
      BY <1>5
    <2> HIDE DEF i, j
    <2> QED
      BY <1>1, <1>3, <1>6, <2>1, LinkedDiagonal
  <1> QED
    BY <1>1, <1>7

\* algorithm_lcs marks all of both ranges.
LEMMA RangesMarked ==
  ASSUME NEW S, NEW t, NEW m, Texts(S, t, m), NEW s, NEW e,
         NEW m1, m1 = MarkedRange(MarkedRange(m, 1, s[1], e[1]), 2, s[2], e[2])
  PROVE  /\ Texts(S, t, m1)
         /\ \A f \in Sides : \A p \in 1 .. Len(t[f]) :
              m1[f][p] <=> m[f][p] \/ (s[f] < p /\ p <= e[f])
  <1> DEFINE In(f, p) == s[f] < p /\ p <= e[f]
             Or(f, p) == m[f][p] \/ In(f, p)
             mm == MarkedRange(m, 1, s[1], e[1])
  <1>1. /\ m = [f \in Sides |-> m[f]] /\ 1 \in Sides /\ 2 \in Sides /\ Sides = {1, 2}
        /\ \A f \in Sides : DOMAIN m[f] = 1 .. Len(t[f]) /\ Len(t[f]) \in Nat
    BY DEF Texts, Sides
  <1>2. mm = [f \in Sides |-> IF f = 1 THEN [p \in 1 .. Len(t[1]) |-> Or(1, p)] ELSE m[f]]
    BY <1>1 DEF MarkedRange
  <1>3. mm[1] = [p \in 1 .. Len(t[1]) |-> Or(1, p)] /\ mm[2] = m[2] /\ mm = [f \in Sides |-> mm[f]]
    <2> HIDE DEF mm, Or
    <2>1. mm = [f \in Sides |-> mm[f]]
      BY <1>2
    <2>2. mm[1] = [p \in 1 .. Len(t[1]) |-> Or(1, p)]
      BY <1>1, <1>2
    <2>3. mm[2] = m[2]
      BY <1>1, <1>2
    <2> QED
      BY <2>1, <2>2, <2>3
  <1> HIDE DEF mm
  <1>4. m1 = [f \in Sides |-> IF f = 2 THEN [p \in 1 .. Len(t[2]) |-> mm[2][p] \/ In(2, p)] ELSE mm[f]]
    BY <1>1, <1>3 DEF MarkedRange, mm
  <1>5. /\ m1 = [f \in Sides |-> m1[f]] /\ m1[1] = [p \in 1 .. Len(t[1]) |-> Or(1, p)]
        /\ m1[2] = [p \in 1 .. Len(t[2]) |-> Or(2, p)]
    <2>1. m1 = [f \in Sides |-> m1[f]]
      BY <1>4, Zenon
    <2>2. m1[1] = mm[1]
      BY <1>1, <1>4
    <2>3. m1[2] = [p \in 1 .. Len(t[2]) |-> m[2][p] \/ In(2, p)]
      BY <1>1, <1>3, <1>4, Zenon
    <2> QED
      BY <1>3, <2>1, <2>2, <2>3
  <1>6. \A f \in Sides : m1[f] = [p \in 1 .. Len(t[f]) |-> Or(f, p)]
    BY <1>1, <1>5
  <1>7. \A f, p : Or(f, p) \in BOOLEAN
    OBVIOUS
  <1>8. \A f \in Sides : \A p \in 1 .. Len(t[f]) : m1[f][p] <=> m[f][p] \/ (s[f] < p /\ p <= e[f])
    <2>1. \A f \in Sides : \A p \in 1 .. Len(t[f]) : m1[f][p] = Or(f, p)
      BY <1>6
    <2> QED
      BY <2>1
  <1> HIDE DEF Or
  <1>9. ASSUME NEW f \in Sides PROVE m1[f] \in Seq(BOOLEAN) /\ Len(m1[f]) = Len(t[f])
    <2>1. m1[f] \in [1 .. Len(t[f]) -> BOOLEAN] /\ Len(t[f]) \in Nat
      <3>1. m1[f] = [p \in 1 .. Len(t[f]) |-> Or(f, p)]
        BY <1>6
      <3>2. \A p \in 1 .. Len(t[f]) : Or(f, p) \in BOOLEAN
        BY <1>7
      <3>3. m1[f] \in [1 .. Len(t[f]) -> BOOLEAN]
        BY <3>1, <3>2, Zenon
      <3> QED
        BY <1>1, <3>3
    <2> QED
      BY <2>1
  <1>10. m1 \in [Sides -> Seq(BOOLEAN)]
    BY <1>5, <1>9
  <1>11. Texts(S, t, m1)
    BY <1>9, <1>10 DEF Texts
  <1> QED
    BY <1>8, <1>11

\* Marks in a range leave a link outside of it.
LEMMA OutsideStays ==
  ASSUME NEW S, NEW t, NEW m, Texts(S, t, m), NEW m1, Texts(S, t, m1),
         NEW s \in Points, NEW e \in Points,
         \A f \in Sides : \A k \in 1 .. Len(t[f]) : m1[f][k] <=> m[f][k] \/ (s[f] < k /\ k <= e[f]),
         NEW p \in Points, NEW q \in Points, Before(p, q), Before(q, <<Len(t[1]), Len(t[2])>>),
         Before(q, s) \/ Before(e, p), Linked(t, Marked(m), p, q)
  PROVE  Linked(t, Marked(m1), p, q)
  <1>1. \A f \in Sides : /\ p[f] \in Nat /\ q[f] \in Nat /\ s[f] \in Nat /\ e[f] \in Nat
                         /\ q[f] <= Len(t[f]) /\ (q[f] <= s[f] \/ e[f] <= p[f])
    BY DEF Points, Before, Sides
  <1>2. \A f \in Sides : Len(t[f]) \in Nat
    BY TextMarks
  <1>3. ASSUME NEW f \in Sides, NEW k \in p[f] + 1 .. q[f]
        PROVE  k \in 1 .. Len(t[f]) /\ ~ (s[f] < k /\ k <= e[f])
    BY <1>1, <1>2
  <1>4. \A f \in Sides : \A k \in 1 .. Len(t[f]) :
          (k \in Marked(m)[f] <=> m[f][k]) /\ (k \in Marked(m1)[f] <=> m1[f][k])
    <2>1. \A f \in Sides : \A k \in 1 .. Len(t[f]) : k \in Marked(m)[f] <=> m[f][k]
      BY TextMarks
    <2>2. \A f \in Sides : \A k \in 1 .. Len(t[f]) : k \in Marked(m1)[f] <=> m1[f][k]
      BY TextMarks
    <2> QED
      BY <2>1, <2>2
  <1>5. \A f \in Sides : \A k \in p[f] + 1 .. q[f] : k \in Marked(m)[f] <=> k \in Marked(m1)[f]
    BY <1>3, <1>4, Zenon
  <1>6. SameMarks(Marked(m), Marked(m1), p, q)
    BY <1>5 DEF SameMarks, Sides
  <1> QED
    BY <1>6, LinkedStays

\* All of two ranges marked, they are linked.
LEMMA MarkedLinked ==
  ASSUME NEW S, NEW t, NEW m, Texts(S, t, m), NEW s \in Points, NEW e \in Points, Before(s, e),
         Before(e, <<Len(t[1]), Len(t[2])>>),
         \A f \in Sides : \A k \in 1 .. Len(t[f]) : s[f] < k /\ k <= e[f] => m[f][k]
  PROVE  Linked(t, Marked(m), s, e)
  <1> DEFINE i == s[1]
             j == s[2]
             k == e[1]
             n == e[2]
  <1>0. 1 \in Sides /\ 2 \in Sides
    BY DEF Sides
  <1>1. /\ i \in Nat /\ j \in Nat /\ k \in Nat /\ n \in Nat /\ s = <<i, j>> /\ e = <<k, n>>
    BY DEF Points
  <1>2. i <= k /\ j <= n /\ k <= Len(t[1]) /\ n <= Len(t[2])
    BY DEF Before
  <1>3. /\ Len(t[1]) \in Nat /\ Len(t[2]) \in Nat
        /\ \A x \in 1 .. Len(t[1]) : x \in Marked(m)[1] <=> m[1][x]
        /\ \A x \in 1 .. Len(t[2]) : x \in Marked(m)[2] <=> m[2][x]
    BY <1>0, TextMarks
  <1>4. /\ \A x \in 1 .. Len(t[1]) : i < x /\ x <= k => m[1][x]
        /\ \A x \in 1 .. Len(t[2]) : j < x /\ x <= n => m[2][x]
    BY <1>0
  <1> HIDE DEF i, j, k, n
  <1>5. i + 1 .. k \subseteq Marked(m)[1]
    <2>1. \A x \in i + 1 .. k : x \in 1 .. Len(t[1]) /\ i < x /\ x <= k
      BY <1>1, <1>2, <1>3
    <2> QED
      BY <1>3, <1>4, <2>1
  <1>6. j + 1 .. n \subseteq Marked(m)[2]
    <2>1. \A x \in j + 1 .. n : x \in 1 .. Len(t[2]) /\ j < x /\ x <= n
      BY <1>1, <1>2, <1>3
    <2> QED
      BY <1>3, <1>4, <2>1
  <1>7. Linked(t, Marked(m), <<i, j>>, <<k, j>>)
    BY <1>1, <1>2, <1>3, <1>5, LinkedFirst
  <1>8. Linked(t, Marked(m), <<k, j>>, <<k, n>>)
    BY <1>1, <1>2, <1>3, <1>6, LinkedSecond
  <1> QED
    BY <1>1, <1>7, <1>8, LinkedTo

\* A part of a sequence.
LEMMA PartTyped ==
  ASSUME NEW S, NEW x \in Seq(S), NEW p \in Nat, NEW q \in Nat, p <= q, q <= Len(x)
  PROVE  SubSeq(x, p + 1, q) \in Seq(S)
  OBVIOUS

\* It is as long as the distance of its ends, ...
LEMMA PartLength ==
  ASSUME NEW S, NEW x \in Seq(S), NEW p \in Nat, NEW q \in Nat, p <= q, q <= Len(x)
  PROVE  Len(SubSeq(x, p + 1, q)) = q - p
  OBVIOUS

\* ... and has the items of the whole.
LEMMA PartAt ==
  ASSUME NEW S, NEW x \in Seq(S), NEW p \in Nat, NEW q \in Nat, p <= q, q <= Len(x),
         NEW i \in 0 .. (q - p) - 1
  PROVE  At(SubSeq(x, p + 1, q), i) = x[(p + i) + 1]
  <1>1. i + 1 \in 1 .. q - p /\ p + (i + 1) = (p + i) + 1
    OBVIOUS
  <1>2. SubSeq(x, p + 1, q)[i + 1] = x[p + (i + 1)]
    BY <1>1
  <1> QED
    BY <1>1, <1>2 DEF At

\* What is compared next: the items from s to e.
LEMMA RangeTexts ==
  ASSUME NEW S, NEW t \in [Sides -> Seq(S)], NEW s \in Points, NEW e \in Points, Before(s, e),
         Before(e, <<Len(t[1]), Len(t[2])>>), NEW f \in Sides
  PROVE  /\ SubSeq(t[f], s[f] + 1, e[f]) \in Seq(S)
         /\ Len(SubSeq(t[f], s[f] + 1, e[f])) = e[f] - s[f]
         /\ \A i \in 0 .. (e[f] - s[f]) - 1 :
              At(SubSeq(t[f], s[f] + 1, e[f]), i) = t[f][(s[f] + i) + 1]
  <1>1. s[f] \in Nat /\ e[f] \in Nat /\ s[f] <= e[f] /\ e[f] <= Len(t[f]) /\ t[f] \in Seq(S)
    BY DEF Points, Before, Sides
  <1>2. SubSeq(t[f], s[f] + 1, e[f]) \in Seq(S)
    BY <1>1, PartTyped, Zenon
  <1>3. Len(SubSeq(t[f], s[f] + 1, e[f])) = e[f] - s[f]
    BY <1>1, PartLength, Zenon
  <1>4. \A i \in 0 .. (e[f] - s[f]) - 1 : At(SubSeq(t[f], s[f] + 1, e[f]), i) = t[f][(s[f] + i) + 1]
    BY <1>1, PartAt, Zenon
  <1> QED
    BY <1>2, <1>3, <1>4

\* A call of algorithm_lcs takes the first subproblem, skips what is the same at its
\* ends, and marks all of it or divides it at a snake.
LEMMA LcsSolves ==
  ASSUME NEW S, Solving(S, zids, zchange, stack, v), Lcs
  PROVE  Solving(S, zids, zchange', stack', v')
  <1> DEFINE z == <<Len(zids[1]), Len(zids[2])>>
             r == Head(stack)
             s0 == r.s
             e0 == r.e
             n == Same(s0, e0)
             s == <<s0[1] + n, s0[2] + n>>
             m == SameBack(s, e0)
             e == <<e0[1] - m, e0[2] - m>>
             a == SubSeq(zids[1], s[1] + 1, e[1])
             b == SubSeq(zids[2], s[2] + 1, e[2])
             at == Divide(a, b)
             M == Marked(zchange)
  <1>1. /\ Texts(S, zids, zchange) /\ Ordered(zids, stack)
        /\ \A i \in 1 .. Len(stack) : Untouched(zchange, stack[i])
        /\ v \in [0 .. ArrayEnd(zids[1], zids[2]) -> Int]
    BY DEF Solving
  <1>2. stack # <<>> /\ stack \in Seq([s : Points, e : Points])
    BY <1>1 DEF Lcs, Ordered
  <1>3. r = stack[1] /\ 1 \in 1 .. Len(stack)
    BY <1>2
  <1>4. s0 \in Points /\ e0 \in Points /\ Before(s0, e0) /\ Before(e0, z) /\ Untouched(zchange, r)
    <2> HIDE DEF r
    <2>1. s0 \in Points /\ e0 \in Points /\ Before(s0, e0) /\ Before(e0, z)
      BY <1>1, <1>3, OrderedFacts
    <2> QED
      BY <1>1, <1>3, <2>1
  <1> HIDE DEF r
  <1>5. /\ n \in Nat /\ s0[1] + n <= e0[1] /\ s0[2] + n <= e0[2]
        /\ \A k \in 0 .. n - 1 : zids[1][(s0[1] + k) + 1] = zids[2][(s0[2] + k) + 1]
    BY <1>4, SameFacts
  <1> HIDE DEF n
  <1>6. s \in Points /\ Before(s0, s) /\ Before(s, e0) /\ s[1] = s0[1] + n /\ s[2] = s0[2] + n
    <2> DEFINE i == s0[1]
               j == s0[2]
    <2>1. i \in Nat /\ j \in Nat /\ s = <<i + n, j + n>>
      BY <1>4 DEF Points
    <2> HIDE DEF s
    <2>2. s[1] = i + n /\ s[2] = j + n
      BY <2>1
    <2>3. i + n \in Nat /\ j + n \in Nat /\ i <= i + n /\ j <= j + n
      BY <1>5, <2>1
    <2> QED
      BY <1>5, <2>1, <2>2, <2>3 DEF Before, Points
  <1> HIDE DEF s
  <1>7. /\ m \in Nat /\ s[1] <= e0[1] - m /\ s[2] <= e0[2] - m
        /\ \A k \in 0 .. m - 1 : zids[1][((e0[1] - m) + k) + 1] = zids[2][((e0[2] - m) + k) + 1]
    <2>1. s \in Points /\ e0 \in Points /\ Before(s, e0) /\ m = SameBack(s, e0)
      BY <1>4, <1>6
    <2> HIDE DEF m, e0
    <2>2. /\ m \in Nat /\ s[1] <= e0[1] - m /\ s[2] <= e0[2] - m
          /\ \A k \in 0 .. m - 1 : zids[1][((e0[1] - m) + k) + 1] = zids[2][((e0[2] - m) + k) + 1]
      BY ONLY <2>1, SameBackFacts
    <2> QED
      BY <2>2
  <1> HIDE DEF m
  <1>8. /\ e \in Points /\ Before(s, e) /\ Before(e, e0) /\ e[1] = e0[1] - m /\ e[2] = e0[2] - m
        /\ e0[1] = e[1] + m /\ e0[2] = e[2] + m
    <2> DEFINE i == e0[1]
               j == e0[2]
               x == s[1]
               y == s[2]
    <2>1. i \in Nat /\ j \in Nat /\ x \in Nat /\ y \in Nat /\ e = <<i - m, j - m>>
      BY <1>4, <1>6 DEF Points
    <2> HIDE DEF e
    <2>2. e[1] = i - m /\ e[2] = j - m
      BY <2>1
    <2>3. x <= i - m /\ y <= j - m
      BY <1>7
    <2> HIDE DEF i, j, x, y
    <2>4. i - m \in Nat /\ j - m \in Nat /\ i - m <= i /\ j - m <= j /\ i = (i - m) + m /\ j = (j - m) + m
      BY <1>7, <2>1, <2>3
    <2>5. e \in Points
      BY <2>1, <2>4 DEF Points
    <2> QED
      BY <2>2, <2>3, <2>4, <2>5 DEF Before, i, j, x, y
  <1> HIDE DEF e
  <1>9. z \in Points /\ Before(e, z) /\ Before(s, z) /\ Before(s0, e)
    <2>1. Len(zids[1]) \in Nat /\ Len(zids[2]) \in Nat
      BY <1>1, TextMarks DEF Sides
    <2>2. z \in Points
      BY <2>1 DEF Points
    <2> HIDE DEF z
    <2>3. Before(e, z)
      BY <1>4, <1>8, <2>2, BeforeTo
    <2>4. Before(s, z) /\ Before(s0, e)
      BY <1>4, <1>6, <1>8, <2>2, <2>3, BeforeTo
    <2> QED
      BY <2>2, <2>3, <2>4
  <1>10. Linked(zids, M, s0, s)
    <2>1. Before(s0, s0) /\ Before(s, r.e) /\ Before(r.s, s0)
      BY <1>4, <1>6 DEF Before, Points
    <2> QED
      BY <1>1, <1>4, <1>5, <1>6, <2>1, EqualLinked
  <1>11. Linked(zids, M, e, e0)
    <2>1. Before(e0, r.e) /\ Before(r.s, e)
      BY <1>4, <1>9 DEF Before, Points
    <2>2. \A k \in 0 .. m - 1 : zids[1][(e[1] + k) + 1] = zids[2][(e[2] + k) + 1]
      BY <1>7, <1>8
    <2> QED
      BY <1>1, <1>4, <1>7, <1>8, <2>1, <2>2, EqualLinked
  <1> HIDE DEF z
  <1>12. \/ /\ zchange' = MarkedRange(MarkedRange(zchange, 1, s[1], e[1]), 2, s[2], e[2])
            /\ stack' = Tail(stack) /\ v' = v
         \/ /\ ~ (Len(a) = 0 \/ Len(b) = 0)
            /\ stack' = <<[s |-> s, e |-> <<s[1] + at.snake[1], s[2] + at.snake[2]>>],
                          [s |-> <<s[1] + at.snake[3], s[2] + at.snake[4]>>, e |-> e]>>
                        \o Tail(stack)
            /\ v' = at.v /\ zchange' = zchange
    BY DEF Lcs, e, m, s, n, r
  <1>13. CASE /\ zchange' = MarkedRange(MarkedRange(zchange, 1, s[1], e[1]), 2, s[2], e[2])
              /\ stack' = Tail(stack) /\ v' = v
    <2> PICK m1 : m1 = zchange'
      OBVIOUS
    <2>1. /\ Texts(S, zids, m1)
          /\ \A f \in Sides : \A p \in 1 .. Len(zids[f]) :
               m1[f][p] <=> zchange[f][p] \/ (s[f] < p /\ p <= e[f])
      <3>1. m1 = MarkedRange(MarkedRange(zchange, 1, s[1], e[1]), 2, s[2], e[2])
        BY <1>13
      <3>2. Texts(S, zids, m1)
        BY <1>1, <3>1, RangesMarked
      <3>3. \A f \in Sides : \A p \in 1 .. Len(zids[f]) :
               m1[f][p] <=> zchange[f][p] \/ (s[f] < p /\ p <= e[f])
        BY <1>1, <3>1, RangesMarked
      <3> QED
        BY <3>2, <3>3
    <2>2. Linked(zids, Marked(m1), s, e)
      <3>1. \A f \in Sides : \A p \in 1 .. Len(zids[f]) : s[f] < p /\ p <= e[f] => m1[f][p]
        BY <2>1
      <3> QED
        BY <1>6, <1>8, <1>9, <2>1, <3>1, MarkedLinked DEF z
    <2>3. Linked(zids, Marked(m1), s0, s)
      <3>1. Before(s, s)
        BY <1>6 DEF Before, Points
      <3> QED
        BY <1>1, <1>4, <1>6, <1>8, <1>9, <1>10, <2>1, <3>1, OutsideStays DEF z
    <2>4. Linked(zids, Marked(m1), e, e0)
      <3>1. Before(e, e)
        BY <1>8 DEF Before, Points
      <3> QED
        BY <1>1, <1>4, <1>6, <1>8, <1>11, <2>1, <3>1, OutsideStays DEF z
    <2>5. Linked(zids, Marked(m1), stack[1].s, stack[1].e)
      <3>1. Linked(zids, Marked(m1), s0, e)
        BY <2>2, <2>3, LinkedTo
      <3> QED
        BY <1>3, <2>4, <3>1, LinkedTo
    <2>6. \A f \in Sides : \A p \in 1 .. Len(zids[f]) :
            p <= stack[1].s[f] \/ stack[1].e[f] < p => (m1[f][p] <=> zchange[f][p])
      <3> SUFFICES ASSUME NEW f \in Sides, NEW p \in 1 .. Len(zids[f]),
                          p <= stack[1].s[f] \/ stack[1].e[f] < p
                   PROVE  m1[f][p] <=> zchange[f][p]
        OBVIOUS
      <3>1. /\ s0[f] \in Nat /\ s[f] \in Nat /\ e[f] \in Nat /\ e0[f] \in Nat
            /\ s0[f] <= s[f] /\ e[f] <= e0[f] /\ (p <= s0[f] \/ e0[f] < p) /\ p \in Nat
        <4>1. p <= s0[f] \/ e0[f] < p
          BY <1>3
        <4>2. Len(zids[f]) \in Nat
          BY <1>1, TextMarks
        <4>3. /\ s0 \in Points /\ s \in Points /\ e \in Points /\ e0 \in Points
              /\ Before(s0, s) /\ Before(e, e0)
          BY <1>4, <1>6, <1>8
        <4> HIDE DEF s0, e0
        <4>4. /\ s0[f] \in Nat /\ s[f] \in Nat /\ e[f] \in Nat /\ e0[f] \in Nat
              /\ s0[f] <= s[f] /\ e[f] <= e0[f]
          BY <4>3 DEF Points, Before, Sides
        <4> QED
          BY <4>1, <4>2, <4>4
      <3>2. ~ (s[f] < p /\ p <= e[f])
        BY <3>1
      <3> QED
        BY <2>1, <3>2
    <2>7. Solving(S, zids, m1, Tail(stack), v)
      BY <1>2, <2>1, <2>5, <2>6, SolvingMarked
    <2> QED
      BY <1>13, <2>7
  <1>14. CASE /\ ~ (Len(a) = 0 \/ Len(b) = 0)
              /\ stack' = <<[s |-> s, e |-> <<s[1] + at.snake[1], s[2] + at.snake[2]>>],
                            [s |-> <<s[1] + at.snake[3], s[2] + at.snake[4]>>, e |-> e]>>
                          \o Tail(stack)
              /\ v' = at.v /\ zchange' = zchange
    <2> DEFINE V == ArrayEnd(zids[1], zids[2])
               i == s[1]
               j == s[2]
    <2>1. zids \in [Sides -> Seq(S)] /\ 1 \in Sides /\ 2 \in Sides
      BY <1>1 DEF Texts, Sides
    <2>21. /\ a = SubSeq(zids[1], s[1] + 1, e[1]) /\ b = SubSeq(zids[2], s[2] + 1, e[2])
           /\ Before(e, <<Len(zids[1]), Len(zids[2])>>)
      BY <1>9 DEF z
    <2> HIDE DEF a, b
    <2>2. /\ a \in Seq(S) /\ Len(a) = e[1] - s[1]
          /\ \A k \in 0 .. Len(a) - 1 : At(a, k) = zids[1][(s[1] + k) + 1]
      <3>0. /\ zids \in [Sides -> Seq(S)] /\ s \in Points /\ e \in Points /\ Before(s, e)
            /\ Before(e, <<Len(zids[1]), Len(zids[2])>>) /\ 1 \in Sides
        BY <1>6, <1>8, <2>1, <2>21
      <3>1. SubSeq(zids[1], s[1] + 1, e[1]) \in Seq(S)
        BY ONLY <3>0, RangeTexts
      <3>2. Len(SubSeq(zids[1], s[1] + 1, e[1])) = e[1] - s[1]
        BY ONLY <3>0, RangeTexts
      <3>3. \A k \in 0 .. (e[1] - s[1]) - 1 :
              At(SubSeq(zids[1], s[1] + 1, e[1]), k) = zids[1][(s[1] + k) + 1]
        BY ONLY <3>0, RangeTexts
      <3> QED
        BY <2>21, <3>1, <3>2, <3>3, Zenon
    <2>3. /\ b \in Seq(S) /\ Len(b) = e[2] - s[2]
          /\ \A k \in 0 .. Len(b) - 1 : At(b, k) = zids[2][(s[2] + k) + 1]
      <3>0. /\ zids \in [Sides -> Seq(S)] /\ s \in Points /\ e \in Points /\ Before(s, e)
            /\ Before(e, <<Len(zids[1]), Len(zids[2])>>) /\ 2 \in Sides
        BY <1>6, <1>8, <2>1, <2>21
      <3>1. SubSeq(zids[2], s[2] + 1, e[2]) \in Seq(S)
        BY ONLY <3>0, RangeTexts
      <3>2. Len(SubSeq(zids[2], s[2] + 1, e[2])) = e[2] - s[2]
        BY ONLY <3>0, RangeTexts
      <3>3. \A k \in 0 .. (e[2] - s[2]) - 1 :
              At(SubSeq(zids[2], s[2] + 1, e[2]), k) = zids[2][(s[2] + k) + 1]
        BY ONLY <3>0, RangeTexts
      <3> QED
        BY <2>21, <3>1, <3>2, <3>3, Zenon
    <2>4. /\ s[1] \in Nat /\ s[2] \in Nat /\ e[1] \in Nat /\ e[2] \in Nat
          /\ s[1] <= e[1] /\ s[2] <= e[2] /\ e[1] <= Len(zids[1]) /\ e[2] <= Len(zids[2])
          /\ Len(zids[1]) \in Nat /\ Len(zids[2]) \in Nat
      BY <1>1, <1>6, <1>8, <1>9, TextMarks DEF Points, Before, z, Sides
    <2>5. Fits(V, a, b)
      <3> DEFINE x == Len(zids[1])
                 y == Len(zids[2])
                 p == Len(a)
                 q == Len(b)
      <3>1. x \in Nat /\ y \in Nat /\ p \in Nat /\ q \in Nat /\ p <= x /\ q <= y
        BY <2>2, <2>3, <2>4
      <3> HIDE DEF x, y, p, q
      <3>2. 4 * (x + y + 1) + 3 \in Nat /\ 4 * (p + q + 1) + 3 <= 4 * (x + y + 1) + 3
        BY ONLY <3>1
      <3> QED
        BY <3>2 DEF Fits, Far, ArrayEnd, x, y, p, q
    <2>6. a # <<>> /\ b # <<>>
      BY <1>14
    <2>7. GoodSnake(a, b, at.snake) /\ at.v \in [0 .. V -> Int]
      <3>1. v \in [Room(V) -> Int]
        BY <1>1 DEF Room
      <3>2. GoodSnake(a, b, at.snake) /\ at.v \in [Room(V) -> Int]
        BY <2>2, <2>3, <2>5, <2>6, <3>1, DivideGood
      <3> QED
        BY <3>2 DEF Room
    <2> DEFINE k == at.snake
               c == <<i + k[1], j + k[2]>>
               d == <<i + k[3], j + k[4]>>
               r1 == [s |-> s, e |-> c]
               r2 == [s |-> d, e |-> e]
    <2>8. stack' = <<r1, r2>> \o Tail(stack)
      BY <1>14
    <2> HIDE DEF at, V
    <2>9. /\ k[1] \in Nat /\ k[2] \in Nat /\ k[3] \in Nat /\ k[4] \in Nat
          /\ k[1] <= k[3] /\ k[3] <= e[1] - i /\ k[2] <= k[4] /\ k[4] <= e[2] - j
          /\ k[4] - k[2] = k[3] - k[1]
          /\ \A x \in 0 .. k[3] - k[1] - 1 : At(a, k[1] + x) = At(b, k[2] + x)
      BY <2>2, <2>3, <2>7 DEF GoodSnake
    <2> DEFINE g == k[3] - k[1]
               k1 == k[1]
               k2 == k[2]
               k3 == k[3]
               k4 == k[4]
               f1 == e[1]
               f2 == e[2]
    <2>10. /\ k1 \in Nat /\ k2 \in Nat /\ k3 \in Nat /\ k4 \in Nat /\ g = k3 - k1
           /\ k1 <= k3 /\ k3 <= f1 - i /\ k2 <= k4 /\ k4 <= f2 - j /\ k4 - k2 = k3 - k1
           /\ i \in Nat /\ j \in Nat /\ f1 \in Nat /\ f2 \in Nat
      BY <2>4, <2>9
    <2>11. c = <<i + k1, j + k2>> /\ d = <<i + k3, j + k4>>
      OBVIOUS
    <2> HIDE DEF g, k1, k2, k3, k4, f1, f2, i, j
    <2>12. /\ i + k1 \in Nat /\ j + k2 \in Nat /\ i + k3 \in Nat /\ j + k4 \in Nat /\ g \in Nat
           /\ i <= i + k1 /\ j <= j + k2 /\ i + k1 <= i + k3 /\ j + k2 <= j + k4
           /\ i + k3 <= f1 /\ j + k4 <= f2 /\ i + k3 = (i + k1) + g /\ j + k4 = (j + k2) + g
      BY ONLY <2>10
    <2> HIDE DEF c, d
    <2>13. c[1] = i + k1 /\ c[2] = j + k2 /\ d[1] = i + k3 /\ d[2] = j + k4 /\ c \in Points /\ d \in Points
      BY <2>11, <2>12 DEF Points
    <2>14. Before(s, c) /\ Before(c, d) /\ Before(d, e)
      BY <2>12, <2>13 DEF Before, i, j, f1, f2
    <2>15. Linked(zids, M, c, d)
      <3>1. d[1] = c[1] + g /\ d[2] = c[2] + g
        BY <2>12, <2>13
      <3>2. Before(r.s, c) /\ Before(d, r.e)
        BY <1>4, <1>6, <1>8, <2>13, <2>14, BeforeTo
      <3>3. ASSUME NEW x \in 0 .. g - 1 PROVE zids[1][(c[1] + x) + 1] = zids[2][(c[2] + x) + 1]
        <4>1. At(a, k1 + x) = At(b, k2 + x)
          BY <2>9 DEF g, k1, k2
        <4>2. /\ k1 + x \in 0 .. (f1 - i) - 1 /\ k2 + x \in 0 .. (f2 - j) - 1
              /\ i + (k1 + x) = (i + k1) + x /\ j + (k2 + x) = (j + k2) + x
          BY <2>10, <2>12
        <4>3. k1 + x \in 0 .. Len(a) - 1 /\ k2 + x \in 0 .. Len(b) - 1
          BY <2>2, <2>3, <4>2 DEF f1, f2, i, j
        <4>4. At(a, k1 + x) = zids[1][(i + (k1 + x)) + 1] /\ At(b, k2 + x) = zids[2][(j + (k2 + x)) + 1]
          BY <2>2, <2>3, <4>3 DEF i, j
        <4> QED
          BY <2>13, <4>1, <4>2, <4>4
      <3> QED
        BY <1>1, <1>4, <2>12, <2>13, <3>1, <3>2, <3>3, EqualLinked DEF z
    <2>16. r1 \in [s : Points, e : Points] /\ r2 \in [s : Points, e : Points]
           /\ r1.s = s /\ r1.e = c /\ r2.s = d /\ r2.e = e
      BY <1>6, <1>8, <2>13
    <2> HIDE DEF r1, r2
    <2>17. /\ Before(stack[1].s, r1.s) /\ Before(r1.s, r1.e) /\ Before(r1.e, r2.s)
           /\ Before(r2.s, r2.e) /\ Before(r2.e, stack[1].e)
      BY <1>3, <1>6, <1>8, <2>14, <2>16
    <2>18. /\ Linked(zids, M, stack[1].s, r1.s) /\ Linked(zids, M, r1.e, r2.s)
           /\ Linked(zids, M, r2.e, stack[1].e)
      BY <1>3, <1>10, <1>11, <2>15, <2>16
    <2>19. Solving(S, zids, zchange, <<r1, r2>> \o Tail(stack), at.v)
      BY <1>2, <2>7, <2>16, <2>17, <2>18, SolvingSplit DEF V
    <2>20. v' = at.v /\ zchange' = zchange
      BY <1>14 DEF at
    <2> QED
      BY <2>8, <2>19, <2>20
  <1> QED
    BY <1>12, <1>13, <1>14

\* The frame stays as long as what it is about does.
LEMMA FramedStays ==
  ASSUME NEW e, NEW pos, Framed(e, pos),
         UNCHANGED <<data, ids, change, zstart, zids, zcount>>
  PROVE  Framed(e, pos)'
  <1>1. /\ data' = data /\ ids' = ids /\ change' = change /\ zstart' = zstart
        /\ zids' = zids /\ zcount' = zcount
    OBVIOUS
  <1>2. Entries(e, pos)'
    <2>1. TwinLines(zstart, zids[1], zids[2], zcount[1], zcount[2], pos[1], pos[2])'
      BY <1>1 DEF Framed, Entries, TwinLines
    <2> QED
      BY <1>1, <2>1 DEF Framed, Entries
  <1>3. Ends' = Ends
    BY <1>1 DEF Ends
  <1>4. Linked(ids, Marked(change), <<0, 0>>, zstart)' /\ Linked(ids, Marked(change), e, Ends)'
    <2>1. Linked(ids, Marked(change), <<0, 0>>, zstart) /\ Linked(ids, Marked(change), e, Ends)
      BY DEF Framed
    <2>2. Marked(change)' = Marked(change)
      BY <1>1 DEF Marked
    <2> HIDE DEF Ends
    <2>3. Linked(ids, Marked(change), <<0, 0>>, zstart)'
      BY <1>1, <2>1, <2>2 DEF Linked, Closed
    <2>4. Linked(ids, Marked(change), e, Ends)'
      BY <1>1, <1>3, <2>1, <2>2 DEF Linked, Closed
    <2> QED
      BY <2>3, <2>4
  <1> QED
    BY <1>1, <1>2, <1>3, <1>4 DEF Framed

\* A call of algorithm_lcs keeps the invariant: the frame of the compressed part is
\* as it was.
LEMMA LcsCommon == ASSUME DiffInv, CommonInv, Lcs PROVE CommonInv'
  <1>1. /\ stage = "lcs" /\ stage' = "lcs"
        /\ mode' = mode /\ data' = data /\ ids' = ids /\ change' = change /\ zstart' = zstart
        /\ zids' = zids /\ zcount' = zcount
    BY DEF Lcs, input
  <1>2. Solving(Signs, zids, zchange, stack, v)
    BY <1>1 DEF CommonInv
  <1>3. Solving(Signs, zids, zchange', stack', v')
    BY <1>2, LcsSolves
  <1>4. Signs' = Signs
    BY <1>1 DEF Signs
  <1>5. Solving(Signs, zids, zchange, stack, v)'
    <2>1. Texts(Signs, zids, zchange)'
      BY <1>1, <1>3, <1>4 DEF Solving, Texts
    <2>2. Ordered(zids, stack)'
      BY <1>1, <1>3 DEF Solving, Ordered
    <2>3. (\A i \in 1 .. Len(stack) : Untouched(zchange, stack[i]))'
      BY <1>3 DEF Solving, Untouched
    <2>4. (\A i \in 0 .. Len(stack) : Linked(zids, Marked(zchange), From(stack, i), To(zids, stack, i + 1)))'
      <3>1. \A i \in 0 .. Len(stack') :
               Linked(zids, Marked(zchange'), From(stack', i), To(zids, stack', i + 1))
        BY <1>3 DEF Solving
      <3>2. Marked(zchange)' = Marked(zchange')
        BY DEF Marked
      <3> SUFFICES ASSUME NEW i \in 0 .. Len(stack')
                   PROVE  Linked(zids, Marked(zchange), From(stack, i), To(zids, stack, i + 1))'
        OBVIOUS
      <3>3. From(stack, i)' = From(stack', i) /\ To(zids, stack, i + 1)' = To(zids, stack', i + 1)
        BY <1>1 DEF From, To
      <3>4. Linked(zids, Marked(zchange'), From(stack', i), To(zids, stack', i + 1))
        BY <3>1
      <3> QED
        BY <1>1, <3>2, <3>3, <3>4 DEF Linked, Closed
    <2>5. (v \in [0 .. ArrayEnd(zids[1], zids[2]) -> Int])'
      BY <1>1, <1>3 DEF Solving, ArrayEnd
    <2> QED
      BY <2>1, <2>2, <2>3, <2>4, <2>5 DEF Solving
  <1>6. mode = "lines" => Numbered' /\ \E e, pos : Framed(e, pos)'
    <2> SUFFICES ASSUME mode = "lines" PROVE Numbered' /\ \E e, pos : Framed(e, pos)'
      OBVIOUS
    <2>1. Numbered'
      BY <1>1 DEF CommonInv, Numbered
    <2>2. PICK e, pos : Framed(e, pos)
      BY <1>1 DEF CommonInv
    <2>3. Framed(e, pos)'
      BY <1>1, <2>2, FramedStays
    <2> QED
      BY <2>1, <2>3
  <1>7. mode = "runes" => zids' = data'
    BY <1>1 DEF CommonInv
  <1>8. KeepsCommonText'
    BY <1>1 DEF KeepsCommonText, Compared
  <1> QED
    BY <1>1, <1>5, <1>6, <1>7, <1>8 DEF CommonInv

(***************************************************************************)
(* The other steps, and the theorem.                                       *)
(***************************************************************************)

\* At the start nothing is compared yet, or all of the runes are to be.
LEMMA InitCommon == Init => CommonInv
  <1> SUFFICES ASSUME Init PROVE CommonInv
    OBVIOUS
  <1>1. data \in [Sides -> Seq(Items)]
    BY FilesAssumption DEF Init
  <1>2. CASE mode = "lines" /\ stage = "equiv"
    BY <1>2 DEF CommonInv, KeepsCommonText, Compared
  <1>3. CASE /\ mode = "runes" /\ stage = "lcs" /\ zids = data
             /\ stack = Whole(data[1], data[2]) /\ v = Array(data[1], data[2])
    <2>1. zchange = [f \in Sides |-> Unchanged(Len(data[f]))]
      BY DEF Init
    <2>2. Solving(Items, data, zchange, Whole(data[1], data[2]), Array(data[1], data[2]))
      BY <1>1, <2>1, SolvingStart
    <2>3. Signs = Items
      BY <1>3 DEF Signs
    <2>4. Solving(Signs, zids, zchange, stack, v)
      BY <1>3, <2>2, <2>3
    <2> QED
      BY <1>3, <2>4 DEF CommonInv, KeepsCommonText, Compared
  <1> QED
    BY <1>2, <1>3 DEF Init

\* find_equiv_lines gives every line a positive number.
LEMMA EquivCommon == ASSUME DiffInv, CommonInv, Equiv PROVE CommonInv'
  <1>1. /\ stage' = "compress" /\ ids' = EquivIds(data) /\ data' = data
        /\ data \in [Sides -> Seq(Items)]
    BY DEF Equiv, input, DiffInv
  <1>2. /\ EquivIds(data) \in [Sides -> Seq(Nat \ {0})]
        /\ \A f \in Sides : DOMAIN EquivIds(data)[f] = 1 .. Len(data[f])
    BY <1>1, EquivIdsFacts
  <1>3. \A f \in Sides : Len(EquivIds(data)[f]) = Len(data[f])
    <2> DEFINE n == EquivIds(data)
    <2> SUFFICES ASSUME NEW f \in Sides PROVE Len(n[f]) = Len(data[f])
      OBVIOUS
    <2>1. n[f] \in Seq(Nat \ {0}) /\ DOMAIN n[f] = 1 .. Len(data[f]) /\ Len(data[f]) \in Nat
      BY <1>1, <1>2
    <2> HIDE DEF n
    <2> QED
      BY <2>1
  <1>4. Numbered'
    BY <1>1, <1>2, <1>3 DEF Numbered
  <1> QED
    BY <1>1, <1>4 DEF CommonInv, KeepsCommonText, Compared

\* A turn of shift_boundaries keeps the texts, so that what they have in common
\* stays the same.
LEMMA ShiftCommon == ASSUME DiffInv, CommonInv, Shift PROVE CommonInv'
  <1>1. stage = "shift" /\ stage' = "shift" /\ data' = data
    BY DEF Shift, input
  <1>2. KeptText(data[1], change[1]) = KeptText(data[2], change[2])
    BY <1>1 DEF CommonInv, KeepsCommonText, Compared, KeptOf
  <1>3. /\ KeptText(data[1], change'[1]) = KeptText(data[1], change[1])
        /\ KeptText(data[2], change'[2]) = KeptText(data[2], change[2])
    BY ShiftKeeps DEF Sides
  <1>4. KeepsCommonText'
    BY <1>1, <1>2, <1>3 DEF KeepsCommonText, KeptOf
  <1> QED
    BY <1>1, <1>4 DEF CommonInv

\* Nor does anything after it touch marks or text.
LEMMA ReportCommon == ASSUME DiffInv, CommonInv, ShiftEnd \/ Report \/ ReportEnd PROVE CommonInv'
  <1>1. /\ stage \in {"shift", "report"} /\ stage' \in {"shift", "report", "done"}
        /\ data' = data /\ change' = change
    BY DEF ShiftEnd, Report, ReportEnd, input
  <1>2. KeepsCommonText
    BY DEF CommonInv
  <1>3. KeepsCommonText'
    BY <1>1, <1>2 DEF KeepsCommonText, Compared, KeptOf
  <1> QED
    BY <1>1, <1>3 DEF CommonInv

\* A step that changes nothing.
LEMMA IdleCommon == ASSUME CommonInv, UNCHANGED vars PROVE CommonInv'
  <1>1. /\ stage' = stage /\ mode' = mode /\ data' = data /\ ids' = ids /\ change' = change
        /\ zstart' = zstart /\ zids' = zids /\ zcount' = zcount /\ zchange' = zchange
        /\ stack' = stack /\ v' = v
    BY DEF vars, input
  <1>2. Numbered' <=> Numbered
    BY <1>1 DEF Numbered
  <1>3. Signs' = Signs
    BY <1>1 DEF Signs
  <1>4. Solving(Signs, zids, zchange, stack, v)' <=> Solving(Signs, zids, zchange, stack, v)
    BY <1>1, <1>3 DEF Solving, Texts, Ordered, Untouched, From, To, Linked, Closed
  <1>5. ASSUME NEW e, NEW pos, Framed(e, pos) PROVE Framed(e, pos)'
    BY <1>1, <1>5, FramedStays
  <1>6. KeepsCommonText'
    BY <1>1 DEF CommonInv, KeepsCommonText, Compared, KeptOf
  <1> QED
    BY <1>1, <1>2, <1>4, <1>5, <1>6 DEF CommonInv

\* No step disturbs the invariant.
LEMMA NextCommon == DiffInv /\ CommonInv /\ [Next]_vars => CommonInv'
  <1> SUFFICES ASSUME DiffInv, CommonInv, [Next]_vars PROVE CommonInv'
    OBVIOUS
  <1>1. CASE Done \/ UNCHANGED vars
    BY <1>1, IdleCommon DEF Done
  <1> QED
    BY <1>1, EquivCommon, CompressCommon, LcsCommon, ExpandCommon, ShiftCommon, ReportCommon DEF Next

\* Whatever the middle snakes are, what is not marked as changed is the same text
\* in both files, or in both runs of runes, from when they are compared on:
\* before, during and after shifting.
THEOREM DiffKeepsCommonText == Spec => []KeepsCommonText
  <1>1. Init => DiffInv /\ CommonInv
    BY InitDiffInv, InitCommon
  <1>2. DiffInv /\ CommonInv /\ [Next]_vars => DiffInv' /\ CommonInv'
    BY NextDiffInv, NextCommon
  <1>3. CommonInv => KeepsCommonText
    BY DEF CommonInv
  <1> QED
    BY <1>1, <1>2, <1>3, PTL DEF Spec

(***************************************************************************)
(* What is shown. The groups that report_diff shows are joined, and the    *)
(* lines of their ops are in order, if the ops are.                        *)
(***************************************************************************)

\* f[i] is the first i of the sequences joined.
Flattens(seqs, f) ==
    /\ f[0] = <<>>
    /\ \A i \in 1 .. Len(seqs) : f[i] = f[i - 1] \o seqs[i]

\* The recursive definition of FlattenSeq is of a function that exists.
LEMMA FlattenSeqDef ==
  ASSUME NEW S, NEW seqs \in Seq(Seq(S))
  PROVE  \E f : /\ \A i \in 0 .. Len(seqs) : f[i] \in Seq(S)
                /\ Flattens(seqs, f)
                /\ FlattenSeq(seqs) = f[Len(seqs)]
  <1> DEFINE n == Len(seqs)
             SS == [i \in 0 .. n |-> Seq(S)]
             step == [i \in 1 .. n |-> [z \in Seq(S) |-> z \o seqs[i]]]
             Def(g) == [i \in 1 .. n |-> IF i = 1 THEN seqs[i] ELSE g[i - 1] \o seqs[i]]
  <1>0. n \in Nat /\ \A i \in 1 .. n : seqs[i] \in Seq(S)
    BY ElementOfSeq, LenProperties
  <1>1. CASE n = 0
    <2> DEFINE f == [i \in 0 .. 0 |-> <<>>]
    <2>1. FlattenSeq(seqs) = seqs /\ seqs = <<>>
      BY <1>1 DEF FlattenSeq
    <2>2. f[0] = <<>> /\ 0 .. 0 = {0} /\ <<>> \in Seq(S) /\ 1 .. 0 = {}
      OBVIOUS
    <2> HIDE DEF f
    <2> QED
      BY <1>1, <2>1, <2>2 DEF Flattens
  <1>2. CASE n # 0
    <2>1. \A i \in 1 .. n : \A z \in SS[i - 1] : step[i][z] \in SS[i]
      <3> SUFFICES ASSUME NEW i \in 1 .. n, NEW z \in SS[i - 1] PROVE step[i][z] \in SS[i]
        OBVIOUS
      <3>1. i - 1 \in 0 .. n /\ i \in 0 .. n
        BY <1>0
      <3>2. z \in Seq(S) /\ seqs[i] \in Seq(S)
        BY <1>0, <3>1
      <3>3. z \o seqs[i] \in Seq(S)
        BY <3>2, ConcatProperties
      <3> QED
        BY <3>1, <3>2, <3>3
    <2>2. <<>> \in SS[0] /\ 0 \in 0 .. n
      BY <1>0
    <2>3. PICK f : LoopOf(n, SS, <<>>, step, f)
      <3> HIDE DEF SS, step, n
      <3> QED
        BY <1>0, <2>1, <2>2, LoopExists
    <2>4. \A i \in 1 .. n : i - 1 \in 0 .. n /\ f[i - 1] \in Seq(S) /\ f[i] = f[i - 1] \o seqs[i]
      <3> SUFFICES ASSUME NEW i \in 1 .. n
                   PROVE  i - 1 \in 0 .. n /\ f[i - 1] \in Seq(S) /\ f[i] = f[i - 1] \o seqs[i]
        OBVIOUS
      <3>1. i - 1 \in 0 .. n
        BY <1>0
      <3>2. f[i - 1] \in SS[i - 1] /\ f[i] = step[i][f[i - 1]]
        BY <2>3 DEF LoopOf
      <3> QED
        BY <3>1, <3>2
    <2>5. f[0] = <<>>
      BY <2>3 DEF LoopOf
    <2> DEFINE g == [i \in 1 .. n |-> f[i]]
    <2>6. \A i \in 1 .. n : f[i] = IF i = 1 THEN seqs[i] ELSE g[i - 1] \o seqs[i]
      <3> SUFFICES ASSUME NEW i \in 1 .. n
                   PROVE  f[i] = IF i = 1 THEN seqs[i] ELSE g[i - 1] \o seqs[i]
        OBVIOUS
      <3>1. CASE i = 1
        <4>1. f[1] = <<>> \o seqs[1] /\ seqs[1] \in Seq(S)
          BY <1>0, <2>4, <2>5, <3>1, 1 - 1 = 0
        <4>2. <<>> \o seqs[1] = seqs[1]
          BY <4>1, ConcatEmptySeq
        <4> QED
          BY <3>1, <4>1, <4>2
      <3>2. CASE i # 1
        <4>1. i - 1 \in 1 .. n
          BY <1>0, <3>2
        <4> QED
          BY <2>4, <3>2, <4>1
      <3> QED
        BY <3>1, <3>2
    <2>7. g = Def(g)
      BY <2>6, Zenon
    <2> DEFINE h == CHOOSE g_1 : g_1 = Def(g_1)
    <2>8. h = Def(h)
      BY <2>7
    <2>9. FlattenSeq(seqs) = h[n]
      <3>1. Len(seqs) # 0
        BY <1>2
      <3> QED
        BY <3>1, Zenon DEF FlattenSeq
    <2> HIDE DEF h
    <2>10. \A i \in 1 .. n : h[i] = IF i = 1 THEN seqs[i] ELSE h[i - 1] \o seqs[i]
      <3> SUFFICES ASSUME NEW i \in 1 .. n
                   PROVE  h[i] = IF i = 1 THEN seqs[i] ELSE h[i - 1] \o seqs[i]
        OBVIOUS
      <3>1. h[i] = Def(h)[i]
        BY <2>8
      <3> QED
        BY <3>1
    <2> DEFINE k == [i \in 0 .. n |-> IF i = 0 THEN <<>> ELSE h[i]]
    <2>11. k[0] = <<>> /\ k[n] = h[n] /\ \A i \in 1 .. n : k[i] = h[i]
      BY <1>0, <1>2
    <2>12. \A i \in 1 .. n : k[i] = k[i - 1] \o seqs[i]
      <3> SUFFICES ASSUME NEW i \in 1 .. n PROVE k[i] = k[i - 1] \o seqs[i]
        OBVIOUS
      <3>1. CASE i = 1
        <4>1. <<>> \o seqs[i] = seqs[i]
          BY <1>0, ConcatEmptySeq
        <4>2. i - 1 = 0
          BY <3>1
        <4> HIDE DEF k
        <4>3. k[i - 1] = <<>> /\ k[i] = seqs[i]
          BY <2>10, <2>11, <3>1, <4>2
        <4> QED
          BY <4>1, <4>3
      <3>2. CASE i # 1
        <4>1. i - 1 \in 1 .. n
          BY <1>0, <3>2
        <4> HIDE DEF k
        <4> QED
          BY <2>10, <2>11, <3>2, <4>1
      <3> QED
        BY <3>1, <3>2
    <2> HIDE DEF k
    <2>13. \A i \in 0 .. n : k[i] \in Seq(S)
      <3> DEFINE T == {i \in 0 .. n : k[i] \in Seq(S)}
      <3>1. 0 \in T
        BY <2>2, <2>11
      <3>2. ASSUME NEW i \in 0 .. n - 1, i \in T PROVE i + 1 \in T
        <4>1. i + 1 \in 1 .. n /\ (i + 1) - 1 = i /\ i + 1 \in 0 .. n
          BY <1>0
        <4>2. k[i + 1] = k[i] \o seqs[i + 1] /\ k[i] \in Seq(S) /\ seqs[i + 1] \in Seq(S)
          BY <1>0, <2>12, <3>2, <4>1
        <4>3. k[i + 1] \in Seq(S)
          BY <4>2, ConcatProperties
        <4> QED
          BY <4>1, <4>3
      <3> HIDE DEF T
      <3>3. \A i \in 0 .. n : i \in T
        BY <1>0, <3>1, <3>2, Induction
      <3> QED
        BY <3>3 DEF T
    <2>14. Flattens(seqs, k)
      BY <2>11, <2>12 DEF Flattens
    <2> QED
      BY <2>9, <2>11, <2>13, <2>14
  <1> QED
    BY <1>1, <1>2

\* It is the only one.
LEMMA FlattenSeqIs ==
  ASSUME NEW S, NEW seqs \in Seq(Seq(S)), NEW f, Flattens(seqs, f)
  PROVE  FlattenSeq(seqs) = f[Len(seqs)]
  <1> DEFINE n == Len(seqs)
  <1>0. n \in Nat
    OBVIOUS
  <1>1. PICK g : Flattens(seqs, g) /\ FlattenSeq(seqs) = g[n]
    BY FlattenSeqDef
  <1> DEFINE T == {i \in 0 .. n : f[i] = g[i]}
  <1>2. 0 \in T
    BY <1>1 DEF Flattens
  <1>3. ASSUME NEW i \in 0 .. n - 1, i \in T PROVE i + 1 \in T
    <2>1. i + 1 \in 1 .. n /\ (i + 1) - 1 = i /\ i + 1 \in 0 .. n
      OBVIOUS
    <2>2. f[i + 1] = f[i] \o seqs[i + 1] /\ g[i + 1] = g[i] \o seqs[i + 1]
      BY <1>1, <2>1 DEF Flattens
    <2> QED
      BY <1>3, <2>1, <2>2
  <1> HIDE DEF T, n
  <1>4. \A i \in 0 .. n : i \in T
    BY <1>0, <1>2, <1>3, Induction
  <1>5. f[n] = g[n]
    BY <1>0, <1>4 DEF T
  <1> QED
    BY <1>1, <1>5 DEF n

\* Sequences joined are one of the same set.
LEMMA FlattenSeqTyped ==
  ASSUME NEW S, NEW seqs \in Seq(Seq(S))
  PROVE  FlattenSeq(seqs) \in Seq(S)
  <1>1. PICK f : (\A i \in 0 .. Len(seqs) : f[i] \in Seq(S)) /\ FlattenSeq(seqs) = f[Len(seqs)]
    BY FlattenSeqDef
  <1>2. Len(seqs) \in 0 .. Len(seqs)
    OBVIOUS
  <1> QED
    BY <1>1, <1>2

\* One sequence more comes after the others.
LEMMA FlattenSeqAppend ==
  ASSUME NEW S, NEW seqs \in Seq(Seq(S)), NEW s \in Seq(S)
  PROVE  FlattenSeq(Append(seqs, s)) = FlattenSeq(seqs) \o s
  <1> DEFINE n == Len(seqs)
             more == Append(seqs, s)
  <1>0. /\ n \in Nat /\ more \in Seq(Seq(S)) /\ Len(more) = n + 1 /\ more[n + 1] = s
        /\ \A i \in 1 .. n : more[i] = seqs[i]
    BY AppendProperties, LenProperties
  <1>1. PICK f : Flattens(seqs, f) /\ FlattenSeq(seqs) = f[n]
    BY FlattenSeqDef
  <1> DEFINE g == [i \in 0 .. n + 1 |-> IF i = n + 1 THEN f[n] \o s ELSE f[i]]
  <1> HIDE DEF n, more
  <1>2. g[0] = <<>> /\ g[n + 1] = f[n] \o s /\ \A i \in 0 .. n : g[i] = f[i]
    <2>1. f[0] = <<>>
      BY <1>1 DEF Flattens
    <2> QED
      BY <1>0, <2>1
  <1> HIDE DEF g
  <1>3. ASSUME NEW i \in 1 .. n + 1 PROVE g[i] = g[i - 1] \o more[i]
    <2>1. CASE i = n + 1
      <3>1. i - 1 = n /\ n \in 0 .. n
        BY <1>0, <2>1
      <3> QED
        BY <1>0, <1>2, <2>1, <3>1
    <2>2. CASE i # n + 1
      <3>1. i \in 1 .. n /\ i \in 0 .. n /\ i - 1 \in 0 .. n
        BY <1>0, <2>2
      <3>2. f[i] = f[i - 1] \o seqs[i]
        BY <1>1, <3>1 DEF Flattens, n
      <3> QED
        BY <1>0, <1>2, <3>1, <3>2
    <2> QED
      BY <2>1, <2>2
  <1>4. Flattens(more, g)
    BY <1>0, <1>2, <1>3 DEF Flattens
  <1>5. FlattenSeq(more) = g[Len(more)]
    BY <1>0, <1>4, FlattenSeqIs
  <1> QED
    BY <1>0, <1>1, <1>2, <1>5 DEF n, more

\* Sequences of numbers: increasing, and one below another.
Increasing(u) == \A i, j \in DOMAIN u : i < j => u[i] < u[j]
Below(u, w) == \A x \in ToSet(u), y \in ToSet(w) : x < y

\* Two increasing sequences, the one below the other, are one.
LEMMA IncreasingJoined ==
  ASSUME NEW u \in Seq(Nat), NEW w \in Seq(Nat), Increasing(u), Increasing(w), Below(u, w)
  PROVE  Increasing(u \o w) /\ ToSet(u \o w) = ToSet(u) \cup ToSet(w)
  <1> DEFINE m == Len(u)
             n == Len(w)
             z == u \o w
  <1>1. /\ m \in Nat /\ n \in Nat /\ DOMAIN u = 1 .. m /\ DOMAIN w = 1 .. n
        /\ DOMAIN z = 1 .. m + n
        /\ \A i \in 1 .. m + n : z[i] = IF i <= m THEN u[i] ELSE w[i - m]
    <2>1. z \in Seq(Nat) /\ Len(z) = m + n
      BY ConcatProperties
    <2> QED
      BY <2>1, ConcatProperties
  <1> HIDE DEF m, n, z
  <1>2. \A i \in 1 .. m + n : \/ i \in 1 .. m /\ z[i] = u[i] /\ z[i] \in ToSet(u)
                              \/ i > m /\ i - m \in 1 .. n /\ z[i] = w[i - m] /\ z[i] \in ToSet(w)
    <2> SUFFICES ASSUME NEW i \in 1 .. m + n
                 PROVE  \/ i \in 1 .. m /\ z[i] = u[i] /\ z[i] \in ToSet(u)
                        \/ i > m /\ i - m \in 1 .. n /\ z[i] = w[i - m] /\ z[i] \in ToSet(w)
      OBVIOUS
    <2>1. CASE i <= m
      <3>1. i \in 1 .. m /\ z[i] = u[i]
        BY <1>1, <2>1
      <3>2. u[i] \in ToSet(u)
        BY <1>1, <3>1 DEF ToSet
      <3> QED
        BY <3>1, <3>2
    <2>2. CASE ~ (i <= m)
      <3>1. i > m /\ i - m \in 1 .. n /\ z[i] = w[i - m]
        BY <1>1, <2>2
      <3>2. w[i - m] \in ToSet(w)
        BY <1>1, <3>1 DEF ToSet
      <3> QED
        BY <3>1, <3>2
    <2> QED
      BY <2>1, <2>2
  <1>3. Increasing(z)
    <2> SUFFICES ASSUME NEW i \in 1 .. m + n, NEW j \in 1 .. m + n, i < j PROVE z[i] < z[j]
      BY <1>1 DEF Increasing
    <2>1. CASE i <= m /\ j <= m
      <3>1. i \in 1 .. m /\ j \in 1 .. m /\ z[i] = u[i] /\ z[j] = u[j]
        BY <1>1, <2>1
      <3> QED
        BY <1>1, <3>1 DEF Increasing
    <2>2. CASE i > m /\ j > m
      <3>1. /\ i - m \in 1 .. n /\ j - m \in 1 .. n /\ i - m < j - m
            /\ z[i] = w[i - m] /\ z[j] = w[j - m]
        BY <1>1, <2>2
      <3> QED
        BY <1>1, <3>1 DEF Increasing
    <2>3. CASE i <= m /\ j > m
      <3>1. z[i] \in ToSet(u)
        BY <1>1, <1>2, <2>3
      <3>2. z[j] \in ToSet(w)
        BY <1>1, <1>2, <2>3
      <3> QED
        BY <3>1, <3>2 DEF Below
    <2>4. ~ (i > m /\ j <= m)
      BY <1>1
    <2> QED
      BY <1>1, <2>1, <2>2, <2>3, <2>4
  <1>4. ToSet(z) \subseteq ToSet(u) \cup ToSet(w)
    BY <1>1, <1>2 DEF ToSet
  <1>5. ToSet(u) \subseteq ToSet(z)
    <2>0. ToSet(z) = {z[k] : k \in 1 .. m + n} /\ ToSet(u) = {u[k] : k \in 1 .. m}
      BY ONLY <1>1, Zenon DEF ToSet
    <2> SUFFICES ASSUME NEW i \in 1 .. m PROVE \E k \in 1 .. m + n : z[k] = u[i]
      BY <2>0
    <2>1. i \in 1 .. m + n /\ i <= m
      BY <1>1
    <2> QED
      BY <1>1, <2>1
  <1>6. ToSet(w) \subseteq ToSet(z)
    <2>0. ToSet(z) = {z[k] : k \in 1 .. m + n} /\ ToSet(w) = {w[k] : k \in 1 .. n}
      BY ONLY <1>1, Zenon DEF ToSet
    <2> SUFFICES ASSUME NEW i \in 1 .. n PROVE \E k \in 1 .. m + n : z[k] = w[i]
      BY <2>0
    <2>1. m + i \in 1 .. m + n /\ ~ (m + i <= m) /\ (m + i) - m = i
      BY <1>1
    <2> QED
      BY <1>1, <2>1
  <1> QED
    BY <1>3, <1>4, <1>5, <1>6 DEF z

\* And so are any number of them.
LEMMA FlattenIncreasing ==
  ASSUME NEW parts \in Seq(Seq(Nat)),
         \A i \in 1 .. Len(parts) : Increasing(parts[i]),
         \A i, j \in 1 .. Len(parts) : i < j => Below(parts[i], parts[j])
  PROVE  /\ FlattenSeq(parts) \in Seq(Nat)
         /\ Increasing(FlattenSeq(parts))
         /\ ToSet(FlattenSeq(parts)) = UNION {ToSet(parts[i]) : i \in 1 .. Len(parts)}
  <1> DEFINE n == Len(parts)
             U(k) == UNION {ToSet(parts[i]) : i \in 1 .. k}
  <1>0. n \in Nat /\ \A i \in 1 .. n : parts[i] \in Seq(Nat)
    BY ElementOfSeq, LenProperties
  <1>1. PICK f : /\ \A i \in 0 .. n : f[i] \in Seq(Nat)
                 /\ Flattens(parts, f)
                 /\ FlattenSeq(parts) = f[n]
    BY FlattenSeqDef
  <1> DEFINE T == {k \in 0 .. n : Increasing(f[k]) /\ ToSet(f[k]) = U(k)}
  <1>2. 0 \in T
    <2>1. f[0] = <<>>
      BY <1>1 DEF Flattens
    <2>2. Increasing(<<>>) /\ ToSet(<<>>) = {} /\ U(0) = {} /\ 0 \in 0 .. n
      BY <1>0 DEF Increasing, ToSet
    <2> QED
      BY <2>1, <2>2
  <1>3. ASSUME NEW k \in 0 .. n - 1, k \in T PROVE k + 1 \in T
    <2>1. k + 1 \in 1 .. n /\ (k + 1) - 1 = k /\ k + 1 \in 0 .. n /\ k \in 0 .. n
      BY <1>0
    <2>2. f[k + 1] = f[k] \o parts[k + 1]
      BY <1>1, <2>1 DEF Flattens
    <2>3. f[k] \in Seq(Nat) /\ parts[k + 1] \in Seq(Nat) /\ Increasing(f[k]) /\ Increasing(parts[k + 1])
      BY <1>0, <1>1, <1>3, <2>1
    <2>4. Below(f[k], parts[k + 1])
      <3> SUFFICES ASSUME NEW x \in ToSet(f[k]), NEW y \in ToSet(parts[k + 1]) PROVE x < y
        BY DEF Below
      <3>1. PICK i \in 1 .. k : x \in ToSet(parts[i])
        BY <1>3
      <3>2. i \in 1 .. n /\ i < k + 1
        BY <2>1, <1>0
      <3>3. Below(parts[i], parts[k + 1])
        BY <2>1, <3>2
      <3> QED
        BY <3>1, <3>3 DEF Below
    <2>5. Increasing(f[k + 1]) /\ ToSet(f[k + 1]) = ToSet(f[k]) \cup ToSet(parts[k + 1])
      BY <2>2, <2>3, <2>4, IncreasingJoined
    <2>6. ToSet(f[k]) = U(k)
      BY <1>3
    <2>7. U(k + 1) = U(k) \cup ToSet(parts[k + 1])
      <3>1. 1 .. k + 1 = (1 .. k) \cup {k + 1}
        BY <2>1
      <3> QED
        BY <3>1
    <2> QED
      BY <2>1, <2>5, <2>6, <2>7
  <1> HIDE DEF T
  <1>4. \A k \in 0 .. n : k \in T
    BY <1>0, <1>2, <1>3, Induction
  <1>5. Increasing(f[n]) /\ ToSet(f[n]) = U(n) /\ f[n] \in Seq(Nat)
    <2>1. n \in 0 .. n
      BY <1>0
    <2> QED
      BY <1>1, <1>4, <2>1 DEF T
  <1> QED
    BY <1>1, <1>5

\* The items of a text after s up to e, in their order.
LEMMA StretchFacts ==
  ASSUME NEW s \in Nat, NEW e \in Nat
  PROVE  LET w == [k \in 1 .. e - s |-> s + k]
         IN  w \in Seq(Nat) /\ Increasing(w) /\ ToSet(w) = s + 1 .. e
  <1> DEFINE w == [k \in 1 .. e - s |-> s + k]
  <1>1. CASE s <= e
    <2>1. e - s \in Nat /\ w \in [1 .. e - s -> Nat]
      BY <1>1
    <2>2. w \in Seq(Nat)
      BY <2>1
    <2>3. Increasing(w)
      <3>1. DOMAIN w = 1 .. e - s /\ \A k \in 1 .. e - s : w[k] = s + k
        OBVIOUS
      <3> HIDE DEF w
      <3> QED
        BY <3>1 DEF Increasing
    <2>4. ToSet(w) = {s + k : k \in 1 .. e - s}
      BY DEF ToSet
    <2>5. ASSUME NEW p \in s + 1 .. e PROVE \E k \in 1 .. e - s : s + k = p
      <3>1. p - s \in 1 .. e - s /\ s + (p - s) = p
        OBVIOUS
      <3> QED
        BY <3>1
    <2>6. \A k \in 1 .. e - s : s + k \in s + 1 .. e
      OBVIOUS
    <2> QED
      BY <2>2, <2>3, <2>4, <2>5, <2>6
  <1>2. CASE ~ (s <= e)
    <2>1. 1 .. e - s = {} /\ s + 1 .. e = {}
      BY <1>2
    <2>2. w = <<>>
      BY <2>1
    <2>3. Increasing(<<>>) /\ ToSet(<<>>) = {}
      BY DEF Increasing, ToSet
    <2> QED
      BY <2>1, <2>2, <2>3
  <1> QED
    BY <1>1, <1>2

\* From s to e nothing is marked in m, and the two texts t are the same.
SameText(t, m, s, e) ==
    /\ e[1] - s[1] = e[2] - s[2]
    /\ \A k \in 1 .. e[1] - s[1] : /\ t[1][s[1] + k] = t[2][s[2] + k]
                                   /\ ~ m[1][s[1] + k] /\ ~ m[2][s[2] + k]

\* Nothing is marked from s to e.
NoMarks(m, s, e) == \A f \in Sides : \A p \in s[f] + 1 .. e[f] : ~ m[f][p]

\* Ops that may be shown: changes of marked lines only, and context.
Kinds == {"same", "modify", "remove", "insert"}
FineOps(t, m) ==
    {o \in [op : Kinds, s : Points, e : Points] :
        /\ Before(o.s, o.e)
        /\ o.e[1] <= Len(t[1]) /\ o.e[2] <= Len(t[2])
        /\ o.op = "same" => SameText(t, m, o.s, o.e) /\ o.e[1] - o.s[1] <= Context
        /\ o.op # "same" => \A f \in Sides : \A p \in o.s[f] + 1 .. o.e[f] : m[f][p]}

\* The ops of q follow on one another up to z, and every marked line before is in one
\* that shows it as changed.
Listed(t, m, q, z) ==
    /\ q \in Seq(FineOps(t, m))
    /\ \A i \in DOMAIN q : Before(q[i].e, z)
    /\ \A i, j \in DOMAIN q : i < j => Before(q[i].e, q[j].s)
    /\ \A f \in Sides : \A p \in 1 .. z[f] :
         m[f][p] => \E i \in DOMAIN q : q[i].op # "same" /\ q[i].s[f] < p /\ p <= q[i].e[f]

\* What is known of such an op, on either side.
LEMMA FineOp ==
  ASSUME NEW t, NEW m, NEW o \in FineOps(t, m), NEW f \in Sides
  PROVE  /\ o.op \in Kinds /\ o.s \in Points /\ o.e \in Points
         /\ o.s[f] \in Nat /\ o.e[f] \in Nat /\ o.s[f] <= o.e[f]
         /\ Len(t[f]) \in Nat => o.e[f] <= Len(t[f])
         /\ o.op # "same" => \A p \in o.s[f] + 1 .. o.e[f] : m[f][p]
         /\ o.op = "same" => \A p \in o.s[f] + 1 .. o.e[f] : ~ m[f][p]
         /\ o.op = "same" => o.e[f] - o.s[f] <= Context
  <1>1. /\ o.op \in Kinds /\ o.s \in Points /\ o.e \in Points
        /\ Before(o.s, o.e) /\ o.e[1] <= Len(t[1]) /\ o.e[2] <= Len(t[2])
        /\ o.op = "same" => SameText(t, m, o.s, o.e) /\ o.e[1] - o.s[1] <= Context
        /\ o.op # "same" => \A g \in Sides : \A p \in o.s[g] + 1 .. o.e[g] : m[g][p]
    BY DEF FineOps
  <1>2. o.s[1] \in Nat /\ o.s[2] \in Nat /\ o.e[1] \in Nat /\ o.e[2] \in Nat
    BY <1>1 DEF Points
  <1>3. f = 1 \/ f = 2
    BY DEF Sides
  <1>4. o.s[f] \in Nat /\ o.e[f] \in Nat /\ o.s[f] <= o.e[f] /\ o.e[f] <= Len(t[f])
    BY <1>1, <1>2, <1>3 DEF Before
  <1>5. ASSUME o.op = "same" PROVE o.e[f] - o.s[f] = o.e[1] - o.s[1]
    BY <1>1, <1>2, <1>3, <1>5 DEF SameText
  <1>6. ASSUME o.op = "same", NEW p \in o.s[f] + 1 .. o.e[f] PROVE ~ m[f][p]
    <2>1. p - o.s[f] \in 1 .. o.e[1] - o.s[1] /\ o.s[f] + (p - o.s[f]) = p
      <3> DEFINE s == o.s[f]
                 e == o.e[f]
                 d == o.e[1] - o.s[1]
      <3>1. s \in Nat /\ e \in Nat /\ p \in s + 1 .. e /\ e - s = d
        BY <1>4, <1>5, <1>6
      <3> HIDE DEF s, e, d
      <3>2. p - s \in 1 .. d /\ s + (p - s) = p
        BY ONLY <3>1
      <3> QED
        BY ONLY <3>2 DEF s, d
    <2>2. ~ m[1][o.s[1] + (p - o.s[f])] /\ ~ m[2][o.s[2] + (p - o.s[f])]
      BY <1>1, <1>6, <2>1 DEF SameText
    <2> QED
      BY <1>3, <2>1, <2>2
  <1>7. o.op = "same" => o.e[f] - o.s[f] <= Context
    BY <1>1, <1>5
  <1> QED
    BY <1>1, <1>4, <1>6, <1>7

\* The lines of one side in the ops of some kinds.
Lines(q, f, kinds) ==
    [i \in DOMAIN q |-> IF q[i].op \in kinds
                        THEN [k \in 1 .. q[i].e[f] - q[i].s[f] |-> q[i].s[f] + k] ELSE <<>>]

\* They are listed in increasing order.
LEMMA LinesListed ==
  ASSUME NEW t, NEW m, NEW q, NEW z, Listed(t, m, q, z), NEW f \in Sides, NEW kinds
  PROVE  LET w == FlattenSeq(Lines(q, f, kinds))
         IN  /\ w \in Seq(Nat)
             /\ Increasing(w)
             /\ \A p : p \in ToSet(w) <=> \E i \in DOMAIN q : /\ q[i].op \in kinds
                                                              /\ p \in q[i].s[f] + 1 .. q[i].e[f]
  <1> DEFINE n == Len(q)
             parts == Lines(q, f, kinds)
             S(i) == IF q[i].op \in kinds THEN q[i].s[f] + 1 .. q[i].e[f] ELSE {}
  <1>1. /\ q \in Seq(FineOps(t, m)) /\ n \in Nat /\ DOMAIN q = 1 .. n
        /\ \A i \in 1 .. n : q[i] \in FineOps(t, m)
    BY DEF Listed
  <1>2. \A i \in 1 .. n : q[i].s[f] \in Nat /\ q[i].e[f] \in Nat /\ q[i].s[f] <= q[i].e[f]
    BY <1>1, FineOp
  <1>3. \A i, j \in 1 .. n : i < j => q[i].e[f] <= q[j].s[f]
    BY <1>1 DEF Listed, Before, Sides
  <1>4. DOMAIN parts = 1 .. n
    BY <1>1 DEF Lines
  <1>5. ASSUME NEW i \in 1 .. n
        PROVE  parts[i] \in Seq(Nat) /\ Increasing(parts[i]) /\ ToSet(parts[i]) = S(i)
    <2>1. CASE q[i].op \in kinds
      <3>1. parts[i] = [k \in 1 .. q[i].e[f] - q[i].s[f] |-> q[i].s[f] + k]
        BY <1>1, <2>1 DEF Lines
      <3>2. S(i) = q[i].s[f] + 1 .. q[i].e[f]
        BY <2>1
      <3>3. LET w == [k \in 1 .. q[i].e[f] - q[i].s[f] |-> q[i].s[f] + k]
            IN  w \in Seq(Nat) /\ Increasing(w) /\ ToSet(w) = q[i].s[f] + 1 .. q[i].e[f]
        BY <1>2, StretchFacts
      <3> QED
        BY <3>1, <3>2, <3>3
    <2>2. CASE q[i].op \notin kinds
      <3>1. parts[i] = <<>> /\ S(i) = {}
        BY <1>1, <2>2 DEF Lines
      <3>2. <<>> \in Seq(Nat) /\ Increasing(<<>>) /\ ToSet(<<>>) = {}
        BY DEF Increasing, ToSet
      <3> QED
        BY <3>1, <3>2
    <2> QED
      BY <2>1, <2>2
  <1>6. parts = [i \in 1 .. n |-> parts[i]]
    BY <1>1 DEF Lines
  <1> HIDE DEF parts
  <1>7. parts \in Seq(Seq(Nat)) /\ Len(parts) = n
    <2>1. parts \in [1 .. n -> Seq(Nat)]
      BY <1>5, <1>6
    <2> QED
      BY <1>1, <2>1
  <1>8. ASSUME NEW i \in 1 .. n, NEW j \in 1 .. n, i < j PROVE Below(parts[i], parts[j])
    <2> SUFFICES ASSUME NEW x \in S(i), NEW y \in S(j) PROVE x < y
      BY <1>5 DEF Below
    <2>1. x \in q[i].s[f] + 1 .. q[i].e[f] /\ y \in q[j].s[f] + 1 .. q[j].e[f]
      OBVIOUS
    <2>2. q[i].e[f] <= q[j].s[f]
      BY <1>3, <1>8
    <2> QED
      BY <1>2, <2>1, <2>2
  <1>9. /\ FlattenSeq(parts) \in Seq(Nat) /\ Increasing(FlattenSeq(parts))
        /\ ToSet(FlattenSeq(parts)) = UNION {ToSet(parts[i]) : i \in 1 .. n}
    BY <1>5, <1>7, <1>8, FlattenIncreasing
  <1>10. UNION {ToSet(parts[i]) : i \in 1 .. n} = UNION {S(i) : i \in 1 .. n}
    BY <1>5
  <1>11. ASSUME NEW p
         PROVE  p \in UNION {S(i) : i \in 1 .. n} <=>
                \E i \in DOMAIN q : q[i].op \in kinds /\ p \in q[i].s[f] + 1 .. q[i].e[f]
    BY <1>1
  <1> QED
    BY <1>9, <1>10, <1>11 DEF parts

\* Ops listed up to the ends of both files are shown as they should be.
LEMMA ListedShows ==
  ASSUME NEW t \in [Sides -> Seq(Items)], NEW m \in [Sides -> Seq(BOOLEAN)],
         \A g \in Sides : Len(m[g]) = Len(t[g]),
         NEW q, Listed(t, m, q, <<Len(t[1]), Len(t[2])>>), NEW f \in Sides
  PROVE  LET all  == FlattenSeq(Lines(q, f, {"same", "modify", "remove", "insert"}))
             same == ToSet(FlattenSeq(Lines(q, f, {"same"})))
         IN  /\ \A i, j \in DOMAIN all : i < j => all[i] < all[j]
             /\ ToSet(all) \ same = {p \in DOMAIN t[f] : m[f][p]}
             /\ \A i \in DOMAIN q : q[i].op = "same" =>
                  /\ SubSeq(t[1], q[i].s[1] + 1, q[i].e[1]) = SubSeq(t[2], q[i].s[2] + 1, q[i].e[2])
                  /\ q[i].e[f] - q[i].s[f] <= Context
  <1> DEFINE all  == FlattenSeq(Lines(q, f, {"same", "modify", "remove", "insert"}))
             same == ToSet(FlattenSeq(Lines(q, f, {"same"})))
             In(i, p) == p \in q[i].s[f] + 1 .. q[i].e[f]
  <1>0. /\ Len(t[1]) \in Nat /\ Len(t[2]) \in Nat /\ Len(t[f]) \in Nat
        /\ DOMAIN t[f] = 1 .. Len(t[f]) /\ 1 \in Sides /\ 2 \in Sides
    BY DEF Sides
  <1>1. \A i \in DOMAIN q : q[i] \in FineOps(t, m)
    BY DEF Listed
  <1>2. \A i \in DOMAIN q :
          /\ q[i].op \in Kinds /\ q[i].s[f] \in Nat /\ q[i].e[f] \in Nat /\ q[i].e[f] <= Len(t[f])
          /\ q[i].op # "same" => \A p : In(i, p) => m[f][p]
          /\ q[i].op = "same" => \A p : In(i, p) => ~ m[f][p]
          /\ q[i].op = "same" => q[i].e[f] - q[i].s[f] <= Context
    BY <1>0, <1>1, FineOp
  <1>3. /\ Increasing(all)
        /\ \A p : p \in ToSet(all) <=> \E i \in DOMAIN q : q[i].op \in Kinds /\ In(i, p)
    BY LinesListed DEF Kinds
  <1>4. \A p : p \in same <=> \E i \in DOMAIN q : q[i].op \in {"same"} /\ In(i, p)
    BY LinesListed
  <1>5. \A p \in 1 .. Len(t[f]) : m[f][p] =>
          \E i \in DOMAIN q : q[i].op # "same" /\ q[i].s[f] < p /\ p <= q[i].e[f]
    <2>1. <<Len(t[1]), Len(t[2])>>[f] = Len(t[f])
      BY DEF Sides
    <2> QED
      BY <2>1 DEF Listed
  <1>6. \A i \in DOMAIN q : \A p : In(i, p) => p \in 1 .. Len(t[f])
    BY <1>0, <1>2
  <1>7. \A p \in 1 .. Len(t[f]) : m[f][p] => \E i \in DOMAIN q : q[i].op # "same" /\ In(i, p)
    <2> SUFFICES ASSUME NEW p \in 1 .. Len(t[f]), m[f][p]
                 PROVE  \E i \in DOMAIN q : q[i].op # "same" /\ In(i, p)
      OBVIOUS
    <2>1. PICK i \in DOMAIN q : q[i].op # "same" /\ q[i].s[f] < p /\ p <= q[i].e[f]
      BY <1>5
    <2>2. In(i, p)
      BY <1>2, <2>1
    <2> QED
      BY <2>1, <2>2
  <1> HIDE DEF In, all, same
  <1>8. ASSUME NEW p PROVE p \in ToSet(all) \ same <=> p \in {x \in 1 .. Len(t[f]) : m[f][x]}
    <2>1. ASSUME p \in ToSet(all), p \notin same PROVE p \in 1 .. Len(t[f]) /\ m[f][p]
      <3>1. PICK i \in DOMAIN q : q[i].op \in Kinds /\ In(i, p)
        BY <1>3, <2>1
      <3>2. q[i].op # "same"
        BY <1>4, <2>1, <3>1
      <3> QED
        BY <1>2, <1>6, <3>1, <3>2
    <2>2. ASSUME p \in 1 .. Len(t[f]), m[f][p] PROVE p \in ToSet(all) /\ p \notin same
      <3>1. p \in ToSet(all)
        BY <1>2, <1>3, <1>7, <2>2
      <3>2. ASSUME p \in same PROVE FALSE
        <4>1. PICK i \in DOMAIN q : q[i].op = "same" /\ In(i, p)
          BY <1>4, <3>2
        <4> QED
          BY <1>2, <2>2, <4>1
      <3> QED
        BY <3>1, <3>2
    <2> QED
      BY <2>1, <2>2
  <1>9. ASSUME NEW i \in DOMAIN q, q[i].op = "same"
        PROVE  SubSeq(t[1], q[i].s[1] + 1, q[i].e[1]) = SubSeq(t[2], q[i].s[2] + 1, q[i].e[2])
    <2> DEFINE s1 == q[i].s[1]
               s2 == q[i].s[2]
               e1 == q[i].e[1]
               e2 == q[i].e[2]
               u == SubSeq(t[1], s1 + 1, e1)
               w == SubSeq(t[2], s2 + 1, e2)
    <2>1. /\ s1 \in Nat /\ s2 \in Nat /\ e1 \in Nat /\ e2 \in Nat /\ s1 <= e1 /\ s2 <= e2
          /\ e1 <= Len(t[1]) /\ e2 <= Len(t[2])
      BY <1>0, <1>1, FineOp
    <2>2. SameText(t, m, q[i].s, q[i].e)
      BY <1>1, <1>9 DEF FineOps
    <2>3. e1 - s1 = e2 - s2 /\ \A k \in 1 .. e1 - s1 : t[1][s1 + k] = t[2][s2 + k]
      BY <2>2 DEF SameText
    <2>4. t[1] \in Seq(Items) /\ t[2] \in Seq(Items)
      BY <1>0
    <2> HIDE DEF s1, s2, e1, e2
    <2>5. /\ u \in Seq(Items) /\ Len(u) = e1 - s1
          /\ \A k \in 1 .. e1 - s1 : u[k] = t[1][s1 + k]
      BY ONLY <2>1, <2>4, <1>0
    <2>6. /\ w \in Seq(Items) /\ Len(w) = e2 - s2
          /\ \A k \in 1 .. e2 - s2 : w[k] = t[2][s2 + k]
      BY ONLY <2>1, <2>4, <1>0
    <2> HIDE DEF u, w
    <2>7. u = w
      <3>1. /\ Len(u) = Len(w)
            /\ \A k \in 1 .. Len(u) : u[k] = w[k]
        BY ONLY <2>3, <2>5, <2>6
      <3>2. /\ DOMAIN u = 1 .. Len(u) /\ u = [k \in DOMAIN u |-> u[k]]
            /\ DOMAIN w = 1 .. Len(w) /\ w = [k \in DOMAIN w |-> w[k]]
        BY ONLY <2>5, <2>6, LenProperties
      <3> QED
        BY ONLY <3>1, <3>2, Zenon
    <2> QED
      BY <2>7 DEF u, w, s1, s2, e1, e2
  <1>10. \A i, j \in DOMAIN all : i < j => all[i] < all[j]
    BY <1>3 DEF Increasing
  <1>11. ToSet(all) \ same = {p \in DOMAIN t[f] : m[f][p]}
    BY <1>0, <1>8
  <1> QED
    BY <1>2, <1>9, <1>10, <1>11 DEF all, same

(***************************************************************************)
(* Listing ops one after the other: changes, and what is the same between  *)
(* them.                                                                   *)
(***************************************************************************)

\* What is known of points one before the other.
LEMMA PointFacts ==
  ASSUME NEW p \in Points
  PROVE  /\ p[1] \in Nat /\ p[2] \in Nat /\ p = <<p[1], p[2]>>
         /\ \A f \in Sides : p[f] \in Nat
  BY DEF Points, Sides

\* ... and before a third.
LEMMA BeforeOn ==
  ASSUME NEW p \in Points, NEW q \in Points, NEW r \in Points, Before(p, q), Before(q, r)
  PROVE  Before(p, r)
  <1>1. /\ p[1] \in Nat /\ p[2] \in Nat /\ q[1] \in Nat /\ q[2] \in Nat /\ r[1] \in Nat /\ r[2] \in Nat
    BY PointFacts
  <1> QED
    BY <1>1 DEF Before

\* The same text has no marks,
LEMMA SameTextUnmarked ==
  ASSUME NEW t, NEW m, NEW s \in Points, NEW e \in Points, SameText(t, m, s, e)
  PROVE  NoMarks(m, s, e)
  <1> SUFFICES ASSUME NEW f \in Sides, NEW p \in s[f] + 1 .. e[f] PROVE ~ m[f][p]
    BY DEF NoMarks
  <1>1. /\ s[1] \in Nat /\ s[2] \in Nat /\ e[1] \in Nat /\ e[2] \in Nat /\ s[f] \in Nat /\ e[f] \in Nat
        /\ f = 1 \/ f = 2
    BY PointFacts DEF Sides
  <1>2. e[f] - s[f] = e[1] - s[1]
    BY <1>1 DEF SameText
  <1>3. p - s[f] \in 1 .. e[1] - s[1] /\ s[f] + (p - s[f]) = p
    BY <1>1, <1>2
  <1>4. ~ m[1][s[1] + (p - s[f])] /\ ~ m[2][s[2] + (p - s[f])]
    BY <1>3 DEF SameText
  <1> QED
    BY <1>1, <1>3, <1>4

\* ... and any part of it is the same too.
LEMMA SameTextPart ==
  ASSUME NEW t, NEW m, NEW s \in Points, NEW e \in Points, SameText(t, m, s, e),
         NEW x \in Points, NEW y \in Points, Before(s, x), Before(y, e),
         x[1] - s[1] = x[2] - s[2], y[1] - s[1] = y[2] - s[2]
  PROVE  SameText(t, m, x, y)
  <1>0. /\ s[1] \in Nat /\ s[2] \in Nat /\ e[1] \in Nat /\ e[2] \in Nat
        /\ x[1] \in Nat /\ x[2] \in Nat /\ y[1] \in Nat /\ y[2] \in Nat
    BY PointFacts
  <1>1. y[1] - x[1] = y[2] - x[2]
    BY <1>0
  <1>2. ASSUME NEW k \in 1 .. y[1] - x[1]
        PROVE  /\ t[1][x[1] + k] = t[2][x[2] + k]
               /\ ~ m[1][x[1] + k] /\ ~ m[2][x[2] + k]
    <2> DEFINE n == (x[1] - s[1]) + k
    <2>1. s[1] <= x[1] /\ y[1] <= e[1]
      BY DEF Before
    <2>2. n \in 1 .. e[1] - s[1] /\ s[1] + n = x[1] + k /\ s[2] + n = x[2] + k
      BY <1>0, <2>1
    <2> HIDE DEF n
    <2>3. t[1][s[1] + n] = t[2][s[2] + n] /\ ~ m[1][s[1] + n] /\ ~ m[2][s[2] + n]
      BY <2>2 DEF SameText
    <2> QED
      BY <2>2, <2>3
  <1> QED
    BY <1>1, <1>2 DEF SameText

\* Past unmarked lines nothing has to be listed.
LEMMA ListedOn ==
  ASSUME NEW t, NEW m, NEW q, NEW z \in Points, NEW y \in Points,
         Listed(t, m, q, z), Before(z, y), NoMarks(m, z, y)
  PROVE  Listed(t, m, q, y)
  <1>1. \A i \in DOMAIN q : q[i] \in FineOps(t, m) /\ q[i].e \in Points
    BY DEF Listed, FineOps
  <1>2. \A i \in DOMAIN q : Before(q[i].e, y)
    BY <1>1, BeforeOn DEF Listed
  <1>3. ASSUME NEW f \in Sides, NEW p \in 1 .. y[f], m[f][p]
        PROVE  \E i \in DOMAIN q : q[i].op # "same" /\ q[i].s[f] < p /\ p <= q[i].e[f]
    <2>1. z[f] \in Nat /\ y[f] \in Nat
      BY PointFacts
    <2>2. p \notin z[f] + 1 .. y[f]
      BY <1>3 DEF NoMarks
    <2>3. p \in 1 .. z[f]
      BY <2>1, <2>2
    <2> QED
      BY <1>3, <2>3 DEF Listed
  <1> QED
    BY <1>2, <1>3 DEF Listed

\* Another op after them, with nothing marked between.
LEMMA ListedMore ==
  ASSUME NEW t, NEW m, NEW q, NEW z \in Points, NEW o \in FineOps(t, m),
         Listed(t, m, q, z), Before(z, o.s), NoMarks(m, z, o.s)
  PROVE  Listed(t, m, q \o <<o>>, o.e)
  <1> DEFINE n == Len(q)
             w == q \o <<o>>
  <1>1. q \in Seq(FineOps(t, m)) /\ n \in Nat /\ DOMAIN q = 1 .. n
    BY DEF Listed
  <1>2. w = Append(q, o)
    BY <1>1, AppendIsConcat
  <1>3. /\ w \in Seq(FineOps(t, m)) /\ Len(w) = n + 1 /\ w[n + 1] = o
        /\ \A i \in 1 .. n : w[i] = q[i]
    BY <1>1, <1>2, AppendProperties
  <1>4. DOMAIN w = 1 .. n + 1 /\ \A i \in 1 .. n + 1 : i \in 1 .. n \/ i = n + 1
    BY <1>1, <1>3
  <1>5. /\ o.s \in Points /\ o.e \in Points /\ Before(o.s, o.e)
        /\ \A i \in 1 .. n : q[i].e \in Points
    BY <1>1 DEF FineOps
  <1> HIDE DEF w, n
  <1>6. \A i \in 1 .. n : Before(q[i].e, z) /\ Before(q[i].e, o.s) /\ Before(q[i].e, o.e)
    <2>1. \A i \in 1 .. n : Before(q[i].e, z)
      BY <1>1 DEF Listed
    <2>2. \A i \in 1 .. n : Before(q[i].e, o.s)
      BY <1>5, <2>1, BeforeOn
    <2> QED
      BY <1>5, <2>1, <2>2, BeforeOn
  <1>7. \A i \in DOMAIN w : Before(w[i].e, o.e)
    <2>1. Before(o.e, o.e)
      BY <1>5, PointFacts DEF Before
    <2> QED
      BY <1>3, <1>4, <1>6, <2>1
  <1>8. ASSUME NEW i \in 1 .. n + 1, NEW j \in 1 .. n + 1, i < j PROVE Before(w[i].e, w[j].s)
    <2>1. i \in 1 .. n
      BY <1>1, <1>8
    <2>2. CASE j \in 1 .. n
      <3>1. Before(q[i].e, q[j].s)
        BY <1>1, <1>8, <2>1, <2>2 DEF Listed
      <3> QED
        BY <1>3, <2>1, <2>2, <3>1
    <2>3. CASE j = n + 1
      BY <1>3, <1>6, <2>1, <2>3
    <2> QED
      BY <1>4, <2>2, <2>3
  <1>9. ASSUME NEW f \in Sides, NEW p \in 1 .. o.e[f], m[f][p]
        PROVE  \E i \in DOMAIN w : w[i].op # "same" /\ w[i].s[f] < p /\ p <= w[i].e[f]
    <2>1. z[f] \in Nat /\ o.s[f] \in Nat /\ o.e[f] \in Nat
      BY <1>5, PointFacts
    <2>2. CASE p <= z[f]
      <3>1. p \in 1 .. z[f]
        BY <2>1, <2>2
      <3>2. PICK i \in 1 .. n : q[i].op # "same" /\ q[i].s[f] < p /\ p <= q[i].e[f]
        BY <1>1, <1>9, <3>1 DEF Listed
      <3>3. i \in DOMAIN w
        BY <1>1, <1>4
      <3> QED
        BY <1>3, <3>2, <3>3
    <2>3. CASE z[f] < p /\ p <= o.s[f]
      <3>1. p \in z[f] + 1 .. o.s[f]
        BY <2>1, <2>3
      <3> QED
        BY <1>9, <3>1 DEF NoMarks
    <2>4. CASE o.s[f] < p
      <3>1. p \in o.s[f] + 1 .. o.e[f]
        BY <2>1, <2>4
      <3>2. o.op # "same"
        BY <1>9, <3>1, FineOp
      <3>3. n + 1 \in DOMAIN w
        BY <1>1, <1>4
      <3>4. p <= o.e[f]
        BY <2>1
      <3> QED
        BY <1>3, <2>4, <3>2, <3>3, <3>4
    <2> QED
      BY <2>1, <2>2, <2>3, <2>4
  <1>10. w \in Seq(FineOps(t, m))
    BY <1>3
  <1>11. Listed(t, m, w, o.e)
    <2>1. \A i, j \in DOMAIN w : i < j => Before(w[i].e, w[j].s)
      BY <1>4, <1>8
    <2> QED
      BY <1>7, <1>9, <1>10, <2>1, Zenon DEF Listed
  <1> QED
    BY <1>11 DEF w

\* Context, if there is any.
LEMMA ListedBetween ==
  ASSUME NEW t, NEW m, NEW q, NEW z \in Points, NEW s \in Points, NEW e \in Points,
         Listed(t, m, q, z), Before(z, s), Before(s, e), NoMarks(m, z, s),
         SameText(t, m, s, e), e[1] - s[1] <= Context,
         e[1] <= Len(t[1]), e[2] <= Len(t[2])
  PROVE  Listed(t, m, q \o Between(s, e), e)
  <1>0. /\ s[1] \in Nat /\ s[2] \in Nat /\ e[1] \in Nat /\ e[2] \in Nat
        /\ s = <<s[1], s[2]>> /\ e = <<e[1], e[2]>>
    BY PointFacts
  <1>1. CASE s[1] < e[1] \/ s[2] < e[2]
    <2> DEFINE o == Op("same", s[1], e[1], s[2], e[2])
    <2>1. o = [op |-> "same", s |-> s, e |-> e]
      BY <1>0 DEF Op
    <2>2. o.op = "same" /\ o.s = s /\ o.e = e
      BY <2>1
    <2>3. o \in FineOps(t, m)
      <3>1. o \in [op : Kinds, s : Points, e : Points]
        BY <2>1 DEF Kinds
      <3> HIDE DEF o
      <3> QED
        BY <2>2, <3>1 DEF FineOps
    <2>4. Between(s, e) = <<o>>
      BY <1>1 DEF Between
    <2> HIDE DEF o
    <2>5. Listed(t, m, q \o <<o>>, o.e)
      BY <2>2, <2>3, ListedMore
    <2> QED
      BY <2>2, <2>4, <2>5
  <1>2. CASE ~ (s[1] < e[1] \/ s[2] < e[2])
    <2>1. s[1] = e[1] /\ s[2] = e[2]
      BY <1>0, <1>2 DEF Before
    <2>2. s = e
      BY <1>0, <2>1
    <2>3. Between(s, e) = <<>> /\ q \in Seq(FineOps(t, m))
      BY <1>2 DEF Between, Listed
    <2>4. q \o <<>> = q
      BY <2>3, ConcatEmptySeq
    <2>5. Listed(t, m, q, s)
      BY ListedOn
    <2> QED
      BY <2>2, <2>3, <2>4, <2>5
  <1> QED
    BY <1>1, <1>2

\* Where the context after a change that ends at z ends, and where the context before
\* one that begins at p begins.
TrailEnd(z, p) == <<Least(p[1], z[1] + Context), Least(p[2], z[2] + Context)>>
LeadStart(z, p) == <<Greatest(z[1], p[1] - Context), Greatest(z[2], p[2] - Context)>>

\* Both divide the same text between two changes in two.
LEMMA TrailFacts ==
  ASSUME NEW t, NEW m, NEW z \in Points, NEW p \in Points, Before(z, p), SameText(t, m, z, p)
  PROVE  LET y == TrailEnd(z, p)
         IN  /\ y \in Points /\ Before(z, y) /\ Before(y, p)
             /\ SameText(t, m, z, y) /\ SameText(t, m, y, p) /\ y[1] - z[1] <= Context
  <1> DEFINE y == TrailEnd(z, p)
  <1>0. /\ z[1] \in Nat /\ z[2] \in Nat /\ p[1] \in Nat /\ p[2] \in Nat /\ Context \in Nat
        /\ z[1] <= p[1] /\ z[2] <= p[2] /\ p[1] - z[1] = p[2] - z[2]
    BY PointFacts, ContextAssumption DEF Before, SameText
  <1>1. y[1] = Least(p[1], z[1] + Context) /\ y[2] = Least(p[2], z[2] + Context)
    BY DEF TrailEnd
  <1>2. /\ y[1] \in Nat /\ y[2] \in Nat /\ z[1] <= y[1] /\ z[2] <= y[2]
        /\ y[1] <= p[1] /\ y[2] <= p[2] /\ y[1] - z[1] = y[2] - z[2] /\ y[1] - z[1] <= Context
    BY <1>0, <1>1 DEF Least
  <1>3. y \in Points
    BY <1>2 DEF Points, TrailEnd
  <1> HIDE DEF y
  <1>4. Before(z, y) /\ Before(y, p) /\ Before(z, z) /\ Before(p, p)
    BY <1>0, <1>2 DEF Before
  <1>5. SameText(t, m, z, y)
    BY <1>0, <1>2, <1>3, <1>4, SameTextPart
  <1>6. SameText(t, m, y, p)
    BY <1>0, <1>2, <1>3, <1>4, SameTextPart
  <1> QED
    BY <1>2, <1>3, <1>4, <1>5, <1>6 DEF y

\* ... at either place.
LEMMA LeadFacts ==
  ASSUME NEW t, NEW m, NEW z \in Points, NEW p \in Points, Before(z, p), SameText(t, m, z, p)
  PROVE  LET x == LeadStart(z, p)
         IN  /\ x \in Points /\ Before(z, x) /\ Before(x, p)
             /\ SameText(t, m, z, x) /\ SameText(t, m, x, p) /\ p[1] - x[1] <= Context
  <1> DEFINE x == LeadStart(z, p)
  <1>0. /\ z[1] \in Nat /\ z[2] \in Nat /\ p[1] \in Nat /\ p[2] \in Nat /\ Context \in Nat
        /\ z[1] <= p[1] /\ z[2] <= p[2] /\ p[1] - z[1] = p[2] - z[2]
    BY PointFacts, ContextAssumption DEF Before, SameText
  <1>1. x[1] = Greatest(z[1], p[1] - Context) /\ x[2] = Greatest(z[2], p[2] - Context)
    BY DEF LeadStart
  <1>2. /\ x[1] \in Nat /\ x[2] \in Nat /\ z[1] <= x[1] /\ z[2] <= x[2]
        /\ x[1] <= p[1] /\ x[2] <= p[2] /\ x[1] - z[1] = x[2] - z[2] /\ p[1] - x[1] <= Context
    BY <1>0, <1>1 DEF Greatest
  <1>3. x \in Points
    BY <1>2 DEF Points, LeadStart
  <1> HIDE DEF x
  <1>4. Before(z, x) /\ Before(x, p) /\ Before(z, z) /\ Before(p, p)
    BY <1>0, <1>2 DEF Before
  <1>5. SameText(t, m, z, x)
    BY <1>0, <1>2, <1>3, <1>4, SameTextPart
  <1>6. SameText(t, m, x, p)
    BY <1>0, <1>2, <1>3, <1>4, SameTextPart
  <1> QED
    BY <1>2, <1>3, <1>4, <1>5, <1>6 DEF x

\* They do not overlap if the changes are far apart.
LEMMA FarApart ==
  ASSUME NEW t, NEW m, NEW z \in Points, NEW p \in Points, Before(z, p), SameText(t, m, z, p),
         \A f \in Sides : p[f] - z[f] > 2 * Context
  PROVE  /\ Before(TrailEnd(z, p), LeadStart(z, p))
         /\ NoMarks(m, TrailEnd(z, p), LeadStart(z, p))
  <1> DEFINE y == TrailEnd(z, p)
             x == LeadStart(z, p)
  <1>0. /\ z[1] \in Nat /\ z[2] \in Nat /\ p[1] \in Nat /\ p[2] \in Nat /\ Context \in Nat
        /\ z[1] <= p[1] /\ z[2] <= p[2]
        /\ p[1] - z[1] > 2 * Context /\ p[2] - z[2] > 2 * Context
    BY PointFacts, ContextAssumption DEF Before, Sides
  <1>1. y[1] = z[1] + Context /\ y[2] = z[2] + Context /\ x[1] = p[1] - Context /\ x[2] = p[2] - Context
    BY <1>0 DEF TrailEnd, LeadStart, Least, Greatest
  <1>2. y \in Points /\ x \in Points /\ Before(x, p) /\ SameText(t, m, y, p)
    BY TrailFacts, LeadFacts
  <1> HIDE DEF x, y
  <1>3. Before(y, x)
    BY <1>0, <1>1 DEF Before
  <1>4. NoMarks(m, y, p)
    BY <1>2, SameTextUnmarked
  <1>5. NoMarks(m, y, x)
    <2> SUFFICES ASSUME NEW f \in Sides, NEW k \in y[f] + 1 .. x[f] PROVE ~ m[f][k]
      BY DEF NoMarks
    <2>1. y[f] \in Nat /\ x[f] \in Nat /\ p[f] \in Nat /\ x[f] <= p[f]
      BY <1>2, PointFacts DEF Before, Sides
    <2>2. k \in y[f] + 1 .. p[f]
      BY <2>1
    <2> QED
      BY <1>4, <2>2 DEF NoMarks
  <1> QED
    BY <1>3, <1>5 DEF x, y

\* Such context is fine.
LEMMA BetweenTyped ==
  ASSUME NEW t, NEW m, NEW s \in Points, NEW e \in Points, SameText(t, m, s, e), Before(s, e),
         e[1] - s[1] <= Context, e[1] <= Len(t[1]), e[2] <= Len(t[2])
  PROVE  Between(s, e) \in Seq(FineOps(t, m))
  <1>1. CASE Between(s, e) = <<>>
    BY <1>1
  <1>2. CASE Between(s, e) # <<>>
    <2> DEFINE b == [op |-> "same", s |-> s, e |-> e]
    <2>1. s = <<s[1], s[2]>> /\ e = <<e[1], e[2]>>
      BY PointFacts
    <2>2. Between(s, e) = <<b>>
      BY <1>2, <2>1 DEF Between, Op
    <2>3. b \in [op : Kinds, s : Points, e : Points] /\ b.op = "same" /\ b.s = s /\ b.e = e
      BY DEF Kinds
    <2> HIDE DEF b
    <2>4. b \in FineOps(t, m)
      BY <2>3 DEF FineOps
    <2> QED
      BY <2>2, <2>4
  <1> QED
    BY <1>1, <1>2

\* What report_diff has shown and gathered, and that nothing but the same text is
\* between the last change and p, where it is.
Reporting(p) ==
    /\ p \in Points /\ p[1] <= Len(data[1]) /\ p[2] <= Len(data[2])
    /\ shown \in Seq(Seq(FineOps(data, change)))
    /\ ops \in Seq(FineOps(data, change))
    /\ LastEnd \in Points
    /\ Listed(data, change, FlattenSeq(shown) \o ops, LastEnd)
    /\ ops = <<>> => shown = <<>>
    /\ Before(LastEnd, p) /\ SameText(data, change, LastEnd, p)

\* A change that begins at p is listed, after the context around the last change.
LEMMA AddSegmentLists ==
  ASSUME data \in [Sides -> Seq(Items)], NEW p, Reporting(p),
         NEW o \in FineOps(data, change), o.s = p, AddSegment(o)
  PROVE  /\ shown' \in Seq(Seq(FineOps(data, change)))
         /\ ops' \in Seq(FineOps(data, change)) /\ ops' # <<>> /\ ops'[Len(ops')] = o
         /\ Listed(data, change, FlattenSeq(shown') \o ops', o.e)
  <1> DEFINE F == FineOps(data, change)
             z == LastEnd
             y == TrailEnd(z, p)
             x == LeadStart(z, p)
             q == FlattenSeq(shown) \o ops
             tr == Between(z, y)
             le == Between(x, p)
  <1>0. /\ z \in Points /\ p \in Points /\ Before(z, p) /\ SameText(data, change, z, p)
        /\ p[1] <= Len(data[1]) /\ p[2] <= Len(data[2])
        /\ shown \in Seq(Seq(F)) /\ ops \in Seq(F) /\ Listed(data, change, q, z)
        /\ ops = <<>> => shown = <<>>
        /\ o \in F /\ o.op # "end"
    <2>1. o.op \in Kinds
      BY FineOp DEF Sides
    <2>2. o.op # "end"
      BY <2>1 DEF Kinds
    <2> QED
      BY <2>2 DEF Reporting
  <1>1. Trailing(o) = tr /\ Leading(o) = le
    BY DEF Trailing, Leading, Between, TrailEnd, LeadStart, Sides
  <1>2. /\ y \in Points /\ Before(z, y) /\ Before(y, p) /\ y[1] - z[1] <= Context
        /\ SameText(data, change, z, y)
        /\ x \in Points /\ Before(z, x) /\ Before(x, p) /\ p[1] - x[1] <= Context
        /\ SameText(data, change, z, x) /\ SameText(data, change, x, p)
    BY <1>0, TrailFacts, LeadFacts
  <1>3. /\ NoMarks(change, z, x)
        /\ NoMarks(change, z, z) /\ Before(z, z)
        /\ NoMarks(change, p, p) /\ Before(p, p)
    <2>1. ASSUME NEW r \in Points PROVE NoMarks(change, r, r) /\ Before(r, r)
      <3>1. r[1] \in Nat /\ r[2] \in Nat /\ \A f \in Sides : r[f] \in Nat
        BY PointFacts
      <3>2. \A f \in Sides : r[f] + 1 .. r[f] = {}
        BY <3>1
      <3> QED
        BY <3>1, <3>2 DEF NoMarks, Before
    <2>2. NoMarks(change, z, x)
      BY <1>0, <1>2, SameTextUnmarked
    <2> QED
      BY <1>0, <2>1, <2>2
  <1>4. y[1] <= Len(data[1]) /\ y[2] <= Len(data[2])
    <2>1. y[1] \in Nat /\ y[2] \in Nat /\ p[1] \in Nat /\ p[2] \in Nat /\ y[1] <= p[1] /\ y[2] <= p[2]
      BY <1>0, <1>2, PointFacts DEF Before
    <2>2. Len(data[1]) \in Nat /\ Len(data[2]) \in Nat
      BY DEF Sides
    <2> HIDE DEF y
    <2> QED
      BY <1>0, <2>1, <2>2
  <1> HIDE DEF x, y, z, q, F
  <1>5. Listed(data, change, q \o tr, y)
    BY <1>0, <1>2, <1>3, <1>4, ListedBetween
  <1>6. Listed(data, change, q \o le, p)
    BY <1>0, <1>2, <1>3, ListedBetween
  <1>7. ASSUME Closes(o) PROVE Listed(data, change, (q \o tr) \o le, p)
    <2>1. \A f \in Sides : p[f] - z[f] > 2 * Context
      BY <1>0, <1>7 DEF Closes, z
    <2>2. Before(y, x) /\ NoMarks(change, y, x)
      BY <1>0, <2>1, FarApart DEF x, y
    <2> QED
      BY <1>0, <1>2, <1>3, <1>5, <2>2, ListedBetween
  <1>8. tr \in Seq(F) /\ le \in Seq(F)
    BY <1>0, <1>2, <1>4, BetweenTyped DEF tr, le, F
  <1>9. /\ shown' = IF Closes(o) THEN Append(shown, ops \o tr) ELSE shown
        /\ ops' = (IF Closes(o) THEN <<>> ELSE ops) \o le \o <<o>>
    BY <1>0, <1>1 DEF AddSegment
  <1> HIDE DEF tr, le
  <1> DEFINE w == (IF Closes(o) THEN <<>> ELSE ops) \o le
  <1>10. w \in Seq(F)
    BY <1>0, <1>8, ConcatProperties, EmptySeq
  <1>11. ops' = w \o <<o>> /\ ops' = Append(w, o)
    BY <1>0, <1>9, <1>10, AppendIsConcat
  <1>12. ops' \in Seq(F) /\ ops' # <<>> /\ ops'[Len(ops')] = o
    BY <1>0, <1>10, <1>11, AppendProperties
  <1>13. shown' \in Seq(Seq(F)) /\ Listed(data, change, FlattenSeq(shown') \o w, p)
    <2>1. CASE Closes(o)
      <3>1. ops \o tr \in Seq(F) /\ FlattenSeq(shown) \in Seq(F)
        BY <1>0, <1>8, ConcatProperties, FlattenSeqTyped
      <3>2. shown' = Append(shown, ops \o tr)
        BY <1>9, <2>1
      <3>3. shown' \in Seq(Seq(F)) /\ FlattenSeq(shown') = FlattenSeq(shown) \o (ops \o tr)
        BY <1>0, <3>1, <3>2, AppendProperties, FlattenSeqAppend
      <3>4. FlattenSeq(shown) \o (ops \o tr) = q \o tr
        <4>1. FlattenSeq(shown) \in Seq(F) /\ ops \in Seq(F) /\ tr \in Seq(F)
          BY <1>0, <1>8, <3>1
        <4>2. (FlattenSeq(shown) \o ops) \o tr = FlattenSeq(shown) \o (ops \o tr)
          BY ONLY <4>1, ConcatAssociative
        <4> QED
          BY ONLY <4>2 DEF q
      <3>5. w = le
        BY <1>8, <2>1, ConcatEmptySeq
      <3> QED
        BY <1>7, <2>1, <3>3, <3>4, <3>5
    <2>2. CASE ~ Closes(o)
      <3>1. shown' = shown /\ w = ops \o le
        BY <1>9, <2>2
      <3>2. FlattenSeq(shown) \in Seq(F)
        BY <1>0, FlattenSeqTyped
      <3>3. FlattenSeq(shown) \o (ops \o le) = q \o le
        <4>1. FlattenSeq(shown) \in Seq(F) /\ ops \in Seq(F) /\ le \in Seq(F)
          BY <1>0, <1>8, <3>2
        <4>2. (FlattenSeq(shown) \o ops) \o le = FlattenSeq(shown) \o (ops \o le)
          BY ONLY <4>1, ConcatAssociative
        <4> QED
          BY ONLY <4>2 DEF q
      <3> QED
        BY <1>0, <1>6, <3>1, <3>3
    <2> QED
      BY <2>1, <2>2
  <1> HIDE DEF w
  <1>14. Listed(data, change, FlattenSeq(shown') \o (w \o <<o>>), o.e)
    <2>1. Listed(data, change, (FlattenSeq(shown') \o w) \o <<o>>, o.e)
      BY <1>0, <1>3, <1>13, ListedMore
    <2>2. FlattenSeq(shown') \in Seq(F) /\ <<o>> \in Seq(F)
      BY <1>0, <1>13, FlattenSeqTyped
    <2>3. (FlattenSeq(shown') \o w) \o <<o>> = FlattenSeq(shown') \o (w \o <<o>>)
      BY <1>10, <2>2, ConcatAssociative
    <2> QED
      BY <2>1, <2>3
  <1> QED
    BY <1>11, <1>12, <1>13, <1>14 DEF F

(***************************************************************************)
(* report_diff goes through both files side by side. Since all that is     *)
(* kept of them is the same, two lines that it comes to at a time and that *)
(* are kept are the same too.                                              *)
(***************************************************************************)

\* u is the beginning of w.
Begins(u, w) == Len(u) <= Len(w) /\ \A k \in 1 .. Len(u) : u[k] = w[k]

\* What is kept up to an item is the beginning of what is kept of all.
LEMMA KeptBegins ==
  ASSUME NEW S, NEW text \in Seq(S), NEW marks \in Seq(BOOLEAN), Len(marks) = Len(text),
         NEW i \in 0 .. Len(text)
  PROVE  /\ KeptUpTo(text, marks)[i] \in Seq(S)
         /\ Begins(KeptUpTo(text, marks)[i], KeptText(text, marks))
  <1> DEFINE n == Len(text)
             k == KeptUpTo(text, marks)
  <1>0. n \in Nat /\ \A j \in 1 .. n : text[j] \in S
    OBVIOUS
  <1>1. /\ k[0] = <<>>
        /\ \A j \in 1 .. n : k[j] = IF marks[j] THEN k[j - 1] ELSE Append(k[j - 1], text[j])
    BY KeptUpToDef DEF KeptLoop
  <1> HIDE DEF k, n
  <1> DEFINE T == {j \in 0 .. n : k[j] \in Seq(S)}
  <1>2. 0 \in T
    <2>1. k[0] = <<>> /\ 0 \in 0 .. n
      BY <1>0, <1>1
    <2>2. <<>> \in Seq(S)
      BY EmptySeq
    <2> QED
      BY ONLY <2>1, <2>2
  <1>3. ASSUME NEW j \in 0 .. n - 1, j \in T PROVE j + 1 \in T
    <2>1. j + 1 \in 1 .. n /\ (j + 1) - 1 = j /\ j + 1 \in 0 .. n
      BY <1>0
    <2>2. k[j + 1] = k[j] \/ k[j + 1] = Append(k[j], text[j + 1])
      BY <1>1, <2>1
    <2>3. k[j] \in Seq(S) /\ text[j + 1] \in S
      BY <1>0, <1>3, <2>1
    <2>4. Append(k[j], text[j + 1]) \in Seq(S)
      BY ONLY <2>3, AppendProperties
    <2>5. k[j + 1] \in Seq(S)
      BY ONLY <2>2, <2>3, <2>4
    <2> QED
      BY <2>1, <2>5
  <1>4. \A j \in 0 .. n : k[j] \in Seq(S)
    <2> HIDE DEF T
    <2>1. \A j \in 0 .. n : j \in T
      BY <1>0, <1>2, <1>3, Induction
    <2> QED
      BY <2>1 DEF T
  <1> DEFINE D == {d \in 0 .. n : Begins(k[n - d], k[n])}
  <1>5. 0 \in D
    BY <1>0 DEF Begins
  <1>6. ASSUME NEW d \in 0 .. n - 1, d \in D PROVE d + 1 \in D
    <2> DEFINE j == n - d
    <2>1. j \in 1 .. n /\ n - (d + 1) = j - 1 /\ j - 1 \in 0 .. n /\ j \in 0 .. n /\ n \in 0 .. n
          /\ d + 1 \in 0 .. n
      BY <1>0
    <2>2. Begins(k[j], k[n])
      BY <1>6
    <2> HIDE DEF j
    <2>3. k[j] = k[j - 1] \/ k[j] = Append(k[j - 1], text[j])
      BY <1>1, <2>1
    <2>4. k[j] \in Seq(S) /\ k[j - 1] \in Seq(S) /\ k[n] \in Seq(S) /\ text[j] \in S
      BY <1>0, <1>4, <2>1
    <2>5. Begins(k[j - 1], k[n])
      <3>1. CASE k[j] = k[j - 1]
        BY <2>2, <3>1
      <3>2. CASE k[j] = Append(k[j - 1], text[j])
        <4> DEFINE u == k[j - 1]
                   w == k[j]
                   z == k[n]
        <4>1. /\ Len(w) = Len(u) + 1 /\ \A h \in 1 .. Len(u) : w[h] = u[h]
              /\ Len(u) \in Nat /\ Len(w) \in Nat /\ Len(z) \in Nat
          BY <2>4, <3>2, AppendProperties, LenProperties
        <4>2. Len(w) <= Len(z) /\ \A h \in 1 .. Len(w) : w[h] = z[h]
          BY <2>2 DEF Begins
        <4> HIDE DEF u, w, z
        <4>3. Len(u) <= Len(z) /\ \A h \in 1 .. Len(u) : u[h] = z[h]
          <5>1. \A h \in 1 .. Len(u) : h \in 1 .. Len(w)
            BY <4>1
          <5> QED
            BY <4>1, <4>2, <5>1
        <4> QED
          BY <4>3 DEF Begins, u, z
      <3> QED
        BY <2>3, <3>1, <3>2
    <2> QED
      BY <2>1, <2>5
  <1>7. Begins(k[i], k[n])
    <2> HIDE DEF D
    <2>1. \A d \in 0 .. n : d \in D
      BY <1>0, <1>5, <1>6, Induction
    <2>2. n - i \in 0 .. n /\ n - (n - i) = i
      BY <1>0 DEF n
    <2> QED
      BY <2>1, <2>2 DEF D
  <1>8. k[i] \in Seq(S)
    BY <1>4 DEF n
  <1> QED
    BY <1>7, <1>8 DEF k, n, KeptText

\* If as much is kept up to places of two texts of which the same is kept, what is kept
\* next is the same,
LEMMA KeptNext ==
  ASSUME NEW S, NEW a \in Seq(S), NEW b \in Seq(S), NEW m \in Seq(BOOLEAN), NEW w \in Seq(BOOLEAN),
         Len(m) = Len(a), Len(w) = Len(b), KeptText(a, m) = KeptText(b, w),
         NEW i \in 0 .. Len(a) - 1, NEW j \in 0 .. Len(b) - 1,
         KeptUpTo(a, m)[i] = KeptUpTo(b, w)[j],
         ~ m[i + 1], ~ w[j + 1]
  PROVE  /\ a[i + 1] = b[j + 1]
         /\ KeptUpTo(a, m)[i + 1] = KeptUpTo(b, w)[j + 1]
  <1> DEFINE u == KeptUpTo(a, m)
             v2 == KeptUpTo(b, w)
             n == Len(u[i])
  <1>0. i + 1 \in 0 .. Len(a) /\ j + 1 \in 0 .. Len(b) /\ i \in 0 .. Len(a) /\ j \in 0 .. Len(b)
        /\ i + 1 \in 1 .. Len(a) /\ j + 1 \in 1 .. Len(b) /\ (i + 1) - 1 = i /\ (j + 1) - 1 = j
        /\ a[i + 1] \in S /\ b[j + 1] \in S
    OBVIOUS
  <1>1. u[i + 1] = Append(u[i], a[i + 1]) /\ v2[j + 1] = Append(v2[j], b[j + 1])
    <2>1. KeptLoop(a, m, u, Len(a)) /\ KeptLoop(b, w, v2, Len(b))
      BY KeptUpToDef
    <2> HIDE DEF u, v2
    <2> QED
      BY <1>0, <2>1 DEF KeptLoop
  <1>2. /\ u[i] \in Seq(S) /\ v2[j] \in Seq(S)
        /\ Begins(u[i + 1], KeptText(a, m)) /\ Begins(v2[j + 1], KeptText(a, m))
    BY <1>0, KeptBegins
  <1>3. u[i] = v2[j]
    OBVIOUS
  <1> HIDE DEF u, v2
  <1>4. /\ n \in Nat /\ Len(u[i + 1]) = n + 1 /\ u[i + 1][n + 1] = a[i + 1]
        /\ Len(v2[j + 1]) = n + 1 /\ v2[j + 1][n + 1] = b[j + 1]
    BY <1>0, <1>1, <1>2, <1>3, AppendProperties, LenProperties
  <1>5. n + 1 \in 1 .. n + 1
    BY <1>4
  <1>6. a[i + 1] = b[j + 1]
    BY <1>2, <1>4, <1>5 DEF Begins
  <1>7. u[i + 1] = v2[j + 1]
    BY <1>1, <1>3, <1>6
  <1> QED
    BY <1>6, <1>7 DEF u, v2

\* ... and if nothing is left of one, nothing that is kept is left of the other.
LEMMA KeptNoMore ==
  ASSUME NEW S, NEW a \in Seq(S), NEW b \in Seq(S), NEW m \in Seq(BOOLEAN), NEW w \in Seq(BOOLEAN),
         Len(m) = Len(a), Len(w) = Len(b), KeptText(a, m) = KeptText(b, w),
         NEW j \in 0 .. Len(b) - 1,
         KeptText(a, m) = KeptUpTo(b, w)[j]
  PROVE  w[j + 1]
  <1> SUFFICES ASSUME ~ w[j + 1] PROVE FALSE
    OBVIOUS
  <1> DEFINE v2 == KeptUpTo(b, w)
             n == Len(v2[j])
  <1>0. /\ j \in 0 .. Len(b) /\ j + 1 \in 0 .. Len(b) /\ j + 1 \in 1 .. Len(b) /\ (j + 1) - 1 = j
        /\ b[j + 1] \in S
    OBVIOUS
  <1>1. v2[j + 1] = Append(v2[j], b[j + 1])
    <2>1. KeptLoop(b, w, v2, Len(b))
      BY KeptUpToDef
    <2> HIDE DEF v2
    <2> QED
      BY <1>0, <2>1 DEF KeptLoop
  <1>2. v2[j] \in Seq(S) /\ Begins(v2[j + 1], KeptText(b, w)) /\ KeptText(b, w) = v2[j]
    BY <1>0, KeptBegins
  <1> HIDE DEF v2
  <1>3. n \in Nat /\ Len(v2[j + 1]) = n + 1
    BY <1>0, <1>1, <1>2, AppendProperties, LenProperties
  <1>4. n + 1 <= n
    BY <1>2, <1>3 DEF Begins
  <1> QED
    BY <1>3, <1>4

\* next_change_segment goes up to the end of the marked lines.
LEMMA ChangeEndFacts ==
  ASSUME DiffInv, NEW f \in Sides, NEW p \in Nat, Changed(f, p)
  PROVE  /\ ChangeEnd(f, p) \in p + 1 .. Len(data[f])
         /\ \A r \in p + 1 .. ChangeEnd(f, p) : change[f][r]
  <1> DEFINE c == change[f]
             n == Len(c)
             Ok == {i \in 0 .. n : p + i < n /\ At(c, p + i)}
             d == Run(n - p, Ok)
             End(q) == (\A r \in p .. q - 1 : At(c, r)) /\ (q = n \/ ~ At(c, q))
  <1>0. n \in Nat /\ n = Len(data[f]) /\ p < n /\ At(c, p)
    BY DEF DiffInv, MarksOf, Changed
  <1> HIDE DEF n
  <1>1. n - p \in Nat /\ n - p # 0 /\ 0 \in Ok
    BY <1>0
  <1> HIDE DEF Ok
  <1>2. d \in 0 .. n - p /\ 0 .. d - 1 \subseteq Ok /\ (d = n - p \/ d \notin Ok)
    BY <1>1, RunStops
  <1> HIDE DEF d
  <1>3. d # 0
    BY <1>1, <1>2
  <1>4. p + d \in p + 1 .. n
    BY <1>0, <1>2, <1>3
  <1>5. ASSUME NEW r \in p .. (p + d) - 1 PROVE At(c, r)
    <2>1. r - p \in 0 .. d - 1 /\ p + (r - p) = r
      BY <1>2
    <2>2. r - p \in Ok
      BY <1>2, <2>1
    <2> QED
      BY <2>1, <2>2 DEF Ok
  <1>6. p + d = n \/ ~ At(c, p + d)
    BY <1>0, <1>2 DEF Ok
  <1>7. End(p + d)
    BY <1>5, <1>6
  <1>8. ChangeEnd(f, p) = CHOOSE q \in p + 1 .. n : End(q)
    BY DEF ChangeEnd, n
  <1> HIDE DEF End
  <1>9. ChangeEnd(f, p) \in p + 1 .. n /\ End(ChangeEnd(f, p))
    BY <1>4, <1>7, <1>8
  <1>10. ASSUME NEW r \in p + 1 .. ChangeEnd(f, p) PROVE change[f][r]
    <2>1. r - 1 \in p .. ChangeEnd(f, p) - 1 /\ (r - 1) + 1 = r
      BY <1>9
    <2>2. At(c, r - 1)
      BY <1>9, <2>1 DEF End
    <2> QED
      BY <2>1, <2>2 DEF At
  <1> QED
    BY <1>0, <1>9, <1>10

\* The same is kept of both files up to p.
KeptBoth(p) == KeptUpTo(data[1], change[1])[p[1]] = KeptUpTo(data[2], change[2])[p[2]]

\* At the start nothing has been listed.
LEMMA ReportStart ==
  ASSUME data \in [Sides -> Seq(Items)], MarksOf(change), ops = <<>>, shown = <<>>
  PROVE  Reporting(<<0, 0>>) /\ KeptBoth(<<0, 0>>)
  <1> DEFINE F == FineOps(data, change)
  <1>1. /\ Len(data[1]) \in Nat /\ Len(data[2]) \in Nat
        /\ data[1] \in Seq(Items) /\ data[2] \in Seq(Items)
        /\ change[1] \in Seq(BOOLEAN) /\ change[2] \in Seq(BOOLEAN)
        /\ Len(change[1]) = Len(data[1]) /\ Len(change[2]) = Len(data[2])
    BY DEF Sides, MarksOf
  <1>2. <<>> \in Seq(F) /\ <<>> \in Seq(Seq(F))
    BY EmptySeq
  <1>3. LastEnd = <<0, 0>> /\ <<0, 0>> \in Points
    BY DEF LastEnd, Points
  <1>4. FlattenSeq(shown) \o ops = <<>>
    <2>1. FlattenSeq(shown) = <<>>
      BY DEF FlattenSeq
    <2> QED
      BY <2>1
  <1>5. Listed(data, change, <<>>, <<0, 0>>)
    <2>1. \A f \in Sides : 1 .. <<0, 0>>[f] = {}
      BY DEF Sides
    <2> QED
      BY <1>2, <2>1 DEF Listed
  <1>6. Before(<<0, 0>>, <<0, 0>>) /\ SameText(data, change, <<0, 0>>, <<0, 0>>)
    <2>1. 1 .. 0 - 0 = {}
      OBVIOUS
    <2> QED
      BY <2>1 DEF Before, SameText
  <1>7. KeptBoth(<<0, 0>>)
    <2>1. /\ KeptLoop(data[1], change[1], KeptUpTo(data[1], change[1]), Len(data[1]))
          /\ KeptLoop(data[2], change[2], KeptUpTo(data[2], change[2]), Len(data[2]))
      BY <1>1, KeptUpToDef
    <2> QED
      BY <2>1 DEF KeptLoop, KeptBoth
  <1> HIDE DEF F
  <1>8. Reporting(<<0, 0>>)
    BY <1>1, <1>2, <1>3, <1>4, <1>5, <1>6 DEF Reporting, F
  <1> QED
    BY <1>7, <1>8

\* Two lines that are kept are the same,
LEMMA KeptReported ==
  ASSUME DiffInv, KeepsCommonText, stage = "report", Reporting(<<i1, i2>>), KeptBoth(<<i1, i2>>),
         Kept(1, i1), Kept(2, i2)
  PROVE  Reporting(<<i1 + 1, i2 + 1>>) /\ KeptBoth(<<i1 + 1, i2 + 1>>)
  <1> DEFINE p == <<i1, i2>>
             r == <<i1 + 1, i2 + 1>>
             z == LastEnd
  <1>1. /\ data[1] \in Seq(Items) /\ data[2] \in Seq(Items)
        /\ change[1] \in Seq(BOOLEAN) /\ change[2] \in Seq(BOOLEAN)
        /\ Len(change[1]) = Len(data[1]) /\ Len(change[2]) = Len(data[2])
        /\ Len(data[1]) \in Nat /\ Len(data[2]) \in Nat
    BY DEF Sides, DiffInv, MarksOf
  <1>2. KeptText(data[1], change[1]) = KeptText(data[2], change[2])
    BY DEF KeepsCommonText, Compared, KeptOf
  <1>3. /\ i1 \in Nat /\ i2 \in Nat /\ z \in Points /\ z[1] \in Nat /\ z[2] \in Nat
        /\ z[1] <= i1 /\ z[2] <= i2 /\ i1 - z[1] = i2 - z[2]
        /\ SameText(data, change, z, p)
    <2>1. p \in Points /\ z \in Points /\ Before(z, p) /\ SameText(data, change, z, p)
      BY DEF Reporting
    <2>2. i1 \in Nat /\ i2 \in Nat
      BY <2>1 DEF Points
    <2> QED
      BY <2>1, <2>2, PointFacts DEF Before, SameText
  <1>4. /\ i1 \in 0 .. Len(data[1]) - 1 /\ i2 \in 0 .. Len(data[2]) - 1
        /\ ~ change[1][i1 + 1] /\ ~ change[2][i2 + 1]
    <2>1. i1 < Len(data[1]) /\ i2 < Len(data[2])
      BY ONLY <1>1, Kept(1, i1), Kept(2, i2) DEF Kept
    <2>2. ~ change[1][i1 + 1] /\ ~ change[2][i2 + 1]
      BY ONLY Kept(1, i1), Kept(2, i2), Zenon DEF Kept, At
    <2>3. i1 \in Nat /\ i2 \in Nat /\ Len(data[1]) \in Nat /\ Len(data[2]) \in Nat
      BY ONLY <1>1, <1>3
    <2>4. i1 \in 0 .. Len(data[1]) - 1 /\ i2 \in 0 .. Len(data[2]) - 1
      BY ONLY <2>1, <2>3
    <2> QED
      BY ONLY <2>2, <2>4
  <1>5. KeptUpTo(data[1], change[1])[i1] = KeptUpTo(data[2], change[2])[i2]
    BY DEF KeptBoth
  <1>6. /\ data[1][i1 + 1] = data[2][i2 + 1]
        /\ KeptUpTo(data[1], change[1])[i1 + 1] = KeptUpTo(data[2], change[2])[i2 + 1]
    <2> DEFINE a == data[1]
               b == data[2]
               m == change[1]
               w == change[2]
    <2>1. /\ a \in Seq(Items) /\ b \in Seq(Items) /\ m \in Seq(BOOLEAN) /\ w \in Seq(BOOLEAN)
          /\ Len(m) = Len(a) /\ Len(w) = Len(b) /\ KeptText(a, m) = KeptText(b, w)
          /\ i1 \in 0 .. Len(a) - 1 /\ i2 \in 0 .. Len(b) - 1
          /\ KeptUpTo(a, m)[i1] = KeptUpTo(b, w)[i2] /\ ~ m[i1 + 1] /\ ~ w[i2 + 1]
      BY ONLY <1>1, <1>2, <1>4, <1>5
    <2> HIDE DEF a, b, m, w
    <2>2. a[i1 + 1] = b[i2 + 1] /\ KeptUpTo(a, m)[i1 + 1] = KeptUpTo(b, w)[i2 + 1]
      BY ONLY <2>1, KeptNext
    <2> QED
      BY ONLY <2>2 DEF a, b, m, w
  <1> HIDE DEF z
  <1>7. SameText(data, change, z, r)
    <2>1. \A k \in 1 .. i1 - z[1] : /\ data[1][z[1] + k] = data[2][z[2] + k]
                                    /\ ~ change[1][z[1] + k] /\ ~ change[2][z[2] + k]
      BY <1>3 DEF SameText
    <2>2. ASSUME NEW k \in 1 .. (i1 + 1) - z[1]
          PROVE  /\ data[1][z[1] + k] = data[2][z[2] + k]
                 /\ ~ change[1][z[1] + k] /\ ~ change[2][z[2] + k]
      <3>1. CASE k \in 1 .. i1 - z[1]
        BY <2>1, <3>1
      <3>2. CASE k \notin 1 .. i1 - z[1]
        <4>1. z[1] + k = i1 + 1 /\ z[2] + k = i2 + 1
          BY <1>3, <3>2
        <4> QED
          BY <1>4, <1>6, <4>1
      <3> QED
        BY <3>1, <3>2
    <2>3. (i1 + 1) - z[1] = (i2 + 1) - z[2]
      BY <1>3
    <2> QED
      BY <2>2, <2>3 DEF SameText
  <1>8. r \in Points /\ Before(z, r) /\ r[1] <= Len(data[1]) /\ r[2] <= Len(data[2])
    <2>0. ASSUME NEW i \in Nat, NEW y \in Nat, NEW l \in Nat, y <= i, i \in 0 .. l - 1
          PROVE  i + 1 \in Nat /\ y <= i + 1 /\ i + 1 <= l
      BY ONLY <2>0
    <2>1. /\ i1 + 1 \in Nat /\ i2 + 1 \in Nat /\ z[1] <= i1 + 1 /\ z[2] <= i2 + 1
          /\ i1 + 1 <= Len(data[1]) /\ i2 + 1 <= Len(data[2])
      BY ONLY <1>1, <1>3, <1>4, <2>0, Zenon
    <2>2. r[1] = i1 + 1 /\ r[2] = i2 + 1
      OBVIOUS
    <2>3. r \in Points
      BY ONLY <2>1 DEF Points
    <2> HIDE DEF r
    <2> QED
      BY ONLY <2>1, <2>2, <2>3 DEF Before
  <1>9. Reporting(r)
    BY <1>7, <1>8 DEF Reporting, z
  <1> QED
    BY <1>6, <1>9 DEF KeptBoth

\* ... and a change that is added to the ops is one.
LEMMA ChangeReported ==
  ASSUME DiffInv, NEW p, Reporting(p), KeptBoth(p),
         NEW o \in FineOps(data, change), o.s = p, o.op # "same", AddSegment(o),
         data' = data, change' = change
  PROVE  Reporting(o.e)' /\ KeptBoth(o.e)'
  <1> DEFINE F == FineOps(data, change)
  <1>1. /\ data[1] \in Seq(Items) /\ data[2] \in Seq(Items)
        /\ change[1] \in Seq(BOOLEAN) /\ change[2] \in Seq(BOOLEAN)
        /\ Len(change[1]) = Len(data[1]) /\ Len(change[2]) = Len(data[2])
        /\ Len(data[1]) \in Nat /\ Len(data[2]) \in Nat /\ data \in [Sides -> Seq(Items)]
    BY DEF Sides, DiffInv, MarksOf
  <1>2. /\ shown' \in Seq(Seq(F)) /\ ops' \in Seq(F) /\ ops' # <<>> /\ ops'[Len(ops')] = o
        /\ Listed(data, change, FlattenSeq(shown') \o ops', o.e)
    BY <1>1, AddSegmentLists
  <1>3. LastEnd' = o.e
    BY <1>2 DEF LastEnd
  <1>4. /\ o.e \in Points /\ o.s \in Points /\ Before(o.s, o.e)
        /\ o.e[1] <= Len(data[1]) /\ o.e[2] <= Len(data[2])
        /\ \A f \in Sides : \A k \in o.s[f] + 1 .. o.e[f] : change[f][k]
    BY DEF FineOps
  <1>5. o.s[1] \in Nat /\ o.s[2] \in Nat /\ o.e[1] \in Nat /\ o.e[2] \in Nat
    BY <1>4, PointFacts
  <1>6. Before(o.e, o.e) /\ SameText(data, change, o.e, o.e)
    <2>1. 1 .. o.e[1] - o.e[1] = {} /\ o.e[1] - o.e[1] = o.e[2] - o.e[2]
      BY <1>5
    <2> QED
      BY <1>5, <2>1 DEF Before, SameText
  <1> HIDE DEF F
  <1>7. Reporting(o.e)'
    BY <1>2, <1>3, <1>4, <1>6 DEF Reporting, F
  <1>8. /\ KeptUpTo(data[1], change[1])[o.e[1]] = KeptUpTo(data[1], change[1])[o.s[1]]
        /\ KeptUpTo(data[2], change[2])[o.e[2]] = KeptUpTo(data[2], change[2])[o.s[2]]
    <2>1. o.s[1] <= o.e[1] /\ o.s[2] <= o.e[2]
      BY <1>4 DEF Before
    <2>2. (\A k \in o.s[1] + 1 .. o.e[1] : change[1][k]) /\ (\A k \in o.s[2] + 1 .. o.e[2] : change[2][k])
      BY <1>4 DEF Sides
    <2>3. KeptUpTo(data[1], change[1])[o.e[1]] = KeptUpTo(data[1], change[1])[o.s[1]]
      <3> DEFINE a == data[1]
                 m == change[1]
                 x == o.s[1]
                 y == o.e[1]
      <3>1. /\ a \in Seq(Items) /\ m \in Seq(BOOLEAN) /\ Len(m) = Len(a) /\ x \in Nat /\ y \in Nat
            /\ x <= y /\ y <= Len(a) /\ \A k \in x + 1 .. y : m[k]
        BY <1>1, <1>4, <1>5, <2>1, <2>2
      <3> HIDE DEF a, m, x, y
      <3>2. KeptUpTo(a, m)[y] = KeptUpTo(a, m)[x]
        BY ONLY <3>1, MarkedStretch
      <3> QED
        BY <3>2 DEF a, m, x, y
    <2>4. KeptUpTo(data[2], change[2])[o.e[2]] = KeptUpTo(data[2], change[2])[o.s[2]]
      <3> DEFINE a == data[2]
                 m == change[2]
                 x == o.s[2]
                 y == o.e[2]
      <3>1. /\ a \in Seq(Items) /\ m \in Seq(BOOLEAN) /\ Len(m) = Len(a) /\ x \in Nat /\ y \in Nat
            /\ x <= y /\ y <= Len(a) /\ \A k \in x + 1 .. y : m[k]
        BY <1>1, <1>4, <1>5, <2>1, <2>2
      <3> HIDE DEF a, m, x, y
      <3>2. KeptUpTo(a, m)[y] = KeptUpTo(a, m)[x]
        BY ONLY <3>1, MarkedStretch
      <3> QED
        BY <3>2 DEF a, m, x, y
    <2> QED
      BY <2>3, <2>4
  <1>9. KeptBoth(o.e)
    BY <1>8 DEF KeptBoth
  <1> QED
    BY <1>7, <1>9 DEF KeptBoth

\* report_diff ends when both files do: what is said not to be reached is not, since
\* nothing that is kept can be left of one file only.
LEMMA EndsTogether ==
  ASSUME DiffInv, KeepsCommonText, stage = "report", Reporting(<<i1, i2>>), KeptBoth(<<i1, i2>>),
         ~ Changed(1, i1), ~ Changed(2, i2), ~ (Kept(1, i1) /\ Kept(2, i2))
  PROVE  i1 = Len(data[1]) /\ i2 = Len(data[2])
  <1> DEFINE a == data[1]
             b == data[2]
             m == change[1]
             w == change[2]
  <1>1. /\ a \in Seq(Items) /\ b \in Seq(Items) /\ m \in Seq(BOOLEAN) /\ w \in Seq(BOOLEAN)
        /\ Len(m) = Len(a) /\ Len(w) = Len(b) /\ Len(a) \in Nat /\ Len(b) \in Nat
    BY DEF Sides, DiffInv, MarksOf
  <1>2. KeptText(a, m) = KeptText(b, w) /\ KeptUpTo(a, m)[i1] = KeptUpTo(b, w)[i2]
    BY DEF KeepsCommonText, Compared, KeptOf, KeptBoth
  <1>3. i1 \in Nat /\ i2 \in Nat /\ i1 <= Len(a) /\ i2 <= Len(b)
    <2>1. <<i1, i2>> \in Points
      BY DEF Reporting
    <2> QED
      BY <2>1 DEF Reporting, Points
  <1>4. /\ i1 < Len(a) => ~ m[i1 + 1]
        /\ i2 < Len(b) => ~ w[i2 + 1]
        /\ ~ (i1 < Len(a) /\ i2 < Len(b))
    BY <1>1 DEF Changed, Kept, At
  <1> HIDE DEF a, b, m, w
  <1>5. CASE i1 = Len(a) /\ i2 < Len(b)
    <2>1. KeptText(a, m) = KeptUpTo(b, w)[i2] /\ i2 \in 0 .. Len(b) - 1
      BY <1>1, <1>2, <1>3, <1>5 DEF KeptText
    <2>2. w[i2 + 1]
      BY ONLY <1>1, <1>2, <2>1, KeptNoMore
    <2> QED
      BY <1>4, <1>5, <2>2
  <1>6. CASE i2 = Len(b) /\ i1 < Len(a)
    <2>1. KeptText(b, w) = KeptUpTo(a, m)[i1] /\ i1 \in 0 .. Len(a) - 1
      BY <1>1, <1>2, <1>3, <1>6 DEF KeptText
    <2>2. KeptText(b, w) = KeptText(a, m)
      BY <1>2
    <2>3. m[i1 + 1]
      BY ONLY <1>1, <2>1, <2>2, KeptNoMore
    <2> QED
      BY <1>4, <1>6, <2>3
  <1>7. i1 = Len(a) /\ i2 = Len(b)
    BY <1>1, <1>3, <1>4, <1>5, <1>6 DEF a, b
  <1> QED
    BY <1>7 DEF a, b

\* The last group is shown with the context after its last change.
LEMMA EndLists ==
  ASSUME data \in [Sides -> Seq(Items)], NEW p, Reporting(p),
         IF ops # <<>> THEN AddSegment(Op("end", p[1], p[1], p[2], p[2])) ELSE shown' = shown
  PROVE  /\ shown' \in Seq(Seq(FineOps(data, change)))
         /\ Listed(data, change, FlattenSeq(shown'), p)
  <1> DEFINE F == FineOps(data, change)
             o == Op("end", p[1], p[1], p[2], p[2])
             z == LastEnd
             y == TrailEnd(z, p)
             q == FlattenSeq(shown) \o ops
             tr == Between(z, y)
  <1>0. /\ z \in Points /\ p \in Points /\ Before(z, p) /\ SameText(data, change, z, p)
        /\ p[1] <= Len(data[1]) /\ p[2] <= Len(data[2])
        /\ shown \in Seq(Seq(F)) /\ ops \in Seq(F) /\ Listed(data, change, q, z)
        /\ ops = <<>> => shown = <<>>
    BY DEF Reporting
  <1>1. FlattenSeq(shown) \in Seq(F) /\ NoMarks(change, z, p)
    BY <1>0, FlattenSeqTyped, SameTextUnmarked
  <1>2. CASE ops = <<>>
    <2>1. q = FlattenSeq(shown)
      BY <1>1, <1>2, ConcatEmptySeq
    <2>2. Listed(data, change, q, p)
      BY <1>0, <1>1, ListedOn
    <2> QED
      BY <1>0, <1>2, <2>1, <2>2
  <1>3. CASE ops # <<>>
    <2>1. AddSegment(o) /\ o.op = "end" /\ o.s = p
      <3>1. p = <<p[1], p[2]>>
        BY <1>0, PointFacts
      <3> QED
        BY <1>3, <3>1 DEF Op
    <2>2. Closes(o) /\ Trailing(o) = tr
      BY <1>3, <2>1 DEF Closes, Trailing, Between, TrailEnd, Sides
    <2>3. shown' = Append(shown, ops \o tr)
      BY <2>1, <2>2 DEF AddSegment
    <2>4. /\ y \in Points /\ Before(z, y) /\ Before(y, p) /\ y[1] - z[1] <= Context
          /\ SameText(data, change, z, y) /\ SameText(data, change, y, p)
      BY <1>0, TrailFacts
    <2>5. y[1] <= Len(data[1]) /\ y[2] <= Len(data[2])
      <3>1. y[1] \in Nat /\ y[2] \in Nat /\ p[1] \in Nat /\ p[2] \in Nat /\ y[1] <= p[1] /\ y[2] <= p[2]
        BY <1>0, <2>4, PointFacts DEF Before
      <3>2. Len(data[1]) \in Nat /\ Len(data[2]) \in Nat
        BY DEF Sides
      <3> HIDE DEF y
      <3> QED
        BY <1>0, <3>1, <3>2
    <2>6. NoMarks(change, z, z) /\ Before(z, z)
      <3>1. z[1] \in Nat /\ z[2] \in Nat /\ \A f \in Sides : z[f] + 1 .. z[f] = {}
        BY <1>0, PointFacts
      <3> QED
        BY <3>1 DEF NoMarks, Before
    <2>7. tr \in Seq(F)
      BY <1>0, <2>4, <2>5, BetweenTyped
    <2> HIDE DEF y, z, q, F, tr
    <2>8. Listed(data, change, q \o tr, y)
      BY <1>0, <2>4, <2>5, <2>6, ListedBetween DEF tr
    <2>9. Listed(data, change, q \o tr, p)
      BY <1>0, <2>4, <2>8, ListedOn, SameTextUnmarked
    <2>10. ops \o tr \in Seq(F)
      BY <1>0, <2>7, ConcatProperties
    <2>11. shown' \in Seq(Seq(F)) /\ FlattenSeq(shown') = FlattenSeq(shown) \o (ops \o tr)
      BY <1>0, <2>3, <2>10, AppendProperties, FlattenSeqAppend
    <2>12. (FlattenSeq(shown) \o ops) \o tr = FlattenSeq(shown) \o (ops \o tr)
      <3>1. FlattenSeq(shown) \in Seq(F) /\ ops \in Seq(F) /\ tr \in Seq(F)
        BY <1>0, <1>1, <2>7
      <3> QED
        BY ONLY <3>1, ConcatAssociative
    <2>13. FlattenSeq(shown') = q \o tr
      BY <2>11, <2>12 DEF q
    <2> QED
      BY <2>9, <2>11, <2>13 DEF F
  <1> QED
    BY <1>2, <1>3

\* Nothing is shown before report_diff, which lists what it shows.
ReportInv ==
    /\ stage \notin {"report", "done"} => i1 = 0 /\ i2 = 0 /\ ops = <<>> /\ shown = <<>>
    /\ stage = "report" => Reporting(<<i1, i2>>) /\ KeptBoth(<<i1, i2>>)
    /\ (stage = "done" /\ mode = "lines") =>
         Listed(data, change, FlattenSeq(shown), <<Len(data[1]), Len(data[2])>>)

\* Once shift_boundaries has ended, the report begins.
LEMMA ShiftEndReport == ASSUME DiffInv, ReportInv, ShiftEnd PROVE ReportInv'
  <1>1. /\ i1' = i1 /\ i2' = i2 /\ ops' = ops /\ shown' = shown /\ data' = data /\ mode' = mode
        /\ change' = change /\ i1 = 0 /\ i2 = 0 /\ ops = <<>> /\ shown = <<>>
    BY DEF ShiftEnd, report, input, ReportInv
  <1>2. stage' = "shift" \/ stage' = "report" \/ (stage' = "done" /\ mode # "lines")
    BY DEF ShiftEnd
  <1>3. Reporting(<<0, 0>>) /\ KeptBoth(<<0, 0>>)
    BY <1>1, ReportStart DEF DiffInv
  <1>4. LastEnd' = LastEnd
    BY <1>1 DEF LastEnd
  <1>5. Reporting(<<0, 0>>)' /\ KeptBoth(<<0, 0>>)'
    BY <1>1, <1>3, <1>4 DEF Reporting, KeptBoth
  <1>6. <<i1, i2>>' = <<0, 0>>
    BY <1>1
  <1>7. Reporting(<<i1, i2>>)' /\ KeptBoth(<<i1, i2>>)'
    BY <1>5, <1>6 DEF Reporting, KeptBoth
  <1> QED
    BY <1>1, <1>2, <1>7 DEF ReportInv

\* A turn of report_diff goes past two lines that are kept or adds a change.
LEMMA ReportReport == ASSUME DiffInv, KeepsCommonText, ReportInv, Report PROVE ReportInv'
  <1> DEFINE p == <<i1, i2>>
  <1>1. /\ stage = "report" /\ stage' = "report" /\ data' = data /\ change' = change
        /\ Reporting(p) /\ KeptBoth(p)
    BY DEF Report, input, ReportInv
  <1>2. i1 \in Nat /\ i2 \in Nat /\ i1 <= Len(data[1]) /\ i2 <= Len(data[2]) /\ p \in Points
    <2>1. p \in Points
      BY <1>1 DEF Reporting
    <2> QED
      BY <1>1, <2>1 DEF Reporting, Points
  <1>3. 1 \in Sides /\ 2 \in Sides /\ Len(data[1]) \in Nat /\ Len(data[2]) \in Nat
    BY DEF Sides, DiffInv
  <1>4. SUFFICES Reporting(<<i1, i2>>)' /\ KeptBoth(<<i1, i2>>)'
    BY <1>1 DEF ReportInv
  <1>5. ASSUME NEW op \in Kinds, op # "same", NEW e \in Points, Before(p, e),
               e[1] <= Len(data[1]), e[2] <= Len(data[2]),
               \A f \in Sides : \A k \in p[f] + 1 .. e[f] : change[f][k],
               AddSegment(Op(op, i1, e[1], i2, e[2])), <<i1', i2'>> = e
        PROVE  Reporting(<<i1, i2>>)' /\ KeptBoth(<<i1, i2>>)'
    <2>0. PICK o : o = Op(op, i1, e[1], i2, e[2])
      OBVIOUS
    <2>1. o = [op |-> op, s |-> p, e |-> e]
      BY <1>5, <2>0, PointFacts DEF Op
    <2>2. o \in [op : Kinds, s : Points, e : Points] /\ o.op = op /\ o.s = p /\ o.e = e
      BY <1>2, <1>5, <2>1
    <2>3. o \in FineOps(data, change)
      BY <1>5, <2>2 DEF FineOps
    <2>4. AddSegment(o)
      BY <1>5, <2>0
    <2>5. Reporting(o.e)' /\ KeptBoth(o.e)'
      BY <1>1, <1>5, <2>2, <2>3, <2>4, ChangeReported
    <2>6. <<i1', i2'>> = e /\ e = o.e
      BY <1>5, <2>2
    <2> QED
      BY <2>5, <2>6 DEF Reporting, KeptBoth
  <1>6. CASE Kept(1, i1) /\ Kept(2, i2) /\ i1' = i1 + 1 /\ i2' = i2 + 1 /\ UNCHANGED <<ops, shown>>
    <2>1. Reporting(<<i1 + 1, i2 + 1>>) /\ KeptBoth(<<i1 + 1, i2 + 1>>)
      BY <1>1, <1>6, KeptReported
    <2>2. LastEnd' = LastEnd /\ shown' = shown /\ ops' = ops
      BY <1>6 DEF LastEnd
    <2>3. <<i1, i2>>' = <<i1 + 1, i2 + 1>>
      BY <1>6
    <2> HIDE DEF p
    <2> QED
      BY <1>1, <2>1, <2>2, <2>3 DEF Reporting, KeptBoth
  <1>7. ASSUME NEW op \in Kinds, op # "same", NEW e1 \in Nat, NEW e2 \in Nat,
               i1 <= e1, i2 <= e2, e1 <= Len(data[1]), e2 <= Len(data[2]),
               \A k \in i1 + 1 .. e1 : change[1][k], \A k \in i2 + 1 .. e2 : change[2][k],
               i1' = e1, i2' = e2, AddSegment(Op(op, i1, e1, i2, e2))
        PROVE  Reporting(<<i1, i2>>)' /\ KeptBoth(<<i1, i2>>)'
    <2> DEFINE e == <<e1, e2>>
    <2>1. e \in Points /\ Before(p, e) /\ e[1] = e1 /\ e[2] = e2 /\ <<i1', i2'>> = e
      BY <1>7 DEF Points, Before
    <2>2. \A f \in Sides : \A k \in p[f] + 1 .. e[f] : change[f][k]
      BY <1>7 DEF Sides
    <2> HIDE DEF e
    <2> QED
      BY <1>5, <1>7, <2>1, <2>2
  <1>8. /\ i1 + 1 .. i1 = {} /\ i2 + 1 .. i2 = {} /\ i1 <= i1 /\ i2 <= i2
    BY <1>2
  <1>9. ASSUME Changed(1, i1)
        PROVE  /\ ChangeEnd(1, i1) \in Nat /\ i1 <= ChangeEnd(1, i1) /\ ChangeEnd(1, i1) <= Len(data[1])
               /\ \A k \in i1 + 1 .. ChangeEnd(1, i1) : change[1][k]
    <2>1. /\ ChangeEnd(1, i1) \in i1 + 1 .. Len(data[1])
          /\ \A k \in i1 + 1 .. ChangeEnd(1, i1) : change[1][k]
      BY <1>2, <1>3, <1>9, ChangeEndFacts
    <2> QED
      BY <1>2, <1>3, <2>1
  <1>10. ASSUME Changed(2, i2)
         PROVE  /\ ChangeEnd(2, i2) \in Nat /\ i2 <= ChangeEnd(2, i2) /\ ChangeEnd(2, i2) <= Len(data[2])
                /\ \A k \in i2 + 1 .. ChangeEnd(2, i2) : change[2][k]
    <2>1. /\ ChangeEnd(2, i2) \in i2 + 1 .. Len(data[2])
          /\ \A k \in i2 + 1 .. ChangeEnd(2, i2) : change[2][k]
      BY <1>2, <1>3, <1>10, ChangeEndFacts
    <2> QED
      BY <1>2, <1>3, <2>1
  <1>11. CASE /\ Changed(1, i1) /\ Changed(2, i2)
              /\ i1' = ChangeEnd(1, i1) /\ i2' = ChangeEnd(2, i2)
              /\ AddSegment(Op("modify", i1, i1', i2, i2'))
    <2>1. "modify" \in Kinds /\ "modify" # "same"
      BY DEF Kinds
    <2> HIDE DEF p
    <2>2. AddSegment(Op("modify", i1, ChangeEnd(1, i1), i2, ChangeEnd(2, i2)))
      BY ONLY <1>11
    <2> QED
      BY <1>7, <1>9, <1>10, <1>11, <2>1, <2>2
  <1>12. CASE /\ Changed(1, i1) /\ ~ Changed(2, i2)
              /\ i1' = ChangeEnd(1, i1) /\ UNCHANGED i2
              /\ AddSegment(Op("remove", i1, i1', i2, i2))
    <2>1. "remove" \in Kinds /\ "remove" # "same"
      BY DEF Kinds
    <2> HIDE DEF p
    <2>2. AddSegment(Op("remove", i1, ChangeEnd(1, i1), i2, i2))
      BY ONLY <1>12
    <2> QED
      BY <1>2, <1>7, <1>8, <1>9, <1>12, <2>1, <2>2
  <1>13. CASE /\ ~ Changed(1, i1) /\ Changed(2, i2)
              /\ i2' = ChangeEnd(2, i2) /\ UNCHANGED i1
              /\ AddSegment(Op("insert", i1, i1, i2, i2'))
    <2>1. "insert" \in Kinds /\ "insert" # "same"
      BY DEF Kinds
    <2> HIDE DEF p
    <2>2. AddSegment(Op("insert", i1, i1, i2, ChangeEnd(2, i2)))
      BY ONLY <1>13
    <2> QED
      BY <1>2, <1>7, <1>8, <1>10, <1>13, <2>1, <2>2
  <1> QED
    BY <1>6, <1>11, <1>12, <1>13, Zenon DEF Report

\* And at the ends of both files all is shown.
LEMMA ReportEndReport == ASSUME DiffInv, KeepsCommonText, ReportInv, ReportEnd PROVE ReportInv'
  <1> DEFINE p == <<i1, i2>>
  <1>1. /\ stage = "report" /\ stage' = "done" /\ data' = data /\ change' = change
        /\ Reporting(p) /\ KeptBoth(p)
    BY DEF ReportEnd, input, ReportInv
  <1>2. i1 = Len(data[1]) /\ i2 = Len(data[2])
    BY <1>1, EndsTogether DEF ReportEnd
  <1>3. IF ops # <<>> THEN AddSegment(Op("end", p[1], p[1], p[2], p[2])) ELSE shown' = shown
    <2>1. p[1] = i1 /\ p[2] = i2
      OBVIOUS
    <2>2. i1 = Len(change[1]) /\ i2 = Len(change[2])
      BY <1>2 DEF DiffInv, MarksOf, Sides
    <2> HIDE DEF p
    <2> QED
      BY <2>1, <2>2, Zenon DEF ReportEnd
  <1>4. data \in [Sides -> Seq(Items)]
    BY DEF DiffInv
  <1>5. Listed(data, change, FlattenSeq(shown'), p)
    BY <1>1, <1>3, <1>4, EndLists
  <1>6. p = <<Len(data'[1]), Len(data'[2])>>
    BY <1>1, <1>2
  <1>7. Listed(data', change', FlattenSeq(shown'), <<Len(data'[1]), Len(data'[2])>>)
    BY <1>1, <1>5, <1>6
  <1> QED
    BY <1>1, <1>7 DEF ReportInv

\* The steps before report_diff leave all this alone.
LEMMA NextReport == DiffInv /\ KeepsCommonText /\ ReportInv /\ [Next]_vars => ReportInv'
  <1> SUFFICES ASSUME DiffInv, KeepsCommonText, ReportInv, [Next]_vars PROVE ReportInv'
    OBVIOUS
  <1>1. CASE Equiv \/ Compress \/ Lcs \/ Expand \/ Shift
    <2>1. stage \notin {"report", "done"} /\ stage' \notin {"report", "done"}
      BY <1>1 DEF Equiv, Compress, Lcs, Expand, Shift
    <2>2. UNCHANGED report
      BY <1>1 DEF Equiv, Compress, Lcs, Expand, Shift
    <2> QED
      BY <2>1, <2>2 DEF ReportInv, report
  <1>2. CASE Done \/ UNCHANGED vars
    <2>1. /\ stage' = stage /\ mode' = mode /\ data' = data /\ change' = change
          /\ i1' = i1 /\ i2' = i2 /\ ops' = ops /\ shown' = shown
      BY <1>2 DEF Done, vars, input, report
    <2>2. LastEnd' = LastEnd
      BY <2>1 DEF LastEnd
    <2>3. /\ Reporting(<<i1, i2>>)' <=> Reporting(<<i1, i2>>)
          /\ KeptBoth(<<i1, i2>>)' <=> KeptBoth(<<i1, i2>>)
      BY <2>1, <2>2 DEF Reporting, KeptBoth
    <2> QED
      BY <2>1, <2>3 DEF ReportInv
  <1> QED
    BY <1>1, <1>2, ShiftEndReport, ReportReport, ReportEndReport DEF Next

\* Nothing is shown at the start.
LEMMA InitReport == Init => ReportInv
  BY DEF Init, ReportInv

\* When all is listed, it is shown as it should be.
LEMMA ReportShows == DiffInv /\ ReportInv => ShowsTheChanges
  <1> SUFFICES ASSUME DiffInv, ReportInv, stage = "done", mode = "lines", NEW f \in Sides
               PROVE  LET all  == Places(f, {"same", "modify", "remove", "insert"})
                          same == ToSet(Places(f, {"same"}))
                      IN  /\ \A i, j \in DOMAIN all : i < j => all[i] < all[j]
                          /\ ToSet(all) \ same = {p \in DOMAIN data[f] : change[f][p]}
                          /\ \A i \in DOMAIN FlattenSeq(shown) :
                               LET op == FlattenSeq(shown)[i]
                               IN  op.op = "same" => /\ SubSeq(data[1], op.s[1] + 1, op.e[1])
                                                          = SubSeq(data[2], op.s[2] + 1, op.e[2])
                                                     /\ op.e[f] - op.s[f] <= Context
    BY Zenon DEF ShowsTheChanges
  <1> DEFINE q == FlattenSeq(shown)
  <1>1. ASSUME NEW kinds PROVE Places(f, kinds) = FlattenSeq(Lines(q, f, kinds))
    BY DEF Places, Lines
  <1>2. Listed(data, change, q, <<Len(data[1]), Len(data[2])>>)
    BY DEF ReportInv
  <1>3. /\ data \in [Sides -> Seq(Items)] /\ change \in [Sides -> Seq(BOOLEAN)]
        /\ \A g \in Sides : Len(change[g]) = Len(data[g])
    BY DEF DiffInv, MarksOf
  <1> HIDE DEF q
  <1> DEFINE all  == FlattenSeq(Lines(q, f, {"same", "modify", "remove", "insert"}))
             same == ToSet(FlattenSeq(Lines(q, f, {"same"})))
  <1>4. /\ \A i, j \in DOMAIN all : i < j => all[i] < all[j]
        /\ ToSet(all) \ same = {p \in DOMAIN data[f] : change[f][p]}
        /\ \A i \in DOMAIN q : q[i].op = "same" =>
             /\ SubSeq(data[1], q[i].s[1] + 1, q[i].e[1]) = SubSeq(data[2], q[i].s[2] + 1, q[i].e[2])
             /\ q[i].e[f] - q[i].s[f] <= Context
    BY ONLY <1>2, <1>3, f \in Sides, ListedShows
  <1>5. /\ Places(f, {"same", "modify", "remove", "insert"}) = all
        /\ ToSet(Places(f, {"same"})) = same
    BY ONLY <1>1
  <1> HIDE DEF all, same
  <1> QED
    BY ONLY <1>4, <1>5 DEF q

\* report_diff shows every changed line of both files just once and as changed, and
\* besides them at most Context lines before and after a change, which are the same
\* on both sides and shown once at most, for all files and any Context: what the code
\* says should not be reached is not.
THEOREM DiffShowsTheChanges == Spec => []ShowsTheChanges
  <1>1. Init => ReportInv
    BY InitReport
  <1>2. DiffInv /\ KeepsCommonText /\ ReportInv /\ [Next]_vars => ReportInv'
    BY NextReport
  <1>3. DiffInv /\ ReportInv => ShowsTheChanges
    BY ReportShows
  <1> QED
    BY <1>1, <1>2, <1>3, DiffInvariant, DiffKeepsCommonText, PTL DEF Spec
=============================================================================

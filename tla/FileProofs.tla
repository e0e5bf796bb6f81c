----------------------------- MODULE FileProofs -----------------------------
(***************************************************************************)
(* Proofs about the files: the slice loop of GoSlice, then Configuration,  *)
(* Section and RollingLog, which share it or the induction it rests on.    *)
(*                                                                         *)
(* A loop over a slice is a recursive function of the turn, and what holds *)
(* after each turn is shown by the least turn after which it does not      *)
(* (LeastNumber, Induction): no induction over an operator is needed.      *)
(***************************************************************************)
EXTENDS Configuration, Section, RollingLog, WellFoundedInduction, SequenceTheorems,
        FiniteSetTheorems, TLAPS

(***************************************************************************)
(* GoSlice: what the loop leaves of a slice.                               *)
(***************************************************************************)
\* Every set of numbers has a least one.
LEMMA LeastNumber ==
  ASSUME NEW T \in SUBSET Nat, T # {}
  PROVE  \E m \in T : \A k \in T : m <= k
  <1> DEFINE R == OpToRel(<, Nat)
  <1>0. \A i, j \in Nat : i < j => <<i, j>> \in R
    BY DEF OpToRel
  <1>1. IsWellFoundedOn(R, Nat)
    BY NatLessThanWellFounded
  <1>2. PICK m \in T : \A k \in T : <<k, m>> \notin R
    <2> HIDE DEF R
    <2> QED
      BY <1>1, WFMin
  <1> HIDE DEF R
  <1>3. \A k \in T : ~ (k < m)
    BY <1>0, <1>2
  <1> QED
    BY <1>3

\* Induction up to a bound, over a set.
LEMMA Induction ==
  ASSUME NEW N \in Nat, NEW T, 0 \in T, \A n \in 0 .. N - 1 : n \in T => n + 1 \in T
  PROVE  \A n \in 0 .. N : n \in T
  <1> DEFINE bad == {n \in 0 .. N : n \notin T}
  <1> SUFFICES ASSUME bad # {} PROVE FALSE
    OBVIOUS
  <1>1. bad \in SUBSET Nat
    OBVIOUS
  <1>2. PICK m \in bad : \A k \in bad : m <= k
    <2> HIDE DEF bad
    <2> QED
      BY <1>1, LeastNumber
  <1>3. m # 0 /\ m \in Nat /\ m <= N
    BY <1>2
  <1>4. m - 1 \in 0 .. N - 1 /\ m - 1 \notin bad
    BY <1>2, <1>3
  <1> QED
    BY <1>2, <1>4

\* The greatest number of a set that has a bound.
LEMMA GreatestNumber ==
  ASSUME NEW n \in Nat, NEW T \in SUBSET (0 .. n), T # {}
  PROVE  Max(T) \in T /\ \A x \in T : Max(T) >= x
  <1> DEFINE U == {n - x : x \in T}
  <1>0. \A x \in T : x \in Nat /\ x <= n /\ n - x \in Nat
    OBVIOUS
  <1>1. U \in SUBSET Nat /\ U # {}
    BY <1>0
  <1>2. PICK m \in U : \A k \in U : m <= k
    <2> HIDE DEF U
    <2> QED
      BY <1>1, LeastNumber
  <1>3. PICK g \in T : m = n - g
    BY <1>2
  <1>4. \A x \in T : g >= x
    BY <1>0, <1>2, <1>3
  <1> QED
    BY <1>3, <1>4 DEF Max

\* f is the states of the loop up to turn n.
Ranged(s, Match, f, n) ==
    /\ f = [i \in 0 .. n |-> f[i]]
    /\ f[0] = RangeState(s)
    /\ \A i \in 1 .. n : f[i] = Turn(f[i - 1], i, Match)

\* The recursive definition is of a function that exists.
LEMMA RangeStatesDef ==
  ASSUME NEW S, NEW s \in Seq(S), NEW Match
  PROVE  Ranged(s, Match, RangeStates(s, Match), Len(s))
  <1> DEFINE T == {n \in Nat : \E f : Ranged(s, Match, f, n)}
             N == Len(s)
  <1>0. N \in Nat
    OBVIOUS
  <1>1. 0 \in T
    <2>1. Ranged(s, Match, [i \in 0 .. 0 |-> RangeState(s)], 0)
      BY DEF Ranged
    <2> QED
      BY <2>1
  <1>2. ASSUME NEW n \in 0 .. N - 1, n \in T PROVE n + 1 \in T
    <2>1. PICK f : Ranged(s, Match, f, n)
      BY <1>2
    <2> DEFINE g == [i \in 0 .. n + 1 |-> IF i = n + 1 THEN Turn(f[n], n + 1, Match) ELSE f[i]]
    <2>2. Ranged(s, Match, g, n + 1)
      <3>1. g = [i \in 0 .. n + 1 |-> g[i]] /\ g[0] = RangeState(s)
        BY <2>1, <1>0 DEF Ranged
      <3>2. ASSUME NEW i \in 1 .. n + 1 PROVE g[i] = Turn(g[i - 1], i, Match)
        <4>1. CASE i = n + 1
          BY <4>1, <1>0
        <4>2. CASE i # n + 1
          <5>1. g[i] = f[i] /\ g[i - 1] = f[i - 1] /\ i \in 1 .. n
            BY <4>2, <1>0
          <5> QED
            BY <5>1, <2>1 DEF Ranged
        <4> QED
          BY <4>1, <4>2
      <3> QED
        BY <3>1, <3>2 DEF Ranged
    <2> QED
      BY <2>2
  <1>3. N \in T
    <2> HIDE DEF T, N
    <2>1. \A n \in 0 .. N - 1 : n \in T => n + 1 \in T
      BY <1>2
    <2>2. \A n \in 0 .. N : n \in T
      BY <1>0, <1>1, <2>1, Induction
    <2> QED
      BY <1>0, <2>2
  <1>4. PICK f : Ranged(s, Match, f, N)
    BY <1>3
  <1> DEFINE Def(st) == [i \in 0 .. N |-> IF i = 0 THEN RangeState(s) ELSE Turn(st[i - 1], i, Match)]
  <1>5. f = Def(f)
    <2>1. \A i \in 0 .. N : f[i] = IF i = 0 THEN RangeState(s) ELSE Turn(f[i - 1], i, Match)
      BY <1>4, <1>0 DEF Ranged
    <2>2. f = [i \in 0 .. N |-> f[i]]
      BY <1>4 DEF Ranged
    <2> QED
      BY <2>1, <2>2, Zenon
  <1>6. RangeStates(s, Match) = CHOOSE st : st = Def(st)
    BY DEF RangeStates
  <1>7. RangeStates(s, Match) = Def(RangeStates(s, Match))
    BY <1>5, <1>6
  <1> QED
    <2> DEFINE st == RangeStates(s, Match)
    <2> HIDE DEF st, N
    <2>1. st = Def(st)
      BY <1>7 DEF st
    <2>2. st = [i \in 0 .. N |-> st[i]] /\ st[0] = RangeState(s)
      BY <2>1, <1>0
    <2>3. \A i \in 1 .. N : st[i] = Turn(st[i - 1], i, Match)
      BY <2>1, <1>0
    <2> QED
      BY <2>2, <2>3 DEF Ranged, st, N

-----------------------------------------------------------------------------
\* The states of the loop over s, whose elements are in S.
LoopStates(s, S) == [array : [1 .. Len(s) -> S], len : 0 .. Len(s), panic : BOOLEAN]

\* What one turn does.
LEMMA TurnFacts ==
  ASSUME NEW S, NEW s \in Seq(S), NEW Match, NEW st \in LoopStates(s, S), NEW i \in 1 .. Len(s)
  PROVE  /\ Turn(st, i, Match) \in LoopStates(s, S)
         /\ st.panic \/ st.array[i] \notin Match => Turn(st, i, Match) = st
         /\ ~ st.panic /\ st.array[i] \in Match /\ i <= st.len =>
              /\ Turn(st, i, Match).len = st.len - 1
              /\ ~ Turn(st, i, Match).panic
              /\ \A j \in 1 .. Len(s) : Turn(st, i, Match).array[j] =
                    IF i <= j /\ j < st.len THEN st.array[j + 1] ELSE st.array[j]
         /\ ~ st.panic /\ st.array[i] \in Match /\ i > st.len =>
              /\ Turn(st, i, Match).panic
              /\ Turn(st, i, Match).len = st.len
              /\ Turn(st, i, Match).array = st.array
  <1> DEFINE N == Len(s)
             shifted == [j \in 1 .. N |-> IF i <= j /\ j < st.len THEN st.array[j + 1] ELSE st.array[j]]
  <1>0. /\ N \in Nat /\ st.array \in [1 .. N -> S] /\ st.len \in 0 .. N /\ st.panic \in BOOLEAN
        /\ st = [array |-> st.array, len |-> st.len, panic |-> st.panic]
    BY DEF LoopStates
  <1>1. CASE st.panic \/ st.array[i] \notin Match
    BY <1>1 DEF Turn
  <1>2. CASE ~ st.panic /\ st.array[i] \in Match /\ i <= st.len
    <2>1. Turn(st, i, Match) = Shift(st, i)
      BY <1>2 DEF Turn
    <2>2. Shift(st, i) = [array |-> shifted, len |-> st.len - 1, panic |-> st.panic]
      <3>1. DOMAIN st.array = 1 .. N
        BY <1>0
      <3>2. shifted = [j \in DOMAIN st.array |->
                         IF i <= j /\ j < st.len THEN st.array[j + 1] ELSE st.array[j]]
        BY <3>1, Zenon
      <3>3. Shift(st, i) = [st EXCEPT !.array = shifted, !.len = @ - 1]
        BY <3>2, Zenon DEF Shift
      <3> HIDE DEF shifted, N
      <3> QED
        BY <1>0, <3>3
    <2>3. shifted \in [1 .. N -> S]
      BY <1>0
    <2>4. st.len - 1 \in 0 .. N
      BY <1>0, <1>2
    <2> HIDE DEF shifted, N
    <2>5. Turn(st, i, Match) \in LoopStates(s, S)
      BY <1>0, <2>1, <2>2, <2>3, <2>4 DEF LoopStates, N
    <2>6. \A j \in 1 .. N : shifted[j] = IF i <= j /\ j < st.len THEN st.array[j + 1] ELSE st.array[j]
      BY DEF shifted
    <2> QED
      BY <1>2, <1>0, <2>1, <2>2, <2>5, <2>6 DEF N
  <1>3. CASE ~ st.panic /\ st.array[i] \in Match /\ i > st.len
    <2>1. Turn(st, i, Match) = [array |-> st.array, len |-> st.len, panic |-> TRUE]
      <3>1. ~ (i <= st.len)
        BY <1>0, <1>3
      <3>2. Turn(st, i, Match) = [st EXCEPT !.panic = TRUE]
        BY <1>3, <3>1, Zenon DEF Turn
      <3> QED
        BY <1>0, <3>2
    <2> QED
      BY <1>0, <1>3, <2>1 DEF LoopStates
  <1> QED
    BY <1>0, <1>1, <1>2, <1>3

\* The loop keeps the array's length and the slice within it.
LEMMA LoopTyped ==
  ASSUME NEW S, NEW s \in Seq(S), NEW Match
  PROVE  \A i \in 0 .. Len(s) : RangeStates(s, Match)[i] \in LoopStates(s, S)
  <1> DEFINE N == Len(s)
             st == RangeStates(s, Match)
             T == {i \in 0 .. N : st[i] \in LoopStates(s, S)}
  <1>0. N \in Nat /\ Ranged(s, Match, st, N)
    BY RangeStatesDef
  <1>1. 0 \in T
    <2>1. RangeState(s) \in LoopStates(s, S)
      BY <1>0 DEF RangeState, LoopStates
    <2> QED
      BY <1>0, <2>1 DEF Ranged
  <1>2. ASSUME NEW n \in 0 .. N - 1, n \in T PROVE n + 1 \in T
    <2>1. st[n] \in LoopStates(s, S) /\ n + 1 \in 1 .. N
      BY <1>0, <1>2
    <2>2. st[n + 1] = Turn(st[n], n + 1, Match)
      BY <1>0, <2>1 DEF Ranged
    <2>3. st[n + 1] \in LoopStates(s, S)
      <3> HIDE DEF st
      <3> QED
        BY <2>1, <2>2, TurnFacts
    <2> QED
      BY <2>1, <2>3
  <1> HIDE DEF T
  <1>3. \A i \in 0 .. N : i \in T
    BY <1>0, <1>1, <1>2, Induction
  <1> QED
    BY <1>3 DEF T

\* s without the element at place k.
Without(s, k) == [j \in 1 .. Len(s) - 1 |-> IF j < k THEN s[j] ELSE s[j + 1]]

\* The loop over a slice that holds one of the names to be deleted, in one place.
OneMatchInv(s, st, k, i) ==
    /\ ~ st.panic
    /\ i < k => st.array = s /\ st.len = Len(s)
    /\ k <= i => /\ st.len = Len(s) - 1
                /\ \A j \in 1 .. Len(s) :
                     st.array[j] = IF k <= j /\ j < Len(s) THEN s[j + 1] ELSE s[j]

\* It leaves the slice without that place.
LEMMA RangeDeleteOne ==
  ASSUME NEW S, NEW s \in Seq(S), NEW Match, NEW k \in 1 .. Len(s),
         \A i \in 1 .. Len(s) : s[i] \in Match <=> i = k
  PROVE  RangeDelete(s, Match) = [slice |-> Without(s, k), panic |-> FALSE]
  <1> DEFINE N == Len(s)
             st == RangeStates(s, Match)
             T == {i \in 0 .. N : OneMatchInv(s, st[i], k, i)}
  <1>0. N \in Nat /\ Ranged(s, Match, st, N) /\ k \in 1 .. N
    BY RangeStatesDef
  <1>1. 0 \in T
    BY <1>0 DEF Ranged, RangeState, OneMatchInv
  <1>2. ASSUME NEW n \in 0 .. N - 1, n \in T PROVE n + 1 \in T
    <2>1. st[n] \in LoopStates(s, S) /\ n + 1 \in 1 .. N
      <3>1. n \in 0 .. N /\ n + 1 \in 1 .. N
        BY <1>0
      <3> QED
        BY <3>1, LoopTyped, Zenon
    <2>2. st[n + 1] = Turn(st[n], n + 1, Match)
      BY <1>0, <2>1 DEF Ranged
    <2>3. OneMatchInv(s, st[n], k, n)
      BY <1>2
    <2> DEFINE a == st[n]
               b == st[n + 1]
    <2> HIDE DEF st, N
    <2>4. OneMatchInv(s, b, k, n + 1)
      <3>1. CASE n + 1 < k
        BY <1>0, <2>1, <2>2, <2>3, <3>1, TurnFacts DEF OneMatchInv, N
      <3>2. CASE n + 1 = k
        <4>1. /\ ~ a.panic /\ a.array = s /\ a.len = N
          BY <1>0, <2>1, <2>3, <3>2 DEF OneMatchInv, N
        <4>2. a.array[n + 1] \in Match /\ n + 1 <= a.len
          BY <1>0, <2>1, <3>2, <4>1 DEF N
        <4>3. /\ b.len = N - 1 /\ ~ b.panic
              /\ \A j \in 1 .. N : b.array[j] = IF k <= j /\ j < N THEN s[j + 1] ELSE s[j]
          BY <2>1, <2>2, <3>2, <4>1, <4>2, TurnFacts DEF N
        <4> QED
          BY <1>0, <3>2, <4>3 DEF OneMatchInv, N
      <3>3. CASE k < n + 1
        <4>1. ~ a.panic /\ a.array[n + 1] \notin Match
          <5>1. ~ a.panic /\ a.array[n + 1] = IF n + 1 < N THEN s[n + 2] ELSE s[n + 1]
            BY <1>0, <2>1, <2>3, <3>3 DEF OneMatchInv, N
          <5>2. s[n + 1] \notin Match
            BY <1>0, <2>1, <3>3 DEF N
          <5>3. n + 1 < N => s[n + 2] \notin Match
            <6>1. n + 1 < N => n + 2 \in 1 .. N /\ n + 2 # k
              BY <1>0, <2>1, <3>3
            <6> QED
              BY <6>1 DEF N
          <5> QED
            BY <5>1, <5>2, <5>3
        <4> QED
          BY <1>0, <2>1, <2>2, <2>3, <3>3, <4>1, TurnFacts DEF OneMatchInv, N
      <3> QED
        BY <1>0, <2>1, <3>1, <3>2, <3>3
    <2> QED
      BY <2>1, <2>4
  <1> HIDE DEF T
  <1>3. \A i \in 0 .. N : i \in T
    BY <1>0, <1>1, <1>2, Induction
  <1>4. OneMatchInv(s, st[N], k, N) /\ st[N] \in LoopStates(s, S)
    BY <1>0, <1>3, LoopTyped DEF T
  <1>5. SubSeq(st[N].array, 1, st[N].len) = Without(s, k)
    <2> DEFINE a == st[N].array
    <2>1. st[N].len = N - 1 /\ a \in [1 .. N -> S]
      BY <1>0, <1>4 DEF OneMatchInv, LoopStates
    <2>2. SubSeq(a, 1, N - 1) = [j \in 1 .. N - 1 |-> a[j]]
      <3> HIDE DEF a, st, N
      <3>1. N \in Nat
        BY <1>0
      <3> QED
        BY ONLY <3>1, <2>1
    <2>3. \A j \in 1 .. N - 1 : a[j] = IF j < k THEN s[j] ELSE s[j + 1]
      BY <1>0, <1>4 DEF OneMatchInv
    <2>4. [j \in 1 .. N - 1 |-> a[j]] = [j \in 1 .. N - 1 |-> IF j < k THEN s[j] ELSE s[j + 1]]
      BY <2>3, Zenon
    <2> QED
      BY <2>1, <2>2, <2>4 DEF Without
  <1>6. st[N].panic = FALSE
    BY <1>4 DEF OneMatchInv, LoopStates
  <1> QED
    BY <1>5, <1>6, Zenon DEF RangeDelete

\* The loop over a slice that holds none of the names to be deleted.
LEMMA RangeDeleteNone ==
  ASSUME NEW S, NEW s \in Seq(S), NEW Match, \A i \in 1 .. Len(s) : s[i] \notin Match
  PROVE  RangeDelete(s, Match) = [slice |-> s, panic |-> FALSE]
  <1> DEFINE N == Len(s)
             st == RangeStates(s, Match)
             T == {i \in 0 .. N : st[i] = RangeState(s)}
  <1>0. N \in Nat /\ Ranged(s, Match, st, N)
    BY RangeStatesDef
  <1>1. 0 \in T
    BY <1>0 DEF Ranged
  <1>2. ASSUME NEW n \in 0 .. N - 1, n \in T PROVE n + 1 \in T
    <2>1. st[n] = RangeState(s) /\ n + 1 \in 1 .. N /\ st[n + 1] = Turn(st[n], n + 1, Match)
      BY <1>0, <1>2 DEF Ranged
    <2>2. Turn(RangeState(s), n + 1, Match) = RangeState(s)
      BY <2>1 DEF Turn, RangeState
    <2> QED
      BY <2>1, <2>2
  <1> HIDE DEF T
  <1>3. \A i \in 0 .. N : i \in T
    BY <1>0, <1>1, <1>2, Induction
  <1>4. st[N] = RangeState(s)
    BY <1>0, <1>3 DEF T
  <1>5. SubSeq(s, 1, N) = s
    BY <1>0
  <1>6. st[N].array = s /\ st[N].len = N /\ st[N].panic = FALSE
    BY <1>4 DEF RangeState
  <1> QED
    BY <1>5, <1>6, Zenon DEF RangeDelete

\* What the loop returns is a slice of the same elements.
LEMMA RangeDeleteTyped ==
  ASSUME NEW S, NEW s \in Seq(S), NEW Match
  PROVE  /\ RangeDelete(s, Match).slice \in Seq(S)
         /\ RangeDelete(s, Match).panic \in BOOLEAN
  <1> DEFINE end == RangeStates(s, Match)[Len(s)]
  <1>1. Len(s) \in Nat /\ end \in LoopStates(s, S)
    BY LoopTyped
  <1> HIDE DEF end
  <1>2. end.array \in [1 .. Len(s) -> S] /\ end.len \in 0 .. Len(s) /\ end.panic \in BOOLEAN
    BY <1>1 DEF LoopStates
  <1>3. SubSeq(end.array, 1, end.len) \in Seq(S)
    BY <1>1, <1>2
  <1> QED
    BY <1>2, <1>3 DEF RangeDelete, end

-----------------------------------------------------------------------------
\* The slice within its array.
Slice(st) == SubSeq(st.array, 1, st.len)

\* Its elements are the first of the array.
LEMMA SliceFacts ==
  ASSUME NEW S, NEW s \in Seq(S), NEW st \in LoopStates(s, S)
  PROVE  /\ Slice(st) \in Seq(S) /\ Len(Slice(st)) = st.len /\ st.len \in Nat /\ st.len <= Len(s)
         /\ \A j \in 1 .. st.len : Slice(st)[j] = st.array[j]
  <1>1. Len(s) \in Nat /\ st.array \in [1 .. Len(s) -> S] /\ st.len \in 0 .. Len(s)
    BY DEF LoopStates
  <1> QED
    BY <1>1 DEF Slice

\* A turn takes out an element that is to go, or none.
LEMMA TurnSlice ==
  ASSUME NEW S, NEW s \in Seq(S), NEW Match, NEW st \in LoopStates(s, S), NEW i \in 1 .. Len(s)
  PROVE  \/ Slice(Turn(st, i, Match)) = Slice(st)
         \/ /\ i \in 1 .. Len(Slice(st)) /\ Slice(st)[i] \in Match
            /\ Slice(Turn(st, i, Match)) = Without(Slice(st), i)
  <1> DEFINE t == Turn(st, i, Match)
  <1>0. t \in LoopStates(s, S)
    BY TurnFacts
  <1>1. CASE st.panic \/ st.array[i] \notin Match
    BY <1>1, TurnFacts
  <1>2. CASE ~ st.panic /\ st.array[i] \in Match /\ i <= st.len
    <2> HIDE DEF t
    <2>1. /\ t.len = st.len - 1
          /\ \A j \in 1 .. Len(s) : t.array[j] =
               IF i <= j /\ j < st.len THEN st.array[j + 1] ELSE st.array[j]
      BY <1>2, TurnFacts DEF t
    <2>2. /\ Slice(t) \in Seq(S) /\ Len(Slice(t)) = st.len - 1
          /\ \A j \in 1 .. st.len - 1 : Slice(t)[j] = t.array[j]
      BY <1>0, <2>1, SliceFacts
    <2>3. /\ Slice(st) \in Seq(S) /\ Len(Slice(st)) = st.len /\ st.len \in Nat /\ st.len <= Len(s)
          /\ \A j \in 1 .. st.len : Slice(st)[j] = st.array[j]
      BY SliceFacts
    <2>4. ASSUME NEW j \in 1 .. st.len - 1
          PROVE  Slice(t)[j] = IF j < i THEN Slice(st)[j] ELSE Slice(st)[j + 1]
      <3>1. /\ j \in 1 .. Len(s) /\ j \in 1 .. st.len /\ j + 1 \in 1 .. st.len
            /\ j < st.len /\ (j < i <=> ~ (i <= j))
        BY <2>3
      <3>2. Slice(t)[j] = t.array[j]
        BY <2>2
      <3>3. t.array[j] = IF j < i THEN st.array[j] ELSE st.array[j + 1]
        BY <2>1, <3>1, Zenon
      <3>4. Slice(st)[j] = st.array[j] /\ Slice(st)[j + 1] = st.array[j + 1]
        BY <2>3, <3>1, Zenon
      <3> QED
        BY <3>2, <3>3, <3>4, Zenon
    <2>5. Slice(t) = [j \in 1 .. st.len - 1 |-> Slice(t)[j]]
      BY <2>2, <2>3
    <2>6. Slice(t) = Without(Slice(st), i)
      BY <2>3, <2>4, <2>5, Zenon DEF Without
    <2> QED
      BY <1>2, <2>3, <2>6 DEF t
  <1>3. CASE ~ st.panic /\ st.array[i] \in Match /\ i > st.len
    BY <1>3, TurnFacts DEF Slice
  <1> QED
    BY <1>1, <1>2, <1>3, SliceFacts

\* x is in s once at most.
AtMostOnce(s, x) == \A i, j \in 1 .. Len(s) : s[i] = x /\ s[j] = x => i = j

\* An element that is not to go is not doubled, and nothing new comes in.
LEMMA RangeDeleteRest ==
  ASSUME NEW S, NEW s \in Seq(S), NEW Match, NEW x, x \notin Match, AtMostOnce(s, x)
  PROVE  /\ AtMostOnce(RangeDelete(s, Match).slice, x)
         /\ x \in ToSet(RangeDelete(s, Match).slice) => x \in ToSet(s)
  <1> DEFINE N == Len(s)
             st == RangeStates(s, Match)
             Rest(t) == AtMostOnce(t, x) /\ \A i \in 1 .. Len(t) : t[i] = x => x \in ToSet(s)
             T == {i \in 0 .. N : Rest(Slice(st[i]))}
  <1>0. N \in Nat /\ Ranged(s, Match, st, N)
    BY RangeStatesDef
  <1>1. 0 \in T
    <2>1. Slice(RangeState(s)) = s
      BY <1>0 DEF RangeState, Slice
    <2>2. Rest(s)
      BY DEF ToSet
    <2> QED
      BY <1>0, <2>1, <2>2 DEF Ranged
  <1>2. ASSUME NEW n \in 0 .. N - 1, n \in T PROVE n + 1 \in T
    <2>1. st[n] \in LoopStates(s, S) /\ n + 1 \in 1 .. N /\ st[n + 1] = Turn(st[n], n + 1, Match)
      BY <1>0, <1>2, LoopTyped DEF Ranged
    <2>2. Rest(Slice(st[n]))
      BY <1>2
    <2> DEFINE a == Slice(st[n])
               b == Slice(st[n + 1])
    <2> HIDE DEF st
    <2>3. a \in Seq(S) /\ Len(a) \in Nat
      BY <2>1, SliceFacts
    <2>4. b = a \/ (n + 1 \in 1 .. Len(a) /\ b = Without(a, n + 1))
      BY <2>1, TurnSlice
    <2> HIDE DEF a, b
    <2>5. Rest(b)
      <3>1. CASE b = a
        BY <2>2, <3>1 DEF a
      <3>2. CASE n + 1 \in 1 .. Len(a) /\ b = Without(a, n + 1)
        <4>1. /\ Len(b) = Len(a) - 1
              /\ \A j \in 1 .. Len(b) : b[j] = IF j < n + 1 THEN a[j] ELSE a[j + 1]
          BY <2>3, <3>2 DEF Without
        <4>2. Rest(a)
          BY <2>2 DEF a
        <4>3. ASSUME NEW i \in 1 .. Len(b), b[i] = x
              PROVE  LET k == IF i < n + 1 THEN i ELSE i + 1
                     IN  k \in 1 .. Len(a) /\ a[k] = x
          BY <2>3, <3>2, <4>1, <4>3
        <4>4. \A i \in 1 .. Len(b) : b[i] = x => x \in ToSet(s)
          BY <4>2, <4>3
        <4>5. AtMostOnce(b, x)
          <5> SUFFICES ASSUME NEW i \in 1 .. Len(b), NEW j \in 1 .. Len(b), b[i] = x, b[j] = x
                       PROVE  i = j
            BY DEF AtMostOnce
          <5> DEFINE k == IF i < n + 1 THEN i ELSE i + 1
                     l == IF j < n + 1 THEN j ELSE j + 1
          <5>1. k \in 1 .. Len(a) /\ a[k] = x /\ l \in 1 .. Len(a) /\ a[l] = x
            BY <4>3
          <5>2. k = l
            BY <4>2, <5>1 DEF AtMostOnce
          <5>3. i \in Nat /\ j \in Nat /\ n + 1 \in Nat
            BY <2>1, <2>3, <4>1
          <5> QED
            BY <5>2, <5>3
        <4> QED
          BY <4>4, <4>5
      <3> QED
        BY <2>4, <3>1, <3>2
    <2> QED
      BY <2>1, <2>5 DEF b
  <1> HIDE DEF T
  <1>3. \A i \in 0 .. N : i \in T
    BY <1>0, <1>1, <1>2, Induction
  <1>4. Rest(Slice(st[N])) /\ RangeDelete(s, Match).slice = Slice(st[N])
    <2>1. N \in T
      BY <1>0, <1>3
    <2> QED
      BY <2>1 DEF T, RangeDelete, Slice
  <1>5. Slice(st[N]) \in Seq(S)
    BY <1>0, LoopTyped, SliceFacts
  <1> QED
    BY <1>4, <1>5 DEF ToSet

\* The loop goes out of bounds for the last element if it is to be deleted, as that
\* is what stands behind the slice, and for no other, once the slice is shorter:
\* as soon as there was one to be deleted.
PanicInv(s, st, Match, i) ==
    /\ st.len = Len(s) => st.array = s
    /\ st.len < Len(s) <=> \E k \in 1 .. i : s[k] \in Match
    /\ \A j \in 1 .. Len(s) : st.len < j => st.array[j] = s[Len(s)]
    /\ i < st.len => st.array[st.len] = s[Len(s)]
    /\ st.panic => st.len < Len(s) /\ \E k \in 1 .. Len(s) - 1 : s[k] \in Match /\ s[Len(s)] \in Match
    /\ (i = Len(s) /\ i > 0 /\ s[i] \in Match /\ \E k \in 1 .. i - 1 : s[k] \in Match) => st.panic

\* So a panic needs two elements to be deleted, the last among them, and then it
\* is sure.
LEMMA RangeDeletePanic ==
  ASSUME NEW S, NEW s \in Seq(S), NEW Match
  PROVE  RangeDelete(s, Match).panic <=> Overruns(s, Match)
  <1> DEFINE N == Len(s)
             st == RangeStates(s, Match)
             T == {i \in 0 .. N : PanicInv(s, st[i], Match, i)}
  <1>0. N \in Nat /\ Ranged(s, Match, st, N) /\ (s = <<>> <=> N = 0)
    BY RangeStatesDef, EmptySeq
  <1>1. 0 \in T
    BY <1>0 DEF Ranged, RangeState, PanicInv
  <1>2. ASSUME NEW n \in 0 .. N - 1, n \in T PROVE n + 1 \in T
    <2>1. st[n] \in LoopStates(s, S) /\ n + 1 \in 1 .. N /\ st[n + 1] = Turn(st[n], n + 1, Match)
      BY <1>0, <1>2, LoopTyped DEF Ranged
    <2> DEFINE a == st[n]
               b == st[n + 1]
    <2>2. PanicInv(s, a, Match, n)
      BY <1>2
    <2>3. a.len \in 0 .. N /\ a.panic \in BOOLEAN
      BY <2>1 DEF LoopStates
    <2> HIDE DEF st, N
    <2>4. /\ a.len = N => a.array = s
          /\ a.len < N <=> \E k \in 1 .. n : s[k] \in Match
          /\ \A j \in 1 .. N : a.len < j => a.array[j] = s[N]
          /\ n < a.len => a.array[a.len] = s[N]
          /\ a.panic => a.len < N /\ \E k \in 1 .. N - 1 : s[k] \in Match /\ s[N] \in Match
      BY <2>2 DEF PanicInv, N
    <2>5. \A k : k \in 1 .. n + 1 <=> k \in 1 .. n \/ k = n + 1
      BY <2>1, <1>0
    <2>6. PanicInv(s, b, Match, n + 1)
      <3>1. CASE a.panic
        <4>1. b = a
          BY <2>1, <3>1, TurnFacts DEF N
        <4>2. a.len < N => \E k \in 1 .. n + 1 : s[k] \in Match
          BY <2>4, <2>5
        <4>3. a.len < N
          BY <2>4, <3>1
        <4> QED
          BY <1>0, <2>1, <2>3, <2>4, <3>1, <4>1, <4>2, <4>3 DEF PanicInv, N
      <3>2. CASE ~ a.panic /\ a.array[n + 1] \notin Match
        <4>1. b = a
          BY <2>1, <3>2, TurnFacts DEF N
        <4>2. a.len = N => s[n + 1] \notin Match
          BY <2>4, <3>2
        <4>3. a.len < N <=> \E k \in 1 .. n + 1 : s[k] \in Match
          BY <1>0, <2>1, <2>3, <2>4, <2>5, <4>2
        <4>4. ASSUME n + 1 = N, s[n + 1] \in Match PROVE \A k \in 1 .. n : s[k] \notin Match
          <5>1. a.len < n + 1 => a.array[n + 1] = s[N]
            BY <2>1, <2>4
          <5>2. ~ (a.len < N)
            BY <3>2, <4>4, <5>1
          <5> QED
            BY <2>4, <5>2
        <4> QED
          BY <1>0, <2>1, <2>3, <2>4, <3>2, <4>1, <4>3, <4>4 DEF PanicInv, N
      <3>3. CASE ~ a.panic /\ a.array[n + 1] \in Match /\ n + 1 <= a.len
        <4>1. /\ b.len = a.len - 1 /\ ~ b.panic
              /\ \A j \in 1 .. N : b.array[j] =
                    IF n + 1 <= j /\ j < a.len THEN a.array[j + 1] ELSE a.array[j]
          BY <2>1, <3>3, TurnFacts DEF N
        <4>2. \E k \in 1 .. n + 1 : s[k] \in Match
          <5>1. CASE a.len = N
            BY <2>4, <2>5, <3>3, <5>1
          <5>2. CASE a.len < N
            BY <2>4, <2>5, <5>2
          <5> QED
            BY <1>0, <2>3, <5>1, <5>2
        <4>3. /\ a.array[a.len] = s[N]
              /\ \A j \in 1 .. N : a.len < j => a.array[j] = s[N]
          BY <1>0, <2>1, <2>3, <2>4, <3>3
        <4>4. \A j \in 1 .. N : b.len < j => b.array[j] = s[N]
          BY <1>0, <2>1, <2>3, <4>1, <4>3
        <4>5. n + 1 < b.len => b.array[b.len] = s[N]
          BY <1>0, <2>1, <2>3, <4>1, <4>3
        <4>6. b.len < N
          BY <1>0, <2>3, <4>1
        <4>7. n + 1 = N => \A k \in 1 .. n : s[k] \notin Match
          <5>1. n + 1 = N => ~ (a.len < N)
            BY <1>0, <2>3, <3>3
          <5> QED
            BY <2>4, <5>1
        <4> QED
          BY <1>0, <2>1, <2>3, <4>1, <4>2, <4>4, <4>5, <4>6, <4>7 DEF PanicInv, N
      <3>4. CASE ~ a.panic /\ a.array[n + 1] \in Match /\ n + 1 > a.len
        <4>1. b.panic /\ b.len = a.len /\ b.array = a.array
          BY <2>1, <3>4, TurnFacts DEF N
        <4>2. a.array[n + 1] = s[N] /\ a.len < N
          BY <1>0, <2>1, <2>3, <2>4, <3>4
        <4>3. PICK k \in 1 .. n : s[k] \in Match
          BY <2>4, <4>2
        <4>4. k \in 1 .. N - 1 /\ k \in 1 .. n + 1 /\ s[N] \in Match
          BY <1>0, <2>1, <3>4, <4>2
        <4>5. ~ (b.len = N) /\ ~ (n + 1 < b.len) /\ b.len < N
          BY <1>0, <2>1, <2>3, <3>4, <4>1, <4>2
        <4>6. \A j \in 1 .. N : b.len < j => b.array[j] = s[N]
          BY <2>4, <4>1
        <4> QED
          BY <4>1, <4>3, <4>4, <4>5, <4>6 DEF PanicInv, N
      <3> QED
        BY <1>0, <2>1, <2>3, <3>1, <3>2, <3>3, <3>4
    <2> QED
      BY <2>1, <2>6
  <1> HIDE DEF T
  <1>3. \A i \in 0 .. N : i \in T
    BY <1>0, <1>1, <1>2, Induction
  <1>4. PanicInv(s, st[N], Match, N) /\ RangeDelete(s, Match).panic = st[N].panic
    <2>1. N \in T
      BY <1>0, <1>3
    <2> QED
      BY <2>1 DEF T, RangeDelete
  <1>5. ASSUME st[N].panic PROVE Overruns(s, Match)
    <2>1. \E k \in 1 .. N - 1 : s[k] \in Match /\ s[N] \in Match
      BY <1>4, <1>5 DEF PanicInv
    <2>2. N # 0
      BY <1>0, <2>1
    <2> QED
      BY <1>0, <2>1, <2>2 DEF Overruns
  <1>6. ASSUME Overruns(s, Match) PROVE st[N].panic
    BY <1>0, <1>4, <1>6 DEF Overruns, PanicInv
  <1>7. st[N].panic \in BOOLEAN
    <2>1. st[N] \in LoopStates(s, S)
      BY <1>0, LoopTyped
    <2> QED
      BY <2>1 DEF LoopStates
  <1> QED
    BY <1>4, <1>5, <1>6, <1>7

\* f is the elements outside Match among the first i of s, for every i up to n.
OthersOf(s, Match, f, n) ==
    /\ f = [i \in 0 .. n |-> f[i]]
    /\ f[0] = <<>>
    /\ \A i \in 1 .. n : f[i] = IF s[i] \in Match THEN f[i - 1] ELSE Append(f[i - 1], s[i])

\* The recursive definition is of a function that exists.
LEMMA OthersUpToDef ==
  ASSUME NEW S, NEW s \in Seq(S), NEW Match
  PROVE  OthersOf(s, Match, OthersUpTo(s, Match), Len(s))
  <1> DEFINE N == Len(s)
             T == {n \in Nat : \E f : OthersOf(s, Match, f, n)}
             Longer(f, i) == IF s[i] \in Match THEN f[i - 1] ELSE Append(f[i - 1], s[i])
             Def(f) == [i \in 0 .. N |-> IF i = 0 THEN <<>> ELSE Longer(f, i)]
  <1>0. N \in Nat
    OBVIOUS
  <1>1. 0 \in T
    <2>1. OthersOf(s, Match, [i \in 0 .. 0 |-> <<>>], 0)
      BY DEF OthersOf
    <2> QED
      BY <2>1
  <1>2. ASSUME NEW n \in 0 .. N - 1, n \in T PROVE n + 1 \in T
    <2>1. PICK f : OthersOf(s, Match, f, n)
      BY <1>2
    <2> DEFINE g == [i \in 0 .. n + 1 |-> IF i = n + 1 THEN Longer(f, n + 1) ELSE f[i]]
    <2>2. OthersOf(s, Match, g, n + 1)
      <3>1. g = [i \in 0 .. n + 1 |-> g[i]] /\ g[0] = <<>>
        BY <2>1, <1>0 DEF OthersOf
      <3>2. ASSUME NEW i \in 1 .. n + 1 PROVE g[i] = Longer(g, i)
        <4>1. CASE i = n + 1
          <5>1. g[i - 1] = f[n] /\ g[i] = Longer(f, n + 1)
            BY <4>1, <1>0
          <5> QED
            BY <4>1, <5>1, <1>0
        <4>2. CASE i # n + 1
          <5>1. g[i] = f[i] /\ g[i - 1] = f[i - 1] /\ i \in 1 .. n
            BY <4>2, <1>0
          <5> QED
            BY <5>1, <2>1 DEF OthersOf
        <4> QED
          BY <4>1, <4>2
      <3> QED
        BY <3>1, <3>2 DEF OthersOf
    <2> QED
      BY <2>2
  <1>3. N \in T
    <2> HIDE DEF T, N
    <2>1. \A n \in 0 .. N - 1 : n \in T => n + 1 \in T
      BY <1>2
    <2>2. \A n \in 0 .. N : n \in T
      BY <1>0, <1>1, <2>1, Induction
    <2> QED
      BY <1>0, <2>2
  <1>4. PICK f : OthersOf(s, Match, f, N)
    BY <1>3
  <1>5. f = Def(f)
    <2>1. \A i \in 0 .. N : f[i] = IF i = 0 THEN <<>> ELSE Longer(f, i)
      BY <1>4, <1>0 DEF OthersOf
    <2>2. f = [i \in 0 .. N |-> f[i]]
      BY <1>4 DEF OthersOf
    <2> HIDE DEF Longer, N
    <2> QED
      BY <2>1, <2>2, Zenon
  <1>6. OthersUpTo(s, Match) = CHOOSE g : g = Def(g)
    BY DEF OthersUpTo
  <1>7. OthersUpTo(s, Match) = Def(OthersUpTo(s, Match))
    BY <1>5, <1>6
  <1> DEFINE g == OthersUpTo(s, Match)
  <1> HIDE DEF g, N
  <1>8. g = Def(g)
    BY <1>7 DEF g
  <1> HIDE DEF Longer
  <1>9. g = [i \in 0 .. N |-> g[i]] /\ g[0] = <<>>
    BY <1>8, <1>0
  <1>10. \A i \in 1 .. N : g[i] = Longer(g, i)
    BY <1>8, <1>0
  <1> QED
    BY <1>9, <1>10 DEF OthersOf, Longer, g, N

\* Taking one element of Match out leaves the others, in their order.
LEMMA OthersWithout ==
  ASSUME NEW S, NEW s \in Seq(S), NEW Match, NEW k \in 1 .. Len(s), s[k] \in Match
  PROVE  Others(Without(s, k), Match) = Others(s, Match)
  <1> DEFINE N == Len(s)
             w == Without(s, k)
             fs == OthersUpTo(s, Match)
             fw == OthersUpTo(w, Match)
             T == {n \in 0 .. N : IF n < k THEN fw[n] = fs[n] ELSE fw[n - 1] = fs[n]}
  <1>0. N \in Nat /\ k \in 1 .. N /\ OthersOf(s, Match, fs, N)
    BY OthersUpToDef
  <1>1. w \in Seq(S) /\ Len(w) = N - 1
        /\ \A j \in 1 .. N - 1 : w[j] = IF j < k THEN s[j] ELSE s[j + 1]
    <2>1. \A j \in 1 .. N : s[j] \in S
      OBVIOUS
    <2>2. w = [j \in 1 .. N - 1 |-> IF j < k THEN s[j] ELSE s[j + 1]]
      BY DEF Without
    <2> HIDE DEF w, N
    <2> QED
      BY <1>0, <2>1, <2>2
  <1>2. OthersOf(w, Match, fw, N - 1)
    <2> HIDE DEF w, N
    <2> QED
      BY <1>1, OthersUpToDef
  <1> HIDE DEF w, fs, fw, N
  <1>3. fs[0] = <<>> /\ fw[0] = <<>>
    BY <1>0, <1>2 DEF OthersOf
  <1>4. \A i \in 1 .. N : fs[i] = IF s[i] \in Match THEN fs[i - 1] ELSE Append(fs[i - 1], s[i])
    BY <1>0 DEF OthersOf
  <1>5. \A i \in 1 .. N - 1 : fw[i] = IF w[i] \in Match THEN fw[i - 1] ELSE Append(fw[i - 1], w[i])
    BY <1>2 DEF OthersOf
  <1>6. 0 \in T
    BY <1>0, <1>3
  <1>7. ASSUME NEW n \in 0 .. N - 1, n \in T PROVE n + 1 \in T
    <2>1. n + 1 \in 1 .. N /\ (IF n < k THEN fw[n] = fs[n] ELSE fw[n - 1] = fs[n])
      BY <1>0, <1>7
    <2>2. CASE n + 1 < k
      <3>1. n + 1 \in 1 .. N - 1 /\ w[n + 1] = s[n + 1] /\ fw[n] = fs[n] /\ n + 1 - 1 = n
        BY <1>0, <1>1, <2>1, <2>2
      <3>2. fw[n + 1] = fs[n + 1]
        BY <1>4, <1>5, <2>1, <3>1
      <3> QED
        BY <2>1, <2>2, <3>2
    <2>3. CASE n + 1 = k
      <3>1. s[n + 1] \in Match /\ fw[n] = fs[n] /\ n + 1 - 1 = n
        BY <1>0, <2>1, <2>3
      <3>2. fw[n + 1 - 1] = fs[n + 1]
        BY <1>4, <2>1, <3>1
      <3> QED
        BY <1>0, <2>1, <2>3, <3>2
    <2>4. CASE k <= n
      <3>1. n \in 1 .. N - 1 /\ w[n] = s[n + 1] /\ fw[n - 1] = fs[n] /\ n + 1 - 1 = n
        BY <1>0, <1>1, <2>1, <2>4
      <3>2. fw[n] = fs[n + 1]
        BY <1>4, <1>5, <2>1, <3>1
      <3>3. ~ (n + 1 < k)
        BY <1>0, <2>1, <2>4
      <3> QED
        BY <2>1, <3>1, <3>2, <3>3
    <2> QED
      BY <1>0, <2>1, <2>2, <2>3, <2>4
  <1> HIDE DEF T
  <1>8. \A n \in 0 .. N : n \in T
    BY <1>0, <1>6, <1>7, Induction
  <1>9. N \in T
    BY <1>0, <1>8
  <1>10. fw[N - 1] = fs[N]
    BY <1>0, <1>9 DEF T
  <1> QED
    BY <1>1, <1>10 DEF Others, w, fs, fw, N

\* The loop takes out elements of Match only, however many there are.
LEMMA RangeDeleteOthers ==
  ASSUME NEW S, NEW s \in Seq(S), NEW Match
  PROVE  Others(RangeDelete(s, Match).slice, Match) = Others(s, Match)
  <1> DEFINE N == Len(s)
             st == RangeStates(s, Match)
             T == {i \in 0 .. N : Others(Slice(st[i]), Match) = Others(s, Match)}
  <1>0. N \in Nat /\ Ranged(s, Match, st, N)
    BY RangeStatesDef
  <1>1. 0 \in T
    <2>1. Slice(RangeState(s)) = s
      BY <1>0 DEF RangeState, Slice
    <2> QED
      BY <1>0, <2>1 DEF Ranged
  <1>2. ASSUME NEW n \in 0 .. N - 1, n \in T PROVE n + 1 \in T
    <2>1. st[n] \in LoopStates(s, S) /\ n + 1 \in 1 .. N /\ st[n + 1] = Turn(st[n], n + 1, Match)
      <3>1. n \in 0 .. N /\ n + 1 \in 1 .. N /\ (n + 1) - 1 = n
        BY <1>0
      <3>2. st[n] \in LoopStates(s, S)
        BY <3>1, LoopTyped, Zenon
      <3>3. st[n + 1] = Turn(st[(n + 1) - 1], n + 1, Match)
        BY <1>0, <3>1, Zenon DEF Ranged
      <3> QED
        BY <3>1, <3>2, <3>3, Zenon
    <2> DEFINE a == Slice(st[n])
               b == Slice(st[n + 1])
    <2>2. Others(a, Match) = Others(s, Match)
      BY <1>2
    <2> HIDE DEF st
    <2>3. a \in Seq(S)
      BY <2>1, SliceFacts
    <2>4. b = a \/ (n + 1 \in 1 .. Len(a) /\ a[n + 1] \in Match /\ b = Without(a, n + 1))
      BY <2>1, TurnSlice
    <2> HIDE DEF a, b
    <2>5. Others(b, Match) = Others(a, Match)
      BY <2>3, <2>4, OthersWithout
    <2> QED
      BY <2>1, <2>2, <2>5 DEF b
  <1> HIDE DEF T
  <1>3. \A i \in 0 .. N : i \in T
    BY <1>0, <1>1, <1>2, Induction
  <1>4. N \in T
    BY <1>0, <1>3
  <1> QED
    BY <1>4 DEF T, RangeDelete, Slice

-----------------------------------------------------------------------------
(***************************************************************************)
(* Configuration: types, and the read locks held at each place.            *)
(***************************************************************************)
\* The read locks a goroutine holds at each place.
Reading == [place \in Places |-> IF place = "inner" THEN 2
       ELSE IF place \in {"looking", "outer", "finding", "collecting"} THEN 1 ELSE 0]

\* The read locks somebody holds are those of the place where he stands.
ReadersInv == \A p \in Procs : readers[p] = Reading[pc[p]]

ConfigInv == TypeOK /\ ReadersInv

LEMMA ReadingFacts == Reading \in [Places -> 0 .. 2]
  BY DEF Reading, Places

LEMMA ToSetTyped == ASSUME NEW S, NEW seq \in Seq(S) PROVE ToSet(seq) \subseteq S
  BY DEF ToSet

LEMMA ExceptTyped ==
  ASSUME NEW S, NEW seq \in Seq(S), NEW i, NEW x \in S
  PROVE  [seq EXCEPT ![i] = x] \in Seq(S) /\ Len([seq EXCEPT ![i] = x]) = Len(seq)
  <1>1. PICK n \in Nat : seq \in [1 .. n -> S] /\ Len(seq) = n
    OBVIOUS
  <1>2. [seq EXCEPT ![i] = x] \in [1 .. n -> S]
    BY <1>1
  <1> QED
    BY <1>1, <1>2

LEMMA InitConfigInv == Init => ConfigInv
  <1> SUFFICES ASSUME Init PROVE ConfigInv
    OBVIOUS
  <1>0. Order \in Seq(Names) /\ IsInjective(Order) /\ Len(Order) \in Nat
        /\ Len(Order) <= MaxSections /\ MaxSections \in Nat
    BY OrderAssumption, MaxSectionsAssumption
  <1>1. sections \in [Names -> Seq(1 .. MaxSections)]
    <2>1. ASSUME NEW n \in Names
          PROVE  (IF n \in ToSet(Order) THEN <<CHOOSE i \in DOMAIN Order : Order[i] = n>> ELSE <<>>)
                   \in Seq(1 .. MaxSections)
      <3>1. CASE n \in ToSet(Order)
        <4>1. \E i \in DOMAIN Order : Order[i] = n
          BY <3>1 DEF ToSet
        <4>2. (CHOOSE i \in DOMAIN Order : Order[i] = n) \in DOMAIN Order
          BY <4>1
        <4>3. DOMAIN Order \subseteq 1 .. MaxSections
          BY <1>0
        <4> QED
          BY <3>1, <4>2, <4>3
      <3>2. CASE n \notin ToSet(Order)
        BY <3>2
      <3> QED
        BY <3>1, <3>2
    <2> QED
      BY <2>1 DEF Init
  <1>2. content \in Seq({"empty", "whole", "torn"}) /\ Len(content) = 1
    BY DEF Init
  <1>3. TypeOK
    <2>1. /\ readers \in [Procs -> 0 .. 2]
          /\ pc \in [Procs -> Places]
          /\ ops \in [Procs -> 0 .. MaxOps]
          /\ left \in [Procs -> Nat]
          /\ regex \in [Procs -> SUBSET Names]
          /\ found \in [Procs -> SUBSET (1 .. MaxSections)]
      BY MaxOpsAssumption DEF Init, Places
    <2>2. /\ saved \in [Procs -> {None, "ok", "failed"}]
          /\ handle \in [Procs -> 0 .. Len(content)]
          /\ path \in 0 .. Len(content) /\ bak \in 0 .. Len(content)
      BY <1>2 DEF Init
    <2>3. writer \in Procs \union {None} /\ panicked \in BOOLEAN
      BY DEF Init
    <2>4. orderedSections \in Seq(Names) /\ fqn \in Seq(Names) /\ Len(fqn) <= MaxSections
      BY <1>0 DEF Init
    <2> QED
      BY <1>1, <1>2, <2>1, <2>2, <2>3, <2>4 DEF TypeOK
  <1>4. ReadersInv
    BY DEF Init, ReadersInv, Reading, Places
  <1> QED
    BY <1>3, <1>4 DEF ConfigInv

\* Taking and giving back a read lock where the place says so.
LEMMA RLockInv ==
  ASSUME ConfigInv, NEW p \in Procs, NEW from \in Places, NEW to \in Places, Go(p, from, to),
         \/ RLock(p) /\ Reading[to] = Reading[from] + 1
         \/ RUnlock(p) /\ Reading[to] = Reading[from] - 1
  PROVE  /\ pc' \in [Procs -> Places] /\ readers' \in [Procs -> 0 .. 2] /\ ReadersInv'
         /\ UNCHANGED writer
  <1>1. /\ pc \in [Procs -> Places] /\ readers \in [Procs -> 0 .. 2] /\ pc[p] = from
        /\ pc' = [pc EXCEPT ![p] = to] /\ readers[p] = Reading[from]
    BY DEF ConfigInv, TypeOK, ReadersInv, Go
  <1>2. readers' = [readers EXCEPT ![p] = Reading[to]] /\ UNCHANGED writer
    BY <1>1, ReadingFacts DEF RLock, RUnlock
  <1>3. Reading[to] \in 0 .. 2
    BY ReadingFacts
  <1> QED
    BY <1>1, <1>2, <1>3 DEF ConfigInv, ReadersInv

\* Going on with no read lock changed.
LEMMA GoInv ==
  ASSUME ConfigInv, NEW p \in Procs, NEW from \in Places, NEW to \in Places, Go(p, from, to),
         UNCHANGED readers, Reading[to] = Reading[from]
  PROVE  pc' \in [Procs -> Places] /\ ReadersInv'
  BY DEF ConfigInv, TypeOK, ReadersInv, Go

LEMMA BeginConfigInv == ASSUME ConfigInv, NEW p \in Procs, Begin(p) PROVE ConfigInv'
  <1>0. TypeOK
    BY DEF ConfigInv
  <1>1. PICK to \in Starts(p) :
         /\ pc' = [pc EXCEPT ![p] = to]
         /\ IF to = "find" THEN \E r \in Regexes : regex' = [regex EXCEPT ![p] = r]
                           ELSE UNCHANGED regex
    BY DEF Begin
  <1>2. to \in Places /\ Reading[to] = 0 /\ Reading["idle"] = 0 /\ "idle" \in Places
    BY DEF Starts, Places, Reading
  <1>3. pc' \in [Procs -> Places] /\ ReadersInv'
    BY <1>0, <1>1, <1>2 DEF Begin, lock, ConfigInv, ReadersInv, TypeOK
  <1>4. regex' \in [Procs -> SUBSET Names]
    BY <1>0, <1>1, RegexesAssumption DEF TypeOK
  <1>5. ops' \in [Procs -> 0 .. MaxOps]
    BY <1>0, MaxOpsAssumption DEF TypeOK, Begin
  <1>6. UNCHANGED <<data, lock, left, found, disk>>
    BY DEF Begin
  <1> QED
    BY <1>0, <1>3, <1>4, <1>5, <1>6 DEF TypeOK, ConfigInv, data, lock, disk

LEMMA LookConfigInv == ASSUME ConfigInv, NEW p \in Procs, Look(p) PROVE ConfigInv'
  <1>0. TypeOK
    BY DEF ConfigInv
  <1>1. {"look", "looking", "idle"} \subseteq Places /\ Reading["look"] = 0
        /\ Reading["looking"] = 1 /\ Reading["idle"] = 0
    BY DEF Places, Reading
  <1>2. pc' \in [Procs -> Places] /\ readers' \in [Procs -> 0 .. 2] /\ ReadersInv'
        /\ UNCHANGED writer
    <2>1. CASE Go(p, "look", "looking") /\ RLock(p)
      BY <1>1, <2>1, RLockInv
    <2>2. CASE Go(p, "looking", "idle") /\ RUnlock(p)
      BY <1>1, <2>2, RLockInv
    <2> QED
      BY <2>1, <2>2 DEF Look
  <1>3. UNCHANGED <<data, ops, local, disk>>
    BY DEF Look
  <1> QED
    BY <1>0, <1>2, <1>3 DEF TypeOK, ConfigInv, data, local, disk

LEMMA PrintConfigInv == ASSUME ConfigInv, NEW p \in Procs, PrintSection(p) PROVE ConfigInv'
  <1>0. TypeOK
    BY DEF ConfigInv
  <1>1. /\ {"print", "outer", "inner", "idle"} \subseteq Places
        /\ Reading["print"] = 0 /\ Reading["outer"] = 1 /\ Reading["inner"] = 2 /\ Reading["idle"] = 0
    BY DEF Places, Reading
  <1>2. pc' \in [Procs -> Places] /\ readers' \in [Procs -> 0 .. 2] /\ ReadersInv'
        /\ UNCHANGED writer
    <2>1. CASE Go(p, "print", "outer") /\ RLock(p)
      BY <1>1, <2>1, RLockInv
    <2>2. CASE Go(p, "outer", "inner") /\ RLock(p)
      BY <1>1, <2>2, RLockInv
    <2>3. CASE Go(p, "inner", "outer") /\ RUnlock(p)
      BY <1>1, <2>3, RLockInv
    <2>4. CASE Go(p, "outer", "idle") /\ RUnlock(p)
      BY <1>1, <2>4, RLockInv
    <2> QED
      BY <2>1, <2>2, <2>3, <2>4 DEF PrintSection
  <1>3. left' \in [Procs -> Nat]
    <2>1. Len(orderedSections) \in Nat /\ left \in [Procs -> Nat]
      BY <1>0 DEF TypeOK
    <2> QED
      BY <2>1 DEF PrintSection
  <1>4. UNCHANGED <<data, ops, regex, found, disk>>
    BY DEF PrintSection
  <1> QED
    BY <1>0, <1>2, <1>3, <1>4 DEF TypeOK, ConfigInv, data, disk

LEMMA SetConfigInv == ASSUME ConfigInv, NEW p \in Procs, SetFilePath(p) PROVE ConfigInv'
  <1>0. TypeOK
    BY DEF ConfigInv
  <1>1. {"set", "setting", "idle"} \subseteq Places /\ Reading["set"] = 0
        /\ Reading["setting"] = 0 /\ Reading["idle"] = 0
    BY DEF Places, Reading
  <1>2. UNCHANGED readers /\ writer' \in Procs \union {None}
    BY DEF SetFilePath, Lock, Unlock
  <1>3. pc' \in [Procs -> Places] /\ ReadersInv'
    <2>1. CASE Go(p, "set", "setting")
      BY <1>1, <1>2, <2>1, GoInv
    <2>2. CASE Go(p, "setting", "idle")
      BY <1>1, <1>2, <2>2, GoInv
    <2> QED
      BY <2>1, <2>2 DEF SetFilePath
  <1>4. UNCHANGED <<data, ops, local, disk>>
    BY DEF SetFilePath
  <1> QED
    BY <1>0, <1>2, <1>3, <1>4 DEF TypeOK, ConfigInv, data, local, disk

LEMMA FindConfigInv == ASSUME ConfigInv, NEW p \in Procs, Find(p) PROVE ConfigInv'
  <1>0. TypeOK
    BY DEF ConfigInv
  <1>1. {"find", "finding", "delete"} \subseteq Places /\ Reading["find"] = 0
        /\ Reading["finding"] = 1 /\ Reading["delete"] = 0
    BY DEF Places, Reading
  <1>2. pc' \in [Procs -> Places] /\ readers' \in [Procs -> 0 .. 2] /\ ReadersInv'
        /\ UNCHANGED writer
    <2>1. CASE Go(p, "find", "finding") /\ RLock(p)
      BY <1>1, <2>1, RLockInv
    <2>2. CASE Go(p, "finding", "delete") /\ RUnlock(p)
      BY <1>1, <2>2, RLockInv
    <2> QED
      BY <2>1, <2>2 DEF Find
  <1>3. found' \in [Procs -> SUBSET (1 .. MaxSections)]
    <2>1. \A n \in Names : ToSet(sections[n]) \subseteq 1 .. MaxSections
      BY <1>0, ToSetTyped DEF TypeOK
    <2>2. UNION {ToSet(sections[n]) : n \in regex[p]} \subseteq 1 .. MaxSections
      BY <1>0, <2>1 DEF TypeOK
    <2> QED
      BY <1>0, <2>2 DEF TypeOK, Find
  <1>4. UNCHANGED <<data, ops, left, regex, disk>>
    BY DEF Find
  <1> QED
    BY <1>0, <1>2, <1>3, <1>4 DEF TypeOK, ConfigInv, data, disk

LEMMA DeleteConfigInv == ASSUME ConfigInv, NEW p \in Procs, Delete(p) PROVE ConfigInv'
  <1>0. TypeOK
    BY DEF ConfigInv
  <1>1. {"delete", "deleting", "idle"} \subseteq Places /\ Reading["delete"] = 0
        /\ Reading["deleting"] = 0 /\ Reading["idle"] = 0
    BY DEF Places, Reading
  <1>2. UNCHANGED readers /\ writer' \in Procs \union {None}
    BY DEF Delete, Lock, Unlock
  <1>3. pc' \in [Procs -> Places] /\ ReadersInv'
    <2>1. CASE Go(p, "delete", "deleting")
      BY <1>1, <1>2, <2>1, GoInv
    <2>2. CASE Go(p, "deleting", "idle")
      BY <1>1, <1>2, <2>2, GoInv
    <2> QED
      BY <2>1, <2>2 DEF Delete
  <1>4. /\ sections' \in [Names -> Seq(1 .. MaxSections)]
        /\ orderedSections' \in Seq(Names)
        /\ panicked' \in BOOLEAN
    <2>1. CASE UNCHANGED data
      BY <1>0, <2>1 DEF TypeOK, data
    <2>2. CASE DeleteFound(p)
      <3>1. sections' \in [Names -> Seq(1 .. MaxSections)]
        <4>1. sections \in [Names -> Seq(1 .. MaxSections)] /\ <<>> \in Seq(1 .. MaxSections)
          BY <1>0 DEF TypeOK
        <4> HIDE DEF FoundNames
        <4>2. sections' = [n \in Names |-> IF n \in FoundNames(p) THEN <<>> ELSE sections[n]]
          BY <2>2 DEF DeleteFound
        <4> QED
          BY <4>1, <4>2
      <3>2. orderedSections' \in Seq(Names) /\ panicked' \in BOOLEAN
        <4>1. orderedSections \in Seq(Names)
          BY <1>0 DEF TypeOK
        <4> QED
          BY <2>2, <4>1, RangeDeleteTyped DEF DeleteFound
      <3> QED
        BY <3>1, <3>2
    <2> QED
      BY <2>1, <2>2 DEF Delete
  <1>5. found' \in [Procs -> SUBSET (1 .. MaxSections)]
    BY <1>0 DEF TypeOK, Delete
  <1>6. UNCHANGED <<fqn, ops, left, regex, disk>>
    BY DEF Delete, data
  <1> QED
    BY <1>0, <1>2, <1>3, <1>4, <1>5, <1>6 DEF TypeOK, ConfigInv, disk

LEMMA NewSectionConfigInv == ASSUME ConfigInv, NEW n \in Names, NewSection(n) PROVE ConfigInv'
  <1>0. TypeOK /\ ReadersInv
    BY DEF ConfigInv
  <1>1. fqn \in Seq(Names) /\ Len(fqn) \in Nat /\ Len(fqn) < MaxSections /\ MaxSections \in Nat
    BY <1>0, MaxSectionsAssumption DEF TypeOK, NewSection
  <1>2. fqn' \in Seq(Names) /\ Len(fqn') <= MaxSections
    BY <1>1 DEF NewSection
  <1>3. sections' \in [Names -> Seq(1 .. MaxSections)]
    <2>1. Len(fqn) + 1 \in 1 .. MaxSections
      BY <1>1
    <2>2. sections \in [Names -> Seq(1 .. MaxSections)] /\ sections[n] \in Seq(1 .. MaxSections)
      BY <1>0 DEF TypeOK
    <2>3. Append(sections[n], Len(fqn) + 1) \in Seq(1 .. MaxSections)
      BY <2>1, <2>2, AppendProperties
    <2> QED
      BY <2>2, <2>3 DEF NewSection
  <1>4. orderedSections' \in Seq(Names)
    <2>1. orderedSections \in Seq(Names) /\ Append(orderedSections, n) \in Seq(Names)
      BY <1>0 DEF TypeOK
    <2> QED
      BY <2>1 DEF NewSection
  <1>5. UNCHANGED <<panicked, lock, pc, ops, local, disk>>
    BY DEF NewSection
  <1> QED
    BY <1>0, <1>2, <1>3, <1>4, <1>5 DEF TypeOK, ReadersInv, ConfigInv, lock, local, disk

LEMMA SaveConfigInv == ASSUME ConfigInv, NEW p \in Procs, Save(p) PROVE ConfigInv'
  <1>0. TypeOK
    BY DEF ConfigInv
  <1>1. /\ {"save", "saving", "collect", "collecting", "write", "writing", "flush", "idle"} \subseteq Places
        /\ Reading["collecting"] = 1
        /\ \A place \in {"save", "saving", "collect", "write", "writing", "flush", "idle"} : Reading[place] = 0
    BY DEF Places, Reading
  <1>2. pc' \in [Procs -> Places] /\ readers' \in [Procs -> 0 .. 2] /\ ReadersInv'
        /\ writer' \in Procs \union {None}
    <2>0. readers \in [Procs -> 0 .. 2] /\ writer \in Procs \union {None}
      BY <1>0 DEF TypeOK
    <2>1. CASE Go(p, "save", "saving") /\ Lock(p)
      BY <1>1, <2>0, <2>1, GoInv DEF Lock
    <2>2. CASE Open(p)
      <3>1. CASE Go(p, "saving", "collect") /\ Unlock
        BY <1>1, <2>0, <3>1, GoInv DEF Unlock
      <3>2. CASE Go(p, "saving", "idle") /\ UNCHANGED lock
        BY <1>1, <2>0, <3>2, GoInv DEF lock
      <3> QED
        BY <2>2, <3>1, <3>2 DEF Open
    <2>3. CASE Go(p, "collect", "collecting") /\ RLock(p)
      BY <1>1, <2>0, <2>3, RLockInv
    <2>4. CASE Go(p, "collecting", "write") /\ RUnlock(p)
      BY <1>1, <2>0, <2>4, RLockInv
    <2>5. CASE Go(p, "write", "writing") /\ Lock(p)
      BY <1>1, <2>0, <2>5, GoInv DEF Lock
    <2>6. CASE Go(p, "writing", "flush") /\ Unlock
      BY <1>1, <2>0, <2>6, GoInv DEF Unlock
    <2>7. CASE Flush(p) /\ UNCHANGED lock
      BY <1>1, <2>0, <2>7, GoInv DEF Flush, lock
    <2> QED
      BY <2>1, <2>2, <2>3, <2>4, <2>5, <2>6, <2>7 DEF Save
  <1>3. /\ content' \in Seq({"empty", "whole", "torn"})
        /\ path' \in 0 .. Len(content') /\ bak' \in 0 .. Len(content')
        /\ handle' \in [Procs -> 0 .. Len(content')]
        /\ saved' \in [Procs -> {None, "ok", "failed"}]
    <2>0. /\ content \in Seq({"empty", "whole", "torn"}) /\ Len(content) \in Nat
          /\ path \in 0 .. Len(content) /\ bak \in 0 .. Len(content)
          /\ handle \in [Procs -> 0 .. Len(content)]
          /\ saved \in [Procs -> {None, "ok", "failed"}]
      BY <1>0 DEF TypeOK
    <2>1. CASE UNCHANGED disk
      BY <2>0, <2>1 DEF disk
    <2>2. CASE Open(p)
      <3>1. CASE content' = Append(content, "empty") /\ Backup
                 /\ handle' = [handle EXCEPT ![p] = Len(content')] /\ UNCHANGED saved
        <4>1. content' \in Seq({"empty", "whole", "torn"}) /\ Len(content') = Len(content) + 1
          BY <2>0, <3>1
        <4> QED
          BY <2>0, <3>1, <4>1 DEF Backup
      <3>2. CASE /\ \/ UNCHANGED <<path, bak>>
                    \/ path' = 0 /\ bak' = IF path = 0 THEN bak ELSE path
                 /\ saved' = [saved EXCEPT ![p] = "failed"]
                 /\ UNCHANGED <<content, handle>>
        BY <2>0, <3>2
      <3> QED
        BY <2>2, <3>1, <3>2 DEF Open
    <2>3. CASE Flush(p) /\ UNCHANGED <<path, bak>>
      <3>1. content' \in Seq({"empty", "whole", "torn"}) /\ Len(content') = Len(content)
        <4>1. \/ content' = [content EXCEPT ![handle[p]] = "whole"]
              \/ content' = [content EXCEPT ![handle[p]] = "torn"]
          BY <2>3 DEF Flush
        <4>2. ASSUME NEW x \in {"empty", "whole", "torn"}
              PROVE  /\ [content EXCEPT ![handle[p]] = x] \in Seq({"empty", "whole", "torn"})
                     /\ Len([content EXCEPT ![handle[p]] = x]) = Len(content)
          BY ONLY <2>0, ExceptTyped, x \in {"empty", "whole", "torn"}, Z3
        <4>3. "whole" \in {"empty", "whole", "torn"} /\ "torn" \in {"empty", "whole", "torn"}
          OBVIOUS
        <4> QED
          BY ONLY <4>1, <4>2, <4>3, Zenon
      <3> QED
        BY <2>0, <2>3, <3>1 DEF Flush
    <2> QED
      BY <2>1, <2>2, <2>3 DEF Save
  <1>4. UNCHANGED <<data, ops, local>>
    BY DEF Save
  <1> QED
    BY <1>0, <1>2, <1>3, <1>4 DEF TypeOK, ConfigInv, data, local

LEMMA NextConfigInv == ConfigInv /\ [Next]_vars => ConfigInv'
  <1>1. ASSUME ConfigInv, UNCHANGED vars PROVE ConfigInv'
    BY <1>1 DEF vars, data, lock, local, disk, ConfigInv, TypeOK, ReadersInv
  <1> QED
    BY <1>1, BeginConfigInv, LookConfigInv, PrintConfigInv, SetConfigInv, FindConfigInv,
       DeleteConfigInv, SaveConfigInv, NewSectionConfigInv DEF Next, Operation

LEMMA SpecConfigInv == Spec => []ConfigInv
  BY InitConfigInv, NextConfigInv, PTL DEF Spec, SafeSpec

\* The configuration's variables keep their types in every operation of the API,
\* the list and the sections among them, whatever order Delete finds them in.
THEOREM ConfigTypeOK == Spec => []TypeOK
  <1>1. ConfigInv => TypeOK
    BY DEF ConfigInv
  <1> QED
    BY <1>1, SpecConfigInv, PTL

-----------------------------------------------------------------------------
(***************************************************************************)
(* Configuration: the file and its backup.                                 *)
(***************************************************************************)
\* One goroutine at most calls Save: of two, the second can rename the file the
\* first has just created, empty, over the backup.
OneSaver == \A p, q \in Savers : p = q

\* Where a Save has the file open.
Saving == {"collect", "collecting", "write", "writing", "flush"}

\* The file a Save has open is the one under the path, and it alone is empty;
\* there is a file under the path or a backup, and both while a Save has the
\* file open.
DiskInv ==
    /\ \A p \in Procs : pc[p] \in Saving \union {"save", "saving"} => p \in Savers
    /\ \A p \in Procs : handle[p] # 0 => pc[p] \in Saving /\ handle[p] = path /\ bak # 0
    /\ \A i \in 1 .. Len(content) : content[i] = "empty" => \E p \in Procs : handle[p] = i
    /\ path = 0 => bak # 0
    /\ bak # 0 => bak # path

LEMMA InitDiskInv == Init => DiskInv
  BY DEF Init, DiskInv, Saving

LEMMA DiskInvSomeCopy == ASSUME ConfigInv, DiskInv PROVE SomeCopy
  <1>0. /\ content \in Seq({"empty", "whole", "torn"}) /\ Len(content) \in Nat
        /\ path \in 0 .. Len(content) /\ bak \in 0 .. Len(content)
    BY DEF ConfigInv, TypeOK
  <1> SUFFICES ASSUME "torn" \notin ToSet(content)
               PROVE  \E i \in {path, bak} \ {0} : content[i] = "whole"
    BY DEF SomeCopy
  <1>1. \A i \in 1 .. Len(content) : content[i] \in {"empty", "whole"}
    BY <1>0 DEF ToSet
  <1>2. CASE path # 0 /\ content[path] = "whole"
    BY <1>2
  <1>3. CASE path = 0 \/ content[path] # "whole"
    <2>1. bak # 0 /\ bak # path
      <3>1. CASE path = 0
        BY <3>1 DEF DiskInv
      <3>2. CASE path # 0
        <4>1. path \in 1 .. Len(content) /\ content[path] = "empty"
          BY <1>0, <1>1, <1>3, <3>2
        <4> QED
          BY <3>2, <4>1 DEF DiskInv
      <3> QED
        BY <3>1, <3>2
    <2>2. bak \in 1 .. Len(content)
      BY <1>0, <2>1
    <2>3. content[bak] # "empty"
      BY <2>1, <2>2 DEF DiskInv
    <2> QED
      BY <1>1, <2>1, <2>2, <2>3
  <1> QED
    BY <1>2, <1>3

\* Everything but Save leaves the disk alone.
LEMMA OtherDiskInv ==
  ASSUME ConfigInv, DiskInv, UNCHANGED disk,
         \A q \in Procs : pc'[q] \in Saving \union {"save", "saving"} =>
            q \in Savers,
         \A q \in Procs : pc[q] \in Saving => pc'[q] \in Saving
  PROVE  DiskInv'
  BY DEF DiskInv, disk

LEMMA SaveDiskInv ==
  ASSUME ConfigInv, DiskInv, OneSaver, NEW p \in Procs, Save(p)
  PROVE  DiskInv'
  <1>0. /\ content \in Seq({"empty", "whole", "torn"}) /\ Len(content) \in Nat
        /\ path \in 0 .. Len(content) /\ bak \in 0 .. Len(content)
        /\ handle \in [Procs -> 0 .. Len(content)]
        /\ pc \in [Procs -> Places]
    BY DEF ConfigInv, TypeOK
  <1>1. p \in Savers /\ \A q \in Procs : q # p => handle[q] = 0
    <2>1. p \in Savers
      BY DEF DiskInv, Save, Open, Flush, Go, Saving
    <2> QED
      BY <2>1 DEF DiskInv, OneSaver, Saving
  <1>2. ASSUME NEW from \in Places, NEW to \in Saving \union {"saving"}, Go(p, from, to), UNCHANGED disk,
               from \in Saving => to \in Saving
        PROVE  DiskInv'
    BY <1>0, <1>1, <1>2, OtherDiskInv DEF Go, DiskInv
  <1>3. CASE Open(p)
    <2>0. handle[p] = 0 /\ pc[p] = "saving"
      BY <1>3 DEF Open, Go, DiskInv, Saving
    <2>1. CASE /\ Go(p, "saving", "collect") /\ content' = Append(content, "empty")
               /\ Backup /\ handle' = [handle EXCEPT ![p] = Len(content')]
      <3>1. /\ Len(content') = Len(content) + 1
            /\ \A i \in 1 .. Len(content) : content'[i] = content[i]
        BY <1>0, <2>1
      <3>2. /\ \A q \in Procs : q # p => handle'[q] = 0 /\ pc'[q] = pc[q]
            /\ handle'[p] = Len(content') /\ pc'[p] = "collect"
            /\ path' = Len(content') /\ bak' = IF path = 0 THEN bak ELSE path
        BY <1>0, <1>1, <2>1 DEF Go, Backup
      <3>3. \A i \in 1 .. Len(content) : content'[i] # "empty"
        BY <1>1, <2>0, <3>1 DEF DiskInv
      <3>4. bak' # 0 /\ bak' # path'
        BY <1>0, <3>1, <3>2 DEF DiskInv
      <3> QED
        BY <1>0, <1>1, <3>1, <3>2, <3>3, <3>4 DEF DiskInv, Saving
    <2>2. CASE /\ Go(p, "saving", "idle") /\ UNCHANGED <<content, handle>>
               /\ \/ UNCHANGED <<path, bak>>
                  \/ path' = 0 /\ bak' = IF path = 0 THEN bak ELSE path
      <3>1. \A q \in Procs : handle'[q] = 0
        BY <1>1, <2>0, <2>2
      <3>2. \A q \in Procs : pc'[q] \in Saving \union {"save", "saving"} => q \in Savers
        BY <1>0, <2>2 DEF Go, DiskInv, Saving
      <3> QED
        BY <1>1, <2>0, <2>2, <3>1, <3>2 DEF DiskInv
    <2> QED
      BY <1>3, <2>1, <2>2 DEF Open
  <1>4. CASE Flush(p) /\ UNCHANGED <<path, bak>>
    <2>1. /\ \A q \in Procs : handle'[q] = 0
          /\ \A q \in Procs : q # p => pc'[q] = pc[q]
          /\ pc'[p] = "idle"
      BY <1>0, <1>1, <1>4 DEF Flush, Go
    <2>2. PICK x \in {"whole", "torn"} : content' = [content EXCEPT ![handle[p]] = x]
      BY <1>4 DEF Flush
    <2>3. /\ Len(content') = Len(content)
          /\ \A i \in 1 .. Len(content) : content'[i] = IF i = handle[p] THEN x ELSE content[i]
      BY <1>0, <2>2
    <2>4. \A i \in 1 .. Len(content') : content'[i] # "empty"
      BY <1>1, <2>3 DEF DiskInv
    <2> QED
      BY <1>4, <2>1, <2>4 DEF DiskInv, Saving
  <1> QED
    BY <1>2, <1>3, <1>4 DEF Save, Saving, Places

LEMMA NextDiskInv == OneSaver /\ ConfigInv /\ DiskInv /\ [Next]_vars => DiskInv'
  <1> SUFFICES ASSUME OneSaver, ConfigInv, DiskInv, [Next]_vars PROVE DiskInv'
    OBVIOUS
  <1>0. pc \in [Procs -> Places]
    BY DEF ConfigInv, TypeOK
  <1>1. ASSUME NEW p \in Procs, Begin(p) PROVE DiskInv'
    BY <1>0, <1>1, OtherDiskInv DEF Begin, Starts, DiskInv, Saving
  <1>2. ASSUME NEW p \in Procs, Look(p) \/ PrintSection(p) \/ SetFilePath(p) \/ Find(p) \/ Delete(p)
        PROVE  DiskInv'
    BY <1>0, <1>2, OtherDiskInv
      DEF Look, PrintSection, SetFilePath, Find, Delete, Go, DiskInv, Saving
  <1>3. ASSUME NEW p \in Procs, Save(p) PROVE DiskInv'
    BY <1>3, SaveDiskInv
  <1>4. CASE UNCHANGED <<pc, disk>>
    BY <1>4, OtherDiskInv DEF DiskInv
  <1> QED
    BY <1>1, <1>2, <1>3, <1>4 DEF Next, Operation, NewSection, vars, disk

\* So long as one goroutine saves and no Flush has failed, the file or its
\* backup holds a configuration, wherever a Save is, whichever of its Rename and
\* Create failed and however the rest of the API comes between its steps.
THEOREM ConfigSomeCopy == ASSUME OneSaver PROVE Spec => []SomeCopy
  BY InitDiskInv, NextDiskInv, DiskInvSomeCopy, SpecConfigInv, PTL DEF Spec, SafeSpec

-----------------------------------------------------------------------------
(***************************************************************************)
(* Configuration: the list of the section names.                           *)
(***************************************************************************)
\* What Delete leaves of a name that was listed once at most: nothing.
LEMMA DeletedIsGone ==
  ASSUME NEW S, NEW s \in Seq(S), NEW o, AtMostOnce(s, o)
  PROVE  o \notin ToSet(RangeDelete(s, {o}).slice)
  <1>1. CASE \A i \in 1 .. Len(s) : s[i] # o
    <2>1. RangeDelete(s, {o}).slice = s
      BY <1>1, RangeDeleteNone
    <2> QED
      BY <1>1, <2>1 DEF ToSet
  <1>2. ASSUME NEW k \in 1 .. Len(s), s[k] = o PROVE o \notin ToSet(RangeDelete(s, {o}).slice)
    <2>1. \A i \in 1 .. Len(s) : s[i] \in {o} <=> i = k
      BY <1>2 DEF AtMostOnce
    <2>2. RangeDelete(s, {o}).slice = Without(s, k)
      BY <2>1, RangeDeleteOne
    <2>3. Len(s) \in Nat /\ DOMAIN Without(s, k) = 1 .. Len(s) - 1
      BY DEF Without
    <2>4. ASSUME NEW j \in 1 .. Len(s) - 1 PROVE Without(s, k)[j] # o
      <3>1. Without(s, k)[j] = IF j < k THEN s[j] ELSE s[j + 1]
        BY DEF Without
      <3>2. \A i \in 1 .. Len(s) : i # k => s[i] # o
        BY <2>1
      <3> QED
        BY <2>3, <3>1, <3>2
    <2> QED
      BY <2>2, <2>3, <2>4 DEF ToSet
  <1> QED
    BY <1>1, <1>2

\* Sections are kept under their names, a Delete in progress has a regex of those
\* given, and what it has found has names its regex matches.
OrderInv ==
    /\ \A n \in Names : \A i \in ToSet(sections[n]) : i \in 1 .. Len(fqn) /\ fqn[i] = n
    /\ \A p \in Procs : pc[p] \in {"find", "finding", "delete", "deleting"} => regex[p] \in Regexes
    /\ \A p \in Procs : pc[p] \in {"delete", "deleting"} =>
         \A i \in found[p] : i \in 1 .. Len(fqn) /\ fqn[i] \in regex[p]
    /\ OrderIsReal

\* Listed once, as the property says it and as AtMostOnce does.
LEMMA NamedOnce ==
  ASSUME NEW S, NEW s \in Seq(S), NEW n
  PROVE  (\A i, j \in DOMAIN s : s[i] = n /\ s[j] = n => i = j) <=> AtMostOnce(s, n)
  <1>1. DOMAIN s = 1 .. Len(s)
    OBVIOUS
  <1> QED
    BY <1>1 DEF AtMostOnce

LEMMA InitOrderInv == Init => OrderInv
  <1> SUFFICES ASSUME Init PROVE OrderInv
    OBVIOUS
  <1>0. Order \in Seq(Names) /\ IsInjective(Order) /\ DOMAIN Order = 1 .. Len(Order)
    BY OrderAssumption
  <1>1. ASSUME NEW n \in Names, n \in ToSet(Order)
        PROVE  \E i \in DOMAIN Order : sections[n] = <<i>> /\ Order[i] = n
    <2>1. \E i \in DOMAIN Order : Order[i] = n
      BY <1>1 DEF ToSet
    <2> DEFINE i == CHOOSE i \in DOMAIN Order : Order[i] = n
    <2>2. i \in DOMAIN Order /\ Order[i] = n
      BY <2>1
    <2>3. sections[n] = <<i>>
      BY <1>1 DEF Init
    <2> QED
      BY <2>2, <2>3
  <1>2. ASSUME NEW n \in Names, n \notin ToSet(Order) PROVE sections[n] = <<>>
    BY <1>2 DEF Init
  <1>3. \A n \in Names : \A i \in ToSet(sections[n]) : i \in 1 .. Len(fqn) /\ fqn[i] = n
    <2> SUFFICES ASSUME NEW n \in Names, NEW i \in ToSet(sections[n])
                 PROVE  i \in 1 .. Len(fqn) /\ fqn[i] = n
      OBVIOUS
    <2>1. fqn = Order
      BY DEF Init
    <2>2. n \in ToSet(Order)
      BY <1>2 DEF ToSet
    <2> QED
      BY <1>0, <1>1, <2>1, <2>2 DEF ToSet
  <1>4. OrderIsReal
    <2>1. \A n \in ToSet(Order) : n \in Names
      BY <1>0 DEF ToSet
    <2>2. \A n \in ToSet(Order) : sections[n] # <<>>
      BY <1>1, <2>1
    <2>3. \A i, j \in DOMAIN Order : Order[i] = Order[j] => i = j
      BY <1>0 DEF IsInjective
    <2> QED
      BY <2>2, <2>3 DEF OrderIsReal, Init
  <1> QED
    BY <1>3, <1>4 DEF OrderInv, Init

LEMMA FindOrderInv == ASSUME ConfigInv, OrderInv, NEW p \in Procs, Find(p) PROVE OrderInv'
  <1>0. TypeOK
    BY DEF ConfigInv
  <1>1. UNCHANGED <<data, regex>>
    BY DEF Find
  <1>2. \A q \in Procs : pc'[q] \in {"delete", "deleting"} =>
         \A i \in found'[q] : i \in 1 .. Len(fqn) /\ fqn[i] \in regex[q]
    <2>1. CASE Go(p, "find", "finding") /\ UNCHANGED found
      BY <1>0, <2>1 DEF Go, OrderInv, TypeOK
    <2>2. CASE /\ Go(p, "finding", "delete")
               /\ found' = [found EXCEPT ![p] = UNION {ToSet(sections[n]) : n \in regex[p]}]
      <3>1. \A i \in found'[p] : i \in 1 .. Len(fqn) /\ fqn[i] \in regex[p]
        BY <1>0, <2>2 DEF OrderInv, TypeOK
      <3>2. ASSUME NEW q \in Procs, pc'[q] \in {"delete", "deleting"}, q # p
            PROVE  \A i \in found'[q] : i \in 1 .. Len(fqn) /\ fqn[i] \in regex[q]
        <4>1. pc'[q] = pc[q] /\ found'[q] = found[q]
          BY <1>0, <2>2, <3>2 DEF Go, TypeOK
        <4> QED
          BY <3>2, <4>1 DEF OrderInv
      <3> QED
        BY <3>1, <3>2
    <2> QED
      BY <2>1, <2>2 DEF Find
  <1>3. \A q \in Procs : pc'[q] \in {"find", "finding", "delete", "deleting"} =>
         pc[q] \in {"find", "finding", "delete", "deleting"}
    BY <1>0 DEF Find, Go, TypeOK
  <1> QED
    BY <1>1, <1>2, <1>3 DEF OrderInv, OrderIsReal, data

\* What an append adds to the members of a list.
LEMMA ToSetAppend ==
  ASSUME NEW S, NEW s \in Seq(S), NEW x \in S
  PROVE  ToSet(Append(s, x)) = ToSet(s) \union {x} /\ Append(s, x) # <<>>
  <1>1. /\ DOMAIN Append(s, x) = 1 .. Len(s) + 1 /\ DOMAIN s = 1 .. Len(s) /\ Len(s) \in Nat
        /\ Append(s, x)[Len(s) + 1] = x /\ \A i \in 1 .. Len(s) : Append(s, x)[i] = s[i]
        /\ Append(s, x) # <<>>
    OBVIOUS
  <1> QED
    BY <1>1 DEF ToSet

LEMMA NewSectionOrderInv ==
  ASSUME ConfigInv, OrderInv, NEW n \in Names, NewSection(n) PROVE OrderInv'
  <1>0. /\ fqn \in Seq(Names) /\ Len(fqn) \in Nat
        /\ sections \in [Names -> Seq(1 .. MaxSections)] /\ orderedSections \in Seq(Names)
        /\ fqn' = Append(fqn, n)
        /\ UNCHANGED <<panicked, pc, regex, found>>
    <2>1. UNCHANGED <<panicked, pc, regex, found>> /\ fqn' = Append(fqn, n)
      BY DEF NewSection, local
    <2>2. fqn \in Seq(Names) /\ orderedSections \in Seq(Names)
          /\ sections \in [Names -> Seq(1 .. MaxSections)]
      BY DEF ConfigInv, TypeOK
    <2> QED
      BY <2>1, <2>2
  <1>1. /\ Len(fqn') = Len(fqn) + 1 /\ fqn'[Len(fqn) + 1] = n
        /\ \A i \in 1 .. Len(fqn) : i \in 1 .. Len(fqn') /\ fqn'[i] = fqn[i]
    BY <1>0
  <1>3. /\ sections'[n] # <<>> /\ \A i \in ToSet(sections'[n]) : i \in ToSet(sections[n]) \/ i = Len(fqn) + 1
        /\ \A m \in Names : m # n => sections'[m] = sections[m]
    <2>1. sections[n] \in Seq(Nat)
      BY <1>0, MaxSectionsAssumption
    <2>2. sections' = [sections EXCEPT ![n] = Append(@, Len(fqn) + 1)]
      BY DEF NewSection
    <2>3. sections'[n] = Append(sections[n], Len(fqn) + 1) /\ \A m \in Names : m # n => sections'[m] = sections[m]
      BY <1>0, <2>2
    <2>4. Len(fqn) + 1 \in Nat
      BY <1>0
    <2>5. ToSet(sections'[n]) = ToSet(sections[n]) \union {Len(fqn) + 1} /\ sections'[n] # <<>>
      <3>1. /\ ToSet(Append(sections[n], Len(fqn) + 1)) = ToSet(sections[n]) \union {Len(fqn) + 1}
            /\ Append(sections[n], Len(fqn) + 1) # <<>>
        BY ONLY ToSetAppend, <2>1, <2>4, Z3
      <3> QED
        BY ONLY <2>3, <3>1, Zenon
    <2> QED
      BY <2>3, <2>5
  <1>4. \A m \in Names : \A i \in ToSet(sections'[m]) : i \in 1 .. Len(fqn') /\ fqn'[i] = m
    <2> SUFFICES ASSUME NEW m \in Names, NEW i \in ToSet(sections'[m])
                 PROVE  i \in 1 .. Len(fqn') /\ fqn'[i] = m
      OBVIOUS
    <2>1. CASE i \in ToSet(sections[m])
      BY <1>1, <2>1 DEF OrderInv
    <2>2. CASE i = Len(fqn) + 1 /\ m = n
      BY <1>0, <1>1, <2>2
    <2> QED
      BY <1>3, <2>1, <2>2
  <1>5. OrderIsReal'
    <2>0. ToSet(orderedSections) \subseteq Names
      BY <1>0, ToSetTyped
    <2>1. CASE sections[n] = <<>>
      <3>1. orderedSections' = Append(orderedSections, n)
        BY <2>1 DEF NewSection
      <3>2. ToSet(orderedSections') = ToSet(orderedSections) \union {n}
        BY <1>0, ToSetAppend, <3>1
      <3>3. /\ DOMAIN orderedSections' = 1 .. Len(orderedSections) + 1
            /\ DOMAIN orderedSections = 1 .. Len(orderedSections) /\ Len(orderedSections) \in Nat
            /\ orderedSections'[Len(orderedSections) + 1] = n
            /\ \A i \in 1 .. Len(orderedSections) : orderedSections'[i] = orderedSections[i]
        BY <1>0, <3>1
      <3>4. ASSUME NEW m \in ToSet(orderedSections'), MatchedAlone(m),
                   NEW i \in DOMAIN orderedSections', NEW j \in DOMAIN orderedSections',
                   orderedSections'[i] = m, orderedSections'[j] = m
            PROVE  i = j
        <4>1. CASE m = n
          <5>1. n \notin ToSet(orderedSections)
            BY <2>1, <3>4, <4>1 DEF OrderInv, OrderIsReal
          <5>2. \A k \in 1 .. Len(orderedSections) : orderedSections[k] # n
            BY <3>3, <5>1 DEF ToSet
          <5> QED
            BY <3>3, <3>4, <4>1, <5>2
        <4>2. CASE m # n
          <5>1. m \in ToSet(orderedSections)
            BY <3>2, <3>4, <4>2
          <5>2. \A k, l \in DOMAIN orderedSections :
                  orderedSections[k] = m /\ orderedSections[l] = m => k = l
            BY <3>4, <5>1 DEF OrderInv, OrderIsReal
          <5>3. i \in DOMAIN orderedSections /\ j \in DOMAIN orderedSections
            BY <3>3, <3>4, <4>2
          <5> QED
            BY <3>3, <3>4, <5>2, <5>3
        <4> QED
          BY <4>1, <4>2
      <3>5. \A m \in ToSet(orderedSections') : MatchedAlone(m) => sections'[m] # <<>>
        BY <1>3, <2>0, <3>2 DEF OrderInv, OrderIsReal
      <3> QED
        BY <3>4, <3>5 DEF OrderIsReal, MatchedAlone
    <2>2. CASE sections[n] # <<>>
      <3>1. UNCHANGED orderedSections
        BY <2>2 DEF NewSection
      <3> QED
        BY <1>3, <2>0, <3>1 DEF OrderInv, OrderIsReal, MatchedAlone
    <2> QED
      BY <2>1, <2>2
  <1> QED
    BY <1>0, <1>1, <1>4, <1>5 DEF OrderInv

LEMMA DeleteOrderInv == ASSUME ConfigInv, OrderInv, NEW p \in Procs, Delete(p) PROVE OrderInv'
  <1>0. TypeOK /\ UNCHANGED <<fqn, regex>>
    BY DEF ConfigInv, Delete, data
  <1>1. CASE Go(p, "delete", "deleting") /\ UNCHANGED <<data, found>>
    BY <1>0, <1>1 DEF OrderInv, OrderIsReal, MatchedAlone, data, Go, TypeOK
  <1>2. CASE DeleteFound(p) /\ Go(p, "deleting", "idle") /\ found' = [found EXCEPT ![p] = {}]
    <2> DEFINE names == FoundNames(p)
    <2>1. names \subseteq regex[p] /\ regex[p] \in Regexes
      BY <1>2 DEF OrderInv, FoundNames, Go
    <2>2. /\ sections' = [n \in Names |-> IF n \in names THEN <<>> ELSE sections[n]]
          /\ orderedSections' = RangeDelete(orderedSections, regex[p]).slice
      BY <1>2 DEF DeleteFound
    <2>3. orderedSections \in Seq(Names) /\ orderedSections' \in Seq(Names)
      BY <1>0, <2>2, RangeDeleteTyped DEF TypeOK
    <2> HIDE DEF names
    <2>5. OrderIsReal'
      <3>0. ToSet(orderedSections') \subseteq Names
        BY <2>3, ToSetTyped
      <3>1. ASSUME NEW n \in ToSet(orderedSections'), MatchedAlone(n)
            PROVE  sections'[n] # <<>> /\ AtMostOnce(orderedSections', n)
        <4>1. n \in ToSet(orderedSections) =>
                sections[n] # <<>> /\ AtMostOnce(orderedSections, n)
          BY <2>3, <3>1, NamedOnce DEF OrderInv, OrderIsReal
        <4>2. AtMostOnce(orderedSections, n)
          <5>1. CASE n \notin ToSet(orderedSections)
            BY <2>3, <5>1 DEF AtMostOnce, ToSet
          <5> QED
            BY <4>1, <5>1
        <4>3. n \notin regex[p]
          <5>1. ASSUME n \in regex[p] PROVE FALSE
            <6>1. regex[p] = {n}
              BY <2>1, <3>1, <5>1 DEF MatchedAlone
            <6>2. n \notin ToSet(RangeDelete(orderedSections, {n}).slice)
              BY <2>3, <4>2, DeletedIsGone
            <6> QED
              BY <2>2, <3>1, <6>1, <6>2
          <5> QED
            BY <5>1
        <4>4. AtMostOnce(orderedSections', n) /\ n \in ToSet(orderedSections)
          BY <2>2, <2>3, <3>1, <4>2, <4>3, RangeDeleteRest
        <4>5. sections'[n] = sections[n]
          BY <2>1, <2>2, <3>0, <3>1, <4>3
        <4> QED
          BY <4>1, <4>4, <4>5
      <3>2. ASSUME NEW n \in ToSet(orderedSections'), MatchedAlone(n)
            PROVE  \A i, j \in DOMAIN orderedSections' :
                     orderedSections'[i] = n /\ orderedSections'[j] = n => i = j
        BY <2>3, <3>1, <3>2, NamedOnce
      <3> QED
        BY <3>1, <3>2 DEF OrderIsReal, MatchedAlone
    <2>6. \A n \in Names : \A i \in ToSet(sections'[n]) : i \in 1 .. Len(fqn) /\ fqn[i] = n
      <3>1. \A n \in Names : sections'[n] = <<>> \/ sections'[n] = sections[n]
        BY <2>2
      <3>2. ToSet(<<>>) = {}
        BY DEF ToSet
      <3> QED
        BY <3>1, <3>2 DEF OrderInv
    <2> QED
      BY <1>0, <1>2, <2>5, <2>6 DEF OrderInv, Go, TypeOK
  <1> QED
    BY <1>1, <1>2 DEF Delete

LEMMA NextOrderInv == ConfigInv /\ OrderInv /\ [Next]_vars => OrderInv'
  <1> SUFFICES ASSUME ConfigInv, OrderInv, [Next]_vars PROVE OrderInv'
    OBVIOUS
  <1>0. pc \in [Procs -> Places] /\ regex \in [Procs -> SUBSET Names]
    BY DEF ConfigInv, TypeOK
  <1>1. ASSUME NEW p \in Procs, Begin(p) PROVE OrderInv'
    <2>1. UNCHANGED <<data, found>>
      BY <1>1 DEF Begin
    <2>2. \A q \in Procs : pc'[q] \in {"delete", "deleting"} => pc[q] = pc'[q] /\ regex'[q] = regex[q]
      BY <1>0, <1>1 DEF Begin, Starts
    <2>3. \A q \in Procs : pc'[q] \in {"find", "finding", "delete", "deleting"} => regex'[q] \in Regexes
      BY <1>0, <1>1 DEF Begin, Starts, OrderInv
    <2> QED
      BY <2>1, <2>2, <2>3 DEF OrderInv, OrderIsReal, data
  <1>2. ASSUME NEW p \in Procs, Look(p) \/ PrintSection(p) \/ SetFilePath(p) \/ Save(p)
        PROVE  OrderInv'
    <2>1. UNCHANGED <<data, regex, found>>
      BY <1>2 DEF Look, PrintSection, SetFilePath, Save, local
    <2>2. \A q \in Procs : pc'[q] \in {"find", "finding", "delete", "deleting"} => pc[q] = pc'[q]
      BY <1>0, <1>2 DEF Look, PrintSection, SetFilePath, Save, Open, Flush, Go
    <2> QED
      BY <2>1, <2>2 DEF OrderInv, OrderIsReal, data
  <1>3. CASE UNCHANGED vars
    BY <1>3 DEF vars, data, local, OrderInv, OrderIsReal
  <1> QED
    BY <1>1, <1>2, <1>3, FindOrderInv, DeleteOrderInv, NewSectionOrderInv DEF Next, Operation

\* Whatever regexes Delete is called with, and whatever NewSection or Delete comes
\* between the Find and the Lock of a Delete: a name that none of them matches
\* together with another is listed only while it has a section, and once.
THEOREM ConfigOrderIsReal == Spec => []OrderIsReal
  <1>1. OrderInv => OrderIsReal
    BY DEF OrderInv
  <1> QED
    BY <1>1, InitOrderInv, NextOrderInv, SpecConfigInv, PTL DEF Spec, SafeSpec

\* For every regex, those that match several names included, and whatever has
\* changed between the Find and the Lock of a Delete: the list keeps every name the
\* regex does not match, in its place among the others, and the loop goes out of
\* bounds if and only if the regex matches the last name and one before it.
THEOREM ConfigDeleteKeepsNames == Spec => DeleteKeepsNames
  <1>1. ASSUME ConfigInv, NEW p \in Procs, DeleteFound(p)
        PROVE  /\ Others(orderedSections', regex[p]) = Others(orderedSections, regex[p])
               /\ panicked' <=> Overruns(orderedSections, regex[p])
    <2>1. /\ orderedSections \in Seq(Names)
          /\ orderedSections' = RangeDelete(orderedSections, regex[p]).slice
          /\ panicked' = RangeDelete(orderedSections, regex[p]).panic
      BY <1>1 DEF DeleteFound, ConfigInv, TypeOK
    <2> QED
      BY <2>1, RangeDeleteOthers, RangeDeletePanic
  <1>2. ConfigInv => [ \A p \in Procs : DeleteFound(p) =>
            /\ Others(orderedSections', regex[p]) = Others(orderedSections, regex[p])
            /\ panicked' <=> Overruns(orderedSections, regex[p]) ]_vars
    BY <1>1
  <1> QED
    BY <1>2, SpecConfigInv, PTL DEF DeleteKeepsNames

-----------------------------------------------------------------------------
(***************************************************************************)
(* Section: the options and their order.                                   *)
(***************************************************************************)
\* Cardinality speaks of the places of a name as AtMostOnce does.
LEMMA OncePlace ==
  ASSUME NEW S, NEW s \in Seq(S), NEW o
  PROVE  /\ IsFiniteSet(PlacesOf(s, o)) /\ Cardinality(PlacesOf(s, o)) \in Nat
         /\ Cardinality(PlacesOf(s, o)) <= 1 <=> AtMostOnce(s, o)
  <1> DEFINE P == PlacesOf(s, o)
  <1>1. P = {i \in 1 .. Len(s) : s[i] = o} /\ Len(s) \in Nat
    BY DEF PlacesOf
  <1>2. IsFiniteSet(P) /\ Cardinality(P) \in Nat
    <2>1. IsFiniteSet(1 .. Len(s)) /\ P \subseteq 1 .. Len(s)
      BY <1>1, FS_Interval
    <2> HIDE DEF P
    <2> QED
      BY <2>1, FS_Subset, FS_CardinalityType
  <1> HIDE DEF P
  <1>3. ASSUME Cardinality(P) <= 1, NEW i \in 1 .. Len(s), NEW j \in 1 .. Len(s),
               s[i] = o, s[j] = o, i # j
        PROVE  FALSE
    <2>1. {i, j} \subseteq P
      BY <1>1, <1>3
    <2>2. Cardinality({i, j}) = 2
      <3>1. IsFiniteSet({i}) /\ Cardinality({i}) = 1
        BY FS_Singleton
      <3>2. Cardinality({i} \cup {j}) = Cardinality({i}) + 1
        BY <1>3, <3>1, FS_AddElement
      <3>3. {i} \cup {j} = {i, j}
        OBVIOUS
      <3>4. Cardinality({i, j}) = 1 + 1
        BY <3>1, <3>2, <3>3, Zenon
      <3> QED
        BY <3>4
    <2>3. Cardinality({i, j}) <= Cardinality(P)
      BY <1>2, <2>1, FS_Subset
    <2> QED
      BY <1>2, <1>3, <2>2, <2>3
  <1>4. ASSUME AtMostOnce(s, o) PROVE Cardinality(P) <= 1
    <2>1. CASE P = {}
      BY <2>1, FS_EmptySet
    <2>2. CASE P # {}
      <3>1. PICK i \in P : TRUE
        BY <2>2
      <3>2. P = {i}
        BY <1>1, <1>4, <3>1 DEF AtMostOnce
      <3>3. Cardinality({i}) = 1
        BY FS_Singleton
      <3>4. Cardinality(P) = 1
        BY <3>2, <3>3, Zenon
      <3> QED
        BY <3>4
    <2> QED
      BY <2>1, <2>2
  <1> QED
    BY <1>2, <1>3, <1>4 DEF AtMostOnce, P

-----------------------------------------------------------------------------
(* Words: what parseOption makes of the lines that String writes.          *)

LEMMA WordFacts ==
  ASSUME NEW w \in Words
  PROVE  /\ Len(w) \in Nat /\ DOMAIN w = 1 .. Len(w)
         /\ w = Empty <=> Len(w) = 0
         /\ \A i \in 1 .. Len(w) : w[i] \in Chars
  BY LenProperties, ElementOfSeq, EmptySeq DEF Words, Empty

LEMMA PartFacts ==
  ASSUME NEW w \in Words, NEW m \in 1 .. Len(w) + 1, NEW n \in 0 .. Len(w)
  PROVE  /\ SubSeq(w, m, n) \in Words
         /\ Len(SubSeq(w, m, n)) = IF m <= n THEN n - m + 1 ELSE 0
         /\ \A i \in 1 .. n - m + 1 : SubSeq(w, m, n)[i] = w[m + i - 1]
  <1>1. Len(w) \in Nat /\ m \in Int /\ n \in Int /\ \A i \in m .. n : w[i] \in Chars
    BY WordFacts
  <1> QED
    BY <1>1, SubSeqProperties DEF Words

LEMMA IndexFacts ==
  ASSUME NEW w \in Words, NEW ch
  PROVE  /\ Has(w, ch) => /\ Index(w, ch) \in 1 .. Len(w) /\ w[Index(w, ch)] = ch
                          /\ \A j \in 1 .. Index(w, ch) - 1 : w[j] # ch
         /\ ~ Has(w, ch) => Index(w, ch) = 0
  <1>1. CASE Has(w, ch)
    <2> DEFINE T == {i \in 1 .. Len(w) : w[i] = ch}
               first(i) == w[i] = ch /\ \A j \in 1 .. i - 1 : w[j] # ch
    <2>1. Len(w) \in Nat /\ DOMAIN w = 1 .. Len(w)
      BY WordFacts
    <2>2. T \in SUBSET Nat /\ T # {}
      BY <1>1, <2>1 DEF Has
    <2>3. PICK m \in T : \A k \in T : m <= k
      <3> HIDE DEF T
      <3> QED
        BY <2>2, LeastNumber
    <2>4. m \in DOMAIN w /\ first(m)
      BY <2>1, <2>3
    <2>5. Index(w, ch) = CHOOSE i \in DOMAIN w : first(i)
      BY <1>1 DEF Index
    <2>6. Index(w, ch) \in DOMAIN w /\ first(Index(w, ch))
      <3> HIDE DEF first
      <3> QED
        BY <2>4, <2>5
    <2> QED
      BY <1>1, <2>1, <2>6
  <1>2. CASE ~ Has(w, ch)
    BY <1>2 DEF Index
  <1> QED
    BY <1>1, <1>2

LEMMA TrimFacts ==
  ASSUME NEW w \in Words
  PROVE  Trim(w) \in Words /\ Len(Trim(w)) <= Len(w)
  <1>1. Len(w) \in Nat /\ DOMAIN w = 1 .. Len(w)
    BY WordFacts
  <1>2. CASE Solid(w) = {}
    BY <1>1, <1>2, EmptySeq DEF Trim, Empty, Words
  <1>3. CASE Solid(w) # {}
    <2>1. Solid(w) \in SUBSET (0 .. Len(w)) /\ Solid(w) \in SUBSET (1 .. Len(w))
      <3>1. Solid(w) \subseteq DOMAIN w
        BY DEF Solid
      <3>2. 1 .. Len(w) \subseteq 0 .. Len(w)
        BY <1>1
      <3> QED
        BY <1>1, <3>1, <3>2
    <2>2. Max(Solid(w)) \in 1 .. Len(w)
      BY <1>1, <1>3, <2>1, GreatestNumber
    <2>3. Min(Solid(w)) \in 1 .. Len(w)
      <3>1. Solid(w) \in SUBSET Nat
        BY <2>1
      <3>2. PICK m \in Solid(w) : \A k \in Solid(w) : m <= k
        BY <1>3, <3>1, LeastNumber
      <3>3. Min(Solid(w)) \in Solid(w)
        BY <3>2 DEF Min
      <3> QED
        BY <2>1, <3>3
    <2>4. Trim(w) = SubSeq(w, Min(Solid(w)), Max(Solid(w)))
      BY <1>3 DEF Trim
    <2>5. Min(Solid(w)) \in 1 .. Len(w) + 1 /\ Max(Solid(w)) \in 0 .. Len(w)
      BY <1>1, <2>2, <2>3
    <2>6. /\ Trim(w) \in Words
          /\ Len(Trim(w)) = IF Min(Solid(w)) <= Max(Solid(w)) THEN Max(Solid(w)) - Min(Solid(w)) + 1 ELSE 0
      BY <2>4, <2>5, PartFacts
    <2> QED
      BY <1>1, <2>2, <2>3, <2>6
  <1> QED
    BY <1>2, <1>3

LEMMA ParseTyped ==
  ASSUME NEW line \in Words
  PROVE  parseOption(line).opt \in Words /\ parseOption(line).value \in Words
  <1> DEFINE i == IF Has(line, "=") THEN Index(line, "=") ELSE Index(line, ":")
  <1>0. Len(line) \in Nat
    BY WordFacts
  <1>1. i \in 0 .. Len(line)
    BY <1>0, IndexFacts
  <1> HIDE DEF i
  <1>2. parseOption(line) =
            IF i = 0 THEN [opt |-> line, value |-> Empty]
            ELSE [opt |-> Trim(SubSeq(line, 1, i - 1)), value |-> Trim(SubSeq(line, i + 1, Len(line)))]
    BY DEF parseOption, i
  <1>3. CASE i = 0
    BY <1>2, <1>3, EmptySeq DEF Empty, Words
  <1>4. CASE i # 0
    <2>1. /\ 1 \in 1 .. Len(line) + 1 /\ i - 1 \in 0 .. Len(line)
          /\ i + 1 \in 1 .. Len(line) + 1 /\ Len(line) \in 0 .. Len(line)
      BY <1>0, <1>1, <1>4
    <2>2. SubSeq(line, 1, i - 1) \in Words /\ SubSeq(line, i + 1, Len(line)) \in Words
      BY <2>1, PartFacts
    <2> QED
      BY <1>2, <1>4, <2>2, TrimFacts
  <1> QED
    BY <1>3, <1>4

\* The line of an option that has a value: it has a '=' after the name.
LEMMA LineFacts ==
  ASSUME NEW o \in Words, NEW v \in Words
  PROVE  LET w == o \o <<"=">> \o v IN
         /\ w \in Words /\ Len(w) = Len(o) + 1 + Len(v)
         /\ \A i \in 1 .. Len(o) : w[i] = o[i]
         /\ w[Len(o) + 1] = "="
         /\ SubSeq(w, 1, Len(o)) = o
         /\ SubSeq(w, Len(o) + 2, Len(w)) = v
  <1> DEFINE e == <<"=">>
             l == o \o e
             w == l \o v
  <1>1. e \in Words /\ Len(e) = 1 /\ e[1] = "="
    <2> DEFINE c == "="
    <2>1. c \in Chars
      BY CharsAssumption
    <2> HIDE DEF c
    <2>2. <<c>> \in Seq(Chars) /\ Len(<<c>>) = 1 /\ <<c>>[1] = c
      BY <2>1
    <2> QED
      BY <2>2 DEF Words, c
  <1> HIDE DEF e
  <1>2. Len(o) \in Nat /\ Len(v) \in Nat
    BY WordFacts
  <1>3. /\ l \in Words /\ Len(l) = Len(o) + 1
        /\ \A i \in 1 .. Len(o) + 1 : l[i] = IF i <= Len(o) THEN o[i] ELSE e[i - Len(o)]
    <2>1. /\ l \in Words /\ Len(l) = Len(o) + Len(e)
          /\ \A i \in 1 .. Len(o) + Len(e) : l[i] = IF i <= Len(o) THEN o[i] ELSE e[i - Len(o)]
      BY <1>1, ConcatProperties, Zenon DEF Words
    <2> QED
      BY <1>1, <2>1, Zenon
  <1> HIDE DEF l
  <1>4. /\ w \in Words /\ Len(w) = Len(o) + 1 + Len(v)
        /\ \A i \in 1 .. Len(o) + 1 + Len(v) : w[i] = IF i <= Len(o) + 1 THEN l[i] ELSE v[i - (Len(o) + 1)]
    <2>1. /\ w \in Words /\ Len(w) = Len(l) + Len(v)
          /\ \A i \in 1 .. Len(l) + Len(v) : w[i] = IF i <= Len(l) THEN l[i] ELSE v[i - Len(l)]
      BY <1>3, ConcatProperties, Zenon DEF Words
    <2> QED
      BY <1>3, <2>1, Zenon
  <1> HIDE DEF w
  <1>5. \A i \in 1 .. Len(o) : w[i] = o[i]
    BY <1>2, <1>3, <1>4
  <1>6. w[Len(o) + 1] = "="
    <2>1. Len(o) + 1 \in 1 .. Len(o) + 1 /\ Len(o) + 1 \in 1 .. Len(o) + 1 + Len(v)
      BY <1>2
    <2>2. w[Len(o) + 1] = l[Len(o) + 1] /\ l[Len(o) + 1] = e[(Len(o) + 1) - Len(o)]
      BY <1>2, <1>3, <1>4, <2>1
    <2>3. (Len(o) + 1) - Len(o) = 1
      BY <1>2
    <2> QED
      BY <1>1, <2>2, <2>3
  <1>7. SubSeq(w, 1, Len(o)) = o
    <2>1. 1 \in 1 .. Len(w) + 1 /\ Len(o) \in 0 .. Len(w)
      BY <1>2, <1>4
    <2>2. /\ SubSeq(w, 1, Len(o)) \in Words /\ Len(SubSeq(w, 1, Len(o))) = Len(o)
          /\ \A i \in 1 .. Len(o) : SubSeq(w, 1, Len(o))[i] = w[i]
      <3>1. /\ SubSeq(w, 1, Len(o)) \in Words
            /\ Len(SubSeq(w, 1, Len(o))) = IF 1 <= Len(o) THEN Len(o) - 1 + 1 ELSE 0
            /\ \A i \in 1 .. Len(o) - 1 + 1 : SubSeq(w, 1, Len(o))[i] = w[1 + i - 1]
        BY <1>4, <2>1, PartFacts
      <3> QED
        BY <1>2, <3>1
    <2> QED
      BY <1>5, <2>2, SeqEqual DEF Words
  <1>8. SubSeq(w, Len(o) + 2, Len(w)) = v
    <2>1. Len(o) + 2 \in 1 .. Len(w) + 1 /\ Len(w) \in 0 .. Len(w)
      BY <1>2, <1>4
    <2> DEFINE t == SubSeq(w, Len(o) + 2, Len(w))
    <2>2. /\ t \in Words
          /\ Len(t) = IF Len(o) + 2 <= Len(w) THEN Len(w) - (Len(o) + 2) + 1 ELSE 0
          /\ \A i \in 1 .. Len(w) - (Len(o) + 2) + 1 : t[i] = w[(Len(o) + 2) + i - 1]
      BY <1>4, <2>1, PartFacts
    <2> HIDE DEF t
    <2>3. Len(t) = Len(v)
      BY <1>2, <1>4, <2>2
    <2>4. \A i \in 1 .. Len(v) : t[i] = v[i]
      <3> TAKE i \in 1 .. Len(v)
      <3>1. i \in 1 .. Len(w) - (Len(o) + 2) + 1 /\ (Len(o) + 2) + i - 1 \in 1 .. Len(o) + 1 + Len(v)
        BY <1>2, <1>4
      <3>2. ~ ((Len(o) + 2) + i - 1 <= Len(o) + 1) /\ (Len(o) + 2) + i - 1 - (Len(o) + 1) = i
        BY <1>2
      <3>3. w[(Len(o) + 2) + i - 1] = v[(Len(o) + 2) + i - 1 - (Len(o) + 1)]
        BY <1>4, <3>1, <3>2
      <3> QED
        BY <2>2, <3>1, <3>2, <3>3
    <2> QED
      BY <2>2, <2>3, <2>4, SeqEqual DEF t, Words
  <1> QED
    BY <1>4, <1>5, <1>6, <1>7, <1>8 DEF w, l, e

\* What a line with a separator is read as.
LEMMA SplitFacts ==
  ASSUME NEW w \in Words, NEW i \in 1 .. Len(w),
         i = IF Has(w, "=") THEN Index(w, "=") ELSE Index(w, ":")
  PROVE  /\ parseOption(w) = [opt |-> Trim(SubSeq(w, 1, i - 1)), value |-> Trim(SubSeq(w, i + 1, Len(w)))]
         /\ Len(parseOption(w).opt) < i
  <1>1. Len(w) \in Nat
    BY WordFacts
  <1>2. parseOption(w) = [opt |-> Trim(SubSeq(w, 1, i - 1)), value |-> Trim(SubSeq(w, i + 1, Len(w)))]
    BY <1>1 DEF parseOption
  <1>3. 1 \in 1 .. Len(w) + 1 /\ i - 1 \in 0 .. Len(w)
    BY <1>1
  <1>4. /\ SubSeq(w, 1, i - 1) \in Words
        /\ Len(SubSeq(w, 1, i - 1)) = IF 1 <= i - 1 THEN i - 1 - 1 + 1 ELSE 0
    BY <1>3, PartFacts
  <1>5. Len(SubSeq(w, 1, i - 1)) = i - 1
    BY <1>1, <1>4
  <1>6. Trim(SubSeq(w, 1, i - 1)) \in Words /\ Len(Trim(SubSeq(w, 1, i - 1))) <= i - 1
    BY <1>4, <1>5, TrimFacts
  <1>7. Len(Trim(SubSeq(w, 1, i - 1))) \in Nat
    BY <1>6, WordFacts
  <1> QED
    BY <1>2, <1>6, <1>7

\* Plain says exactly which options addOption reads from their own line as they
\* were: for every name and value over any alphabet, a line of String that is taken
\* for an option at all gives parseOption the name and the value it was made of.
THEOREM PlainReadsBack ==
  ASSUME NEW o \in Words, NEW v \in Words
  PROVE  Plain(o, v) <=> IsOption(Line(o, v)) /\ parseOption(Line(o, v)) = [opt |-> o, value |-> v]
  <1>0. /\ Len(o) \in Nat /\ DOMAIN o = 1 .. Len(o) /\ (o = Empty <=> Len(o) = 0)
        /\ Len(v) \in Nat /\ (v = Empty <=> Len(v) = 0)
    BY WordFacts
  <1>1. CASE v = Empty
    <2>1. Line(o, v) = o
      BY <1>1 DEF Line
    <2>2. CASE Has(o, "=") \/ Has(o, ":")
      <3> DEFINE i == IF Has(o, "=") THEN Index(o, "=") ELSE Index(o, ":")
      <3>1. i \in 1 .. Len(o)
        BY <2>2, IndexFacts
      <3>2. Len(parseOption(o).opt) < i
        BY <3>1, SplitFacts
      <3>3. parseOption(o).opt # o
        <4> HIDE DEF i
        <4> QED
          BY <1>0, <3>1, <3>2
      <3>4. parseOption(o) # [opt |-> o, value |-> v]
        BY <3>3
      <3>5. ~ Plain(o, v)
        BY <1>1, <2>2 DEF Plain
      <3> QED
        BY <2>1, <3>4, <3>5
    <2>3. CASE ~ Has(o, "=") /\ ~ Has(o, ":")
      <3>1. Index(o, ":") = 0
        BY <2>3, IndexFacts
      <3>2. parseOption(o) = [opt |-> o, value |-> v]
        BY <1>1, <2>3, <3>1 DEF parseOption
      <3>3. Plain(o, v) <=> o # Empty /\ o[1] \notin {"#", ";", "["}
        BY <1>1, <2>3 DEF Plain
      <3> QED
        BY <2>1, <3>2, <3>3 DEF IsOption, Empty
    <2> QED
      BY <2>2, <2>3
  <1>2. CASE v # Empty
    <2> DEFINE w == o \o <<"=">> \o v
               i == Index(w, "=")
    <2>1. Line(o, v) = w
      BY <1>2 DEF Line
    <2>2. /\ w \in Words /\ Len(w) = Len(o) + 1 + Len(v)
          /\ \A k \in 1 .. Len(o) : w[k] = o[k]
          /\ w[Len(o) + 1] = "="
          /\ SubSeq(w, 1, Len(o)) = o
          /\ SubSeq(w, Len(o) + 2, Len(w)) = v
      BY LineFacts
    <2> HIDE DEF w
    <2>3. DOMAIN w = 1 .. Len(w) /\ Len(o) + 1 \in 1 .. Len(w)
      BY <1>0, <2>2, WordFacts
    <2>4. Has(w, "=")
      BY <2>2, <2>3 DEF Has
    <2>5. /\ i \in 1 .. Len(w) /\ w[i] = "="
          /\ \A j \in 1 .. i - 1 : w[j] # "="
      BY <2>2, <2>4, IndexFacts
    <2> HIDE DEF i
    <2>6. i <= Len(o) + 1
      BY <1>0, <2>2, <2>3, <2>5
    <2>7. /\ parseOption(w) = [opt |-> Trim(SubSeq(w, 1, i - 1)), value |-> Trim(SubSeq(w, i + 1, Len(w)))]
          /\ Len(parseOption(w).opt) < i
      <3>1. i = IF Has(w, "=") THEN Index(w, "=") ELSE Index(w, ":")
        BY <2>4 DEF i
      <3> QED
        BY <2>2, <2>5, <3>1, SplitFacts
    <2>8. CASE Has(o, "=")
      <3>1. PICK k \in 1 .. Len(o) : o[k] = "="
        BY <1>0, <2>8 DEF Has
      <3>2. w[k] = "=" /\ k \in Nat /\ i \in Nat
        BY <2>2, <2>5, <3>1
      <3>3. i <= k
        BY <2>5, <3>1, <3>2
      <3>4. parseOption(w).opt # o
        BY <1>0, <2>7, <3>1, <3>2, <3>3
      <3>5. parseOption(w) # [opt |-> o, value |-> v]
        BY <3>4
      <3> QED
        BY <2>1, <2>8, <3>5 DEF Plain
    <2>9. CASE ~ Has(o, "=")
      <3>1. i = Len(o) + 1
        <4>1. ASSUME i <= Len(o) PROVE FALSE
          <5>1. i \in 1 .. Len(o)
            BY <1>0, <2>5, <4>1
          <5> QED
            BY <1>0, <2>2, <2>5, <2>9, <5>1 DEF Has
        <4> QED
          BY <1>0, <2>5, <2>6, <4>1
      <3>2. i - 1 = Len(o) /\ i + 1 = Len(o) + 2
        BY <1>0, <3>1
      <3>3. parseOption(w) = [opt |-> Trim(o), value |-> Trim(v)]
        BY <2>2, <2>7, <3>2
      <3>4. parseOption(w) = [opt |-> o, value |-> v] <=> Trim(o) = o /\ Trim(v) = v
        BY <3>3
      <3>5. IsOption(w) <=> (o # Empty => o[1] \notin {"#", ";", "["})
        <4>1. w # <<>>
          BY <2>2, <2>3, WordFacts DEF Empty
        <4>2. CASE o = Empty
          <5>1. w[1] = "="
            BY <1>0, <2>2, <4>2
          <5> QED
            BY <4>1, <4>2, <5>1 DEF IsOption
        <4>3. CASE o # Empty
          <5>1. w[1] = o[1]
            BY <1>0, <2>2, <4>3
          <5> QED
            BY <4>1, <4>3, <5>1 DEF IsOption
        <4> QED
          BY <4>2, <4>3
      <3> QED
        BY <1>2, <2>1, <2>9, <3>4, <3>5 DEF Plain
    <2> QED
      BY <2>8, <2>9
  <1> QED
    BY <1>1, <1>2

-----------------------------------------------------------------------------
\* The list is of words, and an option that was on one line of the file at
\* most is listed once at most, and only while the map has it.
SectionTypes ==
    /\ file \in Files
    /\ orderedOptions \in Seq(Words)
    /\ \A o \in DOMAIN options : options[o] \in Words
    /\ crashed \in BOOLEAN

ListedOnce(o) ==
    /\ AtMostOnce(orderedOptions, o)
    /\ o \in ToSet(orderedOptions) => o \in DOMAIN options

SectionInv ==
    /\ SectionTypes
    /\ \A o \in Words : AtMostOnce(ReadOrder(file), o) => ListedOnce(o)

\* All lines are the section's if each of them is an option's.
LEMMA OwnFacts ==
  ASSUME NEW f \in Seq(Words), \A i \in DOMAIN f : IsOption(f[i])
  PROVE  OwnPlaces(f) = 1 .. Len(f) /\ Len(f) \in Nat /\ DOMAIN f = 1 .. Len(f)
  <1>1. Len(f) \in Nat /\ DOMAIN f = 1 .. Len(f)
    BY LenProperties
  <1>2. \A i \in 1 .. Len(f) : \A j \in 1 .. i : j \in 1 .. Len(f)
    BY <1>1
  <1>3. \A i \in DOMAIN f : ~ IsSection(f[i])
    BY DEF IsOption, IsSection
  <1> QED
    BY <1>1, <1>2, <1>3 DEF OwnPlaces

\* The order of a file is a sequence of words.
LEMMA ReadOrderTyped ==
  ASSUME NEW f \in Seq(Words)
  PROVE  ReadOrder(f) \in Seq(Words) /\ Len(ReadOrder(f)) = Len(f)
  <1>1. Len(f) \in Nat /\ DOMAIN f = 1 .. Len(f)
    BY LenProperties
  <1>2. \A i \in 1 .. Len(f) : NameAt(f, i) \in Words
    <2>1. \A i \in 1 .. Len(f) : f[i] \in Words
      BY ElementOfSeq
    <2> QED
      BY <2>1, ParseTyped DEF NameAt
  <1>3. ReadOrder(f) = [i \in 1 .. Len(f) |-> NameAt(f, i)]
    BY <1>1, Zenon DEF ReadOrder
  <1> QED
    BY <1>1, <1>2, <1>3

\* The value of an option that is on some line of the file is that of its last.
LEMMA ReadValue ==
  ASSUME NEW f \in Seq(Words), \A i \in DOMAIN f : IsOption(f[i]), NEW o \in DOMAIN ReadOptions(f)
  PROVE  \E p \in 1 .. Len(f) : NameAt(f, p) = o /\ ReadOptions(f)[o] = parseOption(f[p]).value
  <1> DEFINE last(i) == NameAt(f, i) = o /\ \A j \in 1 .. Len(f) : j > i => NameAt(f, j) # o
             T == {i \in 1 .. Len(f) : NameAt(f, i) = o}
  <1>1. OwnPlaces(f) = 1 .. Len(f) /\ Len(f) \in Nat
    BY OwnFacts
  <1>2. DOMAIN ReadOptions(f) = {NameAt(f, i) : i \in 1 .. Len(f)}
    BY <1>1 DEF ReadOptions
  <1>3. ReadOptions(f)[o] = parseOption(f[CHOOSE i \in 1 .. Len(f) : last(i)]).value
    BY <1>1 DEF ReadOptions
  <1>4. T \in SUBSET (0 .. Len(f)) /\ T # {}
    BY <1>1, <1>2
  <1>5. Max(T) \in T /\ \A x \in T : Max(T) >= x
    <2> HIDE DEF T
    <2> QED
      BY <1>1, <1>4, GreatestNumber
  <1>6. Max(T) \in 1 .. Len(f) /\ last(Max(T))
    <2>1. Max(T) \in 1 .. Len(f) /\ NameAt(f, Max(T)) = o
      BY <1>5
    <2>2. ASSUME NEW j \in 1 .. Len(f), j > Max(T) PROVE NameAt(f, j) # o
      BY <1>1, <1>5, <2>1, <2>2
    <2> QED
      BY <2>1, <2>2
  <1> DEFINE p == CHOOSE i \in 1 .. Len(f) : last(i)
  <1>7. p \in 1 .. Len(f) /\ last(p)
    <2> HIDE DEF last
    <2> QED
      BY <1>6
  <1> QED
    BY <1>3, <1>7

LEMMA SectionInitInv == SectionInit => SectionInv
  <1> SUFFICES ASSUME SectionInit PROVE SectionInv
    OBVIOUS
  <1>1. file \in Seq(Words) /\ \A i \in DOMAIN file : IsOption(file[i])
    BY FilesAssumption DEF SectionInit
  <1>2. orderedOptions \in Seq(Words) /\ orderedOptions = ReadOrder(file)
    BY <1>1, ReadOrderTyped DEF SectionInit
  <1>3. ToSet(orderedOptions) = DOMAIN options
    <2>1. OwnPlaces(file) = DOMAIN file
      BY <1>1, OwnFacts
    <2> QED
      BY <2>1 DEF SectionInit, ReadOptions, ReadOrder, ToSet
  <1>4. ASSUME NEW o \in DOMAIN options PROVE options[o] \in Words
    <2>1. options = ReadOptions(file)
      BY DEF SectionInit
    <2>2. PICK p \in 1 .. Len(file) : options[o] = parseOption(file[p]).value
      BY <1>1, <1>4, <2>1, ReadValue
    <2>3. file[p] \in Words
      BY <1>1, ElementOfSeq
    <2> QED
      BY <2>2, <2>3, ParseTyped
  <1> QED
    BY <1>1, <1>2, <1>3, <1>4 DEF SectionInv, SectionTypes, SectionInit, ListedOnce

\* No operation lists a name twice that was there once, or leaves it listed when
\* the map has lost it.
LEMMA SectionNextInv == SectionInv /\ [SectionNext]_sectionVars => SectionInv'
  <1> SUFFICES ASSUME SectionInv, [SectionNext]_sectionVars PROVE SectionInv'
    OBVIOUS
  <1> USE DEF SectionInv
  <1>0. Opts \subseteq Words /\ Values \subseteq Words
    BY WordsAssumption
  <1>1. CASE UNCHANGED sectionVars
    BY <1>1 DEF SectionTypes, ListedOnce, sectionVars
  <1>2. ASSUME NEW o \in Opts, NEW v \in Values, SetValueFor(o, v) PROVE SectionInv'
    BY <1>0, <1>2 DEF SetValueFor, With, SectionTypes, ListedOnce
  <1>3. ASSUME NEW o \in Opts, NEW v \in Values, Add(o, v) PROVE SectionInv'
    <2>1. SectionTypes'
      <3>1. \A n \in DOMAIN options' : options'[n] \in Words
        BY <1>0, <1>3 DEF Add, With, SectionTypes
      <3>2. orderedOptions' \in Seq(Words)
        BY <1>0, <1>3 DEF Add, SectionTypes
      <3> QED
        BY <1>3, <3>1, <3>2 DEF Add, SectionTypes
    <2>2. ASSUME NEW n \in Words, AtMostOnce(ReadOrder(file), n) PROVE ListedOnce(n)'
      <3>1. ListedOnce(n) /\ DOMAIN options' = DOMAIN options \cup {o}
        BY <1>3, <2>2 DEF Add, With
      <3>2. CASE o \in DOMAIN options
        BY <1>3, <3>1, <3>2 DEF Add, ListedOnce
      <3>3. CASE o \notin DOMAIN options
        <4>1. orderedOptions \in Seq(Words) /\ orderedOptions' = Append(orderedOptions, o) /\ o \in Words
          BY <1>0, <1>3, <3>3 DEF Add, SectionTypes
        <4>2. /\ Len(orderedOptions) \in Nat /\ Len(orderedOptions') = Len(orderedOptions) + 1
              /\ \A i \in 1 .. Len(orderedOptions) : orderedOptions'[i] = orderedOptions[i]
              /\ orderedOptions'[Len(orderedOptions) + 1] = o
              /\ DOMAIN orderedOptions = 1 .. Len(orderedOptions)
              /\ DOMAIN orderedOptions' = 1 .. Len(orderedOptions) + 1
          BY <4>1
        <4>3. CASE n = o
          <5>1. \A i \in 1 .. Len(orderedOptions) : orderedOptions[i] # n
            BY <3>1, <3>3, <4>2, <4>3 DEF ListedOnce, ToSet
          <5> QED
            BY <3>1, <4>2, <4>3, <5>1 DEF ListedOnce, AtMostOnce
        <4>4. CASE n # o
          <5>1. \A i \in 1 .. Len(orderedOptions') : orderedOptions'[i] = n =>
                    i \in 1 .. Len(orderedOptions) /\ orderedOptions[i] = n
            BY <4>2, <4>4
          <5>2. n \in ToSet(orderedOptions') => n \in ToSet(orderedOptions)
            BY <4>2, <5>1 DEF ToSet
          <5>3. AtMostOnce(orderedOptions', n)
            BY <3>1, <5>1 DEF ListedOnce, AtMostOnce
          <5> QED
            BY <3>1, <5>2, <5>3 DEF ListedOnce
        <4> QED
          BY <4>3, <4>4
      <3> QED
        BY <3>2, <3>3
    <2>3. file' = file
      BY <1>3 DEF Add
    <2> QED
      BY <2>1, <2>2, <2>3
  <1>4. ASSUME NEW o \in Opts, DeleteOption(o) PROVE SectionInv'
    <2> DEFINE s == orderedOptions
    <2>1. /\ s \in Seq(Words) /\ s' = RangeDelete(s, {o}).slice
          /\ crashed' = RangeDelete(s, {o}).panic /\ file' = file /\ file \in Files
          /\ DOMAIN options' = DOMAIN options \ {o}
          /\ \A n \in DOMAIN options' : options'[n] \in Words
      BY <1>4 DEF DeleteOption, SectionTypes
    <2> HIDE DEF s
    <2>2. s' \in Seq(Words) /\ crashed' \in BOOLEAN
      BY <2>1, RangeDeleteTyped
    <2>3. ASSUME NEW n \in Words, AtMostOnce(ReadOrder(file), n) PROVE ListedOnce(n)'
      <3>1. AtMostOnce(s, n) /\ (n \in ToSet(s) => n \in DOMAIN options)
        BY <2>3 DEF ListedOnce, s
      <3>2. CASE n = o
        <4>1. n \notin ToSet(s')
          BY <2>1, <3>1, <3>2, DeletedIsGone
        <4>2. AtMostOnce(s', n)
          BY <2>2, <4>1 DEF AtMostOnce, ToSet
        <4> QED
          BY <4>1, <4>2 DEF ListedOnce, s
      <3>3. CASE n # o
        <4>1. AtMostOnce(s', n) /\ (n \in ToSet(s') => n \in ToSet(s))
          <5>1. n \notin {o}
            BY <3>3
          <5> QED
            BY <2>1, <3>1, <5>1, RangeDeleteRest
        <4> QED
          BY <2>1, <3>1, <3>3, <4>1 DEF ListedOnce, s
      <3> QED
        BY <3>2, <3>3
    <2> QED
      BY <2>1, <2>2, <2>3 DEF SectionTypes, s
  <1> QED
    BY <1>1, <1>2, <1>3, <1>4 DEF SectionNext

\* What the invariant says of the text: if all lines read back as they were
\* written, all of them are the section's, and the one line of an option listed
\* once has the value of the map.
LEMMA InvTextIsTrue == SectionInv => TextIsTrue
  <1> DEFINE s == orderedOptions
             N == Len(s)
  <1> SUFFICES ASSUME SectionInv, \A i \in DOMAIN s : Plain(s[i], ValueOf(s[i]))
               PROVE  /\ DOMAIN ReadOptions(Text) = ToSet(s)
                      /\ \A o \in ToSet(s) : Cardinality(PlacesOf(ReadOrder(file), o)) <= 1 =>
                            /\ Cardinality(PlacesOf(s, o)) <= 1
                            /\ o \in DOMAIN options /\ ReadOptions(Text)[o] = options[o]
    BY Zenon DEF TextIsTrue
  <1>0. /\ s \in Seq(Words) /\ N \in Nat /\ DOMAIN s = 1 .. N
        /\ \A i \in 1 .. N : s[i] \in Words
        /\ \A o \in DOMAIN options : options[o] \in Words
        /\ file \in Seq(Words)
    BY LenProperties, ElementOfSeq, FilesAssumption DEF SectionInv, SectionTypes
  <1>1. \A o : ValueOf(o) \in Words
    BY <1>0, EmptySeq DEF ValueOf, Empty, Words
  <1> HIDE DEF s, N
  <1>2. /\ DOMAIN Text = 1 .. N /\ Len(Text) = N
        /\ \A i \in 1 .. N : Text[i] = Line(s[i], ValueOf(s[i]))
    <2>1. Text = [i \in 1 .. N |-> Line(s[i], ValueOf(s[i]))]
      BY <1>0, Zenon DEF Text, s
    <2> QED
      BY <1>0, <2>1
  <1>3. \A i \in 1 .. N : /\ IsOption(Text[i]) /\ ~ IsSection(Text[i])
                          /\ NameAt(Text, i) = s[i] /\ parseOption(Text[i]).value = ValueOf(s[i])
    <2> SUFFICES ASSUME NEW i \in 1 .. N
                 PROVE  /\ IsOption(Text[i]) /\ ~ IsSection(Text[i])
                        /\ NameAt(Text, i) = s[i] /\ parseOption(Text[i]).value = ValueOf(s[i])
      OBVIOUS
    <2>1. Plain(s[i], ValueOf(s[i])) /\ s[i] \in Words /\ ValueOf(s[i]) \in Words
      BY <1>0, <1>1
    <2>2. IsOption(Text[i]) /\ parseOption(Text[i]) = [opt |-> s[i], value |-> ValueOf(s[i])]
      BY <1>2, <2>1, PlainReadsBack
    <2>3. ~ IsSection(Text[i])
      BY <2>2 DEF IsOption, IsSection
    <2>4. NameAt(Text, i) = s[i] /\ parseOption(Text[i]).value = ValueOf(s[i])
      BY <2>2 DEF NameAt
    <2> QED
      BY <2>2, <2>3, <2>4
  <1>4. OwnPlaces(Text) = 1 .. N
    <2>1. \A i \in 1 .. N : \A j \in 1 .. i : j \in 1 .. N
      BY <1>0
    <2> QED
      BY <1>2, <1>3, <2>1 DEF OwnPlaces
  <1>5. DOMAIN ReadOptions(Text) = {NameAt(Text, i) : i \in 1 .. N}
    BY <1>4 DEF ReadOptions
  <1>6. DOMAIN ReadOptions(Text) = ToSet(s)
    BY <1>0, <1>3, <1>5 DEF ToSet
  <1>7. ASSUME NEW o \in ToSet(s), Cardinality(PlacesOf(ReadOrder(file), o)) <= 1
        PROVE  /\ Cardinality(PlacesOf(s, o)) <= 1
               /\ o \in DOMAIN options /\ ReadOptions(Text)[o] = options[o]
    <2>1. PICK p \in 1 .. N : s[p] = o
      BY <1>0 DEF ToSet
    <2>2. o \in Words
      BY <1>0, <2>1
    <2>3. ListedOnce(o)
      <3>1. ReadOrder(file) \in Seq(Words)
        BY <1>0, ReadOrderTyped
      <3>2. AtMostOnce(ReadOrder(file), o)
        BY <1>7, <3>1, OncePlace
      <3> QED
        BY <2>2, <3>2 DEF SectionInv
    <2>4. AtMostOnce(s, o) /\ o \in DOMAIN options
      BY <1>7, <2>3 DEF ListedOnce, s
    <2>5. Cardinality(PlacesOf(s, o)) <= 1
      BY <1>0, <2>4, OncePlace
    <2> DEFINE last(i) == NameAt(Text, i) = o /\ \A j \in 1 .. N : j > i => NameAt(Text, j) # o
    <2>6. ReadOptions(Text)[o] = parseOption(Text[CHOOSE i \in 1 .. N : last(i)]).value
      <3>1. o \in {NameAt(Text, i) : i \in OwnPlaces(Text)}
        BY <1>4, <1>5, <1>6, <1>7
      <3> QED
        BY <1>4, <3>1 DEF ReadOptions
    <2>7. \A i \in 1 .. N : s[i] = o => i = p
      BY <2>1, <2>4 DEF AtMostOnce, N
    <2>8. last(p)
      BY <1>0, <1>3, <2>1, <2>7
    <2>9. \A i \in 1 .. N : last(i) => i = p
      BY <1>3, <2>7
    <2>10. (CHOOSE i \in 1 .. N : last(i)) = p
      <3> HIDE DEF last
      <3> QED
        BY <2>8, <2>9
    <2>11. parseOption(Text[p]).value = options[o]
      BY <1>3, <2>1, <2>4 DEF ValueOf
    <2> HIDE DEF last
    <2> QED
      BY <2>4, <2>5, <2>6, <2>10, <2>11
  <1> QED
    BY <1>6, <1>7

\* For every file and any sequence of Add, SetValueFor and Delete, over any
\* alphabet: as long as what is listed is plain, String's text read back has the
\* listed options, and one that the file did not repeat has the value of the map,
\* and does not come back once deleted.
THEOREM SectionTextIsTrue == SectionSpec => []TextIsTrue
  <1>1. SectionSpec => []SectionInv
    BY SectionInitInv, SectionNextInv, PTL DEF SectionSpec
  <1> QED
    BY <1>1, InvTextIsTrue, PTL

-----------------------------------------------------------------------------
\* The step of Delete, by what its loop does.
LEMMA InvDeleteKeepsOthers ==
  ASSUME SectionInv
  PROVE  \A o \in Opts : DeleteOption(o) =>
           /\ Others(orderedOptions', {o}) = Others(orderedOptions, {o})
           /\ crashed' <=> Overruns(orderedOptions, {o})
  <1> SUFFICES ASSUME NEW o \in Opts, DeleteOption(o)
               PROVE  /\ Others(orderedOptions', {o}) = Others(orderedOptions, {o})
                      /\ crashed' <=> Overruns(orderedOptions, {o})
    OBVIOUS
  <1>1. /\ orderedOptions \in Seq(Words)
        /\ orderedOptions' = RangeDelete(orderedOptions, {o}).slice
        /\ crashed' = RangeDelete(orderedOptions, {o}).panic
    BY DEF DeleteOption, SectionInv, SectionTypes
  <1> QED
    BY <1>1, RangeDeleteOthers, RangeDeletePanic

\* Delete loses no other option from orderedOptions and keeps their order, even
\* when options are repeated, and its loop goes out of bounds exactly for an option
\* that is last in the list and also before.
THEOREM SectionDeleteKeepsOthers == SectionSpec => DeleteKeepsOthers
  <1>1. SectionSpec => []SectionInv
    BY SectionInitInv, SectionNextInv, PTL DEF SectionSpec
  <1>2. SectionInv /\ [SectionNext]_sectionVars =>
          [ \A o \in Opts : DeleteOption(o) =>
              /\ Others(orderedOptions', {o}) = Others(orderedOptions, {o})
              /\ crashed' <=> Overruns(orderedOptions, {o}) ]_sectionVars
    BY InvDeleteKeepsOthers
  <1> QED
    BY <1>1, <1>2, PTL DEF SectionSpec, DeleteKeepsOthers

-----------------------------------------------------------------------------
(***************************************************************************)
(* RollingLog: the rotation of the log files.                              *)
(***************************************************************************)
\* Both kinds of names, numbers and days, are among Backups.
LEMMA BackupNames ==
         \E b \in Nat : Backups = 1 .. b /\ maxFileCount <= b /\ MaxDays <= b
  <1> DEFINE T == {maxFileCount, MaxDays}
  <1>0. maxFileCount \in Nat /\ MaxDays \in Nat /\ maxFileCount > 1
    BY SizesAssumption, BoundsAssumption
  <1>1. T \in SUBSET (0 .. maxFileCount + MaxDays) /\ T # {}
    BY <1>0
  <1>2. Max(T) \in T /\ \A x \in T : Max(T) >= x
    <2> HIDE DEF T
    <2> QED
      BY <1>0, <1>1, GreatestNumber
  <1>3. Max(T) \in Nat /\ maxFileCount <= Max(T) /\ MaxDays <= Max(T)
    BY <1>0, <1>2
  <1> QED
    BY <1>3 DEF Backups

\* The suffix that SetRollingFile starts from is 0 or the number of a backup.
LEMMA StartSuffixTyped == StartSuffix \in 0 .. maxFileCount
  <1> DEFINE T == {0} \cup {i \in 1 .. maxFileCount : \A j \in 1 .. i : ifExistFile(j)}
  <1>0. maxFileCount \in Nat \ {0, 1}
    BY SizesAssumption
  <1>1. T \in SUBSET (0 .. maxFileCount) /\ T # {}
    BY <1>0
  <1>2. Max(T) \in T
    <2> HIDE DEF T
    <2> QED
      BY <1>0, <1>1, GreatestNumber
  <1> QED
    BY <1>1, <1>2 DEF StartSuffix

\* The suffixes go round: 0 is before the first, as the last is.
LEMMA NextSuffixFacts ==
         \A k \in 0 .. maxFileCount :
            /\ nextSuffix(k) \in 1 .. maxFileCount
            /\ nextSuffix(k) = IF k = maxFileCount THEN 1 ELSE k + 1
  <1>0. maxFileCount \in Nat \ {0, 1}
    BY SizesAssumption
  <1>1. ASSUME NEW k \in 0 .. maxFileCount
        PROVE  k % maxFileCount = IF k = maxFileCount THEN 0 ELSE k
    BY <1>0
  <1> QED
    BY <1>0, <1>1 DEF nextSuffix

\* The first of the lines in a file, or the next one.
LEMMA FirstLine ==
  ASSUME NEW n \in Nat, NEW m \in SUBSET Nat
  PROVE  LET T == (m \ NoFile) \cup {n + 1}
         IN  Min(T) \in T /\ Min(T) \in 1 .. n + 1 /\ \A x \in T : Min(T) <= x
  <1> DEFINE T == (m \ NoFile) \cup {n + 1}
  <1>1. T \in SUBSET (Nat \ {0}) /\ T \in SUBSET Nat /\ T # {} /\ n + 1 \in T
    BY DEF NoFile
  <1>2. \E y \in T : \A x \in T : y <= x
    <2> HIDE DEF T
    <2> QED
      BY <1>1, LeastNumber
  <1>3. Min(T) \in T /\ \A x \in T : Min(T) <= x
    <2> HIDE DEF T
    <2> QED
      BY <1>2 DEF Min
  <1>4. Min(T) \in Nat \ {0} /\ Min(T) <= n + 1
    <2> HIDE DEF T
    <2> QED
      BY <1>1, <1>3
  <1> QED
    BY <1>3, <1>4

-----------------------------------------------------------------------------
\* Rotation by size, of the file m and the backups o, with the suffix k, when n
\* lines were logged.  Nth is the name of the i-th newest backup, and f says from
\* which line on each goes: f[0] the file being written, f[i] the i-th newest
\* backup.  A backup of an earlier program has only lines before s.
Nth(k, i) == IF i <= k THEN k + 1 - i ELSE k + 1 - i + maxFileCount

From(m, o, k, s, n, f) ==
    /\ m \ NoFile = f[0] .. n /\ f[0] <= n + 1 /\ s <= f[maxFileCount]
    /\ \A i, j \in 0 .. maxFileCount : i <= j => f[j] <= f[i]
    /\ \A i \in 1 .. maxFileCount :
         \/ o[Nth(k, i)] \ NoFile = f[i] .. f[i - 1] - 1
         \/ (\A x \in o[Nth(k, i)] : x < s) /\ f[i] = f[i - 1]

BySize(m, o, k, s, n) ==
    /\ \A b \in Backups : b > maxFileCount => o[b] = NoFile
    /\ \E f \in [0 .. maxFileCount -> Nat \ {0}] : From(m, o, k, s, n, f)

\* Rotation by day: no line is lost, and the files of the day d and later have none.
ByDay(m, o, d, n) ==
    /\ \A b \in Backups : b >= d => o[b] \in {NoFile, {}}
    /\ \E x \in 1 .. n + 1 :
         m \ NoFile = x .. n /\ (UNION {o[b] : b \in Backups}) \ NoFile = 1 .. x - 1

\* The i-th newest backup, for each name.
LEMMA NthFacts ==
  ASSUME NEW k \in 0 .. maxFileCount
  PROVE  /\ \A i \in 1 .. maxFileCount : Nth(k, i) \in Backups /\ Nth(k, i) \in 1 .. maxFileCount
         /\ \A b \in 1 .. maxFileCount : \E i \in 1 .. maxFileCount : Nth(k, i) = b
  <1>0. maxFileCount \in Nat \ {0, 1}
    BY SizesAssumption
  <1>1. PICK b \in Nat : Backups = 1 .. b /\ maxFileCount <= b
    BY BackupNames
  <1>2. \A i \in 1 .. maxFileCount : Nth(k, i) \in Backups /\ Nth(k, i) \in 1 .. maxFileCount
    BY <1>0, <1>1 DEF Nth
  <1>3. ASSUME NEW a \in 1 .. maxFileCount
        PROVE  \E i \in 1 .. maxFileCount : Nth(k, i) = a
    <2> DEFINE i == IF a <= k THEN k + 1 - a ELSE k + 1 - a + maxFileCount
    <2>1. i \in 1 .. maxFileCount /\ Nth(k, i) = a
      BY <1>0 DEF Nth
    <2> QED
      BY <2>1
  <1> QED
    BY <1>2, <1>3

\* What is in the backups, by lines.
LEMMA FromFacts ==
  ASSUME NEW m, NEW o, NEW k \in 0 .. maxFileCount, NEW s \in Nat \ {0}, NEW n \in Nat,
         NEW f \in [0 .. maxFileCount -> Nat \ {0}], From(m, o, k, s, n, f)
  PROVE  /\ \A i \in 0 .. maxFileCount : f[i] \in Nat \ {0} /\ s <= f[i] /\ f[i] <= f[0]
         /\ f[0] \in s .. n + 1 /\ f[maxFileCount] \in s .. n + 1
         /\ \A b \in 1 .. maxFileCount : \A x \in o[b] :
              x \in Nat => (x < s \/ x \in f[maxFileCount] .. f[0] - 1)
  <1> DEFINE c == maxFileCount
  <1>0. c \in Nat \ {0, 1}
    BY SizesAssumption
  <1>1. /\ f[0] <= n + 1 /\ s <= f[c]
        /\ \A i, j \in 0 .. c : i <= j => f[j] <= f[i]
        /\ \A i \in 1 .. c : \/ o[Nth(k, i)] \ NoFile = f[i] .. f[i - 1] - 1
                             \/ (\A x \in o[Nth(k, i)] : x < s) /\ f[i] = f[i - 1]
    BY DEF From
  <1>2. 0 \in 0 .. c /\ c \in 0 .. c
    BY <1>0
  <1>3. \A i \in 0 .. c : f[i] \in Nat \ {0} /\ f[c] <= f[i] /\ f[i] <= f[0]
    BY <1>0, <1>1, <1>2
  <1>4. ASSUME NEW b \in 1 .. c, NEW x \in o[b], x \in Nat
        PROVE  x < s \/ x \in f[c] .. f[0] - 1
    <2>1. PICK i \in 1 .. c : Nth(k, i) = b
      BY NthFacts
    <2>2. CASE \A y \in o[Nth(k, i)] : y < s
      BY <1>4, <2>1, <2>2
    <2>3. CASE o[Nth(k, i)] \ NoFile = f[i] .. f[i - 1] - 1
      <3>1. CASE x = 0
        BY <3>1
      <3>2. CASE x # 0
        <4>1. x \in f[i] .. f[i - 1] - 1
          BY <1>4, <2>1, <2>3, <3>2 DEF NoFile
        <4>2. i \in 0 .. c /\ i - 1 \in 0 .. c
          BY <1>0
        <4>3. /\ f[i] \in Nat /\ f[c] <= f[i]
              /\ f[i - 1] \in Nat /\ f[i - 1] <= f[0] /\ f[c] \in Nat /\ f[0] \in Nat
          BY <1>2, <1>3, <4>2
        <4> QED
          BY <4>1, <4>3
      <3> QED
        BY <3>1, <3>2
    <2> QED
      BY <1>1, <2>2, <2>3
  <1>5. \A i \in 0 .. c : s <= f[i]
    BY <1>1, <1>2, <1>3
  <1>6. f[0] \in s .. n + 1 /\ f[c] \in s .. n + 1
    BY <1>1, <1>2, <1>3, <1>5
  <1> QED
    BY <1>3, <1>4, <1>5, <1>6

\* A line written to the file.
LEMMA WrittenBySize ==
  ASSUME NEW m \in SUBSET Nat, NEW o, NEW k \in 0 .. maxFileCount, NEW s \in Nat \ {0},
         NEW n \in Nat, BySize(m, o, k, s, n)
  PROVE  BySize(m \cup {n + 1}, o, k, s, n + 1)
  <1>1. PICK f \in [0 .. maxFileCount -> Nat \ {0}] : From(m, o, k, s, n, f)
    BY DEF BySize
  <1>2. f[0] \in Nat \ {0} /\ m \ NoFile = f[0] .. n /\ f[0] <= n + 1
    BY <1>1, SizesAssumption DEF From
  <1>3. (m \cup {n + 1}) \ NoFile = f[0] .. n + 1 /\ f[0] <= (n + 1) + 1
    <2>1. (m \cup {n + 1}) \ NoFile = (m \ NoFile) \cup {n + 1}
      BY DEF NoFile
    <2>2. (f[0] .. n) \cup {n + 1} = f[0] .. n + 1
      BY <1>2
    <2> QED
      BY <1>2, <2>1, <2>2
  <1>4. From(m \cup {n + 1}, o, k, s, n + 1, f)
    BY <1>1, <1>3 DEF From
  <1> QED
    BY <1>4 DEF BySize

\* The file put in place of the next backup.
LEMMA RotatedBySize ==
  ASSUME NEW m, NEW o \in [Backups -> SUBSET Nat], NEW k \in 0 .. maxFileCount,
         NEW s \in Nat \ {0}, NEW n \in Nat, BySize(m, o, k, s, n), NEW m1, m1 \ NoFile = {},
         NEW l, l = nextSuffix(k)
  PROVE  BySize(m1, [o EXCEPT ![l] = m], l, s, n)
  <1> DEFINE c == maxFileCount
             p == [o EXCEPT ![l] = m]
  <1>0. c \in Nat \ {0, 1} /\ l \in 1 .. c /\ l = IF k = c THEN 1 ELSE k + 1
    BY SizesAssumption, NextSuffixFacts
  <1>1. PICK b \in Nat : Backups = 1 .. b /\ c <= b
    BY BackupNames
  <1>2. l \in Backups
    BY <1>0, <1>1
  <1>3. p[l] = m /\ \A x \in Backups : x # l => p[x] = o[x]
    BY <1>2
  <1> HIDE DEF p
  <1>4. \A x \in Backups : x > c => p[x] = NoFile
    BY <1>0, <1>1, <1>3 DEF BySize
  <1>5. PICK f \in [0 .. c -> Nat \ {0}] : From(m, o, k, s, n, f)
    BY DEF BySize
  <1>6. /\ m \ NoFile = f[0] .. n /\ f[0] <= n + 1
        /\ \A i, j \in 0 .. c : i <= j => f[j] <= f[i]
        /\ \A i \in 1 .. c : \/ o[Nth(k, i)] \ NoFile = f[i] .. f[i - 1] - 1
                             \/ (\A x \in o[Nth(k, i)] : x < s) /\ f[i] = f[i - 1]
    BY <1>5 DEF From
  <1>7. \A i \in 0 .. c : f[i] \in Nat \ {0} /\ s <= f[i] /\ f[i] <= f[0]
    BY <1>5, FromFacts
  <1> DEFINE g == [i \in 0 .. c |-> IF i = 0 THEN n + 1 ELSE f[i - 1]]
  <1>8. g \in [0 .. c -> Nat \ {0}] /\ g[0] = n + 1 /\ \A i \in 1 .. c : g[i] = f[i - 1]
    BY <1>0, <1>5
  <1> HIDE DEF g
  <1>9. m1 \ NoFile = g[0] .. n /\ g[0] <= n + 1
    <2>1. n + 1 .. n = {}
      OBVIOUS
    <2> QED
      BY <1>8, <2>1
  <1>10. s <= g[c]
    BY <1>0, <1>7, <1>8
  <1>11. \A i, j \in 0 .. c : i <= j => g[j] <= g[i]
    <2> SUFFICES ASSUME NEW i \in 0 .. c, NEW j \in 0 .. c, i <= j PROVE g[j] <= g[i]
      OBVIOUS
    <2>1. CASE i = 0 /\ j = 0
      BY <1>8, <2>1
    <2>2. CASE i = 0 /\ j # 0
      <3>1. j \in 1 .. c /\ j - 1 \in 0 .. c
        BY <1>0, <2>2
      <3>2. g[j] = f[j - 1] /\ f[j - 1] <= f[0] /\ f[j - 1] \in Nat /\ f[0] \in Nat
        BY <1>0, <1>7, <1>8, <3>1
      <3> QED
        BY <1>6, <1>8, <2>2, <3>2
    <2>3. CASE i # 0
      <3>1. i \in 1 .. c /\ j \in 1 .. c /\ i - 1 \in 0 .. c /\ j - 1 \in 0 .. c
            /\ i - 1 <= j - 1
        BY <1>0, <2>3
      <3> QED
        BY <1>6, <1>8, <3>1
    <2> QED
      BY <2>1, <2>2, <2>3
  <1>12. ASSUME NEW i \in 1 .. c
         PROVE  \/ p[Nth(l, i)] \ NoFile = g[i] .. g[i - 1] - 1
                \/ (\A x \in p[Nth(l, i)] : x < s) /\ g[i] = g[i - 1]
    <2>1. CASE i = 1
      <3>1. Nth(l, i) = l
        BY <1>0, <2>1 DEF Nth
      <3>2. g[1] = f[0] /\ g[0] - 1 = n
        BY <1>0, <1>8
      <3> QED
        BY <1>3, <1>6, <2>1, <3>1, <3>2
    <2>2. CASE i # 1
      <3>1. i - 1 \in 1 .. c /\ g[i] = f[i - 1] /\ g[i - 1] = f[i - 1 - 1]
        BY <1>0, <1>8, <2>2
      <3>2. Nth(l, i) = Nth(k, i - 1) /\ Nth(l, i) # l /\ Nth(l, i) \in Backups
        BY <1>0, <1>1, <2>2 DEF Nth
      <3>3. p[Nth(l, i)] = o[Nth(k, i - 1)]
        BY <1>3, <3>2
      <3> QED
        BY <1>6, <3>1, <3>3
    <2> QED
      BY <2>1, <2>2
  <1>13. From(m1, p, l, s, n, g)
    BY <1>9, <1>10, <1>11, <1>12 DEF From
  <1>14. BySize(m1, p, l, s, n)
    BY <1>4, <1>8, <1>13 DEF BySize
  <1> QED
    BY <1>14 DEF p

\* A program that starts with the suffix k1: what it finds is before the first
\* line of the file it goes on with, unless the next backup is the one it was.
LEMMA RestartedBySize ==
  ASSUME NEW n \in Nat, NEW m \in SUBSET Nat, NEW o \in [Backups -> SUBSET Nat],
         NEW k \in 0 .. maxFileCount, NEW s \in Nat \ {0}, BySize(m, o, k, s, n),
         NEW m1, m1 \ NoFile = m \ NoFile, NEW k1 \in 0 .. maxFileCount, NEW s1,
         s1 = IF nextSuffix(k1) = nextSuffix(k) THEN s ELSE Min((m \ NoFile) \cup {n + 1})
  PROVE  BySize(m1, o, k1, s1, n)
  <1> DEFINE c == maxFileCount
  <1>0. c \in Nat \ {0, 1}
    BY SizesAssumption
  <1>1. PICK f \in [0 .. c -> Nat \ {0}] : From(m, o, k, s, n, f)
    BY DEF BySize
  <1>2. CASE nextSuffix(k1) = nextSuffix(k)
    <2>1. \A i \in 1 .. c : Nth(k1, i) = Nth(k, i)
      <3>1. /\ nextSuffix(k) = IF k = c THEN 1 ELSE k + 1
            /\ nextSuffix(k1) = IF k1 = c THEN 1 ELSE k1 + 1
        BY NextSuffixFacts
      <3>2. k1 = k \/ (k1 = 0 /\ k = c) \/ (k1 = c /\ k = 0)
        BY <1>0, <1>2, <3>1
      <3> QED
        BY <1>0, <3>2 DEF Nth
    <2>2. From(m1, o, k1, s1, n, f)
      BY <1>1, <1>2, <2>1 DEF From
    <2> QED
      BY <2>2 DEF BySize
  <1>3. CASE nextSuffix(k1) # nextSuffix(k)
    <2> DEFINE g == [i \in 0 .. c |-> s1]
    <2>0. f[0] \in s .. n + 1
      BY <1>1, FromFacts
    <2>1. m \ NoFile = f[0] .. n /\ f[0] \in s .. n + 1
      BY <1>1, <2>0 DEF From
    <2>2. s1 = f[0]
      <3> DEFINE T == (m \ NoFile) \cup {n + 1}
      <3>1. Min(T) \in T /\ \A x \in T : Min(T) <= x
        BY FirstLine
      <3>2. T = f[0] .. n + 1 /\ f[0] \in T
        <4>1. T = (f[0] .. n) \cup {n + 1}
          BY <2>1
        <4> HIDE DEF T
        <4> QED
          BY <2>1, <4>1
      <3>3. s1 = Min(T)
        BY <1>3
      <3> HIDE DEF T
      <3>4. Min(T) <= f[0] /\ Min(T) >= f[0] /\ Min(T) \in Nat /\ f[0] \in Nat
        BY <2>1, <3>1, <3>2
      <3> QED
        BY <3>3, <3>4
    <2>3. s1 \in Nat \ {0} /\ s <= s1 /\ s1 <= n + 1
      BY <2>1, <2>2
    <2>4. g \in [0 .. c -> Nat \ {0}] /\ (\A i \in 0 .. c : g[i] = s1) /\ g[0] = s1 /\ g[c] = s1
      BY <1>0, <2>3
    <2> HIDE DEF g
    <2>5. ASSUME NEW i \in 1 .. c, NEW x \in o[Nth(k1, i)]
          PROVE  x < s1
      <3>1. Nth(k1, i) \in 1 .. c /\ Nth(k1, i) \in Backups
        BY NthFacts
      <3>2. x \in Nat
        BY <2>5, <3>1
      <3>3. x < s \/ x \in f[c] .. f[0] - 1
        BY <1>1, <2>5, <3>1, <3>2, FromFacts
      <3>4. f[c] \in Nat
        BY <1>0
      <3> QED
        BY <2>1, <2>2, <2>3, <3>2, <3>3, <3>4
    <2>6. \A i \in 1 .. c : i - 1 \in 0 .. c /\ i \in 0 .. c
      BY <1>0
    <2>7. From(m1, o, k1, s1, n, g)
      <3>1. m1 \ NoFile = g[0] .. n /\ g[0] <= n + 1 /\ s1 <= g[c]
        <4>1. m1 \ NoFile = s1 .. n
          BY <2>1, <2>2, Zenon
        <4>2. m1 \ NoFile = g[0] .. n
          BY <2>4, <4>1, Zenon
        <4>3. g[0] <= n + 1 /\ s1 <= g[c]
          BY <2>3, <2>4
        <4> QED
          BY <4>2, <4>3
      <3>2. \A i, j \in 0 .. c : g[j] <= g[i]
        BY <2>3, <2>4
      <3>3. \A i \in 1 .. c : (\A x \in o[Nth(k1, i)] : x < s1) /\ g[i] = g[i - 1]
        BY <2>4, <2>5, <2>6
      <3> QED
        BY <3>1, <3>2, <3>3 DEF From
    <2> QED
      BY <2>4, <2>7 DEF BySize
  <1> QED
    BY <1>2, <1>3

-----------------------------------------------------------------------------
LEMMA WrittenByDay ==
  ASSUME NEW m \in SUBSET Nat, NEW o, NEW d, NEW n \in Nat, ByDay(m, o, d, n)
  PROVE  ByDay(m \cup {n + 1}, o, d, n + 1)
  <1>1. PICK x \in 1 .. n + 1 :
          m \ NoFile = x .. n /\ (UNION {o[b] : b \in Backups}) \ NoFile = 1 .. x - 1
    BY DEF ByDay
  <1>2. (m \cup {n + 1}) \ NoFile = x .. n + 1
    <2>1. (m \cup {n + 1}) \ NoFile = (m \ NoFile) \cup {n + 1}
      BY DEF NoFile
    <2>2. (x .. n) \cup {n + 1} = x .. n + 1
      OBVIOUS
    <2> QED
      BY <1>1, <2>1, <2>2
  <1>3. x \in 1 .. (n + 1) + 1
    OBVIOUS
  <1> QED
    BY <1>1, <1>2, <1>3 DEF ByDay

\* The file put in place of the one of the day d, which has no lines.
LEMMA RotatedByDay ==
  ASSUME NEW m, NEW o \in [Backups -> SUBSET Nat], NEW d \in Backups, NEW n \in Nat,
         ByDay(m, o, d, n), NEW m1, m1 \ NoFile = {}, NEW d1 \in Nat, d < d1
  PROVE  ByDay(m1, [o EXCEPT ![d] = m], d1, n)
  <1> DEFINE p == [o EXCEPT ![d] = m]
  <1>1. PICK b \in Nat : Backups = 1 .. b
    BY BackupNames
  <1>2. p[d] = m /\ \A x \in Backups : x # d => p[x] = o[x]
    OBVIOUS
  <1> HIDE DEF p
  <1>3. \A x \in Backups : x >= d1 => p[x] \in {NoFile, {}}
    BY <1>1, <1>2 DEF ByDay
  <1>4. PICK x \in 1 .. n + 1 :
          m \ NoFile = x .. n /\ (UNION {o[a] : a \in Backups}) \ NoFile = 1 .. x - 1
    BY DEF ByDay
  <1> DEFINE before == UNION {o[a] : a \in Backups}
             after == UNION {p[a] : a \in Backups}
  <1>5. after \ NoFile = (before \ NoFile) \cup (m \ NoFile)
    <2>1. o[d] \in {NoFile, {}}
      BY <1>1 DEF ByDay
    <2> QED
      BY <1>2, <2>1
  <1> HIDE DEF before, after
  <1>6. (1 .. x - 1) \cup (x .. n) = 1 .. n
    OBVIOUS
  <1>7. after \ NoFile = 1 .. n
    BY <1>4, <1>5, <1>6, Zenon DEF before
  <1>8. (n + 1) - 1 = n /\ n + 1 .. n = {} /\ n + 1 \in 1 .. n + 1
    OBVIOUS
  <1>9. \E y \in 1 .. n + 1 : m1 \ NoFile = y .. n /\ after \ NoFile = 1 .. y - 1
    BY <1>7, <1>8
  <1>10. ByDay(m1, p, d1, n)
    BY <1>3, <1>9 DEF ByDay, after
  <1> QED
    BY <1>10 DEF p

-----------------------------------------------------------------------------
\* What the files hold, as long as nothing failed.
Whole == intact => IF dailyRolling THEN ByDay(main, old, fileDate, lines)
                   ELSE BySize(main, old, fileSuffix, since, lines)

\* Only the monitor rotates by size, and only the loggers by day.
LogInv ==
    /\ LogTypes
    /\ fileDate <= today
    /\ dailyRolling => since = 1 /\ at[Monitor] # "rolling"
    /\ ~ dailyRolling => \A p \in Loggers : at[p] # "rolling"
    /\ intact => open \/ at = All("ended")
    /\ Whole

LEMMA LogInitInv == LogInit => LogInv
  <1> SUFFICES ASSUME LogInit PROVE LogInv
    OBVIOUS
  <1> DEFINE c == maxFileCount
  <1>0. c \in Nat \ {0, 1} /\ MaxDays \in Nat \ {0} /\ MaxLines \in Nat /\ MaxRestarts \in Nat
    BY SizesAssumption, BoundsAssumption
  <1>1. /\ dailyRolling \in BOOLEAN /\ main = {} /\ open = TRUE /\ lines = 0 /\ restarts = 0
        /\ old \in [Backups -> {NoFile, {}}] /\ today = 1 /\ fileDate = 1 /\ intact = TRUE
        /\ at = All("out") /\ since = 1
        /\ fileSuffix = IF dailyRolling THEN 0 ELSE StartSuffix
        /\ ~ dailyRolling => \A n \in Backups : old[n] = NoFile
    BY DEF LogInit
  <1>2. at \in [Loggers \cup {Monitor} -> {"out", "rolling", "writing", "ended"}]
        /\ \A p \in Loggers \cup {Monitor} : at[p] = "out"
    BY <1>1 DEF All
  <1>3. LogTypes
    <2>1. fileSuffix \in 0 .. c
      BY <1>0, <1>1, StartSuffixTyped
    <2>2. NoFile \in SUBSET (0 .. MaxLines) /\ {} \in SUBSET (0 .. MaxLines)
      BY <1>0 DEF NoFile
    <2>3. old \in [Backups -> SUBSET (0 .. MaxLines)]
      BY <1>1, <2>2
    <2> QED
      BY <1>0, <1>1, <1>2, <2>1, <2>2, <2>3 DEF LogTypes
  <1>4. ASSUME dailyRolling PROVE ByDay(main, old, fileDate, lines)
    <2>1. \A n \in Backups : old[n] \in {NoFile, {}}
      BY <1>1
    <2>2. (UNION {old[n] : n \in Backups}) \ NoFile = {} /\ 1 .. 1 - 1 = {} /\ 1 .. 0 = {}
      BY <2>1 DEF NoFile
    <2> QED
      BY <1>1, <2>1, <2>2 DEF ByDay
  <1>5. ASSUME ~ dailyRolling PROVE BySize(main, old, fileSuffix, since, lines)
    <2> DEFINE f == [i \in 0 .. c |-> 1]
    <2>1. \A n \in Backups : old[n] = NoFile
      BY <1>1, <1>5
    <2>2. From(main, old, fileSuffix, since, lines, f)
      <3>1. \A i \in 1 .. c : (\A x \in old[Nth(fileSuffix, i)] : x < since) /\ f[i] = f[i - 1]
        <4>1. fileSuffix \in 0 .. c
          BY <1>3 DEF LogTypes
        <4>2. \A i \in 1 .. c : i - 1 \in 0 .. c /\ i \in 0 .. c
          BY <1>0
        <4>3. \A i \in 1 .. c : f[i] = f[i - 1]
          BY <4>2
        <4>4. \A i \in 1 .. c : old[Nth(fileSuffix, i)] = NoFile
          BY <2>1, <4>1, NthFacts
        <4>5. \A x \in NoFile : x < since
          BY <1>1 DEF NoFile
        <4> HIDE DEF f
        <4> QED
          BY <4>3, <4>4, <4>5
      <3>2. 1 .. 0 = {} /\ f[0] = 1 /\ f[c] = 1
        BY <1>0
      <3> QED
        BY <1>0, <1>1, <3>1, <3>2 DEF From
    <2> QED
      BY <1>0, <2>1, <2>2 DEF BySize
  <1> QED
    BY <1>1, <1>2, <1>3, <1>4, <1>5 DEF LogInv, Whole

-----------------------------------------------------------------------------
\* What replacing the file does, and what it leaves when nothing failed.
LEMMA ReplaceFacts ==
  ASSUME LogTypes, NEW name \in Backups, NEW next, Replace(name, next)
  PROVE  /\ main' \in SUBSET (0 .. MaxLines) /\ old' \in [Backups -> SUBSET (0 .. MaxLines)]
         /\ open' \in BOOLEAN /\ intact' \in BOOLEAN
         /\ at' = next \/ at' = All("ended")
         /\ intact' => /\ intact /\ (open' \/ at' = All("ended")) /\ main' \ NoFile = {}
                       /\ old' = [old EXCEPT ![name] = main]
  <1>1. PICK renamed, created, ends \in BOOLEAN :
          /\ renamed => main # NoFile
          /\ ends => renamed /\ ~ created
          /\ old' = IF renamed THEN [old EXCEPT ![name] = main] ELSE old
          /\ open' = created
          /\ main' = IF created THEN {} ELSE IF renamed THEN NoFile ELSE main
          /\ at' = IF ends THEN All("ended") ELSE next
          /\ intact' = (intact /\ renamed /\ (created \/ ends))
    BY DEF Replace
  <1>2. NoFile \in SUBSET (0 .. MaxLines) /\ NoFile \ NoFile = {} /\ {} \ NoFile = {}
    BY BoundsAssumption DEF NoFile
  <1>3. main \in SUBSET (0 .. MaxLines) /\ old \in [Backups -> SUBSET (0 .. MaxLines)]
        /\ intact \in BOOLEAN
    BY DEF LogTypes
  <1>4. [old EXCEPT ![name] = main] \in [Backups -> SUBSET (0 .. MaxLines)]
    BY <1>3
  <1>5. old' \in [Backups -> SUBSET (0 .. MaxLines)]
    BY <1>1, <1>3, <1>4
  <1>6. main' \in SUBSET (0 .. MaxLines)
    BY <1>1, <1>2, <1>3
  <1>7. at' = next \/ at' = All("ended")
    BY <1>1
  <1>8. ASSUME intact'
        PROVE  /\ intact /\ (open' \/ at' = All("ended")) /\ main' \ NoFile = {}
               /\ old' = [old EXCEPT ![name] = main]
    BY <1>1, <1>2, <1>8
  <1> QED
    BY <1>1, <1>3, <1>5, <1>6, <1>7, <1>8

\* The types of what the lemmas above are about.
LEMMA LogTyped ==
  ASSUME LogTypes
  PROVE  /\ main \in SUBSET Nat /\ old \in [Backups -> SUBSET Nat] /\ lines \in Nat
         /\ since \in Nat \ {0} /\ fileSuffix \in 0 .. maxFileCount
         /\ fileDate \in Nat /\ today \in Nat /\ fileDate \in Backups /\ today \in Backups
         /\ MaxLines \in Nat /\ MaxDays \in Nat /\ MaxRestarts \in Nat
  <1>1. SUBSET (0 .. MaxLines) \subseteq SUBSET Nat
    OBVIOUS
  <1>2. old \in [Backups -> SUBSET Nat] /\ main \in SUBSET Nat
    BY <1>1 DEF LogTypes
  <1>3. \A d \in 1 .. MaxDays : d \in Backups
    BY BackupNames, BoundsAssumption
  <1> QED
    BY <1>2, <1>3, BoundsAssumption DEF LogTypes

-----------------------------------------------------------------------------
\* One lemma for each step.
LEMMA LogLogInv == ASSUME LogInv, NEW p \in Loggers, Log(p) PROVE LogInv'
  <1>1. /\ at[p] = "out"
        /\ at' = [at EXCEPT ![p] = IF dailyRolling /\ ifMustRename THEN "rolling" ELSE "writing"]
        /\ main' = main /\ old' = old /\ open' = open /\ intact' = intact
        /\ dailyRolling' = dailyRolling /\ fileSuffix' = fileSuffix /\ fileDate' = fileDate
        /\ today' = today /\ lines' = lines /\ restarts' = restarts /\ since' = since
    BY DEF Log, files
  <1>2. LogTypes'
    BY <1>1 DEF LogInv, LogTypes, Backups
  <1>3. Whole'
    BY <1>1 DEF LogInv, Whole
  <1>4. at \in [Loggers \cup {Monitor} -> {"out", "rolling", "writing", "ended"}]
    BY DEF LogInv, LogTypes
  <1>5. at # All("ended")
    BY <1>1 DEF All
  <1>6. dailyRolling => at'[Monitor] # "rolling"
    BY <1>1, <1>4, MonitorAssumption DEF LogInv
  <1>7. ~ dailyRolling => \A q \in Loggers : at'[q] # "rolling"
    BY <1>1, <1>4 DEF LogInv
  <1> QED
    BY <1>1, <1>2, <1>3, <1>5, <1>6, <1>7 DEF LogInv, Monitor

LEMMA LogRollsInv == ASSUME LogInv, NEW p \in Loggers, LogRolls(p) PROVE LogInv'
  <1> DEFINE next == [at EXCEPT ![p] = "writing"]
  <1>1. /\ at[p] = "rolling" /\ dailyRolling /\ dailyRolling' = dailyRolling
        /\ fileSuffix' = fileSuffix /\ lines' = lines /\ today' = today /\ restarts' = restarts
        /\ since' = since /\ since = 1
    BY DEF LogRolls, renameDaily, LogInv
  <1>2. LogTypes /\ Whole /\ fileDate <= today
    BY DEF LogInv
  <1>3. /\ next \in [Loggers \cup {Monitor} -> {"out", "rolling", "writing", "ended"}]
        /\ next[Monitor] # "rolling"
    BY <1>1, MonitorAssumption DEF LogInv, LogTypes
  <1>4. /\ All("ended") \in [Loggers \cup {Monitor} -> {"out", "rolling", "writing", "ended"}]
        /\ All("ended")[Monitor] # "rolling" /\ at # All("ended")
    BY <1>1 DEF All
  <1>5. CASE UNCHANGED <<files, fileDate>> /\ at' = next
    <2>1. main' = main /\ old' = old /\ open' = open /\ intact' = intact /\ fileDate' = fileDate
      BY <1>5 DEF files
    <2>2. LogTypes'
      BY <1>1, <1>2, <1>3, <1>5, <2>1 DEF LogTypes, Backups
    <2>3. Whole'
      BY <1>1, <1>2, <2>1 DEF Whole
    <2> QED
      BY <1>1, <1>2, <1>3, <1>4, <1>5, <2>1, <2>2, <2>3 DEF LogInv, Monitor
  <1>6. CASE ifMustRename /\ Replace(fileDate, next) /\ fileDate' = today
    <2> HIDE DEF next
    <2>1. fileDate < today
      BY <1>1, <1>2, <1>6, LogTyped DEF ifMustRename
    <2>2. /\ main' \in SUBSET (0 .. MaxLines) /\ old' \in [Backups -> SUBSET (0 .. MaxLines)]
          /\ open' \in BOOLEAN /\ intact' \in BOOLEAN /\ (at' = next \/ at' = All("ended"))
          /\ intact' => /\ intact /\ (open' \/ at' = All("ended")) /\ main' \ NoFile = {}
                        /\ old' = [old EXCEPT ![fileDate] = main]
      BY <1>2, <1>6, LogTyped, ReplaceFacts
    <2>3. LogTypes'
      BY <1>1, <1>2, <1>3, <1>4, <1>6, <2>2 DEF LogTypes, Backups
    <2>4. ASSUME intact' PROVE ByDay(main', old', fileDate', lines')
      <3>1. ByDay(main, old, fileDate, lines) /\ main' \ NoFile = {}
            /\ old' = [old EXCEPT ![fileDate] = main]
        BY <1>1, <1>2, <2>2, <2>4 DEF Whole
      <3>2. ByDay(main', [old EXCEPT ![fileDate] = main], today, lines)
        BY <1>2, <2>1, <3>1, LogTyped, RotatedByDay
      <3> QED
        BY <1>1, <1>6, <3>1, <3>2
    <2>5. at'[Monitor] # "rolling"
      BY <1>3, <1>4, <2>2
    <2> QED
      BY <1>1, <1>2, <1>6, <2>2, <2>3, <2>4, <2>5, LogTyped DEF LogInv, Whole, Monitor, All
  <1> QED
    BY <1>5, <1>6 DEF LogRolls, renameDaily

LEMMA LogWritesInv == ASSUME LogInv, NEW p \in Loggers, LogWrites(p) PROVE LogInv'
  <1>1. /\ at[p] = "writing"
        /\ dailyRolling' = dailyRolling /\ at' = [at EXCEPT ![p] = "out"]
        /\ fileSuffix' = fileSuffix /\ today' = today /\ restarts' = restarts /\ old' = old
        /\ open' = open /\ intact' = intact /\ fileDate' = fileDate /\ since' = since
        /\ lines < MaxLines /\ lines' = lines + 1
        /\ main' = IF open THEN main \cup {lines + 1} ELSE main
    BY DEF LogWrites
  <1>2. LogTypes /\ Whole
    BY DEF LogInv
  <1>3. /\ at \in [Loggers \cup {Monitor} -> {"out", "rolling", "writing", "ended"}]
        /\ lines \in 0 .. MaxLines /\ MaxLines \in Nat /\ main \in SUBSET (0 .. MaxLines)
    BY BoundsAssumption DEF LogInv, LogTypes
  <1>4. /\ at' \in [Loggers \cup {Monitor} -> {"out", "rolling", "writing", "ended"}]
        /\ dailyRolling => at'[Monitor] # "rolling"
        /\ ~ dailyRolling => \A q \in Loggers : at'[q] # "rolling"
    BY <1>1, <1>3 DEF LogInv
  <1>5. lines' \in 0 .. MaxLines /\ main' \in SUBSET (0 .. MaxLines)
    BY <1>1, <1>3
  <1>6. LogTypes'
    BY <1>1, <1>2, <1>4, <1>5 DEF LogTypes, Backups
  <1>7. intact => open
    BY <1>1, MonitorAssumption DEF LogInv, All
  <1>8. Whole'
    <2> SUFFICES ASSUME intact'
                 PROVE  IF dailyRolling THEN ByDay(main', old, fileDate, lines + 1)
                        ELSE BySize(main', old, fileSuffix, since, lines + 1)
      BY <1>1 DEF Whole
    <2>1. intact /\ main' = main \cup {lines + 1}
      BY <1>1, <1>7
    <2>2. ASSUME dailyRolling PROVE ByDay(main', old, fileDate, lines + 1)
      BY <1>2, <2>1, <2>2, LogTyped, WrittenByDay DEF Whole
    <2>3. ASSUME ~ dailyRolling PROVE BySize(main', old, fileSuffix, since, lines + 1)
      BY <1>2, <2>1, <2>3, LogTyped, WrittenBySize DEF Whole
    <2> QED
      BY <2>2, <2>3
  <1> QED
    BY <1>1, <1>4, <1>6, <1>7, <1>8 DEF LogInv, Monitor

LEMMA MonitorChecksInv == ASSUME LogInv, MonitorChecks PROVE LogInv'
  <1>1. /\ ~ dailyRolling /\ at[Monitor] = "out" /\ at' = [at EXCEPT ![Monitor] = "rolling"]
        /\ main' = main /\ old' = old /\ open' = open /\ intact' = intact
        /\ dailyRolling' = dailyRolling /\ fileSuffix' = fileSuffix /\ fileDate' = fileDate
        /\ today' = today /\ lines' = lines /\ restarts' = restarts /\ since' = since
    BY DEF MonitorChecks, files
  <1>2. LogTypes'
    BY <1>1 DEF LogInv, LogTypes, Backups
  <1>3. Whole'
    BY <1>1 DEF LogInv, Whole
  <1>4. at \in [Loggers \cup {Monitor} -> {"out", "rolling", "writing", "ended"}]
    BY DEF LogInv, LogTypes
  <1>5. \A q \in Loggers : at'[q] # "rolling"
    BY <1>1, <1>4, MonitorAssumption DEF LogInv
  <1>6. at # All("ended")
    BY <1>1 DEF All
  <1> QED
    BY <1>1, <1>2, <1>3, <1>5, <1>6 DEF LogInv

\* Both ways in which a file is replaced by size: with the suffix k, of a program
\* that goes on or of one that is started, the promise being about the lines from
\* s on.
LEMMA CoverNextOneInv ==
  ASSUME LogTypes, ~ dailyRolling, dailyRolling' = dailyRolling, lines' = lines,
         NEW k \in 0 .. maxFileCount, NEW s \in Nat \ {0}, since' = s,
         intact => BySize(main, old, k, s, lines), NEW next,
         coverNextOne(k, next)
  PROVE  /\ Whole'
         /\ main' \in SUBSET (0 .. MaxLines) /\ old' \in [Backups -> SUBSET (0 .. MaxLines)]
         /\ open' \in BOOLEAN /\ intact' \in BOOLEAN /\ fileSuffix' \in 0 .. maxFileCount
         /\ at' = next \/ at' = All("ended")
         /\ intact' => open' \/ at' = All("ended")
  <1> DEFINE name == nextSuffix(k)
  <1>1. fileSuffix' = name /\ Replace(name, next)
    BY DEF coverNextOne
  <1>2. name \in 1 .. maxFileCount
    BY NextSuffixFacts
  <1> HIDE DEF name
  <1>3. name \in Backups
    BY <1>2, BackupNames, SizesAssumption
  <1>4. /\ main' \in SUBSET (0 .. MaxLines) /\ old' \in [Backups -> SUBSET (0 .. MaxLines)]
        /\ open' \in BOOLEAN /\ intact' \in BOOLEAN /\ (at' = next \/ at' = All("ended"))
        /\ intact' => /\ intact /\ (open' \/ at' = All("ended")) /\ main' \ NoFile = {}
                      /\ old' = [old EXCEPT ![name] = main]
    BY <1>1, <1>3, ReplaceFacts
  <1>5. ASSUME intact' PROVE BySize(main', old', fileSuffix', since', lines')
    <2>1. BySize(main, old, k, s, lines) /\ main' \ NoFile = {}
          /\ old' = [old EXCEPT ![name] = main]
      BY <1>4, <1>5
    <2>2. old \in [Backups -> SUBSET Nat] /\ lines \in Nat
      BY LogTyped
    <2>3. name = nextSuffix(k)
      BY DEF name
    <2>4. BySize(main', [old EXCEPT ![name] = main], name, s, lines)
      BY <2>1, <2>2, <2>3, RotatedBySize
    <2> QED
      BY <1>1, <2>1, <2>4
  <1>6. fileSuffix' \in 0 .. maxFileCount
    BY <1>1, <1>2, SizesAssumption
  <1> QED
    BY <1>4, <1>5, <1>6 DEF Whole

LEMMA MonitorRollsInv == ASSUME LogInv, MonitorRolls PROVE LogInv'
  <1> DEFINE next == [at EXCEPT ![Monitor] = "out"]
  <1>1. /\ at[Monitor] = "rolling" /\ ~ dailyRolling /\ dailyRolling' = dailyRolling
        /\ coverNextOne(fileSuffix, next) /\ fileDate' = fileDate /\ today' = today
        /\ lines' = lines /\ restarts' = restarts /\ since' = since
    BY DEF MonitorRolls, LogInv
  <1>2. LogTypes /\ fileDate <= today /\ (intact => BySize(main, old, fileSuffix, since, lines))
    BY <1>1 DEF LogInv, Whole
  <1>3. /\ next \in [Loggers \cup {Monitor} -> {"out", "rolling", "writing", "ended"}]
        /\ \A q \in Loggers : next[q] # "rolling"
    BY <1>1, MonitorAssumption DEF LogInv, LogTypes
  <1>4. /\ All("ended") \in [Loggers \cup {Monitor} -> {"out", "rolling", "writing", "ended"}]
        /\ \A q \in Loggers : All("ended")[q] # "rolling"
    BY DEF All
  <1> HIDE DEF next
  <1>5. /\ Whole'
        /\ main' \in SUBSET (0 .. MaxLines) /\ old' \in [Backups -> SUBSET (0 .. MaxLines)]
        /\ open' \in BOOLEAN /\ intact' \in BOOLEAN /\ fileSuffix' \in 0 .. maxFileCount
        /\ at' = next \/ at' = All("ended")
        /\ intact' => open' \/ at' = All("ended")
    BY <1>1, <1>2, LogTyped, CoverNextOneInv
  <1>6. /\ at' \in [Loggers \cup {Monitor} -> {"out", "rolling", "writing", "ended"}]
        /\ \A q \in Loggers : at'[q] # "rolling"
    BY <1>3, <1>4, <1>5
  <1>7. LogTypes'
    BY <1>1, <1>2, <1>5, <1>6 DEF LogTypes, Backups
  <1> QED
    BY <1>1, <1>2, <1>5, <1>6, <1>7 DEF LogInv, All, Monitor

LEMMA NextDayInv == ASSUME LogInv, NextDay PROVE LogInv'
  <1>1. /\ dailyRolling /\ today < MaxDays /\ today' = today + 1
        /\ main' = main /\ old' = old /\ open' = open /\ intact' = intact /\ at' = at
        /\ dailyRolling' = dailyRolling /\ fileSuffix' = fileSuffix /\ fileDate' = fileDate
        /\ lines' = lines /\ restarts' = restarts /\ since' = since
    BY DEF NextDay, files
  <1>2. fileDate <= today /\ fileDate \in Nat /\ today \in 1 .. MaxDays /\ MaxDays \in Nat
    BY BoundsAssumption DEF LogInv, LogTypes
  <1>3. today' \in 1 .. MaxDays /\ fileDate' <= today'
    BY <1>1, <1>2
  <1>4. LogTypes'
    BY <1>1, <1>3 DEF LogInv, LogTypes, Backups
  <1>5. Whole'
    BY <1>1 DEF LogInv, Whole
  <1> QED
    BY <1>1, <1>3, <1>4, <1>5 DEF LogInv, Monitor, All

\* What every start does, and what it finds by size.
LEMMA RestartFacts ==
  ASSUME LogInv, NEW k \in 0 .. maxFileCount, Restart(k)
  PROVE  /\ dailyRolling' = dailyRolling /\ lines' = lines /\ today' = today
         /\ restarts' \in 0 .. MaxRestarts /\ fileDate' = today
         /\ fileDate' \in 1 .. MaxDays /\ fileDate' <= today' /\ fileDate <= fileDate'
         /\ since' \in 1 .. (MaxLines + 1) /\ since' \in Nat \ {0}
         /\ dailyRolling => since' = 1
         /\ ~ dailyRolling /\ intact =>
              \A m : m \ NoFile = main \ NoFile => BySize(m, old, k, since', lines)
  <1>1. /\ dailyRolling' = dailyRolling /\ lines' = lines /\ today' = today
        /\ restarts < MaxRestarts /\ restarts' = restarts + 1 /\ fileDate' = today
        /\ since' = IF dailyRolling \/ nextSuffix(k) = nextSuffix(fileSuffix) THEN since
                    ELSE Min((main \ NoFile) \cup {lines + 1})
    BY DEF Restart
  <1>2. /\ fileDate <= today /\ fileDate \in Nat /\ today \in 1 .. MaxDays /\ today \in Nat
        /\ restarts \in 0 .. MaxRestarts /\ MaxRestarts \in Nat
        /\ LogTypes /\ Whole /\ (dailyRolling => since = 1)
        /\ since \in 1 .. MaxLines + 1 /\ MaxLines \in Nat
    BY BoundsAssumption DEF LogInv, LogTypes
  <1>3. main \in SUBSET Nat /\ lines \in Nat
    BY <1>2, LogTyped
  <1>4. Min((main \ NoFile) \cup {lines + 1}) \in 1 .. lines + 1 /\ lines \in 0 .. MaxLines
    BY <1>2, <1>3, FirstLine DEF LogTypes
  <1>5. since' \in 1 .. MaxLines + 1
    BY <1>1, <1>2, <1>4
  <1>6. ASSUME ~ dailyRolling, intact, NEW m, m \ NoFile = main \ NoFile
        PROVE  BySize(m, old, k, since', lines)
    <2>1. BySize(main, old, fileSuffix, since, lines)
      BY <1>2, <1>6 DEF Whole
    <2>2. since' = IF nextSuffix(k) = nextSuffix(fileSuffix) THEN since
                   ELSE Min((main \ NoFile) \cup {lines + 1})
      BY <1>1, <1>6
    <2> QED
      BY <1>2, <1>3, <1>6, <2>1, <2>2, LogTyped, RestartedBySize
  <1> QED
    BY <1>1, <1>2, <1>5, <1>6

LEMMA RestartOpensInv == ASSUME LogInv, RestartOpens PROVE LogInv'
  <1>1. /\ Restart(StartSuffix)
        /\ fileSuffix' = IF dailyRolling THEN 0 ELSE StartSuffix
        /\ open' \in BOOLEAN
        /\ main' = IF open' /\ main = NoFile THEN {} ELSE main
        /\ intact' = (intact /\ open')
        /\ at' = All("out")
        /\ old' = old
    BY DEF RestartOpens
  <1> DEFINE k == StartSuffix
  <1>2. LogTypes /\ Whole /\ k \in 0 .. maxFileCount /\ Restart(k)
        /\ fileSuffix' = IF dailyRolling THEN 0 ELSE k
    BY <1>1, StartSuffixTyped DEF LogInv
  <1> HIDE DEF k
  <1>3. /\ dailyRolling' = dailyRolling /\ lines' = lines /\ today' = today
        /\ restarts' \in 0 .. MaxRestarts /\ fileDate' = today
        /\ fileDate' \in 1 .. MaxDays /\ fileDate' <= today' /\ fileDate <= fileDate'
        /\ since' \in 1 .. (MaxLines + 1)
        /\ dailyRolling => since' = 1
        /\ ~ dailyRolling /\ intact =>
             \A m : m \ NoFile = main \ NoFile => BySize(m, old, k, since', lines)
    BY <1>2, RestartFacts
  <1>4. main' \ NoFile = main \ NoFile /\ main' \in SUBSET (0 .. MaxLines)
    BY <1>1, <1>2 DEF NoFile, LogTypes
  <1>5. /\ at' \in [Loggers \cup {Monitor} -> {"out", "rolling", "writing", "ended"}]
        /\ \A q \in Loggers \cup {Monitor} : at'[q] = "out"
    BY <1>1 DEF All
  <1>6. fileSuffix' \in 0 .. maxFileCount
    BY <1>2, SizesAssumption
  <1>7. LogTypes'
    BY <1>1, <1>2, <1>3, <1>4, <1>5, <1>6 DEF LogTypes, Backups
  <1>8. Whole'
    <2> SUFFICES ASSUME intact'
                 PROVE  IF dailyRolling THEN ByDay(main', old, today, lines)
                        ELSE BySize(main', old, fileSuffix', since', lines)
      BY <1>1, <1>3 DEF Whole
    <2>1. ASSUME dailyRolling PROVE ByDay(main', old, today, lines)
      <3>1. ByDay(main, old, fileDate, lines) /\ fileDate <= today
        BY <1>1, <1>2, <1>3, <2>1 DEF Whole
      <3>2. \A n \in Backups : n >= today => n >= fileDate
        BY <1>2, <3>1, LogTyped, BackupNames
      <3> QED
        BY <1>4, <3>1, <3>2 DEF ByDay
    <2>2. ASSUME ~ dailyRolling PROVE BySize(main', old, fileSuffix', since', lines)
      BY <1>1, <1>2, <1>3, <1>4, <2>2
    <2> QED
      BY <2>1, <2>2
  <1>9. intact' => open'
    BY <1>1
  <1> QED
    BY <1>3, <1>5, <1>7, <1>8, <1>9 DEF LogInv, Monitor

LEMMA RestartRollsInv == ASSUME LogInv, RestartRolls PROVE LogInv'
  <1> DEFINE k == StartSuffix
             next == All("out")
             s == since'
  <1>1. Restart(k) /\ ~ dailyRolling /\ coverNextOne(k, next) /\ k \in 0 .. maxFileCount
    BY StartSuffixTyped DEF RestartRolls
  <1>2. LogTypes
    BY DEF LogInv
  <1> HIDE DEF k
  <1>3. /\ dailyRolling' = dailyRolling /\ lines' = lines /\ today' = today
        /\ restarts' \in 0 .. MaxRestarts /\ fileDate' = today
        /\ fileDate' \in 1 .. MaxDays /\ fileDate' <= today'
        /\ s \in 1 .. (MaxLines + 1) /\ s \in Nat \ {0} /\ since' = s
        /\ intact => BySize(main, old, k, s, lines)
    BY <1>1, RestartFacts
  <1>4. /\ \A place \in {"out", "ended"} :
             All(place) \in [Loggers \cup {Monitor} -> {"out", "rolling", "writing", "ended"}]
        /\ \A q \in Loggers : All("out")[q] # "rolling" /\ All("ended")[q] # "rolling"
    BY DEF All
  <1>5. /\ Whole'
        /\ main' \in SUBSET (0 .. MaxLines) /\ old' \in [Backups -> SUBSET (0 .. MaxLines)]
        /\ open' \in BOOLEAN /\ intact' \in BOOLEAN /\ fileSuffix' \in 0 .. maxFileCount
        /\ at' = next \/ at' = All("ended")
        /\ intact' => open' \/ at' = All("ended")
    <2> HIDE DEF next, s
    <2> QED
      BY <1>1, <1>2, <1>3, CoverNextOneInv
  <1>6. /\ at' \in [Loggers \cup {Monitor} -> {"out", "rolling", "writing", "ended"}]
        /\ \A q \in Loggers : at'[q] # "rolling"
    BY <1>4, <1>5
  <1>7. LogTypes'
    BY <1>2, <1>3, <1>5, <1>6 DEF LogTypes, Backups
  <1> QED
    BY <1>1, <1>3, <1>5, <1>6, <1>7 DEF LogInv, Monitor, All

LEMMA LogNextInv == LogInv /\ [LogNext]_logVars => LogInv'
  <1> SUFFICES ASSUME LogInv, [LogNext]_logVars PROVE LogInv'
    OBVIOUS
  <1>1. CASE UNCHANGED logVars
    <2>1. /\ main' = main /\ old' = old /\ open' = open /\ intact' = intact /\ at' = at
          /\ dailyRolling' = dailyRolling /\ fileSuffix' = fileSuffix /\ fileDate' = fileDate
          /\ lines' = lines /\ restarts' = restarts /\ today' = today /\ since' = since
      BY <1>1 DEF logVars
    <2>2. LogTypes'
      BY <2>1 DEF LogInv, LogTypes, Backups
    <2>3. Whole'
      BY <2>1 DEF LogInv, Whole
    <2> QED
      BY <2>1, <2>2, <2>3 DEF LogInv, Monitor, All
  <1>2. CASE \E p \in Loggers : Log(p) \/ LogRolls(p) \/ LogWrites(p)
    BY <1>2, LogLogInv, LogRollsInv, LogWritesInv
  <1>3. CASE MonitorChecks \/ MonitorRolls
    BY <1>3, MonitorChecksInv, MonitorRollsInv
  <1>4. CASE NextDay
    BY <1>4, NextDayInv
  <1>5. CASE RestartOpens \/ RestartRolls
    BY <1>5, RestartOpensInv, RestartRollsInv
  <1> QED
    BY <1>1, <1>2, <1>3, <1>4, <1>5 DEF LogNext

LEMMA SpecLogInv == LogSpec => []LogInv
  BY LogInitInv, LogNextInv, PTL DEF LogSpec

\* The variables keep their types: the suffix stays a number of a backup, the
\* files hold lines that were logged, whatever fails or is started again.
THEOREM LogTypesHold == LogSpec => []LogTypes
  <1>1. LogInv => LogTypes
    BY DEF LogInv
  <1> QED
    BY <1>1, SpecLogInv, PTL

-----------------------------------------------------------------------------
\* The files of a rotation by size are together, from s on, one run: the line x
\* is in the newest file that starts at x or before it.
LEMMA BySizeKeepsTail ==
  ASSUME LogTypes, BySize(main, old, fileSuffix, since, lines)
  PROVE  \E n \in since .. (lines + 1) :
           {x \in UNION {main, UNION {old[i] : i \in Backups}} : x >= since} = n .. lines
  <1> DEFINE c == maxFileCount
             k == fileSuffix
             All1 == UNION {main, UNION {old[i] : i \in Backups}}
  <1>0. /\ c \in Nat \ {0, 1} /\ k \in 0 .. c /\ lines \in Nat /\ since \in Nat \ {0}
        /\ main \in SUBSET Nat /\ old \in [Backups -> SUBSET Nat]
    BY SizesAssumption, LogTyped
  <1>1. PICK b \in Nat : Backups = 1 .. b /\ c <= b
    BY BackupNames
  <1>2. PICK f \in [0 .. c -> Nat \ {0}] : From(main, old, k, since, lines, f)
    BY DEF BySize
  <1>3. /\ main \ NoFile = f[0] .. lines /\ f[0] <= lines + 1
        /\ \A i \in 1 .. c : \/ old[Nth(k, i)] \ NoFile = f[i] .. f[i - 1] - 1
                             \/ (\A x \in old[Nth(k, i)] : x < since) /\ f[i] = f[i - 1]
    BY <1>2 DEF From
  <1>4. /\ \A i \in 0 .. c : f[i] \in Nat \ {0} /\ since <= f[i] /\ f[i] <= f[0]
        /\ f[0] \in since .. lines + 1 /\ f[c] \in since .. lines + 1
        /\ \A a \in 1 .. c : \A x \in old[a] : x \in Nat => (x < since \/ x \in f[c] .. f[0] - 1)
    BY <1>0, <1>2, FromFacts
  <1>5. f[c] <= f[0]
    BY <1>0, <1>4
  <1>6. ASSUME NEW x \in All1, x >= since PROVE x \in f[c] .. lines
    <2>1. x \in Nat /\ x # 0
      BY <1>0, <1>6
    <2>2. CASE x \in main
      <3>1. x \in f[0] .. lines
        BY <1>3, <2>1, <2>2 DEF NoFile
      <3> QED
        BY <1>4, <1>5, <3>1
    <2>3. CASE x \notin main
      <3>1. PICK a \in Backups : x \in old[a]
        BY <2>3
      <3>2. a <= c
        BY <1>0, <1>1, <2>1, <3>1 DEF BySize, NoFile
      <3>3. a \in 1 .. c
        BY <1>0, <1>1, <3>2
      <3>4. x \in f[c] .. f[0] - 1
        BY <1>0, <1>4, <1>6, <2>1, <3>1, <3>3
      <3> QED
        BY <1>0, <1>4, <3>4
    <2> QED
      BY <2>2, <2>3
  <1>7. ASSUME NEW x \in f[c] .. lines PROVE x \in All1 /\ x >= since
    <2>0. x \in Nat /\ x # 0 /\ f[c] <= x /\ x <= lines /\ x >= since
      BY <1>0, <1>4
    <2> DEFINE T == {i \in 0 .. c : f[i] <= x}
    <2>1. T \in SUBSET Nat /\ T # {}
      BY <1>0, <2>0
    <2>2. PICK m \in T : \A j \in T : m <= j
      <3> HIDE DEF T
      <3> QED
        BY <2>1, LeastNumber
    <2>3. CASE m = 0
      <3>1. x \in f[0] .. lines
        BY <1>0, <1>4, <2>0, <2>2, <2>3
      <3> QED
        BY <1>3, <2>0, <3>1
    <2>4. CASE m # 0
      <3>1. m \in 1 .. c /\ m - 1 \in 0 .. c /\ m - 1 \notin T
        BY <1>0, <2>2, <2>4
      <3>2. f[m] <= x /\ x < f[m - 1] /\ f[m - 1] \in Nat /\ f[m] \in Nat
        BY <1>4, <2>0, <2>2, <3>1
      <3>3. x \in old[Nth(k, m)]
        BY <1>3, <2>0, <3>1, <3>2
      <3>4. Nth(k, m) \in Backups
        BY <1>0, <3>1, NthFacts
      <3> QED
        BY <2>0, <3>3, <3>4
    <2> QED
      BY <2>3, <2>4
  <1>8. {x \in All1 : x >= since} = f[c] .. lines
    <2> HIDE DEF All1
    <2> QED
      BY <1>6, <1>7
  <1> QED
    BY <1>4, <1>8

\* The files of a rotation by day hold every line.
LEMMA ByDayKeepsTail ==
  ASSUME LogTypes, since = 1, ByDay(main, old, fileDate, lines)
  PROVE  \E n \in since .. (lines + 1) :
           {x \in UNION {main, UNION {old[i] : i \in Backups}} : x >= since} = n .. lines
  <1> DEFINE kept == UNION {old[i] : i \in Backups}
  <1>1. /\ lines \in Nat /\ main \in SUBSET Nat /\ kept \in SUBSET Nat
    BY LogTyped
  <1>2. PICK m \in 1 .. lines + 1 : main \ NoFile = m .. lines /\ kept \ NoFile = 1 .. m - 1
    BY DEF ByDay
  <1> HIDE DEF kept
  <1>3. {x \in UNION {main, kept} : x >= since} = (main \ NoFile) \cup (kept \ NoFile)
    <2>1. \A x : x \in UNION {main, kept} <=> x \in main \/ x \in kept
      OBVIOUS
    <2>2. \A x \in Nat : x >= since <=> x \notin NoFile
      BY DEF NoFile
    <2> QED
      BY <1>1, <2>1, <2>2
  <1>4. (m .. lines) \cup (1 .. m - 1) = 1 .. lines
    BY <1>1
  <1>5. {x \in UNION {main, kept} : x >= since} = 1 .. lines
    BY <1>2, <1>3, <1>4, Zenon
  <1>6. 1 \in since .. lines + 1
    BY <1>1
  <1> QED
    BY <1>5, <1>6 DEF kept

\* Of the lines since the numbering of the backups last began anew, the files hold
\* all from one on: only the oldest go, whoever logs while a file is being
\* replaced and wherever the program ended, between Rename and Create too
\* (LogInfo.rename, coverNextOne, SetRollingFile), as long as no file operation
\* failed.
THEOREM LogKeepsTail == LogSpec => []KeepsTail
  <1>1. LogInv => KeepsTail
    <2> SUFFICES ASSUME LogInv, intact
                 PROVE  \E n \in since .. (lines + 1) :
                          {x \in UNION {main, UNION {old[i] : i \in Backups}} : x >= since}
                            = n .. lines
      BY DEF KeepsTail
    <2>1. LogTypes /\ IF dailyRolling THEN since = 1 /\ ByDay(main, old, fileDate, lines)
                      ELSE BySize(main, old, fileSuffix, since, lines)
      BY DEF LogInv, Whole
    <2>2. CASE dailyRolling
      BY <2>1, <2>2, ByDayKeepsTail
    <2>3. CASE ~ dailyRolling
      BY <2>1, <2>3, BySizeKeepsTail
    <2> QED
      BY <2>2, <2>3
  <1> QED
    BY <1>1, SpecLogInv, PTL

\* The file of a day is renamed once, however many goroutines passed fileCheck's
\* first test: the test under the lock, in rename, sees the new date.
THEOREM LogOncePerDay == LogSpec => OncePerDay
  <1>1. LogInv /\ [LogNext]_logVars =>
          [dailyRolling /\ old' # old => fileDate' > fileDate]_logVars
    <2> SUFFICES ASSUME LogInv, LogNext, dailyRolling, old' # old PROVE fileDate' > fileDate
      OBVIOUS
    <2>1. fileDate \in Nat /\ today \in Nat /\ at[Monitor] # "rolling"
      BY BoundsAssumption DEF LogInv, LogTypes
    <2>2. PICK p \in Loggers : LogRolls(p)
      BY <2>1 DEF LogNext, Log, LogWrites, MonitorChecks, MonitorRolls, NextDay, RestartOpens,
                  RestartRolls, files
    <2>3. ifMustRename /\ fileDate' = today
      BY <2>2 DEF LogRolls, renameDaily, files
    <2> QED
      BY <2>1, <2>3 DEF ifMustRename
  <1> QED
    BY <1>1, SpecLogInv, PTL DEF LogSpec, OncePerDay
=============================================================================

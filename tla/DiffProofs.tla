----------------------------- MODULE DiffProofs -----------------------------
(***************************************************************************)
(* Theorems about FindEquivLines and Diff, for all texts, hash functions   *)
(* and table sizes.  What holds after each turn of a loop is shown by the  *)
(* least turn after which it does not (LeastNumber, Induction).            *)
(***************************************************************************)
EXTENDS Diff, WellFoundedInduction, SequenceTheorems, TLAPS

\* Every set of numbers has a least one.
LEMMA LeastNumber ==
  ASSUME NEW T \in SUBSET Nat, T # {}
  PROVE  \E m \in T : \A k \in T : m <= k
  <1> DEFINE R == OpToRel(<, Nat)
  <1>0. \A i, j \in Nat : i < j => <<i, j>> \in R
    BY DEF OpToRel
  <1>1. IsWellFoundedOn(R, Nat)
    BY NatLessThanWellFounded
  <1>2. PICK m \in T : \A k \in T : <<k, m>> \notin R
    <2> HIDE DEF R
    <2> QED
      BY <1>1, WFMin
  <1> HIDE DEF R
  <1>3. \A k \in T : ~ (k < m)
    BY <1>0, <1>2
  <1> QED
    BY <1>3

\* Induction up to a bound, over a set.
LEMMA Induction ==
  ASSUME NEW N \in Nat, NEW T, 0 \in T, \A n \in 0 .. N - 1 : n \in T => n + 1 \in T
  PROVE  \A n \in 0 .. N : n \in T
  <1> DEFINE bad == {n \in 0 .. N : n \notin T}
  <1> SUFFICES ASSUME bad # {} PROVE FALSE
    OBVIOUS
  <1>1. bad \in SUBSET Nat
    OBVIOUS
  <1>2. PICK m \in bad : \A k \in bad : m <= k
    <2> HIDE DEF bad
    <2> QED
      BY <1>1, LeastNumber
  <1>3. m # 0 /\ m \in Nat /\ m <= N
    BY <1>2
  <1>4. m - 1 \in 0 .. N - 1 /\ m - 1 \notin bad
    BY <1>2, <1>3
  <1> QED
    BY <1>2, <1>4

-----------------------------------------------------------------------------
(***************************************************************************)
(* find_equiv_lines: the numbers of the lines of two texts.                *)
(***************************************************************************)
Entry == [id : Nat \ {0}, line : Items]
TableStates == [table : [0 .. Buckets - 1 -> Seq(Entry)], ids : Seq(Nat \ {0}), next : Nat \ {0}]

Bucket(x) == Hash[x] % Buckets

\* A line's hash chooses one of the buckets.
LEMMA BucketTyped == \A x \in Items : Bucket(x) \in 0 .. Buckets - 1
  <1> SUFFICES ASSUME NEW x \in Items PROVE Bucket(x) \in 0 .. Buckets - 1
    OBVIOUS
  <1>1. Hash[x] \in Nat /\ Buckets \in Nat \ {0}
    BY BucketsAssumption, HashAssumption
  <1> QED
    BY <1>1 DEF Bucket

\* A new entry joins those of its chain.
LEMMA ChainedFacts ==
  ASSUME NEW S, NEW chain \in Seq(S), NEW entry \in S
  PROVE  Chained(chain, entry) \in Seq(S) /\ ToSet(Chained(chain, entry)) = ToSet(chain) \cup {entry}
  <1>1. CASE chain = <<>>
    <2>1. Chained(chain, entry) = <<entry>>
      BY <1>1 DEF Chained
    <2>2. ToSet(chain) = {} /\ ToSet(<<entry>>) = {entry}
      BY <1>1 DEF ToSet
    <2> QED
      BY <2>1, <2>2
  <1>2. CASE chain # <<>>
    <2> DEFINE n == Len(chain)
               c == Chained(chain, entry)
    <2>1. n \in Nat \ {0} /\ DOMAIN chain = 1 .. n /\ \A i \in 1 .. n : chain[i] \in S
      BY <1>2
    <2>2. c = <<Head(chain), entry>> \o Tail(chain)
      BY <1>2 DEF Chained
    <2>3. /\ Head(chain) = chain[1] /\ Tail(chain) \in Seq(S) /\ Len(Tail(chain)) = n - 1
          /\ \A i \in 1 .. n - 1 : Tail(chain)[i] = chain[i + 1]
      BY <1>2, <2>1
    <2> DEFINE t == Tail(chain)
               h == <<Head(chain), entry>>
    <2>4. h \in Seq(S) /\ Len(h) = 2 /\ h[1] = chain[1] /\ h[2] = entry
      BY <2>1, <2>3
    <2>5. t \in Seq(S) /\ Len(t) = n - 1 /\ \A i \in 1 .. n - 1 : t[i] = chain[i + 1]
      BY <2>3
    <2> HIDE DEF n, t, h
    <2>6. h \o t \in Seq(S) /\ Len(h \o t) = n + 1
          /\ \A i \in 1 .. n + 1 : (h \o t)[i] = IF i <= 2 THEN h[i] ELSE t[i - 2]
      <3>1. /\ h \o t \in Seq(S) /\ Len(h \o t) = Len(h) + Len(t)
            /\ \A i \in 1 .. Len(h) + Len(t) :
                 (h \o t)[i] = IF i <= Len(h) THEN h[i] ELSE t[i - Len(h)]
        BY <2>4, <2>5, ConcatProperties
      <3>2. Len(h) + Len(t) = n + 1
        BY <2>1, <2>4, <2>5
      <3> QED
        BY <2>4, <3>1, <3>2
    <2>7. c = h \o t
      BY <2>2 DEF h, t
    <2> HIDE DEF c
    <2>8. /\ c \in Seq(S) /\ Len(c) = n + 1 /\ c[1] = chain[1] /\ c[2] = entry
          /\ \A i \in 3 .. n + 1 : c[i] = chain[i - 1]
      <3>1. c[1] = chain[1] /\ c[2] = entry
        BY <2>1, <2>4, <2>6, <2>7
      <3>2. ASSUME NEW i \in 3 .. n + 1 PROVE c[i] = chain[i - 1]
        <4>1. i - 2 \in 1 .. n - 1 /\ i - 2 + 1 = i - 1 /\ i \in 1 .. n + 1 /\ ~ (i <= 2)
          BY <2>1
        <4> QED
          BY <2>5, <2>6, <2>7, <4>1
      <3> QED
        BY <2>6, <2>7, <3>1, <3>2
    <2>9. ToSet(c) = {c[i] : i \in 1 .. n + 1} /\ ToSet(chain) = {chain[i] : i \in 1 .. n}
      <3>1. DOMAIN c = 1 .. n + 1 /\ DOMAIN chain = 1 .. n
        BY <2>1, <2>8
      <3> QED
        BY <3>1, Zenon DEF ToSet
    <2>10. ASSUME NEW i \in 1 .. n + 1 PROVE c[i] \in {chain[j] : j \in 1 .. n} \cup {entry}
      <3>1. i = 1 \/ i = 2 \/ (i \in 3 .. n + 1 /\ i - 1 \in 1 .. n)
        BY <2>1
      <3>2. 1 \in 1 .. n
        BY <2>1
      <3> QED
        BY <2>8, <3>1, <3>2
    <2>11. ASSUME NEW j \in 1 .. n PROVE \E i \in 1 .. n + 1 : c[i] = chain[j]
      <3>1. CASE j = 1
        BY <2>1, <2>8, <3>1
      <3>2. CASE j # 1
        <4>1. j + 1 \in 3 .. n + 1 /\ j + 1 \in 1 .. n + 1 /\ j + 1 - 1 = j
          BY <2>1, <3>2
        <4> QED
          BY <2>8, <4>1
      <3> QED
        BY <3>1, <3>2
    <2>12. \E i \in 1 .. n + 1 : c[i] = entry
      <3>1. 2 \in 1 .. n + 1
        BY <2>1
      <3> QED
        BY <2>8, <3>1
    <2> QED
      BY <2>8, <2>9, <2>10, <2>11, <2>12 DEF c
  <1> QED
    BY <1>1, <1>2

\* A line that is found gets the number of its entry; one that is not, the next
\* number and an entry.
LEMMA ClassifyFacts ==
  ASSUME NEW st \in TableStates, NEW x \in Items
  PROVE  LET b == Bucket(x)
             r == Classify(st, x)
         IN \/ \E e \in ToSet(st.table[b]) :
                 e.line = x /\ r = [table |-> st.table, ids |-> Append(st.ids, e.id), next |-> st.next]
            \/ /\ \A e \in ToSet(st.table[b]) : e.line # x
               /\ r.ids = Append(st.ids, st.next) /\ r.next = st.next + 1
               /\ r = [table |-> r.table, ids |-> r.ids, next |-> r.next]
               /\ r.table \in [0 .. Buckets - 1 -> Seq(Entry)]
               /\ \A c \in 0 .. Buckets - 1 : ToSet(r.table[c]) =
                    IF c = b THEN ToSet(st.table[b]) \cup {[id |-> st.next, line |-> x]}
                    ELSE ToSet(st.table[c])
  <1> DEFINE b == Bucket(x)
             chain == st.table[b]
             r == Classify(st, x)
             entry == [id |-> st.next, line |-> x]
  <1>0. /\ b \in 0 .. Buckets - 1 /\ chain \in Seq(Entry) /\ entry \in Entry
        /\ st.table \in [0 .. Buckets - 1 -> Seq(Entry)] /\ st.ids \in Seq(Nat \ {0}) /\ st.next \in Nat \ {0}
        /\ st = [table |-> st.table, ids |-> st.ids, next |-> st.next]
    <2>1. b \in 0 .. Buckets - 1
      BY BucketTyped
    <2>2. /\ st.table \in [0 .. Buckets - 1 -> Seq(Entry)] /\ st.ids \in Seq(Nat \ {0}) /\ st.next \in Nat \ {0}
          /\ st = [table |-> st.table, ids |-> st.ids, next |-> st.next]
      BY DEF TableStates
    <2>3. entry \in Entry
      BY <2>2 DEF Entry
    <2> HIDE DEF b, entry
    <2> QED
      BY <2>1, <2>2, <2>3
  <1>1. FoundIn(chain, x) = {i \in DOMAIN chain : chain[i].line = x}
    BY DEF FoundIn
  <1>2. r = IF FoundIn(chain, x) # {}
            THEN [st EXCEPT !.ids = Append(@, chain[CHOOSE i \in FoundIn(chain, x) : TRUE].id)]
            ELSE [st EXCEPT !.ids = Append(@, st.next),
                            !.table[b] = Chained(chain, entry),
                            !.next = @ + 1]
    BY DEF Classify, Bucket
  <1>3. CASE FoundIn(chain, x) # {}
    <2> DEFINE k == CHOOSE i \in FoundIn(chain, x) : TRUE
    <2>1. k \in FoundIn(chain, x)
      BY <1>3
    <2>2. chain[k] \in ToSet(chain) /\ chain[k].line = x
      BY <1>1, <2>1 DEF ToSet
    <2>3. r = [st EXCEPT !.ids = Append(@, chain[k].id)]
      BY <1>2, <1>3
    <2> HIDE DEF k, r, chain
    <2>4. r = [table |-> st.table, ids |-> Append(st.ids, chain[k].id), next |-> st.next]
      BY <1>0, <2>3
    <2> QED
      BY <2>2, <2>4 DEF r, chain
  <1>4. CASE FoundIn(chain, x) = {}
    <2>1. \A e \in ToSet(chain) : e.line # x
      BY <1>1, <1>4 DEF ToSet
    <2> DEFINE new == Chained(chain, entry)
               t == [st.table EXCEPT ![b] = new]
    <2>2. new \in Seq(Entry) /\ ToSet(new) = ToSet(chain) \cup {entry}
      <3> HIDE DEF chain, entry
      <3> QED
        BY <1>0, ChainedFacts
    <2>3. r = [st EXCEPT !.ids = Append(@, st.next), !.table[b] = new, !.next = @ + 1]
      BY <1>2, <1>4
    <2> HIDE DEF new, entry, r, chain, b
    <2>4. r = [table |-> t, ids |-> Append(st.ids, st.next), next |-> st.next + 1]
      BY <1>0, <2>3
    <2>5. t \in [0 .. Buckets - 1 -> Seq(Entry)] /\ t[b] = new
          /\ \A c \in 0 .. Buckets - 1 : c # b => t[c] = st.table[c]
      BY <1>0, <2>2
    <2> HIDE DEF t
    <2>6. r.table = t /\ r.ids = Append(st.ids, st.next) /\ r.next = st.next + 1
          /\ r = [table |-> r.table, ids |-> r.ids, next |-> r.next]
      BY <2>4
    <2>7. \A c \in 0 .. Buckets - 1 : ToSet(r.table[c]) =
            IF c = b THEN ToSet(st.table[b]) \cup {entry} ELSE ToSet(st.table[c])
      BY <2>2, <2>5, <2>6 DEF chain
    <2> QED
      BY <2>1, <2>5, <2>6, <2>7 DEF r, chain, b, entry
  <1> QED
    BY <1>3, <1>4

-----------------------------------------------------------------------------
\* f is the states of the loop up to line n.
Loop(text, f, n) ==
    /\ f = [i \in 0 .. n |-> f[i]]
    /\ f[0] = NoLines
    /\ \A i \in 1 .. n : f[i] = Classify(f[i - 1], text[i])

\* The recursive definition is of a function that exists.
LEMMA ClassifiedDef ==
  ASSUME NEW text \in Seq(Items)
  PROVE  Loop(text, Classified(text), Len(text))
  <1> DEFINE N == Len(text)
             T == {n \in Nat : \E f : Loop(text, f, n)}
             Def(f) == [i \in 0 .. N |-> IF i = 0 THEN NoLines ELSE Classify(f[i - 1], text[i])]
  <1>0. N \in Nat
    OBVIOUS
  <1>1. 0 \in T
    <2>1. Loop(text, [i \in 0 .. 0 |-> NoLines], 0)
      BY DEF Loop
    <2> QED
      BY <2>1
  <1>2. ASSUME NEW n \in 0 .. N - 1, n \in T PROVE n + 1 \in T
    <2>1. PICK f : Loop(text, f, n)
      BY <1>2
    <2> DEFINE g == [i \in 0 .. n + 1 |-> IF i = n + 1 THEN Classify(f[n], text[n + 1]) ELSE f[i]]
    <2>2. Loop(text, g, n + 1)
      <3>1. g = [i \in 0 .. n + 1 |-> g[i]] /\ g[0] = NoLines
        BY <2>1, <1>0 DEF Loop
      <3>2. ASSUME NEW i \in 1 .. n + 1 PROVE g[i] = Classify(g[i - 1], text[i])
        <4>1. CASE i = n + 1
          BY <4>1, <1>0
        <4>2. CASE i # n + 1
          <5>1. g[i] = f[i] /\ g[i - 1] = f[i - 1] /\ i \in 1 .. n
            BY <4>2, <1>0
          <5> QED
            BY <5>1, <2>1 DEF Loop
        <4> QED
          BY <4>1, <4>2
      <3> QED
        BY <3>1, <3>2 DEF Loop
    <2> QED
      BY <2>2
  <1>3. N \in T
    <2> HIDE DEF T, N
    <2>1. \A n \in 0 .. N - 1 : n \in T => n + 1 \in T
      BY <1>2
    <2>2. \A n \in 0 .. N : n \in T
      BY <1>0, <1>1, <2>1, Induction
    <2> QED
      BY <1>0, <2>2
  <1>4. PICK f : Loop(text, f, N)
    BY <1>3
  <1>5. f = Def(f)
    <2>1. \A i \in 0 .. N : f[i] = IF i = 0 THEN NoLines ELSE Classify(f[i - 1], text[i])
      <3>1. f[0] = NoLines /\ \A i \in 1 .. N : f[i] = Classify(f[i - 1], text[i])
        BY <1>4 DEF Loop
      <3> HIDE DEF N
      <3>2. \A i \in 0 .. N : i = 0 \/ i \in 1 .. N
        BY <1>0
      <3> QED
        BY <3>1, <3>2
    <2>2. f = [i \in 0 .. N |-> f[i]]
      BY <1>4 DEF Loop
    <2> QED
      BY <2>1, <2>2, Zenon
  <1>6. Classified(text) = CHOOSE g : g = Def(g)
    BY DEF Classified
  <1>7. Classified(text) = Def(Classified(text))
    BY <1>5, <1>6
  <1> DEFINE st == Classified(text)
  <1> HIDE DEF st, N
  <1>8. st = Def(st)
    BY <1>7 DEF st
  <1>9. st = [i \in 0 .. N |-> st[i]] /\ st[0] = NoLines
    BY <1>8, <1>0
  <1>10. \A i \in 1 .. N : st[i] = Classify(st[i - 1], text[i])
    BY <1>8, <1>0
  <1> QED
    BY <1>9, <1>10 DEF Loop, st, N

\* The entries are each in the bucket of their line, none has the number that
\* comes next, two have the same number just when they have the same line, and
\* every line so far has the number of its entry.
ClassInv(text, st, i) ==
    /\ st \in TableStates
    /\ Len(st.ids) = i
    /\ \A b \in 0 .. Buckets - 1 : \A e \in ToSet(st.table[b]) :
         Bucket(e.line) = b /\ e.id < st.next
    /\ \A b, c \in 0 .. Buckets - 1 : \A d \in ToSet(st.table[b]), e \in ToSet(st.table[c]) :
         d.id = e.id <=> d.line = e.line
    /\ \A j \in 1 .. i : \E e \in ToSet(st.table[Bucket(text[j])]) :
         e.line = text[j] /\ e.id = st.ids[j]

\* find_equiv_lines numbers one line more.
LEMMA ClassInvStep ==
  ASSUME NEW text \in Seq(Items), NEW i \in 1 .. Len(text), NEW st, ClassInv(text, st, i - 1)
  PROVE  ClassInv(text, Classify(st, text[i]), i)
  <1> DEFINE x == text[i]
             r == Classify(st, x)
             B == Bucket(x)
  <1>0. /\ st \in TableStates /\ x \in Items /\ i \in Nat /\ i - 1 \in Nat
        /\ \A j \in 1 .. i : text[j] \in Items
    BY DEF ClassInv
  <1>1. /\ st.table \in [0 .. Buckets - 1 -> Seq(Entry)] /\ st.ids \in Seq(Nat \ {0}) /\ st.next \in Nat \ {0}
        /\ B \in 0 .. Buckets - 1
    BY <1>0, BucketTyped DEF TableStates
  <1>2. /\ Len(st.ids) = i - 1
        /\ \A b \in 0 .. Buckets - 1 : \A e \in ToSet(st.table[b]) :
             Bucket(e.line) = b /\ e.id < st.next
        /\ \A b, c \in 0 .. Buckets - 1 : \A d \in ToSet(st.table[b]), e \in ToSet(st.table[c]) :
             d.id = e.id <=> d.line = e.line
        /\ \A j \in 1 .. i - 1 : \E e \in ToSet(st.table[Bucket(text[j])]) :
             e.line = text[j] /\ e.id = st.ids[j]
    BY DEF ClassInv
  <1>3. \A b \in 0 .. Buckets - 1 : \A e \in ToSet(st.table[b]) : e \in Entry /\ e.id \in Nat \ {0}
    <2> SUFFICES ASSUME NEW b \in 0 .. Buckets - 1, NEW e \in ToSet(st.table[b])
                 PROVE  e \in Entry /\ e.id \in Nat \ {0}
      OBVIOUS
    <2> DEFINE chain == st.table[b]
    <2>1. chain \in Seq(Entry) /\ e \in ToSet(chain)
      BY <1>1
    <2> HIDE DEF chain
    <2>2. e \in Entry
      BY <2>1 DEF ToSet
    <2> QED
      BY <2>2 DEF Entry
  <1>4. ASSUME NEW n \in Nat \ {0}, r.ids = Append(st.ids, n)
        PROVE  /\ r.ids \in Seq(Nat \ {0}) /\ Len(r.ids) = i /\ r.ids[i] = n
               /\ \A j \in 1 .. i - 1 : r.ids[j] = st.ids[j]
    <2> DEFINE was == st.ids
    <2>1. was \in Seq(Nat \ {0}) /\ Len(was) = i - 1 /\ r.ids = Append(was, n)
      BY <1>1, <1>2, <1>4
    <2> HIDE DEF was, r
    <2> QED
      BY <1>0, <2>1 DEF was
  <1>5. CASE \E e \in ToSet(st.table[B]) :
               e.line = x /\ r = [table |-> st.table, ids |-> Append(st.ids, e.id), next |-> st.next]
    <2>1. PICK e \in ToSet(st.table[B]) :
            e.line = x /\ r = [table |-> st.table, ids |-> Append(st.ids, e.id), next |-> st.next]
      BY <1>5
    <2> HIDE DEF r, x, B
    <2>2. e.id \in Nat \ {0} /\ r.table = st.table /\ r.next = st.next /\ r.ids = Append(st.ids, e.id)
      BY <1>1, <1>3, <2>1
    <2>3. /\ r.ids \in Seq(Nat \ {0}) /\ Len(r.ids) = i /\ r.ids[i] = e.id
          /\ \A j \in 1 .. i - 1 : r.ids[j] = st.ids[j]
      BY <1>4, <2>2
    <2>4. r \in TableStates
      BY <1>1, <2>1, <2>2, <2>3 DEF TableStates
    <2>5. ASSUME NEW j \in 1 .. i
          PROVE  \E d \in ToSet(r.table[Bucket(text[j])]) : d.line = text[j] /\ d.id = r.ids[j]
      <3>1. CASE j = i
        BY <2>1, <2>2, <2>3, <3>1 DEF x, B
      <3>2. CASE j # i
        <4>1. j \in 1 .. i - 1
          BY <1>0, <3>2
        <4> QED
          BY <1>2, <2>2, <2>3, <4>1
      <3> QED
        BY <3>1, <3>2
    <2> QED
      BY <1>2, <2>2, <2>3, <2>4, <2>5 DEF ClassInv, r, x
  <1>6. CASE /\ \A e \in ToSet(st.table[B]) : e.line # x
             /\ r.ids = Append(st.ids, st.next) /\ r.next = st.next + 1
             /\ r = [table |-> r.table, ids |-> r.ids, next |-> r.next]
             /\ r.table \in [0 .. Buckets - 1 -> Seq(Entry)]
             /\ \A c \in 0 .. Buckets - 1 : ToSet(r.table[c]) =
                  IF c = B THEN ToSet(st.table[B]) \cup {[id |-> st.next, line |-> x]}
                  ELSE ToSet(st.table[c])
    <2> DEFINE entry == [id |-> st.next, line |-> x]
    <2>1. /\ r.ids \in Seq(Nat \ {0}) /\ Len(r.ids) = i /\ r.ids[i] = st.next
          /\ \A j \in 1 .. i - 1 : r.ids[j] = st.ids[j]
      BY <1>1, <1>4, <1>6
    <2>2. r \in TableStates
      <3>1. r.next \in Nat \ {0} /\ r.table \in [0 .. Buckets - 1 -> Seq(Entry)] /\ r.ids \in Seq(Nat \ {0})
            /\ r = [table |-> r.table, ids |-> r.ids, next |-> r.next]
        BY <1>1, <1>6, <2>1
      <3> HIDE DEF r
      <3> QED
        BY <3>1 DEF TableStates
    <2>3. entry.id = st.next /\ entry.line = x /\ Bucket(entry.line) = B
      OBVIOUS
    <2>3a. /\ r.next = st.next + 1
           /\ \A e \in ToSet(st.table[B]) : e.line # x
           /\ \A c \in 0 .. Buckets - 1 : ToSet(r.table[c]) =
                IF c = B THEN ToSet(st.table[B]) \cup {entry} ELSE ToSet(st.table[c])
      BY <1>6
    <2> HIDE DEF entry, r, x, B
    <2>4. \A c \in 0 .. Buckets - 1 : \A e \in ToSet(r.table[c]) :
            e \in ToSet(st.table[c]) \/ (c = B /\ e = entry)
      BY <2>3a
    <2>5. \A c \in 0 .. Buckets - 1 : \A e \in ToSet(r.table[c]) :
            Bucket(e.line) = c /\ e.id < r.next
      <3> SUFFICES ASSUME NEW c \in 0 .. Buckets - 1, NEW e \in ToSet(r.table[c])
                   PROVE  Bucket(e.line) = c /\ e.id < r.next
        OBVIOUS
      <3>1. CASE e \in ToSet(st.table[c])
        BY <1>1, <1>2, <1>3, <2>3a, <3>1
      <3>2. CASE c = B /\ e = entry
        BY <1>1, <2>3, <2>3a, <3>2
      <3> QED
        BY <2>4, <3>1, <3>2
    <2>6. \A c \in 0 .. Buckets - 1 : \A e \in ToSet(st.table[c]) : e.id # st.next /\ e.line # x
      <3> SUFFICES ASSUME NEW c \in 0 .. Buckets - 1, NEW e \in ToSet(st.table[c])
                   PROVE  e.id # st.next /\ e.line # x
        OBVIOUS
      <3>1. e.id \in Nat \ {0} /\ e.id < st.next /\ Bucket(e.line) = c
        BY <1>2, <1>3
      <3>2. e.line # x
        <4>1. CASE c = B
          BY <2>3a, <4>1
        <4>2. CASE c # B
          BY <3>1, <4>2 DEF B
        <4> QED
          BY <4>1, <4>2
      <3> QED
        BY <1>1, <3>1, <3>2
    <2>7. \A b, c \in 0 .. Buckets - 1 : \A d \in ToSet(r.table[b]), e \in ToSet(r.table[c]) :
            d.id = e.id <=> d.line = e.line
      <3> SUFFICES ASSUME NEW b \in 0 .. Buckets - 1, NEW c \in 0 .. Buckets - 1,
                          NEW d \in ToSet(r.table[b]), NEW e \in ToSet(r.table[c])
                   PROVE  d.id = e.id <=> d.line = e.line
        OBVIOUS
      <3>1. CASE d \in ToSet(st.table[b]) /\ e \in ToSet(st.table[c])
        BY <1>2, <3>1
      <3>2. CASE d \in ToSet(st.table[b]) /\ e = entry
        BY <2>3, <2>6, <3>2
      <3>3. CASE d = entry /\ e \in ToSet(st.table[c])
        BY <2>3, <2>6, <3>3
      <3>4. CASE d = entry /\ e = entry
        BY <3>4
      <3> QED
        BY <2>4, <3>1, <3>2, <3>3, <3>4
    <2>8. ASSUME NEW j \in 1 .. i
          PROVE  \E d \in ToSet(r.table[Bucket(text[j])]) : d.line = text[j] /\ d.id = r.ids[j]
      <3>1. CASE j = i
        BY <1>1, <2>1, <2>3, <2>3a, <3>1 DEF x, B
      <3>2. CASE j # i
        <4>1. j \in 1 .. i - 1 /\ Bucket(text[j]) \in 0 .. Buckets - 1
          BY <1>0, <3>2, BucketTyped
        <4>2. PICK d \in ToSet(st.table[Bucket(text[j])]) : d.line = text[j] /\ d.id = st.ids[j]
          BY <1>2, <4>1
        <4>3. d \in ToSet(r.table[Bucket(text[j])])
          BY <2>3a, <4>1, <4>2
        <4> QED
          BY <2>1, <4>1, <4>2, <4>3
      <3> QED
        BY <3>1, <3>2
    <2> QED
      BY <2>1, <2>2, <2>5, <2>7, <2>8 DEF ClassInv, r, x
  <1> QED
    BY <1>0, <1>5, <1>6, ClassifyFacts

\* And so all lines of both texts, one after the other.
LEMMA ClassifiedInv ==
  ASSUME NEW text \in Seq(Items)
  PROVE  ClassInv(text, Classified(text)[Len(text)], Len(text))
  <1> DEFINE N == Len(text)
             st == Classified(text)
             T == {i \in 0 .. N : ClassInv(text, st[i], i)}
  <1>0. N \in Nat /\ Loop(text, st, N)
    BY ClassifiedDef
  <1>1. 0 \in T
    <2>1. NoLines \in TableStates /\ NoLines.ids = <<>>
          /\ \A b \in 0 .. Buckets - 1 : NoLines.table[b] = <<>>
      BY DEF NoLines, TableStates
    <2>2. \A b \in 0 .. Buckets - 1 : ToSet(NoLines.table[b]) = {}
      BY <2>1 DEF ToSet
    <2>3. ClassInv(text, NoLines, 0)
      <3>1. Len(NoLines.ids) = 0 /\ \A j \in 1 .. 0 : FALSE
        BY <2>1
      <3> QED
        BY <2>1, <2>2, <3>1 DEF ClassInv
    <2> QED
      BY <1>0, <2>3 DEF Loop
  <1>2. ASSUME NEW n \in 0 .. N - 1, n \in T PROVE n + 1 \in T
    <2>1. ClassInv(text, st[n], n) /\ n + 1 \in 1 .. N /\ n + 1 - 1 = n
      BY <1>0, <1>2
    <2>2. st[n + 1] = Classify(st[n], text[n + 1])
      <3>1. \A i \in 1 .. N : st[i] = Classify(st[i - 1], text[i])
        BY <1>0 DEF Loop
      <3>2. \A i \in 1 .. N : i - 1 = n => st[i] = Classify(st[n], text[i])
        BY <3>1, Zenon
      <3> HIDE DEF st, N
      <3> QED
        BY <2>1, <3>2
    <2>3. ClassInv(text, st[n + 1], n + 1)
      <3> DEFINE i == n + 1
      <3>1. i \in 1 .. N /\ ClassInv(text, st[n], i - 1)
        <4>1. i \in 1 .. N /\ i - 1 = n
          BY <2>1
        <4> HIDE DEF i
        <4> QED
          BY <2>1, <4>1, Zenon
      <3> HIDE DEF i, st
      <3>2. ClassInv(text, Classify(st[n], text[i]), i)
        BY <3>1, ClassInvStep
      <3> QED
        BY <2>2, <3>2 DEF i
    <2> QED
      BY <2>1, <2>3
  <1> HIDE DEF T
  <1>3. \A i \in 0 .. N : i \in T
    BY <1>0, <1>1, <1>2, Induction
  <1>4. N \in T
    BY <1>0, <1>3
  <1> QED
    BY <1>4 DEF T

\* Its numbers are positive, one per line, and equal just for equal lines.
LEMMA EquivIdsFacts ==
  ASSUME NEW texts \in [Sides -> Seq(Items)]
  PROVE  /\ SameLines(texts, EquivIds(texts))
         /\ \A f \in Sides : DOMAIN EquivIds(texts)[f] = 1 .. Len(texts[f])
         /\ EquivIds(texts) \in [Sides -> Seq(Nat \ {0})]
  <1> DEFINE a == texts[1]
             b == texts[2]
             m == Len(a)
             n == Len(b)
             text == a \o b
             both == Classified(text)[m + n].ids
             nums == EquivIds(texts)
  <1>1. a \in Seq(Items) /\ b \in Seq(Items) /\ m \in Nat /\ n \in Nat
        /\ DOMAIN a = 1 .. m /\ DOMAIN b = 1 .. n
    BY DEF Sides
  <1>2. text \in Seq(Items) /\ Len(text) = m + n
        /\ \A i \in 1 .. m + n : text[i] = IF i <= m THEN a[i] ELSE b[i - m]
    <2> HIDE DEF a, b
    <2> QED
      BY <1>1, ConcatProperties
  <1> HIDE DEF a, b, m, n, text
  <1>3. ClassInv(text, Classified(text)[m + n], m + n)
    BY <1>2, ClassifiedInv
  <1>4. /\ both \in Seq(Nat \ {0}) /\ Len(both) = m + n
        /\ \A i, j \in 1 .. m + n : both[i] = both[j] <=> text[i] = text[j]
    <2> DEFINE st == Classified(text)[m + n]
    <2>1. st.ids \in Seq(Nat \ {0}) /\ Len(st.ids) = m + n
      BY <1>3 DEF ClassInv, TableStates
    <2>2. \A i \in 1 .. m + n : text[i] \in Items /\ Bucket(text[i]) \in 0 .. Buckets - 1
      BY <1>2, BucketTyped
    <2> HIDE DEF st
    <2>3. ASSUME NEW i \in 1 .. m + n, NEW j \in 1 .. m + n
          PROVE  st.ids[i] = st.ids[j] <=> text[i] = text[j]
      <3>0. ClassInv(text, st, m + n)
        BY <1>3 DEF st
      <3>1. PICK d \in ToSet(st.table[Bucket(text[i])]) : d.line = text[i] /\ d.id = st.ids[i]
        BY <3>0 DEF ClassInv
      <3>2. PICK e \in ToSet(st.table[Bucket(text[j])]) : e.line = text[j] /\ e.id = st.ids[j]
        BY <3>0 DEF ClassInv
      <3>3. d.id = e.id <=> d.line = e.line
        BY <2>2, <3>0 DEF ClassInv
      <3> QED
        BY <3>1, <3>2, <3>3
    <2> QED
      BY <2>1, <2>3 DEF st
  <1> HIDE DEF both
  <1>5. nums = [f \in Sides |-> IF f = 1 THEN SubSeq(both, 1, m) ELSE SubSeq(both, m + 1, Len(both))]
    BY DEF EquivIds, both, text, m, n, a, b
  <1>6. nums[1] = SubSeq(both, 1, m) /\ nums[2] = SubSeq(both, m + 1, m + n)
    <2>1. nums[1] = SubSeq(both, 1, m) /\ nums[2] = SubSeq(both, m + 1, Len(both))
      <3>1. 1 \in Sides /\ 2 \in Sides /\ 2 # 1
        BY DEF Sides
      <3> HIDE DEF nums
      <3> QED
        BY <1>5, <3>1, Zenon
    <2> HIDE DEF nums
    <2> QED
      BY <1>4, <2>1
  <1> HIDE DEF nums
  <1>7. \A i \in 1 .. m : nums[1][i] = both[i] /\ a[i] = text[i] /\ i \in 1 .. m + n
    BY <1>1, <1>2, <1>4, <1>6
  <1>8. \A i \in 1 .. n : nums[2][i] = both[m + i] /\ b[i] = text[m + i] /\ m + i \in 1 .. m + n
    <2> SUFFICES ASSUME NEW i \in 1 .. n
                 PROVE  nums[2][i] = both[m + i] /\ b[i] = text[m + i] /\ m + i \in 1 .. m + n
      OBVIOUS
    <2>1. m + i \in 1 .. m + n /\ ~ (m + i <= m) /\ (m + i) - m = i
      BY <1>1
    <2>2. b[i] = text[m + i]
      BY <1>2, <2>1
    <2>3. SubSeq(both, m + 1, m + n)[i] = both[m + i]
      BY <1>1, <1>4, <2>1
    <2> QED
      BY <1>6, <2>1, <2>2, <2>3
  <1>9. ASSUME NEW f \in Sides, NEW g \in Sides, NEW i \in DOMAIN texts[f], NEW j \in DOMAIN texts[g]
        PROVE  (nums[f][i] = nums[g][j]) = (texts[f][i] = texts[g][j])
    <2> DEFINE p == IF f = 1 THEN i ELSE m + i
               q == IF g = 1 THEN j ELSE m + j
    <2>1. p \in 1 .. m + n /\ nums[f][i] = both[p] /\ texts[f][i] = text[p]
      BY <1>1, <1>7, <1>8 DEF Sides, a, b
    <2>2. q \in 1 .. m + n /\ nums[g][j] = both[q] /\ texts[g][j] = text[q]
      BY <1>1, <1>7, <1>8 DEF Sides, a, b
    <2> HIDE DEF p, q
    <2>3. both[p] = both[q] <=> text[p] = text[q]
      BY <1>4, <2>1, <2>2
    <2> QED
      BY <2>1, <2>2, <2>3
  <1>10. ASSUME NEW f \in Sides PROVE DOMAIN nums[f] = 1 .. Len(texts[f])
    <2>1. CASE f = 1
      BY <1>1, <1>4, <1>6, <2>1 DEF a, b, m, n
    <2>2. CASE f = 2
      <3>1. DOMAIN SubSeq(both, m + 1, m + n) = 1 .. n
        BY <1>1, <1>4
      <3> QED
        BY <1>6, <2>2, <3>1 DEF b, n
    <2> QED
      BY <2>1, <2>2 DEF Sides
  <1>11. ASSUME NEW f \in Sides PROVE nums[f] \in Seq(Nat \ {0})
    <2>1. SubSeq(both, 1, m) \in Seq(Nat \ {0}) /\ SubSeq(both, m + 1, m + n) \in Seq(Nat \ {0})
      BY <1>1, <1>4
    <2>2. f = 1 \/ f = 2
      BY DEF Sides
    <2> QED
      BY <1>6, <2>1, <2>2
  <1>12. nums \in [Sides -> Seq(Nat \ {0})]
    BY <1>5, <1>11
  <1> QED
    BY <1>9, <1>10, <1>12 DEF SameLines, nums

\* Whatever hash function and however small the table of find_equiv_lines: two
\* lines of either file get the same number just when they are the same.
THEOREM EquivIdsAreLines ==
  ASSUME NEW texts \in [Sides -> Seq(Items)]
  PROVE  SameLines(texts, EquivIds(texts))
  BY EquivIdsFacts

-----------------------------------------------------------------------------
(***************************************************************************)
(* What is left of a text without what is marked.                          *)
(***************************************************************************)
\* The text kept after each item: f is that function up to item n.
KeptLoop(text, marks, f, n) ==
    /\ f = [i \in 0 .. n |-> f[i]]
    /\ f[0] = <<>>
    /\ \A i \in 1 .. n : f[i] = IF marks[i] THEN f[i - 1] ELSE Append(f[i - 1], text[i])

\* The recursive definition is of a function that exists.
LEMMA KeptUpToDef ==
  ASSUME NEW S, NEW text \in Seq(S), NEW marks \in Seq(BOOLEAN), Len(marks) = Len(text)
  PROVE  KeptLoop(text, marks, KeptUpTo(text, marks), Len(text))
  <1> DEFINE N == Len(text)
             Step(z, i) == IF marks[i] THEN z ELSE Append(z, text[i])
             T == {n \in Nat : \E f : KeptLoop(text, marks, f, n)}
             Def(f) == [i \in 0 .. N |-> IF i = 0 THEN <<>>
                          ELSE IF marks[i] THEN f[i - 1] ELSE Append(f[i - 1], text[i])]
  <1>0. N \in Nat
    OBVIOUS
  <1>1. 0 \in T
    <2>1. KeptLoop(text, marks, [i \in 0 .. 0 |-> <<>>], 0)
      BY DEF KeptLoop
    <2> QED
      BY <2>1
  <1>2. ASSUME NEW n \in 0 .. N - 1, n \in T PROVE n + 1 \in T
    <2>1. PICK f : KeptLoop(text, marks, f, n)
      BY <1>2
    <2> DEFINE g == [i \in 0 .. n + 1 |-> IF i = n + 1 THEN Step(f[n], n + 1) ELSE f[i]]
    <2>2. KeptLoop(text, marks, g, n + 1)
      <3>1. g = [i \in 0 .. n + 1 |-> g[i]] /\ g[0] = <<>>
        BY <2>1, <1>0 DEF KeptLoop
      <3>2. ASSUME NEW i \in 1 .. n + 1 PROVE g[i] = Step(g[i - 1], i)
        <4>1. CASE i = n + 1
          BY <4>1, <1>0
        <4>2. CASE i # n + 1
          <5>1. g[i] = f[i] /\ g[i - 1] = f[i - 1] /\ i \in 1 .. n
            BY <4>2, <1>0
          <5> QED
            BY <5>1, <2>1 DEF KeptLoop
        <4> QED
          BY <4>1, <4>2
      <3> HIDE DEF g
      <3> QED
        BY <3>1, <3>2 DEF KeptLoop
    <2> QED
      BY <2>2
  <1>3. N \in T
    <2> HIDE DEF T, N
    <2>1. \A n \in 0 .. N - 1 : n \in T => n + 1 \in T
      BY <1>2
    <2>2. \A n \in 0 .. N : n \in T
      BY <1>0, <1>1, <2>1, Induction
    <2> QED
      BY <1>0, <2>2
  <1>4. PICK f : KeptLoop(text, marks, f, N)
    BY <1>3
  <1>5. f = Def(f)
    <2>1. \A i \in 0 .. N : f[i] = IF i = 0 THEN <<>>
                                   ELSE IF marks[i] THEN f[i - 1] ELSE Append(f[i - 1], text[i])
      <3>1. f[0] = <<>>
        BY <1>4 DEF KeptLoop
      <3>2. \A i \in 1 .. N : f[i] = IF marks[i] THEN f[i - 1] ELSE Append(f[i - 1], text[i])
        BY <1>4 DEF KeptLoop
      <3> HIDE DEF N
      <3>3. \A i \in 0 .. N : i = 0 \/ (i # 0 /\ i \in 1 .. N)
        BY <1>0
      <3> QED
        BY <3>1, <3>2, <3>3
    <2>2. f = [i \in 0 .. N |-> f[i]]
      BY <1>4 DEF KeptLoop
    <2> QED
      BY <2>1, <2>2, Zenon
  <1>6. KeptUpTo(text, marks) = CHOOSE g : g = Def(g)
    BY DEF KeptUpTo
  <1>7. KeptUpTo(text, marks) = Def(KeptUpTo(text, marks))
    BY <1>5, <1>6
  <1> DEFINE k == KeptUpTo(text, marks)
  <1> HIDE DEF k, N
  <1>8. k = Def(k)
    BY <1>7 DEF k
  <1>9. k = [i \in 0 .. N |-> k[i]]
    BY <1>8
  <1>10. \A i \in 0 .. N : k[i] = IF i = 0 THEN <<>>
                                  ELSE IF marks[i] THEN k[i - 1] ELSE Append(k[i - 1], text[i])
    <2> HIDE DEF Def
    <2>1. \A i \in 0 .. N : k[i] = Def(k)[i]
      BY <1>8
    <2> QED
      BY <2>1 DEF Def
  <1>11. KeptLoop(text, marks, k, N)
    <2>1. k[0] = <<>>
      BY <1>0, <1>10
    <2>2. \A i \in 1 .. N : i \in 0 .. N /\ i # 0
      BY <1>0
    <2>3. \A i \in 1 .. N : k[i] = IF marks[i] THEN k[i - 1] ELSE Append(k[i - 1], text[i])
      BY <1>10, <2>2, Zenon
    <2> QED
      BY <1>9, <2>1, <2>3, Zenon DEF KeptLoop
  <1> QED
    BY <1>11 DEF k, N

\* The n items from p and from q on are equal, and so are their marks.
Alike(a, m1, m2, p, q, n) ==
    \A i \in 1 .. n : m1[p + i] = m2[q + i] /\ a[p + i] = a[q + i]

\* What two loops have collected stays the same as long as they pass over the same
\* items, from places p and q to u and v.
LEMMA SameStretch ==
  ASSUME NEW S, NEW a \in Seq(S), NEW m1 \in Seq(BOOLEAN), NEW m2 \in Seq(BOOLEAN),
         Len(m1) = Len(a), Len(m2) = Len(a),
         NEW p \in Nat, NEW q \in Nat, NEW n \in Nat, p + n <= Len(a), q + n <= Len(a),
         KeptUpTo(a, m1)[p] = KeptUpTo(a, m2)[q],
         Alike(a, m1, m2, p, q, n)
  PROVE  KeptUpTo(a, m1)[p + n] = KeptUpTo(a, m2)[q + n]
  <1> DEFINE k1 == KeptUpTo(a, m1)
             k2 == KeptUpTo(a, m2)
             T == {i \in 0 .. n : k1[p + i] = k2[q + i]}
  <1>1. \A i \in 1 .. Len(a) : /\ k1[i] = IF m1[i] THEN k1[i - 1] ELSE Append(k1[i - 1], a[i])
                               /\ k2[i] = IF m2[i] THEN k2[i - 1] ELSE Append(k2[i - 1], a[i])
    BY KeptUpToDef DEF KeptLoop
  <1> HIDE DEF k1, k2
  <1>2. 0 \in T
    BY DEF k1, k2
  <1>3. ASSUME NEW i \in 0 .. n - 1, i \in T PROVE i + 1 \in T
    <2> DEFINE b == p + (i + 1)
               c == q + (i + 1)
    <2>1. b \in 1 .. Len(a) /\ c \in 1 .. Len(a) /\ b - 1 = p + i /\ c - 1 = q + i /\ i + 1 \in 1 .. n
      OBVIOUS
    <2>2. m1[b] = m2[c] /\ a[b] = a[c]
      BY <2>1 DEF Alike
    <2>3. k1[b - 1] = k2[c - 1]
      BY <1>3, <2>1
    <2> HIDE DEF b, c
    <2>4. k1[b] = k2[c]
      BY <1>1, <2>1, <2>2, <2>3
    <2> QED
      BY <2>1, <2>4 DEF b, c
  <1> HIDE DEF T
  <1>4. \A i \in 0 .. n - 1 : i \in T => i + 1 \in T
    BY <1>3
  <1>5. \A i \in 0 .. n : i \in T
    BY <1>2, <1>4, Induction
  <1>6. n \in T
    BY <1>5
  <1>7. k1[p + n] = k2[q + n]
    BY <1>6 DEF T
  <1> QED
    BY <1>7 DEF k1, k2

\* Marked items add nothing.
LEMMA MarkedStretch ==
  ASSUME NEW S, NEW a \in Seq(S), NEW m \in Seq(BOOLEAN), Len(m) = Len(a),
         NEW p \in Nat, NEW x \in Nat, p <= x, x <= Len(a),
         \A i \in p + 1 .. x : m[i]
  PROVE  KeptUpTo(a, m)[x] = KeptUpTo(a, m)[p]
  <1> DEFINE k == KeptUpTo(a, m)
             n == x - p
             T == {i \in 0 .. n : k[p + i] = k[p]}
  <1>0. n \in Nat /\ x = p + n
    OBVIOUS
  <1>1. \A i \in 1 .. Len(a) : k[i] = IF m[i] THEN k[i - 1] ELSE Append(k[i - 1], a[i])
    BY KeptUpToDef DEF KeptLoop
  <1> HIDE DEF k
  <1>2. 0 \in T
    BY <1>0
  <1>3. ASSUME NEW i \in 0 .. n - 1, i \in T PROVE i + 1 \in T
    <2> DEFINE b == p + (i + 1)
    <2>1. b \in 1 .. Len(a) /\ b - 1 = p + i /\ i + 1 \in 1 .. n /\ b \in p + 1 .. x
      BY <1>0
    <2>2. m[b]
      BY <2>1
    <2>3. k[b - 1] = k[p]
      BY <1>3, <2>1
    <2> HIDE DEF b
    <2>4. k[b] = k[p]
      BY <1>1, <2>1, <2>2, <2>3
    <2> QED
      BY <2>1, <2>4 DEF b
  <1> HIDE DEF T, n
  <1>4. \A i \in 0 .. n - 1 : i \in T => i + 1 \in T
    BY <1>3
  <1>5. \A i \in 0 .. n : i \in T
    BY <1>0, <1>2, <1>4, Induction
  <1>6. n \in T
    BY <1>0, <1>5
  <1>7. k[p + n] = k[p]
    BY <1>6 DEF T
  <1> QED
    BY <1>0, <1>7 DEF k

\* m2 is m1 but for b to c, the marks of which it has at p to d, n items up.
Moves(a, m1, m2, p, b, c, d, n) ==
    /\ Len(m1) = Len(a) /\ Len(m2) = Len(a)
    /\ {p, b, c, d, n} \subseteq Nat
    /\ p + n = b /\ d + n = c /\ b <= c /\ c <= Len(a)
    /\ \A i \in 1 .. p : m1[i] = m2[i]
    /\ \A i \in c + 1 .. Len(a) : m1[i] = m2[i]
    /\ \A i \in p + 1 .. b : ~ m1[i]
    /\ \A i \in b + 1 .. c : m1[i]
    /\ \A i \in p + 1 .. d : m2[i]
    /\ \A i \in d + 1 .. c : ~ m2[i]
    /\ \A i \in 1 .. n : a[p + i] = a[d + i]

\* Moving marks in a row, from b to c, over equal items, from p to b, so that they
\* go from p to d, keeps the text.  m1 has the kept items before the marks, m2
\* behind them.
LEMMA MovedKeeps ==
  ASSUME NEW S, NEW a \in Seq(S), NEW m1 \in Seq(BOOLEAN), NEW m2 \in Seq(BOOLEAN),
         NEW p, NEW b, NEW c, NEW d, NEW n, Moves(a, m1, m2, p, b, c, d, n)
  PROVE  KeptText(a, m1) = KeptText(a, m2)
  <1> USE DEF Moves
  <1> DEFINE k1 == KeptUpTo(a, m1)
             k2 == KeptUpTo(a, m2)
             N == Len(a)
  <1>0. N \in Nat /\ 0 \in Nat /\ k1[0] = k2[0]
    BY KeptUpToDef DEF KeptLoop
  <1>1. k1[p] = k2[p]
    <2>1. Alike(a, m1, m2, 0, 0, p)
      BY DEF Alike
    <2>2. 0 + p <= Len(a) /\ 0 + p = p
      OBVIOUS
    <2> QED
      BY <1>0, <2>1, <2>2, SameStretch
  <1>2. k2[d] = k2[p]
    <2>1. p <= d /\ d <= Len(a) /\ (\A i \in p + 1 .. d : m2[i])
          /\ p \in Nat /\ d \in Nat /\ Len(m2) = Len(a)
      OBVIOUS
    <2> QED
      BY ONLY <2>1, MarkedStretch, a \in Seq(S), m2 \in Seq(BOOLEAN)
  <1>3. k1[b] = k2[c]
    <2>1. Alike(a, m1, m2, p, d, n)
      <3> SUFFICES ASSUME NEW i \in 1 .. n PROVE m1[p + i] = m2[d + i]
        BY DEF Alike
      <3>1. p + i \in p + 1 .. b /\ d + i \in d + 1 .. c /\ p + i \in 1 .. Len(m1) /\ d + i \in 1 .. Len(m2)
        OBVIOUS
      <3>2. ~ m1[p + i] /\ ~ m2[d + i] /\ m1[p + i] \in BOOLEAN /\ m2[d + i] \in BOOLEAN
        BY <3>1
      <3> QED
        BY <3>2
    <2>2. p + n <= Len(a) /\ d + n <= Len(a)
      OBVIOUS
    <2>3. k1[p] = k2[d]
      BY <1>1, <1>2
    <2>4. KeptUpTo(a, m1)[p + n] = KeptUpTo(a, m2)[d + n]
      BY <2>1, <2>2, <2>3, SameStretch
    <2> QED
      BY <2>4
  <1>4. k1[c] = k1[b]
    <2>1. b <= c /\ c <= Len(a) /\ \A i \in b + 1 .. c : m1[i]
      OBVIOUS
    <2> QED
      BY ONLY <2>1, MarkedStretch, a \in Seq(S), m1 \in Seq(BOOLEAN), Len(m1) = Len(a), b \in Nat, c \in Nat
  <1>5. k1[c] = k2[c]
    BY <1>3, <1>4
  <1> DEFINE r == N - c
  <1>6. Alike(a, m1, m2, c, c, r) /\ r \in Nat /\ c + r = N
    <2>0. c \in Nat /\ c <= N
      OBVIOUS
    <2>1. r \in Nat /\ c + r = N
      BY ONLY <1>0, <2>0
    <2>2. ASSUME NEW i \in 1 .. r PROVE m1[c + i] = m2[c + i]
      <3>1. c + i \in c + 1 .. Len(a)
        OBVIOUS
      <3> QED
        BY <3>1
    <2> QED
      BY <2>1, <2>2 DEF Alike
  <1>7. k1[N] = k2[N]
    <2> HIDE DEF r
    <2>1. c + r <= Len(a)
      BY <1>6
    <2>2. KeptUpTo(a, m1)[c + r] = KeptUpTo(a, m2)[c + r]
      BY <1>5, <1>6, <2>1, SameStretch
    <2> QED
      BY <1>6, <2>2
  <1> QED
    BY <1>7 DEF KeptText

-----------------------------------------------------------------------------
(***************************************************************************)
(* Diff.  The types; the numbers; and shifting, which moves no mark off an *)
(* item but onto an equal one.                                             *)
(***************************************************************************)
\* Such a loop stops at the first number that is not in Ok.
LEMMA RunStops ==
  ASSUME NEW n \in Nat, NEW Ok
  PROVE  /\ Run(n, Ok) \in 0 .. n
         /\ 0 .. Run(n, Ok) - 1 \subseteq Ok
         /\ Run(n, Ok) = n \/ Run(n, Ok) \notin Ok
  <1> DEFINE T == {k \in 0 .. n : k = n \/ k \notin Ok}
             Stops(k) == 0 .. k - 1 \subseteq Ok /\ (k = n \/ k \notin Ok)
  <1>1. T \in SUBSET Nat /\ T # {}
    OBVIOUS
  <1>2. PICK m \in T : \A k \in T : m <= k
    <2> HIDE DEF T
    <2> QED
      BY <1>1, LeastNumber
  <1>3. m \in 0 .. n /\ Stops(m)
    BY <1>2
  <1>4. Run(n, Ok) = CHOOSE k \in 0 .. n : Stops(k)
    BY DEF Run
  <1> HIDE DEF Stops
  <1>5. Run(n, Ok) \in 0 .. n /\ Stops(Run(n, Ok))
    BY <1>3, <1>4
  <1> QED
    BY <1>5 DEF Stops

\* A loop over numbers finds a greatest one.
LEMMA GreatestOf ==
  ASSUME NEW N \in Nat, NEW f, \A i \in 0 .. N : f[i] \in Nat
  PROVE  \E m \in 0 .. N : \A j \in 0 .. N : f[j] <= f[m]
  <1> DEFINE T == {n \in 0 .. N : \E m \in 0 .. n : \A j \in 0 .. n : f[j] <= f[m]}
  <1>1. 0 \in T
    OBVIOUS
  <1>2. ASSUME NEW n \in 0 .. N - 1, n \in T PROVE n + 1 \in T
    <2>1. PICK m \in 0 .. n : \A j \in 0 .. n : f[j] <= f[m]
      BY <1>2
    <2>2. f[m] \in Nat /\ f[n + 1] \in Nat /\ n + 1 \in 0 .. N
      BY <1>2
    <2>3. \A j \in 0 .. n + 1 : j \in 0 .. n \/ j = n + 1
      OBVIOUS
    <2>4. CASE f[n + 1] <= f[m]
      <3>1. m \in 0 .. n + 1 /\ \A j \in 0 .. n + 1 : f[j] <= f[m]
        BY <2>1, <2>3, <2>4
      <3> QED
        BY <2>2, <3>1
    <2>5. CASE f[m] < f[n + 1]
      <3>1. \A j \in 0 .. n : f[j] \in Nat
        OBVIOUS
      <3>2. \A j \in 0 .. n + 1 : f[j] <= f[n + 1]
        BY <2>1, <2>2, <2>3, <2>5, <3>1
      <3>3. n + 1 \in 0 .. n + 1
        OBVIOUS
      <3> QED
        BY <2>2, <3>2, <3>3
    <2> QED
      BY <2>2, <2>4, <2>5
  <1> HIDE DEF T
  <1>3. \A n \in 0 .. N - 1 : n \in T => n + 1 \in T
    BY <1>2
  <1>4. \A n \in 0 .. N : n \in T
    BY <1>1, <1>3, Induction
  <1> QED
    BY <1>4 DEF T

-----------------------------------------------------------------------------
\* Marks for both sides, one for each item.
MarksOf(m) ==
    /\ m \in [Sides -> Seq(BOOLEAN)]
    /\ \A f \in Sides : Len(m[f]) = Len(data[f])

\* What is compared, its numbers and its marks fit together; runes are their own
\* numbers.
DiffInv ==
    /\ mode \in {"lines", "runes"}
    /\ stage \in {"equiv", "compress", "lcs", "shift", "report", "done"}
    /\ data \in [Sides -> Seq(Items)]
    /\ MarksOf(change)
    /\ mode = "runes" => stage \notin {"equiv", "compress"} /\ ids = data /\ MarksOf(zchange)
    /\ stage # "equiv" => /\ SameLines(data, ids)
                          /\ \A f \in Sides : DOMAIN ids[f] = 1 .. Len(data[f])
    /\ side \in Sides
    /\ start \in Nat

\* Runes are compared as they are.
LEMMA SelfSame ==
  ASSUME NEW d \in [Sides -> Seq(Items)]
  PROVE  SameLines(d, d) /\ \A f \in Sides : DOMAIN d[f] = 1 .. Len(d[f])
  BY DEF SameLines

\* At the start nothing is marked yet.
LEMMA InitDiffInv == Init => DiffInv
  <1> SUFFICES ASSUME Init PROVE DiffInv
    OBVIOUS
  <1>1. data \in [Sides -> Seq(Items)]
    BY FilesAssumption DEF Init
  <1>2. MarksOf(change)
    <2>1. change = [f \in Sides |-> Unchanged(Len(data[f]))]
      BY DEF Init
    <2>2. ASSUME NEW n \in Nat PROVE Unchanged(n) \in Seq(BOOLEAN) /\ Len(Unchanged(n)) = n
      BY DEF Unchanged
    <2> QED
      BY <1>1, <2>1, <2>2 DEF MarksOf
  <1>3. side \in Sides /\ start \in Nat
    BY DEF Init, Sides
  <1>4. CASE mode = "lines" /\ stage = "equiv"
    BY <1>1, <1>2, <1>3, <1>4 DEF DiffInv
  <1>5. CASE mode = "runes" /\ stage = "lcs" /\ ids = data
    <2>1. zchange = change
      BY DEF Init
    <2>2. SameLines(data, ids) /\ \A f \in Sides : DOMAIN ids[f] = 1 .. Len(data[f])
      BY <1>1, <1>5, SelfSame
    <2>3. MarksOf(zchange)
      BY <1>2, <2>1
    <2> QED
      BY <1>1, <1>2, <1>3, <1>5, <2>2, <2>3 DEF DiffInv
  <1> QED
    BY <1>4, <1>5 DEF Init

-----------------------------------------------------------------------------
\* Marking a range leaves a mark per item, ...
LEMMA MarkedRangeMarks ==
  ASSUME NEW m, MarksOf(m), NEW f, NEW s, NEW e
  PROVE  MarksOf(MarkedRange(m, f, s, e))
  <1> DEFINE r == MarkedRange(m, f, s, e)
  <1>1. m \in [Sides -> Seq(BOOLEAN)]
    BY DEF MarksOf
  <1>2. r = [m EXCEPT ![f] = [p \in DOMAIN m[f] |-> m[f][p] \/ (s < p /\ p <= e)]]
    BY DEF MarkedRange
  <1> HIDE DEF r
  <1>3. ASSUME NEW g \in Sides PROVE r[g] \in Seq(BOOLEAN) /\ Len(r[g]) = Len(m[g])
    <2>1. CASE g # f
      BY <1>1, <1>2, <2>1
    <2>2. CASE g = f
      <3>1. r[g] = [p \in DOMAIN m[g] |-> m[g][p] \/ (s < p /\ p <= e)]
        BY <1>1, <1>2, <2>2
      <3>2. m[g] \in Seq(BOOLEAN)
        BY <1>1
      <3>3. Len(m[g]) \in Nat /\ DOMAIN m[g] = 1 .. Len(m[g])
        BY <3>2
      <3>4. r[g] \in [1 .. Len(m[g]) -> BOOLEAN]
        BY <3>1, <3>3, Zenon
      <3> QED
        BY <3>3, <3>4
    <2> QED
      BY <2>1, <2>2
  <1>4. r = [g \in Sides |-> r[g]]
    BY <1>1, <1>2
  <1> QED
    BY <1>3, <1>4 DEF MarksOf, r

\* ... and so does marking the lines that are alone.
LEMMA ExcludedMarks ==
  ASSUME MarksOf(change), NEW s, NEW e
  PROVE  MarksOf(Excluded(s, e))
  <1> DEFINE Ok(f, p) == (p <= s[f] \/ e[f] < p) /\ Alone(f, p - 1)
             r == Excluded(s, e)
  <1>1. r = [f \in Sides |-> [p \in DOMAIN change[f] |-> Ok(f, p)]]
    BY DEF Excluded
  <1>2. \A f, p : Ok(f, p) \in BOOLEAN
    OBVIOUS
  <1> HIDE DEF r, Ok
  <1>3. ASSUME NEW g \in Sides PROVE r[g] \in Seq(BOOLEAN) /\ Len(r[g]) = Len(change[g])
    <2>1. Len(change[g]) \in Nat /\ DOMAIN change[g] = 1 .. Len(change[g])
      BY DEF MarksOf
    <2>2. r[g] = [p \in 1 .. Len(change[g]) |-> Ok(g, p)]
      BY <1>1, <2>1
    <2>3. r[g] \in [1 .. Len(change[g]) -> BOOLEAN]
      BY <1>2, <2>2
    <2> QED
      BY <2>1, <2>3
  <1>4. r = [g \in Sides |-> r[g]]
    BY <1>1
  <1> QED
    BY <1>3, <1>4 DEF MarksOf, r

\* The lines' numbers are those of find_equiv_lines.
LEMMA EquivDiffInv == ASSUME DiffInv, Equiv PROVE DiffInv'
  <1>1. mode = "lines" /\ ids' = EquivIds(data) /\ stage' = "compress"
    BY DEF DiffInv, Equiv
  <1>2. UNCHANGED <<mode, data, change, zchange, side, start>>
    BY DEF Equiv, input, cursors
  <1>3. SameLines(data, ids') /\ \A f \in Sides : DOMAIN ids'[f] = 1 .. Len(data[f])
    BY <1>1, EquivIdsFacts DEF DiffInv
  <1> QED
    BY <1>1, <1>2, <1>3 DEF DiffInv, MarksOf

\* compress_equiv_ids keeps the invariant,
LEMMA CompressDiffInv == ASSUME DiffInv, Compress PROVE DiffInv'
  <1>1. mode = "lines" /\ stage' \in {"shift", "lcs"} /\ stage # "equiv"
    BY DEF DiffInv, Compress
  <1>2. UNCHANGED <<mode, data, ids, side, start>>
    BY DEF Compress, input, cursors
  <1>3. MarksOf(change')
    <2>1. MarksOf(change)
      BY DEF DiffInv
    <2>2. \E s, e, f, x, y : change' \in {Excluded(s, e), MarkedRange(Excluded(s, e), f, x, y)}
      BY DEF Compress
    <2> QED
      BY <2>1, <2>2, ExcludedMarks, MarkedRangeMarks
  <1> QED
    BY <1>1, <1>2, <1>3 DEF DiffInv, MarksOf

\* ... a call of algorithm_lcs does,
LEMMA LcsDiffInv == ASSUME DiffInv, Lcs PROVE DiffInv'
  <1>1. UNCHANGED <<mode, stage, data, ids, change, side, start>>
    BY DEF Lcs, input, cursors
  <1>2. \/ UNCHANGED zchange
        \/ \E s, e, x, y : zchange' = MarkedRange(MarkedRange(zchange, 1, s, e), 2, x, y)
    BY DEF Lcs
  <1>3. ASSUME MarksOf(zchange) PROVE MarksOf(zchange')
    BY <1>2, <1>3, MarkedRangeMarks
  <1> QED
    BY <1>1, <1>3 DEF DiffInv, MarksOf

\* ... expand_change_list,
LEMMA ExpandDiffInv == ASSUME DiffInv, Expand PROVE DiffInv'
  <1>1. stage = "lcs" /\ stage' = "shift" /\ UNCHANGED <<mode, data, ids, zchange, side, start>>
    BY DEF Expand, input, cursors
  <1>2. MarksOf(change')
    <2>1. CASE mode = "runes"
      <3>1. change' = zchange
        BY <2>1 DEF Expand
      <3> QED
        BY <2>1, <3>1 DEF DiffInv
    <2>2. CASE mode # "runes"
      <3> DEFINE Ok(f, p) == LET z == p - zstart[f]
                             IN  change[f][p] \/ (z \in DOMAIN Expanded(f) /\ Expanded(f)[z])
      <3>1. change' = [f \in Sides |-> [p \in DOMAIN change[f] |-> Ok(f, p)]]
        BY <2>2 DEF Expand
      <3>2. \A f, p : Ok(f, p) \in BOOLEAN
        OBVIOUS
      <3> HIDE DEF Ok
      <3>3. ASSUME NEW g \in Sides PROVE change'[g] \in Seq(BOOLEAN) /\ Len(change'[g]) = Len(change[g])
        <4>1. Len(change[g]) \in Nat /\ DOMAIN change[g] = 1 .. Len(change[g])
          BY DEF DiffInv, MarksOf
        <4>2. change'[g] = [p \in 1 .. Len(change[g]) |-> Ok(g, p)]
          BY <3>1, <4>1
        <4>3. change'[g] \in [1 .. Len(change[g]) -> BOOLEAN]
          BY <3>2, <4>2
        <4> QED
          BY <4>1, <4>3
      <3>4. change' = [g \in Sides |-> change'[g]]
        BY <3>1
      <3> QED
        BY <3>3, <3>4 DEF DiffInv, MarksOf
    <2> QED
      BY <2>1, <2>2
  <1> QED
    BY <1>1, <1>2 DEF DiffInv, MarksOf

\* ... and what follows the shifting.
LEMMA ReportDiffInv == ASSUME DiffInv, ShiftEnd \/ Report \/ ReportEnd PROVE DiffInv'
  <1>1. UNCHANGED <<mode, data, ids, change, zchange>> /\ stage \in {"shift", "report"}
    BY DEF ShiftEnd, Report, ReportEnd, input
  <1>2. stage' \in {"shift", "report", "done"}
    BY DEF ShiftEnd, Report, ReportEnd
  <1>3. side' \in Sides /\ start' \in Nat
    BY DEF DiffInv, ShiftEnd, Report, ReportEnd, Sides, cursors
  <1> QED
    BY <1>1, <1>2, <1>3 DEF DiffInv, MarksOf

-----------------------------------------------------------------------------
(***************************************************************************)
(* Diff: shift_boundaries.                                                 *)
(***************************************************************************)
\* A chunk of changes, and how far it may go up and down.
Chunk(s, e) == s \in 0 .. clen - 1 /\ e \in s + 1 .. clen /\ \A i \in s .. e - 1 : Is(i)
Upwards(s, e, n) ==
    n \in 0 .. s /\ \A i \in 0 .. n - 1 : IsNot(s - i - 1) /\ At(list, s - i - 1) = At(list, e - i - 1)
Downwards(s, e, n) ==
    n \in 0 .. clen - e /\ \A i \in 0 .. n - 1 : IsNot(e + i) /\ At(list, e + i) = At(list, s + i)

\* The marks of the side at work, and its items and their numbers.
LEMMA SideFacts ==
  ASSUME DiffInv, stage = "shift"
  PROVE  /\ ch \in Seq(BOOLEAN) /\ clen \in Nat /\ Len(ch) = clen /\ DOMAIN ch = 1 .. clen
         /\ data[side] \in Seq(Items) /\ Len(data[side]) = clen /\ DOMAIN data[side] = 1 .. clen
         /\ \A i, j \in 1 .. clen : list[i] = list[j] => data[side][i] = data[side][j]
         /\ mode = "runes" => list = data[side]
  <1>1. ch \in Seq(BOOLEAN) /\ Len(ch) = Len(data[side]) /\ side \in Sides /\ data[side] \in Seq(Items)
    BY DEF DiffInv, MarksOf, ch
  <1>2. SameLines(data, ids)
    BY DEF DiffInv
  <1>3. \A i, j \in DOMAIN data[side] : (list[i] = list[j]) = (data[side][i] = data[side][j])
    BY <1>1, <1>2 DEF SameLines, list
  <1>4. mode = "runes" => list = data[side]
    BY DEF DiffInv, list
  <1> QED
    BY <1>1, <1>3, <1>4 DEF clen

\* The best place for runes is one of those the chunk may go to.
LEMMA BestIsOne ==
  ASSUME NEW s, NEW e, NEW up \in Nat, NEW down \in Nat,
         \A i \in -up .. down : RuneScore(s, e, i) \in Nat
  PROVE  Best(s, e, up, down) \in -up .. down
  <1> DEFINE N == up + down
             f == [k \in 0 .. N |-> RuneScore(s, e, k - up)]
             Good(i) == /\ \A j \in -up .. down : RuneScore(s, e, j) <= RuneScore(s, e, i)
                        /\ i # 0 => /\ RuneScore(s, e, i) > RuneScore(s, e, 0)
                                    /\ \A j \in -up .. i - 1 : RuneScore(s, e, j) < RuneScore(s, e, i)
             R(i) == RuneScore(s, e, i)
  <1>1. N \in Nat /\ \A k \in 0 .. N : f[k] \in Nat /\ f[k] = R(k - up) /\ k - up \in -up .. down
    OBVIOUS
  <1>2. \A i \in -up .. down : R(i) \in Nat /\ i + up \in 0 .. N /\ R(i) = f[i + up]
    <2> SUFFICES ASSUME NEW i \in -up .. down PROVE R(i) \in Nat /\ i + up \in 0 .. N /\ R(i) = f[i + up]
      OBVIOUS
    <2>1. i + up \in 0 .. N /\ (i + up) - up = i
      OBVIOUS
    <2> QED
      BY <2>1
  <1> HIDE DEF f, N, R
  <1>3. PICK m \in 0 .. N : \A k \in 0 .. N : f[k] <= f[m]
    BY <1>1, GreatestOf
  <1>4. \A i \in -up .. down : R(i) <= f[m]
    BY <1>2, <1>3
  <1>5. \E i \in -up .. down : Good(i)
    <2>1. CASE R(0) = f[m]
      <3>1. 0 \in -up .. down /\ Good(0)
        BY <1>4, <2>1 DEF R
      <3> QED
        BY <3>1
    <2>2. CASE R(0) # f[m]
      <3> DEFINE T == {k \in 0 .. N : f[k] = f[m]}
      <3>1. T \in SUBSET Nat /\ T # {}
        BY <1>1
      <3>2. PICK k \in T : \A j \in T : k <= j
        <4> HIDE DEF T
        <4> QED
          BY <3>1, LeastNumber
      <3> DEFINE i == k - up
      <3>3. i \in -up .. down /\ R(i) = f[m] /\ f[m] \in Nat /\ k \in 0 .. N
        BY <1>1, <3>2
      <3>4. R(0) \in Nat /\ R(0) <= f[m] /\ R(0) < R(i)
        <4>1. 0 \in -up .. down
          OBVIOUS
        <4> QED
          BY <1>2, <1>4, <2>2, <3>3, <4>1
      <3>5. ASSUME NEW j \in -up .. i - 1 PROVE R(j) < R(i)
        <4>1. j \in -up .. down /\ j + up \in 0 .. N /\ j + up < k
          BY <1>2, <3>3
        <4>2. j + up \notin T
          BY <3>2, <4>1
        <4>3. f[j + up] # f[m] /\ R(j) = f[j + up] /\ R(j) \in Nat /\ R(j) <= f[m]
          BY <1>2, <1>4, <4>1, <4>2
        <4> QED
          BY <3>3, <4>3
      <3>6. Good(i)
        BY <1>4, <3>3, <3>4, <3>5 DEF R
      <3> QED
        BY <3>3, <3>6
    <2> QED
      BY <2>1, <2>2
  <1>6. Best(s, e, up, down) = CHOOSE i \in -up .. down : Good(i)
    BY DEF Best
  <1> HIDE DEF Good
  <1> QED
    BY <1>5, <1>6

\* Every move is of a chunk, up or down as far as it may go at most.
LEMMA ShiftMoves ==
  ASSUME DiffInv, Shift
  PROVE  /\ start' \in Nat
         /\ \/ UNCHANGED change
            \/ \E s, e, n : /\ Chunk(s, e)
                            /\ \/ Upwards(s, e, n) /\ ShiftTo(s, e, -n)
                               \/ Downwards(s, e, n) /\ ShiftTo(s, e, n)
  <1> DEFINE s == CHOOSE p \in start .. clen - 1 : Is(p) /\ \A q \in start .. p - 1 : ~ Is(q)
             e == EndOf(s + 1)
             up == IF s = 0 THEN 0 ELSE UpBy(s, e)
             down == IF s = 0 THEN 0 ELSE DownBy(s, e)
             merged == StartOf(Shifted(s, e, -up), s - up)
             best == Best(s, e, up, down)
  <1>0. stage = "shift" /\ clen \in Nat /\ start \in Nat
    BY SideFacts DEF DiffInv, Shift
  <1>1. s \in start .. clen - 1 /\ Is(s)
    <2> DEFINE T == {p \in start .. clen - 1 : Is(p)}
    <2>1. T \in SUBSET Nat /\ T # {}
      BY <1>0 DEF Shift
    <2>2. PICK m \in T : \A k \in T : m <= k
      <3> HIDE DEF T
      <3> QED
        BY <2>1, LeastNumber
    <2>3. m \in start .. clen - 1 /\ Is(m) /\ \A q \in start .. m - 1 : ~ Is(q)
      BY <1>0, <2>2
    <2> QED
      BY <2>3
  <1> HIDE DEF s
  <1>2. Chunk(s, e)
    <2> DEFINE Ok == {i \in 0 .. clen : Is((s + 1) + i)}
               r == Run(clen - (s + 1), Ok)
    <2>1. clen - (s + 1) \in Nat /\ s \in 0 .. clen - 1
      BY <1>0, <1>1
    <2>2. r \in 0 .. clen - (s + 1) /\ 0 .. r - 1 \subseteq Ok
      <3> HIDE DEF Ok
      <3> QED
        BY <2>1, RunStops
    <2>3. e = (s + 1) + r
      BY DEF EndOf
    <2> HIDE DEF r
    <2>4. e \in s + 1 .. clen
      BY <1>0, <2>1, <2>2, <2>3
    <2>5. ASSUME NEW i \in s .. e - 1 PROVE Is(i)
      <3>1. CASE i = s
        BY <1>1, <3>1
      <3>2. CASE i # s
        <4>1. i - (s + 1) \in 0 .. r - 1 /\ (s + 1) + (i - (s + 1)) = i
          BY <2>1, <2>2, <2>3, <3>2
        <4> DEFINE j == i - (s + 1)
        <4>2. j \in Ok
          BY <2>2, <4>1
        <4> QED
          BY <4>1, <4>2
      <3> QED
        BY <3>1, <3>2
    <2> HIDE DEF e
    <2> QED
      BY <2>1, <2>4, <2>5 DEF Chunk
  <1> HIDE DEF e
  <1>3. s \in 0 .. clen - 1 /\ e \in s + 1 .. clen
    BY <1>2 DEF Chunk
  <1>4. Upwards(s, e, up)
    <2>1. CASE s = 0
      BY <2>1 DEF Upwards
    <2>2. CASE s # 0
      <3> DEFINE Ok == {n \in 0 .. s : IsNot(s - n - 1) /\ At(list, s - n - 1) = At(list, e - n - 1)}
                 r == Run(s, Ok)
      <3>1. r \in 0 .. s /\ 0 .. r - 1 \subseteq Ok
        <4> HIDE DEF Ok
        <4> QED
          BY <1>3, RunStops
      <3>2. up = r
        BY <2>2 DEF UpBy
      <3> HIDE DEF up, r
      <3> QED
        BY <3>1, <3>2 DEF Upwards
    <2> QED
      BY <2>1, <2>2
  <1>5. Downwards(s, e, down)
    <2>1. CASE s = 0
      BY <1>0, <1>3, <2>1 DEF Downwards
    <2>2. CASE s # 0
      <3> DEFINE Ok == {n \in 0 .. clen : IsNot(e + n) /\ At(list, e + n) = At(list, s + n)}
                 r == Run(clen - e, Ok)
      <3>1. clen - e \in Nat
        BY <1>0, <1>3
      <3>2. r \in 0 .. clen - e /\ 0 .. r - 1 \subseteq Ok
        <4> HIDE DEF Ok
        <4> QED
          BY <3>1, RunStops
      <3>3. down = r
        BY <2>2 DEF DownBy
      <3> HIDE DEF down, r
      <3> QED
        BY <3>2, <3>3 DEF Downwards
    <2> QED
      BY <2>1, <2>2
  <1> HIDE DEF up, down
  <1>6. up \in 0 .. s /\ down \in 0 .. clen - e
    BY <1>4, <1>5 DEF Upwards, Downwards
  <1>7. mode = "runes" => best \in -up .. down
    <2> SUFFICES ASSUME mode = "runes", NEW i \in -up .. down PROVE RuneScore(s, e, i) \in Nat
      BY <1>0, <1>3, <1>6, BestIsOne
    <2>1. list = data[side] /\ data[side] \in Seq(Items) /\ Len(data[side]) = clen
      BY <1>0, SideFacts
    <2>2. s + i + 1 \in 1 .. clen /\ (e + i - 1) + 1 \in 1 .. clen
      BY <1>0, <1>3, <1>6
    <2>3. At(list, s + i) \in Items /\ At(list, e + i - 1) \in Items
      BY <2>1, <2>2 DEF At
    <2>4. Score[At(list, s + i)] \in Nat /\ Score[At(list, e + i - 1)] \in Nat
      BY <2>3, ScoreAssumption
    <2> QED
      BY <2>4 DEF RuneScore
  <1>8. merged \in Nat
    <2>1. s - up \in Nat
      BY <1>0, <1>3, <1>6
    <2> DEFINE p == s - up
               Ok == {i \in 0 .. p - 1 : At(Shifted(s, e, -up), p - i - 1)}
    <2>2. Run(p, Ok) \in 0 .. p
      <3> HIDE DEF Ok, p
      <3> QED
        BY <2>1, RunStops DEF p
    <2>3. merged = p - Run(p, Ok)
      BY DEF StartOf
    <2> HIDE DEF Ok, p, merged
    <2> QED
      BY <2>1, <2>2, <2>3 DEF p
  <1> HIDE DEF merged, best
  <1>9. \/ ShiftTo(s, e, -up) /\ start' = IF merged > 0 THEN merged ELSE s
        \/ ShiftTo(s, e, down) /\ start' = s + down
        \/ mode = "runes" /\ ShiftTo(s, e, best) /\ start' = IF best > 0 THEN e + best ELSE e
        \/ start' = e /\ UNCHANGED change
    BY DEF Shift, ShiftChunk, s, e, up, down, merged, best
  <1>10. CASE ShiftTo(s, e, -up) /\ start' = IF merged > 0 THEN merged ELSE s
    BY <1>2, <1>3, <1>4, <1>8, <1>10
  <1>11. CASE ShiftTo(s, e, down) /\ start' = s + down
    BY <1>2, <1>3, <1>5, <1>6, <1>11
  <1>12. CASE mode = "runes" /\ ShiftTo(s, e, best) /\ start' = IF best > 0 THEN e + best ELSE e
    <2>1. best \in -up .. down
      BY <1>7, <1>12
    <2>2. start' \in Nat
      BY <1>0, <1>3, <1>6, <1>12, <2>1
    <2>3. CASE best <= 0
      <3> DEFINE n == -best
      <3>1. n \in 0 .. up /\ -n = best
        BY <1>3, <1>6, <2>1, <2>3
      <3> HIDE DEF n
      <3>2. Upwards(s, e, n)
        BY <1>3, <1>4, <1>6, <3>1 DEF Upwards
      <3> QED
        BY <1>2, <1>12, <2>2, <3>1, <3>2
    <2>4. CASE best > 0
      <3>1. Downwards(s, e, best)
        BY <1>0, <1>3, <1>5, <1>6, <2>1, <2>4 DEF Downwards
      <3> QED
        BY <1>2, <1>12, <2>2, <3>1
    <2> QED
      BY <1>6, <2>1, <2>3, <2>4
  <1>13. CASE start' = e /\ UNCHANGED change
    BY <1>3, <1>13
  <1> QED
    BY <1>9, <1>10, <1>11, <1>12, <1>13

\* What the marks are after do_shift_boundary, stretch by stretch.
LEMMA ShiftedUp ==
  ASSUME DiffInv, stage = "shift", NEW s, NEW e, NEW n, Chunk(s, e), Upwards(s, e, n)
  PROVE  LET m == Shifted(s, e, -n)
         IN  /\ m \in Seq(BOOLEAN) /\ Len(m) = clen
             /\ \A q \in 1 .. s - n : m[q] = ch[q]
             /\ \A q \in e + 1 .. clen : m[q] = ch[q]
             /\ \A q \in s - n + 1 .. e - n : m[q] = TRUE
             /\ \A q \in e - n + 1 .. e : m[q] = FALSE
  <1> DEFINE m == Shifted(s, e, -n)
             M(q) == IF s + -n < q /\ q <= e + -n THEN TRUE
                     ELSE IF Least(s, e + -n) < q /\ q <= Greatest(e, s + -n) THEN FALSE
                     ELSE ch[q]
  <1>1. ch \in Seq(BOOLEAN) /\ clen \in Nat /\ DOMAIN ch = 1 .. clen
    BY SideFacts
  <1>2. s \in 0 .. clen - 1 /\ e \in s + 1 .. clen /\ n \in 0 .. s
    BY DEF Chunk, Upwards
  <1>3. m = [q \in 1 .. clen |-> M(q)]
    BY <1>1 DEF Shifted
  <1>4. \A q \in 1 .. clen : M(q) \in BOOLEAN
    <2> SUFFICES ASSUME NEW q \in 1 .. clen PROVE M(q) \in BOOLEAN
      OBVIOUS
    <2>1. ch[q] \in BOOLEAN
      BY <1>1
    <2> QED
      BY <2>1, Zenon
  <1>5. \A q \in 1 .. s - n : M(q) = ch[q]
    <2> SUFFICES ASSUME NEW q \in 1 .. s - n PROVE M(q) = ch[q]
      OBVIOUS
    <2>1. ~ (s + -n < q) /\ ~ (Least(s, e + -n) < q)
      BY <1>1, <1>2 DEF Least
    <2> QED
      BY <2>1, Zenon
  <1>6. \A q \in e + 1 .. clen : M(q) = ch[q]
    <2> SUFFICES ASSUME NEW q \in e + 1 .. clen PROVE M(q) = ch[q]
      OBVIOUS
    <2>1. ~ (q <= e + -n) /\ ~ (q <= Greatest(e, s + -n))
      BY <1>1, <1>2 DEF Greatest
    <2> QED
      BY <2>1, Zenon
  <1>7. \A q \in s - n + 1 .. e - n : M(q) = TRUE
    BY <1>1, <1>2
  <1>8. \A q \in e - n + 1 .. e : M(q) = FALSE
    BY <1>1, <1>2 DEF Least, Greatest
  <1> HIDE DEF m, M
  <1>9. m \in Seq(BOOLEAN) /\ Len(m) = clen
    <2>1. m \in [1 .. clen -> BOOLEAN]
      BY <1>3, <1>4
    <2> QED
      BY <1>1, <2>1
  <1>10. \A q \in 1 .. clen : m[q] = M(q)
    BY <1>3
  <1> QED
    BY <1>2, <1>1, <1>5, <1>6, <1>7, <1>8, <1>9, <1>10 DEF m

\* A chunk that has moved n lines down: what is marked there and around it.
LEMMA ShiftedDown ==
  ASSUME DiffInv, stage = "shift", NEW s, NEW e, NEW n, Chunk(s, e), Downwards(s, e, n)
  PROVE  LET m == Shifted(s, e, n)
         IN  /\ m \in Seq(BOOLEAN) /\ Len(m) = clen
             /\ \A q \in 1 .. s : m[q] = ch[q]
             /\ \A q \in e + n + 1 .. clen : m[q] = ch[q]
             /\ \A q \in s + 1 .. s + n : m[q] = FALSE
             /\ \A q \in s + n + 1 .. e + n : m[q] = TRUE
  <1> DEFINE m == Shifted(s, e, n)
             M(q) == IF s + n < q /\ q <= e + n THEN TRUE
                     ELSE IF Least(s, e + n) < q /\ q <= Greatest(e, s + n) THEN FALSE
                     ELSE ch[q]
  <1>1. ch \in Seq(BOOLEAN) /\ clen \in Nat /\ DOMAIN ch = 1 .. clen
    BY SideFacts
  <1>2. s \in 0 .. clen - 1 /\ e \in s + 1 .. clen /\ n \in 0 .. clen - e
    BY DEF Chunk, Downwards
  <1>3. m = [q \in 1 .. clen |-> M(q)]
    BY <1>1 DEF Shifted
  <1>4. \A q \in 1 .. clen : M(q) \in BOOLEAN
    <2> SUFFICES ASSUME NEW q \in 1 .. clen PROVE M(q) \in BOOLEAN
      OBVIOUS
    <2>1. ch[q] \in BOOLEAN
      BY <1>1
    <2> QED
      BY <2>1, Zenon
  <1>5. \A q \in 1 .. s : M(q) = ch[q]
    <2> SUFFICES ASSUME NEW q \in 1 .. s PROVE M(q) = ch[q]
      OBVIOUS
    <2>1. ~ (s + n < q) /\ ~ (Least(s, e + n) < q)
      BY <1>1, <1>2 DEF Least
    <2> QED
      BY <2>1, Zenon
  <1>6. \A q \in e + n + 1 .. clen : M(q) = ch[q]
    <2> SUFFICES ASSUME NEW q \in e + n + 1 .. clen PROVE M(q) = ch[q]
      OBVIOUS
    <2>1. ~ (q <= e + n) /\ ~ (q <= Greatest(e, s + n))
      BY <1>1, <1>2 DEF Greatest
    <2> QED
      BY <2>1, Zenon
  <1>7. \A q \in s + 1 .. s + n : M(q) = FALSE
    BY <1>1, <1>2 DEF Least, Greatest
  <1>8. \A q \in s + n + 1 .. e + n : M(q) = TRUE
    BY <1>1, <1>2
  <1> HIDE DEF m, M
  <1>9. m \in Seq(BOOLEAN) /\ Len(m) = clen
    <2>1. m \in [1 .. clen -> BOOLEAN]
      BY <1>3, <1>4
    <2> QED
      BY <1>1, <2>1
  <1>10. \A q \in 1 .. clen : m[q] = M(q)
    BY <1>3
  <1> QED
    BY <1>2, <1>1, <1>5, <1>6, <1>7, <1>8, <1>9, <1>10 DEF m

\* A chunk that goes up leaves the text as it is, since every item it lets go is
\* equal to one it takes ...
LEMMA UpKeepsText ==
  ASSUME DiffInv, stage = "shift", NEW s, NEW e, NEW n, Chunk(s, e), Upwards(s, e, n)
  PROVE  /\ Shifted(s, e, -n) \in Seq(BOOLEAN) /\ Len(Shifted(s, e, -n)) = clen
         /\ KeptText(data[side], Shifted(s, e, -n)) = KeptText(data[side], ch)
  <1> DEFINE a == data[side]
             m == Shifted(s, e, -n)
             p == s - n
             d == e - n
  <1>1. /\ ch \in Seq(BOOLEAN) /\ clen \in Nat /\ Len(ch) = clen
        /\ a \in Seq(Items) /\ Len(a) = clen
        /\ \A i, j \in 1 .. clen : list[i] = list[j] => a[i] = a[j]
    BY SideFacts
  <1>2. /\ s \in 0 .. clen - 1 /\ e \in s + 1 .. clen /\ n \in 0 .. s
        /\ p \in Nat /\ d \in Nat /\ p + n = s /\ d + n = e
    BY <1>1 DEF Chunk, Upwards
  <1>3. /\ m \in Seq(BOOLEAN) /\ Len(m) = clen
        /\ \A q \in 1 .. p : m[q] = ch[q]
        /\ \A q \in e + 1 .. clen : m[q] = ch[q]
        /\ \A q \in p + 1 .. d : m[q] = TRUE
        /\ \A q \in d + 1 .. e : m[q] = FALSE
    BY ShiftedUp
  <1>4. \A q \in s + 1 .. e : ch[q] = TRUE
    <2> SUFFICES ASSUME NEW q \in s + 1 .. e PROVE ch[q] = TRUE
      OBVIOUS
    <2>1. q - 1 \in s .. e - 1 /\ (q - 1) + 1 = q /\ q \in 1 .. clen
      BY <1>1, <1>2
    <2>2. Is(q - 1)
      BY <2>1 DEF Chunk
    <2>3. ch[q]
      BY <2>1, <2>2 DEF Is, At
    <2> QED
      BY <1>1, <2>1, <2>3
  <1>5. \A q \in p + 1 .. s : ch[q] = FALSE
    <2> SUFFICES ASSUME NEW q \in p + 1 .. s PROVE ch[q] = FALSE
      OBVIOUS
    <2> DEFINE i == s - q
    <2>1. i \in 0 .. n - 1 /\ (s - i - 1) + 1 = q /\ q \in 1 .. clen
      BY <1>1, <1>2
    <2>2. IsNot(s - i - 1)
      BY <2>1 DEF Upwards
    <2>3. ~ ch[q]
      BY <2>1, <2>2 DEF IsNot, At
    <2> QED
      BY <1>1, <2>1, <2>3
  <1>6. \A i \in 1 .. n : a[p + i] = a[d + i]
    <2> SUFFICES ASSUME NEW i \in 1 .. n PROVE a[p + i] = a[d + i]
      OBVIOUS
    <2> DEFINE j == n - i
    <2>1. /\ j \in 0 .. n - 1 /\ (s - j - 1) + 1 = p + i /\ (e - j - 1) + 1 = d + i
          /\ p + i \in 1 .. clen /\ d + i \in 1 .. clen
      BY <1>1, <1>2
    <2>2. At(list, s - j - 1) = At(list, e - j - 1)
      BY <2>1 DEF Upwards
    <2>3. list[p + i] = list[d + i]
      BY <2>1, <2>2 DEF At
    <2> HIDE DEF a, p, d
    <2> QED
      BY <1>1, <2>1, <2>3
  <1> HIDE DEF a, m, p, d
  <1>7. KeptText(a, ch) = KeptText(a, m)
    <2>1. /\ p \in Nat /\ s \in Nat /\ e \in Nat /\ d \in Nat /\ n \in Nat
          /\ p + n = s /\ d + n = e /\ s <= e /\ e <= Len(a)
      BY <1>1, <1>2
    <2>2. Len(ch) = Len(a) /\ Len(m) = Len(a)
      BY <1>1, <1>3
    <2>3. (\A i \in 1 .. p : ch[i] = m[i]) /\ (\A i \in e + 1 .. Len(a) : ch[i] = m[i])
      BY <1>1, <1>3
    <2>4. (\A i \in p + 1 .. s : ~ ch[i]) /\ (\A i \in s + 1 .. e : ch[i])
      BY <1>4, <1>5
    <2>5. (\A i \in p + 1 .. d : m[i]) /\ (\A i \in d + 1 .. e : ~ m[i])
      BY <1>3
    <2>6. Moves(a, ch, m, p, s, e, d, n)
      BY <1>6, <2>1, <2>2, <2>3, <2>4, <2>5 DEF Moves
    <2> QED
      BY <1>1, <1>3, <2>6, MovedKeeps
  <1> QED
    BY <1>3, <1>7, Zenon DEF a, m

\* ... and so does one that goes down.
LEMMA DownKeepsText ==
  ASSUME DiffInv, stage = "shift", NEW s, NEW e, NEW n, Chunk(s, e), Downwards(s, e, n)
  PROVE  /\ Shifted(s, e, n) \in Seq(BOOLEAN) /\ Len(Shifted(s, e, n)) = clen
         /\ KeptText(data[side], Shifted(s, e, n)) = KeptText(data[side], ch)
  <1> DEFINE a == data[side]
             m == Shifted(s, e, n)
             b == s + n
             c == e + n
  <1>1. /\ ch \in Seq(BOOLEAN) /\ clen \in Nat /\ Len(ch) = clen
        /\ a \in Seq(Items) /\ Len(a) = clen
        /\ \A i, j \in 1 .. clen : list[i] = list[j] => a[i] = a[j]
    BY SideFacts
  <1>2. /\ s \in 0 .. clen - 1 /\ e \in s + 1 .. clen /\ n \in 0 .. clen - e
        /\ b \in Nat /\ c \in Nat /\ s + n = b /\ e + n = c /\ c <= clen
    BY <1>1 DEF Chunk, Downwards
  <1>3. /\ m \in Seq(BOOLEAN) /\ Len(m) = clen
        /\ \A q \in 1 .. s : m[q] = ch[q]
        /\ \A q \in c + 1 .. clen : m[q] = ch[q]
        /\ \A q \in s + 1 .. b : m[q] = FALSE
        /\ \A q \in b + 1 .. c : m[q] = TRUE
    BY ShiftedDown
  <1>4. \A q \in s + 1 .. e : ch[q] = TRUE
    <2> SUFFICES ASSUME NEW q \in s + 1 .. e PROVE ch[q] = TRUE
      OBVIOUS
    <2>1. q - 1 \in s .. e - 1 /\ (q - 1) + 1 = q /\ q \in 1 .. clen
      BY <1>1, <1>2
    <2>2. Is(q - 1)
      BY <2>1 DEF Chunk
    <2>3. ch[q]
      BY <2>1, <2>2 DEF Is, At
    <2> QED
      BY <1>1, <2>1, <2>3
  <1>5. \A q \in e + 1 .. c : ch[q] = FALSE
    <2> SUFFICES ASSUME NEW q \in e + 1 .. c PROVE ch[q] = FALSE
      OBVIOUS
    <2> DEFINE i == q - 1 - e
    <2>1. i \in 0 .. n - 1 /\ (e + i) + 1 = q /\ q \in 1 .. clen
      BY <1>1, <1>2
    <2>2. IsNot(e + i)
      BY <2>1 DEF Downwards
    <2>3. ~ ch[q]
      BY <2>1, <2>2 DEF IsNot, At
    <2> QED
      BY <1>1, <2>1, <2>3
  <1>6. \A i \in 1 .. n : a[s + i] = a[e + i]
    <2> SUFFICES ASSUME NEW i \in 1 .. n PROVE a[s + i] = a[e + i]
      OBVIOUS
    <2> DEFINE j == i - 1
    <2>1. /\ j \in 0 .. n - 1 /\ (s + j) + 1 = s + i /\ (e + j) + 1 = e + i
          /\ s + i \in 1 .. clen /\ e + i \in 1 .. clen
      BY <1>1, <1>2
    <2>2. At(list, e + j) = At(list, s + j)
      BY <2>1 DEF Downwards
    <2>3. list[s + i] = list[e + i]
      BY <2>1, <2>2 DEF At
    <2> HIDE DEF a
    <2> QED
      BY <1>1, <2>1, <2>3
  <1> HIDE DEF a, m, b, c
  <1>7. KeptText(a, m) = KeptText(a, ch)
    <2>1. /\ s \in Nat /\ b \in Nat /\ c \in Nat /\ e \in Nat /\ n \in Nat
          /\ s + n = b /\ e + n = c /\ b <= c /\ c <= Len(a)
      BY <1>1, <1>2
    <2>2. Len(ch) = Len(a) /\ Len(m) = Len(a)
      BY <1>1, <1>3
    <2>3. (\A i \in 1 .. s : m[i] = ch[i]) /\ (\A i \in c + 1 .. Len(a) : m[i] = ch[i])
      BY <1>1, <1>3
    <2>4. (\A i \in s + 1 .. b : ~ m[i]) /\ (\A i \in b + 1 .. c : m[i])
      BY <1>3
    <2>5. (\A i \in s + 1 .. e : ch[i]) /\ (\A i \in e + 1 .. c : ~ ch[i])
      BY <1>4, <1>5
    <2>6. Moves(a, m, ch, s, b, c, e, n)
      BY <1>6, <2>1, <2>2, <2>3, <2>4, <2>5 DEF Moves
    <2> QED
      BY <1>1, <1>3, <2>6, MovedKeeps
  <1> QED
    BY <1>3, <1>7, Zenon DEF a, m

\* A turn of shift_boundaries keeps the marks in shape, and the text without them.
LEMMA ShiftKeeps ==
  ASSUME DiffInv, Shift
  PROVE  /\ start' \in Nat
         /\ MarksOf(change')
         /\ \A f \in Sides : KeptText(data[f], change'[f]) = KeptText(data[f], change[f])
  <1>0. stage = "shift" /\ side \in Sides /\ MarksOf(change)
    BY DEF Shift, DiffInv
  <1>1. start' \in Nat
    BY ShiftMoves
  <1>2. CASE UNCHANGED change
    BY <1>0, <1>1, <1>2
  <1>3. ASSUME NEW s, NEW e, NEW n, Chunk(s, e),
               \/ Upwards(s, e, n) /\ ShiftTo(s, e, -n)
               \/ Downwards(s, e, n) /\ ShiftTo(s, e, n)
        PROVE  /\ MarksOf(change')
               /\ \A f \in Sides : KeptText(data[f], change'[f]) = KeptText(data[f], change[f])
    <2>1. PICK by : ShiftTo(s, e, by) /\ (   (by = -n /\ Upwards(s, e, n))
                                          \/ (by = n /\ Downwards(s, e, n)))
      BY <1>3
    <2> DEFINE m == Shifted(s, e, by)
    <2>2. m \in Seq(BOOLEAN) /\ Len(m) = clen /\ KeptText(data[side], m) = KeptText(data[side], ch)
      <3>1. CASE by = -n /\ Upwards(s, e, n)
        <4> DEFINE u == Shifted(s, e, -n)
        <4>1. /\ u \in Seq(BOOLEAN) /\ Len(u) = clen
              /\ KeptText(data[side], u) = KeptText(data[side], ch)
          BY <1>0, <1>3, <3>1, UpKeepsText, Zenon
        <4> QED
          BY <3>1, <4>1, Zenon
      <3>2. CASE by = n /\ Downwards(s, e, n)
        <4> DEFINE u == Shifted(s, e, n)
        <4>1. /\ u \in Seq(BOOLEAN) /\ Len(u) = clen
              /\ KeptText(data[side], u) = KeptText(data[side], ch)
          BY <1>0, <1>3, <3>2, DownKeepsText, Zenon
        <4> QED
          BY <3>2, <4>1, Zenon
      <3> QED
        BY <2>1, <3>1, <3>2
    <2>3. change' = [change EXCEPT ![side] = m]
      BY <2>1 DEF ShiftTo
    <2> HIDE DEF m
    <2>4. change'[side] = m /\ \A f \in Sides \ {side} : change'[f] = change[f]
      BY <1>0, <2>3 DEF MarksOf
    <2>5. clen = Len(data[side]) /\ ch = change[side]
      BY <1>0, SideFacts DEF ch
    <2>6. \A f \in Sides : change'[f] \in Seq(BOOLEAN) /\ Len(change'[f]) = Len(data[f])
      BY <1>0, <2>2, <2>4, <2>5 DEF MarksOf
    <2>7. change' = [f \in Sides |-> change'[f]]
      BY <1>0, <2>3 DEF MarksOf
    <2>8. MarksOf(change')
      BY <2>6, <2>7 DEF MarksOf
    <2> QED
      BY <2>2, <2>4, <2>5, <2>8
  <1> QED
    BY <1>1, <1>2, <1>3, ShiftMoves

\* Every step keeps it.
LEMMA NextDiffInv == DiffInv /\ [Next]_vars => DiffInv'
  <1> SUFFICES ASSUME DiffInv, [Next]_vars PROVE DiffInv'
    OBVIOUS
  <1>1. CASE Shift
    <2>1. UNCHANGED <<mode, stage, data, ids, zchange, side>>
      BY <1>1 DEF Shift, input
    <2>2. start' \in Nat /\ MarksOf(change')
      BY <1>1, ShiftKeeps
    <2> QED
      BY <2>1, <2>2 DEF DiffInv, MarksOf
  <1>2. CASE Done \/ UNCHANGED vars
    BY <1>2 DEF Done, vars, input, cursors, DiffInv, MarksOf
  <1> QED
    BY <1>1, <1>2, EquivDiffInv, CompressDiffInv, LcsDiffInv, ExpandDiffInv, ReportDiffInv DEF Next

\* DiffInv holds all along.
LEMMA DiffInvariant == Spec => []DiffInv
  BY InitDiffInv, NextDiffInv, PTL DEF Spec

\* Whatever collides in the hash table of find_equiv_lines, two lines of either
\* file have the same number just when they are the same, from there on to the
\* end.
THEOREM DiffNumbersAreLines == Spec => []NumbersAreLines
  <1>1. DiffInv => NumbersAreLines
    BY DEF DiffInv, NumbersAreLines
  <1> QED
    BY <1>1, DiffInvariant, PTL

\* Each side's marks fit its text all the time, as runes or as lines.
THEOREM DiffMarksFit == Spec => []MarksOf(change)
  <1>1. DiffInv => MarksOf(change)
    BY DEF DiffInv
  <1> QED
    BY <1>1, DiffInvariant, PTL

\* Once they are marked, the text of neither side without what is marked changes
\* any more: shift_boundaries moves marks only over equal items, whatever it merges,
\* however far it goes and whichever place it prefers for runes.
THEOREM DiffKeepsText ==
  Spec => [][Compared => \A f \in Sides : KeptOf(f)' = KeptOf(f)]_vars
  <1>1. DiffInv /\ [Next]_vars => [Compared => \A f \in Sides : KeptOf(f)' = KeptOf(f)]_vars
    <2> SUFFICES ASSUME DiffInv, [Next]_vars, Compared, NEW f \in Sides
                 PROVE  KeptOf(f)' = KeptOf(f)
      OBVIOUS
    <2>1. CASE Shift
      <3>1. UNCHANGED data
        BY <2>1 DEF Shift, input
      <3>2. KeptText(data[f], change'[f]) = KeptText(data[f], change[f])
        BY <2>1, ShiftKeeps
      <3> QED
        BY <3>1, <3>2 DEF KeptOf
    <2>2. CASE UNCHANGED <<data, change>>
      BY <2>2 DEF KeptOf
    <2>3. UNCHANGED <<data, change>> \/ Shift
      BY DEF Next, Compared, Equiv, Compress, Lcs, Expand, ShiftEnd, Report, ReportEnd, Done, vars, input
    <2> QED
      BY <2>1, <2>2, <2>3
  <1> QED
    BY <1>1, DiffInvariant, PTL DEF Spec
=============================================================================

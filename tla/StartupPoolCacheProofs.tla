----------------------- MODULE StartupPoolCacheProofs -----------------------
(***************************************************************************)
(* Theorems about Startup, for every number of sections, of callers and of *)
(* remote servers; about ConnPool, for every number of users, of           *)
(* connections and of calls; and about RedisCache, for every number of     *)
(* clients, of keys and of operations.                                     *)
(***************************************************************************)
EXTENDS Startup, ConnPool, RedisCache, SequenceTheorems, FiniteSetTheorems, TLAPS

(***************************************************************************)
(* ConnPool.  The pool is kept as sets of connections, which the lemmas on *)
(* sequences give; what an operation defers is never empty while it has    *)
(* something to return, so that it always has one to release.              *)
(***************************************************************************)

\* What an operation returns it returns by a deferred call.
Holding == \A u \in Users : result[u] # Pending => held[u] # <<>>

\* EveryConnOnce, connection by connection.
Apart ==
    /\ IsInjective(conns)
    /\ \A u \in Users : /\ IsInjective(held[u])
                        /\ \A c \in ToSet(held[u]) : c \notin ToSet(conns)
                        /\ \A v \in Users \ {u} : \A c \in ToSet(held[u]) : c \notin ToSet(held[v])
NoneLost == \A c \in Conns : c \in ToSet(conns) \/ \E u \in Users : c \in ToSet(held[u])

\* Nothing sets a srvInfo, and its dereference panics.
NoSrvInfo == \A p \in Conns \union {Pool} : srvInfo[p] = Nil

PoolInv == TypeOK /\ NoSrvInfo /\ Holding /\ Apart /\ NoneLost /\ KeepsOnlyDead

-----------------------------------------------------------------------------
LEMMA ToSetIn ==
  ASSUME NEW S, NEW s \in Seq(S)
  PROVE  /\ ToSet(s) \subseteq S
         /\ s = <<>> => ToSet(s) = {}
  BY LenProperties, ElementOfSeq DEF ToSet

LEMMA HeadOff ==
  ASSUME NEW S, NEW s \in Seq(S), s # <<>>, IsInjective(s)
  PROVE  /\ Head(s) \in S
         /\ Head(s) \in ToSet(s)
         /\ Tail(s) \in Seq(S)
         /\ IsInjective(Tail(s))
         /\ ToSet(Tail(s)) = ToSet(s) \ {Head(s)}
  <1>1. /\ Len(s) \in Nat \ {0}
        /\ DOMAIN s = 1..Len(s)
        /\ Tail(s) \in Seq(S)
        /\ DOMAIN Tail(s) = 1..(Len(s) - 1)
        /\ \A i \in 1..(Len(s) - 1) : Tail(s)[i] = s[i + 1]
        /\ Head(s) = s[1]
        /\ Head(s) \in S
    BY EmptySeq, LenProperties, HeadTailProperties
  <1>2. Head(s) \in ToSet(s)
    BY <1>1 DEF ToSet
  <1>3. ASSUME NEW i \in 1..(Len(s) - 1), NEW j \in 1..(Len(s) - 1), Tail(s)[i] = Tail(s)[j]
        PROVE  i = j
    <2>1. i + 1 \in DOMAIN s /\ j + 1 \in DOMAIN s /\ s[i + 1] = s[j + 1]
      BY <1>1, <1>3
    <2> QED
      BY <1>1, <2>1 DEF IsInjective
  <1>4. ASSUME NEW x \in ToSet(Tail(s)) PROVE x \in ToSet(s) \ {Head(s)}
    <2>1. PICK i \in 1..(Len(s) - 1) : x = Tail(s)[i]
      BY <1>1 DEF ToSet
    <2>2. i + 1 \in DOMAIN s /\ 1 \in DOMAIN s /\ i + 1 # 1 /\ x = s[i + 1]
      BY <1>1, <2>1
    <2> QED
      BY <1>1, <2>2 DEF ToSet, IsInjective
  <1>5. ASSUME NEW x \in ToSet(s) \ {Head(s)} PROVE x \in ToSet(Tail(s))
    <2>1. PICK i \in 1..Len(s) : x = s[i]
      BY <1>1 DEF ToSet
    <2>2. i - 1 \in 1..(Len(s) - 1) /\ s[(i - 1) + 1] = x
      BY <1>1, <2>1
    <2> QED
      BY <1>1, <2>2 DEF ToSet
  <1> QED
    BY <1>1, <1>2, <1>3, <1>4, <1>5 DEF IsInjective

LEMMA LastOff ==
  ASSUME NEW S, NEW s \in Seq(S), s # <<>>, IsInjective(s)
  PROVE  /\ Last(s) \in S
         /\ Last(s) \in ToSet(s)
         /\ Front(s) \in Seq(S)
         /\ IsInjective(Front(s))
         /\ ToSet(Front(s)) = ToSet(s) \ {Last(s)}
  <1> DEFINE n == Len(s) - 1
  <1>1. /\ Len(s) \in Nat \ {0}
        /\ DOMAIN s = 1..Len(s)
        /\ \A i \in 1..Len(s) : s[i] \in S
    BY EmptySeq, LenProperties
  <1>2. /\ Front(s) \in Seq(S)
        /\ Len(Front(s)) = n
        /\ \A i \in 1..n : Front(s)[i] = s[i]
    <2>1. 1 \in Int /\ n \in Int /\ \A i \in 1..n : s[i] \in S
      BY <1>1
    <2>2. /\ SubSeq(s, 1, n) \in Seq(S)
          /\ Len(SubSeq(s, 1, n)) = IF 1 <= n THEN n - 1 + 1 ELSE 0
          /\ \A i \in 1..(n - 1 + 1) : SubSeq(s, 1, n)[i] = s[1 + i - 1]
      BY <2>1, SubSeqProperties
    <2>3. \A i \in 1..n : SubSeq(s, 1, n)[i] = s[i]
      <3> TAKE i \in 1..n
      <3>1. i \in 1..(n - 1 + 1) /\ 1 + i - 1 = i
        BY <1>1
      <3> QED
        BY <2>2, <3>1
    <2> QED
      BY <1>1, <2>2, <2>3 DEF Front
  <1>3. DOMAIN Front(s) = 1..n
    BY <1>2, LenProperties
  <1>4. Last(s) \in S /\ Last(s) \in ToSet(s)
    BY <1>1 DEF Last, ToSet
  <1>5. ASSUME NEW i \in 1..n, NEW j \in 1..n, Front(s)[i] = Front(s)[j]
        PROVE  i = j
    <2>1. i \in DOMAIN s /\ j \in DOMAIN s /\ s[i] = s[j]
      BY <1>1, <1>2, <1>5
    <2> QED
      BY <2>1 DEF IsInjective
  <1>6. ASSUME NEW x \in ToSet(Front(s)) PROVE x \in ToSet(s) \ {Last(s)}
    <2>1. PICK i \in 1..n : x = Front(s)[i]
      BY <1>3 DEF ToSet
    <2>2. i \in 1..Len(s) /\ Len(s) \in 1..Len(s) /\ i # Len(s)
      <3>1. Len(s) \in Nat \ {0} /\ i \in Int /\ 1 <= i /\ i <= Len(s) - 1
        BY <1>1
      <3> QED
        BY <3>1
    <2>3. x = s[i]
      BY <1>2, <2>1
    <2> QED
      BY <1>1, <2>2, <2>3 DEF ToSet, IsInjective, Last
  <1>7. ASSUME NEW x \in ToSet(s) \ {Last(s)} PROVE x \in ToSet(Front(s))
    <2>1. PICK i \in 1..Len(s) : x = s[i]
      BY <1>1 DEF ToSet
    <2>2. i \in 1..n
      BY <1>1, <2>1 DEF Last
    <2> QED
      BY <1>2, <1>3, <2>1, <2>2 DEF ToSet
  <1> QED
    BY <1>2, <1>3, <1>4, <1>5, <1>6, <1>7 DEF IsInjective

LEMMA Appended ==
  ASSUME NEW S, NEW s \in Seq(S), IsInjective(s), NEW x \in S, x \notin ToSet(s)
  PROVE  /\ Append(s, x) \in Seq(S)
         /\ Append(s, x) # <<>>
         /\ IsInjective(Append(s, x))
         /\ ToSet(Append(s, x)) = ToSet(s) \union {x}
  <1>1. /\ Len(s) \in Nat
        /\ DOMAIN s = 1..Len(s)
        /\ Append(s, x) \in Seq(S)
        /\ Append(s, x) # <<>>
        /\ DOMAIN Append(s, x) = 1..(Len(s) + 1)
        /\ \A i \in 1..Len(s) : Append(s, x)[i] = s[i]
        /\ Append(s, x)[Len(s) + 1] = x
    BY LenProperties, AppendProperties
  <1>2. ASSUME NEW i \in 1..(Len(s) + 1), NEW j \in 1..(Len(s) + 1),
               Append(s, x)[i] = Append(s, x)[j]
        PROVE  i = j
    BY <1>1, <1>2 DEF IsInjective, ToSet
  <1>3. ToSet(Append(s, x)) = ToSet(s) \union {x}
    <2>1. ASSUME NEW y \in ToSet(Append(s, x)) PROVE y \in ToSet(s) \union {x}
      BY <1>1, <2>1 DEF ToSet
    <2>2. ASSUME NEW y \in ToSet(s) PROVE y \in ToSet(Append(s, x))
      <3>1. PICK i \in 1..Len(s) : y = s[i]
        BY <1>1 DEF ToSet
      <3> QED
        BY <1>1, <3>1 DEF ToSet
    <2>3. x \in ToSet(Append(s, x))
      BY <1>1 DEF ToSet
    <2> QED
      BY <2>1, <2>2, <2>3
  <1> QED
    BY <1>1, <1>2, <1>3 DEF IsInjective

\* What NewTCPConnPool fills the channel with.
LEMMA Enumerates ==
  ASSUME NEW S, IsFiniteSet(S)
  PROVE  /\ SetToSeq(S) \in Seq(S)
         /\ IsInjective(SetToSeq(S))
         /\ ToSet(SetToSeq(S)) = S
  <1> DEFINE n == Cardinality(S)
             f == SetToSeq(S)
  <1>1. n \in Nat /\ ExistsBijection(1..n, S)
    BY FS_CardinalityType
  <1>2. \E g \in [1..n -> S] : IsInjective(g)
    BY <1>1 DEF ExistsBijection, Bijection, Injection, IsInjective
  <1>3. f \in [1..n -> S] /\ IsInjective(f)
    BY <1>2 DEF SetToSeq
  <1>4. f \in Surjection(1..n, S)
    <2>1. f \in Injection(1..n, S)
      BY <1>3 DEF Injection, IsInjective
    <2>2. IsFiniteSet(1..n) /\ Cardinality(1..n) = n
      BY <1>1, FS_Interval
    <2> QED
      BY <2>1, <2>2, FS_Injection
  <1>5. ToSet(f) = S
    BY <1>3, <1>4 DEF Surjection, ToSet
  <1>6. f \in Seq(S)
    BY <1>1, <1>3, SeqDef
  <1> QED
    BY <1>3, <1>5, <1>6

-----------------------------------------------------------------------------
LEMMA InitPoolInv == Init => PoolInv
  <1> SUFFICES ASSUME Init PROVE PoolInv
    OBVIOUS
  <1>1. /\ conns \in Seq(Conns)
        /\ IsInjective(conns)
        /\ ToSet(conns) = Conns
    BY Enumerates, ConnsAssumption DEF Init
  <1>2. TypeOK
    <2>1. held \in [Users -> Seq(Conns)]
      BY EmptySeq DEF Init
    <2> QED
      BY <1>1, <2>1 DEF Init, TypeOK, Results
  <1>3. \A u \in Users : held[u] = <<>> /\ ToSet(held[u]) = {} /\ IsInjective(held[u])
    <2> TAKE u \in Users
    <2>1. held[u] = <<>>
      BY DEF Init
    <2>2. ToSet(held[u]) = {}
      BY <2>1, EmptySeq, ToSetIn
    <2>3. DOMAIN held[u] = {}
      BY <2>1, EmptySeq, LenProperties
    <2> QED
      BY <2>1, <2>2, <2>3 DEF IsInjective
  <1>4. Holding
    BY DEF Holding, Init
  <1>5. Apart /\ NoneLost
    BY <1>1, <1>3 DEF Apart, NoneLost
  <1>6. KeepsOnlyDead
    BY <1>3 DEF KeepsOnlyDead
  <1>7. NoSrvInfo
    BY DEF NoSrvInfo, Init
  <1> QED
    BY <1>2, <1>4, <1>5, <1>6, <1>7 DEF PoolInv

\* Taking moves one connection from the channel to the user.
LEMMA TakeMoves ==
  ASSUME PoolInv, NEW u \in Users, Take(u)
  PROVE  /\ conns' \in Seq(Conns)
         /\ held' \in [Users -> Seq(Conns)]
         /\ held'[u] # <<>>
         /\ Head(conns) \in Conns
         /\ \A v \in Users : ToSet(held'[v]) =
                IF v = u THEN ToSet(held[u]) \union {Head(conns)} ELSE ToSet(held[v])
         /\ Apart' /\ NoneLost'
  <1> DEFINE c == Head(conns)
  <1>1. /\ conns \in Seq(Conns) /\ conns # <<>> /\ IsInjective(conns)
        /\ held \in [Users -> Seq(Conns)]
        /\ conns' = Tail(conns)
        /\ held' = [held EXCEPT ![u] = Append(held[u], c)]
        /\ \A v \in Users : IsInjective(held[v])
        /\ \A v \in Users : \A d \in ToSet(held[v]) : d \notin ToSet(conns)
        /\ \A v \in Users : \A w \in Users \ {v} : \A d \in ToSet(held[v]) : d \notin ToSet(held[w])
        /\ \A d \in Conns : d \in ToSet(conns) \/ \E v \in Users : d \in ToSet(held[v])
    BY DEF PoolInv, TypeOK, Apart, NoneLost, Take
  <1>2. /\ c \in Conns /\ c \in ToSet(conns)
        /\ conns' \in Seq(Conns) /\ IsInjective(conns')
        /\ ToSet(conns') = ToSet(conns) \ {c}
    BY <1>1, HeadOff
  <1>3. c \notin ToSet(held[u]) /\ held[u] \in Seq(Conns) /\ IsInjective(held[u])
    BY <1>1, <1>2
  <1>4. /\ held'[u] = Append(held[u], c)
        /\ held'[u] \in Seq(Conns) /\ held'[u] # <<>> /\ IsInjective(held'[u])
        /\ ToSet(held'[u]) = ToSet(held[u]) \union {c}
    <2>1. held'[u] = Append(held[u], c)
      BY <1>1
    <2> QED
      BY <2>1, <1>2, <1>3, Appended
  <1>5. \A v \in Users \ {u} : held'[v] = held[v]
    BY <1>1
  <1>6. held' \in [Users -> Seq(Conns)]
    BY <1>1, <1>4
  <1>7. Apart'
    BY <1>1, <1>2, <1>4, <1>5 DEF Apart
  <1>8. NoneLost'
    BY <1>1, <1>2, <1>4, <1>5 DEF NoneLost
  <1> QED
    BY <1>2, <1>4, <1>5, <1>6, <1>7, <1>8

\* Releasing moves the last one back.
LEMMA ReleaseMoves ==
  ASSUME PoolInv, NEW u \in Users, Release(u), result[u] # Pending
  PROVE  /\ conns' \in Seq(Conns)
         /\ held' \in [Users -> Seq(Conns)]
         /\ \A v \in Users : v # u => held'[v] = held[v]
         /\ \A v \in Users : ToSet(held'[v]) \subseteq ToSet(held[v])
         /\ Apart' /\ NoneLost'
  <1> DEFINE c == Last(held[u])
  <1>1. /\ conns \in Seq(Conns) /\ IsInjective(conns)
        /\ held \in [Users -> Seq(Conns)] /\ held[u] # <<>>
        /\ conns' = Append(conns, c)
        /\ held' = [held EXCEPT ![u] = Front(held[u])]
        /\ \A v \in Users : IsInjective(held[v])
        /\ \A v \in Users : \A d \in ToSet(held[v]) : d \notin ToSet(conns)
        /\ \A v \in Users : \A w \in Users \ {v} : \A d \in ToSet(held[v]) : d \notin ToSet(held[w])
        /\ \A d \in Conns : d \in ToSet(conns) \/ \E v \in Users : d \in ToSet(held[v])
    BY DEF PoolInv, NoSrvInfo, TypeOK, Holding, Apart, NoneLost, Release
  <1>2. /\ c \in Conns /\ c \in ToSet(held[u])
        /\ Front(held[u]) \in Seq(Conns) /\ IsInjective(Front(held[u]))
        /\ ToSet(Front(held[u])) = ToSet(held[u]) \ {c}
    <2>1. held[u] \in Seq(Conns) /\ held[u] # <<>> /\ IsInjective(held[u])
      BY <1>1
    <2> QED
      BY <2>1, LastOff
  <1>3. held'[u] = Front(held[u]) /\ \A v \in Users \ {u} : held'[v] = held[v]
    BY <1>1
  <1>4. c \notin ToSet(conns)
    BY <1>1, <1>2
  <1>5. /\ conns' \in Seq(Conns) /\ IsInjective(conns')
        /\ ToSet(conns') = ToSet(conns) \union {c}
    BY <1>1, <1>2, <1>4, Appended
  <1>6. held' \in [Users -> Seq(Conns)]
    BY <1>1, <1>2
  <1>7. Apart'
    BY <1>1, <1>2, <1>3, <1>5 DEF Apart
  <1>8. NoneLost'
    BY <1>1, <1>2, <1>3, <1>5 DEF NoneLost
  <1> QED
    BY <1>2, <1>3, <1>5, <1>6, <1>7, <1>8

\* What taking adds to the invariant does not depend on the operation.
LEMMA LookKeeps ==
  ASSUME PoolInv, NEW u \in Users, Take(u), UNCHANGED <<srvStatus, srvInfo, pc, calls>>,
         NEW r \in Results, result' = [result EXCEPT ![u] = r],
         r = Head(conns) \/ srvStatus[Head(conns)] = "reconnect"
  PROVE  PoolInv'
  <1>1. /\ conns' \in Seq(Conns)
        /\ held' \in [Users -> Seq(Conns)]
        /\ held'[u] # <<>>
        /\ Head(conns) \in Conns
        /\ \A v \in Users : ToSet(held'[v]) =
               IF v = u THEN ToSet(held[u]) \union {Head(conns)} ELSE ToSet(held[v])
        /\ Apart' /\ NoneLost'
    BY TakeMoves
  <1>2. TypeOK'
    BY <1>1 DEF PoolInv, TypeOK
  <1>3. Holding'
    <2>1. \A v \in Users \ {u} : held'[v] = held[v] /\ result'[v] = result[v]
      BY DEF PoolInv, TypeOK, Take
    <2> QED
      BY <1>1, <2>1 DEF PoolInv, Holding
  <1>4. KeepsOnlyDead'
    <2> SUFFICES ASSUME NEW v \in Users, NEW d \in ToSet(held'[v]), d # result'[v]
                 PROVE  srvStatus[d] = "reconnect"
      BY DEF KeepsOnlyDead
    <2>1. CASE v # u
      BY <1>1, <2>1 DEF PoolInv, TypeOK, KeepsOnlyDead
    <2>2. CASE v = u /\ d \in ToSet(held[u])
      <3>1. d \in Conns /\ result[u] = Pending
        BY <2>2, ToSetIn DEF PoolInv, TypeOK, Take
      <3>2. d # result[u]
        BY <3>1, ResultsAssumption
      <3> QED
        BY <2>2, <3>2 DEF PoolInv, KeepsOnlyDead
    <2>3. CASE v = u /\ d = Head(conns)
      BY <2>3 DEF PoolInv, TypeOK
    <2> QED
      BY <1>1, <2>1, <2>2, <2>3
  <1> QED
    BY <1>1, <1>2, <1>3, <1>4 DEF PoolInv, NoSrvInfo

\* A pool has no srvInfo: whatever is set in one, a panic is what comes of it.
LEMMA SetInfoPanics ==
  ASSUME PoolInv, NEW u, NEW p \in Conns \union {Pool}, NEW status, NEW res, SetInfo(u, p, status, res)
  PROVE  result' = [result EXCEPT ![u] = Panicked] /\ UNCHANGED srvInfo
  BY DEF PoolInv, NoSrvInfo, SetInfo, Returns

LEMMA GetKeeps == ASSUME PoolInv, NEW u \in Users, Get(u) PROVE PoolInv'
  <1> DEFINE c == Head(conns)
  <1>1. Take(u) /\ UNCHANGED <<srvStatus, pc, calls>>
    BY DEF Get
  <1>2. c \in Conns /\ result \in [Users -> Results] /\ srvStatus[c] \in {"ok", "reconnect"}
    BY <1>1, TakeMoves DEF PoolInv, TypeOK
  <1>3. CASE srvStatus[c] = "ok"
    <2>1. result' = [result EXCEPT ![u] = c] /\ c \in Results /\ UNCHANGED srvInfo
      BY <1>2, <1>3 DEF Get, Returns, Results
    <2> QED
      BY <1>1, <2>1, LookKeeps
  <1>4. CASE srvStatus[c] # "ok" /\ SetInfo(u, Pool, "reconnect", Failed)
    <2>1. result' = [result EXCEPT ![u] = Panicked] /\ UNCHANGED srvInfo
      BY <1>4, SetInfoPanics
    <2>2. Panicked \in Results /\ srvStatus[c] = "reconnect"
      BY <1>2, <1>4 DEF Results
    <2> QED
      BY <1>1, <2>1, <2>2, LookKeeps
  <1>5. CASE srvStatus[c] # "ok" /\ UNCHANGED <<result, srvInfo>>
    <2>1. result' = [result EXCEPT ![u] = result[u]] /\ result[u] \in Results
      BY <1>2, <1>5
    <2>2. srvStatus[c] = "reconnect"
      BY <1>2, <1>5
    <2> QED
      BY <1>1, <1>5, <2>1, <2>2, LookKeeps
  <1> QED
    BY <1>3, <1>4, <1>5 DEF Get

LEMMA ReconnectKeeps == ASSUME PoolInv, NEW u \in Users, Reconnect(u) PROVE PoolInv'
  <1> DEFINE c == Head(conns)
  <1>1. Take(u) /\ UNCHANGED <<pc, calls>>
    BY DEF Reconnect
  <1>2. c \in Conns /\ result \in [Users -> Results] /\ srvStatus[c] \in {"ok", "reconnect"}
    BY <1>1, TakeMoves DEF PoolInv, TypeOK
  <1>3. CASE srvStatus[c] = "ok"
    <2>1. /\ result' = [result EXCEPT ![u] = c] /\ c \in Results
          /\ UNCHANGED <<srvStatus, srvInfo>>
      BY <1>2, <1>3 DEF Reconnect, Returns, Results
    <2> QED
      BY <1>1, <2>1, LookKeeps
  <1>4. CASE srvStatus[c] # "ok" /\ Redial(u, c)
    <2>1. result' = [result EXCEPT ![u] = Panicked] /\ UNCHANGED srvInfo
      BY <1>2, <1>4, SetInfoPanics DEF Redial
    <2>2. UNCHANGED srvStatus
      BY <1>2, <1>4 DEF Redial, PoolInv, NoSrvInfo
    <2>3. Panicked \in Results /\ srvStatus[c] = "reconnect"
      BY <1>2, <1>4 DEF Results
    <2> QED
      BY <1>1, <2>1, <2>2, <2>3, LookKeeps
  <1>5. CASE /\ srvStatus[c] # "ok"
             /\ IF GivesUp(u) THEN Returns(u, Failed) ELSE UNCHANGED result
             /\ UNCHANGED <<srvStatus, srvInfo>>
    <2>1. PICK r \in Results : result' = [result EXCEPT ![u] = r]
      <3>1. CASE GivesUp(u)
        BY <1>5, <3>1 DEF Returns, Results
      <3>2. CASE ~ GivesUp(u)
        BY <1>2, <1>5, <3>2
      <3> QED
        BY <3>1, <3>2
    <2>2. srvStatus[c] = "reconnect"
      BY <1>2, <1>5
    <2> QED
      BY <1>1, <1>5, <2>1, <2>2, LookKeeps
  <1> QED
    BY <1>3, <1>4, <1>5 DEF Reconnect

LEMMA LeaveKeeps == ASSUME PoolInv, NEW u \in Users, Leave(u) PROVE PoolInv'
  <1>1. /\ conns' \in Seq(Conns)
        /\ held' \in [Users -> Seq(Conns)]
        /\ \A v \in Users : v # u => held'[v] = held[v]
        /\ \A v \in Users : ToSet(held'[v]) \subseteq ToSet(held[v])
        /\ Apart' /\ NoneLost'
    BY ReleaseMoves DEF Leave
  <1>2. UNCHANGED <<srvStatus, srvInfo, calls>>
    BY DEF Leave
  <1>3. CASE held'[u] # <<>>
    <2>1. UNCHANGED <<pc, result>>
      BY <1>3 DEF Leave
    <2>2. TypeOK' /\ Holding' /\ KeepsOnlyDead'
      BY <1>1, <1>2, <1>3, <2>1 DEF PoolInv, TypeOK, Holding, KeepsOnlyDead
    <2> QED
      BY <1>1, <1>2, <2>2 DEF PoolInv, NoSrvInfo
  <1>4. CASE held'[u] = <<>>
    <2>1. /\ pc' = [pc EXCEPT ![u] = "out"]
          /\ result' = [result EXCEPT ![u] = Pending]
      BY <1>4 DEF Leave
    <2>2. ToSet(held'[u]) = {}
      BY <1>1, <1>4, ToSetIn
    <2>3. TypeOK'
      BY <1>1, <1>2, <2>1 DEF PoolInv, TypeOK, Results
    <2>4. Holding' /\ KeepsOnlyDead'
      BY <1>1, <1>2, <2>1, <2>2 DEF PoolInv, TypeOK, Holding, KeepsOnlyDead
    <2> QED
      BY <1>1, <1>2, <2>3, <2>4 DEF PoolInv, NoSrvInfo
  <1> QED
    BY <1>3, <1>4

LEMMA NextPoolInv == PoolInv /\ [Next]_vars => PoolInv'
  <1> SUFFICES ASSUME PoolInv, [Next]_vars PROVE PoolInv'
    OBVIOUS
  <1>1. ASSUME NEW c \in Conns, Lose(c) PROVE PoolInv'
    BY <1>1 DEF Lose, PoolInv, NoSrvInfo, TypeOK, Holding, Apart, NoneLost, KeepsOnlyDead
  <1>2. ASSUME NEW u \in Users, Call(u) PROVE PoolInv'
    BY <1>2 DEF Call, PoolInv, NoSrvInfo, TypeOK, Holding, Apart, NoneLost, KeepsOnlyDead
  <1>3. ASSUME NEW u \in Users, Operation(u) PROVE PoolInv'
    BY <1>3, GetKeeps, ReconnectKeeps, LeaveKeeps DEF Operation
  <1>4. CASE UNCHANGED vars
    BY <1>4 DEF vars, PoolInv, NoSrvInfo, TypeOK, Holding, Apart, NoneLost, KeepsOnlyDead
  <1> QED
    BY <1>1, <1>2, <1>3, <1>4 DEF Next

\* The pool's invariant holds all along, for every number of users and connections.
THEOREM PoolInvariant == SafeSpec => []PoolInv
  BY InitPoolInv, NextPoolInv, PTL DEF SafeSpec

-----------------------------------------------------------------------------
\* Every variable of the pool stays in its set.
THEOREM PoolTypeOK == Spec => []TypeOK
  <1>1. PoolInv => TypeOK
    BY DEF PoolInv
  <1> QED
    BY PoolInvariant, <1>1, PTL DEF Spec

\* Whatever fails or panics half way, each connection stays in the channel or
\* deferred by one operation, once.
THEOREM PoolEveryConnOnce == Spec => []EveryConnOnce
  <1>1. PoolInv => EveryConnOnce
    <2> SUFFICES ASSUME PoolInv PROVE EveryConnOnce
      OBVIOUS
    <2>1. ToSet(conns) \subseteq Conns /\ \A u \in Users : ToSet(held[u]) \subseteq Conns
      BY ToSetIn DEF PoolInv, TypeOK
    <2>2. Conns = ToSet(conns) \union UNION {ToSet(held[u]) : u \in Users}
      BY <2>1 DEF PoolInv, NoneLost
    <2> QED
      BY <2>2 DEF PoolInv, Apart, EveryConnOnce
  <1> QED
    BY PoolInvariant, <1>1, PTL DEF Spec

\* An operation keeps no connection that is alive, but the one it returns.
THEOREM PoolKeepsOnlyDead == Spec => []KeepsOnlyDead
  <1>1. PoolInv => KeepsOnlyDead
    BY DEF PoolInv
  <1> QED
    BY PoolInvariant, <1>1, PTL DEF Spec

\* The channel has room for whoever has something to release: no Release blocks.
RoomToRelease == \A u \in Users : held[u] # <<>> => Len(conns) < maxIdle

\* A deferred Release never finds the channel full.
THEOREM PoolRoomToRelease == Spec => []RoomToRelease
  <1>1. PoolInv => RoomToRelease
    <2> SUFFICES ASSUME PoolInv, NEW u \in Users, held[u] # <<>> PROVE Len(conns) < maxIdle
      BY DEF RoomToRelease
    <2>1. /\ conns \in Seq(Conns) /\ IsInjective(conns)
          /\ held[u] \in Seq(Conns) /\ IsInjective(held[u])
          /\ \A c \in ToSet(held[u]) : c \notin ToSet(conns)
      BY DEF PoolInv, TypeOK, Apart
    <2> DEFINE c == Head(held[u])
    <2>2. c \in Conns /\ c \notin ToSet(conns)
      BY <2>1, HeadOff
    <2>3. /\ Len(conns) \in Nat
          /\ conns \in [1..Len(conns) -> Conns]
          /\ DOMAIN conns = 1..Len(conns)
      BY <2>1, LenProperties
    <2>4. conns \in Injection(1..Len(conns), Conns \ {c})
      BY <2>1, <2>2, <2>3 DEF ToSet, Injection, IsInjective
    <2>5. /\ IsFiniteSet(Conns \ {c})
          /\ Cardinality(Conns \ {c}) = maxIdle - 1
      BY <2>2, ConnsAssumption, FS_RemoveElement DEF maxIdle
    <2>6. Cardinality(1..Len(conns)) = Len(conns)
      <3>1. 1 \in Int /\ Len(conns) \in Int
        BY <2>3
      <3>2. Cardinality(1..Len(conns)) = IF 1 > Len(conns) THEN 0 ELSE Len(conns) - 1 + 1
        BY <3>1, FS_Interval
      <3> QED
        BY <2>3, <3>2
    <2>7. Len(conns) <= maxIdle - 1
      BY <2>4, <2>5, <2>6, FS_Injection
    <2>8. maxIdle \in Nat
      BY ConnsAssumption, FS_CardinalityType DEF maxIdle
    <2> QED
      BY <2>3, <2>7, <2>8
  <1> QED
    BY PoolInvariant, <1>1, PTL DEF Spec

-----------------------------------------------------------------------------
(***************************************************************************)
(* RedisCache.  The invariant says what an operation has still to send and *)
(* what it may rely on as long as it is alone: that the entry whose name   *)
(* it is about to take out is gone, and that ClearAll has still to delete  *)
(* every entry that is left, but those whose keys are tainted.             *)
(***************************************************************************)

HDel(k) == << <<"HDEL", k>> >>
HSet(k) == << <<"HSET", k>> >>
All     == <<"ClearAll", "all">>
DelHash == <<"DELHASH", "all">>

\* What ClearAll sends once it has the names: the entries and then the hash.
Deletions == {"DEL"} \X Keys
Clearing(s) ==
    /\ s \in Seq(Deletions \union {DelHash})
    /\ s # <<>>
    /\ s[Len(s)] = DelHash
    /\ \A i \in 1..(Len(s) - 1) : s[i] \in Deletions
Deletes(s, k) == \E i \in 1..Len(s) : s[i] = <<"DEL", k>>

\* The commands that an operation may have still to send.
Shape(o, s) ==
    \/ o = Nothing /\ s = <<>>
    \/ \E k \in Keys :
          \/ o = <<"Put", k>> /\ (s = Put(k) \/ s = HSet(k))
          \/ o = <<"Delete", k>> /\ (s = Delete(k) \/ s = HDel(k))
          \/ o = <<"IsExist", k>> /\ (s = IsExist(k) \/ s = HDel(k))
          \/ o = <<"Incr", k>> /\ s = Incr(k)
    \/ o = All /\ (s = ClearAll \/ Clearing(s))

Typing ==
    /\ live \subseteq Keys
    /\ named \subseteq Keys
    /\ todo \in [Clients -> Seq({"SETEX", "DEL", "HSET", "HDEL", "EXISTS", "INCRBY",
                                 "HKEYS", "DELHASH"} \X (Keys \union {"all"}))]
    /\ op \in [Clients -> Operations \union {Nothing}]
    /\ alone \in [Clients -> BOOLEAN]

\* What an operation that is alone has found out still holds.
Gone(c) == \A k \in Keys :
    op[c] \in {<<"Delete", k>>, <<"IsExist", k>>} /\ todo[c] = HDel(k) => k \notin live
Swept(c) == op[c] = All /\ Clearing(todo[c]) =>
    \A k \in live \ raced : Deletes(todo[c], k)

Relied ==
    /\ \A c \in Clients : Shape(op[c], todo[c])
    /\ \A c \in Clients : op[c] # Nothing /\ alone[c] =>
          /\ \A d \in Clients \ {c} : op[d] = Nothing
          /\ Gone(c)
          /\ Swept(c)

CacheInv == Typing /\ Relied /\ NamedUnlessRaced

-----------------------------------------------------------------------------
\* What a client is about to send, in which operation, and what follows it.
Sends(c, o, cmd, rest) ==
    /\ op[c] = o
    /\ Head(todo[c]) = cmd
    /\ Rest(c) = rest

Listing == [i \in 1..Cardinality(named) |-> <<"DEL", SetToSeq(named)[i]>>] \o << DelHash >>

\* HKEYS gives every name once.
LEMMA ListingClears ==
  ASSUME named \subseteq Keys
  PROVE  Clearing(Listing) /\ \A k \in named : Deletes(Listing, k)
  <1> DEFINE n == Cardinality(named)
             f == SetToSeq(named)
             s == [i \in 1..n |-> <<"DEL", f[i]>>]
  <1>1. IsFiniteSet(named)
    BY KeysAssumption, FS_Subset
  <1>2. n \in Nat /\ ExistsBijection(1..n, named)
    BY <1>1, FS_CardinalityType
  <1>3. f \in [1..n -> named] /\ IsInjective(f)
    <2>1. \E g \in [1..n -> named] : IsInjective(g)
      BY <1>2 DEF ExistsBijection, Bijection, Injection, IsInjective
    <2> QED
      BY <2>1 DEF SetToSeq
  <1>4. f \in Surjection(1..n, named)
    <2>1. f \in Injection(1..n, named)
      BY <1>3 DEF Injection, IsInjective
    <2>2. IsFiniteSet(1..n) /\ Cardinality(1..n) = n
      BY <1>2, FS_Interval
    <2> QED
      BY <2>1, <2>2, <1>1, FS_Injection
  <1> DEFINE T == Deletions \union {DelHash}
  <1>5. s \in Seq(T) /\ Len(s) = n /\ << DelHash >> \in Seq(T)
    <2>1. s \in [1..n -> T]
      BY <1>3 DEF Deletions
    <2>2. s \in Seq(T)
      <3> HIDE DEF T, n, s
      <3>1. n \in Nat
        BY <1>2
      <3> QED
        BY ONLY <2>1, <3>1
    <2>3. Len(s) = n
      BY <2>2, <1>2, LenProperties
    <2>4. DelHash \in T
      OBVIOUS
    <2>5. << DelHash >> \in Seq(T)
      <3> HIDE DEF T
      <3> QED
        BY <2>4
    <2> QED
      BY <2>2, <2>3, <2>5
  <1>6. /\ Listing \in Seq(T)
        /\ Len(Listing) = n + 1
        /\ \A i \in 1..(n + 1) : Listing[i] = IF i <= n THEN s[i] ELSE << DelHash >>[i - n]
    <2> HIDE DEF T, s
    <2>1. Len(<< DelHash >>) = 1
      OBVIOUS
    <2>2. Listing = s \o << DelHash >>
      BY DEF Listing, s
    <2> QED
      BY <1>2, <1>5, <2>1, <2>2, ConcatProperties
  <1>7. Listing[n + 1] = DelHash
    BY <1>2, <1>6
  <1>8. \A i \in 1..n : Listing[i] = <<"DEL", f[i]>>
    BY <1>2, <1>6
  <1>9. Clearing(Listing)
    <2>1. Listing # <<>>
      BY <1>2, <1>6, EmptySeq
    <2>2. \A i \in 1..n : Listing[i] \in Deletions
      <3> TAKE i \in 1..n
      <3>1. f[i] \in Keys
        BY <1>3
      <3> QED
        BY <1>8, <3>1 DEF Deletions
    <2> QED
      BY <1>2, <1>6, <1>7, <2>1, <2>2 DEF Clearing
  <1>10. ASSUME NEW k \in named PROVE Deletes(Listing, k)
    <2>1. PICK i \in 1..n : f[i] = k
      BY <1>4 DEF Surjection
    <2> QED
      BY <1>2, <1>6, <1>8, <2>1 DEF Deletes
  <1> QED
    BY <1>9, <1>10

LEMMA ShortSeqs ==
  ASSUME NEW T, NEW a \in T, NEW b \in T
  PROVE  <<>> \in Seq(T) /\ <<a>> \in Seq(T) /\ <<a, b>> \in Seq(T)
  OBVIOUS

LEMMA ShapeTyped ==
  ASSUME NEW o, NEW s, Shape(o, s)
  PROVE  s \in Seq({"SETEX", "DEL", "HSET", "HDEL", "EXISTS", "INCRBY",
                    "HKEYS", "DELHASH"} \X (Keys \union {"all"}))
  <1> DEFINE T == {"SETEX", "DEL", "HSET", "HDEL", "EXISTS", "INCRBY",
                   "HKEYS", "DELHASH"} \X (Keys \union {"all"})
  <1> SUFFICES s \in Seq(T)
    OBVIOUS
  <1>1. /\ \A k \in Keys : \A w \in {"SETEX", "DEL", "HSET", "HDEL", "EXISTS", "INCRBY"} :
              <<w, k>> \in T
        /\ <<"HKEYS", "all">> \in T
        /\ Deletions \union {DelHash} \subseteq T
    BY DEF Deletions, DelHash
  <1> HIDE DEF T
  <1>2. CASE s = <<>>
    BY <1>1, <1>2, ShortSeqs
  <1>3. ASSUME NEW k \in Keys,
               s \in {Put(k), HSet(k), Delete(k), HDel(k), IsExist(k), Incr(k)}
        PROVE  s \in Seq(T)
    <2>1. /\ <<"SETEX", k>> \in T /\ <<"HSET", k>> \in T /\ <<"DEL", k>> \in T
          /\ <<"HDEL", k>> \in T /\ <<"EXISTS", k>> \in T /\ <<"INCRBY", k>> \in T
      BY <1>1
    <2>2. Put(k) \in Seq(T) /\ HSet(k) \in Seq(T)
      BY <2>1, ShortSeqs DEF Put, HSet
    <2>3. Delete(k) \in Seq(T) /\ HDel(k) \in Seq(T)
      BY <2>1, ShortSeqs DEF Delete, HDel
    <2>4. IsExist(k) \in Seq(T) /\ Incr(k) \in Seq(T)
      BY <2>1, ShortSeqs DEF IsExist, Incr
    <2> QED
      BY <1>3, <2>2, <2>3, <2>4
  <1>4. CASE s = ClearAll
    BY <1>1, <1>4, ShortSeqs DEF ClearAll
  <1>5. CASE Clearing(s)
    BY <1>1, <1>5, SeqMonotonic DEF Clearing
  <1> QED
    BY <1>2, <1>3, <1>4, <1>5 DEF Shape

\* Taking the first deletion off.
LEMMA TailClears ==
  ASSUME NEW s, Clearing(s)
  PROVE  \/ /\ Head(s) = DelHash
            /\ Tail(s) = <<>>
            /\ \A k \in Keys : ~ Deletes(s, k)
         \/ \E j \in Keys :
              /\ Head(s) = <<"DEL", j>>
              /\ Tail(s) # <<>>
              /\ Clearing(Tail(s))
              /\ \A k \in Keys : Deletes(s, k) => k = j \/ Deletes(Tail(s), k)
  <1> DEFINE T == Deletions \union {DelHash}
             n == Len(s)
  <1>1. /\ s \in Seq(T) /\ s # <<>> /\ s[n] = DelHash
        /\ \A i \in 1..(n - 1) : s[i] \in Deletions
    BY DEF Clearing
  <1> HIDE DEF T
  <1>2. /\ n \in Nat \ {0}
        /\ Head(s) = s[1]
        /\ Tail(s) \in Seq(T)
        /\ Len(Tail(s)) = n - 1
        /\ \A i \in 1..(n - 1) : Tail(s)[i] = s[i + 1]
    BY <1>1, EmptySeq, HeadTailProperties
  <1>3. CASE n = 1
    <2>1. Tail(s) = <<>>
      <3>1. Tail(s) \in Seq(T) /\ Len(Tail(s)) = 0
        BY <1>2, <1>3
      <3> QED
        BY <3>1, EmptySeq
    <2>2. \A k \in Keys : ~ Deletes(s, k)
      BY <1>1, <1>3 DEF Deletes, DelHash
    <2> QED
      BY <1>1, <1>2, <1>3, <2>1, <2>2
  <1>4. CASE n # 1
    <2>1. 1 \in 1..(n - 1) /\ n - 1 \in 1..(n - 1) /\ (n - 1) + 1 = n
      BY <1>2, <1>4
    <2>2. PICK j \in Keys : Head(s) = <<"DEL", j>>
      BY <1>1, <1>2, <2>1 DEF Deletions
    <2>3. Tail(s) # <<>> /\ Tail(s)[n - 1] = DelHash
      <3>1. Tail(s) \in Seq(T) /\ Len(Tail(s)) # 0
        BY <1>2, <1>4
      <3>2. Tail(s)[n - 1] = DelHash
        BY <1>1, <1>2, <2>1
      <3> QED
        BY <3>1, <3>2, EmptySeq
    <2>4. ASSUME NEW i \in 1..(n - 1 - 1) PROVE Tail(s)[i] \in Deletions
      <3>1. i \in 1..(n - 1) /\ i + 1 \in 1..(n - 1)
        BY <1>2
      <3> QED
        BY <1>1, <1>2, <3>1
    <2>5. Clearing(Tail(s))
      BY <1>2, <2>3, <2>4 DEF Clearing, T
    <2>6. ASSUME NEW k \in Keys, Deletes(s, k) PROVE k = j \/ Deletes(Tail(s), k)
      <3>1. PICK i \in 1..n : s[i] = <<"DEL", k>>
        BY <2>6 DEF Deletes
      <3>2. CASE i = 1
        BY <1>2, <2>2, <3>1, <3>2
      <3>3. CASE i # 1
        <4>1. i - 1 \in 1..(n - 1) /\ (i - 1) + 1 = i
          BY <1>2, <3>3
        <4> QED
          BY <1>2, <3>1, <4>1 DEF Deletes
      <3> QED
        BY <3>2, <3>3
    <2> QED
      BY <2>2, <2>3, <2>5, <2>6
  <1> QED
    BY <1>3, <1>4

\* Everything a client may be about to send.
LEMMA NextCommand ==
  ASSUME Typing, Relied, NEW c \in Clients, op[c] # Nothing
  PROVE  \/ \E k \in Keys :
              \/ Sends(c, <<"Put", k>>, <<"SETEX", k>>, HSet(k))
              \/ Sends(c, <<"Put", k>>, <<"HSET", k>>, <<>>)
              \/ Sends(c, <<"Delete", k>>, <<"DEL", k>>, HDel(k))
              \/ /\ todo[c] = HDel(k)
                 /\ \/ Sends(c, <<"Delete", k>>, <<"HDEL", k>>, <<>>)
                    \/ Sends(c, <<"IsExist", k>>, <<"HDEL", k>>, <<>>)
              \/ Sends(c, <<"IsExist", k>>, <<"EXISTS", k>>, IF k \in live THEN <<>> ELSE HDel(k))
              \/ Sends(c, <<"Incr", k>>, <<"INCRBY", k>>, <<>>)
         \/ Sends(c, All, <<"HKEYS", "all">>, Listing)
         \/ /\ Clearing(todo[c])
            /\ \/ /\ Sends(c, All, DelHash, <<>>)
                  /\ \A k \in Keys : ~ Deletes(todo[c], k)
               \/ \E j \in Keys :
                    /\ Sends(c, All, <<"DEL", j>>, Tail(todo[c]))
                    /\ Tail(todo[c]) # <<>>
                    /\ Clearing(Tail(todo[c]))
                    /\ \A k \in Keys : Deletes(todo[c], k) => k = j \/ Deletes(Tail(todo[c]), k)
  <1>1. Shape(op[c], todo[c])
    BY DEF Relied
  <1>2. ASSUME NEW k \in Keys, op[c] = <<"Put", k>>, todo[c] = Put(k)
        PROVE  Sends(c, <<"Put", k>>, <<"SETEX", k>>, HSet(k))
    BY <1>2 DEF Sends, Rest, Put, HSet
  <1>3. ASSUME NEW k \in Keys, op[c] = <<"Put", k>>, todo[c] = HSet(k)
        PROVE  Sends(c, <<"Put", k>>, <<"HSET", k>>, <<>>)
    BY <1>3 DEF Sends, Rest, HSet
  <1>4. ASSUME NEW k \in Keys, op[c] = <<"Delete", k>>, todo[c] = Delete(k)
        PROVE  Sends(c, <<"Delete", k>>, <<"DEL", k>>, HDel(k))
    BY <1>4 DEF Sends, Rest, Delete, HDel
  <1>5. ASSUME NEW k \in Keys, NEW o, op[c] = o, todo[c] = HDel(k)
        PROVE  Sends(c, o, <<"HDEL", k>>, <<>>)
    BY <1>5 DEF Sends, Rest, HDel
  <1>6. ASSUME NEW k \in Keys, op[c] = <<"IsExist", k>>, todo[c] = IsExist(k)
        PROVE  Sends(c, <<"IsExist", k>>, <<"EXISTS", k>>, IF k \in live THEN <<>> ELSE HDel(k))
    BY <1>6 DEF Sends, Rest, IsExist, HDel
  <1>7. ASSUME NEW k \in Keys, op[c] = <<"Incr", k>>, todo[c] = Incr(k)
        PROVE  Sends(c, <<"Incr", k>>, <<"INCRBY", k>>, <<>>)
    BY <1>7 DEF Sends, Rest, Incr
  <1>8. ASSUME op[c] = All, todo[c] = ClearAll
        PROVE  Sends(c, All, <<"HKEYS", "all">>, Listing)
    <2>1. Head(todo[c]) = <<"HKEYS", "all">>
      BY <1>8 DEF ClearAll
    <2>2. Head(todo[c])[1] = "HKEYS"
      BY <2>1
    <2>3. Rest(c) = Listing
      BY <2>2, Zenon DEF Rest, Listing, DelHash
    <2> QED
      BY <1>8, <2>1, <2>3 DEF Sends
  <1>9. ASSUME op[c] = All, Head(todo[c]) = DelHash, Tail(todo[c]) = <<>>
        PROVE  Sends(c, All, DelHash, <<>>)
    BY <1>9 DEF Sends, Rest, DelHash
  <1>10. ASSUME NEW j \in Keys, op[c] = All, Head(todo[c]) = <<"DEL", j>>
         PROVE  Sends(c, All, <<"DEL", j>>, Tail(todo[c]))
    BY <1>10 DEF Sends, Rest
  <1>11. CASE op[c] = All /\ Clearing(todo[c])
    BY <1>9, <1>10, <1>11, TailClears
  <1>12. CASE op[c] = All /\ todo[c] = ClearAll
    BY <1>8, <1>12
  <1>13. CASE \E k \in Keys :
          \/ op[c] = <<"Put", k>> /\ (todo[c] = Put(k) \/ todo[c] = HSet(k))
          \/ op[c] = <<"Delete", k>> /\ (todo[c] = Delete(k) \/ todo[c] = HDel(k))
          \/ op[c] = <<"IsExist", k>> /\ (todo[c] = IsExist(k) \/ todo[c] = HDel(k))
          \/ op[c] = <<"Incr", k>> /\ todo[c] = Incr(k)
    BY <1>2, <1>3, <1>4, <1>5, <1>6, <1>7, <1>13
  <1> QED
    BY <1>1, <1>11, <1>12, <1>13 DEF Shape

-----------------------------------------------------------------------------
LEMMA InitCacheInv == CacheInit => CacheInv
  <1> SUFFICES ASSUME CacheInit PROVE CacheInv
    OBVIOUS
  <1>1. \A c \in Clients : op[c] = Nothing /\ todo[c] = <<>>
    BY DEF CacheInit
  <1>2. \A c \in Clients : Shape(op[c], todo[c])
    BY <1>1 DEF Shape
  <1>3. todo \in [Clients -> Seq({"SETEX", "DEL", "HSET", "HDEL", "EXISTS", "INCRBY",
                                 "HKEYS", "DELHASH"} \X (Keys \union {"all"}))]
    BY <1>2, ShapeTyped DEF CacheInit
  <1>4. Typing
    BY <1>3 DEF CacheInit, Typing
  <1>5. Relied
    BY <1>1, <1>2 DEF Relied
  <1>6. NamedUnlessRaced
    BY DEF CacheInit, NamedUnlessRaced
  <1> QED
    BY <1>4, <1>5, <1>6 DEF CacheInv

\* An operation that returns has nothing left to rely on, and whoever else is in
\* one is not alone.
LEMMA ReturnRelied ==
  ASSUME Typing, Relied, NEW c \in Clients, op[c] # Nothing,
         NEW failed \in BOOLEAN, Return(c, failed),
         live' \subseteq Keys, named' \subseteq Keys
  PROVE  Typing' /\ Relied'
  <1>1. /\ op' = [op EXCEPT ![c] = Nothing]
        /\ todo' = [todo EXCEPT ![c] = <<>>]
        /\ alone' = [alone EXCEPT ![c] = TRUE]
    BY DEF Return
  <1>2. op'[c] = Nothing /\ todo'[c] = <<>>
    BY <1>1 DEF Typing
  <1>3. \A d \in Clients \ {c} : op'[d] = op[d] /\ todo'[d] = todo[d] /\ alone'[d] = alone[d]
    BY <1>1 DEF Typing
  <1>4. \A d \in Clients : Shape(op'[d], todo'[d])
    BY <1>2, <1>3 DEF Relied, Shape
  <1>5. Typing'
    BY <1>1, <1>4, ShapeTyped DEF Typing
  <1>6. ASSUME NEW d \in Clients, op'[d] # Nothing, alone'[d] PROVE FALSE
    BY <1>2, <1>3, <1>6 DEF Relied
  <1> QED
    BY <1>4, <1>5, <1>6 DEF Relied

\* One that goes on.
LEMMA GoOnRelied ==
  ASSUME Typing, Relied, NEW c \in Clients, op[c] # Nothing,
         NEW r, todo' = [todo EXCEPT ![c] = r], UNCHANGED <<op, alone, raced>>,
         Shape(op[c], r), live' \subseteq Keys, named' \subseteq Keys,
         alone[c] => \A k \in Keys :
             /\ op[c] \in {<<"Delete", k>>, <<"IsExist", k>>} /\ r = HDel(k) => k \notin live'
             /\ op[c] = All /\ k \in live' \ raced => Deletes(r, k)
  PROVE  Typing' /\ Relied'
  <1>1. todo'[c] = r /\ \A d \in Clients \ {c} : todo'[d] = todo[d]
    BY DEF Typing
  <1>2. \A d \in Clients : Shape(op'[d], todo'[d])
    BY <1>1 DEF Relied
  <1>3. Typing'
    BY <1>2, ShapeTyped DEF Typing
  <1>4. ASSUME NEW d \in Clients, op'[d] # Nothing, alone'[d]
        PROVE  d = c /\ \A e \in Clients \ {d} : op'[e] = Nothing
    BY <1>4 DEF Relied
  <1>5. ASSUME alone[c] PROVE Gone(c)'
    BY <1>1, <1>5 DEF Gone
  <1>6. ASSUME alone[c] PROVE Swept(c)'
    BY <1>1, <1>6 DEF Swept
  <1> QED
    BY <1>2, <1>3, <1>4, <1>5, <1>6 DEF Relied

\* When an operation returns, the entries that nothing accounts for were so
\* before, and were not its own to name.
LEMMA ReturnNamed ==
  ASSUME Typing, NamedUnlessRaced, NEW c \in Clients,
         op' = [op EXCEPT ![c] = Nothing],
         \A k \in live' : k \notin named' \union raced' =>
             k \in live \ (named \union raced) /\ op[c] # <<"Put", k>>
  PROVE  NamedUnlessRaced'
  BY DEF NamedUnlessRaced, Typing

LEMMA GoOnNamed ==
  ASSUME Typing, NamedUnlessRaced, NEW c \in Clients, op' = op,
         \A k \in live' : k \notin named' \union raced' =>
             k \in live \ (named \union raced) \/ op[c] = <<"Put", k>>
  PROVE  NamedUnlessRaced'
  BY DEF NamedUnlessRaced, Typing

\* The keys that a return taints.
LEMMA Records ==
  ASSUME NEW c \in Clients, NEW failed \in BOOLEAN, Return(c, failed)
  PROVE  /\ op' = [op EXCEPT ![c] = Nothing]
         /\ \A k \in Keys, w \in {"Put", "Delete", "IsExist", "Incr"} : op[c] = <<w, k>> =>
               raced' = IF \/ ~ alone[c]
                           \/ failed /\ w = "Put"
                           \/ w = "Incr" /\ k \notin named
                        THEN raced \union {k}
                        ELSE IF w = "Put" THEN raced \ {k} ELSE raced
         /\ op[c] = All => raced' = IF alone[c] THEN raced ELSE raced \union Keys
  <1>1. op' = [op EXCEPT ![c] = Nothing] /\ Record(c, failed)
    BY DEF Return
  <1>2. ASSUME NEW k \in Keys, NEW w \in {"Put", "Delete", "IsExist", "Incr"}, op[c] = <<w, k>>
        PROVE  op[c][1] = w /\ op[c][2] = k /\ KeysOf(op[c]) = {k}
    BY <1>2 DEF KeysOf
  <1>3. ASSUME op[c] = All
        PROVE  op[c][1] = "ClearAll" /\ KeysOf(op[c]) = Keys
    BY <1>3 DEF KeysOf, All
  <1> QED
    BY <1>1, <1>2, <1>3 DEF Record

\* A command that may have had its effect or not, and the return after it.
LEMMA ReturnKeeps ==
  ASSUME CacheInv, NEW c \in Clients, op[c] # Nothing, NEW failed \in BOOLEAN, Return(c, failed),
         \/ Effect(Head(todo[c])[1], Head(todo[c])[2])
         \/ failed /\ UNCHANGED <<live, named>>,
         failed \/ Rest(c) = <<>>
  PROVE  CacheInv'
  <1>1. Typing /\ Relied /\ NamedUnlessRaced /\ live \subseteq Keys /\ named \subseteq Keys
    BY DEF CacheInv, Typing
  <1> DEFINE Accounted == \A k \in live' : k \notin named' \union raced' =>
                 k \in live \ (named \union raced) /\ op[c] # <<"Put", k>>
             Kept == live' \subseteq Keys /\ named' \subseteq Keys
  <1>2. ASSUME NEW j \in Keys, Sends(c, <<"Put", j>>, <<"SETEX", j>>, HSet(j)) PROVE Accounted /\ Kept
    <2>1. op[c] = <<"Put", j>> /\ failed
      BY <1>2 DEF Sends, HSet
    <2>2. named' = named /\ live' \subseteq live \union {j}
      BY <1>2 DEF Sends, Effect
    <2>3. raced' = raced \union {j}
      BY <2>1, Records
    <2> QED
      BY <1>1, <2>1, <2>2, <2>3
  <1>3. ASSUME NEW j \in Keys, Sends(c, <<"Put", j>>, <<"HSET", j>>, <<>>) PROVE Accounted /\ Kept
    <2>1. op[c] = <<"Put", j>>
      BY <1>3 DEF Sends
    <2>2. live' = live /\ (named' = named \union {j} \/ (failed /\ named' = named))
      BY <1>3 DEF Sends, Effect
    <2>3. \/ raced' = raced \union {j}
          \/ ~ failed /\ raced' = raced \ {j}
      BY <2>1, Records
    <2> QED
      BY <1>1, <2>1, <2>2, <2>3
  <1>4. ASSUME NEW j \in Keys, Sends(c, <<"Delete", j>>, <<"DEL", j>>, HDel(j)) PROVE Accounted /\ Kept
    <2>1. op[c] = <<"Delete", j>>
      BY <1>4 DEF Sends
    <2>2. named' = named /\ live' \subseteq live
      BY <1>4 DEF Sends, Effect
    <2>3. raced \subseteq raced'
      BY <2>1, Records
    <2> QED
      BY <1>1, <2>1, <2>2, <2>3
  <1>5. ASSUME NEW j \in Keys, NEW w \in {"Delete", "IsExist"}, todo[c] = HDel(j),
               Sends(c, <<w, j>>, <<"HDEL", j>>, <<>>)
        PROVE  Accounted /\ Kept
    <2>1. op[c] = <<w, j>>
      BY <1>5 DEF Sends
    <2>2. live' = live /\ (named' = named \/ named' = named \ {j})
      BY <1>5 DEF Sends, Effect
    <2>3. raced' = IF alone[c] THEN raced ELSE raced \union {j}
      BY <2>1, Records
    <2>4. alone[c] => j \notin live
      BY <1>1, <1>5, <2>1 DEF Relied, Gone
    <2> QED
      BY <1>1, <2>1, <2>2, <2>3, <2>4
  <1>6. ASSUME NEW j \in Keys,
               Sends(c, <<"IsExist", j>>, <<"EXISTS", j>>, IF j \in live THEN <<>> ELSE HDel(j))
        PROVE  Accounted /\ Kept
    <2>1. op[c] = <<"IsExist", j>>
      BY <1>6 DEF Sends
    <2>2. named' = named /\ live' = live
      BY <1>6 DEF Sends, Effect
    <2>3. raced \subseteq raced'
      BY <2>1, Records
    <2> QED
      BY <1>1, <2>1, <2>2, <2>3
  <1>7. ASSUME NEW j \in Keys, Sends(c, <<"Incr", j>>, <<"INCRBY", j>>, <<>>) PROVE Accounted /\ Kept
    <2>1. op[c] = <<"Incr", j>>
      BY <1>7 DEF Sends
    <2>2. named' = named /\ live' \subseteq live \union {j}
      BY <1>7 DEF Sends, Effect
    <2>3. raced \subseteq raced' /\ (j \in named \/ j \in raced')
      BY <2>1, Records
    <2> QED
      BY <1>1, <2>1, <2>2, <2>3
  <1>8. ASSUME op[c] = All, raced \subseteq raced', named' = named, live' \subseteq live
        PROVE  Accounted /\ Kept
    BY <1>1, <1>8 DEF All
  <1>9. ASSUME Sends(c, All, <<"HKEYS", "all">>, Listing) PROVE Accounted /\ Kept
    <2>1. op[c] = All /\ named' = named /\ live' \subseteq live
      BY <1>9 DEF Sends, Effect
    <2>2. raced \subseteq raced'
      BY <2>1, Records
    <2> QED
      BY <1>8, <2>1, <2>2
  <1>10. ASSUME NEW j \in Keys, Sends(c, All, <<"DEL", j>>, Tail(todo[c])) PROVE Accounted /\ Kept
    <2>1. op[c] = All /\ named' = named /\ live' \subseteq live
      BY <1>10 DEF Sends, Effect
    <2>2. raced \subseteq raced'
      BY <2>1, Records
    <2> QED
      BY <1>8, <2>1, <2>2
  <1>11. ASSUME Clearing(todo[c]), Sends(c, All, DelHash, <<>>), \A k \in Keys : ~ Deletes(todo[c], k)
         PROVE  Accounted /\ Kept
    <2>1. op[c] = All
      BY <1>11 DEF Sends
    <2>2. live' = live /\ (named' = {} \/ named' = named)
      BY <1>11 DEF Sends, Effect, DelHash
    <2>3. raced' = IF alone[c] THEN raced ELSE raced \union Keys
      BY <2>1, Records
    <2>4. alone[c] => live \subseteq raced
      BY <1>1, <1>11, <2>1 DEF Relied, Swept
    <2> QED
      BY <1>1, <2>1, <2>2, <2>3, <2>4 DEF All
  <1>12. Accounted /\ Kept
    <2> HIDE DEF Accounted, Kept
    <2> QED
      BY <1>1, <1>2, <1>3, <1>4, <1>5, <1>6, <1>7, <1>9, <1>10, <1>11, NextCommand
  <1>13. Typing' /\ Relied'
    BY <1>1, <1>12, ReturnRelied
  <1>14. NamedUnlessRaced'
    BY <1>1, <1>12, ReturnNamed DEF Return
  <1> QED
    BY <1>13, <1>14 DEF CacheInv

\* One after which the operation goes on.
LEMMA GoOnKeeps ==
  ASSUME CacheInv, NEW c \in Clients, op[c] # Nothing,
         Effect(Head(todo[c])[1], Head(todo[c])[2]), Rest(c) # <<>>,
         todo' = [todo EXCEPT ![c] = Rest(c)], UNCHANGED <<op, alone, raced>>
  PROVE  CacheInv'
  <1>1. Typing /\ Relied /\ NamedUnlessRaced /\ live \subseteq Keys /\ named \subseteq Keys
    BY DEF CacheInv, Typing
  <1> DEFINE Accounted == \A k \in live' : k \notin named' \union raced' =>
                 k \in live \ (named \union raced) \/ op[c] = <<"Put", k>>
             Kept == live' \subseteq Keys /\ named' \subseteq Keys
             Known == alone[c] => \A k \in Keys :
                 /\ op[c] \in {<<"Delete", k>>, <<"IsExist", k>>} /\ Rest(c) = HDel(k) => k \notin live'
                 /\ op[c] = All /\ k \in live' \ raced => Deletes(Rest(c), k)
             Good == Accounted /\ Kept /\ Known /\ Shape(op[c], Rest(c))
  <1>2. ASSUME NEW j \in Keys, Sends(c, <<"Put", j>>, <<"SETEX", j>>, HSet(j)) PROVE Good
    <2>1. op[c] = <<"Put", j>> /\ Rest(c) = HSet(j)
      BY <1>2 DEF Sends
    <2>2. named' = named /\ live' = live \union {j}
      BY <1>2 DEF Sends, Effect
    <2>3. Shape(op[c], Rest(c))
      BY <2>1 DEF Shape
    <2> QED
      BY <1>1, <2>1, <2>2, <2>3 DEF All
  <1>3. ASSUME NEW j \in Keys, Sends(c, <<"Delete", j>>, <<"DEL", j>>, HDel(j)) PROVE Good
    <2>1. op[c] = <<"Delete", j>> /\ Rest(c) = HDel(j)
      BY <1>3 DEF Sends
    <2>2. named' = named /\ live' = live \ {j}
      BY <1>3 DEF Sends, Effect
    <2>3. Shape(op[c], Rest(c))
      BY <2>1 DEF Shape
    <2> QED
      BY <1>1, <2>1, <2>2, <2>3 DEF All
  <1>4. ASSUME NEW j \in Keys,
               Sends(c, <<"IsExist", j>>, <<"EXISTS", j>>, IF j \in live THEN <<>> ELSE HDel(j))
        PROVE  Good
    <2>1. op[c] = <<"IsExist", j>> /\ Rest(c) = HDel(j) /\ j \notin live
      BY <1>4 DEF Sends
    <2>2. named' = named /\ live' = live
      BY <1>4 DEF Sends, Effect
    <2>3. Shape(op[c], Rest(c))
      BY <2>1 DEF Shape
    <2> QED
      BY <1>1, <2>1, <2>2, <2>3 DEF All
  <1>5. ASSUME Sends(c, All, <<"HKEYS", "all">>, Listing) PROVE Good
    <2>1. op[c] = All /\ Rest(c) = Listing
      BY <1>5 DEF Sends
    <2>2. named' = named /\ live' = live
      BY <1>5 DEF Sends, Effect
    <2>3. Clearing(Listing) /\ \A k \in named : Deletes(Listing, k)
      BY <1>1, ListingClears
    <2>4. Shape(op[c], Rest(c))
      BY <2>1, <2>3 DEF Shape
    <2>5. alone[c] => live \ raced \subseteq named
      BY <1>1, <2>1 DEF Relied, NamedUnlessRaced, All, Nothing
    <2> QED
      BY <1>1, <2>1, <2>2, <2>3, <2>4, <2>5 DEF All
  <1>6. ASSUME Clearing(todo[c]), NEW j \in Keys,
               Sends(c, All, <<"DEL", j>>, Tail(todo[c])),
               Clearing(Tail(todo[c])),
               \A k \in Keys : Deletes(todo[c], k) => k = j \/ Deletes(Tail(todo[c]), k)
        PROVE  Good
    <2>1. op[c] = All /\ Rest(c) = Tail(todo[c])
      BY <1>6 DEF Sends
    <2>2. named' = named /\ live' = live \ {j}
      BY <1>6 DEF Sends, Effect
    <2>3. Shape(op[c], Rest(c))
      BY <1>6, <2>1 DEF Shape
    <2>4. alone[c] => \A k \in live \ raced : Deletes(todo[c], k)
      BY <1>1, <1>6, <2>1 DEF Relied, Swept
    <2> QED
      BY <1>1, <1>6, <2>1, <2>2, <2>3, <2>4 DEF All
  <1>7. Good
    <2>1. ~ \E o, h : Sends(c, o, h, <<>>)
      BY DEF Sends
    <2> HIDE DEF Good
    <2> QED
      BY <1>1, <1>2, <1>3, <1>4, <1>5, <1>6, <2>1, NextCommand
  <1>8. Typing' /\ Relied'
    BY <1>1, <1>7, GoOnRelied
  <1>9. NamedUnlessRaced'
    BY <1>1, <1>7, GoOnNamed
  <1> QED
    BY <1>8, <1>9 DEF CacheInv

LEMMA BeginKeeps ==
  ASSUME CacheInv, NEW c \in Clients, NEW o \in Operations, Begin(c, o) PROVE CacheInv'
  <1>1. /\ op[c] = Nothing
        /\ op' = [op EXCEPT ![c] = o]
        /\ todo' = [todo EXCEPT ![c] = Commands(o)]
        /\ alone' = [d \in Clients |-> IF d = c THEN Busy = {} ELSE alone[d] /\ d \notin Busy]
        /\ UNCHANGED <<live, named, raced>>
        /\ Typing /\ Relied /\ NamedUnlessRaced
    BY DEF Begin, Busy, CacheInv
  <1>2. Shape(o, Commands(o)) /\ Commands(o) # <<>>
        /\ (\A k \in Keys : Commands(o) # HDel(k)) /\ ~ Clearing(Commands(o))
    <2>1. CASE o = All
      <3>1. Commands(o) = ClearAll
        BY <2>1 DEF Commands, All
      <3>2. ClearAll # <<>> /\ \A k \in Keys : ClearAll # HDel(k)
        BY DEF ClearAll, HDel
      <3>3. Len(ClearAll) = 1 /\ ClearAll[1] = <<"HKEYS", "all">>
        BY DEF ClearAll
      <3>4. ~ Clearing(ClearAll)
        BY <3>3 DEF Clearing, DelHash
      <3>5. Shape(o, ClearAll)
        BY <2>1 DEF Shape
      <3> QED
        BY <3>1, <3>2, <3>4, <3>5
    <2>2. ASSUME NEW k \in Keys, NEW w \in {"Put", "Delete", "IsExist", "Incr"}, o = <<w, k>>,
                 NEW s \in {Put(k), Delete(k), IsExist(k), Incr(k)}
          PROVE  s # <<>> /\ (\A j \in Keys : s # HDel(j)) /\ ~ Clearing(s)
      <3>1. s # <<>> /\ \A j \in Keys : s # HDel(j)
        BY <2>2 DEF Put, Delete, IsExist, Incr, HDel
      <3>2. s[Len(s)] # DelHash
        <4>1. CASE s = Put(k)
          BY <4>1 DEF Put, DelHash
        <4>2. CASE s = Delete(k)
          BY <4>2 DEF Delete, DelHash
        <4>3. CASE s = IsExist(k)
          BY <4>3 DEF IsExist, DelHash
        <4>4. CASE s = Incr(k)
          BY <4>4 DEF Incr, DelHash
        <4> QED
          BY <2>2, <4>1, <4>2, <4>3, <4>4
      <3> QED
        BY <3>1, <3>2 DEF Clearing
    <2>3. ASSUME NEW k \in Keys, NEW w \in {"Put", "Delete", "IsExist", "Incr"}, o = <<w, k>>
          PROVE  Shape(o, Commands(o)) /\ Commands(o) \in {Put(k), Delete(k), IsExist(k), Incr(k)}
      BY <2>3 DEF Commands, Shape
    <2>4. o = All \/ \E k \in Keys, w \in {"Put", "Delete", "IsExist", "Incr"} : o = <<w, k>>
      BY DEF Operations, All
    <2> QED
      BY <2>1, <2>2, <2>3, <2>4
  <1>3. \A d \in Clients : Shape(op'[d], todo'[d])
    BY <1>1, <1>2 DEF Typing, Relied
  <1>4. todo' \in [Clients -> Seq({"SETEX", "DEL", "HSET", "HDEL", "EXISTS", "INCRBY",
                                  "HKEYS", "DELHASH"} \X (Keys \union {"all"}))]
    BY <1>1, <1>3, ShapeTyped DEF Typing
  <1>5. Typing'
    BY <1>1, <1>4 DEF Typing
  <1>6. ASSUME NEW d \in Clients, op'[d] # Nothing, alone'[d]
        PROVE  /\ \A e \in Clients \ {d} : op'[e] = Nothing
               /\ d = c
    BY <1>1, <1>6 DEF Typing, Busy
  <1>7. Gone(c)' /\ Swept(c)'
    BY <1>1, <1>2 DEF Typing, Gone, Swept
  <1>8. Relied'
    BY <1>3, <1>6, <1>7 DEF Relied
  <1>9. NamedUnlessRaced'
    <2>1. \A d \in Clients : op[d] # Nothing => op'[d] = op[d]
      BY <1>1 DEF Typing
    <2>2. \A d \in Clients, k \in Keys : op[d] = <<"Put", k>> => op'[d] = <<"Put", k>>
      BY <2>1 DEF Nothing
    <2> QED
      BY <1>1, <2>2 DEF NamedUnlessRaced, Typing
  <1> QED
    BY <1>5, <1>8, <1>9 DEF CacheInv

LEMMA ExpireKeeps == ASSUME CacheInv, NEW k \in Keys, Expire(k) PROVE CacheInv'
  BY DEF Expire, CacheInv, Typing, Relied, Gone, Swept, NamedUnlessRaced

LEMMA NextCacheInv == CacheInv /\ [CacheNext]_cacheVars => CacheInv'
  <1> SUFFICES ASSUME CacheInv, [CacheNext]_cacheVars PROVE CacheInv'
    OBVIOUS
  <1>1. ASSUME NEW c \in Clients, Do(c) PROVE CacheInv'
    <2>1. op[c] # Nothing /\ Effect(Head(todo[c])[1], Head(todo[c])[2])
      BY <1>1 DEF Do, Busy
    <2>2. CASE Rest(c) = <<>>
      <3>1. Return(c, FALSE)
        BY <1>1, <2>2 DEF Do
      <3> QED
        BY <2>1, <2>2, <3>1, ReturnKeeps
    <2>3. CASE Rest(c) # <<>>
      BY <1>1, <2>1, <2>3, GoOnKeeps DEF Do
    <2> QED
      BY <2>2, <2>3
  <1>2. ASSUME NEW c \in Clients, Fail(c) PROVE CacheInv'
    <2>1. /\ op[c] # Nothing
          /\ Return(c, TRUE)
          /\ Effect(Head(todo[c])[1], Head(todo[c])[2]) \/ UNCHANGED <<live, named>>
      BY <1>2 DEF Fail, Busy
    <2> QED
      BY <2>1, ReturnKeeps
  <1>3. CASE UNCHANGED cacheVars
    BY <1>3 DEF cacheVars, CacheInv, Typing, Relied, Gone, Swept, NamedUnlessRaced
  <1> QED
    BY <1>1, <1>2, <1>3, BeginKeeps, ExpireKeeps DEF CacheNext

\* The cache's invariant holds all along, for every number of clients and keys.
THEOREM CacheInvariant == CacheSpec => []CacheInv
  BY InitCacheInv, NextCacheInv, PTL DEF CacheSpec

-----------------------------------------------------------------------------
\* Whatever clients overlap, fail or come between an operation's commands, an
\* entry has its name in the hash, is about to, or has a tainted key.
THEOREM CacheNamedUnlessRaced == CacheSpec => []NamedUnlessRaced
  <1>1. CacheInv => NamedUnlessRaced
    BY DEF CacheInv
  <1> QED
    BY CacheInvariant, <1>1, PTL

\* A ClearAll that succeeds with nobody in between leaves no name, and no entry
\* but those whose keys are tainted.
THEOREM CacheClearAllClears == CacheSpec => ClearAllClears
  <1> DEFINE Cleared == \A c \in Clients :
                 AloneDone(c) /\ op[c][1] = "ClearAll" => live' \subseteq raced /\ named' = {}
  <1>1. CacheInv /\ [CacheNext]_cacheVars => [Cleared]_cacheVars
    <2> SUFFICES ASSUME CacheInv, NEW c \in Clients, Do(c), op'[c] = Nothing, alone[c],
                        op[c][1] = "ClearAll"
                 PROVE  live' \subseteq raced /\ named' = {}
      BY DEF AloneDone
    <2>1. Typing /\ Relied /\ live \subseteq Keys
      BY DEF CacheInv, Typing
    <2>2. op[c] # Nothing /\ Effect(Head(todo[c])[1], Head(todo[c])[2])
      BY DEF Do, Busy
    <2>3. Rest(c) = <<>>
      BY <2>2 DEF Do
    <2>4. ASSUME NEW k, NEW w \in {"Put", "Delete", "IsExist", "Incr"}, op[c] = <<w, k>> PROVE FALSE
      BY <2>4
    <2>5. ~ Sends(c, All, <<"HKEYS", "all">>, Listing)
      BY <2>1, <2>3, ListingClears DEF Sends, Clearing, Typing
    <2>6. /\ Clearing(todo[c])
          /\ Sends(c, All, DelHash, <<>>)
          /\ \A k \in Keys : ~ Deletes(todo[c], k)
      BY <2>1, <2>2, <2>3, <2>4, <2>5, NextCommand DEF Sends
    <2>7. live \subseteq raced
      BY <2>1, <2>2, <2>6 DEF Relied, Swept, Sends
    <2>8. live' = live /\ named' = {}
      BY <2>2, <2>6 DEF Sends, Effect, DelHash
    <2> QED
      BY <2>7, <2>8
  <1> QED
    BY CacheInvariant, <1>1, PTL DEF CacheSpec, ClearAllClears

-----------------------------------------------------------------------------
(***************************************************************************)
(* Startup.  PreparedIsSafe needs to know what a caller relies on: that    *)
(* the index he reads again without the lock is still that of a remote     *)
(* server, and that every remote server but the one being registered has   *)
(* its connMgr.                                                            *)
(***************************************************************************)

\* The round robin: whatever a caller has read stays within the array.
SelectInv ==
    /\ srvInfos = <<>> => srvIdx = 0
    /\ srvInfos # <<>> => srvIdx < Len(srvInfos)
    /\ \A c \in Callers : /\ caller[c].at = "read" => srvInfos # <<>>
                          /\ caller[c].at = "use" => caller[c].idx < Len(srvInfos)

\* Somebody is between the two steps of a registration.
Registering == main.at = "dialing" \/ reload

ConnInv ==
    /\ reload => main.at = "serve"
    /\ Registering => srvInfos # <<>>
    /\ \A k \in DOMAIN srvInfos : srvInfos[k].connMgr \/ (k = Len(srvInfos) /\ Registering)

StartInv == StartTyped /\ SelectInv /\ ConnInv /\ PreparedIsSafe

-----------------------------------------------------------------------------
LEMMA ConfigFacts ==
  ASSUME StartTyped
  PROVE  /\ \A i \in DOMAIN config.srvs : i \in Sections
         /\ \A i \in DOMAIN config.conns : i \in Sections
         /\ Sections \subseteq 0..MaxSections
         /\ 0 \in 0..MaxSections
  <1>1. ASSUME NEW S, NEW f \in UpTo(S) PROVE DOMAIN f \subseteq Sections
    <2>1. PICK n \in 0..MaxSections : f \in [1..n -> S]
      BY DEF UpTo
    <2> QED
      BY <2>1, BoundsAssumption DEF Sections
  <1>2. config.srvs \in UpTo(SrvKinds) /\ config.conns \in UpTo(ConnKinds)
    BY DEF StartTyped
  <1>3. DOMAIN config.srvs \subseteq Sections /\ DOMAIN config.conns \subseteq Sections
    BY <1>1, <1>2
  <1>4. Sections \subseteq 0..MaxSections /\ 0 \in 0..MaxSections
    BY BoundsAssumption DEF Sections
  <1> QED
    BY <1>3, <1>4

LEMMA InitStartInv == StartInit => StartInv
  <1> SUFFICES ASSUME StartInit PROVE StartInv
    OBVIOUS
  <1>1. StartTyped
    <2>1. main \in [at : {"servers", "conns", "dialing", "handlers", "serve"}, i : Nat]
      BY BoundsAssumption DEF StartInit
    <2>2. srv \in [Sections -> {"none", "listening", "started", "serving", "closed"}]
      BY DEF StartInit
    <2>3. caller \in [Callers -> [at : {"out", "read", "use"}, idx : Nat]]
      BY DEF StartInit
    <2>4. srvInfos \in Seq(SrvInfos)
      BY DEF StartInit
    <2> QED
      BY <2>1, <2>2, <2>3, <2>4 DEF StartInit, StartTyped
  <1>2. SelectInv /\ ConnInv /\ PreparedIsSafe
    BY DEF StartInit, SelectInv, ConnInv, Registering, PreparedIsSafe
  <1> QED
    BY <1>1, <1>2 DEF StartInv

\* A step that leaves the remote servers alone, and whether one is registering.
LEMMA RemoteSame ==
  ASSUME SelectInv, ConnInv, UNCHANGED remote, (main'.at = "dialing") = (main.at = "dialing"),
         main.at = "serve" => main'.at = "serve"
  PROVE  SelectInv' /\ ConnInv'
  BY DEF SelectInv, ConnInv, Registering, remote

\* Nothing but the end of the program concerns PreparedIsSafe.
LEMMA GoesOn == ASSUME UNCHANGED fault, fault = "none" PROVE PreparedIsSafe'
  BY DEF PreparedIsSafe

-----------------------------------------------------------------------------
(* One lemma for each kind of step.                                        *)

LEMMA EndsStartInv ==
  ASSUME StartInv, UNCHANGED config, NEW why \in {"init error", "no server handlers", "wrong handlers", "no pack handler",
                  "no unpack handler", "no connMgr", "no SrvInfo", "too many", "dial"},
         Ends(why),
         main.at = "serve" /\ Prepared => \/ why = "too many" /\ Full
                                          \/ why \in {"dial", "no connMgr"} /\ reload
  PROVE  StartInv'
  <1>1. StartTyped'
    BY DEF StartInv, StartTyped, Ends, remote
  <1>2. SelectInv' /\ ConnInv'
    BY RemoteSame DEF StartInv, Ends
  <1>3. PreparedIsSafe'
    BY DEF PreparedIsSafe, Prepared, Full, Ends, remote
  <1> QED
    BY <1>1, <1>2, <1>3 DEF StartInv

\* The first step of a registration.
LEMMA PublishStartInv ==
  ASSUME StartInv, NEW conn \in 0..MaxSections, NEW handlers \in BOOLEAN, Publish(conn, handlers),
         ~ Registering, Registering', reload' => main'.at = "serve", UNCHANGED <<srvIdx, caller>>
  PROVE  /\ srvInfos' \in Seq(SrvInfos)
         /\ SelectInv' /\ ConnInv'
  <1> DEFINE I == [conn |-> conn, connMgr |-> FALSE, handlers |-> handlers]
  <1>1. /\ srvInfos \in Seq(SrvInfos)
        /\ I \in SrvInfos
        /\ srvInfos' = Append(srvInfos, I)
    BY DEF StartInv, StartTyped, Publish, SrvInfos
  <1> HIDE DEF I
  <1>2. /\ srvInfos' \in Seq(SrvInfos)
        /\ Len(srvInfos') = Len(srvInfos) + 1
        /\ \A k \in DOMAIN srvInfos : srvInfos'[k] = srvInfos[k]
        /\ \A k \in DOMAIN srvInfos' : k \in DOMAIN srvInfos \/ k = Len(srvInfos')
        /\ srvInfos' # <<>>
    BY <1>1
  <1>3. SelectInv'
    <2>0. Len(srvInfos) \in Nat /\ srvIdx \in Nat /\ srvIdx' = srvIdx
      <3>1. Len(srvInfos) \in Nat
        BY <1>1
      <3>2. srvIdx \in Nat
        BY DEF StartInv, StartTyped
      <3> QED
        BY <3>1, <3>2
    <2>1. srvIdx' = srvIdx /\ srvIdx \in Nat /\ Len(srvInfos) \in Nat /\ srvIdx' < Len(srvInfos')
      BY <1>2, <2>0 DEF StartInv, SelectInv
    <2>2. ASSUME NEW c \in Callers, caller'[c].at = "use" PROVE caller'[c].idx < Len(srvInfos')
      <3>1. caller[c].idx \in Nat /\ caller[c].idx < Len(srvInfos) /\ caller' = caller
        BY <2>2 DEF StartInv, StartTyped, SelectInv
      <3> QED
        BY <3>1, <2>1, <1>2
    <2> QED
      BY <1>2, <2>1, <2>2 DEF SelectInv
  <1>4. ConnInv'
    BY <1>2 DEF StartInv, ConnInv
  <1> QED
    BY <1>2, <1>3, <1>4

\* The second one.
LEMMA ConnectStartInv ==
  ASSUME StartInv, Connect, Registering, ~ Registering', reload' => main'.at = "serve",
         UNCHANGED <<srvIdx, caller>>
  PROVE  /\ srvInfos' \in Seq(SrvInfos)
         /\ SelectInv' /\ ConnInv'
  <1>1. /\ srvInfos \in Seq(SrvInfos)
        /\ srvInfos # <<>>
        /\ srvInfos' = [srvInfos EXCEPT ![Len(srvInfos)].connMgr = TRUE]
    BY DEF StartInv, StartTyped, ConnInv, Connect
  <1>2. Len(srvInfos) \in DOMAIN srvInfos
    BY <1>1
  <1>3. /\ srvInfos' \in Seq(SrvInfos)
        /\ Len(srvInfos') = Len(srvInfos) /\ DOMAIN srvInfos' = DOMAIN srvInfos
        /\ \A k \in DOMAIN srvInfos : k # Len(srvInfos) => srvInfos'[k] = srvInfos[k]
        /\ srvInfos'[Len(srvInfos)].connMgr
        /\ srvInfos' # <<>>
    <2> DEFINE n == Len(srvInfos)
               J == [srvInfos[n] EXCEPT !.connMgr = TRUE]
    <2>1. J \in SrvInfos /\ J.connMgr
      <3>1. srvInfos[n] \in SrvInfos
        BY <1>1, <1>2
      <3> QED
        BY <3>1 DEF SrvInfos
    <2>2. srvInfos' = [srvInfos EXCEPT ![n] = J]
      BY <1>1
    <2> HIDE DEF J
    <2>3. DOMAIN srvInfos' = DOMAIN srvInfos /\ \A k \in DOMAIN srvInfos :
             srvInfos'[k] = IF k = n THEN J ELSE srvInfos[k]
      BY <2>2
    <2>4. srvInfos' \in Seq(SrvInfos) /\ Len(srvInfos') = n
      <3>1. n \in 1 .. Len(srvInfos)
        BY <1>1, <1>2, LenProperties
      <3> HIDE DEF n
      <3>2. [srvInfos EXCEPT ![n] = J] \in Seq(SrvInfos)
        BY <1>1, <2>1, <3>1, ExceptSeq
      <3>3. Len([srvInfos EXCEPT ![n] = J]) = Len(srvInfos)
        BY <1>1, <2>1, <3>1, ExceptSeq
      <3> QED
        BY <2>2, <3>2, <3>3 DEF n
    <2> QED
      BY <1>1, <1>2, <2>1, <2>3, <2>4
  <1>4. SelectInv'
    BY <1>1, <1>3 DEF StartInv, SelectInv
  <1>5. ConnInv'
    BY <1>3 DEF StartInv, ConnInv
  <1> QED
    BY <1>3, <1>4, <1>5

-----------------------------------------------------------------------------
LEMMA MainStartInv == ASSUME StartInv, fault = "none", UNCHANGED config, Main PROVE StartInv'
  <1> USE ConfigFacts DEF StartInv
  <1>1. CASE InitServer
    <2>1. CASE Ends("init error")
      BY <1>1, <2>1, EndsStartInv DEF InitServer
    <2>2. CASE ~ Ends("init error")
      <3>1. /\ main.at = "servers" /\ main.i \in Sections
            /\ srv' = [srv EXCEPT ![main.i] = "listening"]
            /\ main' = [main EXCEPT !.i = @ + 1]
            /\ UNCHANGED <<handled, waiting, remote, fault>>
        BY <1>1, <2>2 DEF InitServer
      <3>2. StartTyped'
        BY <3>1 DEF StartTyped, remote
      <3>3. main'.at = "servers"
        BY <3>1 DEF StartTyped
      <3> QED
        BY <3>1, <3>2, <3>3, RemoteSame, GoesOn
    <2> QED
      BY <2>1, <2>2
  <1>2. CASE InitServersEnd
    <2>1. CASE config.srvs = <<>>
      BY <1>2, <2>1, EndsStartInv DEF InitServersEnd
    <2>2. CASE config.srvs # <<>>
      <3>1. /\ main.at = "servers"
            /\ main' = [at |-> "conns", i |-> 1]
            /\ UNCHANGED <<srv, handled, waiting, remote, fault>>
        BY <1>2, <2>2 DEF InitServersEnd
      <3>2. StartTyped'
        BY <3>1 DEF StartTyped, remote
      <3> QED
        BY <3>1, <3>2, RemoteSame, GoesOn
    <2> QED
      BY <2>1, <2>2
  <1>3. CASE InitConn
    <2> DEFINE kind == config.conns[main.i]
    <2>1. main.at = "conns" /\ main.i \in Sections
      BY <1>3 DEF InitConn
    <2>2. CASE kind = "missing"
      BY <1>3, <2>1, <2>2, EndsStartInv DEF InitConn
    <2>3. CASE kind = "tcp" /\ Full
      BY <1>3, <2>1, <2>3, EndsStartInv DEF InitConn
    <2>4. CASE kind = "tcp" /\ ~ Full
      <3>1. /\ Publish(main.i, FALSE)
            /\ main' = [main EXCEPT !.at = "dialing"]
            /\ UNCHANGED <<srv, handled, waiting, srvIdx, caller, reload, fault>>
        BY <1>3, <2>4 DEF InitConn
      <3>2. ~ Registering /\ main'.at = "dialing" /\ ~ reload' /\ main.i \in 0..MaxSections
        BY <2>1, <3>1 DEF Registering, ConnInv, StartTyped
      <3>3. /\ srvInfos' \in Seq(SrvInfos)
            /\ SelectInv' /\ ConnInv'
        BY <3>1, <3>2, PublishStartInv DEF Registering
      <3>4. StartTyped'
        BY <3>1, <3>3 DEF StartTyped
      <3> QED
        BY <3>1, <3>3, <3>4, GoesOn
    <2>5. CASE kind \notin {"tcp", "missing"}
      <3>1. main' = [main EXCEPT !.i = @ + 1] /\ UNCHANGED <<srv, handled, waiting, remote, fault>>
        BY <1>3, <2>5 DEF InitConn
      <3>2. StartTyped'
        BY <2>1, <3>1 DEF StartTyped, remote
      <3>3. main'.at = "conns"
        BY <2>1, <3>1 DEF StartTyped
      <3> QED
        BY <2>1, <3>1, <3>2, <3>3, RemoteSame, GoesOn
    <2> QED
      BY <2>2, <2>3, <2>4, <2>5
  <1>4. CASE InitDial
    <2>1. CASE Ends("dial")
      BY <1>4, <2>1, EndsStartInv DEF InitDial
    <2>2. CASE ~ Ends("dial")
      <3>1. /\ main.at = "dialing"
            /\ Connect
            /\ main' = [at |-> "conns", i |-> main.i + 1]
            /\ UNCHANGED <<srv, handled, waiting, srvIdx, caller, reload, fault>>
        BY <1>4, <2>2 DEF InitDial
      <3>2. Registering /\ ~ reload /\ ~ Registering'
        BY <3>1 DEF Registering, ConnInv
      <3>3. /\ srvInfos' \in Seq(SrvInfos)
            /\ SelectInv' /\ ConnInv'
        BY <3>1, <3>2, ConnectStartInv
      <3>4. StartTyped'
        BY <3>1, <3>3 DEF StartTyped
      <3> QED
        BY <3>1, <3>3, <3>4, GoesOn
    <2> QED
      BY <2>1, <2>2
  <1>5. CASE InitConnsEnd
    <2>1. /\ main.at = "conns"
          /\ main' = [at |-> "handlers", i |-> 0]
          /\ UNCHANGED <<srv, handled, waiting, remote, fault>>
      BY <1>5 DEF InitConnsEnd
    <2>2. StartTyped'
      BY <2>1 DEF StartTyped, remote
    <2> QED
      BY <2>1, <2>2, RemoteSame, GoesOn
  <1>6. CASE RunServer
    <2>1. /\ main.at = "handlers"
          /\ main' = [at |-> "serve", i |-> 0]
          /\ srv' = [i \in Sections |-> IF srv[i] = "listening" THEN "started" ELSE srv[i]]
          /\ UNCHANGED <<handled, waiting, remote, fault>>
      BY <1>6 DEF RunServer
    <2>2. StartTyped'
      BY <2>1 DEF StartTyped, remote
    <2> QED
      BY <2>1, <2>2, RemoteSame, GoesOn
  <1> QED
    BY <1>1, <1>2, <1>3, <1>4, <1>5, <1>6 DEF Main

LEMMA ServersStartInv ==
  ASSUME StartInv, fault = "none", UNCHANGED config, NEW i \in Sections,
         SetSrvHandler(i) \/ ClientComes(i) \/ AcceptFails(i) \/ Loop(i)
  PROVE  StartInv'
  <1> USE DEF StartInv
  <1>1. CASE SetSrvHandler(i)
    <2>1. CASE Ends("wrong handlers")
      BY <1>1, <2>1, EndsStartInv DEF SetSrvHandler
    <2>2. CASE ~ Ends("wrong handlers")
      <3>1. handled' = handled \union {i} /\ UNCHANGED <<main, srv, waiting, remote, fault>>
        BY <1>1, <2>2 DEF SetSrvHandler
      <3>2. StartTyped'
        BY <3>1 DEF StartTyped, remote
      <3> QED
        BY <3>1, <3>2, RemoteSame, GoesOn
    <2> QED
      BY <2>1, <2>2
  <1>2. CASE ClientComes(i) \/ AcceptFails(i) \/ Serve(i)
    <2>1. StartTyped'
      BY <1>2 DEF StartTyped, remote, ClientComes, AcceptFails, Serve
    <2>2. UNCHANGED <<main, remote, fault>>
      BY <1>2 DEF ClientComes, AcceptFails, Serve
    <2> QED
      BY <2>1, <2>2, RemoteSame, GoesOn
  <1>3. CASE StartLoop(i)
    <2>1. srv[i] = "started"
      BY <1>3 DEF StartLoop
    <2>2. CASE i \in handled
      <3>1. srv' = [srv EXCEPT ![i] = "serving"] /\ UNCHANGED <<main, handled, waiting, remote, fault>>
        BY <1>3, <2>2 DEF StartLoop
      <3>2. StartTyped'
        BY <3>1 DEF StartTyped, remote
      <3> QED
        BY <3>1, <3>2, RemoteSame, GoesOn
    <2>3. CASE i \notin handled
      <3>1. Ends("no server handlers") /\ ~ Prepared
        BY <1>3, <2>1, <2>3 DEF StartLoop, Prepared
      <3> QED
        BY <3>1, EndsStartInv
    <2> QED
      BY <2>2, <2>3
  <1> QED
    BY <1>1, <1>2, <1>3 DEF Loop

LEMMA RemotesStartInv ==
  ASSUME StartInv, fault = "none", UNCHANGED config, NEW k \in DOMAIN srvInfos,
         SetConnHandler(k) \/ RemoteSends(k)
  PROVE  StartInv'
  <1> USE DEF StartInv
  <1>1. CASE RemoteSends(k)
    <2>1. Ends("no unpack handler") /\ ~ Prepared
      BY <1>1 DEF RemoteSends, Prepared
    <2> QED
      BY <2>1, EndsStartInv
  <1>2. CASE SetConnHandler(k)
    <2>1. CASE Ends("wrong handlers")
      BY <1>2, <2>1, EndsStartInv DEF SetConnHandler
    <2>2. CASE ~ Ends("wrong handlers")
      <3> DEFINE J == [srvInfos[k] EXCEPT !.handlers = TRUE]
      <3>1. /\ srvInfos' = [srvInfos EXCEPT ![k] = J]
            /\ UNCHANGED <<main, srv, handled, waiting, srvIdx, caller, reload, fault>>
        BY <1>2, <2>2 DEF SetConnHandler
      <3>2. srvInfos \in Seq(SrvInfos)
        BY DEF StartTyped
      <3>3. k \in 1 .. Len(srvInfos) /\ srvInfos[k] \in SrvInfos
        BY <3>2, LenProperties
      <3>4. J \in SrvInfos /\ J.connMgr = srvInfos[k].connMgr
        BY <3>3 DEF SrvInfos
      <3> HIDE DEF J
      <3>5. srvInfos' \in Seq(SrvInfos)
        BY <3>1, <3>2, <3>3, <3>4, ExceptSeq
      <3>6. Len(srvInfos') = Len(srvInfos)
        BY <3>1, <3>2, <3>3, <3>4, ExceptSeq
      <3>7. DOMAIN srvInfos' = DOMAIN srvInfos /\ \A n \in DOMAIN srvInfos :
               srvInfos'[n].connMgr = srvInfos[n].connMgr
        BY <3>1, <3>4
      <3>8. StartTyped'
        BY <3>1, <3>5 DEF StartTyped
      <3>9. srvInfos # <<>> /\ srvInfos' # <<>>
        BY <3>2, <3>3, <3>5, <3>6, LenProperties
      <3>10. SelectInv'
        BY <3>1, <3>6, <3>9 DEF SelectInv
      <3>11. ConnInv'
        BY <3>1, <3>6, <3>7, <3>9 DEF ConnInv, Registering
      <3> QED
        BY <3>1, <3>8, <3>10, <3>11, GoesOn
    <2> QED
      BY <2>1, <2>2
  <1> QED
    BY <1>1, <1>2

LEMMA CallersStartInv ==
  ASSUME StartInv, fault = "none", UNCHANGED config, NEW c \in Callers,
         AddSrvIdx(c) \/ ReadSrvIdx(c) \/ UseSrv(c)
  PROVE  StartInv'
  <1> USE DEF StartInv
  <1>0. /\ srvInfos \in Seq(SrvInfos) /\ srvIdx \in Nat
        /\ caller \in [Callers -> [at : {"out", "read", "use"}, idx : Nat]]
        /\ Len(srvInfos) \in Nat
        /\ srvInfos # <<>> => Len(srvInfos) > 0
    BY DEF StartTyped
  <1>1. CASE AddSrvIdx(c)
    <2>1. /\ srvInfos # <<>> /\ srvIdx' = nextIdx
          /\ caller' = [caller EXCEPT ![c].at = "read"]
          /\ UNCHANGED <<main, srv, handled, waiting, srvInfos, reload, fault>>
      BY <1>1 DEF AddSrvIdx
    <2>2. nextIdx \in Nat /\ nextIdx < Len(srvInfos)
      BY <1>0, <2>1 DEF nextIdx
    <2>3. StartTyped'
      BY <2>1, <2>2 DEF StartTyped
    <2>4. SelectInv'
      BY <1>0, <2>1, <2>2 DEF SelectInv
    <2>5. ConnInv'
      BY <2>1 DEF ConnInv, Registering
    <2> QED
      BY <2>1, <2>3, <2>4, <2>5, GoesOn
  <1>2. CASE ReadSrvIdx(c)
    <2>1. /\ caller[c].at = "read"
          /\ caller' = [caller EXCEPT ![c] = [at |-> "use", idx |-> srvIdx]]
          /\ UNCHANGED <<main, srv, handled, waiting, srvInfos, srvIdx, reload, fault>>
      BY <1>2 DEF ReadSrvIdx
    <2>2. StartTyped'
      BY <2>1 DEF StartTyped
    <2>3. SelectInv'
      BY <1>0, <2>1 DEF SelectInv
    <2>4. ConnInv'
      BY <2>1 DEF ConnInv, Registering
    <2> QED
      BY <2>1, <2>2, <2>3, <2>4, GoesOn
  <1>3. CASE UseSrv(c)
    <2> DEFINE k == caller[c].idx + 1
    <2>1. caller[c].at = "use"
      BY <1>3 DEF UseSrv
    <2>2. caller[c].idx \in Nat /\ caller[c].idx < Len(srvInfos)
      BY <1>0, <2>1 DEF SelectInv
    <2>3. k \in DOMAIN srvInfos
      BY <1>0, <2>2
    <2>4. CASE ~ srvInfos[k].handlers
      <3>1. Ends("no pack handler") /\ ~ Prepared
        BY <1>3, <2>3, <2>4 DEF UseSrv, Prepared
      <3> QED
        BY <3>1, EndsStartInv
    <2>5. CASE srvInfos[k].handlers /\ ~ srvInfos[k].connMgr
      <3>1. Ends("no connMgr")
        BY <1>3, <2>3, <2>5 DEF UseSrv
      <3>2. main.at = "serve" => reload
        BY <2>3, <2>5 DEF ConnInv, Registering
      <3> QED
        BY <3>1, <3>2, EndsStartInv
    <2>6. CASE srvInfos[k].handlers /\ srvInfos[k].connMgr
      <3>1. /\ caller' = [caller EXCEPT ![c] = [at |-> "out", idx |-> 0]]
            /\ UNCHANGED <<main, srv, handled, waiting, srvInfos, srvIdx, reload, fault>>
        BY <1>3, <2>3, <2>6 DEF UseSrv
      <3>2. StartTyped'
        BY <3>1 DEF StartTyped
      <3>3. SelectInv'
        BY <1>0, <3>1 DEF SelectInv
      <3>4. ConnInv'
        BY <3>1 DEF ConnInv, Registering
      <3> QED
        BY <3>1, <3>2, <3>3, <3>4, GoesOn
    <2> QED
      BY <2>4, <2>5, <2>6
  <1> QED
    BY <1>1, <1>2, <1>3

LEMMA ReloadStartInv ==
  ASSUME StartInv, fault = "none", UNCHANGED config, ReloadRegisters \/ ReloadDials
  PROVE  StartInv'
  <1> USE DEF StartInv
  <1>1. CASE ReloadRegisters
    <2>1. main.at = "serve" /\ ~ reload
      BY <1>1 DEF ReloadRegisters
    <2>2. CASE Full
      BY <1>1, <2>2, EndsStartInv DEF ReloadRegisters
    <2>3. CASE ~ Full
      <3>1. /\ Publish(0, TRUE) /\ reload' = TRUE
            /\ UNCHANGED <<main, srv, handled, waiting, srvIdx, caller, fault>>
        BY <1>1, <2>3 DEF ReloadRegisters
      <3>2. ~ Registering /\ Registering' /\ 0 \in 0..MaxSections
        BY <2>1, <3>1, ConfigFacts DEF Registering
      <3>3. srvInfos' \in Seq(SrvInfos) /\ SelectInv' /\ ConnInv'
        BY <2>1, <3>1, <3>2, PublishStartInv
      <3>4. StartTyped'
        BY <3>1, <3>3 DEF StartTyped
      <3> QED
        BY <3>1, <3>3, <3>4, GoesOn
    <2> QED
      BY <2>2, <2>3
  <1>2. CASE ReloadDials
    <2>1. reload /\ main.at = "serve"
      BY <1>2 DEF ReloadDials, ConnInv
    <2>2. CASE Ends("dial")
      BY <2>1, <2>2, EndsStartInv
    <2>3. CASE ~ Ends("dial")
      <3>1. /\ Connect /\ reload' = FALSE
            /\ UNCHANGED <<main, srv, handled, waiting, srvIdx, caller, fault>>
        BY <1>2, <2>3 DEF ReloadDials
      <3>2. Registering /\ ~ Registering'
        BY <2>1, <3>1 DEF Registering
      <3>3. srvInfos' \in Seq(SrvInfos) /\ SelectInv' /\ ConnInv'
        BY <3>1, <3>2, ConnectStartInv
      <3>4. StartTyped'
        BY <3>1, <3>3 DEF StartTyped
      <3> QED
        BY <3>1, <3>3, <3>4, GoesOn
    <2> QED
      BY <2>2, <2>3
  <1> QED
    BY <1>1, <1>2

LEMMA NextStartInv == ASSUME StartInv, [StartNext]_startVars PROVE StartInv'
  <1>1. CASE StartNext
    <2>1. fault = "none" /\ UNCHANGED config
      BY <1>1 DEF StartNext
    <2> QED
      BY <1>1, <2>1, MainStartInv, ServersStartInv, RemotesStartInv, CallersStartInv, ReloadStartInv DEF StartNext
  <1>2. CASE UNCHANGED startVars
    BY <1>2 DEF startVars, StartInv, StartTyped, SelectInv, ConnInv, Registering, PreparedIsSafe, Prepared, Full
  <1> QED
    BY <1>1, <1>2

-----------------------------------------------------------------------------
LEMMA SpecStartInv == StartSafeSpec => []StartInv
  BY InitStartInv, NextStartInv, PTL DEF StartSafeSpec

\* The state keeps its type, from the first section read to the last call.
THEOREM StartTypeOK == StartSafeSpec => []StartTyped
  BY SpecStartInv, PTL DEF StartInv

\* A program that has set every handler before RunServer panics or exits only by
\* way of the reload handler: for any number of servers, remote servers and
\* callers, chooseRemoteSrv finds a connected one (conn_proxy, lines 106 to 126).
THEOREM StartPreparedIsSafe == StartSafeSpec => []PreparedIsSafe
  BY SpecStartInv, PTL DEF StartInv
=============================================================================

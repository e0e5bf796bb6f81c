----------------------------- MODULE RedisCache -----------------------------
(***************************************************************************)
(* RedisController of xman_redis.go: a cache whose entries expire, and a    *)
(* hash with the names of those that Put has stored, by which ClearAll      *)
(* finds them.  The server runs one command after another; an operation is  *)
(* several, between which other clients come in, and any of them may fail.  *)
(***************************************************************************)
EXTENDS Naturals, SequencesExt

CONSTANTS
    Clients,    \* goroutines, or programs, that use the cache
    Keys,
    MaxOps      \* bound on the operations begun

ASSUME KeysAssumption == IsFiniteSet(Keys)

VARIABLES
    live,       \* the keys that have an entry
    named,      \* the fields of the hash rc.key
    todo,       \* the commands each client has still to send
    op,         \* the operation he is in, and its key
    alone,      \* whether nobody else has been in one since he began
    raced,      \* history: the tainted keys (see Record)
    ops         \* how many operations have begun

cacheVars == <<live, named, todo, op, alone, raced, ops>>

Nothing    == <<"none", "none">>
Operations == {"Put", "Delete", "IsExist", "Incr"} \X Keys \union {<<"ClearAll", "all">>}
KeysOf(o)  == IF o[1] = "ClearAll" THEN Keys ELSE {o[2]} \cap Keys

CacheTypes ==
    /\ live \subseteq Keys
    /\ named \subseteq Keys
    /\ todo \in [Clients -> Seq({"SETEX", "DEL", "HSET", "HDEL", "EXISTS", "INCRBY",
                                 "HKEYS", "DELHASH"} \X (Keys \union {"all"}))]
    /\ op \in [Clients -> Operations \union {Nothing}]
    /\ alone \in [Clients -> BOOLEAN]
    /\ raced \subseteq Keys
    /\ ops \in Nat

CacheInit ==
    /\ live = {} /\ named = {} /\ raced = {} /\ ops = 0
    /\ todo = [c \in Clients |-> <<>>]
    /\ op = [c \in Clients |-> Nothing]
    /\ alone = [c \in Clients |-> TRUE]

-----------------------------------------------------------------------------
\* The name before the entry.
MutDeleteNameFirst(k) == << <<"HDEL", k>>, <<"DEL", k>> >>

Put(k)    == << <<"SETEX", k>>, <<"HSET", k>> >>
Delete(k) == << <<"DEL", k>>, <<"HDEL", k>> >>
IsExist(k) == << <<"EXISTS", k>> >>
Incr(k)   == << <<"INCRBY", k>> >>
ClearAll  == << <<"HKEYS", "all">> >>

Commands(o) == CASE o[1] = "Put"      -> Put(o[2])
                 [] o[1] = "Delete"   -> Delete(o[2])
                 [] o[1] = "IsExist"  -> IsExist(o[2])
                 [] o[1] = "Incr"     -> Incr(o[2])
                 [] o[1] = "ClearAll" -> ClearAll

Busy == {c \in Clients : op[c] # Nothing}

Begin(c, o) ==
    /\ c \notin Busy /\ ops < MaxOps
    /\ op' = [op EXCEPT ![c] = o]
    /\ todo' = [todo EXCEPT ![c] = Commands(o)]
    /\ alone' = [d \in Clients |-> IF d = c THEN Busy = {} ELSE alone[d] /\ d \notin Busy]
    /\ ops' = ops + 1
    /\ UNCHANGED <<live, named, raced>>

\* What the server does, and what is left to do after it.
Effect(cmd, k) ==
    /\ live' = CASE cmd \in {"SETEX", "INCRBY"} -> live \union {k}
                 [] cmd = "DEL" -> live \ {k}
                 [] OTHER -> live
    /\ named' = CASE cmd = "HSET" -> named \union {k}
                  [] cmd = "HDEL" -> named \ {k}
                  [] cmd = "DELHASH" -> {}
                  [] OTHER -> named

\* Going on to the hash when the first entry is deleted.
MutRest(c) ==
    LET cmd == Head(todo[c]) IN
    IF cmd[1] = "HKEYS"
    THEN (IF named = {} THEN <<>> ELSE << <<"DEL", SetToSeq(named)[1]>> >>) \o << <<"DELHASH", "all">> >>
    ELSE IF cmd[1] = "EXISTS" THEN <<>> ELSE Tail(todo[c])

\* ClearAll deletes what HKEYS listed and then the hash, whatever is in it by
\* now; IsExist takes the name of an entry that is gone out of it.
Rest(c) ==
    LET cmd == Head(todo[c]) IN
    CASE cmd[1] = "HKEYS" ->
            [i \in 1..Cardinality(named) |-> <<"DEL", SetToSeq(named)[i]>>] \o << <<"DELHASH", "all">> >>
      [] cmd[1] = "EXISTS" -> IF cmd[2] \in live THEN <<>> ELSE << <<"HDEL", cmd[2]>> >>
      [] OTHER -> Tail(todo[c])

\* The history: an operation that overlapped another, a Put that failed and an
\* Incr of a key without a name taint their keys; a Put alone clears its key.
Record(c, failed) ==
    raced' = IF \/ ~ alone[c]
                \/ failed /\ op[c][1] = "Put"
                \/ op[c][1] = "Incr" /\ op[c][2] \notin named
             THEN raced \union KeysOf(op[c])
             ELSE IF op[c][1] = "Put" THEN raced \ KeysOf(op[c]) ELSE raced

Return(c, failed) ==
    /\ op' = [op EXCEPT ![c] = Nothing]
    /\ todo' = [todo EXCEPT ![c] = <<>>]
    /\ alone' = [alone EXCEPT ![c] = TRUE]
    /\ Record(c, failed)

\* A command that succeeds.
Do(c) ==
    /\ c \in Busy
    /\ Effect(Head(todo[c])[1], Head(todo[c])[2])
    /\ IF Rest(c) = <<>> THEN Return(c, FALSE)
       ELSE todo' = [todo EXCEPT ![c] = Rest(c)] /\ UNCHANGED <<op, alone, raced>>
    /\ UNCHANGED ops

\* One that fails, after the server has run it or before: the operation returns
\* the error, or panics if there was no connection to be had (c is nil then).
Fail(c) ==
    /\ c \in Busy
    /\ Effect(Head(todo[c])[1], Head(todo[c])[2]) \/ UNCHANGED <<live, named>>
    /\ Return(c, TRUE)
    /\ UNCHANGED ops

\* The timeout of SETEX, or eviction.
Expire(k) ==
    /\ k \in live
    /\ live' = live \ {k}
    /\ UNCHANGED <<named, todo, op, alone, raced, ops>>

CacheNext ==
    \/ \E c \in Clients : Do(c) \/ Fail(c) \/ \E o \in Operations : Begin(c, o)
    \/ \E k \in Keys : Expire(k)

CacheSpec == CacheInit /\ [][CacheNext]_cacheVars

-----------------------------------------------------------------------------
\* Every entry is named in the hash, unless a Put is about to name it or its key
\* is tainted: only overlaps, failed Puts and Incrs make entries that ClearAll
\* does not find; failed Deletes and ClearAlls and expiry do not.
NamedUnlessRaced == \A k \in live \ (named \union raced) :
    \E c \in Clients : op[c] = <<"Put", k>>

\* The operation has returned without an error and without another in between.
AloneDone(c) == Do(c) /\ op'[c] = Nothing /\ alone[c]

\* "clean all cache in redis": such a ClearAll leaves no name, and of the entries
\* those whose keys are tainted.
ClearAllClears == [][ \A c \in Clients :
    AloneDone(c) /\ op[c][1] = "ClearAll" => live' \subseteq raced /\ named' = {} ]_cacheVars

=============================================================================

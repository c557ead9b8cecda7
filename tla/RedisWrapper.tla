---------------------------- MODULE RedisWrapper ----------------------------
(***************************************************************************)
(* RedisWrapper (src/redis_wrapper/redis_wrapper.cpp): Redis commands on   *)
(* one key, issued by several clients.  A value is spread over several     *)
(* records of the LSM: the record of the key itself (field list of a hash, *)
(* elements of a list, size of a set, number of a string), one record per  *)
(* field or member, two per member of a sorted set (its score under its    *)
(* name, its name under the score), and the record with the time of expiry.*)
(*                                                                         *)
(* A section under the exclusive redis_mtx is one action, since nothing    *)
(* else runs meanwhile.  A section under the shared lock is Check, which   *)
(* does the reads, and Unlock, which gives the lock back.  The key has one *)
(* type throughout, as the commands do not test for another.  Names are    *)
(* non-empty and contain no separator, so that splitting what was joined   *)
(* gives back the same sequence; scores are natural numbers, padded with   *)
(* zeros, so that their records sort as the numbers do.                    *)
(***************************************************************************)
EXTENDS Integers, SequencesExt, Orders

CONSTANTS
    Clients,
    Elems,          \* names of fields, elements and members
    Kinds,          \* the types among which the key's is chosen
    Scores,         \* scores of ZADD, increments of ZINCRBY
    Seconds,        \* arguments of EXPIRE
    MaxArgs,        \* bound on the names of SADD and SREM, the pairs of ZADD
    MaxIndex,       \* LRANGE is checked with indices from -MaxIndex to MaxIndex
    MaxTime,        \* bound on the clock
    MaxCommands     \* bound on the number of commands issued

ASSUME RedisAssumption ==
    /\ IsFiniteSet(Elems)
    /\ Kinds \subseteq {"string", "hash", "list", "set", "zset"}
    /\ Scores \subseteq Nat
    /\ Seconds \subseteq Int /\ MaxArgs \in Nat /\ MaxIndex \in Nat
    /\ MaxTime \in Nat /\ MaxCommands \in Nat

VARIABLES
    kind,       \* type of the key
    key,        \* optional: the value stored under the key
    sub,        \* fields or members that have a record of their own
    scoreOf,    \* sorted set: the score stored under each member
    memberAt,   \* sorted set: the member stored under each score
    expireAt,   \* optional: the value stored under the expire key
    now,        \* system_clock, in seconds
    readers,    \* clients that hold redis_mtx shared
    cl,         \* per client: command, argument and where it stands
    issued,     \* commands issued so far
    miscounted, \* history: DEL left members of a set behind, or a command that
                \* named a member twice has counted it twice
    tangled     \* history: the two records of some member may not match

zset == <<scoreOf, memberAt, tangled>>
records == <<key, sub, expireAt, zset>>
rvars == <<kind, records, now, readers, cl, issued, miscounted>>

Absent == <<>>
Some(v) == <<v>>
Has(opt) == opt # Absent
Idle == [op |-> "none", arg |-> {}, pc |-> "idle"]

RInit ==
    /\ kind \in Kinds
    /\ key = Absent /\ sub = {} /\ expireAt = Absent
    /\ scoreOf = <<>> /\ memberAt = <<>> /\ tangled = FALSE
    /\ now = 0 /\ readers = {} /\ issued = 0 /\ miscounted = FALSE
    /\ cl = [c \in Clients |-> Idle]

-----------------------------------------------------------------------------
(* Commands, by the way they use the lock.                                  *)

Direct == {"set", "incr", "decr", "del", "expire"}  \* exclusive lock at once
Creates == {"hset", "lpush", "rpush", "sadd",       \* go on after a clean-up
            "zadd", "zincrby"}
Removes == {"hdel", "lpop", "rpop", "srem", "zrem"} \* end after a clean-up

\* The reads of a type take the same way, so one stands for all: HGET for
\* HKEYS, LLEN for LRANGE, SCARD for SISMEMBER and SMEMBERS, ZCARD for ZSCORE,
\* ZRANGE and ZRANK.  What each returns is defined below.
Ops ==
    [string |-> {"set", "get", "incr", "decr"},
     hash   |-> {"hset", "hget", "hdel"},
     list   |-> {"lpush", "rpush", "lpop", "rpop", "llen"},
     set    |-> {"sadd", "srem", "scard"},
     zset   |-> {"zadd", "zrem", "zincrby", "zcard"}]

\* Names (one that HSET or ZREM repeats makes no difference), sequences where a
\* repetition does, or no argument that matters here.
Args(op) ==
    CASE op \in {"hset", "zrem"} -> (SUBSET Elems) \ {{}}
      [] op \in {"sadd", "srem"} -> SeqOf(Elems, MaxArgs) \ {<<>>}
      [] op = "zadd" -> SeqOf(Elems \X Scores, MaxArgs) \ {<<>>}
      [] op \in {"hdel", "lpush", "rpush", "zincrby"} -> {{e} : e \in Elems}
      [] OTHER -> {{}}

Goto(c, pc) == cl' = [cl EXCEPT ![c].pc = pc]
Return(c) == cl' = [cl EXCEPT ![c] = Idle]
At(c, pc, ops) == cl[c].pc = pc /\ cl[c].op \in ops

Invoke(c, op, arg) ==
    /\ cl[c].pc = "idle" /\ issued < MaxCommands
    /\ cl' = [cl EXCEPT ![c] = [op |-> op, arg |-> arg,
                                pc |-> IF op \in Direct THEN "write" ELSE "check"]]
    /\ issued' = issued + 1
    /\ UNCHANGED <<kind, records, now, readers, miscounted>>

-----------------------------------------------------------------------------
(* The shared section: is the key expired, and what does a read return.     *)

Expired == Has(expireAt) /\ expireAt[1] < now

Verdict(op) ==
    CASE op = "ttl" -> "live"                           \* never cleans
      [] op = "get" /\ ~Has(key) /\ Has(expireAt) -> "dangling"
      [] op = "get" /\ ~Has(key) -> "live"
      [] OTHER -> IF Expired THEN "expired" ELSE "live"

Check(c) ==
    /\ cl[c].pc = "check"
    /\ readers' = readers \cup {c}
    /\ Goto(c, Verdict(cl[c].op))
    /\ UNCHANGED <<kind, records, now, issued, miscounted>>

\* Faulty variant: the shared lock is given back only for a clean-up.
KeptIfLive(c) == IF cl[c].pc = "live" THEN readers ELSE readers \ {c}

Released(c) == readers \ {c}

(* rlock.unlock(), by hand before the exclusive lock or on return.          *)
Unlock(c) ==
    /\ cl[c].pc \in {"expired", "dangling", "live"}
    /\ readers' = Released(c)
    /\ CASE cl[c].pc = "expired"  -> Goto(c, "clean")
         [] cl[c].pc = "dangling" -> Goto(c, "tidy")
         [] cl[c].pc = "live"     -> IF cl[c].op \in Creates \cup Removes
                                     THEN Goto(c, "write") ELSE Return(c)
    /\ UNCHANGED <<kind, records, now, issued, miscounted>>

-----------------------------------------------------------------------------
(* Clean-up under the exclusive lock.  It does not look at the time again.  *)

Exclusive == readers = {}       \* other exclusive sections are whole actions

\* Faulty variant: only the record of the key is removed.
SubKept == sub

\* The records that expire_hash_clean, expire_list_clean and expire_set_clean
\* leave: listed fields go, and all members that the prefix scan finds.
SubCleaned ==
    CASE kind = "hash" -> IF Has(key) THEN sub \ ToSet(key[1]) ELSE sub
      [] kind = "set"  -> {}
      [] OTHER         -> sub

Clean(c) ==
    /\ cl[c].pc = "clean" /\ Exclusive
    /\ key' = Absent /\ expireAt' = Absent
    /\ sub' = SubCleaned
    /\ scoreOf' = <<>> /\ memberAt' = <<>>       \* found by their prefix
    /\ miscounted' = FALSE /\ tangled' = FALSE
    /\ IF cl[c].op \in Creates THEN Goto(c, "write") ELSE Return(c)
    /\ UNCHANGED <<kind, now, readers, issued>>

(* redis_get of an absent key with an expire record.                        *)
TidyExpire(c) ==
    /\ cl[c].pc = "tidy" /\ Exclusive
    /\ expireAt' = Absent
    /\ Return(c)
    /\ UNCHANGED <<kind, zset, key, sub, now, readers, issued, miscounted>>

-----------------------------------------------------------------------------
(* Effects under the exclusive lock.                                        *)

Writes(c, ops) == At(c, "write", ops) /\ Exclusive /\ Return(c)

RedisSet(c) ==
    /\ Writes(c, {"set"})
    /\ key' = Some(0) /\ expireAt' = Absent
    /\ UNCHANGED <<kind, zset, sub, now, readers, issued, miscounted>>

RedisIncr(c) ==
    /\ Writes(c, {"incr"})
    /\ key' = IF Has(key) THEN Some(key[1] + 1) ELSE Some(1)
    /\ UNCHANGED <<kind, zset, sub, expireAt, now, readers, issued, miscounted>>

RedisDecr(c) ==
    /\ Writes(c, {"decr"})
    /\ key' = IF Has(key) THEN Some(key[1] - 1) ELSE Some(-1)
    /\ UNCHANGED <<kind, zset, sub, expireAt, now, readers, issued, miscounted>>

(* The fields of a hash are removed with it; the members of a set and of a  *)
(* sorted set stay.                                                         *)
RedisDel(c) ==
    /\ Writes(c, {"del"})
    /\ key' = Absent /\ expireAt' = Absent
    /\ sub' = IF kind = "hash" /\ Has(key) THEN sub \ ToSet(key[1]) ELSE sub
    /\ miscounted' = (miscounted \/ (kind = "set" /\ sub # {}))
    /\ UNCHANGED <<kind, zset, now, readers, issued>>

(* An expire record is written whether or not the key exists.               *)
RedisExpire(c) ==
    /\ Writes(c, {"expire"})
    /\ \E s \in Seconds : expireAt' = Some(now + s)
    /\ UNCHANGED <<kind, zset, key, sub, now, readers, issued, miscounted>>

\* Faulty variant: a field is listed again when it is written again.
AppendedAll(fields, new) == fields \o SetToSeq(new)

\* New fields are appended to the list, known ones keep their place.
Appended(fields, new) == fields \o SetToSeq(new \ ToSet(fields))

Stored == IF Has(key) THEN key[1] ELSE <<>>     \* the list, empty by default

HsetBatch(c) ==
    /\ Writes(c, {"hset"})
    /\ sub' = sub \cup cl[c].arg
    /\ key' = Some(Appended(Stored, cl[c].arg))
    /\ UNCHANGED <<kind, zset, expireAt, now, readers, issued, miscounted>>

Hdel(c) ==
    /\ Writes(c, {"hdel"})
    /\ sub' = sub \ cl[c].arg
    /\ LET found == {i \in DOMAIN Stored : Stored[i] \in cl[c].arg}
           rest == RemoveAt(Stored, Min(found))
       IN  key' = IF found = {} THEN key
                  ELSE IF rest = <<>> THEN Absent ELSE Some(rest)
    /\ UNCHANGED <<kind, zset, expireAt, now, readers, issued, miscounted>>

Push(c) ==
    /\ Writes(c, {"lpush", "rpush"})
    /\ LET new == SetToSeq(cl[c].arg)
       IN  key' = Some(IF cl[c].op = "lpush" THEN new \o Stored ELSE Stored \o new)
    /\ UNCHANGED <<kind, zset, sub, expireAt, now, readers, issued, miscounted>>

(* The record goes with its last element; the expire record stays.          *)
Pop(c) ==
    /\ Writes(c, {"lpop", "rpop"})
    /\ LET rest == IF cl[c].op = "lpop" THEN Tail(Stored) ELSE Front(Stored)
       IN  key' = IF Len(Stored) <= 1 THEN Absent ELSE Some(rest)
    /\ UNCHANGED <<kind, zset, sub, expireAt, now, readers, issued, miscounted>>

\* Faulty variant: a member that is there already is counted again.
CountedAll(named) == Len(named)

\* By how much SADD raises the size: each name is looked up, none is marked.
Counted(named) == Cardinality({i \in DOMAIN named : named[i] \notin sub})

Size == IF Has(key) THEN key[1] ELSE 0

Twice(named, S) ==
    \E i, j \in DOMAIN named : i # j /\ named[i] = named[j] /\ named[i] \in S

Sadd(c) ==
    /\ Writes(c, {"sadd"})
    /\ key' = Some(Size + Counted(cl[c].arg))
    /\ sub' = sub \cup ToSet(cl[c].arg)
    /\ miscounted' = (miscounted \/ Twice(cl[c].arg, Elems \ sub))
    /\ UNCHANGED <<kind, zset, expireAt, now, readers, issued>>

(* The size is written even if the set does not exist.                      *)
Srem(c) ==
    /\ Writes(c, {"srem"})
    /\ key' = Some(Size - Cardinality({i \in DOMAIN cl[c].arg : cl[c].arg[i] \in sub}))
    /\ sub' = sub \ ToSet(cl[c].arg)
    /\ miscounted' = (miscounted \/ Twice(cl[c].arg, sub))
    /\ UNCHANGED <<kind, zset, expireAt, now, readers, issued>>

-----------------------------------------------------------------------------
(* Sorted sets.                                                             *)

Without(f, D) == Restrict(f, DOMAIN f \ D)

\* Records written over the stored ones.
Over(new, old) ==
    [x \in DOMAIN new \cup DOMAIN old |-> IF x \in DOMAIN new THEN new[x] ELSE old[x]]

\* Faulty variant: the record under the old score is left.
UnscoredKept(members) == memberAt

\* The score records once those of the given members are removed.
Unscored(members) ==
    Without(memberAt, {scoreOf[e] : e \in members \cap DOMAIN scoreOf})

\* The records that the pairs at the indices I write, the last one winning.
Written(pairs, I, under, what) ==
    [x \in {pairs[i][under] : i \in I} |->
       pairs[Max({i \in I : pairs[i][under] = x})][what]]

(* Members that have their score already are passed over.  The record of an *)
(* old score is collected in a list that is never removed.                  *)
Zadd(c) ==
    /\ Writes(c, {"zadd"})
    /\ LET pairs == cl[c].arg
           new == {i \in DOMAIN pairs : pairs[i][1] \in DOMAIN scoreOf
                                          => scoreOf[pairs[i][1]] # pairs[i][2]}
       IN  /\ scoreOf' = Over(Written(pairs, new, 1, 2), scoreOf)
           /\ memberAt' = Over(Written(pairs, new, 2, 1), memberAt)
           /\ tangled' = \/ tangled
                         \/ \E i \in new : \/ pairs[i][1] \in DOMAIN scoreOf
                                          \/ pairs[i][2] \in DOMAIN memberAt
                         \/ \E i, j \in new : /\ pairs[i] # pairs[j]
                                             /\ \/ pairs[i][1] = pairs[j][1]
                                                \/ pairs[i][2] = pairs[j][2]
    /\ key' = Some("zset")
    /\ UNCHANGED <<kind, sub, expireAt, now, readers, issued, miscounted>>

Zrem(c) ==
    /\ Writes(c, {"zrem"})
    /\ memberAt' = Unscored(cl[c].arg)
    /\ scoreOf' = Without(scoreOf, cl[c].arg)
    /\ UNCHANGED <<kind, key, sub, expireAt, now, readers, issued, miscounted, tangled>>

(* Here the old score's record does go; the key's own is not written.       *)
Zincrby(c, e, increment) ==
    /\ Writes(c, {"zincrby"}) /\ e \in cl[c].arg
    /\ LET new == increment + (IF e \in DOMAIN scoreOf THEN scoreOf[e] ELSE 0)
       IN  /\ memberAt' = Over([s \in {new} |-> e], Unscored({e}))
           /\ scoreOf' = Over([m \in {e} |-> new], scoreOf)
           /\ tangled' = (tangled \/ new \in DOMAIN Unscored({e}))
    /\ UNCHANGED <<kind, key, sub, expireAt, now, readers, issued, miscounted>>

-----------------------------------------------------------------------------
(* What the reads return, in the state of their Check if it found the key   *)
(* live.                                                                    *)

Hget(f) == f \in sub            \* whether the field is found
Hkeys == Stored
Llen == Len(Stored)
Sismember(m) == m \in sub
Scard == Size
Smembers == sub

\* Faulty variant: the last element is taken for index -2.
FromEndShort(i, n) == IF i < 0 THEN i + n + 1 ELSE i

FromEnd(i, n) == IF i < 0 THEN i + n ELSE i

\* redis_lrange on a list with elements.  The test of stop against the size is
\* unsigned: a stop that is still negative counts as beyond the end.
LRange(list, start, stop) ==
    LET n == Len(list)
        s == FromEnd(start, n)
        t == FromEnd(stop, n)
        first == IF s < 0 THEN 0 ELSE s
        last == IF t < 0 \/ t >= n THEN n - 1 ELSE t
    IN  IF first > last THEN <<>> ELSE SubSeq(list, first + 1, last + 1)

\* redis_zrange, the indices treated as above.
ByScore ==
    LET scores == InOrder(DOMAIN memberAt, <)
    IN  [i \in DOMAIN scores |-> memberAt[scores[i]]]
Zrange(start, stop) == IF ByScore = <<>> THEN <<>> ELSE LRange(ByScore, start, stop)

Zscore(e) == IF e \in DOMAIN scoreOf THEN Some(scoreOf[e]) ELSE Absent
Zcard == Cardinality(DOMAIN memberAt)

\* redis_zrank counts all records under the key's prefix, and those of the
\* members come before those of the scores.
Zrank(e) ==
    IF e \in DOMAIN scoreOf /\ scoreOf[e] \in DOMAIN memberAt
    THEN Some(Cardinality(DOMAIN scoreOf)
                + Cardinality({s \in DOMAIN memberAt : s < scoreOf[e]}))
    ELSE Absent

Tick ==
    /\ now < MaxTime
    /\ now' = now + 1
    /\ UNCHANGED <<kind, records, readers, cl, issued, miscounted>>

ClientStep(c) ==
    \/ Check(c) \/ Unlock(c) \/ Clean(c) \/ TidyExpire(c)
    \/ RedisSet(c) \/ RedisIncr(c) \/ RedisDecr(c)
    \/ RedisDel(c) \/ RedisExpire(c)
    \/ HsetBatch(c) \/ Hdel(c) \/ Push(c) \/ Pop(c) \/ Sadd(c) \/ Srem(c)
    \/ Zadd(c) \/ Zrem(c) \/ \E e \in Elems, i \in Scores : Zincrby(c, e, i)

RNext ==
    \/ \E c \in Clients, op \in Ops[kind] \cup {"del", "expire", "ttl"} :
          \E arg \in Args(op) : Invoke(c, op, arg)
    \/ \E c \in Clients : ClientStep(c)
    \/ Tick

RSpec == RInit /\ [][RNext]_rvars

(* A command that was issued goes on.                                       *)
RFairSpec == RSpec /\ \A c \in Clients : WF_rvars(ClientStep(c))

-----------------------------------------------------------------------------
(* Properties.                                                              *)

\* Every optional value is of the key's type, and only clients between check
\* and unlock hold the shared lock.
RTypeOK ==
    /\ kind \in Kinds
    /\ Has(key) => \/ kind \in {"string", "set"} /\ key[1] \in Int
                   \/ kind \in {"hash", "list"} /\ key[1] \in Seq(Elems)
                                                /\ key[1] # <<>>
                   \/ kind = "zset" /\ key[1] = "zset"
    /\ sub \subseteq Elems /\ (kind \notin {"hash", "set"} => sub = {})
    /\ DOMAIN scoreOf \subseteq Elems /\ Range(memberAt) \subseteq Elems
    /\ Range(scoreOf) \cup DOMAIN memberAt \subseteq Nat
    /\ Has(expireAt) => expireAt[1] \in Int
    /\ readers = {c \in Clients : cl[c].pc \in {"expired", "dangling", "live"}}

\* HSET, HDEL, DEL and expire_hash_clean: whatever the interleaving of their
\* check, clean-up and write, HKEYS lists each field once and exactly the
\* fields that HGET finds.
FieldListExact ==
    kind = "hash" => /\ ToSet(Hkeys) = {f \in Elems : Hget(f)}
                     /\ Len(Hkeys) = Cardinality(ToSet(Hkeys))

\* SADD, SREM and expire_set_clean: SCARD, which reads the stored size, agrees
\* with the members that SMEMBERS finds, until a DEL leaves members behind, an
\* SADD names a new member twice or an SREM one of the set.
SizeExact ==
    kind = "set" /\ ~miscounted =>
        /\ Scard = Cardinality(Smembers)
        /\ Smembers = {m \in Elems : Sismember(m)}

\* The comment in redis_zcard: the records of member and score are a pair, so
\* counting one of them is enough.  Through ZADD, ZINCRBY, ZREM and clean-up
\* ZCARD counts the members that have a ZSCORE, ZRANGE lists them by ascending
\* score, and ZRANK ascends with it, until a ZADD gives a member another score
\* or a second one, or two members share one.
ScoresPaired ==
    kind = "zset" /\ ~tangled =>
        LET all == Zrange(0, -1) IN
        /\ ToSet(all) = {e \in Elems : Has(Zscore(e))}
        /\ Len(all) = Zcard /\ Zcard = Cardinality(ToSet(all))
        /\ \A i, j \in DOMAIN all : i < j =>
              /\ Zscore(all[i])[1] < Zscore(all[j])[1]
              /\ Zrank(all[j])[1] - Zrank(all[i])[1] = j - i

\* redis_lrange: unless stop lies before the first element, the answer holds
\* exactly the elements from start to stop, negative indices counting from the
\* end and indices outside being cut off.
LRangeExact ==
    kind = "list" /\ Has(key) =>
        LET n == Llen IN
        \A start \in -MaxIndex..MaxIndex, stop \in -n..MaxIndex :
            LET from == IF start < 0 THEN n + start ELSE start
                to   == IF stop < 0 THEN n + stop ELSE stop
                in   == {i \in 1..n : from <= i - 1 /\ i - 1 <= to}
            IN  /\ Len(LRange(Stored, start, stop)) = Cardinality(in)
                /\ \A i \in 1..Cardinality(in) :
                      LRange(Stored, start, stop)[i] =
                          Stored[(CHOOSE m \in in : \A x \in in : m <= x) + i - 1]

\* The lock upgrades: no command keeps its shared lock while it waits for the
\* exclusive one, so that every command returns.
CommandsEnd == \A c \in Clients : (cl[c].pc # "idle") ~> (cl[c].pc = "idle")

\* The comment on expire_hash_clean: it checks whether the key is expired and
\* cleans it.  A clean-up removes nothing from a key that is not expired.
CleanupSparesFresh ==
    [][\A c \in Clients :
          cl[c].pc = "clean" /\ cl'[c].pc # "clean" /\ ~Expired
            => key' = key /\ sub' = sub]_rvars
=============================================================================

------------------------ MODULE RedisWrapper_proofs ------------------------
(***************************************************************************)
(* The safety of the Redis commands, for any number of clients, names,     *)
(* scores and expiry times, however their sections interleave.             *)
(***************************************************************************)
EXTENDS RedisWrapper, ProofLemmas, FiniteSetTheorems

-----------------------------------------------------------------------------
(* The invariant.                                                           *)

Pcs == {"idle", "check", "expired", "dangling", "live", "clean", "tidy", "write"}
Locked == {"expired", "dangling", "live"}
OpNames == {"set", "get", "incr", "decr", "hset", "hget", "hdel", "lpush", "rpush", "lpop",
            "rpop", "llen", "sadd", "srem", "scard", "zadd", "zrem", "zincrby", "zcard",
            "del", "expire", "ttl", "none"}
Arguments == (SUBSET Elems) \cup Seq(Elems) \cup Seq(Elems \X Scores)
ClientStates == [op : OpNames, arg : Arguments, pc : Pcs]

\* A command that is under way is one of the key's type, with arguments of its
\* own, and the shared lock is held between check and unlock only.
ClientInv ==
    /\ kind \in Kinds /\ cl \in [Clients -> ClientStates]
    /\ \A c \in Clients : cl[c].pc # "idle" =>
          /\ cl[c].op \in Ops[kind] \cup {"del", "expire", "ttl"}
          /\ cl[c].arg \in Args(cl[c].op)
    /\ readers = {c \in Clients : cl[c].pc \in Locked}

\* The record of the key is of its type.
KeyOk ==
    Has(key) => \/ kind \in {"string", "set"} /\ key[1] \in Int
                \/ kind \in {"hash", "list"} /\ key[1] \in Seq(Elems) /\ key[1] # <<>>
                \/ kind = "zset" /\ key[1] = "zset"

\* The records of fields and members belong to a hash or a set.
SubOk == sub \subseteq Elems /\ (kind \notin {"hash", "set"} => sub = {})

Distinct(list) == \A i, j \in DOMAIN list : list[i] = list[j] => i = j

\* The fields of a hash are listed once each.
FieldsOk == kind = "hash" => Distinct(Stored) /\ ToSet(Stored) = sub

\* The size of a set is the number of its members, until some are miscounted.
SizeOk == kind = "set" /\ ~miscounted => Size = Cardinality(sub)

DataInv == KeyOk /\ SubOk /\ FieldsOk /\ SizeOk

Table(f, D, R) == f \in [DOMAIN f -> R] /\ DOMAIN f \subseteq D

\* Scores are filed under members and members under scores.
ScoresOk == Table(scoreOf, Elems, Nat) /\ Table(memberAt, Nat, Elems)

TimeOk == now \in Int /\ (Has(expireAt) => expireAt[1] \in Int)

RInv == ClientInv /\ DataInv /\ ScoresOk /\ TimeOk

-----------------------------------------------------------------------------
(* The clients.                                                             *)

\* An option that is there holds its value.
LEMMA Options ==
    /\ ~Has(Absent)
    /\ \A v : Has(Some(v)) /\ Some(v)[1] = v
BY DEF Has, Absent, Some

\* The commands of each type.
LEMMA OpsOfKind ==
    /\ Ops["string"] = {"set", "get", "incr", "decr"}
    /\ Ops["hash"] = {"hset", "hget", "hdel"}
    /\ Ops["list"] = {"lpush", "rpush", "lpop", "rpop", "llen"}
    /\ Ops["set"] = {"sadd", "srem", "scard"}
    /\ Ops["zset"] = {"zadd", "zrem", "zincrby", "zcard"}
    /\ DOMAIN Ops = {"string", "hash", "list", "set", "zset"}
BY DEF Ops

\* The type of the key of a command that is under way.
LEMMA KindOf ==
    ASSUME ClientInv, NEW c \in Clients, cl[c].pc # "idle"
    PROVE  /\ cl[c].op \in {"set", "get", "incr", "decr"} => kind = "string"
           /\ cl[c].op \in {"hset", "hget", "hdel"} => kind = "hash"
           /\ cl[c].op \in {"lpush", "rpush", "lpop", "rpop", "llen"} => kind = "list"
           /\ cl[c].op \in {"sadd", "srem", "scard"} => kind = "set"
           /\ cl[c].op \in {"zadd", "zrem", "zincrby", "zcard"} => kind = "zset"
<1>1. kind \in {"string", "hash", "list", "set", "zset"}
  BY RedisAssumption DEF ClientInv
<1>2. cl[c].op \in Ops[kind] \cup {"del", "expire", "ttl"}
  BY DEF ClientInv
<1> QED
  BY <1>1, <1>2, OpsOfKind

\* Sequences of a bounded length are sequences.
LEMMA ListOf ==
    ASSUME NEW S, NEW s \in SeqOf(S, MaxArgs)
    PROVE  s \in Seq(S)
<1>1. PICK m \in 0..MaxArgs : s \in [1..m -> S]
  BY DEF SeqOf
<1>2. m \in Nat
  BY RedisAssumption
<1> QED
  BY <1>1, <1>2

\* The arguments of a command that is under way.
LEMMA ArgsOf ==
    ASSUME ClientInv, NEW c \in Clients, cl[c].pc # "idle"
    PROVE  /\ cl[c].op = "hset" =>
                cl[c].arg \subseteq Elems /\ cl[c].arg # {} /\ IsFiniteSet(cl[c].arg)
           /\ cl[c].op \in {"sadd", "srem"} => cl[c].arg \in Seq(Elems)
           /\ cl[c].op = "zadd" => cl[c].arg \in Seq(Elems \X Scores)
           /\ cl[c].op \in {"hdel", "lpush", "rpush", "zincrby"} =>
                \E e \in Elems : cl[c].arg = {e}
<1>1. cl[c].arg \in Args(cl[c].op)
  BY DEF ClientInv
<1>2. ASSUME cl[c].op = "hset"
      PROVE  cl[c].arg \subseteq Elems /\ cl[c].arg # {} /\ IsFiniteSet(cl[c].arg)
  <2>1. cl[c].arg \in (SUBSET Elems) \ {{}}
    BY <1>1, <1>2 DEF Args
  <2>2. IsFiniteSet(Elems)
    BY RedisAssumption
  <2> QED
    BY <2>1, <2>2, FS_Subset
<1>3. cl[c].op \in {"sadd", "srem"} => cl[c].arg \in Seq(Elems)
  BY <1>1, ListOf DEF Args
<1>4. cl[c].op = "zadd" => cl[c].arg \in Seq(Elems \X Scores)
  BY <1>1, ListOf DEF Args
<1>5. cl[c].op \in {"hdel", "lpush", "rpush", "zincrby"} => \E e \in Elems : cl[c].arg = {e}
  BY <1>1 DEF Args
<1> QED
  BY <1>2, <1>3, <1>4, <1>5

\* Goto and Return keep a client's command and move it on.
LEMMA ClientMoves ==
    ASSUME ClientInv, NEW c \in Clients, cl[c].pc # "idle", NEW pc \in Pcs, UNCHANGED kind,
           Goto(c, pc) \/ (pc = "idle" /\ Return(c)),
           readers' = IF pc \in Locked THEN readers \cup {c} ELSE readers \ {c}
    PROVE  ClientInv'
<1>1. cl \in [Clients -> ClientStates] /\ kind \in Kinds
  BY DEF ClientInv
<1>2. Idle \in ClientStates /\ Idle.pc = "idle"
  <2>1. "none" \in OpNames /\ "idle" \in Pcs /\ {} \in Arguments
    BY DEF OpNames, Pcs, Arguments
  <2> QED
    BY <2>1 DEF Idle, ClientStates
<1>3. /\ cl' \in [Clients -> ClientStates] /\ cl'[c].pc = pc
      /\ \A u \in Clients : u # c => cl'[u] = cl[u]
      /\ pc # "idle" => cl'[c].op = cl[c].op /\ cl'[c].arg = cl[c].arg
  <2>1. CASE Goto(c, pc)
    <3>1. cl' = [cl EXCEPT ![c].pc = pc]
      BY <2>1 DEF Goto
    <3> QED
      BY <1>1, <3>1 DEF ClientStates
  <2>2. CASE pc = "idle" /\ Return(c)
    <3>1. cl' = [cl EXCEPT ![c] = Idle]
      BY <2>2 DEF Return
    <3> QED
      BY <1>1, <1>2, <2>2, <3>1
  <2> QED
    BY <2>1, <2>2
<1>4. readers' = {u \in Clients : cl'[u].pc \in Locked}
  BY <1>3 DEF ClientInv
<1>5. ASSUME NEW u \in Clients, cl'[u].pc # "idle"
      PROVE  cl'[u].op \in Ops[kind] \cup {"del", "expire", "ttl"} /\ cl'[u].arg \in Args(cl'[u].op)
  BY <1>3, <1>5 DEF ClientInv
<1> QED
  BY <1>1, <1>3, <1>4, <1>5 DEF ClientInv

\* A new command is of the key's type, with arguments of its own.
LEMMA InvokeStep ==
    ASSUME ClientInv, NEW c \in Clients, NEW op \in Ops[kind] \cup {"del", "expire", "ttl"},
           NEW arg \in Args(op), Invoke(c, op, arg)
    PROVE  ClientInv'
<1>1. /\ cl[c].pc = "idle" /\ UNCHANGED <<kind, readers>>
      /\ cl' = [cl EXCEPT ![c] = [op |-> op, arg |-> arg,
                                  pc |-> IF op \in Direct THEN "write" ELSE "check"]]
  BY DEF Invoke
<1> DEFINE pc == IF op \in Direct THEN "write" ELSE "check"
<1>2. cl \in [Clients -> ClientStates] /\ kind \in DOMAIN Ops
  BY RedisAssumption, OpsOfKind DEF ClientInv
<1>3. op \in OpNames
  <2>1. kind \in {"string", "hash", "list", "set", "zset"}
    BY <1>2, OpsOfKind
  <2> QED
    BY <2>1, OpsOfKind DEF OpNames
<1>4. arg \in Arguments
  <2>1. CASE op \in {"hset", "zrem"}
    BY <2>1 DEF Args, Arguments
  <2>2. CASE op \in {"sadd", "srem"}
    <3>1. arg \in SeqOf(Elems, MaxArgs)
      BY <2>2 DEF Args
    <3> QED
      BY <3>1, ListOf DEF Arguments
  <2>3. CASE op = "zadd"
    <3>1. arg \in SeqOf(Elems \X Scores, MaxArgs)
      BY <2>3 DEF Args
    <3> QED
      BY <3>1, ListOf DEF Arguments
  <2>4. CASE op \in {"hdel", "lpush", "rpush", "zincrby"}
    <3>1. arg \in SUBSET Elems
      BY <2>4 DEF Args
    <3> QED
      BY <3>1 DEF Arguments
  <2>5. CASE op \notin {"hset", "sadd", "srem", "zrem", "zadd", "hdel", "lpush", "rpush",
                        "zincrby"}
    <3>1. arg = {}
      BY <2>5 DEF Args
    <3> QED
      BY <3>1 DEF Arguments
  <2> QED
    BY <2>1, <2>2, <2>3, <2>4, <2>5
<1>5. pc \in {"write", "check"}
  OBVIOUS
<1> HIDE DEF pc
<1>6. [op |-> op, arg |-> arg, pc |-> pc] \in ClientStates
  BY <1>3, <1>4, <1>5 DEF ClientStates, Pcs
<1>7. /\ cl' \in [Clients -> ClientStates]
      /\ cl'[c].op = op /\ cl'[c].arg = arg /\ cl'[c].pc = pc
      /\ \A u \in Clients : u # c => cl'[u] = cl[u]
  BY <1>1, <1>2, <1>6 DEF pc
<1>8. readers' = {u \in Clients : cl'[u].pc \in Locked}
  BY <1>1, <1>5, <1>7 DEF ClientInv, Locked
<1>9. ASSUME NEW u \in Clients, cl'[u].pc # "idle"
      PROVE  cl'[u].op \in Ops[kind] \cup {"del", "expire", "ttl"} /\ cl'[u].arg \in Args(cl'[u].op)
  BY <1>7, <1>9 DEF ClientInv
<1> QED
  BY <1>1, <1>7, <1>8, <1>9 DEF ClientInv

\* Check and Unlock take and give back the shared lock.
LEMMA CheckStep ==
    ASSUME ClientInv, NEW c \in Clients, Check(c) \/ Unlock(c)
    PROVE  ClientInv' /\ UNCHANGED <<kind, key, sub, expireAt, scoreOf, memberAt, now, miscounted>>
<1>1. CASE Check(c)
  <2>1. /\ cl[c].pc = "check" /\ readers' = readers \cup {c}
        /\ Goto(c, Verdict(cl[c].op))
        /\ UNCHANGED <<kind, key, sub, expireAt, scoreOf, memberAt, now, miscounted>>
    BY <1>1 DEF Check, records, zset
  <2>2. Verdict(cl[c].op) \in Locked /\ Verdict(cl[c].op) \in Pcs
    BY DEF Verdict, Locked, Pcs
  <2> QED
    BY <2>1, <2>2, ClientMoves
<1>2. CASE Unlock(c)
  <2>1. /\ cl[c].pc \in Locked /\ readers' = readers \ {c}
        /\ UNCHANGED <<kind, key, sub, expireAt, scoreOf, memberAt, now, miscounted>>
    BY <1>2 DEF Unlock, Released, records, zset, Locked
  <2>2. Goto(c, "clean") \/ Goto(c, "tidy") \/ Goto(c, "write") \/ Return(c)
    BY <1>2 DEF Unlock
  <2>3. \A pc \in {"clean", "tidy", "write", "idle"} : pc \in Pcs /\ pc \notin Locked
    BY DEF Pcs, Locked
  <2>4. cl[c].pc # "idle"
    BY <2>1 DEF Locked
  <2>5. ASSUME NEW pc \in {"clean", "tidy", "write"}, Goto(c, pc) PROVE ClientInv'
    BY <2>1, <2>3, <2>4, <2>5, ClientMoves
  <2>6. ASSUME Return(c) PROVE ClientInv'
    BY <2>1, <2>3, <2>4, <2>6, ClientMoves
  <2> QED
    BY <2>1, <2>2, <2>5, <2>6
<1> QED
  BY <1>1, <1>2

\* A section under the exclusive lock ends the command.
LEMMA WriteEnds ==
    ASSUME ClientInv, NEW c \in Clients, NEW ops, Writes(c, ops), UNCHANGED <<kind, readers>>
    PROVE  ClientInv' /\ cl[c].pc # "idle" /\ cl[c].op \in ops
<1>1. cl[c].pc = "write" /\ cl[c].op \in ops /\ readers = {} /\ Return(c)
  BY DEF Writes, At, Exclusive
<1>2. readers' = readers \ {c} /\ "idle" \notin Locked /\ "idle" \in Pcs
  BY <1>1 DEF Locked, Pcs
<1> QED
  BY <1>1, <1>2, ClientMoves

\* So do the clean-ups, unless the command goes on to write.
LEMMA CleanEnds ==
    ASSUME ClientInv, NEW c \in Clients, Clean(c) \/ TidyExpire(c)
    PROVE  ClientInv'
<1>1. /\ cl[c].pc # "idle" /\ readers = {} /\ UNCHANGED <<kind, readers>>
      /\ Goto(c, "write") \/ Return(c)
  BY DEF Clean, TidyExpire, Exclusive
<1>2. readers' = readers \ {c} /\ \A pc \in {"idle", "write"} : pc \notin Locked /\ pc \in Pcs
  BY <1>1 DEF Locked, Pcs
<1>3. ASSUME Goto(c, "write") PROVE ClientInv'
  BY <1>1, <1>2, <1>3, ClientMoves
<1>4. ASSUME Return(c) PROVE ClientInv'
  BY <1>1, <1>2, <1>4, ClientMoves
<1> QED
  BY <1>1, <1>3, <1>4

-----------------------------------------------------------------------------
(* Lists without repetitions.                                               *)

\* SetToSeq lists every element once.
LEMMA SetToSeqFacts ==
    ASSUME NEW S, IsFiniteSet(S)
    PROVE  /\ SetToSeq(S) \in Seq(S) /\ Len(SetToSeq(S)) = Cardinality(S)
           /\ Distinct(SetToSeq(S)) /\ ToSet(SetToSeq(S)) = S
<1> DEFINE n == Cardinality(S)
           f == SetToSeq(S)
<1>1. n \in Nat /\ ExistsBijection(1..n, S)
  BY FS_CardinalityType
<1>2. \E g \in [1..n -> S] : IsInjective(g)
  BY <1>1 DEF ExistsBijection, Bijection, Injection
<1>3. f \in [1..n -> S] /\ IsInjective(f)
  BY <1>2 DEF SetToSeq
<1> HIDE DEF n, f
<1>4. f \in Seq(S) /\ Len(f) = n /\ DOMAIN f = 1..n
  BY <1>1, <1>3
<1>5. Distinct(f)
  BY <1>3, <1>4 DEF Distinct, IsInjective
<1>6. ToSet(f) = S
  <2> DEFINE T == ToSet(f)
  <2>1. T = {f[i] : i \in 1..n}
    BY <1>4 DEF ToSet
  <2> HIDE DEF T
  <2>2. T \in SUBSET S
    BY <1>3, <2>1
  <2>3. ExistsBijection(1..n, T)
    <3>1. f \in [1..n -> T]
      BY <1>3, <2>1
    <3>2. \A x \in T : \E i \in 1..n : f[i] = x
      BY <2>1
    <3> QED
      BY <1>3, <3>1, <3>2 DEF ExistsBijection, Bijection, Injection, Surjection
  <2>4. Cardinality(T) = n
    BY <1>1, <2>3, FS_CountingElements
  <2>5. S = T
    BY <2>2, <2>4, FS_Subset DEF n
  <2> QED
    BY <2>5 DEF T
<1> QED
  BY <1>4, <1>5, <1>6 DEF n, f

\* Two lists that share nothing, joined.
LEMMA JoinDistinct ==
    ASSUME NEW S, NEW s \in Seq(S), NEW u \in Seq(S), Distinct(s), Distinct(u),
           ToSet(s) \cap ToSet(u) = {}
    PROVE  Distinct(s \o u) /\ ToSet(s \o u) = ToSet(s) \cup ToSet(u)
<1> DEFINE r == s \o u
<1>1. r \in Seq(S) /\ Len(r) = Len(s) + Len(u)
  BY ConcatFacts
<1>2. /\ Len(s) \in Nat /\ DOMAIN s = 1..Len(s) /\ Len(u) \in Nat /\ DOMAIN u = 1..Len(u)
  BY SeqBasics
<1>3. DOMAIN r = 1..(Len(s) + Len(u))
  BY <1>1, SeqBasics
<1>4. \A i \in DOMAIN u : r[Len(s) + i] = u[i]
  BY ConcatFacts
<1>5. \A i \in DOMAIN s : r[i] = s[i]
  BY ConcatFacts
<1> HIDE DEF r
<1>6. ASSUME NEW i \in DOMAIN r
      PROVE  \/ i \in DOMAIN s /\ r[i] = s[i] /\ r[i] \in ToSet(s)
             \/ i - Len(s) \in DOMAIN u /\ r[i] = u[i - Len(s)] /\ r[i] \in ToSet(u)
  <2>1. CASE i <= Len(s)
    <3>1. i \in DOMAIN s
      BY <1>2, <1>3, <2>1
    <3> QED
      BY <1>5, <3>1 DEF ToSet
  <2>2. CASE ~(i <= Len(s))
    <3>1. i - Len(s) \in DOMAIN u /\ Len(s) + (i - Len(s)) = i
      BY <1>2, <1>3, <2>2
    <3>2. r[i] = u[i - Len(s)]
      BY <1>4, <3>1
    <3> QED
      BY <3>1, <3>2 DEF ToSet
  <2> QED
    BY <2>1, <2>2
<1>7. ASSUME NEW i \in DOMAIN r, NEW j \in DOMAIN r, r[i] = r[j] PROVE i = j
  <2>1. CASE i \in DOMAIN s /\ r[i] = s[i] /\ j \in DOMAIN s /\ r[j] = s[j]
    BY <1>7, <2>1 DEF Distinct
  <2>2. CASE /\ i - Len(s) \in DOMAIN u /\ r[i] = u[i - Len(s)]
             /\ j - Len(s) \in DOMAIN u /\ r[j] = u[j - Len(s)]
    <3>1. i - Len(s) = j - Len(s)
      BY <1>7, <2>2 DEF Distinct
    <3> QED
      BY <1>2, <1>3, <3>1
  <2> QED
    BY <1>6, <1>7, <2>1, <2>2
<1>8. ToSet(r) \subseteq ToSet(s) \cup ToSet(u)
  BY <1>6 DEF ToSet
<1>9. \A i \in DOMAIN s : s[i] \in ToSet(r)
  BY <1>2, <1>3, <1>5 DEF ToSet
<1>10. ASSUME NEW i \in DOMAIN u PROVE u[i] \in ToSet(r)
  <2>1. Len(s) + i \in DOMAIN r
    BY <1>2, <1>3
  <2> QED
    BY <1>4, <2>1 DEF ToSet
<1>11. ToSet(s) \cup ToSet(u) \subseteq ToSet(r)
  BY <1>9, <1>10 DEF ToSet
<1> QED
  BY <1>7, <1>8, <1>11 DEF Distinct, r

\* A list without one of its elements.
LEMMA RemovedFacts ==
    ASSUME NEW S, NEW s \in Seq(S), Distinct(s), NEW p \in DOMAIN s
    PROVE  /\ RemoveAt(s, p) \in Seq(S) /\ Distinct(RemoveAt(s, p))
           /\ ToSet(RemoveAt(s, p)) = ToSet(s) \ {s[p]}
<1> DEFINE t == RemoveAt(s, p)
           f == [i \in DOMAIN t |-> IF i < p THEN i ELSE i + 1]
<1>1. /\ t \in Seq(S) /\ Len(t) = Len(s) - 1
      /\ \A i \in DOMAIN t : t[i] = IF i < p THEN s[i] ELSE s[i + 1]
  BY RemoveAtFacts
<1>2. /\ Len(s) \in Nat /\ DOMAIN s = 1..Len(s) /\ DOMAIN t = 1..(Len(s) - 1)
      /\ p \in 1..Len(s)
  BY <1>1, SeqBasics
<1> HIDE DEF t
<1>3. \A i \in DOMAIN t : f[i] \in DOMAIN s /\ f[i] # p
  BY <1>2
<1>4. \A i, j \in DOMAIN t : f[i] = f[j] => i = j
  BY <1>2
<1>5. \A i \in DOMAIN t : t[i] = s[f[i]]
  BY <1>1
<1>6. \A j \in DOMAIN s : j # p => \E i \in DOMAIN t : f[i] = j
  <2> SUFFICES ASSUME NEW j \in DOMAIN s, j # p PROVE \E i \in DOMAIN t : f[i] = j
    OBVIOUS
  <2>1. CASE j < p
    BY <1>2, <2>1
  <2>2. CASE ~(j < p)
    <3>1. j - 1 \in DOMAIN t /\ ~(j - 1 < p) /\ (j - 1) + 1 = j
      BY <1>2, <2>2
    <3>2. f[j - 1] = (j - 1) + 1
      BY <3>1
    <3> QED
      BY <3>1, <3>2
  <2> QED
    BY <2>1, <2>2
<1> HIDE DEF f
<1>7. Distinct(t)
  BY <1>3, <1>4, <1>5 DEF Distinct
<1>8. ToSet(t) = ToSet(s) \ {s[p]}
  BY <1>3, <1>5, <1>6 DEF ToSet, Distinct
<1> QED
  BY <1>1, <1>7, <1>8 DEF t

-----------------------------------------------------------------------------
(* The records of the key, its fields and its members.                      *)

\* What is not written stays as it is.
LEMMA SameData ==
    ASSUME DataInv, UNCHANGED <<kind, key, sub, miscounted>>
    PROVE  DataInv'
BY DEF DataInv, KeyOk, SubOk, FieldsOk, SizeOk, Stored, Size

\* The list of a hash or of a list.
LEMMA StoredFacts ==
    ASSUME DataInv
    PROVE  /\ kind \in {"hash", "list"} => Stored \in Seq(Elems)
           /\ Stored = <<>> => ToSet(Stored) = {}
           /\ kind \in {"hash", "list"} => (Has(key) <=> Stored # <<>>)
<1>1. <<>> \in Seq(Elems) /\ ToSet(<<>>) = {}
  BY DEF ToSet
<1>2. CASE Has(key)
  <2>1. Stored = key[1]
    BY <1>2 DEF Stored
  <2>2. kind \in {"hash", "list"} => key[1] \in Seq(Elems) /\ key[1] # <<>>
    BY <1>2 DEF DataInv, KeyOk
  <2> QED
    BY <1>1, <1>2, <2>1, <2>2
<1>3. CASE ~Has(key)
  <2>1. Stored = <<>>
    BY <1>3 DEF Stored
  <2> QED
    BY <1>1, <1>3, <2>1
<1> QED
  BY <1>2, <1>3

\* A key of a hash that holds the fields it lists.
LEMMA HashData ==
    ASSUME NEW list \in Seq(Elems), Distinct(list), kind' = "hash", sub' \subseteq Elems,
           ToSet(list) = sub',
           (list = <<>> /\ key' = Absent) \/ (list # <<>> /\ key' = Some(list))
    PROVE  DataInv'
<1>1. Stored' = list /\ (Has(key') => key'[1] = list /\ list # <<>>)
  BY Options DEF Stored
<1>2. KeyOk'
  BY <1>1 DEF KeyOk
<1>3. FieldsOk'
  BY <1>1 DEF FieldsOk
<1> QED
  BY <1>2, <1>3 DEF DataInv, SubOk, SizeOk

\* A key without a record, of a type without fields or members.
LEMMA NoData ==
    ASSUME key' = Absent, sub' = {}
    PROVE  DataInv'
<1>1. ~Has(key') /\ Stored' = <<>> /\ Size' = 0
  BY Options DEF Stored, Size
<1>2. Distinct(<<>>) /\ ToSet(<<>>) = {} /\ Cardinality({}) = 0
  BY FS_EmptySet DEF Distinct, ToSet
<1>3. KeyOk' /\ SubOk'
  BY <1>1 DEF KeyOk, SubOk
<1>4. FieldsOk' /\ SizeOk'
  BY <1>1, <1>2 DEF FieldsOk, SizeOk
<1> QED
  BY <1>3, <1>4 DEF DataInv

\* expire_hash_clean, expire_list_clean and expire_set_clean leave nothing.
LEMMA CleanData ==
    ASSUME ClientInv, DataInv, NEW c \in Clients, Clean(c)
    PROVE  DataInv'
<1>1. key' = Absent /\ sub' = SubCleaned
  BY DEF Clean
<1>2. sub' = {}
  <2>1. CASE kind = "hash"
    <3>1. ToSet(Stored) = sub /\ (~Has(key) => sub = {})
      BY <2>1, StoredFacts DEF DataInv, FieldsOk
    <3> QED
      BY <1>1, <2>1, <3>1 DEF SubCleaned, Stored
  <2>2. CASE kind = "set"
    BY <1>1, <2>2 DEF SubCleaned
  <2>3. CASE kind \notin {"hash", "set"}
    BY <1>1, <2>3 DEF SubCleaned, DataInv, SubOk
  <2> QED
    BY <2>1, <2>2, <2>3
<1> QED
  BY <1>1, <1>2, NoData

\* DEL takes the fields of a hash along, and leaves the members of a set.
LEMMA DelData ==
    ASSUME DataInv, NEW c \in Clients, RedisDel(c)
    PROVE  DataInv'
<1>1. /\ key' = Absent /\ kind' = kind
      /\ sub' = IF kind = "hash" /\ Has(key) THEN sub \ ToSet(key[1]) ELSE sub
      /\ miscounted' = (miscounted \/ (kind = "set" /\ sub # {}))
  BY DEF RedisDel
<1>2. CASE kind = "hash"
  <2>1. ToSet(Stored) = sub /\ (~Has(key) => sub = {})
    BY <1>2, StoredFacts DEF DataInv, FieldsOk
  <2>2. sub' = {}
    BY <1>1, <1>2, <2>1 DEF Stored
  <2> QED
    BY <1>1, <2>2, NoData
<1>3. CASE kind = "set"
  <2>1. ~Has(key') /\ Size' = 0 /\ sub' = sub
    BY <1>1, <1>3, Options DEF Size
  <2>2. ~miscounted' => sub = {}
    BY <1>1, <1>3
  <2>3. SizeOk'
    BY <1>1, <1>3, <2>1, <2>2, FS_EmptySet DEF SizeOk
  <2>4. KeyOk' /\ SubOk' /\ FieldsOk'
    BY <1>1, <1>3, <2>1 DEF KeyOk, SubOk, FieldsOk, DataInv
  <2> QED
    BY <2>3, <2>4 DEF DataInv
<1>4. CASE kind \notin {"hash", "set"}
  <2>1. sub' = {}
    BY <1>1, <1>4 DEF DataInv, SubOk
  <2> QED
    BY <1>1, <2>1, NoData
<1> QED
  BY <1>2, <1>3, <1>4

\* SET, INCR and DECR write a number.
LEMMA StringData ==
    ASSUME ClientInv, DataInv, NEW c \in Clients,
           RedisSet(c) \/ RedisIncr(c) \/ RedisDecr(c)
    PROVE  DataInv'
<1>1. /\ Writes(c, {"set"}) \/ Writes(c, {"incr"}) \/ Writes(c, {"decr"})
      /\ UNCHANGED <<kind, sub, miscounted, readers>>
      /\ \/ key' = Some(0) \/ key' = Some(1) \/ key' = Some(-1)
         \/ Has(key) /\ (key' = Some(key[1] + 1) \/ key' = Some(key[1] - 1))
  BY DEF RedisSet, RedisIncr, RedisDecr
<1>2. kind = "string"
  <2>1. cl[c].pc # "idle" /\ cl[c].op \in {"set", "incr", "decr"}
    BY <1>1, WriteEnds
  <2> QED
    BY <2>1, KindOf
<1>3. Has(key) => key[1] \in Int
  BY <1>2 DEF DataInv, KeyOk
<1>4. PICK n \in Int : key' = Some(n)
  <2>1. Has(key) => key[1] + 1 \in Int /\ key[1] - 1 \in Int
    BY <1>3
  <2>2. 0 \in Int /\ 1 \in Int /\ -1 \in Int
    OBVIOUS
  <2> QED
    BY <1>1, <2>1, <2>2
<1>5. KeyOk'
  BY <1>1, <1>2, <1>4, Options DEF KeyOk
<1> QED
  BY <1>1, <1>2, <1>5 DEF DataInv, SubOk, FieldsOk, SizeOk

\* redis_hset_batch lists the fields that are new, and writes all.
LEMMA HsetData ==
    ASSUME ClientInv, DataInv, NEW c \in Clients, HsetBatch(c)
    PROVE  DataInv'
<1>1. /\ Writes(c, {"hset"}) /\ UNCHANGED <<kind, readers>>
      /\ sub' = sub \cup cl[c].arg /\ key' = Some(Appended(Stored, cl[c].arg))
  BY DEF HsetBatch
<1>2. cl[c].pc # "idle" /\ cl[c].op = "hset"
  BY <1>1, WriteEnds
<1>3. kind = "hash" /\ cl[c].arg \subseteq Elems /\ cl[c].arg # {} /\ IsFiniteSet(cl[c].arg)
  BY <1>2, KindOf, ArgsOf
<1>4. Stored \in Seq(Elems) /\ Distinct(Stored) /\ ToSet(Stored) = sub /\ sub \subseteq Elems
  BY <1>3, StoredFacts DEF DataInv, FieldsOk, SubOk
<1> DEFINE new == cl[c].arg \ ToSet(Stored)
           seq == SetToSeq(new)
           list == Stored \o seq
<1>5. IsFiniteSet(new) /\ new \subseteq Elems
  BY <1>3, FS_Difference
<1>6. seq \in Seq(new) /\ Distinct(seq) /\ ToSet(seq) = new
  <2> HIDE DEF new
  <2> QED
    BY <1>5, SetToSeqFacts
<1> HIDE DEF seq
<1>7. seq \in Seq(Elems)
  <2> HIDE DEF new
  <2>1. Len(seq) \in Nat /\ DOMAIN seq = 1..Len(seq) /\ \A i \in 1..Len(seq) : seq[i] \in Elems
    BY <1>5, <1>6, SeqBasics
  <2> QED
    BY <1>6, <2>1
<1>8. list \in Seq(Elems) /\ Distinct(list) /\ ToSet(list) = sub \cup cl[c].arg
  <2>1. ToSet(Stored) \cap ToSet(seq) = {} /\ ToSet(Stored) \cup ToSet(seq) = sub \cup cl[c].arg
    BY <1>4, <1>6
  <2>2. Distinct(list) /\ ToSet(list) = ToSet(Stored) \cup ToSet(seq)
    BY <1>4, <1>6, <1>7, <2>1, JoinDistinct
  <2>3. list \in Seq(Elems)
    BY <1>4, <1>7, ConcatFacts
  <2> QED
    BY <2>1, <2>2, <2>3
<1>9. Appended(Stored, cl[c].arg) = list
  BY DEF Appended, seq
<1> HIDE DEF list
<1>10. list # <<>>
  BY <1>3, <1>8 DEF ToSet
<1> QED
  BY <1>1, <1>3, <1>4, <1>8, <1>9, <1>10, HashData

\* redis_hdel removes the field and its place in the list, and the list's
\* record with its last field.
LEMMA HdelData ==
    ASSUME ClientInv, DataInv, NEW c \in Clients, Hdel(c)
    PROVE  DataInv'
<1> DEFINE found == {i \in DOMAIN Stored : Stored[i] \in cl[c].arg}
           p == Min(found)
           rest == RemoveAt(Stored, p)
<1>1. /\ Writes(c, {"hdel"}) /\ UNCHANGED <<kind, readers, miscounted>>
      /\ sub' = sub \ cl[c].arg
      /\ key' = IF found = {} THEN key ELSE IF rest = <<>> THEN Absent ELSE Some(rest)
  BY DEF Hdel
<1>2. cl[c].pc # "idle" /\ cl[c].op = "hdel"
  BY <1>1, WriteEnds
<1>3. kind = "hash" /\ \E e \in Elems : cl[c].arg = {e}
  BY <1>2, KindOf, ArgsOf
<1>4. PICK e \in Elems : cl[c].arg = {e}
  BY <1>3
<1>5. Stored \in Seq(Elems) /\ Distinct(Stored) /\ ToSet(Stored) = sub /\ sub \subseteq Elems
  BY <1>3, StoredFacts DEF DataInv, FieldsOk, SubOk
<1>6. CASE found = {}
  <2>1. e \notin ToSet(Stored)
    BY <1>4, <1>6 DEF ToSet
  <2>2. sub' = sub /\ key' = key
    BY <1>1, <1>4, <1>5, <1>6, <2>1
  <2> QED
    BY <1>1, <2>2, SameData
<1>7. CASE found # {}
  <2>1. found \subseteq Nat
    BY <1>5, SeqBasics
  <2>2. p \in found
    <3> HIDE DEF found
    <3> QED
      BY <1>7, <2>1, MinNat
  <2>3. p \in DOMAIN Stored /\ Stored[p] = e
    BY <1>4, <2>2
  <2> HIDE DEF p
  <2>4. rest \in Seq(Elems) /\ Distinct(rest) /\ ToSet(rest) = sub \ {e}
    BY <1>5, <2>3, RemovedFacts
  <2> HIDE DEF rest, found
  <2>5. (rest = <<>> /\ key' = Absent) \/ (rest # <<>> /\ key' = Some(rest))
    BY <1>1, <1>7
  <2> QED
    BY <1>1, <1>3, <1>4, <1>5, <2>4, <2>5, HashData
<1> QED
  BY <1>6, <1>7

\* A list that is not empty is stored.
LEMMA ListData ==
    ASSUME NEW list \in Seq(Elems), list # <<>>, kind' = "list", key' = Some(list), sub' = {}
    PROVE  DataInv'
<1>1. Has(key') /\ key'[1] = list
  BY Options
<1> QED
  BY <1>1 DEF DataInv, KeyOk, SubOk, FieldsOk, SizeOk

\* LPUSH and RPUSH add an element at an end, LPOP and RPOP take one away.
LEMMA PushPopData ==
    ASSUME ClientInv, DataInv, NEW c \in Clients, Push(c) \/ Pop(c)
    PROVE  DataInv'
<1>1. /\ Writes(c, {"lpush", "rpush"}) \/ Writes(c, {"lpop", "rpop"})
      /\ UNCHANGED <<kind, readers, sub, miscounted>>
  BY DEF Push, Pop
<1>2. cl[c].pc # "idle" /\ cl[c].op \in {"lpush", "rpush", "lpop", "rpop"}
  BY <1>1, WriteEnds
<1>3. kind = "list"
  BY <1>2, KindOf
<1>4. Stored \in Seq(Elems) /\ sub = {}
  BY <1>3, StoredFacts DEF DataInv, SubOk
<1>5. CASE Push(c)
  <2>1. cl[c].op \in {"lpush", "rpush"}
    BY <1>5 DEF Push, Writes, At
  <2>2. PICK e \in Elems : cl[c].arg = {e}
    BY <1>2, <2>1, ArgsOf
  <2> DEFINE new == SetToSeq({e})
  <2>3. new \in Seq({e}) /\ Len(new) = 1
    BY FS_Singleton, SetToSeqFacts
  <2>4. new = <<e>>
    <3> HIDE DEF new
    <3>1. DOMAIN new = 1..1 /\ new[1] = e
      BY <2>3, SeqBasics
    <3> QED
      BY <2>3, <3>1
  <2>5. key' = Some(<<e>> \o Stored) \/ key' = Some(Stored \o <<e>>)
    BY <1>5, <2>2, <2>4 DEF Push
  <2>6. <<e>> \in Seq(Elems) /\ Len(<<e>>) = 1 /\ Len(Stored) \in Nat
    BY <1>4, SeqBasics
  <2>7. ASSUME NEW list \in Seq(Elems), Len(list) = Len(Stored) + 1 PROVE list # <<>>
    BY <2>6, <2>7
  <2>8. /\ <<e>> \o Stored \in Seq(Elems) /\ Len(<<e>> \o Stored) = Len(Stored) + 1
        /\ Stored \o <<e>> \in Seq(Elems) /\ Len(Stored \o <<e>>) = Len(Stored) + 1
    BY <1>4, <2>6, PushFacts, ConcatFacts
  <2> QED
    BY <1>1, <1>3, <1>4, <2>5, <2>7, <2>8, ListData
<1>6. CASE Pop(c)
  <2> DEFINE rest == IF cl[c].op = "lpop" THEN Tail(Stored) ELSE Front(Stored)
  <2>1. key' = IF Len(Stored) <= 1 THEN Absent ELSE Some(rest)
    BY <1>6 DEF Pop
  <2>2. CASE Len(Stored) <= 1
    BY <1>1, <1>4, <2>1, <2>2, NoData
  <2>3. CASE ~(Len(Stored) <= 1)
    <3>1. Len(Stored) \in Nat /\ Stored # <<>>
      BY <1>4, <2>3, SeqBasics
    <3>2. rest \in Seq(Elems) /\ Len(rest) = Len(Stored) - 1
      BY <1>4, <3>1, EndFacts
    <3> HIDE DEF rest
    <3>3. rest # <<>>
      BY <2>3, <3>1, <3>2
    <3> QED
      BY <1>1, <1>3, <1>4, <2>1, <2>3, <3>2, <3>3, ListData
  <2> QED
    BY <2>2, <2>3
<1> QED
  BY <1>5, <1>6

\* The places of a list where members of S are named: as many as such members,
\* if none is named twice.
LEMMA NamedOnce ==
    ASSUME NEW S, NEW T, NEW list \in Seq(T)
    PROVE  LET at == {i \in DOMAIN list : list[i] \in S} IN
           /\ Cardinality(at) \in Nat
           /\ ~Twice(list, S) => Cardinality(at) = Cardinality(ToSet(list) \cap S)
<1> DEFINE at == {i \in DOMAIN list : list[i] \in S}
           named == ToSet(list) \cap S
           f == [i \in at |-> list[i]]
<1>1. IsFiniteSet(at)
  <2>1. Len(list) \in Int /\ 1 \in Int /\ at \subseteq 1..Len(list)
    BY SeqBasics
  <2> QED
    BY <2>1, FS_Interval, FS_Subset
<1>2. Cardinality(at) \in Nat
  BY <1>1, FS_CardinalityType
<1>3. ASSUME ~Twice(list, S) PROVE Cardinality(at) = Cardinality(named)
  <2>1. f \in [at -> named]
    BY DEF ToSet
  <2>2. \A i, j \in at : f[i] = f[j] => i = j
    BY <1>3 DEF Twice
  <2>3. \A x \in named : \E i \in at : f[i] = x
    BY DEF ToSet
  <2> HIDE DEF at, named, f
  <2>4. f \in Bijection(at, named)
    BY <2>1, <2>2, <2>3 DEF Bijection, Injection, Surjection, IsInjective
  <2> QED
    BY <1>1, <2>4, FS_Bijection DEF ExistsBijection
<1> QED
  BY <1>2, <1>3

\* SADD and SREM change the stored size by the number of members that come and
\* go, if they name these once.
LEMMA SetData ==
    ASSUME ClientInv, DataInv, NEW c \in Clients, Sadd(c) \/ Srem(c)
    PROVE  DataInv'
<1> DEFINE list == cl[c].arg
           arg == ToSet(list)
<1>1. /\ Writes(c, {"sadd"}) \/ Writes(c, {"srem"})
      /\ UNCHANGED <<kind, readers>>
  BY DEF Sadd, Srem
<1>2. cl[c].pc # "idle" /\ cl[c].op \in {"sadd", "srem"}
  BY <1>1, WriteEnds
<1>3. kind = "set" /\ list \in Seq(Elems) /\ arg \subseteq Elems /\ IsFiniteSet(arg)
  <2>1. kind = "set" /\ list \in Seq(Elems)
    BY <1>2, KindOf, ArgsOf
  <2>2. arg \subseteq Elems
    BY <2>1, SeqBasics DEF ToSet
  <2> QED
    BY <2>1, <2>2, RedisAssumption, FS_Subset
<1>4. sub \subseteq Elems /\ IsFiniteSet(sub) /\ IsFiniteSet(Elems)
  <2>1. IsFiniteSet(Elems) /\ sub \subseteq Elems
    BY RedisAssumption DEF DataInv, SubOk
  <2> QED
    BY <2>1, FS_Subset
<1>5. Size \in Int
  BY <1>3 DEF Size, DataInv, KeyOk
<1> HIDE DEF arg
<1>6. /\ IsFiniteSet(arg \ sub) /\ IsFiniteSet(arg \cap sub)
      /\ Cardinality(arg \ sub) \in Nat /\ Cardinality(arg \cap sub) \in Nat
      /\ Cardinality(sub) \in Nat
  <2>1. IsFiniteSet(arg \ sub) /\ IsFiniteSet(arg \cap sub)
    BY <1>3, FS_Difference, FS_Intersection
  <2> QED
    BY <1>4, <2>1, FS_CardinalityType
<1>7. Cardinality(sub \cup arg) = Cardinality(sub) + Cardinality(arg \ sub)
  <2>1. Cardinality(sub \cup (arg \ sub))
          = Cardinality(sub) + Cardinality(arg \ sub) - Cardinality(sub \cap (arg \ sub))
    BY <1>4, <1>6, FS_Union
  <2>2. sub \cup (arg \ sub) = sub \cup arg /\ sub \cap (arg \ sub) = {}
    OBVIOUS
  <2>3. Cardinality(sub \cap (arg \ sub)) = 0
    BY <2>2, FS_EmptySet
  <2>4. Cardinality(sub \cup arg)
          = Cardinality(sub) + Cardinality(arg \ sub) - Cardinality(sub \cap (arg \ sub))
    BY <2>1, <2>2
  <2> QED
    BY <1>6, <2>3, <2>4
<1>8. Cardinality(sub \ arg) = Cardinality(sub) - Cardinality(arg \cap sub)
  <2>1. Cardinality(sub \ arg) = Cardinality(sub) - Cardinality(sub \cap arg)
    BY <1>4, FS_Difference
  <2>2. sub \cap arg = arg \cap sub
    OBVIOUS
  <2> QED
    BY <2>1, <2>2
<1>9. PICK n \in Int : /\ key' = Some(n) /\ sub' \subseteq Elems
                       /\ ~miscounted' /\ Size = Cardinality(sub) => n = Cardinality(sub')
                       /\ ~miscounted' => ~miscounted
  <2>1. CASE Sadd(c)
    <3> DEFINE at == {i \in DOMAIN list : list[i] \notin sub}
               fresh == Elems \ sub
    <3>1. at = {i \in DOMAIN list : list[i] \in fresh} /\ arg \cap fresh = arg \ sub
      BY <1>3, SeqBasics
    <3>2. Cardinality(at) \in Nat /\ (~Twice(list, fresh) => Cardinality(at) = Cardinality(arg \ sub))
      BY <1>3, <3>1, NamedOnce DEF arg
    <3>3. /\ key' = Some(Size + Cardinality(at)) /\ sub' = sub \cup arg
          /\ miscounted' = (miscounted \/ Twice(list, fresh))
      BY <2>1 DEF Sadd, Counted, arg
    <3> HIDE DEF at, list
    <3>4. Size + Cardinality(at) \in Int
      BY <1>5, <3>2
    <3> QED
      BY <1>3, <1>4, <1>7, <3>2, <3>3, <3>4
  <2>2. CASE Srem(c)
    <3> DEFINE at == {i \in DOMAIN list : list[i] \in sub}
    <3>1. Cardinality(at) \in Nat /\ (~Twice(list, sub) => Cardinality(at) = Cardinality(arg \cap sub))
      BY <1>3, NamedOnce DEF arg
    <3>2. /\ key' = Some(Size - Cardinality(at)) /\ sub' = sub \ arg
          /\ miscounted' = (miscounted \/ Twice(list, sub))
      BY <2>2 DEF Srem, arg
    <3> HIDE DEF at, list
    <3>3. Size - Cardinality(at) \in Int
      BY <1>5, <3>1
    <3> QED
      BY <1>4, <1>8, <3>1, <3>2, <3>3
  <2> QED
    BY <2>1, <2>2
<1>10. Has(key') /\ key'[1] = n /\ Size' = n
  BY <1>9, Options DEF Size
<1>11. SizeOk'
  BY <1>1, <1>3, <1>9, <1>10 DEF DataInv, SizeOk
<1>12. KeyOk' /\ SubOk' /\ FieldsOk'
  BY <1>1, <1>3, <1>9, <1>10 DEF KeyOk, SubOk, FieldsOk
<1> QED
  BY <1>11, <1>12 DEF DataInv

\* ZADD writes the record of the key, ZREM and ZINCRBY leave it.
LEMMA ZsetData ==
    ASSUME ClientInv, DataInv, NEW c \in Clients,
           Zadd(c) \/ Zrem(c) \/ \E e \in Elems, i \in Scores : Zincrby(c, e, i)
    PROVE  DataInv'
<1>1. CASE Zadd(c)
  <2>1. /\ Writes(c, {"zadd"}) /\ key' = Some("zset")
        /\ UNCHANGED <<kind, readers, sub, miscounted>>
    BY <1>1 DEF Zadd
  <2>2. kind = "zset"
    <3>1. cl[c].pc # "idle" /\ cl[c].op = "zadd"
      BY <2>1, WriteEnds
    <3> QED
      BY <3>1, KindOf
  <2>3. Has(key') /\ key'[1] = "zset"
    BY <2>1, Options
  <2> QED
    BY <2>1, <2>2, <2>3 DEF DataInv, KeyOk, SubOk, FieldsOk, SizeOk
<1>2. CASE Zrem(c) \/ \E e \in Elems, i \in Scores : Zincrby(c, e, i)
  <2>1. UNCHANGED <<kind, key, sub, miscounted>>
    BY <1>2 DEF Zrem, Zincrby
  <2> QED
    BY <2>1, SameData
<1> QED
  BY <1>1, <1>2

-----------------------------------------------------------------------------
(* Sorted sets.                                                             *)

\* A table with entries taken away is one.
LEMMA WithoutTable ==
    ASSUME NEW D, NEW R, NEW X, NEW f, Table(f, D, R)
    PROVE  Table(Without(f, X), D, R)
BY DEF Without, Restrict, Table

\* So is a table written over another.
LEMMA OverTable ==
    ASSUME NEW D, NEW R, NEW f, NEW g, Table(f, D, R), Table(g, D, R)
    PROVE  Table(Over(f, g), D, R)
BY DEF Over, Table

\* Under each entry of w there is a record from one of the pairs.
FromPairs(w, pairs, I, under, what) ==
    /\ w = [x \in DOMAIN w |-> w[x]]
    /\ \A i \in I : pairs[i][under] \in DOMAIN w
    /\ \A x \in DOMAIN w : \E i \in I : pairs[i][under] = x /\ w[x] = pairs[i][what]

\* So it is with what is written.
LEMMA WrittenFacts ==
    ASSUME NEW pairs, NEW n \in Nat, NEW I, I \subseteq 0..n, NEW under, NEW what
    PROVE  FromPairs(Written(pairs, I, under, what), pairs, I, under, what)
<1> DEFINE w == Written(pairs, I, under, what)
           at(x) == {i \in I : pairs[i][under] = x}
<1>1. /\ w = [x \in DOMAIN w |-> w[x]] /\ DOMAIN w = {pairs[i][under] : i \in I}
      /\ \A x \in DOMAIN w : w[x] = pairs[Max(at(x))][what]
  BY DEF Written
<1>2. ASSUME NEW x \in DOMAIN w PROVE \E i \in I : pairs[i][under] = x /\ w[x] = pairs[i][what]
  <2>1. at(x) # {}
    BY <1>1
  <2>2. at(x) \subseteq 0..n
    OBVIOUS
  <2>3. Max(at(x)) \in at(x)
    <3> HIDE DEF at
    <3> QED
      BY <2>1, <2>2, MaxBounded
  <2> QED
    BY <1>1, <2>3
<1>3. \A i \in I : pairs[i][under] \in DOMAIN w
  BY <1>1
<1> HIDE DEF w
<1>4. FromPairs(w, pairs, I, under, what)
  BY <1>1, <1>2, <1>3 DEF FromPairs
<1> QED
  BY <1>4 DEF w

\* What is written is a table.
LEMMA WrittenTable ==
    ASSUME NEW pairs, NEW n \in Nat, NEW I, I \subseteq 0..n, NEW under, NEW what,
           NEW D, NEW R, \A i \in I : pairs[i][under] \in D /\ pairs[i][what] \in R
    PROVE  Table(Written(pairs, I, under, what), D, R)
<1> DEFINE w == Written(pairs, I, under, what)
<1> HIDE DEF w
<1>1. FromPairs(w, pairs, I, under, what)
  BY WrittenFacts DEF w
<1>2. w \in [DOMAIN w -> R] /\ DOMAIN w \subseteq D
  BY <1>1 DEF FromPairs
<1>3. Table(w, D, R)
  BY <1>2 DEF Table
<1> QED
  BY <1>3 DEF w

\* Zadd, Zrem, Zincrby and the clean-up keep scores under members and members
\* under scores.
LEMMA ScoresStep ==
    ASSUME ClientInv, ScoresOk, NEW c \in Clients,
           \/ Zadd(c) \/ Zrem(c) \/ Clean(c)
           \/ \E e \in Elems, i \in Scores : Zincrby(c, e, i)
    PROVE  ScoresOk'
<1>1. Table(scoreOf, Elems, Nat) /\ Table(memberAt, Nat, Elems)
  BY DEF ScoresOk
<1>2. Scores \subseteq Nat
  BY RedisAssumption
<1>3. CASE Clean(c)
  <2>1. scoreOf' = <<>> /\ memberAt' = <<>>
    BY <1>3 DEF Clean
  <2>2. Table(<<>>, Elems, Nat) /\ Table(<<>>, Nat, Elems)
    BY DEF Table
  <2> QED
    BY <2>1, <2>2 DEF ScoresOk
<1>4. CASE Zrem(c)
  <2>1. /\ memberAt' = Without(memberAt, {scoreOf[e] : e \in cl[c].arg \cap DOMAIN scoreOf})
        /\ scoreOf' = Without(scoreOf, cl[c].arg)
    BY <1>4 DEF Zrem, Unscored
  <2> QED
    BY <1>1, <2>1, WithoutTable DEF ScoresOk
<1>5. CASE Zadd(c)
  <2> DEFINE pairs == cl[c].arg
             new == {i \in DOMAIN pairs : pairs[i][1] \in DOMAIN scoreOf
                                            => scoreOf[pairs[i][1]] # pairs[i][2]}
  <2>1. Writes(c, {"zadd"}) /\ UNCHANGED <<kind, readers>>
    BY <1>5 DEF Zadd
  <2>2. pairs \in Seq(Elems \X Scores)
    <3>1. cl[c].op = "zadd" /\ cl[c].pc # "idle"
      BY <2>1, WriteEnds
    <3> QED
      BY <3>1, ArgsOf
  <2>3. /\ scoreOf' = Over(Written(pairs, new, 1, 2), scoreOf)
        /\ memberAt' = Over(Written(pairs, new, 2, 1), memberAt)
    BY <1>5 DEF Zadd
  <2>4. Len(pairs) \in Nat /\ new \subseteq DOMAIN pairs /\ new \subseteq 0..Len(pairs)
    BY <2>2, SeqBasics
  <2>5. \A i \in DOMAIN pairs : pairs[i] \in Elems \X Scores
    BY <2>2, SeqBasics
  <2> HIDE DEF new, pairs
  <2>6. \A i \in new : pairs[i][1] \in Elems /\ pairs[i][2] \in Nat
    BY <1>2, <2>4, <2>5
  <2>7. /\ Table(Written(pairs, new, 1, 2), Elems, Nat)
        /\ Table(Written(pairs, new, 2, 1), Nat, Elems)
    BY <2>4, <2>6, WrittenTable
  <2> QED
    BY <1>1, <2>3, <2>7, OverTable DEF ScoresOk
<1>6. CASE \E e \in Elems, i \in Scores : Zincrby(c, e, i)
  <2>1. PICK e \in Elems, i \in Scores : Zincrby(c, e, i)
    BY <1>6
  <2> DEFINE new == i + (IF e \in DOMAIN scoreOf THEN scoreOf[e] ELSE 0)
             kept == Unscored({e})
             at == [s \in {new} |-> e]
             scored == [m \in {e} |-> new]
  <2>2. memberAt' = Over(at, kept) /\ scoreOf' = Over(scored, scoreOf)
    BY <2>1 DEF Zincrby
  <2>3. new \in Nat
    BY <1>1, <1>2 DEF Table
  <2>4. Table(kept, Nat, Elems)
    BY <1>1, WithoutTable DEF Unscored
  <2> HIDE DEF new, kept
  <2>5. Table(at, Nat, Elems) /\ Table(scored, Elems, Nat)
    BY <2>3 DEF Table
  <2> HIDE DEF at, scored
  <2> QED
    BY <1>1, <2>2, <2>4, <2>5, OverTable DEF ScoresOk
<1> QED
  BY <1>3, <1>4, <1>5, <1>6

-----------------------------------------------------------------------------
(* The invariant holds throughout.                                          *)

\* At first no command is under way and nothing is stored.
LEMMA InitHolds == RInit => RInv
<1> SUFFICES ASSUME RInit PROVE RInv
  OBVIOUS
<1>1. /\ kind \in Kinds /\ key = <<>> /\ sub = {} /\ expireAt = <<>> /\ scoreOf = <<>>
      /\ memberAt = <<>> /\ now = 0 /\ readers = {} /\ cl = [c \in Clients |-> Idle]
  BY DEF RInit, Absent
<1>2. Idle \in ClientStates /\ Idle.pc = "idle"
  <2>1. "none" \in OpNames /\ "idle" \in Pcs /\ {} \in Arguments
    BY DEF OpNames, Pcs, Arguments
  <2> QED
    BY <2>1 DEF Idle, ClientStates
<1>3. ClientInv
  <2>1. \A c \in Clients : cl[c].pc = "idle"
    BY <1>1, <1>2
  <2>2. cl \in [Clients -> ClientStates]
    BY <1>1, <1>2
  <2>3. readers = {c \in Clients : cl[c].pc \in Locked}
    BY <1>1, <2>1 DEF Locked
  <2> QED
    BY <1>1, <2>1, <2>2, <2>3 DEF ClientInv
<1>4. DataInv
  <2>1. ~Has(key) /\ Stored = <<>> /\ Size = 0
    BY <1>1 DEF Has, Absent, Stored, Size
  <2>2. Distinct(<<>>) /\ ToSet(<<>>) = {} /\ Cardinality({}) = 0
    BY FS_EmptySet DEF Distinct, ToSet
  <2> QED
    BY <1>1, <2>1, <2>2 DEF DataInv, KeyOk, SubOk, FieldsOk, SizeOk
<1>5. ScoresOk
  BY <1>1 DEF ScoresOk, Table
<1>6. TimeOk
  BY <1>1 DEF TimeOk, Has, Absent
<1> QED
  BY <1>3, <1>4, <1>5, <1>6 DEF RInv

\* The clock and EXPIRE keep times whole numbers, the other steps keep or
\* remove the expire record.
LEMMA TimeStep ==
    ASSUME TimeOk, RNext
    PROVE  TimeOk'
<1>1. CASE UNCHANGED <<now, expireAt>>
  BY <1>1 DEF TimeOk
<1>2. CASE expireAt' = Absent /\ UNCHANGED now
  BY <1>2, Options DEF TimeOk
<1>3. CASE \E s \in Seconds : expireAt' = Some(now + s) /\ UNCHANGED now
  <2>1. PICK s \in Seconds : expireAt' = Some(now + s) /\ UNCHANGED now
    BY <1>3
  <2>2. now \in Int /\ s \in Int
    BY RedisAssumption DEF TimeOk
  <2> QED
    BY <2>1, <2>2, Options DEF TimeOk
<1>4. CASE now' = now + 1 /\ UNCHANGED expireAt
  BY <1>4 DEF TimeOk
<1>5. CASE Tick
  BY <1>4, <1>5 DEF Tick, records
<1>6. CASE \E c \in Clients, op \in Ops[kind] \cup {"del", "expire", "ttl"} :
              \E arg \in Args(op) : Invoke(c, op, arg)
  BY <1>1, <1>6 DEF Invoke, records
<1>7. ASSUME NEW c \in Clients, ClientStep(c) PROVE TimeOk'
  <2>1. CASE Check(c) \/ Unlock(c)
    BY <1>1, <2>1 DEF Check, Unlock, records
  <2>2. CASE Clean(c) \/ TidyExpire(c) \/ RedisSet(c) \/ RedisDel(c)
    BY <1>2, <2>2 DEF Clean, TidyExpire, RedisSet, RedisDel
  <2>3. CASE RedisIncr(c) \/ RedisDecr(c) \/ HsetBatch(c) \/ Hdel(c)
    BY <1>1, <2>3 DEF RedisIncr, RedisDecr, HsetBatch, Hdel
  <2>4. CASE Push(c) \/ Pop(c) \/ Sadd(c) \/ Srem(c)
    BY <1>1, <2>4 DEF Push, Pop, Sadd, Srem
  <2>5. CASE Zadd(c) \/ Zrem(c) \/ \E e \in Elems, i \in Scores : Zincrby(c, e, i)
    BY <1>1, <2>5 DEF Zadd, Zrem, Zincrby
  <2>6. CASE RedisExpire(c)
    BY <1>3, <2>6 DEF RedisExpire
  <2> QED
    BY <1>7, <2>1, <2>2, <2>3, <2>4, <2>5, <2>6 DEF ClientStep
<1> QED
  BY <1>5, <1>6, <1>7 DEF RNext

\* A step of a client keeps the rest of the invariant.
LEMMA ClientStepHolds ==
    ASSUME ClientInv, DataInv, ScoresOk, NEW c \in Clients, ClientStep(c)
    PROVE  ClientInv' /\ DataInv' /\ ScoresOk'
<1>1. CASE Check(c) \/ Unlock(c)
  <2>1. /\ ClientInv'
        /\ UNCHANGED <<kind, key, sub, expireAt, scoreOf, memberAt, now, miscounted>>
    BY <1>1, CheckStep
  <2>2. ScoresOk'
    BY <2>1 DEF ScoresOk
  <2> QED
    BY <2>1, <2>2, SameData
<1>2. CASE Clean(c)
  BY <1>2, CleanEnds, CleanData, ScoresStep
<1>3. CASE TidyExpire(c)
  <2>1. UNCHANGED <<kind, key, sub, miscounted, scoreOf, memberAt>>
    BY <1>3 DEF TidyExpire, zset
  <2>2. ScoresOk'
    BY <2>1 DEF ScoresOk
  <2> QED
    BY <1>3, <2>1, <2>2, CleanEnds, SameData
<1>4. ASSUME NEW ops, Writes(c, ops), UNCHANGED <<kind, readers>>
      PROVE  ClientInv'
  BY <1>4, WriteEnds
<1>5. ASSUME UNCHANGED <<scoreOf, memberAt>> PROVE ScoresOk'
  BY <1>5 DEF ScoresOk
<1>6. CASE RedisSet(c) \/ RedisIncr(c) \/ RedisDecr(c)
  <2>1. DataInv'
    BY <1>6, StringData
  <2> QED
    BY <1>4, <1>5, <1>6, <2>1 DEF RedisSet, RedisIncr, RedisDecr, zset
<1>7. CASE RedisDel(c)
  <2>1. DataInv'
    BY <1>7, DelData
  <2> QED
    BY <1>4, <1>5, <1>7, <2>1 DEF RedisDel, zset
<1>8. CASE RedisExpire(c)
  <2>1. DataInv'
    BY <1>8, SameData DEF RedisExpire
  <2> QED
    BY <1>4, <1>5, <1>8, <2>1 DEF RedisExpire, zset
<1>9. CASE HsetBatch(c) \/ Hdel(c)
  <2>1. DataInv'
    BY <1>9, HsetData, HdelData
  <2> QED
    BY <1>4, <1>5, <1>9, <2>1 DEF HsetBatch, Hdel, zset
<1>10. CASE Push(c) \/ Pop(c)
  <2>1. DataInv'
    BY <1>10, PushPopData
  <2> QED
    BY <1>4, <1>5, <1>10, <2>1 DEF Push, Pop, zset
<1>11. CASE Sadd(c) \/ Srem(c)
  <2>1. DataInv'
    BY <1>11, SetData
  <2> QED
    BY <1>4, <1>5, <1>11, <2>1 DEF Sadd, Srem, zset
<1>12. CASE Zadd(c) \/ Zrem(c) \/ \E e \in Elems, i \in Scores : Zincrby(c, e, i)
  <2>1. DataInv' /\ ScoresOk'
    BY <1>12, ZsetData, ScoresStep
  <2> QED
    BY <1>4, <1>12, <2>1 DEF Zadd, Zrem, Zincrby
<1> QED
  BY <1>1, <1>2, <1>3, <1>6, <1>7, <1>8, <1>9, <1>10, <1>11, <1>12 DEF ClientStep

\* Every step of the specification keeps the invariant.
LEMMA StepHolds == RInv /\ [RNext]_rvars => RInv'
<1> SUFFICES ASSUME RInv, [RNext]_rvars PROVE RInv'
  OBVIOUS
<1>1. ClientInv /\ DataInv /\ ScoresOk /\ TimeOk
  BY DEF RInv
<1>2. CASE UNCHANGED rvars
  <2>1. /\ UNCHANGED <<kind, key, sub, miscounted>>
        /\ UNCHANGED <<scoreOf, memberAt, expireAt, now, readers, cl>>
    BY <1>2 DEF rvars, records, zset
  <2>2. ClientInv' /\ ScoresOk' /\ TimeOk'
    BY <1>1, <2>1 DEF ClientInv, ScoresOk, TimeOk
  <2> QED
    BY <1>1, <2>1, <2>2, SameData DEF RInv
<1>3. CASE RNext
  <2>1. TimeOk'
    BY <1>1, <1>3, TimeStep
  <2>2. CASE Tick
    <3>1. UNCHANGED <<kind, key, sub, miscounted, scoreOf, memberAt, readers, cl>>
      BY <2>2 DEF Tick, records, zset
    <3>2. ClientInv' /\ ScoresOk'
      BY <1>1, <3>1 DEF ClientInv, ScoresOk
    <3> QED
      BY <1>1, <2>1, <3>1, <3>2, SameData DEF RInv
  <2>3. ASSUME NEW c \in Clients, NEW op \in Ops[kind] \cup {"del", "expire", "ttl"},
               NEW arg \in Args(op), Invoke(c, op, arg)
        PROVE  RInv'
    <3>1. UNCHANGED <<kind, key, sub, miscounted, scoreOf, memberAt>>
      BY <2>3 DEF Invoke, records, zset
    <3>2. ClientInv'
      BY <1>1, <2>3, InvokeStep
    <3>3. ScoresOk'
      BY <1>1, <3>1 DEF ScoresOk
    <3> QED
      BY <1>1, <2>1, <3>1, <3>2, <3>3, SameData DEF RInv
  <2>4. ASSUME NEW c \in Clients, ClientStep(c) PROVE RInv'
    BY <1>1, <2>1, <2>4, ClientStepHolds DEF RInv
  <2> QED
    BY <1>3, <2>2, <2>3, <2>4 DEF RNext
<1> QED
  BY <1>2, <1>3

-----------------------------------------------------------------------------
(* The theorems.                                                            *)

\* Whatever the interleaving of checks, clean-ups and writes, the records of
\* the key stay in step with each other (RedisWrapper's redis_mtx sections).
THEOREM RInvariance == RSpec => []RInv
BY InitHolds, StepHolds, PTL DEF RSpec

\* RedisWrapper: the record of the key has its type, and the shared redis_mtx
\* is held between check and unlock only.
THEOREM RTypeCorrect == RSpec => []RTypeOK
<1>1. RInv => RTypeOK
  <2> SUFFICES ASSUME RInv PROVE RTypeOK
    OBVIOUS
  <2>1. kind \in Kinds /\ readers = {c \in Clients : cl[c].pc \in Locked}
    BY DEF RInv, ClientInv
  <2>2. KeyOk /\ SubOk
    BY DEF RInv, DataInv
  <2>3. /\ DOMAIN scoreOf \subseteq Elems /\ Range(memberAt) \subseteq Elems
        /\ Range(scoreOf) \cup DOMAIN memberAt \subseteq Nat
    BY DEF RInv, ScoresOk, Table, Range
  <2>4. Has(expireAt) => expireAt[1] \in Int
    BY DEF RInv, TimeOk
  <2> QED
    BY <2>1, <2>2, <2>3, <2>4 DEF RTypeOK, KeyOk, SubOk, Locked
<1> QED
  BY <1>1, RInvariance, PTL

\* A list without repetitions is as long as the set of its elements is large.
LEMMA DistinctCount ==
    ASSUME NEW S, NEW s \in Seq(S), Distinct(s)
    PROVE  Cardinality(ToSet(s)) = Len(s)
<1> DEFINE T == ToSet(s)
           f == [i \in 1..Len(s) |-> s[i]]
<1>1. Len(s) \in Nat /\ DOMAIN s = 1..Len(s)
  BY SeqBasics
<1>2. T = {s[i] : i \in 1..Len(s)}
  BY <1>1 DEF ToSet
<1> HIDE DEF T
<1>3. f \in [1..Len(s) -> T]
  BY <1>2
<1>4. IsInjective(f)
  BY <1>1 DEF IsInjective, Distinct
<1>5. \A x \in T : \E i \in 1..Len(s) : f[i] = x
  BY <1>2
<1> HIDE DEF f
<1>6. ExistsBijection(1..Len(s), T)
  BY <1>3, <1>4, <1>5 DEF ExistsBijection, Bijection, Injection, Surjection
<1>7. Cardinality(T) = Len(s)
  BY <1>1, <1>6, FS_CountingElements
<1> QED
  BY <1>7 DEF T

\* HSET, HDEL, DEL and expire_hash_clean: HKEYS lists each field once and
\* exactly the fields that HGET finds, for any number of clients.
THEOREM FieldsExact == RSpec => []FieldListExact
<1>1. RInv => FieldListExact
  <2> SUFFICES ASSUME RInv, kind = "hash"
               PROVE  /\ ToSet(Hkeys) = {f \in Elems : Hget(f)}
                      /\ Len(Hkeys) = Cardinality(ToSet(Hkeys))
    BY DEF FieldListExact
  <2>1. DataInv /\ Distinct(Stored) /\ ToSet(Stored) = sub /\ sub \subseteq Elems
    BY DEF RInv, DataInv, FieldsOk, SubOk
  <2>2. Stored \in Seq(Elems)
    BY <2>1, StoredFacts
  <2>3. Len(Stored) = Cardinality(ToSet(Stored))
    BY <2>1, <2>2, DistinctCount
  <2>4. sub = {f \in Elems : f \in sub}
    BY <2>1
  <2> QED
    BY <2>1, <2>3, <2>4 DEF Hkeys, Hget
<1> QED
  BY <1>1, RInvariance, PTL

\* SADD, SREM and expire_set_clean: the size that SCARD reads is the number of
\* members, for any number of clients, until a DEL leaves members
\* behind or a command counts one twice.
THEOREM SizesExact == RSpec => []SizeExact
<1>1. RInv => SizeExact
  <2> SUFFICES ASSUME RInv, kind = "set", ~miscounted
               PROVE  /\ Scard = Cardinality(Smembers)
                      /\ Smembers = {m \in Elems : Sismember(m)}
    BY DEF SizeExact
  <2>1. Size = Cardinality(sub) /\ sub \subseteq Elems
    BY DEF RInv, DataInv, SizeOk, SubOk
  <2>2. sub = {m \in Elems : m \in sub}
    BY <2>1
  <2> QED
    BY <2>1, <2>2 DEF Scard, Smembers, Sismember
<1> QED
  BY <1>1, RInvariance, PTL

\* An interval of whole numbers: its first element and its size.
LEMMA IntervalFacts ==
    ASSUME NEW a \in Nat, NEW b \in Nat, a <= b, NEW in, in = (a + 1)..(b + 1)
    PROVE  /\ Cardinality(in) = b - a + 1
           /\ (CHOOSE m \in in : \A x \in in : m <= x) = a + 1
<1>1. Cardinality(in) = b - a + 1
  <2>1. Cardinality((a + 1)..(b + 1)) =
          IF a + 1 > b + 1 THEN 0 ELSE (b + 1) - (a + 1) + 1
    BY FS_Interval
  <2>2. ~(a + 1 > b + 1) /\ (b + 1) - (a + 1) + 1 = b - a + 1
    OBVIOUS
  <2> QED
    BY <2>1, <2>2
<1>2. a + 1 \in in /\ \A x \in in : a + 1 <= x
  OBVIOUS
<1>3. \A m \in in : (\A x \in in : m <= x) => m = a + 1
  <2>1. \A m \in in : m \in Int
    OBVIOUS
  <2> QED
    BY <1>2, <2>1
<1>4. PICK m \in in : \A x \in in : m <= x
  BY <1>2
<1> QED
  BY <1>1, <1>2, <1>3

\* redis_lrange: for lists of any length and indices of any size the answer
\* holds exactly the elements from start to stop.
THEOREM LRangesExact == RSpec => []LRangeExact
<1>1. RInv => LRangeExact
  <2> SUFFICES ASSUME RInv, kind = "list", Has(key),
                      NEW start \in -MaxIndex..MaxIndex, NEW stop \in -Llen..MaxIndex
               PROVE
                  LET n == Llen
                      from == IF start < 0 THEN n + start ELSE start
                      to   == IF stop < 0 THEN n + stop ELSE stop
                      in   == {i \in 1..n : from <= i - 1 /\ i - 1 <= to}
                  IN  /\ Len(LRange(Stored, start, stop)) = Cardinality(in)
                      /\ \A i \in 1..Cardinality(in) :
                            LRange(Stored, start, stop)[i] =
                                Stored[(CHOOSE m \in in : \A x \in in : m <= x) + i - 1]
    BY DEF LRangeExact
  <2> DEFINE n == Len(Stored)
             from == IF start < 0 THEN n + start ELSE start
             to == IF stop < 0 THEN n + stop ELSE stop
             in == {i \in 1..n : from <= i - 1 /\ i - 1 <= to}
             first == IF from < 0 THEN 0 ELSE from
             last == IF to < 0 \/ to >= n THEN n - 1 ELSE to
             answer == LRange(Stored, start, stop)
  <2>1. Stored \in Seq(Elems) /\ Stored # <<>>
    BY StoredFacts DEF RInv
  <2>2. n \in Nat /\ n > 0
    BY <2>1, SeqBasics
  <2>3. start \in Int /\ stop \in Int /\ stop >= -n
    BY <2>2, RedisAssumption DEF Llen
  <2>4. answer = IF first > last THEN <<>> ELSE SubSeq(Stored, first + 1, last + 1)
    <3>1. FromEnd(start, n) = from /\ FromEnd(stop, n) = to
      BY <2>2, <2>3 DEF FromEnd
    <3> QED
      BY <3>1 DEF LRange
  <2> HIDE DEF answer, n
  <2>5. from \in Int /\ to \in Nat
    BY <2>2, <2>3
  <2> HIDE DEF from, to
  <2>6. first \in Nat /\ last \in Nat /\ last + 1 \in 0..n
    BY <2>2, <2>5
  <2>7. in = (first + 1)..(last + 1)
    <3>1. ASSUME NEW i \in in PROVE i \in (first + 1)..(last + 1)
      BY <2>2, <2>5, <3>1
    <3>2. ASSUME NEW i \in (first + 1)..(last + 1) PROVE i \in in
      BY <2>2, <2>5, <3>2
    <3> HIDE DEF in
    <3> QED
      BY <3>1, <3>2
  <2> HIDE DEF in, first, last
  <2>8. /\ Len(answer) = Cardinality(in)
        /\ \A i \in 1..Cardinality(in) :
              answer[i] = Stored[(CHOOSE m \in in : \A x \in in : m <= x) + i - 1]
    <3>1. CASE first > last
      <4>1. answer = <<>>
        BY <2>4, <3>1
      <4>2. in = {}
        BY <2>6, <2>7, <3>1
      <4>3. Cardinality(in) = 0
        BY <4>2, FS_EmptySet
      <4> QED
        BY <4>1, <4>3
    <3>2. CASE ~(first > last)
      <4>1. answer = SubSeq(Stored, first + 1, last + 1)
        BY <2>4, <3>2
      <4>2. first <= last
        BY <2>6, <3>2
      <4>3. /\ Cardinality(in) = last - first + 1
            /\ (CHOOSE m \in in : \A x \in in : m <= x) = first + 1
        BY <2>6, <2>7, <4>2, IntervalFacts
      <4>4. /\ Len(answer) = IF first < last + 1 THEN last + 1 - first ELSE 0
            /\ \A i \in 1..(last + 1 - first) : answer[i] = Stored[first + i]
        <5>1. last + 1 \in 0..Len(Stored)
          BY <2>6 DEF n
        <5> QED
          BY <2>1, <2>6, <4>1, <5>1, CutFacts
      <4>5. last + 1 - first = last - first + 1 /\ first < last + 1
        BY <2>6, <4>2
      <4>6. ASSUME NEW i \in 1..Cardinality(in)
            PROVE  answer[i] = Stored[(CHOOSE m \in in : \A x \in in : m <= x) + i - 1]
        <5>1. i \in 1..(last + 1 - first) /\ i \in Int
          BY <4>3, <4>5, <4>6
        <5>2. first + 1 + i - 1 = first + i
          BY <2>6, <5>1
        <5> QED
          BY <4>3, <4>4, <5>1, <5>2
      <4> QED
        BY <4>3, <4>4, <4>5, <4>6
    <3> QED
      BY <3>1, <3>2
  <2> QED
    BY <2>8 DEF answer, in, from, to, n, Llen
<1> QED
  BY <1>1, RInvariance, PTL

-----------------------------------------------------------------------------
(* Sorted sets: the two records of a member.                                *)

\* Each of the two tables files what the other files under it.
Paired(scores, members) ==
    /\ \A e \in DOMAIN scores :
          scores[e] \in DOMAIN members /\ members[scores[e]] = e
    /\ \A s \in DOMAIN members :
          members[s] \in DOMAIN scores /\ scores[members[s]] = s

\* ZADD, ZREM, ZINCRBY and the clean-up write or remove both records of a
\* member, unless they tangle them.
PairsInv == ~tangled => Paired(scoreOf, memberAt)

\* Removing the records of some members from both tables.
LEMMA PairsRemoved ==
    ASSUME NEW f, NEW g, NEW X, NEW h, Paired(f, g),
           h = Without(g, {f[e] : e \in X \cap DOMAIN f})
    PROVE  Paired(Without(f, X), h)
<1> DEFINE r == Without(f, X)
           Y == {f[e] : e \in X \cap DOMAIN f}
<1>1. DOMAIN r = DOMAIN f \ X /\ \A e \in DOMAIN r : r[e] = f[e]
  BY DEF Without, Restrict
<1>2. DOMAIN h = DOMAIN g \ Y /\ \A s \in DOMAIN h : h[s] = g[s]
  BY DEF Without, Restrict
<1>3. \A s : s \in Y <=> \E e \in X \cap DOMAIN f : s = f[e]
  OBVIOUS
<1> HIDE DEF r, Y
<1>4. ASSUME NEW e \in DOMAIN r PROVE r[e] \in DOMAIN h /\ h[r[e]] = e
  <2>1. f[e] \in DOMAIN g /\ g[f[e]] = e /\ r[e] = f[e] /\ e \notin X
    BY <1>1 DEF Paired
  <2>2. ASSUME NEW u \in X \cap DOMAIN f, f[e] = f[u] PROVE FALSE
    BY <2>1, <2>2 DEF Paired
  <2>3. f[e] \notin Y
    BY <1>3, <2>2
  <2> QED
    BY <1>2, <2>1, <2>3
<1>5. ASSUME NEW s \in DOMAIN h PROVE h[s] \in DOMAIN r /\ r[h[s]] = s
  <2>1. g[s] \in DOMAIN f /\ f[g[s]] = s /\ h[s] = g[s] /\ s \notin Y
    BY <1>2 DEF Paired
  <2>2. g[s] \notin X
    BY <1>3, <2>1
  <2> QED
    BY <1>1, <2>1, <2>2
<1> QED
  BY <1>4, <1>5 DEF Paired, r

\* Adding records of members and scores that neither table has.
LEMMA PairsAdded ==
    ASSUME NEW f, NEW g, NEW f1, NEW g1, Paired(f, g), Paired(f1, g1),
           (DOMAIN f1) \cap (DOMAIN f) = {}, (DOMAIN g1) \cap (DOMAIN g) = {}
    PROVE  Paired(Over(f1, f), Over(g1, g))
<1> DEFINE r == Over(f1, f)
           h == Over(g1, g)
<1>1. /\ DOMAIN r = (DOMAIN f1) \cup (DOMAIN f) /\ \A e \in DOMAIN f1 : r[e] = f1[e]
      /\ \A e \in DOMAIN f : r[e] = f[e]
  BY DEF Over
<1>2. /\ DOMAIN h = (DOMAIN g1) \cup (DOMAIN g) /\ \A s \in DOMAIN g1 : h[s] = g1[s]
      /\ \A s \in DOMAIN g : h[s] = g[s]
  BY DEF Over
<1> HIDE DEF r, h
<1>3. ASSUME NEW e \in DOMAIN r PROVE r[e] \in DOMAIN h /\ h[r[e]] = e
  BY <1>1, <1>2 DEF Paired
<1>4. ASSUME NEW s \in DOMAIN h PROVE h[s] \in DOMAIN r /\ r[h[s]] = s
  BY <1>1, <1>2 DEF Paired
<1> QED
  BY <1>3, <1>4 DEF Paired, r, h

\* Writing a member's new score over its old one, whose record is gone.
LEMMA PairMoved ==
    ASSUME NEW f, NEW g, NEW e, NEW n, NEW kept, Paired(f, g),
           kept = Without(g, {f[x] : x \in {e} \cap DOMAIN f}), n \notin DOMAIN kept
    PROVE  Paired(Over([m \in {e} |-> n], f), Over([s \in {n} |-> e], kept))
<1> DEFINE rest == Without(f, {e})
           one == [m \in {e} |-> n]
           at == [s \in {n} |-> e]
<1>1. Paired(rest, kept)
  BY PairsRemoved
<1>2. DOMAIN rest = (DOMAIN f) \ {e} /\ \A x \in DOMAIN rest : rest[x] = f[x]
  BY DEF Without, Restrict
<1>3. /\ DOMAIN one = {e} /\ one[e] = n
      /\ DOMAIN at = {n} /\ at[n] = e
  OBVIOUS
<1> HIDE DEF rest, one, at
<1>4. Paired(one, at)
  BY <1>3 DEF Paired
<1>5. (DOMAIN one) \cap (DOMAIN rest) = {} /\ (DOMAIN at) \cap (DOMAIN kept) = {}
  BY <1>2, <1>3
<1>6. Paired(Over(one, rest), Over(at, kept))
  BY <1>1, <1>4, <1>5, PairsAdded
<1>7. Over(one, rest) = Over(one, f)
  <2>1. (DOMAIN one) \cup (DOMAIN rest) = (DOMAIN one) \cup (DOMAIN f)
    BY <1>2, <1>3
  <2>2. \A x \in (DOMAIN one) \cup (DOMAIN f) : x \notin DOMAIN one => rest[x] = f[x]
    BY <1>2, <1>3
  <2> QED
    BY <2>1, <2>2 DEF Over
<1> QED
  BY <1>6, <1>7 DEF one, at

\* ZADD of members and scores that are not there yet, one score each.
LEMMA ZaddPairs ==
    ASSUME ClientInv, PairsInv, NEW c \in Clients, Zadd(c)
    PROVE  PairsInv'
<1> DEFINE pairs == cl[c].arg
           new == {i \in DOMAIN pairs : pairs[i][1] \in DOMAIN scoreOf
                                          => scoreOf[pairs[i][1]] # pairs[i][2]}
           scored == Written(pairs, new, 1, 2)
           at == Written(pairs, new, 2, 1)
<1> SUFFICES ASSUME ~tangled' PROVE Paired(scoreOf, memberAt)'
  BY DEF PairsInv
<1>1. pairs \in Seq(Elems \X Scores)
  <2>1. Writes(c, {"zadd"}) /\ UNCHANGED <<kind, readers>>
    BY DEF Zadd
  <2>2. cl[c].op = "zadd" /\ cl[c].pc # "idle"
    BY <2>1, WriteEnds
  <2> QED
    BY <2>2, ArgsOf
<1>2. scoreOf' = Over(scored, scoreOf) /\ memberAt' = Over(at, memberAt)
  BY DEF Zadd
<1>3. /\ ~tangled
      /\ \A i \in new : pairs[i][1] \notin DOMAIN scoreOf /\ pairs[i][2] \notin DOMAIN memberAt
      /\ \A i, j \in new : pairs[i][1] = pairs[j][1] \/ pairs[i][2] = pairs[j][2]
                            => pairs[i] = pairs[j]
  BY DEF Zadd
<1>4. Len(pairs) \in Nat /\ new \subseteq 0..Len(pairs)
  BY <1>1, SeqBasics
<1> HIDE DEF new, pairs
<1> HIDE DEF scored, at
<1>5. FromPairs(scored, pairs, new, 1, 2) /\ FromPairs(at, pairs, new, 2, 1)
  BY <1>4, WrittenFacts DEF scored, at
<1>6. ASSUME NEW i \in new
      PROVE  /\ pairs[i][1] \in DOMAIN scored /\ scored[pairs[i][1]] = pairs[i][2]
             /\ pairs[i][2] \in DOMAIN at /\ at[pairs[i][2]] = pairs[i][1]
  <2>1. pairs[i][1] \in DOMAIN scored /\ pairs[i][2] \in DOMAIN at
    BY <1>5 DEF FromPairs
  <2>2. PICK j \in new : pairs[j][1] = pairs[i][1] /\ scored[pairs[i][1]] = pairs[j][2]
    BY <1>5, <2>1 DEF FromPairs
  <2>3. PICK k \in new : pairs[k][2] = pairs[i][2] /\ at[pairs[i][2]] = pairs[k][1]
    BY <1>5, <2>1 DEF FromPairs
  <2>4. pairs[j] = pairs[i] /\ pairs[k] = pairs[i]
    BY <1>3, <2>2, <2>3
  <2> QED
    BY <2>1, <2>2, <2>3, <2>4
<1>7. Paired(scored, at)
  BY <1>5, <1>6 DEF Paired, FromPairs
<1>8. (DOMAIN scored) \cap (DOMAIN scoreOf) = {} /\ (DOMAIN at) \cap (DOMAIN memberAt) = {}
  BY <1>3, <1>5 DEF FromPairs
<1>9. Paired(scoreOf, memberAt)
  BY <1>3 DEF PairsInv
<1>10. Paired(Over(scored, scoreOf), Over(at, memberAt))
  BY <1>7, <1>8, <1>9, PairsAdded
<1> QED
  BY <1>2, <1>10

\* Every step keeps the records of the members paired.
LEMMA PairsStep == RInv /\ PairsInv /\ [RNext]_rvars => PairsInv'
<1> SUFFICES ASSUME RInv, PairsInv, [RNext]_rvars PROVE PairsInv'
  OBVIOUS
<1>1. ASSUME UNCHANGED <<scoreOf, memberAt, tangled>> PROVE PairsInv'
  BY <1>1 DEF PairsInv
<1>2. CASE UNCHANGED rvars
  BY <1>1, <1>2 DEF rvars, records, zset
<1>3. CASE Tick
  BY <1>1, <1>3 DEF Tick, records, zset
<1>4. ASSUME NEW c \in Clients, NEW op, NEW arg, Invoke(c, op, arg) PROVE PairsInv'
  BY <1>1, <1>4 DEF Invoke, records, zset
<1>5. ASSUME NEW c \in Clients, ClientStep(c) PROVE PairsInv'
  <2>1. CASE Check(c) \/ Unlock(c) \/ TidyExpire(c)
    BY <1>1, <2>1 DEF Check, Unlock, TidyExpire, records, zset
  <2>2. CASE RedisSet(c) \/ RedisIncr(c) \/ RedisDecr(c) \/ RedisDel(c) \/ RedisExpire(c)
    BY <1>1, <2>2 DEF RedisSet, RedisIncr, RedisDecr, RedisDel, RedisExpire, zset
  <2>3. CASE HsetBatch(c) \/ Hdel(c) \/ Push(c) \/ Pop(c) \/ Sadd(c) \/ Srem(c)
    BY <1>1, <2>3 DEF HsetBatch, Hdel, Push, Pop, Sadd, Srem, zset
  <2>4. CASE Clean(c)
    <3>1. scoreOf' = <<>> /\ memberAt' = <<>>
      BY <2>4 DEF Clean
    <3> QED
      BY <3>1 DEF PairsInv, Paired
  <2>5. CASE Zadd(c)
    BY <2>5, ZaddPairs DEF RInv
  <2>6. CASE Zrem(c)
    <3>1. /\ memberAt' = Without(memberAt, {scoreOf[e] : e \in cl[c].arg \cap DOMAIN scoreOf})
          /\ scoreOf' = Without(scoreOf, cl[c].arg) /\ UNCHANGED tangled
      BY <2>6 DEF Zrem, Unscored
    <3>2. ASSUME Paired(scoreOf, memberAt) PROVE Paired(scoreOf, memberAt)'
      BY <3>1, <3>2, PairsRemoved
    <3> QED
      BY <3>1, <3>2 DEF PairsInv
  <2>7. ASSUME NEW e \in Elems, NEW i \in Scores, Zincrby(c, e, i) PROVE PairsInv'
    <3> DEFINE n == i + (IF e \in DOMAIN scoreOf THEN scoreOf[e] ELSE 0)
               kept == Without(memberAt, {scoreOf[x] : x \in {e} \cap DOMAIN scoreOf})
    <3>1. /\ memberAt' = Over([s \in {n} |-> e], kept)
          /\ scoreOf' = Over([m \in {e} |-> n], scoreOf)
          /\ tangled' = (tangled \/ n \in DOMAIN kept)
      BY <2>7 DEF Zincrby, Unscored
    <3> HIDE DEF n
    <3>2. ASSUME Paired(scoreOf, memberAt), n \notin DOMAIN kept
          PROVE  Paired(scoreOf, memberAt)'
      BY <3>1, <3>2, PairMoved
    <3> HIDE DEF kept
    <3>3. ~tangled' => ~tangled /\ n \notin DOMAIN kept
      BY <3>1
    <3> QED
      BY <3>2, <3>3 DEF PairsInv
  <2> QED
    BY <1>5, <2>1, <2>2, <2>3, <2>4, <2>5, <2>6, <2>7 DEF ClientStep
<1> QED
  BY <1>2, <1>3, <1>4, <1>5 DEF RNext

\* redis_zadd, redis_zrem, redis_zincrby and expire_zset_clean: until a ZADD
\* gives a member another score or a second one, or two members share one, the
\* member's record and the score's record name each other.
THEOREM PairsInvariance == RSpec => []PairsInv
<1>1. RInit => PairsInv
  BY DEF RInit, PairsInv, Paired
<1> QED
  BY <1>1, PairsStep, RInvariance, PTL DEF RSpec

\* The answer to ZRANGE 0 -1 is the whole list.
LEMMA WholeRange ==
    ASSUME NEW S, NEW list \in Seq(S), list # <<>>
    PROVE  LRange(list, 0, -1) = list
<1>1. Len(list) \in Nat \ {0} /\ DOMAIN list = 1..Len(list)
  BY EmptySeq, SeqBasics
<1> DEFINE n == Len(list)
<1>2. FromEnd(0, n) = 0 /\ FromEnd(-1, n) = n - 1
  BY <1>1 DEF FromEnd
<1>3. LRange(list, 0, -1) = SubSeq(list, 1, n)
  BY <1>1, <1>2 DEF LRange
<1>4. SubSeq(list, 1, n) = list
  OBVIOUS
<1> QED
  BY <1>3, <1>4

\* The sorted listing: the members by ascending score, each once.
LEMMA ByScoreFacts ==
    ASSUME RInv, Paired(scoreOf, memberAt)
    PROVE  /\ ByScore \in Seq(Elems) /\ Len(ByScore) = Zcard
           /\ \A i \in DOMAIN ByScore :
                /\ ByScore[i] \in DOMAIN scoreOf /\ scoreOf[ByScore[i]] \in DOMAIN memberAt
                /\ scoreOf[ByScore[i]] \in Nat
                /\ Cardinality({s \in DOMAIN memberAt : s < scoreOf[ByScore[i]]}) = i - 1
           /\ \A i, j \in DOMAIN ByScore : i < j => scoreOf[ByScore[i]] < scoreOf[ByScore[j]]
           /\ \A e \in DOMAIN scoreOf : \E i \in DOMAIN ByScore : ByScore[i] = e
           /\ IsFiniteSet(DOMAIN scoreOf)
<1>1. Table(scoreOf, Elems, Nat) /\ Table(memberAt, Nat, Elems)
  BY DEF RInv, ScoresOk
<1> DEFINE D == DOMAIN memberAt
           L == InOrder(D, <)
<1>2. D \subseteq Nat /\ \A s \in D : memberAt[s] \in Elems
  BY <1>1 DEF Table
<1>3. IsFiniteSet(DOMAIN scoreOf)
  <2>1. DOMAIN scoreOf \in SUBSET Elems /\ IsFiniteSet(Elems)
    BY <1>1, RedisAssumption DEF Table
  <2> QED
    BY <2>1, FS_Subset
<1>4. IsFiniteSet(D)
  <2>1. {scoreOf[e] : e \in DOMAIN scoreOf} = D
    BY DEF Paired
  <2>2. IsFiniteSet({scoreOf[e] : e \in DOMAIN scoreOf})
    <3> DEFINE X == DOMAIN scoreOf
               Im == {scoreOf[e] : e \in X}
               g == [e \in X |-> scoreOf[e]]
    <3>1. g \in Surjection(X, Im)
      BY DEF Surjection
    <3> HIDE DEF g, X, Im
    <3>2. IsFiniteSet(X)
      BY <1>3 DEF X
    <3>3. IsFiniteSet(Im)
      BY <3>1, <3>2, FS_Surjection
    <3> QED
      BY <3>3 DEF Im, X
  <2> QED
    BY <2>1, <2>2
<1> HIDE DEF D
<1>5. /\ L \in Seq(Nat) /\ Range(L) = D /\ Len(L) = Cardinality(D)
      /\ \A p, q \in DOMAIN L : p < q => L[p] < L[q]
      /\ \A p \in DOMAIN L : Cardinality({y \in D : y < L[p]}) = p - 1
  BY <1>2, <1>4, ListedUp
<1>6. ByScore = [i \in DOMAIN L |-> memberAt[L[i]]]
  BY DEF ByScore, D
<1> HIDE DEF L
<1>7. DOMAIN L = 1..Len(L) /\ Len(L) \in Nat
  BY <1>5, SeqBasics
<1>8. /\ \A i \in DOMAIN L : L[i] \in D
      /\ \A s \in D : \E i \in DOMAIN L : L[i] = s
  BY <1>5 DEF Range
<1>9. DOMAIN ByScore = DOMAIN L /\ \A i \in DOMAIN L : ByScore[i] = memberAt[L[i]]
  BY <1>6
<1>10. ByScore \in Seq(Elems) /\ Len(ByScore) = Zcard
  <2>1. \A i \in 1..Len(L) : memberAt[L[i]] \in Elems
    BY <1>2, <1>7, <1>8
  <2>2. ByScore \in Seq(Elems) /\ Len(ByScore) = Len(L)
    BY <1>6, <1>7, <2>1
  <2> QED
    BY <1>5, <2>2 DEF Zcard, D
<1>11. ASSUME NEW i \in DOMAIN L PROVE ByScore[i] \in DOMAIN scoreOf /\ scoreOf[ByScore[i]] = L[i]
  BY <1>8, <1>9 DEF Paired, D
<1>12. ASSUME NEW i \in DOMAIN ByScore
       PROVE  /\ ByScore[i] \in DOMAIN scoreOf /\ scoreOf[ByScore[i]] \in DOMAIN memberAt
              /\ scoreOf[ByScore[i]] \in Nat
              /\ Cardinality({s \in DOMAIN memberAt : s < scoreOf[ByScore[i]]}) = i - 1
  <2>1. i \in DOMAIN L /\ scoreOf[ByScore[i]] = L[i] /\ L[i] \in D /\ L[i] \in Nat
    BY <1>2, <1>8, <1>9, <1>11
  <2> QED
    BY <1>5, <1>11, <2>1 DEF D
<1>13. ASSUME NEW i \in DOMAIN ByScore, NEW j \in DOMAIN ByScore, i < j
       PROVE  scoreOf[ByScore[i]] < scoreOf[ByScore[j]]
  BY <1>5, <1>9, <1>11, <1>13
<1>14. ASSUME NEW e \in DOMAIN scoreOf PROVE \E i \in DOMAIN ByScore : ByScore[i] = e
  <2>1. scoreOf[e] \in D /\ memberAt[scoreOf[e]] = e
    BY DEF Paired, D
  <2> QED
    BY <1>8, <1>9, <2>1
<1> HIDE DEF ByScore
<1> QED
  BY <1>3, <1>10, <1>12, <1>13, <1>14

\* redis_zcard, redis_zrange, redis_zscore and redis_zrank: until the records
\* of a member are tangled, ZCARD counts the members that have a ZSCORE, ZRANGE
\* lists them by ascending score and ZRANK ascends with it, for any number of
\* clients, members and scores.
THEOREM ScoresStayPaired == RSpec => []ScoresPaired
<1>1. RInv /\ PairsInv => ScoresPaired
  <2> SUFFICES ASSUME RInv, Paired(scoreOf, memberAt)
               PROVE  LET all == Zrange(0, -1) IN
                      /\ ToSet(all) = {e \in Elems : Has(Zscore(e))}
                      /\ Len(all) = Zcard /\ Zcard = Cardinality(ToSet(all))
                      /\ \A i, j \in DOMAIN all : i < j =>
                            /\ Zscore(all[i])[1] < Zscore(all[j])[1]
                            /\ Zrank(all[j])[1] - Zrank(all[i])[1] = j - i
    BY DEF PairsInv, ScoresPaired
  <2>1. Zrange(0, -1) = ByScore
    <3>1. ByScore \in Seq(Elems)
      BY ByScoreFacts
    <3>2. ByScore # <<>> => LRange(ByScore, 0, -1) = ByScore
      BY <3>1, WholeRange
    <3> QED
      BY <3>2 DEF Zrange
  <2>2. PICK all : all = ByScore
    OBVIOUS
  <2>3. /\ all \in Seq(Elems) /\ Len(all) = Zcard
        /\ \A i \in DOMAIN all :
             /\ all[i] \in DOMAIN scoreOf /\ scoreOf[all[i]] \in DOMAIN memberAt
             /\ scoreOf[all[i]] \in Nat
             /\ Cardinality({s \in DOMAIN memberAt : s < scoreOf[all[i]]}) = i - 1
        /\ \A i, j \in DOMAIN all : i < j => scoreOf[all[i]] < scoreOf[all[j]]
        /\ \A e \in DOMAIN scoreOf : \E i \in DOMAIN all : all[i] = e
        /\ IsFiniteSet(DOMAIN scoreOf)
    BY <2>2, ByScoreFacts
  <2>4. Len(all) \in Nat /\ DOMAIN all = 1..Len(all)
    BY <2>3, SeqBasics
  <2>5. ToSet(all) = {e \in Elems : Has(Zscore(e))}
    <3>1. \A e \in Elems : Has(Zscore(e)) <=> e \in DOMAIN scoreOf
      BY Options DEF Zscore
    <3>2. DOMAIN scoreOf \subseteq Elems
      BY DEF RInv, ScoresOk, Table
    <3>3. ToSet(all) = DOMAIN scoreOf
      BY <2>3 DEF ToSet
    <3> QED
      BY <3>1, <3>2, <3>3
  <2>6. Distinct(all)
    <3>1. ASSUME NEW i \in DOMAIN all, NEW j \in DOMAIN all, i < j, all[i] = all[j] PROVE FALSE
      <4>1. scoreOf[all[i]] < scoreOf[all[j]] /\ scoreOf[all[j]] \in Nat
        BY <2>3, <3>1
      <4>2. scoreOf[all[i]] = scoreOf[all[j]]
        BY <3>1
      <4> QED
        BY <4>1, <4>2
    <3> QED
      BY <2>4, <3>1 DEF Distinct
  <2>7. Zcard = Cardinality(ToSet(all))
    BY <2>3, <2>6, DistinctCount
  <2>8. ASSUME NEW i \in DOMAIN all, NEW j \in DOMAIN all, i < j
        PROVE  /\ Zscore(all[i])[1] < Zscore(all[j])[1]
               /\ Zrank(all[j])[1] - Zrank(all[i])[1] = j - i
    <3>1. /\ Zscore(all[i])[1] = scoreOf[all[i]] /\ Zscore(all[j])[1] = scoreOf[all[j]]
      BY <2>3, Options DEF Zscore
    <3>2. PICK m : m = Cardinality(DOMAIN scoreOf)
      OBVIOUS
    <3>3. m \in Nat
      BY <2>3, <3>2, FS_CardinalityType
    <3>4. ASSUME NEW p \in DOMAIN all PROVE Zrank(all[p])[1] = m + (p - 1)
      BY <2>3, <3>2, Options DEF Zrank
    <3>5. Zrank(all[j])[1] = m + (j - 1) /\ Zrank(all[i])[1] = m + (i - 1)
      BY <3>4
    <3>6. Zrank(all[j])[1] - Zrank(all[i])[1] = j - i
      BY <2>4, <3>3, <3>5
    <3> QED
      BY <2>3, <2>8, <3>1, <3>6
  <2> QED
    BY <2>1, <2>2, <2>3, <2>5, <2>7, <2>8
<1> QED
  BY <1>1, RInvariance, PairsInvariance, PTL
=============================================================================

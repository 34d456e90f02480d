------------------------------ MODULE Commands ------------------------------
(***************************************************************************)
(* The command handlers (commands/*_cmds.py), the dispatcher and the AOF   *)
(* records a command leaves (PersistenceManager.record_command), as        *)
(* operators on the store record of DataStore.                             *)
(*                                                                         *)
(* A handler returns the set of its outcomes.  The reply is "ok" (a count  *)
(* or a value), "nil" (null, or 0 for an absent key or TTL), "error" (a    *)
(* RespError) or "oom" (the RespError of MemoryLimitError).  Argument      *)
(* errors that are answered before the store is touched change nothing     *)
(* and are left out.                                                       *)
(***************************************************************************)
EXTENDS DataStore

CONSTANT MsTicks    \* clock ticks in the millisecond of an AOF deadline

ASSUME MsTicksAssumption == MsTicks \in Nat \ {0}

-----------------------------------------------------------------------------
(***************************************************************************)
(* Commands, as clients send them and as the AOF stores them.  A command   *)
(* with several elements or pairs carries at most two (MaxArgs).           *)
(***************************************************************************)
MaxArgs == 2

ElemOps == {"LPUSH", "RPUSH", "SADD", "SREM", "HSET", "HDEL", "ZADD", "ZREM"}

\* what a command with several elements or keys carries
ArgLists(S) == UNION {[1..n -> S] : n \in 1..MaxArgs}

CmdRecords ==
    [op : {"SET"}, key : Keys, val : Strings, ttl : Nat]
        \cup [op : {"MSET"}, keys : [1..2 -> Keys], vals : [1..2 -> Strings]]
        \cup [op : {"INCRBY", "APPEND"}, key : Keys, by : Int]
        \cup [op : {"DEL"}, keys : ArgLists(Keys)]
        \cup [op : {"EXPIRE"}, key : Keys, ttl : Nat]
        \cup [op : {"PEXPIREAT"}, key : Keys, at : Nat]
        \cup [op : {"PERSIST", "READ", "LPOP", "RPOP"}, key : Keys]
        \cup [op : {"KEYS", "FLUSHALL"}]
        \cup [op : ElemOps, key : Keys, xs : ArgLists(Elems)]
        \cup [op : {"LSET"}, key : Keys, index : Int, x : Elems]

ArgKeys(c) ==
    CASE c.op \in {"KEYS", "FLUSHALL"} -> {}
      [] c.op \in {"MSET", "DEL"} -> ToSet(c.keys)
      [] OTHER -> {c.key}

\* run Step on each outcome that is not an error; errors end the command
Then(outcomes, Step(_)) ==
    UNION {IF o.reply \in {"oom", "error"} THEN {o} ELSE Step(o.store) : o \in outcomes}

Unless(type, s, k, outcomes) ==
    IF s.data[k].type \in {"none", type} THEN outcomes ELSE {Outcome(s, "error")}

-----------------------------------------------------------------------------
(***************************************************************************)
(* Strings.                                                                *)
(***************************************************************************)
CmdSet(s, c) ==
    Then(StoreSet(s, c.key, c.val), LAMBDA t :
        LET plain == RemoveExpiry(t, c.key)
        IN  {Outcome(IF c.ttl = 0 THEN plain ELSE SetExpiryAt(plain, c.key, s.now + c.ttl),
                     "ok")})

\* one pair of MSET
MsetPair(s, k, v) ==
    Then(StoreSet(s, k, v), LAMBDA t : {Outcome(RemoveExpiry(t, k), "ok")})

\* the except branch of MSET for one key: value, access time and deadline
MsetUndo(s, k, before) ==
    LET t == RestoreKeySnapshot(s, k, SnapshotKey(before, k))
    IN  IF before.expiry[k] = 0 THEN RemoveExpiry(t, k)
        ELSE SetExpiryAt(t, k, before.expiry[k])

CmdMset(s, c) ==
    LET written == Then(MsetPair(s, c.keys[1], c.vals[1]),
                        LAMBDA t : MsetPair(t, c.keys[2], c.vals[2]))
    IN  {IF o.reply = "ok" THEN o
         ELSE Outcome(MsetUndo(MsetUndo(o.store, c.keys[1], s), c.keys[2], s), o.reply) :
            o \in written}

CmdIncrby(s, c) ==
    LET t == Lookup(s, c.key)
        obj == t.data[c.key]
    IN  Unless("string", t, c.key,
            IF obj = Missing THEN StoreSet(t, c.key, IntString(c.by))
            ELSE IF ~obj.int THEN {Outcome(t, "error")}
            ELSE StoreSet(t, c.key, IntString(obj.n + c.by)))

CmdAppend(s, c) ==
    LET t == Lookup(s, c.key)
        obj == t.data[c.key]
    IN  Unless("string", t, c.key,
            IF obj = Missing THEN StoreSet(t, c.key, Text(c.by))
            ELSE StoreSet(t, c.key, Text(StrLen(obj) + c.by)))

-----------------------------------------------------------------------------
(***************************************************************************)
(* Generic commands.                                                       *)
(***************************************************************************)
CmdDel(s, c) ==
    LET t == Delete(s, c.keys[1], "command")
    IN  {Outcome(IF Len(c.keys) = 1 THEN t ELSE Delete(t, c.keys[2], "command"), "ok")}

CmdExpire(s, c) ==
    LET t == Lookup(s, c.key)
        set == SetExpiryAt(t, c.key, t.now + c.ttl)
    IN  {IF t.data[c.key] = Missing THEN Outcome(t, "nil")
         ELSE Outcome(IF IsExpired(set, c.key) THEN Delete(set, c.key, "command") ELSE set,
                      "ok")}

CmdPexpireat(s, c) ==
    LET t == Lookup(s, c.key)
        at == c.at * MsTicks
    IN  {IF t.data[c.key] = Missing THEN Outcome(t, "nil")
         ELSE Outcome(IF at <= t.now THEN Delete(t, c.key, "expiry")
                      ELSE SetExpiryAt(t, c.key, at), "ok")}

CmdPersist(s, c) ==
    LET t == Lookup(s, c.key)
    IN  {IF t.data[c.key] = Missing \/ t.expiry[c.key] = 0 THEN Outcome(t, "nil")
         ELSE Outcome(RemoveExpiry(t, c.key), "ok")}

CmdFlushall(s) == {Outcome(Flush(s), "ok")}

CmdKeys(s) == {Outcome(PurgeAll(s), "ok")}

\* every command that only reads one key: lazy expiry and access time
CmdRead(s, c) ==
    LET t == Lookup(s, c.key)
    IN  {Outcome(t, IF t.data[c.key] = Missing THEN "nil" ELSE "ok")}

-----------------------------------------------------------------------------
(***************************************************************************)
(* Lists, sets, hashes and sorted sets.                                    *)
(***************************************************************************)
Items(obj) == IF obj = Missing THEN <<>> ELSE obj.items
Members(obj) == IF obj = Missing THEN {} ELSE obj.members

CmdPush(s, c) ==
    LET t == Lookup(s, c.key)
        old == Items(t.data[c.key])
    IN  Unless("list", t, c.key,
            StoreSet(t, c.key,
                     List(IF c.op = "LPUSH" THEN Reverse(c.xs) \o old ELSE old \o c.xs)))

CmdPop(s, c) ==
    LET t == Lookup(s, c.key)
        old == Items(t.data[c.key])
        rest == IF c.op = "LPOP" THEN Tail(old) ELSE Front(old)
    IN  Unless("list", t, c.key,
            IF old = <<>> THEN {Outcome(t, "nil")}
            ELSE IF Len(old) = 1 THEN {Outcome(Delete(t, c.key, "command"), "ok")}
            ELSE StoreSet(t, c.key, List(rest)))

CmdLset(s, c) ==
    LET t == Lookup(s, c.key)
        old == Items(t.data[c.key])
        at == 1 + (IF c.index < 0 THEN c.index + Len(old) ELSE c.index)
    IN  Unless("list", t, c.key,
            IF at \notin 1..Len(old) THEN {Outcome(t, "error")}
            ELSE StoreSet(t, c.key, List([old EXCEPT ![at] = c.x])))

CmdSadd(s, c) ==
    LET t == Lookup(s, c.key)
    IN  Unless("set", t, c.key,
            StoreSet(t, c.key, Collection("set", Members(t.data[c.key]) \cup ToSet(c.xs))))

\* remove the elements gone at once; an emptied collection is deleted
RemoveMembers(s, type, k, gone) ==
    LET rest == Members(s.data[k]) \ gone
    IN  IF s.data[k] = Missing THEN {Outcome(s, "ok")}
        ELSE IF rest = {} THEN {Outcome(Delete(s, k, "command"), "ok")}
        ELSE StoreSet(s, k, Collection(type, rest))

CmdSrem(s, c) ==
    LET t == Lookup(s, c.key)
    IN  Unless("set", t, c.key, RemoveMembers(t, "set", c.key, ToSet(c.xs)))

\* DataStore.hdel on a hash in table form: a bad field raises even if it is not
\* there, the fields before it are gone, and nothing is finalized or undone
HdelRaises(s, k, xs) ==
    {Outcome([s EXCEPT !.data[k] = Collection("hash",
                 Members(s.data[k]) \ {xs[j] : j \in 1..(i - 1)})], "error") :
        i \in {i \in DOMAIN xs : xs[i] \in BadFields /\ \A j \in 1..(i - 1) : xs[j] \notin BadFields}}

\* then the size of the hash may count more than it holds
MayOverstate(obj) == obj.type = "hash" /\ BadFields # {}

\* in compact form a bad field is a field that is not there
CmdHdel(s, c) ==
    LET t == Lookup(s, c.key)
    IN  Unless("hash", t, c.key,
            RemoveMembers(t, "hash", c.key, ToSet(c.xs))
                \cup (IF t.data[c.key] = Missing THEN {} ELSE HdelRaises(t, c.key, c.xs)))

\* DataStore.zrem: a member that is not there ends the call before it is finalized
ZremOne(s, k, x) ==
    LET t == Lookup(s, k)
    IN  IF x \notin Members(t.data[k]) THEN {Outcome(t, "ok")}
        ELSE RemoveMembers(t, "zset", k, {x})

CmdZrem(s, c) ==
    LET t == Lookup(s, c.key)
    IN  Unless("zset", t, c.key,
            IF Len(c.xs) = 1 THEN ZremOne(t, c.key, c.xs[1])
            ELSE Then(ZremOne(t, c.key, c.xs[1]), LAMBDA u : ZremOne(u, c.key, c.xs[2])))

\* faulty: type and encoding of the new object are swapped
AddOneAsEncoding(s, type, k, x) ==
    LET t == Lookup(s, k)
    IN  Put(t, k, Collection("hashtable", Members(t.data[k]) \cup {x}), SnapshotKey(s, k))

\* DataStore.hset and DataStore.zadd for one element; a bad hash field raises
AddOne(s, type, k, x) ==
    LET t == Lookup(s, k)
    IN  IF type = "hash" /\ x \in BadFields THEN {Outcome(t, "error")}
        ELSE Put(t, k, Collection(type, Members(t.data[k]) \cup {x}), SnapshotKey(s, k))

\* faulty: the elements before the one that fails stay
AddEachWithoutUndo(s, c) ==
    LET t == Lookup(s, c.key)
        type == IF c.op = "HSET" THEN "hash" ELSE "zset"
        first == AddOne(t, type, c.key, c.xs[1])
    IN  Unless(type, t, c.key,
            IF Len(c.xs) = 1 THEN first
            ELSE Then(first, LAMBDA u : AddOne(u, type, c.key, c.xs[2])))

CmdAddEach(s, c) ==
    LET t == Lookup(s, c.key)
        type == IF c.op = "HSET" THEN "hash" ELSE "zset"
        first == AddOne(t, type, c.key, c.xs[1])
        all == IF Len(c.xs) = 1 THEN first
               ELSE Then(first, LAMBDA u : AddOne(u, type, c.key, c.xs[2]))
    IN  Unless(type, t, c.key,
            {IF o.reply = "ok" THEN o
             ELSE Outcome(RestoreKeySnapshot(o.store, c.key, SnapshotKey(t, c.key)), o.reply) :
                o \in all})

-----------------------------------------------------------------------------
Dispatch(s, c) ==
    CASE c.op = "SET" -> CmdSet(s, c)
      [] c.op = "MSET" -> CmdMset(s, c)
      [] c.op = "INCRBY" -> CmdIncrby(s, c)
      [] c.op = "APPEND" -> CmdAppend(s, c)
      [] c.op = "DEL" -> CmdDel(s, c)
      [] c.op = "EXPIRE" -> CmdExpire(s, c)
      [] c.op = "PEXPIREAT" -> CmdPexpireat(s, c)
      [] c.op = "PERSIST" -> CmdPersist(s, c)
      [] c.op = "FLUSHALL" -> CmdFlushall(s)
      [] c.op = "KEYS" -> CmdKeys(s)
      [] c.op = "READ" -> CmdRead(s, c)
      [] c.op \in {"LPUSH", "RPUSH"} -> CmdPush(s, c)
      [] c.op \in {"LPOP", "RPOP"} -> CmdPop(s, c)
      [] c.op = "LSET" -> CmdLset(s, c)
      [] c.op = "SADD" -> CmdSadd(s, c)
      [] c.op = "SREM" -> CmdSrem(s, c)
      [] c.op = "HDEL" -> CmdHdel(s, c)
      [] c.op = "ZREM" -> CmdZrem(s, c)
      [] c.op \in {"HSET", "ZADD"} -> CmdAddEach(s, c)

-----------------------------------------------------------------------------
(***************************************************************************)
(* What record_command appends to the AOF.  It looks keys up again, with   *)
(* the lazy expiry and the access time that a lookup brings.               *)
(***************************************************************************)
SetRecord(k, v) == [op |-> "SET", key |-> k, val |-> v, ttl |-> 0]

\* _format_pexpireat: deadlines are cut to whole milliseconds.  (It raises where
\* the milliseconds leave the range of floats: not modelled, see the README.)
DeadlineRecord(s, k) == [op |-> "PEXPIREAT", key |-> k, at |-> s.expiry[k] \div MsTicks]

AppendRecords(s, records) == [s EXCEPT !.log = s.log \o records]

\* faulty: the SET is logged even if its key was evicted by it
RecordSetAsSent(s, c) ==
    AppendRecords(s, IF s.expiry[c.key] = 0 THEN <<SetRecord(c.key, c.val)>>
                     ELSE <<SetRecord(c.key, c.val), DeadlineRecord(s, c.key)>>)

\* faulty: the deadline of SET EX is not logged
RecordSetWithoutDeadline(s, c) ==
    LET t == Lookup(s, c.key)
    IN  AppendRecords(t, IF t.data[c.key] = Missing THEN <<DelRecord(c.key)>>
                         ELSE <<SetRecord(c.key, c.val)>>)

RecordSet(s, c) ==
    LET t == Lookup(s, c.key)
    IN  AppendRecords(t, IF t.data[c.key] = Missing THEN <<DelRecord(c.key)>>
                   ELSE IF t.expiry[c.key] = 0 THEN <<SetRecord(c.key, c.val)>>
                   ELSE <<SetRecord(c.key, c.val), DeadlineRecord(t, c.key)>>)

RecordDeadline(s, c) ==
    LET t == Lookup(s, c.key)
    IN  AppendRecords(t, IF t.data[c.key] = Missing \/ t.expiry[c.key] = 0 THEN <<>>
                   ELSE <<DeadlineRecord(t, c.key)>>)

\* MSET leaves the final value of each of its keys
RecordFinal(s, k) ==
    LET t == Lookup(s, k)
    IN  AppendRecords(t, <<IF t.data[k] = Missing THEN DelRecord(k) ELSE SetRecord(k, t.data[k])>>)

RecordMset(s, c) ==
    LET t == RecordFinal(s, c.keys[1])
    IN  IF c.keys[1] = c.keys[2] THEN t ELSE RecordFinal(t, c.keys[2])

\* faulty: the command is logged even if its key was evicted by it
RecordWriteAsSent(s, c) == AppendRecords(s, <<c>>)

\* commands logged as they are, unless their key is gone
RecordWrite(s, c) ==
    LET t == Lookup(s, c.key)
    IN  AppendRecords(t, <<IF t.data[c.key] = Missing THEN DelRecord(c.key) ELSE c>>)

RecordCommand(s, c, reply) ==
    IF ~s.logging \/ reply \in {"error", "oom"} \/ c.op \in {"READ", "KEYS"} THEN s
    ELSE CASE c.op = "SET" -> RecordSet(s, c)
           [] c.op = "MSET" -> RecordMset(s, c)
           [] c.op \in {"EXPIRE", "PEXPIREAT"} -> RecordDeadline(s, c)
           [] c.op = "PERSIST" -> AppendRecords(s, IF reply = "ok" THEN <<c>> ELSE <<>>)
           [] c.op \in {"DEL", "FLUSHALL"} -> AppendRecords(s, <<c>>)
           [] OTHER -> RecordWrite(s, c)
=============================================================================

------------------------------ MODULE Keyspace ------------------------------
(***************************************************************************)
(* The single-threaded keyspace service: one command at a time is          *)
(* dispatched and recorded without an await in between                     *)
(* (Server.handle_client), and the active expiry loop runs between them.   *)
(* One action per command, the expiry cycle, and the clock.                *)
(***************************************************************************)
EXTENDS Commands

CONSTANTS
    Enabled,      \* the command names of this instance
    Limits,       \* values of MINI_REDIS_MAXMEMORY, 0 for no limit
    Policies,     \* values of MINI_REDIS_MAXMEMORY_POLICY
    AofEnabled,   \* MINI_REDIS_APPENDONLY
    Vals,         \* string values clients write
    SetTtls,      \* EX of SET in ticks, 0 for none
    ExpireTtls,   \* seconds of EXPIRE in ticks; 0 stands for all that are <= 0
    Args,         \* element lists of the collection commands
    Deltas,       \* increments of INCRBY, 1 for INCR and -1 for DECR
    MaxNow,       \* bound on the clock
    MaxLen,       \* bound on the size of a value
    MaxAof        \* bound on the log at which commands stop

VARIABLES
    config,       \* the memory limit and the policy the server was started with
    data, sizes, used, access, expiry, now,
    aof,          \* records appended to the AOF file
    last          \* the last command: its name, its keys and its reply

vars == <<config, data, sizes, used, access, expiry, now, aof, last>>

ASSUME InstanceAssumption ==
    /\ Limits \subseteq Nat
    /\ Policies \subseteq SUPPORTED_EVICTION_POLICIES
    /\ AofEnabled \in BOOLEAN
    /\ Vals \subseteq Strings
    /\ SetTtls \subseteq Nat
    /\ ExpireTtls \subseteq Nat
    /\ Args \subseteq Seq(Elems) /\ \A xs \in Args : Len(xs) \in 1..MaxArgs
    /\ Deltas \subseteq Int
    /\ MaxNow \in Nat /\ MaxLen \in Nat /\ MaxAof \in Nat

-----------------------------------------------------------------------------
\* the store record a command starts from; access times are ranks
Store == [data |-> data, sizes |-> sizes, used |-> used, access |-> access,
          clock |-> Cardinality(Keys), expiry |-> expiry, now |-> now,
          limit |-> config.limit, policy |-> config.policy, logging |-> AofEnabled, log |-> aof]

Ranks(stamps) ==
    [k \in Keys |-> IF stamps[k] = 0 THEN 0
                    ELSE Cardinality({j \in Keys : stamps[j] # 0 /\ stamps[j] <= stamps[k]})]

Become(s) ==
    /\ data' = s.data
    /\ sizes' = s.sizes
    /\ used' = s.used
    /\ access' = Ranks(s.access)
    /\ expiry' = s.expiry
    /\ aof' = s.log
    /\ UNCHANGED <<now, config>>

InBounds(v) ==
    CASE v.type = "string" -> v.n \in (-MaxLen)..MaxLen
      [] v.type = "list" -> Len(v.items) <= MaxLen
      [] OTHER -> TRUE

\* dispatch, then record_command, then the reply
Execute(c, outcomes) ==
    /\ c.op \in Enabled
    /\ Len(aof) <= MaxAof
    /\ \E o \in outcomes :
          /\ \A k \in Keys : InBounds(o.store.data[k])
          /\ Become(RecordCommand(o.store, c, o.reply))
          /\ last' = [op |-> c.op, keys |-> ArgKeys(c), reply |-> o.reply]

Idle == [op |-> "NONE", keys |-> {}, reply |-> "ok"]

-----------------------------------------------------------------------------
Set ==
    \E k \in Keys, v \in Vals, ttl \in SetTtls :
        LET c == [op |-> "SET", key |-> k, val |-> v, ttl |-> ttl]
        IN  Execute(c, CmdSet(Store, c))

Mset ==
    \E k1, k2 \in Keys, v1, v2 \in Vals :
        LET c == [op |-> "MSET", keys |-> <<k1, k2>>, vals |-> <<v1, v2>>]
        IN  Execute(c, CmdMset(Store, c))

Incrby ==
    \E k \in Keys, by \in Deltas :
        LET c == [op |-> "INCRBY", key |-> k, by |-> by]
        IN  Execute(c, CmdIncrby(Store, c))

AppendText ==
    \E k \in Keys :
        LET c == [op |-> "APPEND", key |-> k, by |-> 1]
        IN  Execute(c, CmdAppend(Store, c))

Del ==
    \E ks \in [1..1 -> Keys] \cup [1..2 -> Keys] :
        LET c == [op |-> "DEL", keys |-> ks]
        IN  Execute(c, CmdDel(Store, c))

Expire ==
    \E k \in Keys, ttl \in ExpireTtls :
        LET c == [op |-> "EXPIRE", key |-> k, ttl |-> ttl]
        IN  Execute(c, CmdExpire(Store, c))

Pexpireat ==
    \E k \in Keys, at \in 0..MaxNow :
        LET c == [op |-> "PEXPIREAT", key |-> k, at |-> at]
        IN  Execute(c, CmdPexpireat(Store, c))

Persist ==
    \E k \in Keys :
        LET c == [op |-> "PERSIST", key |-> k]
        IN  Execute(c, CmdPersist(Store, c))

Flushall == LET c == [op |-> "FLUSHALL"] IN Execute(c, CmdFlushall(Store))

KeysCommand == LET c == [op |-> "KEYS"] IN Execute(c, CmdKeys(Store))

Read ==
    \E k \in Keys :
        LET c == [op |-> "READ", key |-> k]
        IN  Execute(c, CmdRead(Store, c))

Push ==
    \E k \in Keys, op \in {"LPUSH", "RPUSH"}, xs \in Args :
        LET c == [op |-> op, key |-> k, xs |-> xs]
        IN  Execute(c, CmdPush(Store, c))

Pop ==
    \E k \in Keys, op \in {"LPOP", "RPOP"} :
        LET c == [op |-> op, key |-> k]
        IN  Execute(c, CmdPop(Store, c))

Lset ==
    \E k \in Keys, index \in (-MaxLen)..MaxLen, x \in Elems :
        LET c == [op |-> "LSET", key |-> k, index |-> index, x |-> x]
        IN  Execute(c, CmdLset(Store, c))

Sadd ==
    \E k \in Keys, xs \in Args :
        LET c == [op |-> "SADD", key |-> k, xs |-> xs]
        IN  Execute(c, CmdSadd(Store, c))

Srem ==
    \E k \in Keys, xs \in Args :
        LET c == [op |-> "SREM", key |-> k, xs |-> xs]
        IN  Execute(c, CmdSrem(Store, c))

Hdel ==
    \E k \in Keys, xs \in Args :
        LET c == [op |-> "HDEL", key |-> k, xs |-> xs]
        IN  Execute(c, CmdHdel(Store, c))

Zrem ==
    \E k \in Keys, xs \in Args :
        LET c == [op |-> "ZREM", key |-> k, xs |-> xs]
        IN  Execute(c, CmdZrem(Store, c))

HsetZadd ==
    \E k \in Keys, op \in {"HSET", "ZADD"}, xs \in Args :
        LET c == [op |-> op, key |-> k, xs |-> xs]
        IN  Execute(c, CmdAddEach(Store, c))

\* one round of active_expiry_loop
ExpireCycle ==
    /\ \E s \in EvictExpiredSamples(Store) : Become(s)
    /\ last' = Idle

Tick ==
    /\ now < MaxNow
    /\ now' = now + 1
    /\ last' = Idle
    /\ UNCHANGED <<config, data, sizes, used, access, expiry, aof>>

-----------------------------------------------------------------------------
Init ==
    /\ config \in [limit : Limits, policy : Policies]
    /\ data = [k \in Keys |-> Missing]
    /\ sizes = [k \in Keys |-> 0]
    /\ used = 0
    /\ access = [k \in Keys |-> 0]
    /\ expiry = [k \in Keys |-> 0]
    /\ now = 1
    /\ aof = <<>>
    /\ last = Idle

Next ==
    \/ Set \/ Mset \/ Incrby \/ AppendText
    \/ Del \/ Expire \/ Pexpireat \/ Persist \/ Flushall \/ KeysCommand \/ Read
    \/ Push \/ Pop \/ Lset \/ Sadd \/ Srem \/ Hdel \/ Zrem \/ HsetZadd
    \/ ExpireCycle \/ Tick

Spec == Init /\ [][Next]_vars

-----------------------------------------------------------------------------
Live == {k \in Keys : data[k] # Missing}
Due(k) == expiry[k] # 0 /\ now >= expiry[k]

\* Every variable keeps its type: values are objects of one of the five
\* types, counters are integers, the log holds commands.
TypeOK ==
    /\ config \in [limit : Limits, policy : Policies]
    /\ data \in [Keys -> Objects \cup {Missing}]
    /\ sizes \in [Keys -> Nat]
    /\ used \in Int
    /\ access \in [Keys -> Nat]
    /\ expiry \in [Keys -> Nat]
    /\ now \in Nat
    /\ aof \in Seq(CmdRecords)

\* The four dictionaries of the store agree after every command, whatever
\* was evicted, expired or rolled back inside it: a key has a value iff it
\* has an access time iff it has a size, and that size is the estimate of
\* the value and deadline it has now (datastore.py, _sync_memory_for_key).
\* Only the size of a hash may be too large, never too small, after an HDEL
\* that raised at a field which is not valid UTF-8 (see the README).
KeyMetadataInSync ==
    \A k \in Keys :
        /\ data[k] = Missing <=> access[k] = 0
        /\ data[k] = Missing => sizes[k] = 0
        /\ data[k] # Missing =>
              IF MayOverstate(data[k]) THEN sizes[k] >= EstimateKeySize(Store, k)
              ELSE sizes[k] = EstimateKeySize(Store, k)

\* _used_memory, kept incrementally through eviction, expiry and rollback
\* with its max(0, ...), is always the sum recompute_memory_usage would give.
UsedMemoryIsSum == used = SumFunctionOnSet(sizes, Keys)

\* maxmemory is exceeded by deadlines only: EXPIRE and SET EX grow a key
\* without running _enforce_maxmemory, nothing else does.
MemoryBounded ==
    config.limit > 0 =>
        used <= config.limit + TtlCost * Cardinality({k \in Live : expiry[k] # 0})

\* an HDEL that failed at a bad field may have taken fields from its own hash
LosesFields(before, after) ==
    /\ before.type = "hash" /\ after.type = "hash"
    /\ after.members \subseteq before.members
    /\ before.members \ after.members \subseteq Elems \ BadFields

\* A command that answers with an error leaves the values of its own keys as
\* they were, the half-done multi-element writes of MSET, HSET, ZADD and ZREM
\* included, unless they had expired.  Under noeviction it leaves every value
\* and every deadline.  HDEL is the exception: where fields may be bad, its own
\* hash may have lost fields, and nothing but fields.  (Without a limit HSET is
\* not undone either: see the README.)
FailedWriteIsAtomic ==
    [][(last'.reply \in {"oom", "error"} /\ config.limit > 0) =>
          \A k \in Keys : ~Due(k) =>
             /\ k \in last'.keys \/ config.policy = "noeviction" =>
                   \/ data'[k] = data[k]
                   \/ /\ last'.op = "HDEL" /\ k \in last'.keys /\ BadFields # {}
                      /\ LosesFields(data[k], data'[k])
             /\ config.policy = "noeviction" => expiry'[k] = expiry[k]]_vars

\* The unexpired keys that a command removes without naming them.
Evicted == {k \in Live : ~Due(k) /\ data'[k] = Missing} \ last'.keys
Bystanders == {k \in Live : data'[k] # Missing} \ last'.keys

\* Eviction takes the keys that the policy allows, in its order:
\* the least recently used first, the nearest deadline first and never a key
\* without one, nothing under noeviction (_select_eviction_candidate).
EvictionFollowsPolicy ==
    [][last'.op # "FLUSHALL" =>
          \A e \in Evicted :
             CASE config.limit = 0 \/ config.policy = "noeviction" -> FALSE
               [] config.policy = "allkeys-lru" ->
                    \A k \in Bystanders : access[e] < access[k]
               [] config.policy = "volatile-ttl" ->
                    /\ expiry[e] # 0
                    /\ \A k \in Bystanders : expiry[k] = 0 \/ expiry[e] <= expiry[k]
               [] OTHER -> TRUE]_vars

\* A single-key write that was acknowledged is there when the reply is sent,
\* under the policies that cannot choose the key just written, unless a
\* deadline of the key had already passed.
SingleKeyWrites == {"SET", "INCRBY", "APPEND", "LPUSH", "RPUSH", "SADD", "HSET", "ZADD"}

AckedWriteIsStored ==
    [][(last'.op \in SingleKeyWrites /\ last'.reply = "ok") =>
          \A k \in last'.keys :
             (config.policy \in {"noeviction", "allkeys-lru"} /\ ~Due(k)) => data'[k] # Missing]_vars

\* The background cycle removes expired keys only, and when every deadline has
\* passed it removes a full sample in each of its passes (the quarter rule of
\* evict_expired_samples never ends such a cycle early).
ExpireCycleClearsBacklog ==
    [][last' = Idle /\ now' = now =>
          LET due == {k \in Live : Due(k)}
              removed == {k \in Live : data'[k] = Missing}
              all == {k \in Keys : expiry[k] # 0}
          IN  /\ removed \subseteq due
              /\ due = all => \/ removed = due
                              \/ Cardinality(removed) >= SampleSize * MaxPasses]_vars

\* ExpiryManager "tracks absolute expiry timestamps for keys in the
\* datastore" (expiry.py): no deadline outlives its key, whatever removed it.
\* Under a limit it does not hold: SET EX sets the deadline of a key that its
\* own write has evicted, or purged for an old deadline (README).
ExpiryOnlyForLiveKeys ==
    config.limit = 0 => \A k \in Keys : expiry[k] # 0 => data[k] # Missing

\* An expired key that nobody reads is removed by the active expiry loop.
ExpiredKeysGo == \A k \in Keys : (k \in Live /\ Due(k)) ~> ~(k \in Live /\ Due(k))
=============================================================================

----------------------------- MODULE DataStore -----------------------------
(***************************************************************************)
(* The keyspace of the server as operators on a store record: values,      *)
(* memory accounting, TTL table, eviction and the append-only log that     *)
(* automatic deletions write to (store/datastore.py, store/expiry.py).     *)
(*                                                                         *)
(* Every method that may choose (a random sample, a random victim) or fail *)
(* with MemoryLimitError is an operator that returns the set of its        *)
(* outcomes [store, reply].  The clock does not move inside a method.      *)
(***************************************************************************)
EXTENDS Integers, Sequences, FiniteSets, SequencesExt, FiniteSetsExt, Functions

CONSTANTS
    Keys,            \* the key names clients use
    Elems,           \* list items, set and zset members, hash fields
    BadFields,       \* hash fields whose bytes are not valid UTF-8
    MaxEstimable,    \* members up to which deep_getsizeof and deepcopy can follow a
                     \* skip list within Python's recursion limit
    KeyCost,         \* bytes of a key, its object header and access time
    TtlCost,         \* extra bytes of a float deadline over None
    SampleSize,      \* MINI_REDIS_EXPIRY_SAMPLE_SIZE
    MaxPasses        \* MINI_REDIS_EXPIRY_MAX_PASSES

SUPPORTED_EVICTION_POLICIES ==
    {"noeviction", "allkeys-random", "allkeys-lru", "volatile-ttl"}

ASSUME KeysAssumption == IsFiniteSet(Keys)
ASSUME ElemsAssumption == IsFiniteSet(Elems) /\ BadFields \subseteq Elems
ASSUME RecursionAssumption == MaxEstimable \in Nat /\ Cardinality(Elems) <= MaxEstimable
ASSUME CostAssumption == KeyCost \in Nat \ {0} /\ TtlCost \in Nat
ASSUME SamplingAssumption == SampleSize \in Nat \ {0} /\ MaxPasses \in Nat \ {0}

-----------------------------------------------------------------------------
(***************************************************************************)
(* Values.  A string is the decimal text of the integer n, or n bytes of   *)
(* other text; hash values and zset scores are abstracted away.            *)
(***************************************************************************)
Missing == [type |-> "none"]

IntString(n) == [type |-> "string", int |-> TRUE, n |-> n]
Text(n) == [type |-> "string", int |-> FALSE, n |-> n]
List(items) == [type |-> "list", items |-> items]
Collection(type, members) == [type |-> type, members |-> members]

Strings == [type : {"string"}, int : BOOLEAN, n : Int]
Lists == [type : {"list"}, items : Seq(Elems)]
Collections == [type : {"hash", "set", "zset"}, members : SUBSET Elems]
Objects == Strings \cup Lists \cup Collections

StrLen(v) == IF v.int \/ v.n < 0 THEN 1 ELSE v.n

Weight(v) ==
    CASE v.type = "string" -> StrLen(v)
      [] v.type = "list" -> Len(v.items)
      [] OTHER -> Cardinality(v.members)

-----------------------------------------------------------------------------
(***************************************************************************)
(* The store record.  data[k] = Missing, and 0 in sizes, access or expiry, *)
(* mean that the dictionary has no entry for k.                            *)
(*   data, sizes, used, access : _data, _key_sizes, _used_memory,          *)
(*                               _last_access                              *)
(*   clock   : the last reading of time.monotonic()                        *)
(*   expiry  : ExpiryManager._expiry                                       *)
(*   now     : time.time()                                                 *)
(*   limit   : maxmemory_bytes, 0 for no limit                             *)
(*   policy  : eviction_policy                                             *)
(*   logging : the AOF is enabled and persistence is not suspended         *)
(*   log     : the records of the AOF                                      *)
(***************************************************************************)
Present(s) == {k \in Keys : s.data[k] # Missing}
Volatile(s) == {k \in Keys : s.expiry[k] # 0}

IsExpired(s, k) == s.expiry[k] # 0 /\ s.now >= s.expiry[k]
ExpiredKeys(s) == {k \in Present(s) : IsExpired(s, k)}

DelRecord(k) == [op |-> "DEL", keys |-> <<k>>]

\* max(0, a - b) on the byte counter, for a removed size b >= 0
Monus(a, b) == IF b \in 0..a THEN a - b ELSE 0

EstimateKeySize(s, k) ==
    KeyCost + Weight(s.data[k]) + (IF s.expiry[k] = 0 THEN 0 ELSE TtlCost)

TouchKey(s, k) ==
    IF s.data[k] = Missing THEN s
    ELSE [s EXCEPT !.access[k] = s.clock + 1, !.clock = s.clock + 1]

\* faulty: the previous size stays in the counter
SyncWithoutPreviousSize(s, k) ==
    IF s.data[k] = Missing
    THEN [s EXCEPT !.sizes[k] = 0, !.used = Monus(s.used, s.sizes[k])]
    ELSE LET size == EstimateKeySize(s, k)
         IN  [s EXCEPT !.sizes[k] = size, !.used = s.used + size]

SyncMemoryForKey(s, k) ==
    IF s.data[k] = Missing
    THEN [s EXCEPT !.sizes[k] = 0, !.used = Monus(s.used, s.sizes[k])]
    ELSE LET size == EstimateKeySize(s, k)
         IN  [s EXCEPT !.sizes[k] = size, !.used = s.used + size - s.sizes[k]]

\* faulty: no delete hook, so the deadline outlives the key
DeleteWithoutHook(s, w, reason) ==
    LET gone == ToSet(w)
        Drop(f, none) == [k \in Keys |-> IF k \in gone THEN none ELSE f[k]]
    IN  [s EXCEPT !.data = Drop(s.data, Missing), !.sizes = Drop(s.sizes, 0),
                  !.access = Drop(s.access, 0),
                  !.used = Monus(s.used, SumFunctionOnSet(s.sizes, gone))]

(***************************************************************************)
(* delete of the distinct keys of w, all in _data, one after the other:    *)
(* their entries in the dictionaries go, the delete hook drops their       *)
(* deadlines, and an automatic deletion is logged.                         *)
(***************************************************************************)
DeleteKeys(s, w, reason) ==
    LET gone == ToSet(w)
        Drop(f, none) == [k \in Keys |-> IF k \in gone THEN none ELSE f[k]]
    IN  [s EXCEPT
            !.data = Drop(s.data, Missing),
            !.sizes = Drop(s.sizes, 0),
            !.access = Drop(s.access, 0),
            !.expiry = Drop(s.expiry, 0),
            !.used = Monus(s.used, SumFunctionOnSet(s.sizes, gone)),
            !.log = IF s.logging /\ reason \in {"expiry", "eviction"}
                    THEN s.log \o [i \in 1..Len(w) |-> DelRecord(w[i])]
                    ELSE s.log]

\* nothing happens to a key that is not in _data, not even to its deadline
Delete(s, k, reason) ==
    IF s.data[k] = Missing THEN s ELSE DeleteKeys(s, <<k>>, reason)

Flush(s) ==
    [s EXCEPT !.data = [k \in Keys |-> Missing],
              !.sizes = [k \in Keys |-> 0],
              !.access = [k \in Keys |-> 0],
              !.used = 0,
              !.expiry = [k \in Keys |-> IF k \in Present(s) THEN 0 ELSE s.expiry[k]]]

PurgeIfExpired(s, k) == IF IsExpired(s, k) THEN Delete(s, k, "expiry") ELSE s

\* get, exists and get_type: lazy expiry, then the access time is renewed
Lookup(s, k) == TouchKey(PurgeIfExpired(s, k), k)

PurgeAll(s) == DeleteKeys(s, SetToSeq(ExpiredKeys(s)), "expiry")

-----------------------------------------------------------------------------
(***************************************************************************)
(* ExpiryManager.                                                          *)
(***************************************************************************)
SetExpiryAt(s, k, at) == SyncMemoryForKey([s EXCEPT !.expiry[k] = at], k)

\* faulty: the size still counts the deadline
RemoveExpiryWithoutSync(s, k) == [s EXCEPT !.expiry[k] = 0]

RemoveExpiry(s, k) == SyncMemoryForKey([s EXCEPT !.expiry[k] = 0], k)

\* faulty: one key too few
SmallSamples(deadlines) ==
    IF Cardinality(deadlines) <= SampleSize
    THEN {deadlines}
    ELSE kSubset(SampleSize - 1, deadlines)

(***************************************************************************)
(* evict_expired_samples: passes[i] is the sample of the i-th pass.  With  *)
(* at most SampleSize deadlines the sample is all of them; another pass    *)
(* follows while a quarter of the sample had expired.  A deadline whose    *)
(* key is not in _data stays in the table and is sampled again.            *)
(***************************************************************************)
Samples(deadlines) ==
    IF Cardinality(deadlines) <= SampleSize
    THEN {deadlines}
    ELSE kSubset(SampleSize, deadlines)

SampledExpired(s) ==
    LET table == Volatile(s)
        due == {k \in table : IsExpired(s, k)}
        Removed(passes, i) == (UNION {passes[j] : j \in 1..i}) \cap ExpiredKeys(s)
        Left(passes, i) == table \ Removed(passes, i)
        GoesOn(passes, i) ==
            LET hits == Cardinality(passes[i] \cap due)
            IN  hits > 0 /\ 4 * hits >= Cardinality(passes[i]) /\ Left(passes, i) # {}
        IsRun(passes) ==
            /\ \A i \in DOMAIN passes : passes[i] \in Samples(Left(passes, i - 1))
            /\ \A i \in DOMAIN passes : i < Len(passes) => GoesOn(passes, i)
            /\ Len(passes) < MaxPasses => ~GoesOn(passes, Len(passes))
    IN  IF Cardinality(table) <= SampleSize
        THEN {ExpiredKeys(s)}
        ELSE {Removed(passes, Len(passes)) :
                passes \in {p \in SeqOf(SUBSET table, MaxPasses) : p # <<>> /\ IsRun(p)}}

\* faulty: a sample that is not wholly expired ends the cycle before it deletes
EvictOnlyWholeSamples(s) ==
    {DeleteKeys(s, SetToSeq(expired), "expiry") :
        expired \in {e \in SampledExpired(s) : e = Volatile(s)} \cup {{}}}

EvictExpiredSamples(s) ==
    {DeleteKeys(s, SetToSeq(expired), "expiry") : expired \in SampledExpired(s)}

-----------------------------------------------------------------------------
(***************************************************************************)
(* Memory limit and eviction.                                              *)
(***************************************************************************)
Outcome(s, reply) == [store |-> s, reply |-> reply]

\* faulty: the most recently used key goes first
EvictMostRecent(s) ==
    {k \in Present(s) : \A j \in Present(s) : s.access[k] >= s.access[j]}

EvictionCandidates(s) ==
    LET deadlines == {k \in Present(s) : s.expiry[k] # 0}
    IN  CASE s.policy = "allkeys-random" -> Present(s)
          [] s.policy = "allkeys-lru" ->
                {k \in Present(s) : \A j \in Present(s) : s.access[k] <= s.access[j]}
          [] s.policy = "volatile-ttl" ->
                {k \in deadlines : \A j \in deadlines : s.expiry[k] <= s.expiry[j]}
          [] OTHER -> {}

(***************************************************************************)
(* The eviction loop: the sequences of victims it may delete before memory *)
(* is within the limit or no candidate is left.                            *)
(***************************************************************************)
EvictionRuns(s) ==
    LET After(w, i) == DeleteKeys(s, SubSeq(w, 1, i), "eviction")
        GoesOn(t) == t.used > t.limit /\ EvictionCandidates(t) # {}
    IN  {w \in SeqOf(Present(s), Cardinality(Present(s))) :
            /\ \A i \in 1..Len(w) :
                  LET t == After(w, i - 1)
                  IN  t.used > t.limit /\ w[i] \in EvictionCandidates(t)
            /\ ~GoesOn(After(w, Len(w)))}

\* faulty: the write is acknowledged when the candidates run out
EnforceWithoutError(s) ==
    IF s.used <= s.limit THEN {Outcome(s, "ok")}
    ELSE IF s.policy = "noeviction" THEN {Outcome(s, "oom")}
    ELSE {Outcome(DeleteKeys(s, w, "eviction"), "ok") : w \in EvictionRuns(s)}

EnforceAfterCleanup(s) ==
    IF s.used <= s.limit THEN {Outcome(s, "ok")}
    ELSE IF s.policy = "noeviction" THEN {Outcome(s, "oom")}
    ELSE {LET t == DeleteKeys(s, w, "eviction")
          IN  Outcome(t, IF t.used > t.limit THEN "oom" ELSE "ok") : w \in EvictionRuns(s)}

\* current is the set holding the key just written, or {} after a load
EnforceMaxmemory(s, current) ==
    IF s.limit = 0 THEN {Outcome(s, "ok")}
    ELSE IF \E k \in current : s.sizes[k] > s.limit THEN {Outcome(s, "oom")}
    ELSE UNION {EnforceAfterCleanup(t) : t \in EvictExpiredSamples(s)}

(***************************************************************************)
(* Snapshots of one key.  Without a memory limit the saved object is not a *)
(* copy: what is restored is then the object as it has become.             *)
(***************************************************************************)
SnapshotKey(s, k) == [obj |-> s.data[k], access |-> s.access[k]]

RestoreKeySnapshot(s, k, snap) ==
    LET cleared == [s EXCEPT !.sizes[k] = 0, !.used = Monus(s.used, s.sizes[k])]
    IN  IF snap.obj = Missing
        THEN [cleared EXCEPT !.data[k] = Missing, !.access[k] = 0]
        ELSE SyncMemoryForKey(
                [cleared EXCEPT !.data[k] = IF s.limit = 0 /\ s.data[k] # Missing
                                            THEN s.data[k] ELSE snap.obj,
                                !.access[k] = snap.access], k)

\* faulty: no rollback
FinalizeKeepsWrite(s, k, snap) ==
    EnforceMaxmemory(IF s.data[k] = Missing THEN s ELSE SyncMemoryForKey(TouchKey(s, k), k),
                     {k})

\* faulty: memory is enforced before the access time is renewed
FinalizeTouchesLate(s, k, snap) ==
    LET t == IF s.data[k] = Missing THEN s ELSE SyncMemoryForKey(s, k)
    IN  {IF o.reply = "oom"
         THEN Outcome(RestoreKeySnapshot(o.store, k, snap), "oom")
         ELSE Outcome(TouchKey(o.store, k), "ok") : o \in EnforceMaxmemory(t, {k})}

FinalizeMutation(s, k, snap) ==
    LET t == IF s.data[k] = Missing THEN s ELSE SyncMemoryForKey(TouchKey(s, k), k)
    IN  {IF o.reply = "oom"
         THEN Outcome(RestoreKeySnapshot(o.store, k, snap), "oom")
         ELSE o : o \in EnforceMaxmemory(t, {k})}

\* write an object at k and account for it
Put(s, k, obj, snap) == FinalizeMutation([s EXCEPT !.data[k] = obj], k, snap)

StoreSet(s, k, obj) == Put(s, k, obj, SnapshotKey(s, k))
=============================================================================

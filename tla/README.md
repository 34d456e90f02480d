# lrn-redis: TLA+ models, checks and proofs

`lrn-redis` is a Redis-compatible server in Python: one asyncio event loop, a
keyspace in dictionaries, lazy and active expiry, a memory limit with four
eviction policies, and persistence in an append-only file (AOF) and a snapshot
file. This directory models the keyspace and its recovery, the files and the disk
under them, the client connections and the shutdown, sorted sets and hash tables;
it checks the models with TLC and proves the main invariants with TLAPS.

## 1. Inventory

| component | code | state | operations | model |
|---|---|---|---|---|
| keyspace store | `store/datastore.py`, `store/memory.py` | `_data`, `_key_sizes`, `_used_memory`, `_last_access` | `set`, `delete`, `flush`, lookups, collection writers, snapshots and rollbacks, `_enforce_maxmemory` | `DataStore`, `Keyspace` |
| expiry manager | `store/expiry.py` | `_expiry` | deadlines, `purge_if_expired`, `purge_all`, `evict_expired_samples`, `active_expiry_loop` | `DataStore`, `Keyspace` |
| command handlers | `commands/*.py` | none | one handler per command; `Dispatcher.dispatch` turns `MemoryLimitError` into an error reply | `Commands` |
| append-only file | `store/persistence.py` | the file, time of the last fsync | `record_command`, `record_delete`, `maintenance`, `replay_aof`, `close` | `Commands`, `Recovery`, `Durability` |
| snapshot file | `store/persistence.py` | the file, time of the last save | `save_rdb`, `maybe_save_rdb`, `load_rdb` | `Durability` |
| connections, lifecycle | `server.py` | buffers, counters, tasks, transports | `handle_client`, `start`, `stop` | `Server`, `Durability` |
| RESP | `protocol/` | none | parse, encode | `Server`: what a connection needs of it |
| hash tables | `store/hash_table.py` | slots or chains, counters | set, delete, resize, promotion | `HashMap`, `HashTable` |
| sorted sets | `store/skiplist.py` | levels, spans, score dictionary | insert, delete, rank, ranges | `SkipList` |

How they interact. `Server.handle_client` parses a request, calls
`Dispatcher.dispatch`, then `PersistenceManager.record_command`, then writes the
reply; there is no `await` between dispatch and record, so commands and the
rounds of `active_expiry_loop` do not interleave. Inside one command a great
deal does happen in sequence: a handler writes through `DataStore`, which
estimates the new size, runs a cleanup of expired keys and an eviction loop, each
deletion of which calls back into `ExpiryManager` (the delete hook) and
`PersistenceManager.record_delete`, which may write a whole snapshot there and
then, and which may fail after all that and must roll the key back. Several
handlers go on after the write (a deadline, a second key, a second element), on a
store that the write may have changed under them. Between two commands of one
pipeline a client task may wait (full output, spent budget); other tasks, losses,
timeouts and the shutdown then come in between.

What makes each component correct:

* store: value, size, access time and total memory agree whatever path was taken;
  a failing write leaves the values it was about to change; victims are chosen
  by the policy; the limit bounds memory; an acknowledged write is there.
* expiry: a deadline belongs to a live key; an expired key goes eventually; the
  sampled cycle keeps up with a backlog.
* AOF: at every moment the log replays to the live state, although deletions log
  themselves during a command and the command logs itself after it; what a policy
  promises to be on disk is there after a power failure.
* snapshot: an interrupted save leaves a whole file, the older or the newer.
* connections: requests are executed once each and in order, buffers are bounded,
  no client keeps the event loop, and a write that was answered is in the log.
* skip list: dictionary and list hold the same; links and spans are such that every
  rank and every range is right, whatever the order of additions and removals.
* hash tables: every form answers every sequence of operations as a map would.

## 2. Modules

```
DataStore      store record and its methods          (datastore.py, expiry.py)
  Commands     handlers, dispatch, log records       (commands/*.py, record_command)
    Keyspace   the running server: VARIABLES, Next   (server.py: handle_client; the expiry loop)
      Recovery restarts and replay                   (load, replay_aof)
Durability     the files, the disk, kills, power     (persistence.py; start's finally)
Server         connections, event loop, shutdown     (server.py)
SkipList       the sorted set of one key             (skiplist.py), on its own
HashTable      the hash of one key, three forms      (hash_table.py), implements
  HashMap      a map                                 the promise
MC*                                                  values for the .cfg files
Sums           sums over finite sets, smallest counterexamples
  DataStore_proof < Keyspace_proof < Recovery_proof
  Server_proof
  SkipList_proof
  HashTable_proof
Durability_proof                                     lemmas and theorems
```

**DataStore** has one operator per method, on a store record whose fields are the
dictionaries. A method that may choose (a random sample or victim) or raise
`MemoryLimitError` returns the *set* of its outcomes `[store, reply]`.
`FinalizeMutation` is `_finalize_mutation` with its rollback, `EnforceMaxmemory`
is `_enforce_maxmemory` (too large at once, cleanup, eviction loop),
`SampledExpired` gives the sets of keys one call of `evict_expired_samples` may
remove, pass by pass, and `EvictionRuns` the victim sequences of the eviction
loop. `DeleteKeys` deletes a sequence of keys with the hook and the log record.

**Commands** has one operator per handler and one per case of `record_command`,
which looks keys up again, with the side effects of a lookup.

**Keyspace** has one action per command. An action enumerates arguments, takes an
outcome of the handler, appends the log records and keeps name, keys and reply in
`last`. `ExpireCycle` is one round of the expiry loop, `Tick` moves the clock.

**Recovery** adds `Restart`: the log, or under `PowerLoss` any prefix of its
records, is replayed into an empty store without a limit; the limit is enforced
once afterwards. A load that raises starts no server, so it is no step.

**SkipList** models one `ZSet`: the dictionary `scores` and the list, a record of
functions over its nodes. `Descend` is the search loop that `insert`, `delete`,
`rank`, `node_by_rank` and `range_by_score` share. The condition of the loop is the set
of places it may pass (a place is a node with the sum of the spans that led to it), and
`Loop` repeats one turn until nothing changes, at most once for every node there may be.
The search follows the links and adds up the spans as the code does, and nothing in
the operations knows the sorted order, which only the properties compute. The height of
a new node is any up to `MaxLevel`, for `_random_level`. Nodes carry a copy number,
because a member could have two nodes if `delete` missed one. A NaN is an object that
equals no float but is identical to itself: that is how tuples compare it.

**Durability** has one key per write and no types: what commands do to values is
`Keyspace`'s. A command is several steps (`Begin`, `Evict`, `RollBack`,
`RecordCommand`), because a record, a sync or a snapshot inside it may fail and a
kill may come between any two. `Appended` gives what may become of one record:
written, written and synced, the write raising with nothing written, the fsync
raising after it, or a short write that nobody notices (the handle is unbuffered
and the count that `write` returns is not looked at). `save_rdb` is any number of
`Purge`, `SaveSync` and `SaveReplace`, each of which may raise, with a different end in a command, in the
maintenance loop and at shutdown. `PowerFails` cuts the log anywhere behind what is
synced, possibly inside a record, and may bring an earlier snapshot back. `doubtful`
is a history variable: the keys whose last change no normal reply has confirmed
(a raised write or sync answers with an error, while the change stays in memory).

**Server** has the task of each client as its own process: `pc` is the `await` where
it is suspended, `turn` the task that runs. A task keeps the turn from one `await`
that suspends to the next; which awaits suspend depends on the runtime (`Loops`).
Before Python 3.12 `asyncio.wait_for` always yields; since then it does not when
the bytes are there, and closing a server waits for its connections. uvloop does
not wait for them on any version. Requests are cut into pieces, so that a
chunk ends inside a request or holds several; `Arrive`, `Deliver`, `SendEof` and
`Lose` are the network and the client. A timeout may fire wherever its task waits:
no clock is modelled. `StopAgain` is a second signal, which cancels the wait for the
connections.

**HashTable** has the slots of the open table with tombstones, the chains of the
chained one, growth, shrinking and rehashing, the list form of `Hash` and its
promotion. `HashCode` is a constant: which fields collide is all that MurmurHash3
contributes. The mask `capacity - 1` is written `% capacity`, which is the same for a
power of two (`PowerOfTwo`), and `Xor` is computed bit by bit. **HashMap** is the abstract specification, a map with the reply of each
call; `Abstract == INSTANCE HashMap WITH map <- Contents`, where `Contents` is what
`get` answers for every field, and `IsMap` is its specification.

Operators whose comment starts with "faulty" are not part of the model. They state
what a plausible bug would make of the definition below them; the invariants
were seen to fail when one takes its place.

### Abstractions

* A string is a decimal integer or n bytes of text; a list is its items; a set,
  hash or sorted set is its members. Hash values and scores are left out, so
  `HSET` of an existing field changes nothing but the access time.
* `_estimate_key_size` is a function of type, elements and deadline: `KeyCost`
  plus one unit per byte or element plus `TtlCost` for a deadline. The code sums
  `sys.getsizeof` of the same parts.
* The clock does not move inside a command. Access times (`time.monotonic()`,
  strictly increasing here) are stored as ranks: only their order is read.
* An AOF deadline counts milliseconds, the clock `MsTicks` per millisecond.
* Reads of one key share the action `Read` (same lazy expiry, same access time).
  `INCR` and `DECR` are `INCRBY`, `HMSET` is `HSET`.
* Commands with several elements carry at most `MaxArgs` = 2, `MSET` exactly two
  pairs (two equal keys included), `DEL` one or two keys. Argument errors
  answered before the store is touched are left out: they change nothing.
* The members of a skip list are integers in the order of the strings; scores other
  than NaN are integers, since only their order is read.
* `BadFields` are hash fields that are not valid UTF-8, on which `Hash` raises. Whether
  a hash is a list or a table is not part of a value, so `CmdHdel` has the outcomes
  of both: the list ignores a bad field, the table raises (`HdelRaises`) after the
  fields before it are gone. It takes the field that is not there as well as the
  hash that loses its last good field before the bad one, and stays, empty.
* The size of a sorted set is taken to be computable (`RecursionAssumption`: no set has
  more than `MaxEstimable` members). `deep_getsizeof` and `copy.deepcopy` recurse along
  the links of the skip list; section 4 says what happens beyond.
* A deadline is taken to fit: `int(expiry_at * 1000)` raises `OverflowError` when the
  product leaves the range of floats (`SET k v EX` with 10^306 seconds), after the
  command is executed and before it is recorded.
* The DELs that one cleanup logs for several expired keys are in a fixed order;
  the replay does not depend on it, since the keys are distinct.
* An `EXPIRE` with 0 stands for every non-positive TTL.
* `Durability`: a record sets or deletes a key; a deadline is a record like another.
  Syncing a file makes its name durable, renaming does not: after a power failure
  the older snapshot may be found (the repository's README says as much).
  At most one short write happens per log (`Bounded` asks nothing more afterwards).
  `Replay` takes the last record of each key, which is what running the records
  in order comes to here, and is written without recursion so that it can be proved about.
  A snapshot gives every value back as `Cut` has it: `_format_score` writes six
  significant digits of a score, so a sorted set may come back with other scores and,
  where two of them fall together, in another order. What is loaded from a snapshot is
  therefore not said to be what was in memory.
  `iter_items` deletes expired keys first, one DEL each (`Purge`); which keys have
  expired is free, but for the key of a command that goes on after the snapshot, which
  is taken not to expire in the middle of it. `Purge` needs room in the log (`MaxLog`).
* `Server`: a request has a kind, a number of pieces and a reply size; the
  keyspace behind it is left out. An incomplete request, one that does not start an
  array and a malformed one differ by what `parse` does with them.

## 3. Runs

| run | question | bounds | result |
|---|---|---|---|
| `strings` | accounting, rollback, choice of victims, sampled cycle | 3 keys, texts of 1 and 3 bytes, limit 6 (two small keys and a half), 4 policies, sample 1, 2 passes, clock to 2 | holds |
| `mixed` | types and metadata for the commands on all types | 2 keys, 2 elements, one of them a bad field, no limit and limit 5, clock to 2 | holds |
| `recovery` | the log replays to the live values and deadlines; deadlines belong to live keys; expired keys go | 2 keys, no limit and limit 5, 2 ticks per ms, clock to 3, restarts, power failures, fairness | holds |
| `recovery_types` | the log replays, for the collection commands | 2 keys, 2 elements, limit 4, clock to 2, restarts, power failures | holds |
| `skiplist` | links, spans, ranks and ranges of a sorted set | 4 members, 2 scores, 3 levels | holds |
| `hashtable` | each form of a hash is a map | 6 fields, 4 of them colliding, one not encodable, capacity 4 to 16 | holds |
| `clients` | pipelines, limits, turns, acknowledged writes, shutdown | 2 clients, up to 3 requests in 4 pieces, chunks and input limit of 3 pieces, output limit 2, budget 2, both runtimes, fairness | holds |
| `durability` | what is found after a kill, a power failure, a stop | 2 keys, 1 value and what a snapshot makes of it, 3 records, 2 snapshots, `always`, `everysec`, log with snapshots, snapshots alone, fairness | holds |
| `stale_deadline` | a live key survives a restart | 1 key | violated |
| `mset_rollback` | the log replays to the live values, with `MSET` | 2 keys, `allkeys-lru` | violated |
| `expire_at_once` | a deleted key stays deleted | 1 key | violated |
| `late_ack` | an acknowledged write is in the log, during shutdown too | 2 clients, Python 3.11 | violated |

What the properties say:

* `KeyMetadataInSync`, `UsedMemoryIsSum`: the incremental accounting equals what
  `recompute_memory_usage` would compute, after every interplay of write,
  cleanup, eviction and rollback. The exception is stated: after an `HDEL` that raised
  the size of a hash may be too large, and never is it too small.
* `MemoryBounded`: the only excess over the limit is that of deadlines, which
  `EXPIRE` and `SET EX` add without running the limit.
* `FailedWriteIsAtomic`: a command that answers with an error leaves the values of
  its keys; under `noeviction` it leaves the store. Again `HDEL` is the exception: the
  hash it names, and nothing else, may have lost fields, and only good ones. It is
  stated with a limit only: without one `snapshot_key` does not copy.
* `EvictionFollowsPolicy`: every unexpired key that vanishes without being named is
  a victim its policy allows, compared with the keys that stay, by their access
  times and deadlines *before* the command.
* `AckedWriteIsStored`: under `noeviction` and `allkeys-lru` a write that was
  acknowledged is in the store. It excludes a key whose deadline had passed.
* `ExpireCycleClearsBacklog`, `ExpiredKeysGo`: the sampled cycle removes expired
  keys only, does not stop early on a full backlog, and every expired key goes.
* `ExpiryOnlyForLiveKeys`: without a limit no deadline is left without its key.
* `RecoversValues`, `RecoversDeadlines`: at every state the log replays to the
  live store, given that no deadline in the log has passed (`NoStaleDeadline`) and
  the server is within its limit (`Fits`). Both conditions are needed: see
  `stale_deadline`, and section 4 on `EXPIRE` over the limit.
* `DictionaryAndListAgree`, `SpansAreDistances`, `BackwardMirrorsForward`: the two
  halves of a sorted set hold the same members and scores, each link and span on
  each level in use is the one the heights determine, and the backward links and the
  tail mirror the lowest level.
* `RanksAreRight`, `RangesAreSlices`, `ScoreRangesAreExact`: the answers, computed by
  adding up spans from the top, are those that the dictionary alone determines, for
  all start and stop values from beyond one end to beyond the other.
* `IsMap`: every form of a hash implements `HashMap`, replies included. `CountersMatch`,
  `ItemsAreContents`, `LookupsEndEarly`, `CapacityFollowsSize`: the counters, the
  listing, an empty slot on every probe path, and a capacity that tombstones cannot
  inflate for good (but for the two smallest capacities, one slot or bucket in ten has
  a live entry), which together keep the table what `IsMap` needs after the next resize.
* `PipelineInOrder`: however input is cut and wherever a task waits, requests are
  executed once each in order, replies come in that order without a gap, and an
  error of the connection is the last of them. `NothingCompleteWaits`: no complete
  request is left in the buffer when a task goes to wait for input.
* `BuffersBounded`: input kept across a wait is within the input limit, replies are
  within the output limit and one reply.
* `TurnIsBounded`: before Python 3.12 a task executes at most the command budget
  before others run.
* `AckedIsLoggedUntilClosed`: a write whose reply is normal is in the log, as long as
  the log is open.
* `ConnectionsEnd`, `LogIsClosed`: a connection whose client has gone silent ends, and
  a shutdown closes the log; both name the exception, a client that does not read
  its replies while `wait_closed`, which has no timeout, waits for it.
* `RestartKeepsMemory`: whenever the process is killed, the log replays to the value
  in memory of every key that is not `doubtful` and not in the middle of its command.
  `AlwaysIsDurable`: with `always` so does every prefix a power failure may leave.
  `StopKeepsMemory`: so does the log of a server that stopped by itself, with all
  of it synced. They are stated for a log without a short write that began where the
  store was empty (`Plain`); section 4 says what happens otherwise.
* `SnapshotIsWhole`: no crash leaves a partial snapshot under the name that is loaded.
  It is about the file: what a whole snapshot holds is said above (`Cut`, `Purge`, and in
  section 4 the value that is rolled back later).
* `EverysecReachesDisk`: a record gets synced although no client writes any more.

Bounds. Two keys are enough for one to be evicted by a write to the other; the
third key in `strings` makes the choice of a victim matter, gives `MSET` a
bystander, and is more than one sample of the expiry cycle. The limits are chosen
so that some pairs of values fit and others do not, and so that a deadline
tips the balance. `MaxNow` bounds the clock (deadlines pass, and pass at
different times), `MaxLen` the size of a value, and `MaxAof` is the length of the
log at which no further command starts; one command may still append several
records, and the expiry cycle more. Four members make a list where a node is linked
over several others on two levels; three levels let `insert` raise the level by two
and `delete` lower it by two. Four colliding fields in four slots make tombstones in
the middle of a probe path, their reuse, and growth with and without live entries to
justify it. In `clients` a pipeline is longer than a chunk, its replies exceed
the output limit in the middle, and it has more commands than the budget. In
`durability` three records are an eviction and its command on top of an older
value, and two snapshots are the one that a power failure may bring back and the
new one; the proofs in section 5 are for any number.

`VIEW StateView` leaves out `last` (in `hashtable`: `call` and `reply`), which no guard
and no invariant reads, and which action properties read only as `last'`, the step
just taken. Keys and elements are interchangeable in guards and invariants;
`SYMMETRY` over keys is used with safety properties only. `CHOOSE` occurs where the
choice does not matter: in `SetToSeq`, for the order of log records described above,
in `NoKey`, the value of `key` outside commands, and on sets of one element.

Fairness.

* `WF_vars(ExpireCycle)` in `recovery`: `active_expiry_loop` is a task of its own,
  started with the server, which sleeps, runs a cycle and never returns; every
  command ends, so the event loop comes back to it. `ExpiredKeysGo` is checked where a
  cycle inspects the whole table (at most `SampleSize` deadlines). With more, the
  sample is random and the property would need probabilities.
* `WF_vars(Task(c))` and `WF_vars(CloseLog)` in `clients`: the event loop resumes every
  task whose await is done, and timers fire. Nothing is assumed of the clients: they
  may stop sending, reading or both.
* `WF_vars(Goes)`, `SF_vars(Maintenance)` and `WF_vars(Tick)` in `durability`: what a task
  has begun goes on until it suspends; the maintenance loop is due every 0.1 s, and
  though commands come between its rounds and disable it again and again, the loop
  that runs them takes it in its turn; time passes.

## 4. Findings

Runs show these; the first three are deviations of recovery, the fourth of
the shutdown.

1. **`stale_deadline`**: `cmd_pexpireat` deletes a key whose time has passed, also
   during replay. `SET k v EX 3`, `PERSIST k`, a restart after the old deadline: the
   key, alive without a deadline, is gone.
2. **`mset_rollback`**: the first pair of a failing `MSET` evicts a key of the same
   command, which logs a DEL; the rollback restores the key in memory, and the
   failed command is not logged. A restart loses the key.
3. **`expire_at_once`**: `EXPIRE` with a non-positive TTL deletes with reason
   "command", which `record_delete` ignores, and `record_command` finds no key and
   logs nothing. The key is back after a restart.
4. **`late_ack`**: `start` closes the log when its own tasks have ended; client tasks live
   on until `asyncio.run` cancels them (Python 3.11, which the Dockerfile uses). In
   between they execute writes and answer OK, while `_append_command` finds no handle
   and returns.

Met while modelling, without a run of their own; how to see each is in brackets.

* `EXPIRE` or `SET EX` may take memory over the limit; under `noeviction` the log
  written then cannot be loaded [`Recovery` with limit 5 and the invariant that every
  member of `Recovered` has the reply "ok"].
* A deadline is left without its key when a `SET EX` evicts its own key
  (`allkeys-random`), or when its cleanup deletes the key by an older deadline that had
  passed; the next writer of that name, unless it is a `SET`, inherits it
  [`ExpiryOnlyForLiveKeys` without its condition on the limit].
* In the second of these cases a plain `SET` answers OK and its value is gone
  [`AckedWriteIsStored` without its exception].
* `ZADD` takes `nan`: the search stops in front of such a node, so a member behind it
  appears twice, or stays in ranges after it is gone [`skiplist.cfg` with a NaN].
* `ZADD k s x s y` whose second element evicts `k` and starts it anew: memory has `y`,
  the log `x` and `y` [`recovery_types.cfg` with `OneOrTwoArgs`].
* `HSET` with a bad second field and no limit answers with an error and keeps the first
  field: the snapshot of the key was not a copy [`FailedWriteIsAtomic` without its
  condition].
* `HDEL` on a hash in table form raises at a field that cannot be encoded, after
  earlier fields are gone: they are neither accounted for nor logged nor put back, and
  the client reads an error [`KeyMetadataInSync` and `FailedWriteIsAtomic` without
  their exceptions].
* A large sorted set exhausts Python's recursion limit, since `deep_getsizeof` and
  `copy.deepcopy` follow its links. Measured with Python 3.11 and members added in
  order: with a memory limit every `ZADD` and `ZREM` on the key fails from 108
  members on, with nothing changed, while `DEL` works; without a limit the 493rd `ZADD`
  answers with an error, the member is in the set but not in the log, and the key has
  no size any more, since the rollback estimates it too [outside the models:
  `RecursionAssumption`].
* `SET k v EX` with 10^306 seconds is executed and not recorded: its deadline in
  milliseconds is infinite and raises [outside the models].
* A short write to the AOF is answered normally and the log is refused at the next
  start [`RestartKeepsMemory` without `Whole`].
* A snapshot that was loaded under an empty log is hidden by the first record of that
  log at the next start [`durability.cfg` with `LogAndSnapshot` and without the
  condition on `base`].
* A load that must evict decides the evictions anew each time, since they are not
  logged: keys seen to be gone may come back and others go [`EvictingLoads = TRUE`].
* After a failed write of the log memory is not rolled back: the key is `doubtful`, and
  later commands relative to its value are recovered with another one.
* With snapshots alone, one taken inside a command may hold a value that the command
  then rolls back, and is found after a kill.
* A DEL that a snapshot appends for an expired key may fail: the snapshot is given up,
  and a command in whose deletion it was taken answers with an error.
* Since Python 3.12 the shutdown waits for connections after the maintenance loop was
  cancelled, and without limit for one that does not read; a second signal ends it.
* Since Python 3.12 `TurnIsBounded` does not hold: awaits on input that is there do not
  suspend, and the budget starts anew with every chunk.

## 5. Proofs

For every value of the constants that the named assumptions allow
(`KeysAssumption`, `ElemsAssumption`, `RecursionAssumption`, `CostAssumption`, `SamplingAssumption`,
`MsTicksAssumption`, `InstanceAssumption`; `DurabilityAssumption`, `PartialAssumption`;
`ServerAssumption`; `MembersAssumption`, `ScoresAssumption`, `BoundsAssumption`;
`HashTableAssumption`):

| theorem | statement |
|---|---|
| `Keyspace_proof!TypeCorrect` | `Spec => []TypeOK` |
| `Keyspace_proof!MetadataInSync` | `Spec => []KeyMetadataInSync` |
| `Keyspace_proof!MemoryIsCounted` | `Spec => []UsedMemoryIsSum` |
| `Keyspace_proof!MemoryIsBounded` | `Spec => []MemoryBounded` |
| `Keyspace_proof!DeadlinesHaveKeys` | `Spec => []ExpiryOnlyForLiveKeys` |
| `Keyspace_proof!EvictionIsByPolicy` | `Spec => EvictionFollowsPolicy` |
| `Keyspace_proof!FailuresAreAtomic` | `Spec => FailedWriteIsAtomic` |
| `Keyspace_proof!AcksAreStored` | `Spec => AckedWriteIsStored` |
| `Keyspace_proof!CyclesClearBacklog` | `Spec => ExpireCycleClearsBacklog` |
| `Recovery_proof!RestartsKeepTypes` | `RecoverySpec => []TypeOK` |
| `Recovery_proof!RestartsKeepMetadata` | `RecoverySpec => []KeyMetadataInSync` |
| `Recovery_proof!RestartsCountMemory` | `RecoverySpec => []UsedMemoryIsSum` |
| `Recovery_proof!RestartsKeepTheLimit` | `RecoverySpec => []MemoryBounded` |
| `Recovery_proof!RestartsLeaveNoDeadline` | `RecoverySpec => []ExpiryOnlyForLiveKeys` |
| `Recovery_proof!RestartsRecoverValues` | `Repeatable`, `~EvictingLoads` ⊢ `RecoverySpec => []RecoversValues` |
| `Recovery_proof!RestartsRecoverDeadlines` | `Repeatable`, `~EvictingLoads` ⊢ `RecoverySpec => []RecoversDeadlines` |
| `Durability_proof!TypeCorrect` | `Spec => []TypeOK` |
| `Durability_proof!LogHasTheMemory` | `Spec => []RestartKeepsMemory` |
| `Durability_proof!SyncedBeforeReply` | `Spec => []AlwaysIsDurable` |
| `Durability_proof!StopsWithAllOnDisk` | `Spec => []StopKeepsMemory` |
| `Durability_proof!SnapshotsAreWhole` | `Spec => []SnapshotIsWhole` |
| `Server_proof!TurnBounded` | `Spec => []TurnIsBounded` |
| `Server_proof!AcknowledgedIsLogged` | `Spec => []AckedIsLoggedUntilClosed` |
| `Server_proof!TypeCorrect` | `Spec => []TypeOK` |
| `Server_proof!RequestsInOrder` | `Spec => []PipelineInOrder` |
| `Server_proof!CompleteIsAnswered` | `Spec => []NothingCompleteWaits` |
| `Server_proof!MemoryPerClient` | `Spec => []BuffersBounded` |
| `SkipList_proof!TypesAlways` | `NaNs = {}` ⊢ `Spec => []TypeOK` |
| `SkipList_proof!AgreeAlways` | `NaNs = {}` ⊢ `Spec => []DictionaryAndListAgree` |
| `SkipList_proof!SpansAlways` | `NaNs = {}` ⊢ `Spec => []SpansAreDistances` |
| `SkipList_proof!BackwardAlways` | `NaNs = {}` ⊢ `Spec => []BackwardMirrorsForward` |
| `SkipList_proof!RanksAlways` | `NaNs = {}` ⊢ `Spec => []RanksAreRight` |
| `SkipList_proof!RangesAlways` | `NaNs = {}` ⊢ `Spec => []RangesAreSlices` |
| `SkipList_proof!ScoreRangesAlways` | `NaNs = {}` ⊢ `Spec => []ScoreRangesAreExact` |
| `HashTable_proof!CountersMatchAlways` | `Spec => []CountersMatch` |
| `HashTable_proof!ItemsAreContentsAlways` | `Spec => []ItemsAreContents` |
| `HashTable_proof!LookupsEndEarlyAlways` | `Spec => []LookupsEndEarly` |
| `HashTable_proof!CapacityFollowsSizeAlways` | `Spec => []CapacityFollowsSize` |
| `HashTable_proof!IsMapHolds` | `Spec => IsMap` |

**Keyspace.** The inductive invariant is `InSync`: `TypeOK`, `KeyMetadataInSync`,
`UsedMemoryIsSum`, `AccessRanked` (no two keys share an access time, and none exceeds
the number of keys) and `Tidy` (the values alone are within the limit; without a limit
no deadline is left without its key). Its parts need each other. Handlers read the
type of a value before they use its elements, and the estimate of a size is a natural
number only for typed values; the counter is subtracted from with a floor of zero, and
stays the sum only because no key is larger than the sum; the eviction loop ends
within the limit only because the counter is the sum; and a key just touched is the
most recent one only if the clock is ahead of every access time.

A command passes through states the variables never show (a value written and not
yet accounted for, a deadline set after an eviction). `DataStore_proof` therefore
states the invariant on store records, `StoreInv`, with a weaker form for the key being
written, and a relation `Leads(s, t, K)` for a correct way from one record to another:
`t` has `StoreInv` and is `Tidy` if `s` was, and every key outside `K` is as it was, has
expired, or is a victim that the policy allows (`Spares`). Every method keeps or
composes it, *for every outcome*. So do the eviction loop, `FinalizeMutation` and its
rollback: what a failed write restores, and that under `allkeys-lru` the loop cannot
choose the key it makes room for, since it ends while an older key is left.
`Keyspace_proof` lifts this to each handler and to `RecordCommand`, and then to each
action; `Become` turns access times into ranks. An `HDEL` that raises changes the value
alone: the estimate of what is left is no larger than the size that stays (`ShedsFields`),
which is all that `KeyMetadataInSync` says of a hash where fields may be bad. The action properties follow from
`Leads` and from what a handler's reply says of its keys (`RolledBack`, `Stored`).

`CyclesClearBacklog` is about the passes of one cycle, a recursive function. It is enough
to know how one value of it follows from the value before: while every deadline is
due, a pass adds `SampleSize` keys or leaves none behind, so a smallest pass that is
short of its share cannot exist.

Sums are folds, and induction over a fold is out of reach. `Sums` goes around it twice:
a smallest counterexample needs only that the naturals are well ordered, and once the
sum is known to be the cardinality of a set of units, the facts about cardinalities do
the rest (one value changes, one key goes, a sum is monotonic).

**Recovery.** `InSync` is also an invariant of a server that restarts, whatever prefix of its
log it loads. A handler that is dispatched on a store in order leaves it in order, on the
replies it may give and without a limit (`DispatchRight`), so `ReplayRecord` keeps every
store it loads in order (`ReplayRecordLoads`). The load is a fold, and a fold is a
recursive function on sets of positions, chosen for one log at a time. That there is
such a function for a log of any length, that the functions of two logs agree where the
logs do, and so that one more record is one more `ReplayRecord` (`StreamOfMore`), are shown
by smallest counterexamples; then every store of `ReplayStream` is in order
(`StreamLoads`). The eviction that ends the load needs the counter to be the sum, as in a
command, and leaves a store within the limit; `Become` makes it the state.

**Values and deadlines after a restart.** `RestartsRecoverValues` says that replaying the log
gives every key the value it has, for any keys, limit and policy, whatever was evicted, expired or
rolled back and wherever power failures have cut the log, as long as no deadline in the
log has passed; `RestartsRecoverDeadlines` says the same of deadlines, cut to whole
milliseconds, under `noeviction` and `allkeys-lru`. Their hypotheses are about what is enabled, and each is needed: the
append-only file is on; no `MSET` (`mset_rollback` is the counterexample) and no `EXPIRE`
with a time of zero (`expire_at_once`); `HSET` and `ZADD` with one element each, since the
second may evict the key and start it anew, or fail and leave the first unlogged (section
4); no bad fields, since an `HDEL` that raises at one has taken fields and logs nothing;
and no load that must evict (`EvictingLoads`), since those evictions are not logged.
`recovery` and `recovery_types` are instances that satisfy them. The argument has three
parts.

* *What a command means.* For the commands that change one value, `Result(c, v)` is what
  becomes of the value `v` and `Refuses(c, v)` is when the handler answers with an error:
  both depend on `v` and the arguments alone (`StringDoes`, `ListDoes`,
  `SetDoes`, `ZremDoes`, `AddEachDoes`), so a record means the same when it is replayed on
  that value.
* *What a log means.* `IsRun(d, V, log, n)` is a sequence of values and of pairs of a key and
  its deadline, one step of `Redone` per record, without a store. In a load nothing is due and nothing is
  evicted, so the handlers do exactly that (`EntryGoesWell`), and the stores that a
  log loads are where its run ends (`RunIsReplayed`; conversely, a load that succeeds is
  a run, `ReplayIsRun`).
* *The live server.* The invariant is `Honest(Store)`: as long as no deadline of the log has
  passed, the log has a run that ends in the values of the store and in no deadline that
  the store does not have (`Dates`, which bounds what the load needs in memory). Under
  `noeviction` and `allkeys-lru` (`Exact`) it also ends in every deadline that the store has
  (`Sure`). Under the other policies it need not: a `SET` with a time to live may evict
  its own key, the deadline then set stays behind (section 4), and a later value of the
  key takes it over, of which the log says nothing.
  Inside a command the log may still have the former value `v` of the command's
  key (`Knows(s, k, v)`) and the store may have evicted or purged keys, also that one; `Follows`
  says that the deletions the store makes on its own, which it logs at once, keep both
  kinds of knowledge. A command that succeeds then logs a record that `v` allows and
  that gives the new value; one that fails has put `v` back or evicted the key. Even under
  those two policies a `SET` may find its key purged; the purge shows that
  a deadline in the log has passed, which is the second half of `Honest` (`Noted`), and
  therefore none is left without its key while the log is replayed in full (`NotLeft`).

A load starts the server with an honest log too, since the run of a prefix is what the load
has made (`LoadedHonest`). From `Honest` the values follow at once, and the deadlines as a load
sets only whole milliseconds (`DatedBy`, `CutWhole`); that the load
fits, and so that it neither purges nor evicts at its end, follows from the memory counter
being a sum that fewer deadlines do not make larger (`FewerDeadlines`).

**Durability.** `RestartKeepsMemory` is silent on the key of the command in progress, which
has a new value in memory and none in the log. A rollback puts the old value back, so
the invariant `Remembered` adds that the log still gives that one. `AlwaysIsDurable` needs
to know of every prefix that may be left; `SyncedEnough` says that it differs from the
whole log in doubtful keys only, which a record that was written but not synced
keeps true by making its key doubtful, and the next successful sync by leaving no
prefix. `ReplayAppend` is the one fact about replay: a record changes the value of its
key and no other. From these, one step per action, with `Quiet` for all that
leave log and memory alone.

**Server.** For `TurnIsBounded` the invariant is that, where awaits suspend, the task with the
turn is parsing and has executed no more commands than `commands_in_tick` counts. For
`AckedIsLoggedUntilClosed` it is stated on replies, wherever they are: one that is
normal answers a read or a write that is logged. Delivering moves a reply from one
sequence to the other, and nothing leaves the log.

The other four share `PipelineInv`, stated for one client on the values that belong to it:

* `InputOK`: buffer, reader and network, joined, are in order from the request after the
  last one executed. Order is local, each piece determines the next (`Follows`), so that
  nothing needs saying of where chunks begin and end; a chunk that is read moves a cut
  and changes nothing. That what a client sends is in order in the first place is a fact
  about `FlattenSeq`, shown by a smallest counterexample.
* `RepliesOK`: replies received and waiting, joined, answer the requests in order; only the
  last may be an error, and only where the task answers nothing more (`Live`); as long
  as the connection lasts they are as many as the requests executed. All replies in the transport but the
  last are within the output limit.
* `PlaceOK`: what each place in `handle_client` promises of the count and the sizes: no
  whole request waits where input is read, the replies are within the limit wherever a
  request may be executed, the budget is not spent while parsing and is whole where the
  task reads or has yielded.

Each kind of change to these values is a lemma of its own (a piece arrives, a chunk is read,
a request is executed, a reply is written, delivered or lost), and a step of the server is one
of them for one client and nothing for the others. `OutSize` is a fold over the replies and
becomes a sum over their positions (`TotalIsSum`), which `Sums` can extend and shift.

**Skip list.** All seven properties hold for any members, scores, numbers of levels and
heights, as long as no score is a NaN: with one they do not (section 4), so `NaNs = {}` is
the one hypothesis. The invariant `IInv` says that dictionary and list agree and that there
is a numbering `pos` of the nodes under which the list is `Good(list, pos)`: the positions
are 1 to `length` (`Numbered`), no node is taller than the level in use (`Heights`), every
link leads to the next node that is tall enough and its span is the difference of the
positions (`Links`), nodes stand in the order of score and member (`Sorted`), no member has
two (`Named`), and the backward links step down by one (`Backs`). The parts need each
other: a search is right only if the spans and the order are, and both are kept only
because the search finds, on every level, the last node before the change.

* *Searches.* A condition that holds of the nodes up to some position `r` and of no other
  (`Marks`) makes every level stop at the last node of that level up to `r`
  (`SearchReaches`). A loop ends where a step changes nothing because the positions grow
  (`LoopEnds`), which is induction by a smallest counterexample again. `insert`, `delete`,
  the ranks and both kinds of ranges are then instances that differ in `r`.
* *Insertions and deletions.* `Cut` describes one level at the place of the change: the node
  before, the link over it and its span. From it alone follow the links of the changed
  list, under positions that shift by one behind the change; one lemma per kind of link
  (`LinkBeside`, `LinkOver`, `LinkTo`, `LinkFrom`; `LinkStays`, `LinkCloses`), then
  `InsertGood` and `DeleteGood`. The former also shows that a node name is always
  free: the bound `MaxCopies` never disables an addition. That a deletion lowers the level
  exactly to the tallest node left is `DeleteLevel`.
* *Answers.* `Place`, which the dictionary determines, is the position of the node
  (`PlaceIs`), by counting the members before it. The nodes that a walk along the lowest
  level visits have consecutive positions (`FromLists`), so the answers of the range
  commands are slices of the order (`RangeIs`, `SliceIs`, `UpToScoreIs`).

**Hash tables.** All five properties hold for any fields, values and hash codes, and for any
initial capacity that is a power of two and at least 4 (8 in the source; the run has 4). The
invariant `Sound(table)` says what each form is: a list without a field twice
(`IsCompact`); chains in the bucket of their fields, counted by `live_count` (`IsChained`);
slots in which every entry is found on the probe path of its field without an empty slot
before it, and in which both counters are cardinalities (`IsOpen`). `ChainLoad` and `Load` add
the load factors.

* *Probing.* The capacity is a power of two in the form "every divisor but 1 is even", which
  doubling and halving keep (`PowersOfTwo`), and the step is odd (`StepIsOdd`), so the
  probes of one path are all different (`OddStep`) and meet every slot (`ProbesCover`). A
  stored field is therefore found where it is (`FindStored`), and for another the
  search ends at an empty slot or at the first tombstone (`FindAbsent`), because the
  load leaves a slot empty.
* *Writing a slot.* Filling a slot, replacing an entry and leaving a tombstone keep what
  `Reach` says of all other entries (`PutIs`, `RewriteIs`, `TombIs`): an empty slot that is
  filled lies on no path to an entry, and a slot never becomes empty again.
* *Loops.* Rehashing, promotion and `hdel` are folds. As for the load of a log, a fold
  is a function on the positions of one sequence (`Runs`, `FinalIs`), and a smallest
  counterexample shows that every state on the way is in order and has the entries
  of the part that was seen (`ResizeOpenOf`, `ResizeChainedOf`, `PromoteOf`, `HdelFieldsIs`).
  Listing a table is a concatenation, described in the same way (`FlattenIs`).
* *Load.* Growth leaves about 0.35 of the slots used, shrinking less than 0.4 (`SetOpenAtIs`,
  `ShrinkLoad`), so no rehash finds its new table full, and a table just shrunk is not
  sparse.
* *The map.* For each form, `SetIs`, `DeleteIs` and `GetIs` say what a method does to the set
  of entries; `Contents` depends on that set alone, and every action of `HashTable` is
  then an action of `HashMap` (`SetStep`, `DeleteStep`, `HdelStep`), also when `hdel`
  raises at its second field.

`CapacityFollowsSize` was first stated as `capacity <= 2 * INITIAL_CAPACITY * liveCount`. That
is true for an initial capacity of 8 and in the run, whose tables end at 16 slots, and false
for one of 4: a table of 64 slots may grow on its tombstones with 14 live entries. The proof
failed there; the bound of ten slots per entry comes from the shrink factor 0.2 and one
growth, and does not depend on the initial capacity.

Model-checked only:

* A sorted set whose scores include NaN: there the properties do not hold.
* `ExpiredKeysGo`, `ConnectionsEnd`, `LogIsClosed`, `EverysecReachesDisk`: liveness under
  fairness.

## 6. Not modelled, and the plan

1. `KV`: an abstract store with one atomic step per command and spontaneous removals
   that the policy and the clock allow; `Keyspace` as its implementation.
2. `Durability` over the commands of `Keyspace` instead of single writes, so that a
   relative command after a failed write of the log is seen to recover differently.
3. Larger instances: three keys in `recovery`, three clients.

Left out for good: RESP encoding as bytes (a pure function; what it decides for a
connection is in `Server`), the arithmetic of MurmurHash3 (a constant function here),
the benchmark, demo and comparison scripts, the environment variables, the build
files, and logging.

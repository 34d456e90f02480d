----------------------------- MODULE Durability -----------------------------
(***************************************************************************)
(* The files of PersistenceManager and the disk under them (persistence.py *)
(* and the shutdown of server.py): when records of the append-only file    *)
(* and snapshots are written, synced and replaced around a command, and    *)
(* what a new process finds after the old one was killed or the power      *)
(* failed.  What commands do to values is Keyspace's; here a write sets or *)
(* deletes one key, may evict others, and may be rolled back.  Syncing a   *)
(* file makes its name durable; replacing a name does not.                 *)
(***************************************************************************)
EXTENDS Integers, Sequences, FiniteSets

CONSTANTS
    Keys, Values, Absent,
    Inputs,    \* the values that commands write
    NoFile,    \* there is no snapshot file
    Partial,   \* a file that holds a part of what was to be written
    Configs,   \* settings the server is run with
    Cut,       \* a value as a snapshot gives it back: of a score, six digits
    MaxLog,    \* bound on the records of the log
    MaxFiles   \* bound on the snapshots that a power failure may bring back

Settings == [aof : BOOLEAN, fsync : {"always", "everysec", "no"}, rdb : BOOLEAN, interval : BOOLEAN]

ASSUME DurabilityAssumption ==
    /\ Keys # {} /\ Absent \notin Values
    /\ Configs \subseteq Settings
    /\ Inputs \subseteq Values /\ Cut \in [Values -> Values]
    /\ MaxLog \in Nat /\ MaxFiles \in Nat

VARIABLES
    config,
    pc,          \* where the process is
    key,         \* the key of the command in progress
    before,      \* what it held before
    mem,         \* the values in memory
    doubtful,    \* keys whose value in memory no reply vouches for
    base,        \* what was loaded from the snapshot under an empty log
    log,         \* the append-only file
    synced,      \* how many of its records are on disk
    rdb,         \* the snapshot file
    rdbs,        \* what may be found in its place after a power failure
    after,       \* where the process goes after the snapshot
    fsyncDue,    \* a second has passed since _last_fsync_at
    saveDue      \* the interval has passed since _last_rdb_save_at

memory == <<key, before, mem, doubtful, base>>
snapshot == <<rdb, rdbs, after, saveDue>>
vars == <<config, pc, memory, log, synced, snapshot, fsyncDue>>

-----------------------------------------------------------------------------
Stores == [Keys -> Values \cup {Absent}]
Empty == [k \in Keys |-> Absent]

\* a record sets a key, or deletes it (the value Absent)
Record(k, v) == <<k, v>>
Records == Keys \X (Values \cup {Absent})

ASSUME PartialAssumption ==
    Partial # NoFile /\ Partial \notin Records /\ Partial \notin Stores

Whole(records) == \A i \in DOMAIN records : records[i] # Partial

\* the last record of a key, as a set of at most one index
LastOf(records, k) ==
    {i \in DOMAIN records :
        records[i][1] = k /\ \A j \in DOMAIN records : records[j][1] = k => j <= i}

\* the records one after the other: the last one of a key decides
Replay(store, records) ==
    [k \in Keys |-> IF LastOf(records, k) = {} THEN store[k]
                    ELSE records[CHOOSE i \in LastOf(records, k) : TRUE][2]]

FirstRecords(n) == SubSeq(log, 1, n)

-----------------------------------------------------------------------------
\* faulty: "always" only when a second has passed
SyncsNowLate == config.fsync \in {"always", "everysec"} /\ fsyncDue

SyncsNow == config.fsync = "always" \/ (config.fsync = "everysec" /\ fsyncDue)

\* _append_command: what may become of one record.  The write may raise,
\* leaving nothing, or be short, which is not noticed; the fsync may raise.
Result(records, count, raised) ==
    [log |-> records, synced |-> count, due |-> fsyncDue /\ (raised \/ ~SyncsNow), raised |-> raised]
OnDisk(count) == IF SyncsNow THEN count ELSE synced

\* faulty: a record counts as synced before its write has raised
AppendedCountsFirst(r) ==
    IF ~config.aof THEN {Result(log, synced, FALSE)}
    ELSE {Result(Append(log, r), OnDisk(Len(log) + 1), FALSE), Result(log, OnDisk(Len(log) + 1), TRUE)}

Appended(r) ==
    IF ~config.aof THEN {Result(log, synced, FALSE)}
    ELSE {Result(Append(log, x), OnDisk(Len(log) + 1), FALSE) : x \in {r, Partial}}
         \cup {Result(log, synced, TRUE)}
         \cup (IF SyncsNow THEN {Result(Append(log, r), synced, TRUE)} ELSE {})

AppendOutcome(a) == log' = a.log /\ synced' = a.synced /\ fsyncDue' = a.due

\* bounds: room for what one command records, and nothing is asked of a server
\* after a write that was short
Bounded == Len(log) + Cardinality(Keys) <= MaxLog /\ Whole(log)

\* maybe_save_rdb, then on to next
MaybeSave(next) ==
    IF config.rdb /\ saveDue /\ Cardinality(rdbs) < MaxFiles
    THEN /\ pc' = "saving"
         /\ after' = next
         /\ UNCHANGED <<rdb, rdbs, saveDue>>
    ELSE pc' = next /\ UNCHANGED snapshot

Raised(next) == pc' = next /\ UNCHANGED snapshot

-----------------------------------------------------------------------------
NoKey == CHOOSE k \in Keys : TRUE
NoCommand == key' = NoKey /\ before' = Absent

\* One command: the value changes, keys are evicted, the record is appended.

\* (a write that changes nothing is left out)
Begin(k, v) ==
    /\ pc = "serving" /\ Bounded
    /\ mem[k] # v
    /\ key' = k
    /\ before' = mem[k]
    /\ mem' = [mem EXCEPT ![k] = v]
    /\ pc' = "writing"
    /\ UNCHANGED <<config, doubtful, base, log, synced, snapshot, fsyncDue>>

\* faulty: an eviction is not recorded
EvictUnrecorded(k) ==
    /\ pc = "writing"
    /\ k # key /\ mem[key] # Absent /\ mem[k] # Absent
    /\ mem' = [mem EXCEPT ![k] = Absent]
    /\ UNCHANGED <<config, pc, key, before, doubtful, base, log, synced, snapshot, fsyncDue>>

\* delete(reason="eviction"): record_delete; an exception answers the command
\* with an error and its own write stays
Evict(k) ==
    /\ pc = "writing"
    /\ k # key /\ mem[key] # Absent /\ mem[k] # Absent
    /\ mem' = [mem EXCEPT ![k] = Absent]
    /\ \E a \in Appended(Record(k, Absent)) :
          /\ AppendOutcome(a)
          /\ IF a.raised
             THEN doubtful' = doubtful \cup {k, key} /\ Raised("serving") /\ NoCommand
             ELSE doubtful' = doubtful \ {k} /\ MaybeSave("writing") /\ UNCHANGED <<key, before>>
    /\ UNCHANGED <<config, base>>

\* MemoryLimitError: the key is restored, nothing is recorded
RollBack ==
    /\ pc = "writing" /\ mem[key] # Absent
    /\ mem' = [mem EXCEPT ![key] = before]
    /\ pc' = "serving" /\ NoCommand
    /\ UNCHANGED <<config, doubtful, base, log, synced, snapshot, fsyncDue>>

\* record_command and the reply, which is an error if either part raises
RecordCommand ==
    /\ pc = "writing"
    /\ \E a \in Appended(Record(key, mem[key])) :
          /\ AppendOutcome(a)
          /\ IF a.raised
             THEN doubtful' = doubtful \cup {key} /\ Raised("serving")
             ELSE doubtful' = doubtful \ {key} /\ MaybeSave("serving")
    /\ NoCommand
    /\ UNCHANGED <<config, mem, base>>

\* the active expiry loop deletes a key; if the record cannot be written the
\* loop ends and the server stops
Expire(k) ==
    /\ pc = "serving" /\ Bounded
    /\ mem[k] # Absent
    /\ mem' = [mem EXCEPT ![k] = Absent]
    /\ \E a \in Appended(Record(k, Absent)) :
          /\ AppendOutcome(a)
          /\ IF a.raised
             THEN doubtful' = doubtful \cup {k} /\ Raised("stopping")
             ELSE doubtful' = doubtful \ {k} /\ MaybeSave("maintaining")
    /\ UNCHANGED <<config, key, before, base>>

-----------------------------------------------------------------------------
\* save_rdb: purge what has expired, write the temporary file and sync it, then
\* replace.  Nothing else runs meanwhile, and nothing reads a temporary file
\* that was left.

\* An exception of it: inside a command that is an error reply, in the
\* maintenance loop the end of the server, at shutdown nothing but a log line.
SaveRaises(keys) ==
    /\ pc' = CASE after = "writing" -> "serving"
               [] after = "maintaining" -> "stopping"
               [] OTHER -> after
    /\ after' = "serving"
    /\ doubtful' = doubtful \cup keys \cup (IF after = "writing" THEN {key} ELSE {})
    /\ NoCommand
    /\ UNCHANGED <<rdb, rdbs, saveDue>>

\* iter_items deletes a key whose deadline has passed, record_delete appends
\* the DEL and starts no other snapshot.  The key of a command that goes on is
\* taken not to expire in the middle of it.
Purge(k) ==
    /\ pc = "saving"
    /\ mem[k] # Absent /\ ~(after = "writing" /\ k = key)
    /\ Len(log) < MaxLog /\ Whole(log)
    /\ mem' = [mem EXCEPT ![k] = Absent]
    /\ \E a \in Appended(Record(k, Absent)) :
          /\ AppendOutcome(a)
          /\ IF a.raised
             THEN SaveRaises({k})
             ELSE doubtful' = doubtful \ {k} /\ UNCHANGED <<pc, key, before, snapshot>>
    /\ UNCHANGED <<config, base>>

\* faulty: no fsync of the temporary file
SaveSyncMissing ==
    /\ pc = "saving"
    /\ rdbs' = rdbs \cup {Partial}
    /\ pc' = "replacing"
    /\ UNCHANGED <<config, memory, log, synced, rdb, after, saveDue, fsyncDue>>

SaveSync ==
    /\ pc = "saving"
    /\ pc' = "replacing"
    /\ UNCHANGED <<config, memory, log, synced, snapshot, fsyncDue>>

SaveReplace ==
    /\ pc = "replacing"
    /\ rdb' = [k \in Keys |-> IF mem[k] = Absent THEN Absent ELSE Cut[mem[k]]]
    /\ rdbs' = rdbs \cup {rdb'}
    /\ saveDue' = FALSE
    /\ pc' = after /\ after' = "serving"
    /\ UNCHANGED <<config, memory, log, synced, fsyncDue>>

\* faulty: close is not in a finally, a failing last snapshot ends the process
SaveFailsUnclosed ==
    /\ pc \in {"saving", "replacing"}
    /\ pc' = CASE after = "writing" -> "serving"
               [] after = "maintaining" -> "stopping"
               [] after = "closing" -> "stopped"
               [] OTHER -> after
    /\ after' = "serving"
    /\ doubtful' = IF after = "writing" THEN doubtful \cup {key} ELSE doubtful
    /\ NoCommand
    /\ UNCHANGED <<config, mem, base, log, synced, rdb, rdbs, saveDue, fsyncDue>>

\* a write, a sync or the replacement raises
SaveFails ==
    /\ pc \in {"saving", "replacing"}
    /\ SaveRaises({})
    /\ UNCHANGED <<config, mem, base, log, synced, fsyncDue>>

\* faulty: the loop serves snapshots only
MaintenanceSavesOnly ==
    /\ pc = "serving"
    /\ MaybeSave("maintaining")
    /\ UNCHANGED <<config, memory, log, synced, fsyncDue>>

\* maintenance
Maintenance ==
    /\ pc = "serving"
    /\ IF config.aof /\ config.fsync = "everysec" /\ fsyncDue
       THEN \/ synced' = Len(log) /\ fsyncDue' = FALSE /\ MaybeSave("maintaining")
            \/ UNCHANGED <<synced, fsyncDue>> /\ Raised("stopping")
       ELSE UNCHANGED <<synced, fsyncDue>> /\ MaybeSave("maintaining")
    /\ UNCHANGED <<config, memory, log>>

\* asyncio.sleep in the loop
Maintained ==
    /\ pc = "maintaining"
    /\ pc' = "serving"
    /\ UNCHANGED <<config, memory, log, synced, snapshot, fsyncDue>>

Tick ==
    /\ pc \notin {"down", "stopped", "refused"}
    /\ \/ config.fsync = "everysec" /\ fsyncDue' = TRUE /\ UNCHANGED saveDue
       \/ config.interval /\ saveDue' = TRUE /\ UNCHANGED fsyncDue
    /\ UNCHANGED <<config, pc, memory, log, synced, rdb, rdbs, after>>

-----------------------------------------------------------------------------
\* Shutdown: save_rdb, and close in its finally.

Stop ==
    /\ pc = "serving"
    /\ pc' = "stopping"
    /\ UNCHANGED <<config, memory, log, synced, snapshot, fsyncDue>>

LastSave ==
    /\ pc = "stopping"
    /\ IF config.rdb
       THEN pc' = "saving" /\ after' = "closing"
       ELSE pc' = "closing" /\ UNCHANGED after
    /\ UNCHANGED <<config, memory, log, synced, rdb, rdbs, saveDue, fsyncDue>>

\* what was in memory only
Forget ==
    /\ NoCommand /\ mem' = Empty /\ doubtful' = {} /\ base' = Empty
    /\ after' = "serving"

\* close; a sync that fails here leaves what a crash leaves
Close ==
    /\ pc = "closing"
    /\ \/ /\ pc' = "stopped"
          /\ synced' = IF config.aof /\ config.fsync # "no" THEN Len(log) ELSE synced
          /\ UNCHANGED <<memory, after>>
       \/ config.aof /\ config.fsync # "no" /\ pc' = "down" /\ Forget /\ UNCHANGED synced
    /\ UNCHANGED <<config, log, rdb, rdbs, saveDue, fsyncDue>>

-----------------------------------------------------------------------------
\* Faults, and a new process.

\* the process is killed: what it wrote stays
Kill ==
    /\ pc \notin {"down", "stopped", "refused"}
    /\ pc' = "down" /\ Forget
    /\ UNCHANGED <<config, log, synced, rdb, rdbs, saveDue, fsyncDue>>

\* what was not synced may be gone from the end of the log, cutting a record
PowerFails ==
    /\ pc # "refused"
    /\ pc' = "down" /\ Forget
    /\ \E n \in synced..Len(log) :
          /\ log' \in {FirstRecords(n)} \cup {Append(FirstRecords(n), Partial) : m \in (n + 1)..Len(log)}
          /\ synced' = Len(log')
    /\ rdb' \in rdbs
    /\ rdbs' = {rdb'}
    /\ UNCHANGED <<config, saveDue, fsyncDue>>

\* load: the log if there is one, else the snapshot; a damaged log is refused
Start ==
    /\ pc \in {"down", "stopped"}
    /\ IF config.aof /\ log # <<>>
       THEN /\ pc' = IF Whole(log) THEN "serving" ELSE "refused"
            /\ mem' = IF Whole(log) THEN Replay(Empty, log) ELSE Empty
            /\ base' = Empty
            /\ saveDue' = FALSE
       ELSE /\ pc' = IF config.rdb /\ rdb = Partial THEN "refused" ELSE "serving"
            /\ mem' = IF config.rdb /\ rdb \in Stores THEN rdb ELSE Empty
            /\ base' = IF config.aof THEN mem' ELSE Empty
            /\ saveDue' = (config.interval /\ ~(config.rdb /\ rdb \in Stores))
    \* a value that was written but not synced before is not vouched for
    /\ doubtful' = {k \in Keys : Whole(log) /\ \E n \in synced..Len(log) :
                                   Replay(Empty, FirstRecords(n))[k] # Replay(Empty, log)[k]}
    /\ fsyncDue' = TRUE
    /\ NoCommand
    /\ after' = "serving"
    /\ UNCHANGED <<config, log, synced, rdb, rdbs>>

Refused == pc = "refused" /\ UNCHANGED vars

-----------------------------------------------------------------------------
Init ==
    /\ config \in Configs
    /\ pc = "serving"
    /\ key = NoKey
    /\ before = Absent
    /\ mem = Empty
    /\ doubtful = {}
    /\ base = Empty
    /\ log = <<>>
    /\ synced = 0
    /\ rdb = NoFile
    /\ rdbs = {NoFile}
    /\ after = "serving"
    /\ fsyncDue = TRUE
    /\ saveDue = config.interval

Next ==
    \/ \E k \in Keys : Evict(k) \/ Expire(k) \/ \E v \in Inputs \cup {Absent} : Begin(k, v)
    \/ RollBack \/ RecordCommand
    \/ (\E k \in Keys : Purge(k)) \/ SaveSync \/ SaveReplace \/ SaveFails
    \/ Maintenance \/ Maintained \/ Tick
    \/ Stop \/ LastSave \/ Close
    \/ Kill \/ PowerFails \/ Start \/ Refused

Spec == Init /\ [][Next]_vars

\* The event loop runs the maintenance loop, due every 0.1 s, in its turn, and
\* what a task has begun goes on until it suspends.
Goes == RollBack \/ RecordCommand \/ SaveSync \/ SaveReplace \/ SaveFails \/ Maintained \/ LastSave \/ Close

FairSpec == Spec /\ WF_vars(Goes) /\ SF_vars(Maintenance) /\ WF_vars(Tick)

-----------------------------------------------------------------------------
TypeOK ==
    /\ config \in Configs
    /\ pc \in {"serving", "writing", "saving", "replacing", "maintaining", "stopping", "closing",
              "stopped", "down", "refused"}
    /\ key \in Keys /\ before \in Values \cup {Absent}
    /\ mem \in Stores /\ base \in Stores
    /\ doubtful \subseteq Keys
    /\ log \in Seq(Records \cup {Partial})
    /\ synced \in 0..Len(log)
    /\ rdbs \subseteq Stores \cup {NoFile} /\ rdb \in rdbs
    /\ after \in {"serving", "writing", "maintaining", "closing"}
    /\ fsyncDue \in BOOLEAN /\ saveDue \in BOOLEAN

Up == pc \notin {"down", "stopped", "refused"}
InCommand == pc = "writing" \/ (pc \in {"saving", "replacing"} /\ after = "writing")

\* the keys whose value a client may rely on now
Settled == {k \in Keys : k \notin doubtful /\ ~(InCommand /\ k = key)}

\* the log begins where an empty store was, and no write of it was short
Plain == base = Empty /\ Whole(log)

\* A new process loads from the log the values that clients were told of,
\* wherever the old one was killed: evictions inside a command, rolled back
\* writes, snapshots between two records and failed writes of the log included
\* (README: the state after evictions survives a restart).
RestartKeepsMemory ==
    Up /\ config.aof /\ Plain => \A k \in Settled : Replay(Empty, log)[k] = mem[k]

\* "always: fsync of the AOF is complete before a normal reply": so it does
\* after a power failure, wherever that cuts the log.
AlwaysIsDurable ==
    Up /\ config.aof /\ config.fsync = "always" /\ Plain =>
        \A n \in synced..Len(log) : \A k \in Settled : Replay(Empty, FirstRecords(n))[k] = mem[k]

\* A server that ended by itself, asked to or because a worker failed, and
\* whether its last snapshot failed or not, has everything on disk that it
\* would load (start: close is in the finally of save_rdb).
StopKeepsMemory ==
    pc = "stopped" /\ config.aof /\ config.fsync # "no" /\ Plain =>
        /\ synced = Len(log)
        /\ \A k \in Keys \ doubtful : Replay(Empty, log)[k] = mem[k]

\* A snapshot replaces the older one as a whole: wherever the process or the
\* power fails, the file that is found was written to its end (save_rdb: fsync
\* before os.replace), so the server starts, and it refuses a damaged log only.
SnapshotIsWhole == rdb # Partial /\ Partial \notin rdbs /\ (pc = "refused" => config.aof /\ ~Whole(log))

\* everysec: a record reaches the disk even if no client writes any more,
\* unless the server goes down before (maintenance).
EverysecReachesDisk ==
    (Up /\ config.aof /\ config.fsync = "everysec" /\ synced < Len(log)) ~> (synced = Len(log) \/ ~Up)
=============================================================================

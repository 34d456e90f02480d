------------------------------ MODULE Recovery ------------------------------
(***************************************************************************)
(* Restarts of the server from its append-only file                        *)
(* (PersistenceManager.load, replay_aof): the log is dispatched, record by *)
(* record, into an empty store without a memory limit, and the limit is    *)
(* enforced once at the end.  A power failure may take records from the    *)
(* end of the log that were not fsynced yet.                               *)
(***************************************************************************)
EXTENDS Keyspace

CONSTANTS
    PowerLoss,     \* MINI_REDIS_AOF_FSYNC is not "always", and power may fail
    EvictingLoads  \* behaviours include loads that exceed the limit and must evict

ASSUME RestartAssumption == PowerLoss \in BOOLEAN /\ EvictingLoads \in BOOLEAN

-----------------------------------------------------------------------------
\* the store of a new process: empty, persistence suspended, no limit
Fresh == [data |-> [k \in Keys |-> Missing], sizes |-> [k \in Keys |-> 0], used |-> 0,
          access |-> [k \in Keys |-> 0], clock |-> 0, expiry |-> [k \in Keys |-> 0],
          now |-> now, limit |-> 0, policy |-> config.policy, logging |-> FALSE,
          log |-> <<>>]

\* one record dispatched on each store loaded so far; an error stops the load
ReplayRecord(loaded, c) ==
    UNION {IF l.reply = "error" THEN {l}
           ELSE {Outcome(o.store, IF o.reply = "error" THEN "error" ELSE "ok") :
                    o \in Dispatch(l.store, c)} : l \in loaded}

\* without a limit and without bad fields a handler has one outcome
ReplayStream(log) == FoldLeft(ReplayRecord, {Outcome(Fresh, "ok")}, log)

\* replay_aof: the stream, then enforce_memory_limit
ReplayAof(log) ==
    UNION {IF l.reply = "error" THEN {l}
           ELSE EnforceMaxmemory([l.store EXCEPT !.limit = config.limit], {}) :
              l \in ReplayStream(log)}

Fits(s) == config.limit = 0 \/ s.used <= config.limit

\* the process ends and a new one loads the log; it starts if the load succeeds
Restart ==
    \E n \in 0..Len(aof) :
        /\ n = Len(aof) \/ PowerLoss
        /\ EvictingLoads \/ \A l \in ReplayStream(SubSeq(aof, 1, n)) : Fits(l.store)
        /\ \E o \in ReplayAof(SubSeq(aof, 1, n)) :
              /\ o.reply = "ok"
              /\ Become([o.store EXCEPT !.log = SubSeq(aof, 1, n)])
        /\ last' = Idle

RecoveryNext == Next \/ Restart

RecoverySpec == Init /\ [][RecoveryNext]_vars

\* active_expiry_loop is a task of its own that never ends
FairRecoverySpec == RecoverySpec /\ WF_vars(ExpireCycle)

-----------------------------------------------------------------------------
\* no deadline in the log has passed by the time the log would be replayed
NoStaleDeadline ==
    \A i \in DOMAIN aof : aof[i].op = "PEXPIREAT" => aof[i].at * MsTicks > now

Recovered == ReplayAof(aof)

\* Restarting now gives every key the value it has, whatever was evicted,
\* expired or rolled back since: the deletions the store makes on its own and
\* the records of the commands are in the log in an order that replays to
\* the live values (README: the state after evictions survives a restart).
RecoversValues ==
    NoStaleDeadline /\ Fits(Store) =>
        \A o \in Recovered : o.reply = "ok" /\ o.store.data = data

\* ... and the same deadlines, cut to whole milliseconds.
RecoversDeadlines ==
    (NoStaleDeadline /\ Fits(Store) /\ config.policy \in {"noeviction", "allkeys-lru"}) =>
        \A o \in Recovered : \A k \in Live :
            o.store.expiry[k] = (expiry[k] \div MsTicks) * MsTicks

\* "TCP server that stores values and recovers them after a restart": a key
\* that is alive is there after a restart, with the same value.
LiveKeysSurvive ==
    Fits(Store) => \A o \in Recovered : \A k \in Live :
        ~Due(k) => o.store.data[k] = data[k]

\* A key that a client deleted does not come back by a restart.
DeletedKeysStayDeleted ==
    \A o \in Recovered : \A k \in Keys \ Live : o.store.data[k] = Missing
=============================================================================

-------------------------- MODULE Durability_proof --------------------------
(***************************************************************************)
(* The safety properties of Durability for every set of keys and values,   *)
(* every setting and every bound.                                          *)
(***************************************************************************)
EXTENDS Durability, TLAPS

-----------------------------------------------------------------------------
(***************************************************************************)
(* Replay and prefixes of the log.                                         *)
(***************************************************************************)
Items == Records \cup {Partial}

LEMMA EmptyIsAStore == Empty \in Stores
BY DEF Empty, Stores

LEMMA WholeIsRecords ==
    ASSUME NEW s \in Seq(Items), Whole(s)
    PROVE  s \in Seq(Records)
BY DEF Whole, Items

LEMMA WholeAppend ==
    ASSUME NEW s \in Seq(Items), NEW x \in Items, Whole(Append(s, x))
    PROVE  Whole(s) /\ x \in Records
<1>1. \A i \in DOMAIN s : i \in DOMAIN Append(s, x) /\ Append(s, x)[i] = s[i]
  OBVIOUS
<1>2. Len(s) + 1 \in DOMAIN Append(s, x) /\ Append(s, x)[Len(s) + 1] = x
  OBVIOUS
<1> QED
  BY <1>1, <1>2 DEF Whole, Items

LEMMA AppendWhole ==
    ASSUME NEW s \in Seq(Items), Whole(s), NEW x \in Records
    PROVE  Whole(Append(s, x))
<1>1. s \in Seq(Records)
  BY WholeIsRecords
<1>2. Append(s, x) \in Seq(Records)
  BY <1>1
<1> QED
  BY <1>2, PartialAssumption DEF Whole

LEMMA ReplayIsAStore ==
    ASSUME NEW store \in Stores, NEW s \in Seq(Records)
    PROVE  Replay(store, s) \in Stores
<1>1. ASSUME NEW k \in Keys, LastOf(s, k) # {}
      PROVE  s[CHOOSE i \in LastOf(s, k) : TRUE][2] \in Values \cup {Absent}
  <2>1. (CHOOSE i \in LastOf(s, k) : TRUE) \in DOMAIN s
    BY <1>1 DEF LastOf
  <2> QED
    BY <2>1 DEF Records
<1> QED
  BY <1>1 DEF Replay, Stores

LEMMA ReplayNothing == Replay(Empty, <<>>) = Empty
<1>1. \A k : LastOf(<<>>, k) = {}
  BY DEF LastOf
<1> QED
  BY <1>1 DEF Replay, Empty

\* A record changes the value of its key and no other.
LEMMA ReplayAppend ==
    ASSUME NEW store, NEW s \in Seq(Records), NEW r \in Records, NEW k \in Keys
    PROVE  /\ k = r[1] => Replay(store, Append(s, r))[k] = r[2]
           /\ k # r[1] => Replay(store, Append(s, r))[k] = Replay(store, s)[k]
<1> DEFINE t == Append(s, r)
<1>1. /\ t \in Seq(Records) /\ Len(t) = Len(s) + 1 /\ t[Len(s) + 1] = r
      /\ DOMAIN t = 1..Len(s) + 1 /\ DOMAIN s = 1..Len(s) /\ Len(s) \in Nat
      /\ \A i \in 1..Len(s) : t[i] = s[i]
  OBVIOUS
<1> HIDE DEF t
<1>2. CASE k = r[1]
  <2>1. LastOf(t, k) = {Len(s) + 1}
    BY <1>1, <1>2 DEF LastOf
  <2>2. (CHOOSE i \in LastOf(t, k) : TRUE) = Len(s) + 1
    BY <2>1
  <2> QED
    BY <1>1, <1>2, <2>1, <2>2 DEF Replay, t
<1>3. CASE k # r[1]
  <2>1. LastOf(t, k) = LastOf(s, k)
    BY <1>1, <1>3 DEF LastOf
  <2>2. LastOf(s, k) # {} => (CHOOSE i \in LastOf(s, k) : TRUE) \in 1..Len(s)
    BY <1>1 DEF LastOf
  <2> QED
    BY <1>1, <1>3, <2>1, <2>2 DEF Replay, t
<1> QED
  BY <1>2, <1>3

LEMMA Prefixes ==
    ASSUME NEW S, NEW s \in Seq(S), NEW x \in S, NEW n \in 0..Len(s)
    PROVE  /\ SubSeq(s, 1, n) \in Seq(S) /\ Len(SubSeq(s, 1, n)) = n
           /\ SubSeq(s, 1, Len(s)) = s
           /\ SubSeq(Append(s, x), 1, n) = SubSeq(s, 1, n)
           /\ SubSeq(Append(s, x), 1, Len(s) + 1) = Append(s, x)
  OBVIOUS

-----------------------------------------------------------------------------
(***************************************************************************)
(* Types.                                                                  *)
(***************************************************************************)
LEMMA NoKeyIsAKey == NoKey \in Keys
BY DurabilityAssumption DEF NoKey

\* What _append_command may leave behind.
LEMMA AppendedShape ==
    ASSUME TypeOK, NEW r \in Records, NEW a \in Appended(r)
    PROVE  \/ ~config.aof /\ ~a.raised /\ a.log = log /\ a.synced = synced
           \/ /\ config.aof /\ ~a.raised
              /\ a.log \in {Append(log, r), Append(log, Partial)}
              /\ a.synced = OnDisk(Len(log) + 1)
           \/ /\ config.aof /\ a.raised
              /\ a.log \in {log, Append(log, r)}
              /\ a.synced = synced
<1>1. CASE ~config.aof
  <2>1. a = Result(log, synced, FALSE)
    BY <1>1 DEF Appended
  <2>2. a.log = log /\ a.synced = synced /\ ~a.raised
    BY <2>1 DEF Result
  <2> QED
    BY <1>1, <2>2
<1>2. CASE config.aof
  <2>1. CASE a \in {Result(Append(log, x), OnDisk(Len(log) + 1), FALSE) : x \in {r, Partial}}
    <3>1. PICK x \in {r, Partial} : a = Result(Append(log, x), OnDisk(Len(log) + 1), FALSE)
      BY <2>1
    <3>2. a.log = Append(log, x) /\ a.synced = OnDisk(Len(log) + 1) /\ ~a.raised
      BY <3>1 DEF Result
    <3> QED
      BY <1>2, <3>1, <3>2
  <2>2. CASE a = Result(log, synced, TRUE)
    <3>1. a.log = log /\ a.synced = synced /\ a.raised
      BY <2>2 DEF Result
    <3> QED
      BY <1>2, <3>1
  <2>3. CASE a = Result(Append(log, r), synced, TRUE)
    <3>1. a.log = Append(log, r) /\ a.synced = synced /\ a.raised
      BY <2>3 DEF Result
    <3> QED
      BY <1>2, <3>1
  <2> QED
    BY <1>2, <2>1, <2>2, <2>3 DEF Appended
<1> QED
  BY <1>1, <1>2

LEMMA AppendedDue ==
    ASSUME NEW r, NEW a \in Appended(r)
    PROVE  a.due \in BOOLEAN
<1>1. \E l, c, b : a = [log |-> l, synced |-> c, due |-> fsyncDue /\ (b \/ ~SyncsNow), raised |-> b]
  BY DEF Appended, Result
<1>2. \E b : a.due = (fsyncDue /\ (b \/ ~SyncsNow))
  BY <1>1
<1> QED
  BY <1>2, Zenon

LEMMA AppendedType ==
    ASSUME TypeOK, NEW r \in Records, NEW a \in Appended(r), AppendOutcome(a)
    PROVE  log' \in Seq(Items) /\ synced' \in 0..Len(log') /\ fsyncDue' \in BOOLEAN
<1>1. log \in Seq(Items) /\ synced \in 0..Len(log) /\ r \in Items /\ Partial \in Items
  BY DEF TypeOK, Items
<1>2. Append(log, r) \in Seq(Items) /\ Append(log, Partial) \in Seq(Items)
  BY <1>1
<1>3. Len(Append(log, r)) = Len(log) + 1 /\ Len(Append(log, Partial)) = Len(log) + 1 /\ Len(log) \in Nat
  BY <1>1
<1>4. fsyncDue' = a.due /\ log' = a.log /\ synced' = a.synced
  BY DEF AppendOutcome
<1>5. a.log \in {log, Append(log, r), Append(log, Partial)}
  BY AppendedShape
<1>6. a.synced = synced \/ (a.synced = Len(log) + 1 /\ a.log \in {Append(log, r), Append(log, Partial)})
  BY AppendedShape DEF OnDisk
<1>7. log' \in Seq(Items) /\ synced' \in 0..Len(log')
  BY <1>1, <1>2, <1>3, <1>4, <1>5, <1>6
<1> QED
  BY <1>4, <1>7, AppendedDue, Zenon

LEMMA MaybeSaveShape ==
    ASSUME NEW next, MaybeSave(next)
    PROVE  /\ rdb' = rdb /\ rdbs' = rdbs /\ saveDue' = saveDue
           /\ \/ pc' = next /\ after' = after
              \/ pc' = "saving" /\ after' = next
BY DEF MaybeSave, snapshot

LEMMA RaisedShape ==
    ASSUME NEW next, Raised(next)
    PROVE  pc' = next /\ rdb' = rdb /\ rdbs' = rdbs /\ saveDue' = saveDue /\ after' = after
BY DEF Raised, snapshot

LEMMA SaveRaisesShape ==
    ASSUME TypeOK, NEW S \in SUBSET Keys, SaveRaises(S)
    PROVE  /\ pc' \in {"serving", "stopping", "maintaining", "closing"} /\ after' = "serving"
           /\ doubtful' \subseteq Keys /\ doubtful \subseteq doubtful' /\ S \subseteq doubtful'
           /\ after = "writing" => key \in doubtful'
           /\ key' \in Keys /\ before' \in Values \cup {Absent}
           /\ rdb' = rdb /\ rdbs' = rdbs /\ saveDue' = saveDue
<1>1. after \in {"serving", "writing", "maintaining", "closing"} /\ key \in Keys /\ doubtful \subseteq Keys
  BY DEF TypeOK
<1>2. pc' \in {"serving", "stopping", "maintaining", "closing"}
  BY <1>1 DEF SaveRaises
<1> QED
  BY <1>1, <1>2, NoKeyIsAKey DEF SaveRaises, NoCommand

LEMMA TypeInit == Init => TypeOK
<1> SUFFICES ASSUME Init PROVE TypeOK
  OBVIOUS
<1>1. log \in Seq(Records \cup {Partial}) /\ synced \in 0..Len(log)
  BY DEF Init
<1>2. config.interval \in BOOLEAN /\ config \in Configs
  BY DurabilityAssumption DEF Init, Settings
<1> QED
  BY <1>1, <1>2, NoKeyIsAKey, EmptyIsAStore DEF Init, TypeOK

LEMMA TypeStep == TypeOK /\ [Next]_vars => TypeOK'
<1> SUFFICES ASSUME TypeOK, [Next]_vars PROVE TypeOK'
  OBVIOUS
<1> USE NoKeyIsAKey, EmptyIsAStore
<1>0. \A m \in Stores, k \in Keys, v \in Values \cup {Absent} :
         m[k] \in Values \cup {Absent} /\ [m EXCEPT ![k] = v] \in Stores
  BY DEF Stores
<1>1. ASSUME NEW k \in Keys, NEW v \in Inputs \cup {Absent}, Begin(k, v) PROVE TypeOK'
  <2>1. mem' \in Stores /\ mem[k] \in Values \cup {Absent}
    BY <1>0, <1>1, DurabilityAssumption DEF Begin, TypeOK
  <2> QED
    BY <1>1, <2>1 DEF Begin, TypeOK, snapshot
<1>2. ASSUME NEW k \in Keys, Evict(k) PROVE TypeOK'
  <2>1. PICK a \in Appended(Record(k, Absent)) :
          /\ AppendOutcome(a)
          /\ IF a.raised
             THEN doubtful' = doubtful \cup {k, key} /\ Raised("serving") /\ NoCommand
             ELSE doubtful' = doubtful \ {k} /\ MaybeSave("writing") /\ UNCHANGED <<key, before>>
    BY <1>2 DEF Evict
  <2>2. Record(k, Absent) \in Records
    BY DEF Record, Records
  <2>3. log' \in Seq(Items) /\ synced' \in 0..Len(log') /\ fsyncDue' \in BOOLEAN
    BY <2>1, <2>2, AppendedType
  <2>4. mem' \in Stores /\ config' = config /\ base' = base
    BY <1>0, <1>2 DEF Evict, TypeOK
  <2>5. doubtful' \subseteq Keys /\ key' \in Keys /\ before' \in Values \cup {Absent}
    BY <2>1 DEF TypeOK, NoCommand
  <2>6. pc' \in {"serving", "writing", "saving"} /\ after' \in {after, "writing"}
        /\ rdb' = rdb /\ rdbs' = rdbs /\ saveDue' = saveDue
    BY <2>1, MaybeSaveShape, RaisedShape
  <2> QED
    BY <2>3, <2>4, <2>5, <2>6 DEF TypeOK, Items
<1>3. ASSUME RollBack PROVE TypeOK'
  BY <1>0, <1>3 DEF RollBack, NoCommand, TypeOK, snapshot
<1>4. ASSUME RecordCommand PROVE TypeOK'
  <2>1. PICK a \in Appended(Record(key, mem[key])) :
          /\ AppendOutcome(a)
          /\ IF a.raised
             THEN doubtful' = doubtful \cup {key} /\ Raised("serving")
             ELSE doubtful' = doubtful \ {key} /\ MaybeSave("serving")
    BY <1>4 DEF RecordCommand
  <2>2. Record(key, mem[key]) \in Records
    BY <1>0 DEF Record, Records, TypeOK
  <2>3. log' \in Seq(Items) /\ synced' \in 0..Len(log') /\ fsyncDue' \in BOOLEAN
    BY <2>1, <2>2, AppendedType
  <2>4. mem' = mem /\ config' = config /\ base' = base /\ key' \in Keys /\ before' \in Values \cup {Absent}
    BY <1>4 DEF RecordCommand, NoCommand
  <2>5. doubtful' \subseteq Keys
    BY <2>1 DEF TypeOK
  <2>6. pc' \in {"serving", "saving"} /\ after' \in {after, "serving"}
        /\ rdb' = rdb /\ rdbs' = rdbs /\ saveDue' = saveDue
    BY <2>1, MaybeSaveShape, RaisedShape
  <2> QED
    BY <2>3, <2>4, <2>5, <2>6 DEF TypeOK, Items
<1>5. ASSUME NEW k \in Keys, Expire(k) PROVE TypeOK'
  <2>1. PICK a \in Appended(Record(k, Absent)) :
          /\ AppendOutcome(a)
          /\ IF a.raised
             THEN doubtful' = doubtful \cup {k} /\ Raised("stopping")
             ELSE doubtful' = doubtful \ {k} /\ MaybeSave("maintaining")
    BY <1>5 DEF Expire
  <2>2. Record(k, Absent) \in Records
    BY DEF Record, Records
  <2>3. log' \in Seq(Items) /\ synced' \in 0..Len(log') /\ fsyncDue' \in BOOLEAN
    BY <2>1, <2>2, AppendedType
  <2>4. mem' \in Stores /\ UNCHANGED <<config, key, before, base>>
    BY <1>0, <1>5 DEF Expire, TypeOK
  <2>5. doubtful' \subseteq Keys
    BY <2>1 DEF TypeOK
  <2>6. pc' \in {"stopping", "maintaining", "saving"} /\ after' \in {after, "maintaining"}
        /\ rdb' = rdb /\ rdbs' = rdbs /\ saveDue' = saveDue
    BY <2>1, MaybeSaveShape, RaisedShape
  <2> QED
    BY <2>3, <2>4, <2>5, <2>6 DEF TypeOK, Items
<1>6. ASSUME SaveSync \/ SaveReplace PROVE TypeOK'
  <2>1. CASE SaveSync
    BY <2>1 DEF SaveSync, TypeOK, memory, snapshot
  <2>2. CASE SaveReplace
    <3>1. rdb' \in Stores
      BY <2>2, DurabilityAssumption DEF SaveReplace, TypeOK, Stores
    <3> QED
      BY <2>2, <3>1 DEF SaveReplace, TypeOK, memory
  <2> QED
    BY <1>6, <2>1, <2>2
<1>7. ASSUME SaveFails PROVE TypeOK'
  <2>1. SaveRaises({}) /\ UNCHANGED <<config, mem, base, log, synced, fsyncDue>>
    BY <1>7 DEF SaveFails
  <2> QED
    BY <2>1, SaveRaisesShape DEF TypeOK
<1>15. ASSUME NEW k \in Keys, Purge(k) PROVE TypeOK'
  <2>1. PICK a \in Appended(Record(k, Absent)) :
          /\ AppendOutcome(a)
          /\ IF a.raised
             THEN SaveRaises({k})
             ELSE doubtful' = doubtful \ {k} /\ UNCHANGED <<pc, key, before, snapshot>>
    BY <1>15 DEF Purge
  <2>2. Record(k, Absent) \in Records
    BY DEF Record, Records
  <2>3. log' \in Seq(Items) /\ synced' \in 0..Len(log') /\ fsyncDue' \in BOOLEAN
    BY <2>1, <2>2, AppendedType
  <2>4. mem' \in Stores /\ UNCHANGED <<config, base>>
    BY <1>0, <1>15 DEF Purge, TypeOK
  <2>5. /\ doubtful' \subseteq Keys /\ key' \in Keys /\ before' \in Values \cup {Absent}
        /\ pc' \in {pc, "serving", "writing", "maintaining", "stopping", "closing"}
        /\ after' \in {after, "serving"}
        /\ rdb' = rdb /\ rdbs' = rdbs /\ saveDue' = saveDue
    BY <2>1, SaveRaisesShape DEF TypeOK, snapshot
  <2> QED
    BY <2>3, <2>4, <2>5 DEF TypeOK, Items
<1>8. ASSUME Maintenance PROVE TypeOK'
  <2>1. UNCHANGED <<config, key, before, mem, doubtful, base, log>>
    BY <1>8 DEF Maintenance, memory
  <2>0. Len(log) \in Nat
    BY DEF TypeOK
  <2>2. (synced' = Len(log) /\ fsyncDue' = FALSE) \/ UNCHANGED <<synced, fsyncDue>>
    BY <1>8 DEF Maintenance
  <2>3. fsyncDue' \in BOOLEAN
    BY <2>2, Zenon DEF TypeOK
  <2>4. synced' \in 0..Len(log)
    BY <2>0, <2>2 DEF TypeOK
  <2>5. MaybeSave("maintaining") \/ Raised("stopping")
    BY <1>8 DEF Maintenance
  <2>6. pc' \in {"stopping", "maintaining", "saving"} /\ after' \in {after, "maintaining"}
        /\ rdb' = rdb /\ rdbs' = rdbs /\ saveDue' = saveDue
    BY <2>5, MaybeSaveShape, RaisedShape
  <2> QED
    BY <2>1, <2>3, <2>4, <2>6 DEF TypeOK
<1>9. ASSUME Maintained \/ Stop \/ LastSave \/ Kill \/ Refused PROVE TypeOK'
  BY <1>9 DEF Maintained, Stop, LastSave, Kill, Refused, Forget, NoCommand, TypeOK, memory, snapshot, vars
<1>10. ASSUME Tick PROVE TypeOK'
  BY <1>10 DEF Tick, TypeOK, memory
<1>11. ASSUME Close PROVE TypeOK'
  <2>1. synced' \in 0..Len(log)
    BY <1>11 DEF Close, TypeOK
  <2> QED
    BY <1>11, <2>1 DEF Close, Forget, NoCommand, TypeOK, memory
<1>12. ASSUME PowerFails PROVE TypeOK'
  <2>1. PICK n \in synced..Len(log) :
          /\ log' \in {FirstRecords(n)} \cup {Append(FirstRecords(n), Partial) : m \in (n + 1)..Len(log)}
          /\ synced' = Len(log')
    BY <1>12 DEF PowerFails
  <2>2. log \in Seq(Items) /\ n \in 0..Len(log) /\ Partial \in Items
    BY <2>1 DEF TypeOK, Items
  <2>3. FirstRecords(n) \in Seq(Items)
    BY <2>2, Prefixes DEF FirstRecords
  <2>4. Append(FirstRecords(n), Partial) \in Seq(Items)
    BY <2>2, <2>3
  <2>5. log' \in Seq(Items) /\ synced' \in 0..Len(log')
    BY <2>1, <2>3, <2>4
  <2> QED
    BY <1>12, <2>5 DEF PowerFails, Forget, NoCommand, TypeOK, Items
<1>13. ASSUME Start PROVE TypeOK'
  <2>1. mem' \in Stores /\ base' \in Stores
    <3>1. CASE config.aof /\ log # <<>>
      <4>1. Whole(log) => Replay(Empty, log) \in Stores
        BY WholeIsRecords, ReplayIsAStore DEF TypeOK, Items
      <4> QED
        BY <1>13, <3>1, <4>1 DEF Start
    <3>2. CASE ~(config.aof /\ log # <<>>)
      BY <1>13, <3>2 DEF Start
    <3> QED
      BY <3>1, <3>2
  <2>2. saveDue' \in BOOLEAN
    BY <1>13, DurabilityAssumption DEF Start, TypeOK, Settings
  <2>3. pc' \in {"serving", "refused"} /\ doubtful' \subseteq Keys
    BY <1>13 DEF Start
  <2> QED
    BY <1>13, <2>1, <2>2, <2>3 DEF Start, NoCommand, TypeOK
<1>14. CASE UNCHANGED vars
  BY <1>14 DEF vars, memory, snapshot, TypeOK
<1> QED
  BY <1>1, <1>2, <1>3, <1>4, <1>5, <1>6, <1>7, <1>8, <1>9, <1>10, <1>11, <1>12, <1>13, <1>14, <1>15 DEF Next

\* Every variable keeps its type; no record is said to be on disk that the log
\* does not have.
THEOREM TypeCorrect == Spec => []TypeOK
BY TypeInit, TypeStep, PTL DEF Spec

-----------------------------------------------------------------------------
(***************************************************************************)
(* The invariant.  While the process is up, replaying the log gives what   *)
(* is in memory for every settled key, and for the key of the command in   *)
(* progress what it held before, which is what a rollback puts back.  A    *)
(* stop then finds the values its log has, and under "always" a prefix     *)
(* that a power failure may leave differs from the log in doubtful keys    *)
(* only.                                                                   *)
(***************************************************************************)
Logged(k) == Replay(Empty, log)[k]

Remembered ==
    Up /\ config.aof /\ Plain =>
        /\ \A k \in Settled : Logged(k) = mem[k]
        /\ InCommand /\ key \notin doubtful => Logged(key) = before

SyncedEnough ==
    Up /\ config.aof /\ config.fsync = "always" /\ Plain =>
        \A n \in synced..Len(log) : \A k \in Keys \ doubtful : Replay(Empty, FirstRecords(n))[k] = Logged(k)

Refusal == pc = "refused" => config.aof /\ ~Whole(log)

Kept == Remembered /\ SyncedEnough /\ StopKeepsMemory /\ Refusal

\* A step that leaves the log and the memory alone and vouches for no key that
\* was not vouched for.
LEMMA Quiet ==
    ASSUME TypeOK, Remembered, SyncedEnough, Up,
           UNCHANGED <<config, mem, base, log>>, doubtful \subseteq doubtful',
           Settled' \subseteq Settled,
           InCommand' => InCommand /\ key' = key /\ before' = before,
           synced' \in {synced, Len(log)}
    PROVE  Remembered' /\ SyncedEnough'
<1>1. Plain' => Plain
  BY DEF Plain, Whole
<1>2. Remembered'
  BY <1>1 DEF Remembered, Logged
<1>3. SyncedEnough'
  <2>1. synced'..Len(log) \subseteq synced..Len(log)
    <3>1. Len(log) \in Nat /\ synced \in 0..Len(log)
      BY DEF TypeOK
    <3> QED
      BY <3>1
  <2>2. \A n : FirstRecords(n)' = FirstRecords(n)
    BY DEF FirstRecords
  <2> QED
    BY <1>1, <2>1, <2>2 DEF SyncedEnough, Logged
<1> QED
  BY <1>2, <1>3

LEMMA Down ==
    ASSUME ~Up'
    PROVE  Remembered' /\ SyncedEnough'
BY DEF Remembered, SyncedEnough

\* What a step that appends does to the replayed values.
LEMMA AppendLogs ==
    ASSUME TypeOK, NEW r \in Records, NEW a \in Appended(r), AppendOutcome(a),
           UNCHANGED <<config, base>>, config.aof, Plain'
    PROVE  /\ Plain
           /\ \/ a.raised /\ log' = log
              \/ \A k \in Keys : Logged(k)' = IF k = r[1] THEN r[2] ELSE Logged(k)
<1>1. log \in Seq(Items) /\ r \in Items /\ Partial \in Items
  BY DEF TypeOK, Items
<1>2. CASE a.raised /\ log' = log
  BY <1>2 DEF Plain, Whole
<1>3. CASE log' = Append(log, r)
  <2>1. Whole(log')
    BY DEF Plain, Whole
  <2>2. Whole(log)
    BY <1>1, <1>3, <2>1, WholeAppend
  <2>3. log \in Seq(Records)
    BY <1>1, <2>2, WholeIsRecords
  <2>4. \A k \in Keys : /\ k = r[1] => Replay(Empty, Append(log, r))[k] = r[2]
                        /\ k # r[1] => Replay(Empty, Append(log, r))[k] = Replay(Empty, log)[k]
    BY <2>3, ReplayAppend, Zenon
  <2>5. \A k \in Keys : Logged(k)' = Replay(Empty, Append(log, r))[k]
    BY <1>3 DEF Logged
  <2>6. Plain
    BY <2>2 DEF Plain
  <2> QED
    BY <2>4, <2>5, <2>6 DEF Logged
<1>4. CASE log' = Append(log, Partial)
  <2>1. Whole(log')
    BY DEF Plain, Whole
  <2> QED
    BY <1>1, <1>4, <2>1, WholeAppend, PartialAssumption
<1> QED
  BY <1>2, <1>3, <1>4, AppendedShape DEF AppendOutcome

\* Under "always" a record that is not synced is one whose key is in doubt.
LEMMA AppendSyncs ==
    ASSUME TypeOK, SyncedEnough, Up, NEW r \in Records, NEW a \in Appended(r), AppendOutcome(a),
           UNCHANGED <<config, base>>,
           a.raised => doubtful \subseteq doubtful' /\ r[1] \in doubtful'
    PROVE  SyncedEnough'
<1> SUFFICES ASSUME config.aof, config.fsync = "always", Plain',
                    NEW n \in synced'..Len(log'), NEW k \in Keys \ doubtful'
             PROVE  Replay(Empty, FirstRecords(n)')[k] = Logged(k)'
  BY DEF SyncedEnough
<1>1. Plain
  BY AppendLogs
<1>2. log \in Seq(Items) /\ log \in Seq(Records) /\ Len(log) \in Nat /\ synced \in 0..Len(log)
  BY <1>1, WholeIsRecords DEF TypeOK, Items, Plain
<1>3. CASE n = Len(log')
  <2>1. log' \in Seq(Items)
    BY AppendedType
  <2>2. FirstRecords(n)' = log'
    BY <1>3, <2>1 DEF FirstRecords
  <2> QED
    BY <2>2 DEF Logged
<1>4. CASE n # Len(log')
  <2>1. a.raised /\ synced' = synced /\ log' \in {log, Append(log, r)}
    <3>1. CASE a.raised
      BY <3>1, AppendedShape DEF AppendOutcome
    <3>2. CASE ~a.raised
      <4>1. log' \in {Append(log, r), Append(log, Partial)} /\ synced' = Len(log) + 1
        BY <3>2, AppendedShape DEF AppendOutcome, OnDisk, SyncsNow
      <4>2. Len(log') = Len(log) + 1
        BY <1>2, <4>1
      <4> QED
        BY <1>2, <1>4, <4>1, <4>2
    <3> QED
      BY <3>1, <3>2
  <2>2. k \notin doubtful /\ k # r[1]
    BY <2>1
  <2>3. n \in synced..Len(log)
    BY <1>2, <1>4, <2>1
  <2>4. FirstRecords(n)' = FirstRecords(n)
    <3>1. CASE log' = log
      BY <3>1 DEF FirstRecords
    <3>2. CASE log' = Append(log, r)
      <4>1. n \in 0..Len(log)
        BY <1>2, <2>3
      <4>2. SubSeq(Append(log, r), 1, n) = SubSeq(log, 1, n)
        BY <1>2, <4>1, Prefixes
      <4> QED
        BY <3>2, <4>2 DEF FirstRecords
    <3> QED
      BY <2>1, <3>1, <3>2
  <2>5. Replay(Empty, FirstRecords(n))[k] = Logged(k)
    BY <1>1, <2>2, <2>3 DEF SyncedEnough
  <2>6. Logged(k)' = Logged(k)
    <3>1. CASE log' = log
      BY <3>1 DEF Logged
    <3>2. CASE log' = Append(log, r)
      BY <1>2, <2>2, <3>2, ReplayAppend DEF Logged
    <3> QED
      BY <2>1, <3>1, <3>2
  <2> QED
    BY <2>4, <2>5, <2>6 DEF Logged
<1> QED
  BY <1>3, <1>4

LEMMA KeptInit == Init => Kept
<1> SUFFICES ASSUME Init PROVE Kept
  OBVIOUS
<1>1. Logged(key) = Empty[key] /\ \A k \in Keys : Logged(k) = mem[k]
  BY ReplayNothing, NoKeyIsAKey DEF Init, Logged
<1>2. SyncedEnough
  <2>1. \A n \in synced..Len(log) : FirstRecords(n) = log
    BY DEF Init, FirstRecords
  <2> QED
    BY <2>1 DEF SyncedEnough, Logged
<1> QED
  BY <1>1, <1>2 DEF Init, Kept, Remembered, InCommand, Settled, StopKeepsMemory, Refusal

LEMMA KeptStep == TypeOK /\ TypeOK' /\ Kept /\ [Next]_vars => Kept'
<1> SUFFICES ASSUME TypeOK, TypeOK', Kept, [Next]_vars PROVE Kept'
  OBVIOUS
<1> USE DEF Kept
<1>0. ASSUME pc' \notin {"stopped", "refused"} PROVE StopKeepsMemory' /\ Refusal'
  BY <1>0 DEF StopKeepsMemory, Refusal
<1>1. ASSUME NEW k \in Keys, NEW v \in Inputs \cup {Absent}, Begin(k, v) PROVE Kept'
  <2>1. Up /\ ~InCommand /\ pc' = "writing" /\ key' = k /\ before' = mem[k]
    BY <1>1 DEF Begin, Up, InCommand
  <2>2. UNCHANGED <<config, doubtful, base, log, synced>> /\ \A j \in Keys : j # k => mem'[j] = mem[j]
    BY <1>1 DEF Begin, TypeOK, Stores
  <2>3. Remembered'
    <3>1. \A j : Logged(j)' = Logged(j)
      BY <2>2 DEF Logged
    <3> QED
      BY <2>1, <2>2, <3>1 DEF Remembered, Settled, InCommand, Plain, Whole
  <2>4. SyncedEnough'
    BY <2>1, <2>2 DEF SyncedEnough, Logged, Plain, Whole, FirstRecords
  <2> QED
    BY <1>0, <2>1, <2>3, <2>4
<1>2. ASSUME NEW k \in Keys, Evict(k) PROVE Kept'
  <2>1. /\ Up /\ InCommand /\ pc = "writing" /\ k # key
        /\ mem' = [mem EXCEPT ![k] = Absent] /\ UNCHANGED <<config, base>>
    BY <1>2 DEF Evict, Up, InCommand
  <2>2. PICK a \in Appended(Record(k, Absent)) :
          /\ AppendOutcome(a)
          /\ IF a.raised
             THEN doubtful' = doubtful \cup {k, key} /\ Raised("serving") /\ NoCommand
             ELSE doubtful' = doubtful \ {k} /\ MaybeSave("writing") /\ UNCHANGED <<key, before>>
    BY <1>2 DEF Evict
  <2>3. Record(k, Absent) \in Records /\ Record(k, Absent)[1] = k /\ Record(k, Absent)[2] = Absent
    BY DEF Record, Records
  <2>4. SyncedEnough'
    BY <2>1, <2>2, <2>3, AppendSyncs
  <2>5. pc' \in {"serving", "writing", "saving"}
    BY <2>2, MaybeSaveShape, RaisedShape
  <2>6. Remembered'
    <3> SUFFICES ASSUME config.aof, Plain'
                 PROVE  /\ \A j \in Settled' : Logged(j)' = mem'[j]
                        /\ (InCommand /\ key \notin doubtful => Logged(key) = before)'
      BY <2>1 DEF Remembered
    <3>1. /\ Plain
          /\ \/ a.raised /\ log' = log
             \/ \A j \in Keys : Logged(j)' = IF j = k THEN Absent ELSE Logged(j)
      BY <2>1, <2>2, <2>3, AppendLogs
    <3>2. /\ \A j \in Settled : Logged(j) = mem[j]
          /\ key \notin doubtful => Logged(key) = before
      BY <2>1, <3>1 DEF Remembered
    <3>3. \A j \in Keys : j # k => Logged(j)' = Logged(j)
      BY <3>1 DEF Logged
    <3>4. mem'[k] = Absent /\ \A j \in Keys : j # k => mem'[j] = mem[j]
      BY <2>1 DEF TypeOK, Stores
    <3>5. CASE a.raised
      <4>1. doubtful' = doubtful \cup {k, key} /\ pc' = "serving"
        BY <2>2, <3>5, RaisedShape
      <4> QED
        BY <2>1, <3>2, <3>3, <3>4, <4>1 DEF Settled, InCommand
    <3>6. CASE ~a.raised
      <4>1. doubtful' = doubtful \ {k} /\ UNCHANGED <<key, before>> /\ InCommand'
        BY <2>2, <3>6, MaybeSaveShape DEF InCommand
      <4>2. Logged(k)' = Absent
        BY <3>1, <3>6
      <4>3. key \in Keys
        BY DEF TypeOK
      <4>4. ASSUME NEW j \in Settled' PROVE Logged(j)' = mem'[j]
        <5>1. j \in Keys /\ j # key /\ (j # k => j \in Settled)
          BY <4>1, <4>4 DEF Settled
        <5> QED
          BY <3>2, <3>3, <3>4, <4>2, <5>1
      <4>5. (key \notin doubtful => Logged(key) = before)'
        <5>1. Logged(key)' = Logged(key)
          <6>1. \A j : Logged(j)' = Replay(Empty, log')[j]
            BY DEF Logged
          <6> QED
            BY <2>1, <3>3, <4>1, <4>3 DEF Logged
        <5> QED
          BY <2>1, <3>2, <4>1, <4>3, <5>1
      <4> QED
        BY <4>4, <4>5
    <3> QED
      BY <3>5, <3>6
  <2> QED
    BY <1>0, <2>4, <2>5, <2>6
<1>3. ASSUME RollBack PROVE Kept'
  <2>1. /\ Up /\ InCommand /\ ~InCommand' /\ pc' = "serving"
        /\ mem' = [mem EXCEPT ![key] = before]
        /\ UNCHANGED <<config, doubtful, base, log, synced>>
    BY <1>3 DEF RollBack, Up, InCommand
  <2>2. mem'[key] = before /\ \A j \in Keys : j # key => mem'[j] = mem[j]
    BY <2>1 DEF TypeOK, Stores
  <2>3. \A j : Logged(j)' = Logged(j)
    BY <2>1 DEF Logged
  <2>4. Remembered'
    BY <2>1, <2>2, <2>3 DEF Remembered, Settled, Plain, Whole
  <2>5. SyncedEnough'
    BY <2>1 DEF SyncedEnough, Logged, Plain, Whole, FirstRecords
  <2> QED
    BY <1>0, <2>1, <2>4, <2>5
<1>4. ASSUME RecordCommand PROVE Kept'
  <2>1. Up /\ InCommand /\ UNCHANGED <<config, mem, base>>
    BY <1>4 DEF RecordCommand, Up, InCommand
  <2>2. PICK a \in Appended(Record(key, mem[key])) :
          /\ AppendOutcome(a)
          /\ IF a.raised
             THEN doubtful' = doubtful \cup {key} /\ Raised("serving")
             ELSE doubtful' = doubtful \ {key} /\ MaybeSave("serving")
    BY <1>4 DEF RecordCommand
  <2>3. /\ Record(key, mem[key]) \in Records
        /\ Record(key, mem[key])[1] = key /\ Record(key, mem[key])[2] = mem[key]
    BY DEF Record, Records, TypeOK, Stores
  <2>4. SyncedEnough'
    BY <2>1, <2>2, <2>3, AppendSyncs
  <2>5. pc' \in {"serving", "saving"} /\ ~InCommand'
    BY <1>4, <2>2, MaybeSaveShape, RaisedShape DEF InCommand
  <2>6. Remembered'
    <3> SUFFICES ASSUME config.aof, Plain', NEW j \in Settled'
                 PROVE  Logged(j)' = mem[j]
      BY <2>1, <2>5 DEF Remembered
    <3>1. /\ Plain
          /\ \/ a.raised /\ log' = log
             \/ \A i \in Keys : Logged(i)' = IF i = key THEN mem[key] ELSE Logged(i)
      BY <2>1, <2>2, <2>3, AppendLogs
    <3>2. j \in Keys /\ j \notin doubtful'
      BY DEF Settled
    <3>3. j # key => j \in Settled /\ Logged(j) = mem[j]
      BY <2>1, <2>2, <3>1, <3>2 DEF Remembered, Settled
    <3>4. CASE a.raised
      BY <2>2, <3>1, <3>2, <3>3, <3>4 DEF Logged
    <3>5. CASE ~a.raised
      BY <3>1, <3>2, <3>3, <3>5
    <3> QED
      BY <3>4, <3>5
  <2> QED
    BY <1>0, <2>4, <2>5, <2>6
<1>5. ASSUME NEW k \in Keys, Expire(k) PROVE Kept'
  <2>1. /\ Up /\ ~InCommand /\ mem' = [mem EXCEPT ![k] = Absent] /\ UNCHANGED <<config, base>>
    BY <1>5 DEF Expire, Up, InCommand
  <2>2. PICK a \in Appended(Record(k, Absent)) :
          /\ AppendOutcome(a)
          /\ IF a.raised
             THEN doubtful' = doubtful \cup {k} /\ Raised("stopping")
             ELSE doubtful' = doubtful \ {k} /\ MaybeSave("maintaining")
    BY <1>5 DEF Expire
  <2>3. Record(k, Absent) \in Records /\ Record(k, Absent)[1] = k /\ Record(k, Absent)[2] = Absent
    BY DEF Record, Records
  <2>4. SyncedEnough'
    BY <2>1, <2>2, <2>3, AppendSyncs
  <2>5. pc' \in {"maintaining", "saving", "stopping"} /\ ~InCommand'
    BY <2>2, MaybeSaveShape, RaisedShape DEF InCommand
  <2>6. Remembered'
    <3> SUFFICES ASSUME config.aof, Plain', NEW j \in Settled'
                 PROVE  Logged(j)' = mem'[j]
      BY <2>1, <2>5 DEF Remembered
    <3>1. /\ Plain
          /\ \/ a.raised /\ log' = log
             \/ \A i \in Keys : Logged(i)' = IF i = k THEN Absent ELSE Logged(i)
      BY <2>1, <2>2, <2>3, AppendLogs
    <3>2. j \in Keys /\ j \notin doubtful'
      BY DEF Settled
    <3>3. mem'[k] = Absent /\ (j # k => mem'[j] = mem[j])
      BY <2>1, <3>2 DEF TypeOK, Stores
    <3>4. j # k => Logged(j) = mem'[j]
      BY <2>1, <2>2, <3>1, <3>2, <3>3 DEF Remembered, Settled
    <3>5. CASE a.raised
      BY <2>2, <3>1, <3>2, <3>4, <3>5 DEF Logged
    <3>6. CASE ~a.raised
      BY <3>1, <3>2, <3>3, <3>4, <3>6
    <3> QED
      BY <3>5, <3>6
  <2> QED
    BY <1>0, <2>4, <2>5, <2>6
<1>6. ASSUME SaveSync \/ SaveReplace PROVE Kept'
  <2>1. UNCHANGED <<config, key, before, mem, doubtful, base, log, synced>>
    BY <1>6 DEF SaveSync, SaveReplace, memory
  <2>2. Up /\ (InCommand' <=> InCommand) /\ pc' \notin {"stopped", "refused"}
    BY <1>6 DEF SaveSync, SaveReplace, snapshot, Up, InCommand, TypeOK
  <2>3. Settled' \subseteq Settled
    BY <2>1, <2>2 DEF Settled
  <2> QED
    BY <1>0, <2>1, <2>2, <2>3, Quiet
<1>7. ASSUME SaveFails PROVE Kept'
  <2>1. UNCHANGED <<config, mem, base, log, synced>> /\ SaveRaises({})
    BY <1>7 DEF SaveFails
  <2>4. /\ pc' \in {"serving", "stopping", "maintaining", "closing"}
        /\ doubtful \subseteq doubtful' /\ (after = "writing" => key \in doubtful')
    BY <2>1, SaveRaisesShape
  <2>2. Up /\ ~InCommand' /\ pc' \notin {"stopped", "refused"} /\ (InCommand <=> after = "writing")
    BY <1>7, <2>4 DEF SaveFails, Up, InCommand
  <2>3. Settled' \subseteq Settled /\ doubtful \subseteq doubtful'
    BY <2>2, <2>4 DEF Settled
  <2> QED
    BY <1>0, <2>1, <2>2, <2>3, Quiet
<1>15. ASSUME NEW k \in Keys, Purge(k) PROVE Kept'
  <2>1. /\ Up /\ pc = "saving" /\ (InCommand <=> after = "writing") /\ (InCommand => k # key)
        /\ mem' = [mem EXCEPT ![k] = Absent] /\ UNCHANGED <<config, base>>
    BY <1>15 DEF Purge, Up, InCommand
  <2>2. PICK a \in Appended(Record(k, Absent)) :
          /\ AppendOutcome(a)
          /\ IF a.raised
             THEN SaveRaises({k})
             ELSE doubtful' = doubtful \ {k} /\ UNCHANGED <<pc, key, before, snapshot>>
    BY <1>15 DEF Purge
  <2>3. Record(k, Absent) \in Records /\ Record(k, Absent)[1] = k /\ Record(k, Absent)[2] = Absent
    BY DEF Record, Records
  <2>4. a.raised => /\ pc' \in {"serving", "stopping", "maintaining", "closing"}
                    /\ doubtful \subseteq doubtful' /\ k \in doubtful'
                    /\ after = "writing" => key \in doubtful'
    BY <2>2, SaveRaisesShape
  <2>5. ~a.raised => /\ doubtful' = doubtful \ {k} /\ UNCHANGED <<pc, key, before, after>>
                     /\ (InCommand' <=> InCommand)
    BY <2>2 DEF snapshot, InCommand
  <2>6. SyncedEnough'
    BY <2>1, <2>2, <2>3, <2>4, AppendSyncs
  <2>7. pc' \notin {"stopped", "refused"}
    BY <2>1, <2>4, <2>5
  <2>8. Remembered'
    <3> SUFFICES ASSUME config.aof, Plain'
                 PROVE  /\ \A j \in Settled' : Logged(j)' = mem'[j]
                        /\ (InCommand /\ key \notin doubtful => Logged(key) = before)'
      BY <2>1 DEF Remembered
    <3>1. /\ Plain
          /\ \/ a.raised /\ log' = log
             \/ \A j \in Keys : Logged(j)' = IF j = k THEN Absent ELSE Logged(j)
      BY <2>1, <2>2, <2>3, AppendLogs
    <3>2. /\ \A j \in Settled : Logged(j) = mem[j]
          /\ InCommand /\ key \notin doubtful => Logged(key) = before
      BY <2>1, <3>1 DEF Remembered
    <3>3. \A j \in Keys : j # k => Logged(j)' = Logged(j)
      BY <3>1 DEF Logged
    <3>4. mem'[k] = Absent /\ \A j \in Keys : j # k => mem'[j] = mem[j]
      BY <2>1 DEF TypeOK, Stores
    <3>5. CASE a.raised
      <4>1. ~InCommand'
        BY <2>4, <3>5 DEF InCommand
      <4>2. \A j \in Settled' : j \in Settled /\ j # k
        BY <2>1, <2>4, <3>5 DEF Settled
      <4> QED
        BY <3>2, <3>3, <3>4, <4>1, <4>2 DEF Settled
    <3>6. CASE ~a.raised
      <4>1. Logged(k)' = Absent
        BY <3>1, <3>6
      <4>2. key \in Keys
        BY DEF TypeOK
      <4>3. ASSUME NEW j \in Settled' PROVE Logged(j)' = mem'[j]
        <5>1. j \in Keys /\ (j # k => j \in Settled)
          BY <2>5, <3>6, <4>3 DEF Settled
        <5> QED
          BY <3>2, <3>3, <3>4, <4>1, <5>1
      <4>4. (InCommand /\ key \notin doubtful => Logged(key) = before)'
        <5> SUFFICES ASSUME InCommand', key' \notin doubtful'
                     PROVE  Logged(key)' = before'
          OBVIOUS
        <5>1. InCommand /\ key # k /\ key \notin doubtful /\ UNCHANGED <<key, before>>
          BY <2>1, <2>5, <3>6
        <5>2. \A j : Logged(j)' = Replay(Empty, log')[j]
          BY DEF Logged
        <5>3. Logged(key)' = Logged(key)
          BY <3>3, <4>2, <5>1, <5>2 DEF Logged
        <5> QED
          BY <3>2, <5>1, <5>3
      <4> QED
        BY <4>3, <4>4
    <3> QED
      BY <3>5, <3>6
  <2> QED
    BY <1>0, <2>6, <2>7, <2>8
<1>8. ASSUME Maintenance PROVE Kept'
  <2>1. UNCHANGED <<config, key, before, mem, doubtful, base, log>>
    BY <1>8 DEF Maintenance, memory
  <2>2. synced' \in {synced, Len(log)}
    BY <1>8 DEF Maintenance
  <2>3. MaybeSave("maintaining") \/ Raised("stopping")
    BY <1>8 DEF Maintenance
  <2>4. Up /\ ~InCommand /\ ~InCommand' /\ pc' \notin {"stopped", "refused"}
    BY <1>8, <2>3, MaybeSaveShape, RaisedShape DEF Maintenance, Up, InCommand
  <2>5. Settled' \subseteq Settled
    BY <2>1, <2>4 DEF Settled
  <2> QED
    BY <1>0, <2>1, <2>2, <2>4, <2>5, Quiet
<1>9. ASSUME Maintained \/ Stop \/ LastSave PROVE Kept'
  <2>1. UNCHANGED <<config, key, before, mem, doubtful, base, log, synced>>
    BY <1>9 DEF Maintained, Stop, LastSave, memory
  <2>2. Up /\ ~InCommand /\ ~InCommand' /\ pc' \notin {"stopped", "refused"}
    BY <1>9 DEF Maintained, Stop, LastSave, Up, InCommand, snapshot
  <2>3. Settled' \subseteq Settled
    BY <2>1, <2>2 DEF Settled
  <2> QED
    BY <1>0, <2>1, <2>2, <2>3, Quiet
<1>10. ASSUME Tick PROVE Kept'
  <2>1. UNCHANGED <<config, pc, key, before, mem, doubtful, base, log, synced, after>>
    BY <1>10 DEF Tick, memory
  <2>2. Up /\ (InCommand' <=> InCommand) /\ pc' \notin {"stopped", "refused"}
    BY <1>10, <2>1 DEF Tick, Up, InCommand
  <2>3. Settled' \subseteq Settled
    BY <2>1, <2>2 DEF Settled
  <2> QED
    BY <1>0, <2>1, <2>2, <2>3, Quiet
<1>11. ASSUME Close PROVE Kept'
  <2>1. ~Up' /\ pc' \in {"stopped", "down"} /\ UNCHANGED <<config, log>>
    BY <1>11 DEF Close, Up
  <2>2. ASSUME pc' = "stopped", config.aof, config.fsync # "no", Plain'
        PROVE  synced' = Len(log) /\ \A k \in Keys \ doubtful' : Replay(Empty, log')[k] = mem'[k]
    <3>1. UNCHANGED <<mem, doubtful, base>> /\ synced' = Len(log) /\ Up /\ ~InCommand
      BY <1>11, <2>2 DEF Close, memory, Up, InCommand
    <3>2. Plain /\ Settled = Keys \ doubtful
      BY <2>1, <2>2, <3>1 DEF Plain, Whole, Settled
    <3> QED
      BY <2>1, <2>2, <3>1, <3>2 DEF Remembered, Logged
  <2>3. StopKeepsMemory'
    BY <2>1, <2>2 DEF StopKeepsMemory
  <2> QED
    BY <2>1, <2>3, Down DEF Refusal
<1>12. ASSUME Kill \/ PowerFails PROVE Kept'
  <2>1. pc' = "down"
    BY <1>12 DEF Kill, PowerFails
  <2> QED
    BY <1>0, <2>1, Down DEF Up
<1>13. ASSUME Start PROVE Kept'
  <2>1. UNCHANGED <<config, log, synced>> /\ pc' \in {"serving", "refused"} /\ ~InCommand'
    BY <1>13 DEF Start, InCommand
  <2>2. Remembered'
    <3> SUFFICES ASSUME config.aof, Plain', NEW k \in Keys
                 PROVE  Logged(k)' = mem'[k]
      BY <2>1 DEF Remembered, Settled
    <3>1. Whole(log) /\ base' = Empty /\ Logged(k)' = Replay(Empty, log)[k]
      BY <2>1 DEF Plain, Whole, Logged
    <3>2. CASE log = <<>>
      BY <1>13, <3>1, <3>2, ReplayNothing DEF Start
    <3>3. CASE log # <<>>
      BY <1>13, <3>1, <3>3 DEF Start
    <3> QED
      BY <3>2, <3>3
  <2>3. SyncedEnough'
    <3>1. doubtful' = {k \in Keys : Whole(log) /\ \E n \in synced..Len(log) :
                                   Replay(Empty, FirstRecords(n))[k] # Replay(Empty, log)[k]}
      BY <1>13 DEF Start
    <3> QED
      BY <2>1, <3>1 DEF SyncedEnough, Logged, FirstRecords, Plain, Whole
  <2>4. Refusal'
    <3>1. rdb # Partial
      BY PartialAssumption DEF TypeOK
    <3> QED
      BY <1>13, <2>1, <3>1 DEF Start, Refusal, Whole
  <2>5. StopKeepsMemory'
    BY <2>1 DEF StopKeepsMemory
  <2> QED
    BY <2>2, <2>3, <2>4, <2>5
<1>14. CASE Refused \/ UNCHANGED vars
  <2>1. UNCHANGED <<config, pc, key, before, mem, doubtful, base, log, synced, after>>
    BY <1>14 DEF Refused, vars, memory, snapshot
  <2>2. (Up' <=> Up) /\ (InCommand' <=> InCommand)
    BY <2>1 DEF Up, InCommand
  <2>3. Settled' = Settled
    BY <2>1, <2>2 DEF Settled
  <2>4. Remembered' /\ SyncedEnough'
    BY <2>1, <2>2, <2>3, Quiet, Down
  <2>5. StopKeepsMemory' /\ Refusal'
    BY <2>1 DEF StopKeepsMemory, Refusal, Plain, Whole
  <2> QED
    BY <2>4, <2>5
<1> QED
  BY <1>1, <1>2, <1>3, <1>4, <1>5, <1>6, <1>7, <1>8, <1>9, <1>10, <1>11, <1>12, <1>13, <1>14, <1>15 DEF Next

LEMMA KeptAlways == Spec => []Kept
<1>1. Kept /\ TypeOK /\ TypeOK' /\ [Next]_vars => Kept'
  BY KeptStep
<1> QED
  BY <1>1, KeptInit, TypeCorrect, PTL DEF Spec

\* A new process loads from the log the values that clients were told of,
\* wherever the old one was killed: evictions inside a command, rolled back
\* writes, snapshots between two records and failed writes of the log included.
THEOREM LogHasTheMemory == Spec => []RestartKeepsMemory
<1>1. Kept => RestartKeepsMemory
  BY DEF Kept, Remembered, RestartKeepsMemory, Logged
<1> QED
  BY <1>1, KeptAlways, PTL

\* With "always" the same holds after a power failure, wherever it cuts the log.
THEOREM SyncedBeforeReply == Spec => []AlwaysIsDurable
<1>1. Kept => AlwaysIsDurable
  <2> SUFFICES ASSUME Kept, Up, config.aof, config.fsync = "always", Plain,
                      NEW n \in synced..Len(log), NEW k \in Settled
               PROVE  Replay(Empty, FirstRecords(n))[k] = mem[k]
    BY DEF AlwaysIsDurable
  <2>1. k \in Keys \ doubtful
    BY DEF Settled
  <2>2. Replay(Empty, FirstRecords(n))[k] = Logged(k)
    BY <2>1 DEF Kept, SyncedEnough
  <2>3. Logged(k) = mem[k]
    BY DEF Kept, Remembered
  <2> QED
    BY <2>2, <2>3
<1> QED
  BY <1>1, KeptAlways, PTL

\* A server that ended by itself, its last snapshot written or not, has on disk
\* all that was in memory, save where a write had failed.
THEOREM StopsWithAllOnDisk == Spec => []StopKeepsMemory
<1>1. Kept => StopKeepsMemory
  BY DEF Kept
<1> QED
  BY <1>1, KeptAlways, PTL

\* A crash at any step of save_rdb leaves one snapshot that was written to its
\* end, the older or the newer, and a start is refused for a damaged log only.
THEOREM SnapshotsAreWhole == Spec => []SnapshotIsWhole
<1>1. Kept /\ TypeOK => SnapshotIsWhole
  BY PartialAssumption DEF Kept, Refusal, TypeOK, SnapshotIsWhole
<1> QED
  BY <1>1, KeptAlways, TypeCorrect, PTL
=============================================================================

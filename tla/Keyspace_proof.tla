--------------------------- MODULE Keyspace_proof ---------------------------
(***************************************************************************)
(* The keyspace service keeps its dictionaries and its memory counter in   *)
(* step, stays within maxmemory, evicts by its policy, undoes what fails   *)
(* and keeps what it acknowledged: in every behaviour, for every set of    *)
(* keys, limits, policies and values.                                      *)
(*                                                                         *)
(* The first half is about commands: what every one of them may do to the  *)
(* store.  It keeps the dictionaries and the memory counter in step,       *)
(* spares the keys it does not name unless the policy chose them, undoes   *)
(* its own work when it fails, and has stored a value when it succeeds.    *)
(***************************************************************************)
EXTENDS Keyspace, DataStore_proof

\* the outcomes of a command on the keys of K
Right(s, K, outcomes) ==
    \A o \in outcomes : Leads(s, o.store, K) /\ RolledBack(s, o, K)

AllStored(s, k, outcomes) == \A o \in outcomes : Stored(s, o, k)

LEMMA StoreSetRight ==
    ASSUME NEW s, StoreInv(s), NEW k \in Keys, NEW obj \in Objects
    PROVE  Right(s, {k}, StoreSet(s, k, obj)) /\ AllStored(s, k, StoreSet(s, k, obj))
  BY StoreSetIs DEF Right, AllStored

\* an outcome that is not a failure
LEMMA DoneRight ==
    ASSUME NEW s, NEW t, NEW K, Leads(s, t, K), NEW reply, reply \notin {"oom", "error"}
    PROVE  Right(s, K, {Outcome(t, reply)})
  BY DEF Right, RolledBack, Outcome

\* an outcome that changes nothing
LEMMA SameRight ==
    ASSUME NEW s, StoreInv(s), NEW K, NEW reply
    PROVE  Right(s, K, {Outcome(s, reply)})
  BY LeadsItself DEF Right, RolledBack, Outcome

LEMMA UnlessRight ==
    ASSUME NEW s, StoreInv(s), NEW k \in Keys, NEW type, NEW K, NEW outcomes,
           s.data[k].type \in {"none", type} => Right(s, K, outcomes)
    PROVE  Right(s, K, Unless(type, s, k, outcomes))
  BY SameRight DEF Unless

LEMMA UnlessStored ==
    ASSUME NEW s, NEW k, NEW type, NEW outcomes,
           s.data[k].type \in {"none", type} => AllStored(s, k, outcomes)
    PROVE  AllStored(s, k, Unless(type, s, k, outcomes))
<1>1. Stored(s, Outcome(s, "error"), k)
  BY DEF Stored, Outcome
<1> QED
  BY <1>1 DEF Unless, AllStored

\* Most commands look their key up and go on from what the lookup left.
LEMMA RightAfterLookup ==
    ASSUME NEW s, StoreInv(s), NEW k \in Keys, NEW outcomes, Right(Lookup(s, k), {k}, outcomes)
    PROVE  Right(s, {k}, outcomes)
<1> DEFINE t == Lookup(s, k)
<1>1. Looked(s, t, k)
  BY LookupIsLooked
<1> HIDE DEF t
<1>2. Leads(s, t, {k}) /\ t.limit = s.limit /\ t.policy = s.policy /\ t.now = s.now
  BY <1>1 DEF Looked, Leads, Spares
<1>3. ~IsExpired(s, k) => ~IsExpired(t, k) /\ t.data[k] = s.data[k] /\ t.expiry[k] = s.expiry[k]
  BY <1>1, <1>2 DEF Looked, IsExpired
<1>4. ASSUME NEW o \in outcomes PROVE Leads(s, o.store, {k}) /\ RolledBack(s, o, {k})
  <2>1. Leads(t, o.store, {k}) /\ RolledBack(t, o, {k})
    BY <1>4 DEF Right, t
  <2>2. Leads(s, o.store, {k})
    BY <1>2, <2>1, LeadsTrans
  <2>3. RolledBack(s, o, {k})
    BY <1>2, <1>3, <2>1 DEF RolledBack
  <2> QED
    BY <2>2, <2>3
<1> QED
  BY <1>4 DEF Right

LEMMA StoredAfterLookup ==
    ASSUME NEW s, StoreInv(s), NEW k \in Keys, NEW outcomes, AllStored(Lookup(s, k), k, outcomes)
    PROVE  AllStored(s, k, outcomes)
<1> DEFINE t == Lookup(s, k)
<1>1. Looked(s, t, k)
  BY LookupIsLooked
<1> HIDE DEF t
<1>2. t.policy = s.policy /\ t.now = s.now
  BY <1>1 DEF Looked, Leads, Spares
<1>3. ~IsExpired(s, k) => ~IsExpired(t, k)
  BY <1>1, <1>2 DEF Looked, IsExpired
<1>4. \A o \in outcomes : Stored(t, o, k)
  BY DEF AllStored, t
<1> QED
  BY <1>2, <1>3, <1>4 DEF AllStored, Stored

LEMMA LookupRight ==
    ASSUME NEW s, StoreInv(s), NEW k \in Keys, NEW type, NEW outcomes,
           Lookup(s, k).data[k].type \in {"none", type} => Right(Lookup(s, k), {k}, outcomes)
    PROVE  Right(s, {k}, Unless(type, Lookup(s, k), k, outcomes))
<1> DEFINE t == Lookup(s, k)
<1>1. StoreInv(t)
  BY LookupKeepsInv
<1>2. t.data[k].type \in {"none", type} => Right(t, {k}, outcomes)
  OBVIOUS
<1> HIDE DEF t
<1>3. Right(t, {k}, Unless(type, t, k, outcomes))
  BY <1>1, <1>2, UnlessRight
<1> QED
  BY <1>3, RightAfterLookup DEF t

LEMMA LookupStored ==
    ASSUME NEW s, StoreInv(s), NEW k \in Keys, NEW type, NEW outcomes,
           Lookup(s, k).data[k].type \in {"none", type} => AllStored(Lookup(s, k), k, outcomes)
    PROVE  AllStored(s, k, Unless(type, Lookup(s, k), k, outcomes))
<1> DEFINE t == Lookup(s, k)
<1>2. t.data[k].type \in {"none", type} => AllStored(t, k, outcomes)
  OBVIOUS
<1> HIDE DEF t
<1>3. AllStored(t, k, Unless(type, t, k, outcomes))
  BY <1>2, UnlessStored
<1> QED
  BY <1>3, StoredAfterLookup DEF t

\* a value at a key is of the type its tag says
LEMMA ValueTypes ==
    ASSUME NEW s, StoreInv(s), NEW k \in Keys, s.data[k] # Missing
    PROVE  /\ s.data[k].type = "string" => s.data[k] \in Strings
           /\ s.data[k].type = "list" => s.data[k] \in Lists
           /\ s.data[k].type \in {"hash", "set", "zset"} => s.data[k].members \in SUBSET Elems
           /\ s.data[k].type # "none"
<1>1. s.data[k] \in Objects
  BY DEF StoreInv, WellTyped
<1> QED
  BY <1>1, SMT DEF Objects, Strings, Lists, Collections

LEMMA StrLenType ==
    ASSUME NEW v \in Strings
    PROVE  StrLen(v) \in Nat
  BY SMT DEF Strings, StrLen

-----------------------------------------------------------------------------
(***************************************************************************)
(* Strings.                                                                *)
(***************************************************************************)
LEMMA SetRight ==
    ASSUME NEW s, StoreInv(s), NEW c, c.key \in Keys, c.val \in Strings, c.ttl \in Nat
    PROVE  Right(s, {c.key}, CmdSet(s, c)) /\ AllStored(s, c.key, CmdSet(s, c))
<1> DEFINE k == c.key
           Plain(t) == RemoveExpiry(t, k)
           Dated(t) == SetExpiryAt(Plain(t), k, s.now + c.ttl)
<1>1. s.now + c.ttl \in Nat /\ s.now \in Nat
  BY DEF StoreInv, WellTyped
<1>2. c.val \in Objects /\ c.val # Missing
  BY ObjectsArePresent DEF Objects
<1>3. ASSUME NEW o \in CmdSet(s, c)
      PROVE  Leads(s, o.store, {k}) /\ RolledBack(s, o, {k}) /\ Stored(s, o, k)
  <2>1. PICK p \in StoreSet(s, k, c.val) :
          \/ o = p /\ p.reply \in {"oom", "error"}
          \/ /\ p.reply \notin {"oom", "error"} /\ o.reply = "ok"
             /\ o.store = IF c.ttl = 0 THEN Plain(p.store) ELSE Dated(p.store)
    BY <1>3 DEF CmdSet, Then, Outcome
  <2>2. /\ Leads(s, p.store, {k})
        /\ p.reply \in {"ok", "oom"} /\ (s.limit = 0 => p.reply = "ok")
        /\ RolledBack(s, p, {k})
        /\ Stored(s, p, k)
        /\ s.limit = 0 => p.store.data[k] = c.val
    BY <1>2, StoreSetIs
  <2>3. CASE o = p
    BY <2>2, <2>3
  <2>4. CASE /\ p.reply = "ok" /\ o.reply = "ok"
             /\ o.store = IF c.ttl = 0 THEN Plain(p.store) ELSE Dated(p.store)
    <3> DEFINE t == Plain(p.store)
    <3>1. StoreInv(p.store) /\ p.store.limit = s.limit /\ p.store.now = s.now
      BY <2>2 DEF Leads, Spares
    <3>2. /\ StoreInv(t) /\ t.data = p.store.data /\ t.limit = s.limit /\ t.now = s.now
          /\ t.expiry = [p.store.expiry EXCEPT ![k] = 0]
      BY <3>1, RemoveExpiryIs, SetExpiryAtIs
    <3>3. Leads(s, t, {k})
      BY <2>2, <3>1, RemoveExpiryLeads, LeadsTrans
    <3> HIDE DEF t
    <3>4. t.expiry[k] = 0
      BY <3>1, <3>2 DEF StoreInv, WellTyped
    <3>5. CASE c.ttl = 0
      <4>1. o.store = t
        BY <2>4, <3>5 DEF t
      <4> QED
        BY <2>2, <2>4, <3>2, <3>3, <3>4, <4>1 DEF Stored, RolledBack, IsExpired
    <3>6. CASE c.ttl # 0
      <4> DEFINE u == SetExpiryAt(t, k, s.now + c.ttl)
      <4>1. o.store = u
        BY <2>4, <3>6 DEF t
      <4>2. t.limit = 0 => t.data[k] # Missing
        BY <1>2, <2>2, <3>2
      <4>3. Leads(t, u, {k})
        BY <1>1, <3>2, <4>2, SetExpiryAtLeads
      <4>4. /\ u.data = t.data /\ u.now = t.now
            /\ u.expiry = [t.expiry EXCEPT ![k] = s.now + c.ttl]
        BY <1>1, <3>2, SetExpiryAtIs
      <4> HIDE DEF u
      <4>5. u.expiry[k] = s.now + c.ttl
        BY <3>2, <4>4 DEF StoreInv, WellTyped
      <4>6. ~IsExpired(u, k)
        BY <1>1, <3>2, <3>6, <4>4, <4>5 DEF IsExpired
      <4>7. Leads(s, u, {k})
        BY <3>3, <4>3, LeadsTrans
      <4> QED
        BY <2>2, <2>4, <3>2, <4>1, <4>4, <4>6, <4>7 DEF Stored, RolledBack
    <3> QED
      BY <3>5, <3>6
  <2> QED
    BY <2>1, <2>2, <2>3, <2>4
<1> QED
  BY <1>3 DEF Right, AllStored

LEMMA IncrbyRight ==
    ASSUME NEW s, StoreInv(s), NEW c, c.key \in Keys, c.by \in Int
    PROVE  Right(s, {c.key}, CmdIncrby(s, c)) /\ AllStored(s, c.key, CmdIncrby(s, c))
<1> DEFINE t == Lookup(s, c.key)
           obj == t.data[c.key]
           outcomes == IF obj = Missing THEN StoreSet(t, c.key, IntString(c.by))
                       ELSE IF ~obj.int THEN {Outcome(t, "error")}
                       ELSE StoreSet(t, c.key, IntString(obj.n + c.by))
<1>1. StoreInv(t)
  BY LookupKeepsInv
<1>2. ASSUME obj.type \in {"none", "string"}
      PROVE  Right(t, {c.key}, outcomes) /\ AllStored(t, c.key, outcomes)
  <2>1. CASE obj = Missing
    <3>1. IntString(c.by) \in Objects
      BY SMT DEF IntString, Objects, Strings
    <3> QED
      BY <1>1, <2>1, <3>1, StoreSetRight
  <2>2. CASE obj # Missing
    <3>1. obj \in Strings
      BY <1>1, <1>2, <2>2, ValueTypes
    <3>2. IntString(obj.n + c.by) \in Objects
      BY <3>1, SMT DEF IntString, Objects, Strings
    <3>3. Right(t, {c.key}, {Outcome(t, "error")})
      BY <1>1, SameRight
    <3>4. AllStored(t, c.key, {Outcome(t, "error")})
      BY DEF AllStored, Stored, Outcome
    <3> QED
      BY <1>1, <2>2, <3>2, <3>3, <3>4, StoreSetRight
  <2> QED
    BY <2>1, <2>2
<1>3. CmdIncrby(s, c) = Unless("string", t, c.key, outcomes)
  BY DEF CmdIncrby
<1> HIDE DEF outcomes
<1> QED
  BY <1>2, <1>3, LookupRight, LookupStored

LEMMA AppendRight ==
    ASSUME NEW s, StoreInv(s), NEW c, c.key \in Keys, c.by \in Int
    PROVE  Right(s, {c.key}, CmdAppend(s, c)) /\ AllStored(s, c.key, CmdAppend(s, c))
<1> DEFINE t == Lookup(s, c.key)
           obj == t.data[c.key]
           outcomes == IF obj = Missing THEN StoreSet(t, c.key, Text(c.by))
                       ELSE StoreSet(t, c.key, Text(StrLen(obj) + c.by))
<1>1. StoreInv(t)
  BY LookupKeepsInv
<1>2. ASSUME obj.type \in {"none", "string"}
      PROVE  Right(t, {c.key}, outcomes) /\ AllStored(t, c.key, outcomes)
  <2>1. CASE obj = Missing
    <3>1. Text(c.by) \in Objects
      BY SMT DEF Text, Objects, Strings
    <3> QED
      BY <1>1, <2>1, <3>1, StoreSetRight
  <2>2. CASE obj # Missing
    <3>1. StrLen(obj) \in Nat
      BY <1>1, <1>2, <2>2, ValueTypes, StrLenType
    <3>2. Text(StrLen(obj) + c.by) \in Objects
      BY <3>1, SMT DEF Text, Objects, Strings
    <3> QED
      BY <1>1, <2>2, <3>2, StoreSetRight
  <2> QED
    BY <2>1, <2>2
<1>3. CmdAppend(s, c) = Unless("string", t, c.key, outcomes)
  BY DEF CmdAppend
<1> HIDE DEF outcomes
<1> QED
  BY <1>2, <1>3, LookupRight, LookupStored

-----------------------------------------------------------------------------
(***************************************************************************)
(* MSET.                                                                   *)
(***************************************************************************)
IsStringAt(s, k) == s.data[k].type \in {"none", "string"}

LEMMA KeepsString ==
    ASSUME NEW s, NEW t, NEW k, KeptOrGone(s, t, k), IsStringAt(s, k)
    PROVE  IsStringAt(t, k)
  BY DEF KeptOrGone, IsStringAt, Missing

LEMMA SparedIsKept ==
    ASSUME NEW s, NEW t, NEW K, Spares(s, t, K)
    PROVE  \A k \in Keys \ K : KeptOrGone(s, t, k)
  BY DEF Spares, SparesKey, SameAt, KeptOrGone

\* A pair of MSET leaves a string at its key, or nothing, and no other key
\* changes its type.
LEMMA MsetPairIs ==
    ASSUME NEW s, StoreInv(s), NEW k \in Keys, NEW v \in Strings, NEW o \in MsetPair(s, k, v)
    PROVE  /\ Leads(s, o.store, {k})
           /\ o.reply \in {"ok", "oom"} /\ (s.limit = 0 => o.reply = "ok")
           /\ o.reply = "ok" => /\ IsStringAt(o.store, k)
                                /\ \A j \in Keys : IsStringAt(s, j) => IsStringAt(o.store, j)
<1>1. v \in Objects
  BY DEF Objects
<1>2. PICK p \in StoreSet(s, k, v) :
        \/ o = p /\ p.reply \in {"oom", "error"}
        \/ /\ p.reply \notin {"oom", "error"} /\ o.reply = "ok"
           /\ o.store = RemoveExpiry(p.store, k)
  BY DEF MsetPair, Then, Outcome
<1>3. /\ Leads(s, p.store, {k})
      /\ p.reply \in {"ok", "oom"} /\ (s.limit = 0 => p.reply = "ok")
      /\ p.reply = "ok" => p.store.data[k] \in {v, Missing}
  BY <1>1, StoreSetIs
<1>4. CASE o = p /\ p.reply = "oom"
  BY <1>3, <1>4
<1>5. CASE p.reply = "ok" /\ o.reply = "ok" /\ o.store = RemoveExpiry(p.store, k)
  <2>1. StoreInv(p.store)
    BY <1>3 DEF Leads
  <2>2. Leads(p.store, o.store, {k}) /\ o.store.data = p.store.data
    <3>1. Leads(p.store, o.store, {k})
      BY <1>5, <2>1, RemoveExpiryLeads
    <3>2. o.store.data = p.store.data
      BY <1>5 DEF RemoveExpiry, SyncMemoryForKey
    <3> QED
      BY <3>1, <3>2
  <2>3. Leads(s, o.store, {k})
    BY <1>3, <2>2, LeadsTrans
  <2>4. IsStringAt(o.store, k)
    BY <1>3, <1>5, <2>2 DEF IsStringAt, Strings, Missing
  <2>5. \A j \in Keys \ {k} : KeptOrGone(s, o.store, j)
    BY <2>3, SparedIsKept DEF Leads
  <2> QED
    BY <1>5, <2>3, <2>4, <2>5, KeepsString
<1> QED
  BY <1>2, <1>3, <1>4, <1>5

\* The except branch puts value, access time and deadline of a key back.
LEMMA MsetUndoIs ==
    ASSUME NEW s, StoreInv(s), NEW u, StoreInv(u), NEW K, NEW k \in K, k \in Keys,
           Spares(s, u, K), u.limit # 0
    PROVE  LET r == MsetUndo(u, k, s)
           IN  /\ StoreInv(r) /\ Spares(s, r, K)
               /\ \A j \in Keys \ {k} : SameAt(u, r, j)
               /\ r.data[k] = s.data[k] /\ r.expiry[k] = s.expiry[k]
               /\ r.data[k] # Missing => r.sizes[k] = EstimateKeySize(r, k)
               /\ r.limit = u.limit
<1> DEFINE v == RestoreKeySnapshot(u, k, SnapshotKey(s, k))
           r == SetExpiryAt(v, k, s.expiry[k])
<1>1. /\ StoreInv(v)
      /\ \A j \in Keys \ {k} : SameAt(u, v, j)
      /\ u.limit # 0 \/ s.data[k] = Missing => v.data[k] = s.data[k]
      /\ v.access[k] = s.access[k]
      /\ v.expiry = u.expiry /\ v.clock = u.clock /\ v.now = u.now
      /\ v.limit = u.limit /\ v.policy = u.policy
  BY RestoreIs DEF Spares
<1>2. s.expiry[k] \in Nat
  BY DEF StoreInv, WellTyped
<1> HIDE DEF v
<1>3. /\ StoreInv(r)
      /\ r.data = v.data /\ r.access = v.access /\ r.clock = v.clock
      /\ r.expiry = [v.expiry EXCEPT ![k] = s.expiry[k]]
      /\ r.now = v.now /\ r.limit = v.limit
      /\ r.policy = v.policy
      /\ \A j \in Keys \ {k} : r.sizes[j] = v.sizes[j]
      /\ r.data[k] # Missing => r.sizes[k] = EstimateKeySize(r, k)
  BY <1>1, <1>2, SetExpiryAtIs
<1>4. r = MsetUndo(u, k, s)
  BY RemoveExpiryIs DEF MsetUndo, v
<1> HIDE DEF r
<1>5. ASSUME NEW j \in Keys \ {k} PROVE SameAt(u, r, j)
  <2>1. r.expiry[j] = v.expiry[j]
    BY <1>1, <1>3 DEF StoreInv, WellTyped
  <2> QED
    BY <1>1, <1>3, <2>1 DEF SameAt
<1>6. r.data[k] = s.data[k] /\ r.expiry[k] = s.expiry[k] /\ r.access[k] = s.access[k]
  BY <1>1, <1>3 DEF StoreInv, WellTyped
<1>7. Spares(s, r, K)
  <2>1. /\ r.now = s.now /\ r.limit = s.limit /\ r.policy = s.policy
        /\ s.clock <= r.clock
    BY <1>1, <1>3 DEF Spares
  <2>2. \A j \in Keys : Renewed(s, r, j)
    BY <1>5, <1>6 DEF Spares, Renewed, SameAt
  <2>3. \A j \in Keys \ K : SparesKey(s, r, K, j)
    BY <1>5 DEF Spares, SparesKey, SameAt, Evicts
  <2> QED
    BY <2>1, <2>2, <2>3 DEF Spares
<1> QED
  BY <1>1, <1>3, <1>4, <1>5, <1>6, <1>7

LEMMA MsetRight ==
    ASSUME NEW s, StoreInv(s), NEW k1 \in Keys, NEW k2 \in Keys, NEW v1 \in Strings, NEW v2 \in Strings,
           NEW c, c.keys[1] = k1, c.keys[2] = k2, c.vals[1] = v1, c.vals[2] = v2
    PROVE  /\ Right(s, {k1, k2}, CmdMset(s, c))
           /\ \A o \in CmdMset(s, c) :
                 /\ o.reply \in {"ok", "oom"}
                 /\ o.reply = "ok" => IsStringAt(o.store, k1) /\ IsStringAt(o.store, k2)
<1> DEFINE K == {k1, k2}
           first == MsetPair(s, k1, v1)
           written == Then(first, LAMBDA t : MsetPair(t, k2, v2))
           Once(u) == MsetUndo(u, k1, s)
           Undone(u) == MsetUndo(Once(u), k2, s)
<1>1. ASSUME NEW o \in written
      PROVE  /\ Leads(s, o.store, K)
             /\ o.reply \in {"ok", "oom"} /\ (s.limit = 0 => o.reply = "ok")
             /\ o.reply = "ok" => IsStringAt(o.store, k1) /\ IsStringAt(o.store, k2)
  <2>1. PICK p \in first :
          \/ o = p /\ p.reply \in {"oom", "error"}
          \/ p.reply \notin {"oom", "error"} /\ o \in MsetPair(p.store, k2, v2)
    BY <1>1 DEF Then
  <2>2. /\ Leads(s, p.store, {k1})
        /\ p.reply \in {"ok", "oom"} /\ (s.limit = 0 => p.reply = "ok")
        /\ p.reply = "ok" => IsStringAt(p.store, k1)
    BY MsetPairIs
  <2>3. Leads(s, p.store, K) /\ StoreInv(p.store) /\ p.store.limit = s.limit
    BY <2>2, LeadsMore DEF Leads, Spares
  <2>4. CASE o = p /\ p.reply = "oom"
    BY <2>2, <2>3, <2>4
  <2>5. CASE p.reply = "ok" /\ o \in MsetPair(p.store, k2, v2)
    <3>1. /\ Leads(p.store, o.store, {k2})
          /\ o.reply \in {"ok", "oom"} /\ (p.store.limit = 0 => o.reply = "ok")
          /\ o.reply = "ok" => /\ IsStringAt(o.store, k2)
                               /\ \A j \in Keys : IsStringAt(p.store, j) => IsStringAt(o.store, j)
      BY <2>3, <2>5, MsetPairIs
    <3>2. Leads(p.store, o.store, K)
      BY <3>1, LeadsMore
    <3>3. Leads(s, o.store, K)
      BY <2>3, <3>2, LeadsTrans
    <3> QED
      BY <2>2, <2>3, <2>5, <3>1, <3>3
  <2> QED
    BY <2>1, <2>2, <2>4, <2>5
<1>2. ASSUME NEW u, Leads(s, u, K), s.limit # 0
      PROVE  /\ Leads(s, Undone(u), K)
             /\ \A k \in K : Undone(u).data[k] = s.data[k] /\ Undone(u).expiry[k] = s.expiry[k]
  <2> DEFINE q == Once(u)
             r == MsetUndo(q, k2, s)
  <2>1. StoreInv(u) /\ Spares(s, u, K) /\ u.limit # 0
    BY <1>2 DEF Leads, Spares
  <2>2. /\ StoreInv(q) /\ Spares(s, q, K) /\ q.limit = u.limit
        /\ q.data[k1] = s.data[k1] /\ q.expiry[k1] = s.expiry[k1]
        /\ q.data[k1] # Missing => q.sizes[k1] = EstimateKeySize(q, k1)
    <3>1. k1 \in K
      OBVIOUS
    <3> HIDE DEF K
    <3>2. /\ StoreInv(q) /\ Spares(s, q, K)
          /\ \A j \in Keys \ {k1} : SameAt(u, q, j)
          /\ q.data[k1] = s.data[k1] /\ q.expiry[k1] = s.expiry[k1]
          /\ q.data[k1] # Missing => q.sizes[k1] = EstimateKeySize(q, k1)
          /\ q.limit = u.limit
      BY <2>1, <3>1, MsetUndoIs
    <3> HIDE DEF q
    <3> QED
      BY <3>2
  <2> HIDE DEF q
  <2>3. /\ StoreInv(r) /\ Spares(s, r, K)
        /\ \A j \in Keys \ {k2} : SameAt(q, r, j)
        /\ r.data[k2] = s.data[k2] /\ r.expiry[k2] = s.expiry[k2]
        /\ r.data[k2] # Missing => r.sizes[k2] = EstimateKeySize(r, k2)
        /\ r.limit = q.limit
    <3>1. k2 \in K /\ q.limit # 0
      BY <2>1, <2>2
    <3> HIDE DEF K
    <3> QED
      BY <2>2, <3>1, MsetUndoIs
  <2>4. r = Undone(u)
    BY DEF q
  <2> HIDE DEF r, Undone
  <2>5. \A k \in K : r.data[k] = s.data[k] /\ r.expiry[k] = s.expiry[k]
    BY <2>2, <2>3 DEF SameAt
  <2>6. Lighter(s, r)
    <3>1. ASSUME NEW k \in K, r.data[k] # Missing PROVE r.sizes[k] = EstimateKeySize(r, k)
      BY <2>2, <2>3, <3>1 DEF SameAt, EstimateKeySize
    <3>2. ASSUME NEW k \in K, r.data[k] # Missing PROVE BaseSize(r)[k] <= BaseSize(s)[k]
      <4>1. k \in Keys /\ r.data[k] = s.data[k]
        BY <2>5
      <4> QED
        BY <2>3, <3>1, <3>2, <4>1, ExactIsLight
    <3> HIDE DEF K
    <3>3. ASSUME NEW k \in Keys \ K, r.data[k] # Missing PROVE BaseSize(r)[k] = BaseSize(s)[k]
      BY <2>3, <3>3 DEF Spares, SparesKey, SameAt, BaseSize
    <3>4. BaseSize(s) \in [Keys -> Nat]
      BY BaseSizeType
    <3> QED
      BY <3>2, <3>3, <3>4 DEF Lighter
  <2>7. Tidy(s) => Tidy(r)
    <3>1. r.limit = s.limit /\ r.limit # 0
      BY <1>2, <2>3 DEF Spares
    <3> QED
      BY <2>3, <2>6, <3>1, ShrunkFits DEF Tidy, DeadlinesLive
  <2> QED
    BY <2>3, <2>4, <2>5, <2>7 DEF Leads
<1>3. CmdMset(s, c) = {IF o.reply = "ok" THEN o ELSE Outcome(Undone(o.store), o.reply) : o \in written}
  BY DEF CmdMset
<1> HIDE DEF written, Undone, K
<1>4. ASSUME NEW p \in CmdMset(s, c)
      PROVE  /\ Leads(s, p.store, K) /\ RolledBack(s, p, K)
             /\ p.reply \in {"ok", "oom"}
             /\ p.reply = "ok" => IsStringAt(p.store, k1) /\ IsStringAt(p.store, k2)
  <2>1. PICK o \in written : p = IF o.reply = "ok" THEN o ELSE Outcome(Undone(o.store), o.reply)
    BY <1>3, <1>4
  <2>2. CASE o.reply = "ok"
    BY <1>1, <2>1, <2>2 DEF RolledBack
  <2>3. CASE o.reply # "ok"
    <3>1. p.store = Undone(o.store) /\ p.reply = "oom" /\ s.limit # 0
      BY <1>1, <2>1, <2>3 DEF Outcome
    <3>2. /\ Leads(s, p.store, K)
          /\ \A k \in K : p.store.data[k] = s.data[k] /\ p.store.expiry[k] = s.expiry[k]
      BY <1>1, <1>2, <3>1
    <3> QED
      BY <3>1, <3>2 DEF RolledBack
  <2> QED
    BY <2>2, <2>3
<1> QED
  BY <1>4 DEF Right, K

-----------------------------------------------------------------------------
(***************************************************************************)
(* Generic commands.                                                       *)
(***************************************************************************)
LEMMA DelRight ==
    ASSUME NEW s, StoreInv(s), NEW c, NEW K, c.keys[1] \in Keys \cap K,
           Len(c.keys) = 1 \/ c.keys[2] \in Keys \cap K
    PROVE  Right(s, K, CmdDel(s, c))
<1> DEFINE t == Delete(s, c.keys[1], "command")
           u == Delete(t, c.keys[2], "command")
<1>1. Leads(s, t, K)
  <2>1. Leads(s, t, {c.keys[1]})
    BY DeleteLeads
  <2> QED
    BY <2>1, LeadsMore
<1>2. StoreInv(t)
  BY <1>1 DEF Leads
<1> HIDE DEF t
<1>3. ASSUME Len(c.keys) # 1 PROVE Leads(s, u, K)
  <2>1. Leads(t, u, {c.keys[2]})
    BY <1>2, <1>3, DeleteLeads
  <2>2. Leads(t, u, K)
    BY <1>3, <2>1, LeadsMore
  <2> QED
    BY <1>1, <2>2, LeadsTrans
<1>4. CmdDel(s, c) = {Outcome(IF Len(c.keys) = 1 THEN t ELSE u, "ok")}
  BY DEF CmdDel, t
<1> HIDE DEF u
<1> QED
  BY <1>1, <1>3, <1>4, DoneRight

LEMMA ExpireRight ==
    ASSUME NEW s, StoreInv(s), NEW c, c.key \in Keys, c.ttl \in Nat
    PROVE  Right(s, {c.key}, CmdExpire(s, c))
<1> DEFINE k == c.key
           t == Lookup(s, k)
           set == SetExpiryAt(t, k, t.now + c.ttl)
           gone == Delete(set, k, "command")
<1>1. StoreInv(t) /\ Leads(s, t, {k})
  BY LookupKeepsInv, LookupLeads
<1>2. ASSUME t.data[k] # Missing PROVE Leads(t, set, {k}) /\ Leads(t, gone, {k})
  <2>1. t.now + c.ttl \in Nat
    BY <1>1 DEF StoreInv, WellTyped
  <2>2. Leads(t, set, {k})
    BY <1>1, <1>2, <2>1, SetExpiryAtLeads
  <2> HIDE DEF set
  <2>3. Leads(set, gone, {k})
    BY <2>2, DeleteLeads DEF Leads
  <2> QED
    BY <1>1, <2>2, <2>3, LeadsTrans
<1>3. CmdExpire(s, c) = {IF t.data[k] = Missing THEN Outcome(t, "nil")
                         ELSE Outcome(IF IsExpired(set, k) THEN gone ELSE set, "ok")}
  BY DEF CmdExpire
<1> HIDE DEF t, set, gone
<1>4. ASSUME t.data[k] # Missing PROVE Leads(s, set, {k}) /\ Leads(s, gone, {k})
  BY <1>1, <1>2, <1>4, LeadsTrans
<1> QED
  BY <1>1, <1>3, <1>4, DoneRight

LEMMA PexpireatRight ==
    ASSUME NEW s, StoreInv(s), NEW c, c.key \in Keys, c.at \in Nat
    PROVE  Right(s, {c.key}, CmdPexpireat(s, c))
<1> DEFINE k == c.key
           t == Lookup(s, k)
           at == c.at * MsTicks
           gone == Delete(t, k, "expiry")
           set == SetExpiryAt(t, k, at)
<1>1. StoreInv(t) /\ Leads(s, t, {k})
  BY LookupKeepsInv, LookupLeads
<1>2. at \in Nat
  BY MsTicksAssumption
<1>3. CmdPexpireat(s, c) = {IF t.data[k] = Missing THEN Outcome(t, "nil")
                            ELSE Outcome(IF at <= t.now THEN gone ELSE set, "ok")}
  BY DEF CmdPexpireat
<1> HIDE DEF t, at
<1>4. Leads(t, gone, {k})
  BY <1>1, DeleteLeads
<1>5. t.data[k] # Missing => Leads(t, set, {k})
  BY <1>1, <1>2, SetExpiryAtLeads
<1> HIDE DEF set, gone
<1>6. t.data[k] # Missing => Leads(s, set, {k}) /\ Leads(s, gone, {k})
  BY <1>1, <1>4, <1>5, LeadsTrans
<1> QED
  BY <1>1, <1>3, <1>6, DoneRight

LEMMA PersistRight ==
    ASSUME NEW s, StoreInv(s), NEW c, c.key \in Keys
    PROVE  Right(s, {c.key}, CmdPersist(s, c))
<1> DEFINE k == c.key
           t == Lookup(s, k)
           u == RemoveExpiry(t, k)
<1>1. StoreInv(t) /\ Leads(s, t, {k})
  BY LookupKeepsInv, LookupLeads
<1>2. CmdPersist(s, c) = {IF t.data[k] = Missing \/ t.expiry[k] = 0 THEN Outcome(t, "nil")
                          ELSE Outcome(u, "ok")}
  BY DEF CmdPersist
<1> HIDE DEF t
<1>3. Leads(t, u, {k})
  BY <1>1, RemoveExpiryLeads
<1> HIDE DEF u
<1>4. Leads(s, u, {k})
  BY <1>1, <1>3, LeadsTrans
<1> QED
  BY <1>1, <1>2, <1>4, DoneRight

LEMMA KeysRight ==
    ASSUME NEW s, StoreInv(s)
    PROVE  Right(s, {}, CmdKeys(s))
  BY PurgeAllLeads, DoneRight DEF CmdKeys

LEMMA ReadRight ==
    ASSUME NEW s, StoreInv(s), NEW c, c.key \in Keys
    PROVE  Right(s, {c.key}, CmdRead(s, c))
<1> DEFINE t == Lookup(s, c.key)
<1>1. Leads(s, t, {c.key})
  BY LookupLeads
<1>2. CmdRead(s, c) = {Outcome(t, IF t.data[c.key] = Missing THEN "nil" ELSE "ok")}
  BY DEF CmdRead
<1> HIDE DEF t
<1> QED
  BY <1>1, <1>2, DoneRight

-----------------------------------------------------------------------------
(***************************************************************************)
(* Lists.                                                                  *)
(***************************************************************************)
LEMMA ListType ==
    ASSUME NEW xs \in Seq(Elems)
    PROVE  List(xs) \in Objects
  BY DEF List, Lists, Objects

LEMMA ItemsType ==
    ASSUME NEW s, StoreInv(s), NEW k \in Keys, s.data[k].type \in {"none", "list"}
    PROVE  Items(s.data[k]) \in Seq(Elems)
<1>1. CASE s.data[k] = Missing
  BY <1>1, EmptySeq DEF Items
<1>2. CASE s.data[k] # Missing
  <2>1. s.data[k] \in Lists
    BY <1>2, ValueTypes
  <2> QED
    BY <1>2, <2>1 DEF Items, Lists
<1> QED
  BY <1>1, <1>2

LEMMA PushRight ==
    ASSUME NEW s, StoreInv(s), NEW c, c.key \in Keys, c.xs \in Seq(Elems)
    PROVE  Right(s, {c.key}, CmdPush(s, c)) /\ AllStored(s, c.key, CmdPush(s, c))
<1> DEFINE t == Lookup(s, c.key)
           old == Items(t.data[c.key])
           new == IF c.op = "LPUSH" THEN Reverse(c.xs) \o old ELSE old \o c.xs
           outcomes == StoreSet(t, c.key, List(new))
<1>1. StoreInv(t)
  BY LookupKeepsInv
<1>2. ASSUME t.data[c.key].type \in {"none", "list"}
      PROVE  Right(t, {c.key}, outcomes) /\ AllStored(t, c.key, outcomes)
  <2>1. old \in Seq(Elems)
    BY <1>1, <1>2, ItemsType
  <2>2. Reverse(c.xs) \in Seq(Elems)
    <3>1. Len(c.xs) \in Nat /\ \A i \in 1..Len(c.xs) : c.xs[i] \in Elems
      BY LenProperties, ElementOfSeq
    <3>2. \A i \in 1..Len(c.xs) : (Len(c.xs) - i) + 1 \in 1..Len(c.xs)
      BY <3>1, SMT
    <3>3. Reverse(c.xs) \in [1..Len(c.xs) -> Elems]
      BY <3>1, <3>2 DEF Reverse
    <3> QED
      BY <3>1, <3>3, SMT
  <2>3. new \in Seq(Elems)
    BY <2>1, <2>2, ConcatProperties
  <2> QED
    BY <1>1, <2>3, ListType, StoreSetRight
<1>3. CmdPush(s, c) = Unless("list", t, c.key, outcomes)
  BY DEF CmdPush
<1> HIDE DEF outcomes
<1> QED
  BY <1>2, <1>3, LookupRight, LookupStored

LEMMA PopRight ==
    ASSUME NEW s, StoreInv(s), NEW c, c.key \in Keys
    PROVE  Right(s, {c.key}, CmdPop(s, c))
<1> DEFINE t == Lookup(s, c.key)
           old == Items(t.data[c.key])
           rest == IF c.op = "LPOP" THEN Tail(old) ELSE Front(old)
           outcomes == IF old = <<>> THEN {Outcome(t, "nil")}
                       ELSE IF Len(old) = 1 THEN {Outcome(Delete(t, c.key, "command"), "ok")}
                       ELSE StoreSet(t, c.key, List(rest))
<1>1. StoreInv(t)
  BY LookupKeepsInv
<1>2. ASSUME t.data[c.key].type \in {"none", "list"} PROVE Right(t, {c.key}, outcomes)
  <2>1. old \in Seq(Elems)
    BY <1>1, <1>2, ItemsType
  <2>2. ASSUME old # <<>> PROVE rest \in Seq(Elems)
    <3>1. Tail(old) \in Seq(Elems)
      BY <2>1, <2>2, HeadTailProperties
    <3>2. Front(old) = SubSeq(old, 1, Len(old) - 1)
      BY DEF Front
    <3>3. Front(old) \in Seq(Elems)
      BY <2>1, <3>2, SMT
    <3> QED
      BY <3>1, <3>3
  <2>3. Right(t, {c.key}, {Outcome(Delete(t, c.key, "command"), "ok")})
    BY <1>1, DeleteLeads, DoneRight
  <2>4. ASSUME old # <<>> PROVE Right(t, {c.key}, StoreSet(t, c.key, List(rest)))
    BY <1>1, <2>2, <2>4, ListType, StoreSetRight
  <2>5. Right(t, {c.key}, {Outcome(t, "nil")})
    BY <1>1, SameRight
  <2> QED
    BY <2>3, <2>4, <2>5
<1>3. CmdPop(s, c) = Unless("list", t, c.key, outcomes)
  BY DEF CmdPop
<1> HIDE DEF outcomes
<1> QED
  BY <1>2, <1>3, LookupRight

LEMMA LsetRight ==
    ASSUME NEW s, StoreInv(s), NEW c, c.key \in Keys, c.x \in Elems
    PROVE  Right(s, {c.key}, CmdLset(s, c))
<1> DEFINE t == Lookup(s, c.key)
           old == Items(t.data[c.key])
           at == 1 + (IF c.index < 0 THEN c.index + Len(old) ELSE c.index)
           new == [old EXCEPT ![at] = c.x]
           outcomes == IF at \notin 1..Len(old) THEN {Outcome(t, "error")}
                       ELSE StoreSet(t, c.key, List(new))
<1>1. StoreInv(t)
  BY LookupKeepsInv
<1>2. ASSUME t.data[c.key].type \in {"none", "list"} PROVE Right(t, {c.key}, outcomes)
  <2>1. old \in Seq(Elems)
    BY <1>1, <1>2, ItemsType
  <2>2. ASSUME at \in 1..Len(old) PROVE new \in Seq(Elems)
    BY <2>1, <2>2, ExceptSeq
  <2>3. ASSUME at \in 1..Len(old) PROVE Right(t, {c.key}, StoreSet(t, c.key, List(new)))
    BY <1>1, <2>2, <2>3, ListType, StoreSetRight
  <2>4. Right(t, {c.key}, {Outcome(t, "error")})
    BY <1>1, SameRight
  <2> HIDE DEF at, new
  <2> QED
    BY <2>3, <2>4
<1>3. CmdLset(s, c) = Unless("list", t, c.key, outcomes)
  BY DEF CmdLset
<1> HIDE DEF outcomes
<1> QED
  BY <1>2, <1>3, LookupRight

-----------------------------------------------------------------------------
(***************************************************************************)
(* Sets, hashes and sorted sets.                                           *)
(***************************************************************************)
CollectionTypes == {"hash", "set", "zset"}

IsCollectionAt(s, k) == s.data[k].type \in {"none"} \cup CollectionTypes

LEMMA CollectionType ==
    ASSUME NEW type \in CollectionTypes, NEW members \in SUBSET Elems
    PROVE  Collection(type, members) \in Objects
  BY DEF Collection, Collections, Objects, CollectionTypes

LEMMA MembersType ==
    ASSUME NEW s, StoreInv(s), NEW k \in Keys, IsCollectionAt(s, k)
    PROVE  Members(s.data[k]) \in SUBSET Elems
  BY ValueTypes DEF Members, CollectionTypes, IsCollectionAt

LEMMA CollectionTag ==
    ASSUME NEW type \in CollectionTypes, NEW members, NEW v \in {Collection(type, members), Missing}
    PROVE  v.type \in {"none"} \cup CollectionTypes
  BY DEF Collection, Missing

LEMMA LookupKeepsTag ==
    ASSUME NEW s, StoreInv(s), NEW k \in Keys, IsCollectionAt(s, k)
    PROVE  IsCollectionAt(Lookup(s, k), k)
<1>1. KeptOrGone(s, Lookup(s, k), k)
  BY LookupLeads DEF Shrinks
<1> QED
  BY <1>1 DEF KeptOrGone, IsCollectionAt, Missing

\* the elements of a command with one or two of them
IsArgs(xs) ==
    /\ ToSet(xs) \subseteq Elems
    /\ xs[1] \in Elems
    /\ Len(xs) = 1 \/ xs[2] \in Elems

LEMMA SaddRight ==
    ASSUME NEW s, StoreInv(s), NEW c, c.key \in Keys, IsArgs(c.xs)
    PROVE  Right(s, {c.key}, CmdSadd(s, c)) /\ AllStored(s, c.key, CmdSadd(s, c))
<1> DEFINE t == Lookup(s, c.key)
           members == Members(t.data[c.key]) \cup ToSet(c.xs)
           outcomes == StoreSet(t, c.key, Collection("set", members))
<1>1. StoreInv(t)
  BY LookupKeepsInv
<1>2. ASSUME t.data[c.key].type \in {"none", "set"}
      PROVE  Right(t, {c.key}, outcomes) /\ AllStored(t, c.key, outcomes)
  <2>1. members \in SUBSET Elems
    BY <1>1, <1>2, MembersType DEF CollectionTypes, IsArgs, IsCollectionAt
  <2> QED
    BY <1>1, <2>1, CollectionType, StoreSetRight DEF CollectionTypes
<1>3. CmdSadd(s, c) = Unless("set", t, c.key, outcomes)
  BY DEF CmdSadd
<1> HIDE DEF outcomes
<1> QED
  BY <1>2, <1>3, LookupRight, LookupStored

\* What is left after a removal is a smaller collection, or nothing, and it
\* fits in a store that was within its limit.
LEMMA RemoveMembersIs ==
    ASSUME NEW s, StoreInv(s), NEW k \in Keys, IsCollectionAt(s, k), NEW type \in CollectionTypes,
           NEW gone, NEW o \in RemoveMembers(s, type, k, gone)
    PROVE  /\ Leads(s, o.store, {k})
           /\ RolledBack(s, o, {k})
           /\ o.reply \in {"ok", "oom"}
           /\ o.reply = "ok" => IsCollectionAt(o.store, k)
           /\ o.reply = "ok" /\ s.limit # 0 => o.store.data[k] = Missing \/ o.store.used <= s.limit
           /\ s.data[k] = Missing \/ s.used <= s.limit => o.reply = "ok"
<1> DEFINE rest == Members(s.data[k]) \ gone
           left == Collection(type, rest)
           t == Delete(s, k, "command")
<1>1. rest \in SUBSET Elems /\ Members(s.data[k]) \in SUBSET Elems
  BY MembersType
<1>2. left \in Objects
  BY <1>1, CollectionType
<1>3. CASE s.data[k] = Missing
  <2>1. o.store = s /\ o.reply = "ok"
    BY <1>3 DEF RemoveMembers, Outcome
  <2> QED
    BY <1>3, <2>1, LeadsItself DEF RolledBack
<1>4. CASE s.data[k] # Missing /\ rest = {}
  <2>1. o.store = t /\ o.reply = "ok"
    BY <1>4 DEF RemoveMembers, Outcome
  <2>2. Leads(s, t, {k})
    BY DeleteLeads
  <2>3. t.data[k] = Missing
    <3>1. <<k>> \in Seq(Keys) /\ k \in ToSet(<<k>>) \cap Keys
      BY OneKey
    <3> QED
      BY <1>4, <3>1, DeleteKeysDrops DEF Delete
  <2> QED
    BY <2>1, <2>2, <2>3 DEF RolledBack, IsCollectionAt, Missing
<1>5. CASE s.data[k] # Missing /\ rest # {}
  <2>1. o \in StoreSet(s, k, left)
    BY <1>5 DEF RemoveMembers
  <2> HIDE DEF left
  <2>2. /\ Leads(s, o.store, {k})
        /\ o.reply \in {"ok", "oom"} /\ (s.limit = 0 => o.reply = "ok")
        /\ RolledBack(s, o, {k})
        /\ o.reply = "ok" => /\ o.store.data[k] \in {left, Missing}
                             /\ s.limit # 0 => o.store.used <= s.limit
    BY <1>2, <2>1, StoreSetIs
  <2>3. o.reply = "ok" => IsCollectionAt(o.store, k)
    BY <2>2, CollectionTag DEF left, IsCollectionAt
  <2>4. ASSUME s.used <= s.limit PROVE o.reply = "ok"
    <3>1. s.data[k] \in Collections
      BY <1>5 DEF StoreInv, WellTyped, IsCollectionAt, CollectionTypes, Objects, Strings, Lists
    <3>2. Weight(s.data[k]) = Cardinality(s.data[k].members)
      BY <3>1, Zenon DEF Weight, Collections
    <3>3. Weight(left) = Cardinality(rest)
      BY Zenon DEF Weight, left, Collection, CollectionTypes
    <3>4. Members(s.data[k]) = s.data[k].members
      BY <1>5 DEF Members
    <3>5. Cardinality(rest) <= Cardinality(s.data[k].members)
      BY <1>1, <3>4, ElemsAssumption, FS_Subset
    <3>6. Weight(left) <= Weight(s.data[k])
      BY <3>2, <3>3, <3>5
    <3> QED
      BY <1>2, <1>5, <2>1, <2>4, <3>6, SmallerIsAccepted
  <2> QED
    BY <1>5, <2>2, <2>3, <2>4
<1> QED
  BY <1>3, <1>4, <1>5

LEMMA SremRight ==
    ASSUME NEW s, StoreInv(s), NEW c, c.key \in Keys
    PROVE  Right(s, {c.key}, CmdSrem(s, c))
<1> DEFINE t == Lookup(s, c.key)
           outcomes == RemoveMembers(t, "set", c.key, ToSet(c.xs))
<1>1. StoreInv(t)
  BY LookupKeepsInv
<1>2. "set" \in CollectionTypes
  BY DEF CollectionTypes
<1>3. CmdSrem(s, c) = Unless("set", t, c.key, outcomes)
  BY DEF CmdSrem
<1>4. ASSUME t.data[c.key].type \in {"none", "set"} PROVE Right(t, {c.key}, outcomes)
  <2>1. IsCollectionAt(t, c.key)
    BY <1>2, <1>4 DEF IsCollectionAt
  <2> QED
    BY <1>1, <1>2, <2>1, RemoveMembersIs DEF Right
<1> HIDE DEF outcomes
<1> QED
  BY <1>3, <1>4, LookupRight

\* An HDEL that raises has taken fields from its hash and touched nothing else:
\* what the hash is counted with is now too much.
LEMMA HdelRaisesIs ==
    ASSUME NEW s, StoreInv(s), NEW k \in Keys, s.data[k].type = "hash", NEW xs,
           NEW o \in HdelRaises(s, k, xs)
    PROVE  /\ Leads(s, o.store, {k})
           /\ o.reply = "error" /\ BadFields # {}
           /\ LosesFields(s.data[k], o.store.data[k])
           /\ o.store.expiry = s.expiry
<1> DEFINE old == s.data[k].members
           Gone(i) == {xs[j] : j \in 1..(i - 1)}
           Left(i) == Collection("hash", Members(s.data[k]) \ Gone(i))
<1>1. PICK i \in DOMAIN xs :
        /\ xs[i] \in BadFields /\ \A j \in 1..(i - 1) : xs[j] \notin BadFields
        /\ o = Outcome([s EXCEPT !.data[k] = Left(i)], "error")
  BY DEF HdelRaises
<1> DEFINE left == Left(i)
           t == [s EXCEPT !.data[k] = left]
<1>2. /\ s.data[k] # Missing /\ Members(s.data[k]) = old /\ old \in SUBSET Elems
      /\ Gone(i) \cap BadFields = {}
  <2>1. s.data[k] # Missing
    BY DEF Missing
  <2>2. old \in SUBSET Elems
    BY <2>1, ValueTypes
  <2> QED
    BY <1>1, <2>1, <2>2 DEF Members
<1> DEFINE rest == old \ Gone(i)
<1>3. left.type = "hash" /\ left.members = rest /\ left \in Objects /\ left # Missing
  <2>1. left = Collection("hash", rest) /\ rest \in SUBSET Elems
    BY <1>2
  <2>2. left \in Objects
    BY <2>1, CollectionType DEF CollectionTypes
  <2> HIDE DEF rest
  <2> QED
    BY <2>1, <2>2 DEF Collection, Missing
<1>4. Weight(left) <= Weight(s.data[k])
  <2>1. s.data[k] \in Collections
    BY <1>2 DEF StoreInv, WellTyped, Objects, Strings, Lists
  <2>2. Weight(s.data[k]) = Cardinality(old)
    BY <2>1, Zenon DEF Weight, Collections
  <2>3. left = Collection("hash", rest)
    BY <1>2
  <2> HIDE DEF rest, left
  <2>4. Weight(left) = Cardinality(rest)
    BY <2>3, Zenon DEF Weight, Collection
  <2>5. Cardinality(rest) <= Cardinality(old)
    BY <1>2, ElemsAssumption, FS_Subset DEF rest
  <2> QED
    BY <2>2, <2>4, <2>5
<1>5. LosesFields(s.data[k], left)
  BY <1>2, <1>3 DEF LosesFields
<1> HIDE DEF left, Left, rest
<1>6. /\ o.store = t /\ o.reply = "error"
      /\ DOMAIN t = Fields
      /\ t.data = [s.data EXCEPT ![k] = left]
      /\ t.sizes = s.sizes /\ t.used = s.used /\ t.access = s.access
      /\ t.clock = s.clock /\ t.expiry = s.expiry /\ t.now = s.now /\ t.limit = s.limit
      /\ t.policy = s.policy /\ t.logging = s.logging /\ t.log = s.log
  BY <1>1, SMT DEF left, Outcome, StoreInv, WellTyped, Fields
<1> HIDE DEF t
<1>7. t.data[k] = left /\ \A j \in Keys \ {k} : t.data[j] = s.data[j]
  BY <1>6 DEF StoreInv, WellTyped
<1>8. WellTyped(t)
  BY <1>3, <1>6 DEF StoreInv, WellTyped
<1>9. StoreInv(t)
  <2>1. Counted(t)
    BY <1>6 DEF StoreInv, Counted
  <2>2. \A j \in Keys : AccessInSync(t, j) /\ AccessInOrder(t, j)
    BY <1>2, <1>3, <1>6, <1>7 DEF StoreInv, AccessInSync, AccessInOrder
  <2>3. \A j \in Keys \ {k} : SizeInSync(t, j)
    BY <1>6, <1>7 DEF StoreInv, SizeInSync, EstimateKeySize
  <2>4. SizeInSync(t, k)
    <3>1. MayOverstate(t.data[k])
      BY <1>1, <1>3, <1>7 DEF MayOverstate
    <3>2. EstimateKeySize(s, k) \in Nat /\ s.sizes[k] \in Nat
      BY <1>2, EstimateType DEF StoreInv, WellTyped
    <3>3. s.sizes[k] >= EstimateKeySize(s, k)
      BY <1>2, <3>2 DEF StoreInv, SizeInSync
    <3>4. EstimateKeySize(t, k) <= EstimateKeySize(s, k) /\ EstimateKeySize(t, k) \in Nat
      <4>1. Weight(s.data[k]) \in Nat /\ Weight(t.data[k]) \in Nat
        BY <1>2, <1>3, <1>7, <1>8, WeightType DEF StoreInv, WellTyped
      <4> QED
        BY <1>4, <1>6, <1>7, <4>1, CostAssumption DEF EstimateKeySize
    <3> QED
      BY <1>3, <1>6, <1>7, <3>1, <3>2, <3>3, <3>4 DEF SizeInSync
  <2> QED
    BY <1>8, <2>1, <2>2, <2>3, <2>4 DEF StoreInv
<1>10. Spares(s, t, {k})
  <2>1. s.clock <= t.clock
    BY <1>6 DEF StoreInv, WellTyped
  <2> QED
    BY <1>6, <1>7, <2>1 DEF Spares, Renewed, SparesKey, SameAt, Evicts
<1>11. Tidy(s) => Tidy(t)
  <2>1. \A j \in Keys : t.data[j] = Missing <=> s.data[j] = Missing
    BY <1>2, <1>3, <1>7
  <2>2. BaseSize(t) = BaseSize(s)
    BY <1>6, <2>1 DEF BaseSize
  <2> QED
    BY <1>6, <2>1, <2>2 DEF Tidy, ValuesFit, DeadlinesLive
<1> QED
  BY <1>1, <1>5, <1>6, <1>7, <1>9, <1>10, <1>11 DEF Leads

\* what an HDEL that fails leaves of its hash
ShedsFields(s, o, k) ==
    o.reply \in {"oom", "error"} /\ s.limit # 0 /\ ~IsExpired(s, k) =>
        /\ \/ o.store.data[k] = s.data[k]
           \/ BadFields # {} /\ LosesFields(s.data[k], o.store.data[k])
        /\ s.policy = "noeviction" => o.store.expiry[k] = s.expiry[k]

LEMMA HdelRight ==
    ASSUME NEW s, StoreInv(s), NEW c, c.key \in Keys, NEW o \in CmdHdel(s, c)
    PROVE  Leads(s, o.store, {c.key}) /\ ShedsFields(s, o, c.key)
<1> DEFINE k == c.key
           t == Lookup(s, k)
           removed == RemoveMembers(t, "hash", k, ToSet(c.xs))
<1>1. StoreInv(t) /\ Looked(s, t, k)
  BY LookupIsLooked
<1>2. ASSUME t.data[k].type \in {"none", "hash"} PROVE Right(t, {k}, removed)
  <2>1. IsCollectionAt(t, k) /\ "hash" \in CollectionTypes
    BY <1>2 DEF IsCollectionAt, CollectionTypes
  <2> QED
    BY <1>1, <2>1, RemoveMembersIs DEF Right
<1>3. \/ o \in Unless("hash", t, k, removed)
      \/ t.data[k].type = "hash" /\ o \in HdelRaises(t, k, c.xs)
  <2> DEFINE raised == IF t.data[k] = Missing THEN {} ELSE HdelRaises(t, k, c.xs)
  <2>1. o \in Unless("hash", t, k, removed \cup raised)
    BY DEF CmdHdel
  <2>2. t.data[k] = Missing \/ t.data[k].type # "none"
    BY <1>1, ValueTypes
  <2>3. t.data[k].type = "none" => raised = {}
    BY <2>2
  <2>4. o \in raised => o \in HdelRaises(t, k, c.xs)
    OBVIOUS
  <2> HIDE DEF raised, removed, t
  <2> QED
    BY <2>1, <2>3, <2>4 DEF Unless
<1>4. Right(s, {k}, Unless("hash", t, k, removed))
  <2> HIDE DEF removed
  <2> QED
    BY <1>2, LookupRight
<1> HIDE DEF removed, t
<1>5. CASE o \in Unless("hash", t, k, removed)
  BY <1>4, <1>5 DEF Right, RolledBack, ShedsFields
<1>6. CASE t.data[k].type = "hash" /\ o \in HdelRaises(t, k, c.xs)
  <2>1. /\ Leads(t, o.store, {k}) /\ BadFields # {} /\ o.store.expiry = t.expiry
        /\ LosesFields(t.data[k], o.store.data[k])
    BY <1>1, <1>6, HdelRaisesIs
  <2>2. Leads(s, t, {k})
    BY <1>1 DEF Looked
  <2>3. Leads(s, o.store, {k})
    BY <2>1, <2>2, LeadsTrans
  <2>4. ~IsExpired(s, k) => t.data[k] = s.data[k] /\ t.expiry[k] = s.expiry[k]
    BY <1>1 DEF Looked
  <2> QED
    BY <2>1, <2>3, <2>4 DEF ShedsFields
<1> QED
  BY <1>3, <1>5, <1>6

LEMMA ZremOneIs ==
    ASSUME NEW s, StoreInv(s), NEW k \in Keys, IsCollectionAt(s, k), NEW x, NEW o \in ZremOne(s, k, x)
    PROVE  /\ Leads(s, o.store, {k})
           /\ RolledBack(s, o, {k})
           /\ o.reply \in {"ok", "oom"}
           /\ o.reply = "ok" => IsCollectionAt(o.store, k)
           /\ o.reply = "ok" /\ s.limit # 0 => \/ o.store = Lookup(s, k)
                                               \/ o.store.data[k] = Missing
                                               \/ o.store.used <= s.limit
           /\ s.data[k] = Missing \/ s.used <= s.limit => o.reply = "ok"
<1> DEFINE t == Lookup(s, k)
<1>1. /\ StoreInv(t) /\ Leads(s, t, {k}) /\ t.limit = s.limit
      /\ t.used <= s.used
      /\ s.data[k] = Missing => t.data[k] = Missing
  <2>1. StoreInv(t) /\ Looked(s, t, k) /\ t.used <= s.used
    BY LookupIsLooked
  <2> HIDE DEF t
  <2> QED
    BY <2>1 DEF Looked, Leads, Spares, Shrinks, KeptOrGone
<1>2. IsCollectionAt(t, k)
  BY LookupKeepsTag
<1>3. s.used \in Int /\ t.used \in Int /\ s.limit \in Nat
  BY <1>1 DEF StoreInv, WellTyped
<1>4. CASE x \notin Members(t.data[k])
  <2>1. o.store = t /\ o.reply = "ok"
    BY <1>4 DEF ZremOne, Outcome
  <2> QED
    BY <1>1, <1>2, <2>1 DEF RolledBack
<1>5. CASE x \in Members(t.data[k])
  <2>1. o \in RemoveMembers(t, "zset", k, {x})
    BY <1>5 DEF ZremOne
  <2>2. "zset" \in CollectionTypes
    BY DEF CollectionTypes
  <2>3. Right(s, {k}, {o})
    <3>1. Right(t, {k}, {o})
      BY <1>1, <1>2, <2>1, <2>2, RemoveMembersIs DEF Right
    <3> QED
      BY <3>1, RightAfterLookup
  <2> HIDE DEF t
  <2>4. /\ o.reply \in {"ok", "oom"}
        /\ o.reply = "ok" => IsCollectionAt(o.store, k)
        /\ o.reply = "ok" /\ t.limit # 0 => o.store.data[k] = Missing \/ o.store.used <= t.limit
        /\ t.data[k] = Missing \/ t.used <= t.limit => o.reply = "ok"
    BY <1>1, <1>2, <2>1, <2>2, RemoveMembersIs
  <2>5. s.data[k] = Missing \/ s.used <= s.limit => t.data[k] = Missing \/ t.used <= t.limit
    BY <1>1, <1>3
  <2>6. Leads(s, o.store, {k}) /\ RolledBack(s, o, {k})
    BY <2>3 DEF Right
  <2> QED
    BY <1>1, <2>4, <2>5, <2>6
<1> QED
  BY <1>4, <1>5

\* The second member of ZREM cannot fail once the first is gone: a store that
\* took the first removal is within its limit.
LEMMA ZremRight ==
    ASSUME NEW s, StoreInv(s), NEW c, c.key \in Keys
    PROVE  Right(s, {c.key}, CmdZrem(s, c))
<1> DEFINE k == c.key
           t == Lookup(s, k)
           first == ZremOne(t, k, c.xs[1])
           second(u) == ZremOne(u, k, c.xs[2])
           outcomes == IF Len(c.xs) = 1 THEN first ELSE Then(first, LAMBDA u : second(u))
<1>1. StoreInv(t)
  BY LookupKeepsInv
<1>2. ASSUME t.data[k].type \in {"none", "zset"} PROVE Right(t, {k}, outcomes)
  <2>1. IsCollectionAt(t, k)
    BY <1>2 DEF IsCollectionAt, CollectionTypes
  <2> HIDE DEF t
  <2>2. ASSUME NEW p \in first
        PROVE  /\ Leads(t, p.store, {k}) /\ RolledBack(t, p, {k}) /\ p.reply \in {"ok", "oom"}
               /\ StoreInv(p.store) /\ p.store.limit = t.limit
               /\ p.reply = "ok" => IsCollectionAt(p.store, k)
               /\ p.reply = "ok" /\ t.limit # 0 => \/ p.store = Lookup(t, k)
                                                   \/ p.store.data[k] = Missing
                                                   \/ p.store.used <= t.limit
    <3>1. /\ Leads(t, p.store, {k}) /\ RolledBack(t, p, {k}) /\ p.reply \in {"ok", "oom"}
          /\ p.reply = "ok" => IsCollectionAt(p.store, k)
          /\ p.reply = "ok" /\ t.limit # 0 => \/ p.store = Lookup(t, k)
                                              \/ p.store.data[k] = Missing
                                              \/ p.store.used <= t.limit
      BY <1>1, <2>1, ZremOneIs
    <3> QED
      BY <3>1 DEF Leads, Spares
  <2>3. ASSUME NEW p \in first, p.reply = "ok", NEW o \in second(p.store)
        PROVE  Leads(t, o.store, {k}) /\ RolledBack(t, o, {k})
    <3> DEFINE u == p.store
    <3>1. /\ StoreInv(u) /\ IsCollectionAt(u, k) /\ Leads(t, u, {k}) /\ u.limit = t.limit
          /\ t.limit # 0 => u = Lookup(t, k) \/ u.data[k] = Missing \/ u.used <= t.limit
      BY <2>2, <2>3
    <3> HIDE DEF u
    <3>2. o \in ZremOne(u, k, c.xs[2])
      BY <2>3 DEF u
    <3>3. /\ Leads(u, o.store, {k}) /\ RolledBack(u, o, {k})
          /\ o.reply \in {"ok", "oom"}
          /\ u.data[k] = Missing \/ u.used <= u.limit => o.reply = "ok"
      BY <3>1, <3>2, ZremOneIs
    <3>4. Leads(t, o.store, {k})
      BY <1>1, <3>1, <3>3, LeadsTrans
    <3>5. CASE u = Lookup(t, k)
      <4>1. Right(Lookup(t, k), {k}, {o})
        BY <3>3, <3>5 DEF Right
      <4>2. Right(t, {k}, {o})
        BY <1>1, <4>1, RightAfterLookup
      <4> QED
        BY <4>2 DEF Right
    <3>6. CASE u.data[k] = Missing \/ u.used <= u.limit
      BY <3>3, <3>4, <3>6 DEF RolledBack
    <3>7. CASE t.limit = 0
      BY <3>4, <3>7 DEF RolledBack
    <3> QED
      BY <3>1, <3>5, <3>6, <3>7
  <2>4. ASSUME NEW o \in Then(first, LAMBDA u : second(u))
        PROVE  Leads(t, o.store, {k}) /\ RolledBack(t, o, {k})
    <3> HIDE DEF first, second
    <3>1. PICK p \in first : \/ o = p
                             \/ p.reply \notin {"oom", "error"} /\ o \in second(p.store)
      BY <2>4 DEF Then
    <3> QED
      BY <2>2, <2>3, <3>1
  <2> QED
    BY <2>2, <2>4 DEF Right
<1>3. CmdZrem(s, c) = Unless("zset", t, k, outcomes)
  BY DEF CmdZrem
<1> HIDE DEF outcomes
<1> QED
  BY <1>2, <1>3, LookupRight

LEMMA AddOneIs ==
    ASSUME NEW s, StoreInv(s), NEW k \in Keys, IsCollectionAt(s, k), NEW type \in {"hash", "zset"},
           NEW x \in Elems, NEW o \in AddOne(s, type, k, x)
    PROVE  /\ Leads(s, o.store, {k})
           /\ RolledBack(s, o, {k})
           /\ Stored(s, o, k)
           /\ KeepsDeadline(s, o.store, k)
           /\ o.reply \in {"ok", "oom", "error"}
           /\ o.reply = "ok" => IsCollectionAt(o.store, k)
<1> DEFINE t == Lookup(s, k)
           new == Collection(type, Members(t.data[k]) \cup {x})
<1>1. StoreInv(t) /\ Looked(s, t, k) /\ IsCollectionAt(t, k)
  BY LookupIsLooked, LookupKeepsTag
<1>2. \/ o = Outcome(t, "error")
      \/ o \in Put(t, k, new, SnapshotKey(s, k))
  BY DEF AddOne
<1> HIDE DEF t
<1>3. CASE o = Outcome(t, "error")
  <2>1. o.store = t /\ o.reply = "error"
    BY <1>3 DEF Outcome
  <2> QED
    BY <1>1, <2>1 DEF Looked, RolledBack, Stored, KeepsDeadline
<1>4. CASE o \in Put(t, k, new, SnapshotKey(s, k))
  <2>1. new \in Objects
    <3>1. Members(t.data[k]) \cup {x} \in SUBSET Elems
      BY <1>1, MembersType
    <3> QED
      BY <3>1, CollectionType DEF CollectionTypes
  <2> HIDE DEF new
  <2>2. /\ Leads(s, o.store, {k})
        /\ o.reply \in {"ok", "oom"} /\ (s.limit = 0 => o.reply = "ok")
        /\ RolledBack(s, o, {k})
        /\ Stored(s, o, k)
        /\ KeepsDeadline(s, o.store, k)
        /\ o.reply = "ok" => /\ o.store.data[k] \in {new, Missing}
                             /\ s.limit # 0 => o.store.used <= s.limit
        /\ s.limit = 0 => o.store.data[k] = new
    BY <1>1, <1>4, <2>1, PutIs
  <2>3. o.reply = "ok" => IsCollectionAt(o.store, k)
    BY <2>2, CollectionTag DEF new, IsCollectionAt, CollectionTypes
  <2> QED
    BY <2>2, <2>3
<1> QED
  BY <1>2, <1>3, <1>4

LEMMA KeepsDeadlineTrans ==
    ASSUME NEW s, NEW t, NEW u, NEW k, KeepsDeadline(s, t, k), KeepsDeadline(t, u, k),
           t.now = s.now, t.policy = s.policy
    PROVE  KeepsDeadline(s, u, k)
  BY DEF KeepsDeadline, IsExpired

\* HSET and ZADD undo the elements they added when a later one fails.
LEMMA AddEachRight ==
    ASSUME NEW s, StoreInv(s), NEW c, c.key \in Keys, IsArgs(c.xs)
    PROVE  Right(s, {c.key}, CmdAddEach(s, c)) /\ AllStored(s, c.key, CmdAddEach(s, c))
<1> DEFINE k == c.key
           t == Lookup(s, k)
           type == IF c.op = "HSET" THEN "hash" ELSE "zset"
           first == AddOne(t, type, k, c.xs[1])
           second(u) == AddOne(u, type, k, c.xs[2])
           all == IF Len(c.xs) = 1 THEN first ELSE Then(first, LAMBDA u : second(u))
           Back(u) == RestoreKeySnapshot(u, k, SnapshotKey(t, k))
           outcomes == {IF o.reply = "ok" THEN o ELSE Outcome(Back(o.store), o.reply) : o \in all}
<1>1. StoreInv(t)
  BY LookupKeepsInv
<1>2. type \in {"hash", "zset"}
  OBVIOUS
<1>3. CmdAddEach(s, c) = Unless(type, t, k, outcomes)
  BY DEF CmdAddEach
<1> HIDE DEF type
<1>4. ASSUME t.data[k].type \in {"none", type}
      PROVE  Right(t, {k}, outcomes) /\ AllStored(t, k, outcomes)
  <2>1. IsCollectionAt(t, k)
    BY <1>2, <1>4 DEF IsCollectionAt, CollectionTypes
  <2> HIDE DEF t
  <2>2. ASSUME NEW p \in first
        PROVE  /\ Leads(t, p.store, {k}) /\ Stored(t, p, k) /\ KeepsDeadline(t, p.store, k)
               /\ p.reply \in {"ok", "oom", "error"}
               /\ p.reply = "ok" => IsCollectionAt(p.store, k)
    BY <1>1, <1>2, <2>1, AddOneIs DEF IsArgs
  <2>3. ASSUME NEW p \in first, p.reply = "ok", Len(c.xs) # 1, NEW o \in second(p.store)
        PROVE  /\ Leads(t, o.store, {k}) /\ Stored(t, o, k) /\ KeepsDeadline(t, o.store, k)
               /\ o.reply \in {"ok", "oom", "error"}
    <3> DEFINE u == p.store
    <3>1. /\ IsCollectionAt(u, k) /\ Leads(t, u, {k}) /\ Stored(t, p, k)
          /\ KeepsDeadline(t, u, k)
      BY <2>2, <2>3
    <3>2. c.xs[2] \in Elems /\ o \in AddOne(u, type, k, c.xs[2])
      BY <2>3 DEF IsArgs
    <3>3. t.policy \in {"noeviction", "allkeys-lru"} /\ ~IsExpired(t, k) => ~IsExpired(u, k)
      BY <2>3, <3>1 DEF Stored
    <3> HIDE DEF u
    <3>4. StoreInv(u) /\ u.now = t.now /\ u.policy = t.policy
      BY <3>1 DEF Leads, Spares
    <3>5. /\ Leads(u, o.store, {k})
          /\ RolledBack(u, o, {k})
          /\ Stored(u, o, k)
          /\ KeepsDeadline(u, o.store, k)
          /\ o.reply \in {"ok", "oom", "error"}
          /\ o.reply = "ok" => IsCollectionAt(o.store, k)
      BY <1>2, <3>1, <3>2, <3>4, AddOneIs
    <3>6. Leads(t, o.store, {k})
      BY <1>1, <3>1, <3>5, LeadsTrans
    <3>7. KeepsDeadline(t, o.store, k)
      BY <3>1, <3>4, <3>5, KeepsDeadlineTrans
    <3>8. Stored(t, o, k)
      BY <3>3, <3>4, <3>5 DEF Stored
    <3> QED
      BY <3>5, <3>6, <3>7, <3>8
  <2>4. ASSUME NEW o \in all
        PROVE  /\ Leads(t, o.store, {k}) /\ Stored(t, o, k) /\ KeepsDeadline(t, o.store, k)
               /\ o.reply \in {"ok", "oom", "error"}
    <3> HIDE DEF first, second
    <3>1. CASE Len(c.xs) = 1
      BY <2>2, <2>4, <3>1
    <3>2. CASE Len(c.xs) # 1
      <4>1. PICK p \in first : \/ o = p
                               \/ p.reply \notin {"oom", "error"} /\ o \in second(p.store)
        BY <2>4, <3>2 DEF Then
      <4> QED
        BY <2>2, <2>3, <3>2, <4>1
    <3> QED
      BY <3>1, <3>2
  <2>5. ASSUME NEW o \in all
        PROVE  /\ Leads(t, Back(o.store), {k})
               /\ t.limit # 0 => Back(o.store).data[k] = t.data[k]
               /\ Back(o.store).expiry = o.store.expiry
    <3> DEFINE u == o.store
               r == RestoreKeySnapshot(u, k, SnapshotKey(t, k))
    <3>1. Leads(t, u, {k}) /\ KeepsDeadline(t, u, k)
      BY <2>4
    <3> HIDE DEF u
    <3>2. /\ StoreInv(u) /\ Spares(t, u, {k}) /\ u.limit = t.limit
          /\ t.clock <= u.clock /\ \A j \in Keys : Renewed(t, u, j)
      BY <3>1 DEF Leads, Spares
    <3>3. u.limit = 0 => /\ u.expiry[k] \in {0, t.expiry[k]}
                         /\ DeadlinesLive(t) => DeadlinesLive(u)
      BY <3>1, <3>2 DEF Leads, Tidy, ValuesFit, KeepsDeadline
    <3>4. Leads(t, r, {k})
      BY <1>1, <3>2, <3>3, RestoreLeads
    <3>5. /\ StoreInv(r)
          /\ \A j \in Keys \ {k} : SameAt(u, r, j)
          /\ r.data[k] \in {t.data[k], u.data[k]}
          /\ u.limit # 0 \/ t.data[k] = Missing => r.data[k] = t.data[k]
          /\ t.data[k] # Missing => r.data[k] # Missing
          /\ r.access[k] = t.access[k]
          /\ r.expiry = u.expiry /\ r.clock = u.clock /\ r.now = u.now
          /\ r.limit = u.limit /\ r.policy = u.policy
      BY <1>1, <3>2, RestoreIs
    <3>6. r = Back(o.store)
      BY DEF u
    <3> HIDE DEF r, Back
    <3> QED
      BY <3>2, <3>4, <3>5, <3>6 DEF u
  <2> HIDE DEF all, Back
  <2>6. ASSUME NEW q \in outcomes
        PROVE  Leads(t, q.store, {k}) /\ RolledBack(t, q, {k}) /\ Stored(t, q, k)
    <3>1. PICK o \in all : q = IF o.reply = "ok" THEN o ELSE Outcome(Back(o.store), o.reply)
      BY <2>6
    <3>2. CASE o.reply = "ok"
      BY <2>4, <3>1, <3>2 DEF RolledBack
    <3>3. CASE o.reply # "ok"
      <4>1. q.store = Back(o.store) /\ q.reply # "ok"
        BY <3>1, <3>3 DEF Outcome
      <4> QED
        BY <2>4, <2>5, <4>1 DEF RolledBack, Stored, KeepsDeadline
    <3> QED
      BY <3>2, <3>3
  <2> QED
    BY <2>6 DEF Right, AllStored
<1> HIDE DEF outcomes
<1> QED
  BY <1>3, <1>4, LookupRight, LookupStored

-----------------------------------------------------------------------------
(***************************************************************************)
(* Records.                                                                *)
(***************************************************************************)
LEMMA AppendRecordsLeads ==
    ASSUME NEW s, StoreInv(s), NEW records \in Seq(CmdRecords), NEW K
    PROVE  /\ Leads(s, AppendRecords(s, records), K)
           /\ AppendRecords(s, records).data = s.data
<1> DEFINE t == AppendRecords(s, records)
<1>1. s.log \o records \in Seq(CmdRecords)
  BY ConcatProperties DEF StoreInv, WellTyped
<1>2. /\ DOMAIN t = Fields
      /\ t.log = s.log \o records
      /\ t.data = s.data /\ t.sizes = s.sizes /\ t.used = s.used /\ t.access = s.access
      /\ t.clock = s.clock /\ t.expiry = s.expiry /\ t.now = s.now /\ t.limit = s.limit
      /\ t.policy = s.policy /\ t.logging = s.logging
  BY SMT DEF AppendRecords, StoreInv, WellTyped, Fields
<1> HIDE DEF t
<1>3. StoreInv(t)
  <2>1. WellTyped(t)
    BY <1>1, <1>2 DEF StoreInv, WellTyped
  <2>2. Counted(t)
    BY <1>2 DEF StoreInv, Counted
  <2>3. \A k \in Keys : AccessInSync(t, k) /\ SizeInSync(t, k) /\ AccessInOrder(t, k)
    BY <1>2 DEF StoreInv, AccessInSync, SizeInSync, AccessInOrder, EstimateKeySize
  <2> QED
    BY <2>1, <2>2, <2>3 DEF StoreInv
<1>4. Spares(s, t, K)
  <2>1. s.clock <= t.clock
    BY <1>2 DEF StoreInv, WellTyped
  <2> QED
    BY <1>2, <2>1 DEF Spares, Renewed, SparesKey, SameAt, Evicts
<1>5. Tidy(s) => Tidy(t)
  BY <1>2 DEF Tidy, ValuesFit, DeadlinesLive, BaseSize
<1> QED
  BY <1>2, <1>3, <1>4, <1>5 DEF Leads, t

LEMMA SetRecordType ==
    ASSUME NEW k \in Keys, NEW v \in Strings
    PROVE  SetRecord(k, v) \in CmdRecords
  BY DEF SetRecord, CmdRecords

LEMMA DeadlineRecordType ==
    ASSUME NEW s, StoreInv(s), NEW k \in Keys
    PROVE  DeadlineRecord(s, k) \in CmdRecords
<1>1. s.expiry[k] \in Nat
  BY DEF StoreInv, WellTyped
<1>2. s.expiry[k] \div MsTicks \in Nat
  BY <1>1, MsTicksAssumption, SMT
<1> QED
  BY <1>2 DEF DeadlineRecord, CmdRecords

\* a record that looks the key up again: the value stays, unless it expired
Logs(s, t, k) ==
    /\ Leads(s, t, {k})
    /\ ~IsExpired(s, k) => t.data[k] = s.data[k]

LEMMA LookupLogs ==
    ASSUME NEW s, StoreInv(s), NEW k \in Keys, NEW records \in Seq(CmdRecords)
    PROVE  Logs(s, AppendRecords(Lookup(s, k), records), k)
<1> DEFINE t == Lookup(s, k)
           r == AppendRecords(t, records)
<1>1. StoreInv(t) /\ Looked(s, t, k)
  BY LookupIsLooked
<1> HIDE DEF t
<1>2. Leads(t, r, {k}) /\ r.data = t.data
  BY <1>1, AppendRecordsLeads
<1> HIDE DEF r
<1>3. Leads(s, r, {k})
  BY <1>1, <1>2, LeadsTrans DEF Looked
<1> QED
  BY <1>1, <1>2, <1>3 DEF Looked, Logs, r, t

LEMMA RecordFinalLeads ==
    ASSUME NEW s, StoreInv(s), NEW k \in Keys, IsStringAt(s, k)
    PROVE  /\ Leads(s, RecordFinal(s, k), {k})
           /\ \A j \in Keys : IsStringAt(s, j) => IsStringAt(RecordFinal(s, k), j)
<1> DEFINE t == Lookup(s, k)
           record == IF t.data[k] = Missing THEN DelRecord(k) ELSE SetRecord(k, t.data[k])
           r == AppendRecords(t, <<record>>)
<1>1. StoreInv(t)
  BY LookupKeepsInv
<1>2. \A j \in Keys : IsStringAt(s, j) => IsStringAt(t, j)
  BY LookupLeads, KeepsString DEF Shrinks
<1>3. record \in CmdRecords
  BY <1>1, <1>2, ValueTypes, DelRecordType, SetRecordType DEF IsStringAt
<1> HIDE DEF record
<1>4. <<record>> \in Seq(CmdRecords)
  BY <1>3
<1>5. Logs(s, r, k)
  BY <1>4, LookupLogs
<1>6. r = RecordFinal(s, k)
  BY DEF RecordFinal, record
<1> HIDE DEF t
<1>7. r.data = t.data
  BY <1>1, <1>4, AppendRecordsLeads
<1> HIDE DEF r
<1> QED
  BY <1>2, <1>5, <1>6, <1>7 DEF IsStringAt, Logs

LEMMA RecordMsetLeads ==
    ASSUME NEW s, StoreInv(s), NEW k1 \in Keys, NEW k2 \in Keys, NEW c, c.keys[1] = k1, c.keys[2] = k2,
           IsStringAt(s, k1), IsStringAt(s, k2)
    PROVE  Leads(s, RecordMset(s, c), {k1, k2})
<1> DEFINE t == RecordFinal(s, k1)
           u == RecordFinal(t, k2)
           K == {k1, k2}
<1>1. Leads(s, t, {k1}) /\ IsStringAt(t, k2)
  BY RecordFinalLeads
<1>2. RecordMset(s, c) = IF k1 = k2 THEN t ELSE u
  BY DEF RecordMset
<1> HIDE DEF t
<1>3. StoreInv(t)
  BY <1>1 DEF Leads
<1>4. Leads(t, u, {k2})
  BY <1>1, <1>3, RecordFinalLeads
<1> HIDE DEF u
<1>5. Leads(s, t, K) /\ Leads(t, u, K)
  BY <1>1, <1>4, LeadsMore
<1> HIDE DEF K
<1>6. Leads(s, u, K)
  BY <1>5, LeadsTrans
<1> QED
  BY <1>2, <1>5, <1>6 DEF K

\* a command that failed leaves no record
LEMMA FailureIsNotLogged ==
    ASSUME NEW s, NEW c, NEW reply \in {"error", "oom"}
    PROVE  RecordCommand(s, c, reply) = s
  BY DEF RecordCommand

LEMMA RecordPlainLeads ==
    ASSUME NEW s, StoreInv(s), NEW c \in CmdRecords, c.op \in {"DEL", "FLUSHALL", "KEYS"},
           NEW reply, NEW K
    PROVE  Leads(s, RecordCommand(s, c, reply), K)
<1>1. \/ RecordCommand(s, c, reply) = s
      \/ RecordCommand(s, c, reply) = AppendRecords(s, <<c>>)
  BY DEF RecordCommand
<1>2. <<c>> \in Seq(CmdRecords)
  OBVIOUS
<1>3. Leads(s, s, K) /\ Leads(s, AppendRecords(s, <<c>>), K)
  BY <1>2, LeadsItself, AppendRecordsLeads
<1> QED
  BY <1>1, <1>3

LEMMA RecordKeyLogs ==
    ASSUME NEW s, StoreInv(s), NEW c \in CmdRecords, c.key \in Keys, NEW reply,
           c.op \notin {"MSET", "DEL", "FLUSHALL", "KEYS"}, c.op = "SET" => c.val \in Strings
    PROVE  Logs(s, RecordCommand(s, c, reply), c.key)
<1> DEFINE k == c.key
           t == Lookup(s, k)
           r == RecordCommand(s, c, reply)
<1>1. \/ r = s
      \/ c.op = "SET" /\ r = RecordSet(s, c)
      \/ r = RecordDeadline(s, c)
      \/ r = AppendRecords(s, <<>>)
      \/ r = AppendRecords(s, <<c>>)
      \/ r = RecordWrite(s, c)
  BY DEF RecordCommand
<1> HIDE DEF r
<1>2. StoreInv(t)
  BY LookupKeepsInv
<1>3. DelRecord(k) \in CmdRecords /\ DeadlineRecord(t, k) \in CmdRecords
  BY <1>2, DelRecordType, DeadlineRecordType
<1>4. CASE r = s
  BY <1>4, LeadsItself DEF Logs, r
<1>5. CASE c.op = "SET" /\ r = RecordSet(s, c)
  <2> DEFINE records == IF t.data[k] = Missing THEN <<DelRecord(k)>>
                        ELSE IF t.expiry[k] = 0 THEN <<SetRecord(k, c.val)>>
                        ELSE <<SetRecord(k, c.val), DeadlineRecord(t, k)>>
  <2>1. SetRecord(k, c.val) \in CmdRecords
    BY <1>5, SetRecordType
  <2>2. records \in Seq(CmdRecords)
    BY <1>3, <2>1
  <2> HIDE DEF records
  <2> QED
    BY <1>5, <2>2, LookupLogs DEF RecordSet, records, r
<1>6. CASE r = RecordDeadline(s, c)
  <2> DEFINE records == IF t.data[k] = Missing \/ t.expiry[k] = 0 THEN <<>>
                        ELSE <<DeadlineRecord(t, k)>>
  <2>1. records \in Seq(CmdRecords)
    BY <1>3, EmptySeq
  <2> HIDE DEF records
  <2> QED
    BY <1>6, <2>1, LookupLogs DEF RecordDeadline, records, r
<1>7. CASE r = AppendRecords(s, <<>>) \/ r = AppendRecords(s, <<c>>)
  <2>1. <<>> \in Seq(CmdRecords) /\ <<c>> \in Seq(CmdRecords)
    OBVIOUS
  <2> QED
    BY <1>7, <2>1, AppendRecordsLeads DEF Logs, r
<1>8. CASE r = RecordWrite(s, c)
  <2> DEFINE records == <<IF t.data[k] = Missing THEN DelRecord(k) ELSE c>>
  <2>1. records \in Seq(CmdRecords)
    BY <1>3
  <2> HIDE DEF records
  <2> QED
    BY <1>8, <2>1, LookupLogs DEF RecordWrite, records, r
<1> QED
  BY <1>1, <1>4, <1>5, <1>6, <1>7, <1>8

-----------------------------------------------------------------------------
(***************************************************************************)
(* What a command makes of the value v at its key: it refuses v, or leaves *)
(* a result that depends on v and its arguments alone.  That is why its    *)
(* record means the same when it is replayed.                              *)
(***************************************************************************)
KeyWrites == {"INCRBY", "APPEND", "LPUSH", "RPUSH", "LPOP", "RPOP", "LSET", "SADD", "SREM",
              "HDEL", "ZREM", "HSET", "ZADD"}

TypeFor(op) ==
    CASE op \in {"INCRBY", "APPEND"} -> "string"
      [] op \in {"LPUSH", "RPUSH", "LPOP", "RPOP", "LSET"} -> "list"
      [] op \in {"SADD", "SREM"} -> "set"
      [] op \in {"HSET", "HDEL"} -> "hash"
      [] OTHER -> "zset"

IndexOf(c, v) == 1 + (IF c.index < 0 THEN c.index + Len(Items(v)) ELSE c.index)

Refuses(c, v) ==
    \/ v.type \notin {"none", TypeFor(c.op)}
    \/ c.op = "INCRBY" /\ v # Missing /\ ~v.int
    \/ c.op = "LSET" /\ IndexOf(c, v) \notin 1..Len(Items(v))
    \/ c.op = "HSET" /\ c.xs[1] \in BadFields

Incremented(c, v) == IF v = Missing THEN IntString(c.by) ELSE IntString(v.n + c.by)
Appended(c, v) == IF v = Missing THEN Text(c.by) ELSE Text(StrLen(v) + c.by)
Pushed(c, v) == List(IF c.op = "LPUSH" THEN Reverse(c.xs) \o Items(v) ELSE Items(v) \o c.xs)
Popped(c, v) ==
    IF Items(v) = <<>> THEN v
    ELSE IF Len(Items(v)) = 1 THEN Missing
    ELSE List(IF c.op = "LPOP" THEN Tail(Items(v)) ELSE Front(Items(v)))
Replaced(c, v) == List([Items(v) EXCEPT ![IndexOf(c, v)] = c.x])
United(type, v, xs) == Collection(type, Members(v) \cup xs)
Reduced(type, v, gone) ==
    IF v = Missing \/ Members(v) \ gone = {} THEN Missing
    ELSE Collection(type, Members(v) \ gone)
\* DataStore.zrem does not touch a sorted set without the member
ReducedOne(v, x) == IF x \in Members(v) THEN Reduced("zset", v, {x}) ELSE v
ZReduced(c, v) ==
    IF Len(c.xs) = 1 THEN ReducedOne(v, c.xs[1])
    ELSE ReducedOne(ReducedOne(v, c.xs[1]), c.xs[2])

Result(c, v) ==
    CASE c.op = "INCRBY" -> Incremented(c, v)
      [] c.op = "APPEND" -> Appended(c, v)
      [] c.op \in {"LPUSH", "RPUSH"} -> Pushed(c, v)
      [] c.op \in {"LPOP", "RPOP"} -> Popped(c, v)
      [] c.op = "LSET" -> Replaced(c, v)
      [] c.op = "SADD" -> United("set", v, ToSet(c.xs))
      [] c.op \in {"SREM", "HDEL"} -> Reduced(TypeFor(c.op), v, ToSet(c.xs))
      [] c.op = "ZREM" -> ZReduced(c, v)
      [] c.op \in {"HSET", "ZADD"} -> United(TypeFor(c.op), v, {c.xs[1]})

LEMMA ResultIs ==
    ASSUME NEW c, NEW v
    PROVE  /\ c.op = "INCRBY" => Result(c, v) = Incremented(c, v)
           /\ c.op = "APPEND" => Result(c, v) = Appended(c, v)
           /\ c.op \in {"LPUSH", "RPUSH"} => Result(c, v) = Pushed(c, v)
           /\ c.op \in {"LPOP", "RPOP"} => Result(c, v) = Popped(c, v)
           /\ c.op = "LSET" => Result(c, v) = Replaced(c, v)
           /\ c.op = "SADD" => Result(c, v) = United("set", v, ToSet(c.xs))
           /\ c.op \in {"SREM", "HDEL"} => Result(c, v) = Reduced(TypeFor(c.op), v, ToSet(c.xs))
           /\ c.op = "ZREM" => Result(c, v) = ZReduced(c, v)
           /\ c.op \in {"HSET", "ZADD"} => Result(c, v) = United(TypeFor(c.op), v, {c.xs[1]})
  BY Zenon DEF Result

LEMMA TypeForIs ==
    ASSUME NEW op
    PROVE  /\ op \in {"INCRBY", "APPEND"} => TypeFor(op) = "string"
           /\ op \in {"LPUSH", "RPUSH", "LPOP", "RPOP", "LSET"} => TypeFor(op) = "list"
           /\ op \in {"SADD", "SREM"} => TypeFor(op) = "set"
           /\ op \in {"HSET", "HDEL"} => TypeFor(op) = "hash"
           /\ op \in {"ZREM", "ZADD"} => TypeFor(op) = "zset"
  BY Zenon DEF TypeFor

\* one write of w at k in place of v, from a store that has looked k up
Writes(t, k, v, w, o) ==
    \/ w = v /\ o.store = t /\ o.reply \in {"ok", "nil"}
    \/ w = Missing /\ o = Outcome(Delete(t, k, "command"), "ok")
    \/ w \in Objects /\ o \in StoreSet(t, k, w)

\* ... or a refusal
Does(t, c, o) ==
    LET v == t.data[c.key]
    IN  IF Refuses(c, v) THEN o = Outcome(t, "error")
        ELSE Writes(t, c.key, v, Result(c, v), o)

LEMMA OneOutcome ==
    ASSUME NEW s, NEW reply, NEW o \in {Outcome(s, reply)}
    PROVE  o.store = s /\ o.reply = reply
  BY DEF Outcome

LEMMA StringDoes ==
    ASSUME NEW s, StoreInv(s), NEW c, c.op \in {"INCRBY", "APPEND"}, c.key \in Keys, c.by \in Int,
           NEW o \in IF c.op = "INCRBY" THEN CmdIncrby(s, c) ELSE CmdAppend(s, c)
    PROVE  Does(Lookup(s, c.key), c, o)
<1> DEFINE t == Lookup(s, c.key)
           v == t.data[c.key]
<1>1. StoreInv(t)
  BY LookupKeepsInv
<1>2. TypeFor(c.op) = "string"
  BY TypeForIs
<1>3. CASE v.type \notin {"none", "string"}
  <2>1. o = Outcome(t, "error")
    BY <1>3 DEF CmdIncrby, CmdAppend, Unless
  <2>2. Refuses(c, v)
    BY <1>2, <1>3 DEF Refuses
  <2> QED
    BY <2>1, <2>2 DEF Does
<1>4. CASE v.type \in {"none", "string"}
  <2>0. v = Missing \/ v \in Strings
    BY <1>1, <1>4, ValueTypes
  <2>1. CASE c.op = "INCRBY"
    <3>1. o \in IF v = Missing THEN StoreSet(t, c.key, IntString(c.by))
                ELSE IF ~v.int THEN {Outcome(t, "error")}
                ELSE StoreSet(t, c.key, IntString(v.n + c.by))
      BY <1>4, <2>1 DEF CmdIncrby, Unless
    <3>2. Refuses(c, v) <=> v # Missing /\ ~v.int
      BY <1>2, <1>4, <2>1 DEF Refuses
    <3>3. Result(c, v) = Incremented(c, v)
      BY <2>1, ResultIs
    <3>4. Incremented(c, v) \in Objects
      <4>1. v # Missing => v.n + c.by \in Int
        BY <2>0, SMT DEF Strings
      <4>2. \A n \in Int : IntString(n) \in Objects
        BY SMT DEF IntString, Objects, Strings
      <4> QED
        BY <4>1, <4>2 DEF Incremented
    <3> HIDE DEF t, v
    <3>5. CASE Refuses(c, v)
      BY <3>1, <3>2, <3>5 DEF Does, v, t
    <3>6. CASE ~Refuses(c, v)
      <4>1. o \in StoreSet(t, c.key, Incremented(c, v))
        BY <3>1, <3>2, <3>6 DEF Incremented
      <4> QED
        BY <3>3, <3>4, <3>6, <4>1 DEF Does, Writes, v, t
    <3> QED
      BY <3>5, <3>6 DEF v, t
  <2>2. CASE c.op = "APPEND"
    <3>1. o \in IF v = Missing THEN StoreSet(t, c.key, Text(c.by))
                ELSE StoreSet(t, c.key, Text(StrLen(v) + c.by))
      BY <1>4, <2>2 DEF CmdAppend, Unless
    <3>2. ~Refuses(c, v)
      BY <1>2, <1>4, <2>2 DEF Refuses
    <3>3. Result(c, v) = Appended(c, v)
      BY <2>2, ResultIs
    <3>4. Appended(c, v) \in Objects
      <4>1. v # Missing => StrLen(v) + c.by \in Int
        BY <2>0, StrLenType
      <4>2. \A n \in Int : Text(n) \in Objects
        BY SMT DEF Text, Objects, Strings
      <4> QED
        BY <4>1, <4>2 DEF Appended
    <3> HIDE DEF t, v
    <3>5. o \in StoreSet(t, c.key, Appended(c, v))
      BY <3>1 DEF Appended
    <3> QED
      BY <3>2, <3>3, <3>4, <3>5 DEF Does, Writes, v, t
  <2> QED
    BY <2>1, <2>2
<1> QED
  BY <1>3, <1>4

LEMMA ListDoes ==
    ASSUME NEW s, StoreInv(s), NEW c, c.op \in {"LPUSH", "RPUSH", "LPOP", "RPOP", "LSET"},
           c.key \in Keys, c.op \in {"LPUSH", "RPUSH"} => c.xs \in Seq(Elems),
           c.op = "LSET" => c.x \in Elems,
           NEW o \in IF c.op = "LSET" THEN CmdLset(s, c)
                     ELSE IF c.op \in {"LPOP", "RPOP"} THEN CmdPop(s, c) ELSE CmdPush(s, c)
    PROVE  Does(Lookup(s, c.key), c, o)
<1> DEFINE t == Lookup(s, c.key)
           v == t.data[c.key]
           old == Items(v)
<1>1. StoreInv(t)
  BY LookupKeepsInv
<1>2. TypeFor(c.op) = "list"
  BY TypeForIs
<1>3. CASE v.type \notin {"none", "list"}
  <2>1. o = Outcome(t, "error")
    BY <1>3 DEF CmdLset, CmdPush, CmdPop, Unless
  <2>2. Refuses(c, v)
    BY <1>2, <1>3 DEF Refuses
  <2> QED
    BY <2>1, <2>2 DEF Does
<1>4. CASE v.type \in {"none", "list"}
  <2>1. old \in Seq(Elems)
    BY <1>1, <1>4, ItemsType
  <2>2. CASE c.op \in {"LPUSH", "RPUSH"}
    <3> DEFINE new == IF c.op = "LPUSH" THEN Reverse(c.xs) \o old ELSE old \o c.xs
    <3>1. Reverse(c.xs) \in Seq(Elems)
      <4>1. c.xs \in Seq(Elems)
        BY <2>2
      <4>2. Len(c.xs) \in Nat /\ \A i \in 1..Len(c.xs) : c.xs[i] \in Elems
        BY <4>1, LenProperties, ElementOfSeq
      <4>3. \A i \in 1..Len(c.xs) : (Len(c.xs) - i) + 1 \in 1..Len(c.xs)
        BY <4>2, SMT
      <4>4. Reverse(c.xs) \in [1..Len(c.xs) -> Elems]
        BY <4>2, <4>3 DEF Reverse
      <4> QED
        BY <4>2, <4>4, SMT
    <3>2. List(new) \in Objects
      BY <2>1, <2>2, <3>1, ConcatProperties, ListType
    <3>3. o \in StoreSet(t, c.key, List(new))
      BY <1>4, <2>2 DEF CmdPush, Unless
    <3>4. Result(c, v) = List(new)
      <4>1. Result(c, v) = Pushed(c, v)
        BY <2>2, ResultIs
      <4> QED
        BY <4>1 DEF Pushed
    <3>5. ~Refuses(c, v)
      BY <1>2, <1>4, <2>2 DEF Refuses
    <3> HIDE DEF new, t
    <3> QED
      BY <3>2, <3>3, <3>4, <3>5 DEF Does, Writes, t
  <2>3. CASE c.op \in {"LPOP", "RPOP"}
    <3> DEFINE rest == IF c.op = "LPOP" THEN Tail(old) ELSE Front(old)
    <3>1. o \in IF old = <<>> THEN {Outcome(t, "nil")}
                ELSE IF Len(old) = 1 THEN {Outcome(Delete(t, c.key, "command"), "ok")}
                ELSE StoreSet(t, c.key, List(rest))
      BY <1>4, <2>3 DEF CmdPop, Unless
    <3>2. ASSUME old # <<>> PROVE List(rest) \in Objects
      <4>1. Tail(old) \in Seq(Elems)
        BY <2>1, <3>2, HeadTailProperties
      <4>2. Front(old) = SubSeq(old, 1, Len(old) - 1)
        BY DEF Front
      <4>3. Front(old) \in Seq(Elems)
        BY <2>1, <4>2, SMT
      <4> QED
        BY <4>1, <4>3, ListType
    <3>3. Result(c, v) = IF old = <<>> THEN v ELSE IF Len(old) = 1 THEN Missing ELSE List(rest)
      <4>1. Result(c, v) = Popped(c, v)
        BY <2>3, ResultIs
      <4> QED
        BY <4>1 DEF Popped
    <3>4. ~Refuses(c, v)
      BY <1>2, <1>4, <2>3 DEF Refuses
    <3> HIDE DEF rest, old, t
    <3>5. Writes(t, c.key, v, Result(c, v), o)
      <4>1. CASE old = <<>>
        BY <3>1, <3>3, <4>1, OneOutcome DEF Writes
      <4>2. CASE old # <<>> /\ Len(old) = 1
        BY <3>1, <3>3, <4>2 DEF Writes
      <4>3. CASE old # <<>> /\ Len(old) # 1
        BY <3>1, <3>2, <3>3, <4>3 DEF Writes
      <4> QED
        BY <4>1, <4>2, <4>3
    <3> QED
      BY <3>4, <3>5 DEF Does, t
  <2>4. CASE c.op = "LSET"
    <3> DEFINE at == IndexOf(c, v)
    <3>1. o \in IF at \notin 1..Len(old) THEN {Outcome(t, "error")}
                ELSE StoreSet(t, c.key, List([old EXCEPT ![at] = c.x]))
      BY <1>4, <2>4 DEF CmdLset, Unless, IndexOf
    <3>2. Refuses(c, v) <=> at \notin 1..Len(old)
      BY <1>2, <1>4, <2>4 DEF Refuses
    <3>3. ASSUME at \in 1..Len(old) PROVE List([old EXCEPT ![at] = c.x]) \in Objects
      <4>1. [old EXCEPT ![at] = c.x] \in Seq(Elems)
        BY <2>1, <2>4, <3>3, ExceptSeq
      <4> QED
        BY <4>1, ListType
    <3>4. Result(c, v) = List([old EXCEPT ![at] = c.x])
      <4>1. Result(c, v) = Replaced(c, v)
        BY <2>4, ResultIs
      <4> QED
        BY <4>1 DEF Replaced
    <3> DEFINE new == List([old EXCEPT ![at] = c.x])
    <3>5. o \in IF at \notin 1..Len(old) THEN {Outcome(t, "error")} ELSE StoreSet(t, c.key, new)
      BY <3>1
    <3>6. (at \in 1..Len(old) => new \in Objects) /\ Result(c, v) = new
      BY <3>3, <3>4
    <3> HIDE DEF at, new, old, t
    <3> QED
      BY <3>2, <3>5, <3>6 DEF Does, Writes, t
  <2> QED
    BY <2>2, <2>3, <2>4
<1> QED
  BY <1>3, <1>4

\* RemoveMembers after the type of the value was checked
LEMMA RemoveMembersDoes ==
    ASSUME NEW t, StoreInv(t), NEW k \in Keys, NEW type \in CollectionTypes,
           t.data[k].type \in {"none", type}, NEW gone, NEW o \in RemoveMembers(t, type, k, gone)
    PROVE  Writes(t, k, t.data[k], Reduced(type, t.data[k], gone), o)
<1> DEFINE v == t.data[k]
           rest == Members(v) \ gone
<1>1. rest \in SUBSET Elems
  <2>1. IsCollectionAt(t, k)
    BY DEF IsCollectionAt
  <2> QED
    BY <2>1, MembersType
<1>2. Collection(type, rest) \in Objects
  BY <1>1, CollectionType
<1>3. CASE v = Missing
  <2>1. o.store = t /\ o.reply = "ok"
    BY <1>3 DEF RemoveMembers, Outcome
  <2> QED
    BY <1>3, <2>1 DEF Writes, Reduced
<1>4. CASE v # Missing /\ rest = {}
  <2>1. o = Outcome(Delete(t, k, "command"), "ok")
    BY <1>4 DEF RemoveMembers
  <2> QED
    BY <1>4, <2>1 DEF Writes, Reduced
<1>5. CASE v # Missing /\ rest # {}
  <2>1. o \in StoreSet(t, k, Collection(type, rest))
    BY <1>5 DEF RemoveMembers
  <2> QED
    BY <1>2, <1>5, <2>1 DEF Writes, Reduced
<1> QED
  BY <1>3, <1>4, <1>5

LEMMA SetDoes ==
    ASSUME NEW s, StoreInv(s), NEW c, c.op \in {"SADD", "SREM", "HDEL"}, c.key \in Keys,
           c.op = "SADD" => IsArgs(c.xs), c.op = "HDEL" => BadFields = {},
           NEW o \in CASE c.op = "SADD" -> CmdSadd(s, c)
                       [] c.op = "SREM" -> CmdSrem(s, c)
                       [] c.op = "HDEL" -> CmdHdel(s, c)
    PROVE  Does(Lookup(s, c.key), c, o)
<1> DEFINE t == Lookup(s, c.key)
           v == t.data[c.key]
           type == TypeFor(c.op)
<1>1. StoreInv(t)
  BY LookupKeepsInv
<1>2. /\ type = IF c.op = "HDEL" THEN "hash" ELSE "set"
      /\ type \in CollectionTypes
      /\ c.op # "SADD" => type = IF c.op = "SREM" THEN "set" ELSE "hash"
  BY TypeForIs DEF CollectionTypes
<1> HIDE DEF type
<1>0. /\ c.op = "SADD" => o \in CmdSadd(s, c)
      /\ c.op = "SREM" => o \in CmdSrem(s, c)
      /\ c.op = "HDEL" => o \in CmdHdel(s, c)
  OBVIOUS
<1>3. CASE v.type \notin {"none", type}
  <2>1. o = Outcome(t, "error")
    BY <1>0, <1>2, <1>3 DEF CmdSadd, CmdSrem, CmdHdel, Unless
  <2>2. Refuses(c, v)
    BY <1>3 DEF Refuses, type
  <2> QED
    BY <2>1, <2>2 DEF Does
<1>4. CASE v.type \in {"none", type}
  <2>1. ~Refuses(c, v)
    BY <1>4 DEF Refuses, type
  <2>2. CASE c.op = "SADD"
    <3> DEFINE new == Collection("set", Members(v) \cup ToSet(c.xs))
    <3>1. o \in StoreSet(t, c.key, new)
      BY <1>0, <1>2, <1>4, <2>2 DEF CmdSadd, Unless
    <3>2. Members(v) \in SUBSET Elems
      <4>1. IsCollectionAt(t, c.key)
        BY <1>2, <1>4 DEF IsCollectionAt
      <4> QED
        BY <1>1, <4>1, MembersType
    <3>3. new \in Objects
      <4>1. "set" \in CollectionTypes
        BY DEF CollectionTypes
      <4>2. Members(v) \cup ToSet(c.xs) \in SUBSET Elems
        BY <2>2, <3>2 DEF IsArgs
      <4> QED
        BY <4>1, <4>2, CollectionType
    <3>4. Result(c, v) = new
      <4>1. Result(c, v) = United("set", v, ToSet(c.xs))
        BY <2>2, ResultIs
      <4> QED
        BY <4>1 DEF United
    <3> HIDE DEF new, t
    <3> QED
      BY <2>1, <3>1, <3>3, <3>4 DEF Does, Writes, t
  <2>3. CASE c.op # "SADD"
    <3>1. o \in RemoveMembers(t, type, c.key, ToSet(c.xs))
      <4>1. CASE c.op = "SREM"
        BY <1>0, <1>2, <1>4, <4>1 DEF CmdSrem, Unless
      <4>2. CASE c.op = "HDEL"
        <5>1. HdelRaises(t, c.key, c.xs) = {}
          BY <4>2 DEF HdelRaises
        <5> QED
          BY <1>0, <1>2, <1>4, <4>2, <5>1 DEF CmdHdel, Unless
      <4> QED
        BY <2>3, <4>1, <4>2
    <3>2. Result(c, v) = Reduced(type, v, ToSet(c.xs))
      BY <2>3, ResultIs DEF type
    <3> HIDE DEF t
    <3>3. Writes(t, c.key, v, Reduced(type, v, ToSet(c.xs)), o)
      BY <1>1, <1>2, <1>4, <3>1, RemoveMembersDoes
    <3> QED
      BY <2>1, <3>2, <3>3 DEF Does, t
  <2> QED
    BY <2>2, <2>3
<1> QED
  BY <1>3, <1>4

\* a second lookup finds what the first left
LEMMA LookupAgain ==
    ASSUME NEW s, StoreInv(s), NEW k \in Keys
    PROVE  LET t == Lookup(s, k)
           IN  /\ StoreInv(t)
               /\ ~IsExpired(t, k) \/ t.data[k] = Missing
               /\ Lookup(t, k).data[k] = t.data[k]
               /\ StoreInv(Lookup(t, k)) /\ Looked(t, Lookup(t, k), k)
<1> DEFINE t == Lookup(s, k)
           u == Lookup(t, k)
<1>1. StoreInv(t) /\ (~IsExpired(t, k) \/ t.data[k] = Missing)
  BY LookupIsLooked
<1> HIDE DEF t
<1>2. StoreInv(u) /\ Looked(t, u, k)
  BY <1>1, LookupIsLooked
<1> HIDE DEF u
<1>3. u.data[k] = t.data[k]
  BY <1>1, <1>2 DEF Looked, Shrinks, KeptOrGone
<1> QED
  BY <1>1, <1>2, <1>3 DEF t, u

LEMMA ZremOneDoes ==
    ASSUME NEW s, StoreInv(s), NEW k \in Keys, s.data[k].type \in {"none", "zset"},
           NEW x, NEW o \in ZremOne(s, k, x)
    PROVE  LET t == Lookup(s, k)
           IN  /\ t.data[k].type \in {"none", "zset"}
               /\ Writes(t, k, t.data[k], ReducedOne(t.data[k], x), o)
<1> DEFINE t == Lookup(s, k)
           v == t.data[k]
<1>1. StoreInv(t) /\ KeptOrGone(s, t, k)
  BY LookupIsLooked DEF Looked, Shrinks
<1>2. v.type \in {"none", "zset"}
  <2> HIDE DEF t
  <2> QED
    BY <1>1 DEF KeptOrGone, Missing
<1>3. CASE x \notin Members(v)
  <2>1. o \in {Outcome(t, "ok")}
    BY <1>3 DEF ZremOne
  <2> HIDE DEF t
  <2>2. o.store = t /\ o.reply = "ok"
    BY <2>1, OneOutcome
  <2>3. ReducedOne(v, x) = v
    BY <1>3 DEF ReducedOne
  <2>4. Writes(t, k, v, ReducedOne(v, x), o)
    BY <2>2, <2>3 DEF Writes
  <2> QED
    BY <1>2, <2>4 DEF t
<1>4. CASE x \in Members(v)
  <2>1. o \in RemoveMembers(t, "zset", k, {x})
    BY <1>4 DEF ZremOne
  <2>2. ReducedOne(v, x) = Reduced("zset", v, {x})
    BY <1>4 DEF ReducedOne
  <2>3. "zset" \in CollectionTypes
    BY DEF CollectionTypes
  <2> HIDE DEF t
  <2>4. Writes(t, k, v, Reduced("zset", v, {x}), o)
    BY <1>1, <1>2, <2>1, <2>3, RemoveMembersDoes
  <2> QED
    BY <1>2, <2>2, <2>4 DEF t
<1> QED
  BY <1>3, <1>4

\* HSET and ZADD of one element: t has looked the key up
AddsOne(t, c, o) ==
    LET k == c.key
        v == t.data[k]
        Back(u) == RestoreKeySnapshot(u, k, SnapshotKey(t, k))
    IN  IF Refuses(c, v)
        THEN o = Outcome(t, "error") \/ o = Outcome(Back(Lookup(t, k)), "error")
        ELSE /\ Result(c, v) \in Objects
             /\ \E p \in Put(Lookup(t, k), k, Result(c, v), SnapshotKey(t, k)) :
                   o = IF p.reply = "ok" THEN p ELSE Outcome(Back(p.store), p.reply)

LEMMA AddEachDoes ==
    ASSUME NEW s, StoreInv(s), NEW c, c.op \in {"HSET", "ZADD"}, c.key \in Keys,
           IsArgs(c.xs), Len(c.xs) = 1, NEW o \in CmdAddEach(s, c)
    PROVE  AddsOne(Lookup(s, c.key), c, o)
<1> DEFINE k == c.key
           t == Lookup(s, k)
           v == t.data[k]
           u == Lookup(t, k)
           type == TypeFor(c.op)
           x == c.xs[1]
           new == Collection(type, Members(v) \cup {x})
           Back(r) == RestoreKeySnapshot(r, k, SnapshotKey(t, k))
<1>1. StoreInv(t) /\ u.data[k] = v
  BY LookupAgain
<1>2. /\ type = IF c.op = "HSET" THEN "hash" ELSE "zset"
      /\ type \in CollectionTypes
      /\ type = "hash" <=> c.op = "HSET"
  BY TypeForIs DEF CollectionTypes
<1> HIDE DEF type
<1>3. CASE v.type \notin {"none", type}
  <2>1. o = Outcome(t, "error")
    BY <1>2, <1>3 DEF CmdAddEach, Unless
  <2>2. Refuses(c, v)
    BY <1>3 DEF Refuses, type
  <2> QED
    BY <2>1, <2>2 DEF AddsOne
<1>4. CASE v.type \in {"none", type}
  <2>1. PICK p \in AddOne(t, type, k, x) :
          o = IF p.reply = "ok" THEN p ELSE Outcome(Back(p.store), p.reply)
    BY <1>2, <1>4 DEF CmdAddEach, Unless
  <2>2. p \in IF type = "hash" /\ x \in BadFields THEN {Outcome(u, "error")}
              ELSE Put(u, k, new, SnapshotKey(t, k))
    BY <1>1, <2>1 DEF AddOne
  <2>3. Refuses(c, v) <=> c.op = "HSET" /\ x \in BadFields
    <3>1. c.op # "INCRBY" /\ c.op # "LSET"
      OBVIOUS
    <3> QED
      BY <1>4, <3>1 DEF Refuses, type
  <2>4. new \in Objects
    <3>1. IsCollectionAt(t, k)
      BY <1>2, <1>4 DEF IsCollectionAt
    <3>2. Members(v) \cup {x} \in SUBSET Elems
      BY <1>1, <3>1, MembersType DEF IsArgs
    <3> QED
      BY <1>2, <3>2, CollectionType
  <2>5. Result(c, v) = new
    <3>1. Result(c, v) = United(type, v, {x})
      BY ResultIs DEF type
    <3> QED
      BY <3>1 DEF United
  <2> HIDE DEF new, t, u, Back
  <2>6. CASE Refuses(c, v)
    <3>1. p.store = u /\ p.reply = "error"
      BY <1>2, <2>2, <2>3, <2>6, OneOutcome
    <3>2. o = Outcome(Back(u), "error")
      BY <2>1, <3>1
    <3> QED
      BY <2>6, <3>2 DEF AddsOne, t, u, Back
  <2>7. CASE ~Refuses(c, v)
    <3>1. p \in Put(u, k, new, SnapshotKey(t, k))
      BY <1>2, <2>2, <2>3, <2>7
    <3> QED
      BY <2>1, <2>4, <2>5, <2>7, <3>1 DEF AddsOne, t, u, Back
  <2> QED
    BY <2>6, <2>7
<1> QED
  BY <1>3, <1>4

-----------------------------------------------------------------------------
(***************************************************************************)
(* The service.                                                            *)
(***************************************************************************)
\* no two keys share an access time, and none exceeds the number of keys
AccessRanked ==
    \A k \in Keys :
        /\ access[k] <= Cardinality(Keys)
        /\ \A j \in Keys \ {k} : access[k] # 0 => access[j] # access[k]

\* the inductive invariant: its parts need each other
InSync ==
    /\ TypeOK
    /\ KeyMetadataInSync
    /\ UsedMemoryIsSum
    /\ AccessRanked
    /\ Tidy(Store)

-----------------------------------------------------------------------------
(***************************************************************************)
(* Between the variables and the store record.                             *)
(***************************************************************************)
LEMMA StoreFields ==
    /\ Store.data = data /\ Store.sizes = sizes /\ Store.used = used
    /\ Store.access = access /\ Store.clock = Cardinality(Keys)
    /\ Store.expiry = expiry /\ Store.now = now /\ Store.limit = config.limit
    /\ Store.policy = config.policy /\ Store.logging = AofEnabled /\ Store.log = aof
  BY DEF Store

LEMMA StoreInOrder ==
    ASSUME InSync
    PROVE  StoreInv(Store)
<1>1. Cardinality(Keys) \in Nat
  BY KeysAssumption, FS_CardinalityType
<1>2. WellTyped(Store)
  <2>1. DOMAIN Store = Fields
    BY SMT DEF Store, Fields
  <2>2. config.limit \in Nat /\ config.policy \in SUPPORTED_EVICTION_POLICIES
    BY InstanceAssumption DEF InSync, TypeOK
  <2> QED
    BY <1>1, <2>1, <2>2, StoreFields, InstanceAssumption DEF InSync, TypeOK, WellTyped
<1>3. Counted(Store)
  BY StoreFields DEF InSync, UsedMemoryIsSum, Counted, Total
<1>4. \A k \in Keys : AccessInSync(Store, k) /\ SizeInSync(Store, k)
  BY StoreFields DEF InSync, KeyMetadataInSync, AccessInSync, SizeInSync
<1>5. \A k \in Keys : AccessInOrder(Store, k)
  BY StoreFields DEF InSync, AccessRanked, AccessInOrder
<1> QED
  BY <1>2, <1>3, <1>4, <1>5 DEF StoreInv

\* Ranks turns the access times that are set, and no others, into positive
\* numbers, and keeps them apart.
LEMMA RanksType ==
    ASSUME NEW stamps \in [Keys -> Nat]
    PROVE  /\ Ranks(stamps) \in [Keys -> Nat]
           /\ \A k \in Keys : Ranks(stamps)[k] = 0 <=> stamps[k] = 0
           /\ \A k \in Keys : Ranks(stamps)[k] <= Cardinality(Keys)
           /\ \A j, k \in Keys :
                 stamps[j] # stamps[k] => Ranks(stamps)[j] # Ranks(stamps)[k]
<1> DEFINE Below(k) == {j \in Keys : stamps[j] # 0 /\ stamps[j] <= stamps[k]}
<1>1. ASSUME NEW k \in Keys
      PROVE  /\ IsFiniteSet(Below(k)) /\ Cardinality(Below(k)) \in Nat
             /\ Cardinality(Below(k)) <= Cardinality(Keys)
  BY KeysAssumption, FS_Subset, FS_CardinalityType
<1>2. ASSUME NEW k \in Keys, stamps[k] # 0 PROVE Cardinality(Below(k)) # 0
  <2>1. k \in Below(k)
    BY <1>2
  <2> QED
    BY <1>1, <2>1, FS_EmptySet
<1>3. ASSUME NEW j \in Keys, NEW k \in Keys, stamps[j] < stamps[k]
      PROVE  Cardinality(Below(j)) < Cardinality(Below(k))
  <2>1. Below(j) \subseteq Below(k) /\ k \in Below(k) /\ k \notin Below(j)
    BY <1>3
  <2>2. Cardinality(Below(j)) <= Cardinality(Below(k)) /\ Cardinality(Below(j)) # Cardinality(Below(k))
    BY <1>1, <2>1, FS_Subset
  <2>3. Cardinality(Below(j)) \in Nat /\ Cardinality(Below(k)) \in Nat
    BY <1>1
  <2> HIDE DEF Below
  <2> QED
    BY <2>2, <2>3
<1>4. Ranks(stamps) = [k \in Keys |-> IF stamps[k] = 0 THEN 0 ELSE Cardinality(Below(k))]
  BY DEF Ranks
<1>5. Cardinality(Keys) \in Nat
  BY KeysAssumption, FS_CardinalityType
<1> HIDE DEF Below
<1>6. ASSUME NEW j \in Keys, NEW k \in Keys, stamps[j] # stamps[k]
      PROVE  Ranks(stamps)[j] # Ranks(stamps)[k]
  <2>1. stamps[j] \in Nat /\ stamps[k] \in Nat
    OBVIOUS
  <2>2. CASE stamps[j] < stamps[k]
    BY <1>1, <1>2, <1>3, <1>4, <2>1, <2>2
  <2>3. CASE stamps[k] < stamps[j]
    BY <1>1, <1>2, <1>3, <1>4, <2>1, <2>3
  <2> QED
    BY <1>6, <2>1, <2>2, <2>3
<1> QED
  BY <1>1, <1>2, <1>4, <1>5, <1>6

LEMMA BecomeKeepsInv ==
    ASSUME InSync, NEW s, StoreInv(s), Tidy(s), s.now = now, s.limit = config.limit, Become(s)
    PROVE  InSync'
<1>1. /\ Ranks(s.access) \in [Keys -> Nat]
      /\ \A k \in Keys : Ranks(s.access)[k] = 0 <=> s.access[k] = 0
      /\ \A k \in Keys : Ranks(s.access)[k] <= Cardinality(Keys)
      /\ \A j, k \in Keys :
            s.access[j] # s.access[k] => Ranks(s.access)[j] # Ranks(s.access)[k]
  BY RanksType DEF StoreInv, WellTyped
<1>2. TypeOK'
  BY <1>1 DEF InSync, TypeOK, Become, StoreInv, WellTyped
<1>3. ASSUME NEW k \in Keys
      PROVE  /\ data'[k] = Missing <=> access'[k] = 0
             /\ IF data'[k] = Missing THEN sizes'[k] = 0
                ELSE IF MayOverstate(data'[k]) THEN sizes'[k] >= EstimateKeySize(s, k)
                ELSE sizes'[k] = EstimateKeySize(s, k)
  BY <1>1 DEF Become, StoreInv, AccessInSync, SizeInSync
<1>4. ASSUME NEW k \in Keys
      PROVE  EstimateKeySize(Store, k)' = EstimateKeySize(s, k)
  BY DEF Become, EstimateKeySize, Store
<1>5. KeyMetadataInSync'
  BY <1>3, <1>4 DEF KeyMetadataInSync, MayOverstate
<1>6. UsedMemoryIsSum'
  BY DEF UsedMemoryIsSum, Become, StoreInv, Counted, Total
<1>7. AccessRanked'
  <2>1. access' = Ranks(s.access)
    BY DEF Become
  <2>2. ASSUME NEW k \in Keys, NEW j \in Keys \ {k}, access'[k] # 0 PROVE access'[j] # access'[k]
    <3>1. s.access[k] # 0
      BY <1>1, <2>1, <2>2
    <3>2. s.access[j] # s.access[k]
      BY <3>1 DEF StoreInv, AccessInOrder
    <3> QED
      BY <1>1, <2>1, <3>2
  <2>3. \A k \in Keys : access'[k] <= Cardinality(Keys)
    BY <1>1, <2>1
  <2> QED
    BY <2>2, <2>3 DEF AccessRanked
<1>8. Tidy(Store)'
  <2>1. /\ data' = s.data /\ sizes' = s.sizes /\ expiry' = s.expiry /\ config' = config
    BY DEF Become
  <2>2. BaseSize(Store)' = BaseSize(s)
    BY <2>1 DEF BaseSize, Store
  <2>3. ValuesFit(Store)'
    BY <2>1, <2>2 DEF Tidy, ValuesFit, Store, Total
  <2>4. DeadlinesLive(Store)'
    BY <2>1 DEF Tidy, DeadlinesLive, Store
  <2> QED
    BY <2>3, <2>4 DEF Tidy
<1> QED
  BY <1>2, <1>5, <1>6, <1>7, <1>8 DEF InSync

-----------------------------------------------------------------------------
(***************************************************************************)
(* What a step does to the store.                                          *)
(***************************************************************************)
\* r is a right store to leave when the command of l is answered
Answered(r, l) ==
    /\ l.keys \subseteq Keys
    /\ Leads(Store, r, l.keys)
    /\ IF l.op = "HDEL" THEN \A k \in l.keys : ShedsFields(Store, Outcome(r, l.reply), k)
       ELSE RolledBack(Store, Outcome(r, l.reply), l.keys)
    /\ l.op \in SingleKeyWrites /\ l.reply = "ok" =>
          \A k \in l.keys :
             config.policy \in {"noeviction", "allkeys-lru"} /\ ~IsExpired(Store, k) =>
                r.data[k] # Missing

\* every step but FLUSHALL and the tick of the clock
Answers ==
    /\ last'.op # "FLUSHALL"
    /\ \E r : Become(r) /\ Answered(r, last')

Flushes ==
    /\ last' = [op |-> "FLUSHALL", keys |-> {}, reply |-> "ok"]
    /\ \E r : Become(r) /\ Leads(Flush(Store), r, {})

LEMMA KeyCommandAnswers ==
    ASSUME InSync, NEW k \in Keys, NEW c \in CmdRecords, c.key = k,
           c.op \notin {"MSET", "DEL", "FLUSHALL", "KEYS"}, c.op = "SET" => c.val \in Strings,
           NEW outcomes, c.op # "HDEL" => Right(Store, {k}, outcomes),
           c.op = "HDEL" => \A o \in outcomes : Leads(Store, o.store, {k}) /\ ShedsFields(Store, o, k),
           c.op \in SingleKeyWrites => AllStored(Store, k, outcomes),
           Execute(c, outcomes)
    PROVE  Answers
<1> DEFINE R(o) == RecordCommand(o.store, c, o.reply)
<1>1. ArgKeys(c) = {k}
  BY Zenon DEF ArgKeys
<1>2. PICK o \in outcomes :
        /\ Become(R(o))
        /\ last' = [op |-> c.op, keys |-> {k}, reply |-> o.reply]
  BY <1>1 DEF Execute
<1> DEFINE r == R(o)
           s == Store
<1>3. StoreInv(s) /\ s.policy = config.policy
  BY StoreInOrder, StoreFields
<1> HIDE DEF s
<1>4. /\ Leads(s, o.store, {k})
      /\ c.op # "HDEL" => RolledBack(s, o, {k})
      /\ c.op = "HDEL" => ShedsFields(s, o, k)
      /\ c.op \in SingleKeyWrites => Stored(s, o, k)
  BY DEF Right, AllStored, s
<1>5. Logs(o.store, r, k)
  <2>1. StoreInv(o.store)
    BY <1>4 DEF Leads
  <2> QED
    BY <2>1, RecordKeyLogs
<1>6. o.reply \in {"error", "oom"} => r = o.store
  BY FailureIsNotLogged
<1> HIDE DEF R
<1>7. Leads(s, r, {k})
  BY <1>3, <1>4, <1>5, LeadsTrans DEF Logs
<1>8. /\ c.op # "HDEL" => RolledBack(s, Outcome(r, o.reply), {k})
      /\ c.op = "HDEL" => ShedsFields(s, Outcome(r, o.reply), k)
  BY <1>4, <1>6 DEF RolledBack, ShedsFields, Outcome
<1>9. c.op \in SingleKeyWrites /\ o.reply = "ok" =>
         (config.policy \in {"noeviction", "allkeys-lru"} /\ ~IsExpired(s, k) =>
            r.data[k] # Missing)
  BY <1>3, <1>4, <1>5 DEF Logs, Stored
<1>10. Answered(r, last')
  BY <1>2, <1>7, <1>8, <1>9 DEF Answered, s
<1> QED
  BY <1>2, <1>10 DEF Answers

\* a command on other sets of keys than one
LEMMA CommandAnswers ==
    ASSUME InSync, NEW c, NEW K, K \subseteq Keys, ArgKeys(c) = K,
           c.op \notin SingleKeyWrites \cup {"FLUSHALL", "HDEL"},
           NEW outcomes, Right(Store, K, outcomes),
           \A o \in outcomes : Leads(o.store, RecordCommand(o.store, c, o.reply), K),
           Execute(c, outcomes)
    PROVE  Answers
<1> DEFINE R(o) == RecordCommand(o.store, c, o.reply)
<1>1. PICK o \in outcomes :
        /\ Become(R(o))
        /\ last' = [op |-> c.op, keys |-> K, reply |-> o.reply]
  BY DEF Execute
<1> DEFINE r == R(o)
<1>2. Leads(Store, o.store, K) /\ RolledBack(Store, o, K)
  BY DEF Right
<1>3. Leads(o.store, r, K)
  OBVIOUS
<1>4. o.reply \in {"error", "oom"} => r = o.store
  BY FailureIsNotLogged
<1> HIDE DEF R
<1>5. Leads(Store, r, K)
  BY <1>2, <1>3, StoreInOrder, LeadsTrans
<1>6. RolledBack(Store, Outcome(r, o.reply), K)
  BY <1>2, <1>4 DEF RolledBack, Outcome
<1>7. Answered(r, last')
  BY <1>1, <1>5, <1>6 DEF Answered
<1> QED
  BY <1>1, <1>7 DEF Answers

-----------------------------------------------------------------------------
(***************************************************************************)
(* The actions.                                                            *)
(***************************************************************************)
LEMMA SetStep ==
    ASSUME InSync, Set
    PROVE  Answers
<1>1. PICK k \in Keys, v \in Vals, ttl \in SetTtls :
        LET c == [op |-> "SET", key |-> k, val |-> v, ttl |-> ttl]
        IN  Execute(c, CmdSet(Store, c))
  BY DEF Set
<1> DEFINE c == [op |-> "SET", key |-> k, val |-> v, ttl |-> ttl]
<1>2. v \in Strings /\ ttl \in Nat
  BY InstanceAssumption
<1>3. c \in CmdRecords
  BY <1>2 DEF CmdRecords
<1>4. /\ c.op = "SET" /\ c.key = k /\ c.val = v /\ c.ttl = ttl
      /\ Execute(c, CmdSet(Store, c))
  BY <1>1
<1> HIDE DEF c
<1>5. Right(Store, {k}, CmdSet(Store, c)) /\ AllStored(Store, k, CmdSet(Store, c))
  BY <1>2, <1>4, StoreInOrder, SetRight
<1> QED
  BY <1>2, <1>3, <1>4, <1>5, KeyCommandAnswers

LEMMA MsetStep ==
    ASSUME InSync, Mset
    PROVE  Answers
<1>1. PICK k1 \in Keys, k2 \in Keys, v1 \in Vals, v2 \in Vals :
        LET c == [op |-> "MSET", keys |-> <<k1, k2>>, vals |-> <<v1, v2>>]
        IN  Execute(c, CmdMset(Store, c))
  BY DEF Mset
<1> DEFINE c == [op |-> "MSET", keys |-> <<k1, k2>>, vals |-> <<v1, v2>>]
           K == {k1, k2}
<1>2. /\ c.op = "MSET" /\ c.keys[1] = k1 /\ c.keys[2] = k2
      /\ c.vals[1] = v1 /\ c.vals[2] = v2 /\ v1 \in Strings /\ v2 \in Strings
      /\ Execute(c, CmdMset(Store, c))
  BY <1>1, InstanceAssumption
<1>3. ArgKeys(c) = K
  <2>1. ArgKeys(c) = ToSet(<<k1, k2>>)
    BY Zenon DEF ArgKeys
  <2> QED
    BY <2>1 DEF ToSet
<1> HIDE DEF c
<1>4. Right(Store, {k1, k2}, CmdMset(Store, c))
  BY <1>2, StoreInOrder, MsetRight
<1>5. ASSUME NEW o \in CmdMset(Store, c)
      PROVE  o.reply \in {"ok", "oom"}
  BY <1>2, StoreInOrder, MsetRight
<1>6. ASSUME NEW o \in CmdMset(Store, c), o.reply = "ok"
      PROVE  IsStringAt(o.store, k1) /\ IsStringAt(o.store, k2)
  BY <1>2, <1>6, StoreInOrder, MsetRight
<1>7. ASSUME NEW o \in CmdMset(Store, c)
      PROVE  Leads(o.store, RecordCommand(o.store, c, o.reply), K)
  <2>1. StoreInv(o.store) /\ o.reply \in {"ok", "oom"}
    <3>1. o.reply \in {"ok", "oom"}
      BY <1>5
    <3>2. StoreInv(o.store)
      BY <1>4 DEF Right, Leads
    <3> QED
      BY <3>1, <3>2
  <2>2. CASE o.reply = "oom"
    BY <2>1, <2>2, FailureIsNotLogged, LeadsItself
  <2>3. CASE o.reply = "ok"
    <3>1. Leads(o.store, RecordMset(o.store, c), {k1, k2})
      BY <1>2, <1>6, <2>1, <2>3, RecordMsetLeads
    <3>2. RecordCommand(o.store, c, o.reply) \in {o.store, RecordMset(o.store, c)}
      BY <1>2, <2>3 DEF RecordCommand
    <3> QED
      BY <2>1, <3>1, <3>2, LeadsItself
  <2> QED
    BY <2>1, <2>2, <2>3
<1>8. Right(Store, K, CmdMset(Store, c))
  BY <1>4
<1>9. K \subseteq Keys
  OBVIOUS
<1> HIDE DEF K
<1> QED
  BY <1>2, <1>3, <1>7, <1>8, <1>9, CommandAnswers DEF SingleKeyWrites

LEMMA StringSteps ==
    ASSUME InSync, Incrby \/ AppendText
    PROVE  Answers
<1>1. CASE Incrby
  <2>1. PICK k \in Keys, by \in Deltas : LET c == [op |-> "INCRBY", key |-> k, by |-> by]
                                         IN  Execute(c, CmdIncrby(Store, c))
    BY <1>1 DEF Incrby
  <2> DEFINE c == [op |-> "INCRBY", key |-> k, by |-> by]
  <2>2. c.op = "INCRBY" /\ c.key = k /\ c.by \in Int /\ Execute(c, CmdIncrby(Store, c))
    BY <2>1, InstanceAssumption
  <2>3. c \in CmdRecords
    BY <2>2 DEF CmdRecords
  <2> HIDE DEF c
  <2>4. Right(Store, {k}, CmdIncrby(Store, c)) /\ AllStored(Store, k, CmdIncrby(Store, c))
    BY <2>2, StoreInOrder, IncrbyRight
  <2> QED
    BY <2>2, <2>3, <2>4, KeyCommandAnswers
<1>2. CASE AppendText
  <2>1. PICK k \in Keys : LET c == [op |-> "APPEND", key |-> k, by |-> 1]
                          IN  Execute(c, CmdAppend(Store, c))
    BY <1>2 DEF AppendText
  <2> DEFINE c == [op |-> "APPEND", key |-> k, by |-> 1]
  <2>2. c.op = "APPEND" /\ c.key = k /\ c.by \in Int /\ Execute(c, CmdAppend(Store, c))
    BY <2>1
  <2>3. c \in CmdRecords
    BY <2>2 DEF CmdRecords
  <2> HIDE DEF c
  <2>4. Right(Store, {k}, CmdAppend(Store, c)) /\ AllStored(Store, k, CmdAppend(Store, c))
    BY <2>2, StoreInOrder, AppendRight
  <2> QED
    BY <2>2, <2>3, <2>4, KeyCommandAnswers
<1> QED
  BY <1>1, <1>2

LEMMA DelStep ==
    ASSUME InSync, Del
    PROVE  Answers
<1>1. PICK ks \in [1..1 -> Keys] \cup [1..2 -> Keys] : LET c == [op |-> "DEL", keys |-> ks]
                                                       IN  Execute(c, CmdDel(Store, c))
  BY DEF Del
<1> DEFINE c == [op |-> "DEL", keys |-> ks]
           K == ToSet(ks)
<1>2. /\ ks \in Seq(Keys) /\ ks[1] \in Keys \cap K
      /\ Len(ks) = 1 \/ ks[2] \in Keys \cap K
      /\ K \subseteq Keys
  <2>1. CASE ks \in [1..1 -> Keys]
    <3>1. ks \in Seq(Keys) /\ DOMAIN ks = 1..1
      BY <2>1, SeqDef
    <3>2. Len(ks) = 1
      BY <3>1, LenProperties
    <3> QED
      BY <2>1, <3>1, <3>2 DEF ToSet
  <2>2. CASE ks \in [1..2 -> Keys]
    <3>1. ks \in Seq(Keys) /\ DOMAIN ks = 1..2
      BY <2>2, SeqDef
    <3> QED
      BY <2>2, <3>1 DEF ToSet
  <2> QED
    BY <2>1, <2>2
<1>3. /\ c.op = "DEL" /\ c.keys = ks
      /\ Execute(c, CmdDel(Store, c))
  BY <1>1
<1>4. ArgKeys(c) = K
  BY Zenon DEF ArgKeys
<1>5. c \in CmdRecords
  BY <1>1, ArgListsAre DEF CmdRecords
<1> HIDE DEF c, K
<1>6. Right(Store, K, CmdDel(Store, c)) /\ K \subseteq Keys
  BY <1>2, <1>3, StoreInOrder, DelRight
<1>7. \A o \in CmdDel(Store, c) : Leads(o.store, RecordCommand(o.store, c, o.reply), K)
  BY <1>3, <1>5, <1>6, RecordPlainLeads DEF Right, Leads
<1> QED
  BY <1>3, <1>4, <1>6, <1>7, CommandAnswers DEF SingleKeyWrites

LEMMA DeadlineSteps ==
    ASSUME InSync, Expire \/ Pexpireat \/ Persist
    PROVE  Answers
<1>1. CASE Expire
  <2>1. PICK k \in Keys, ttl \in ExpireTtls : LET c == [op |-> "EXPIRE", key |-> k, ttl |-> ttl]
                                              IN  Execute(c, CmdExpire(Store, c))
    BY <1>1 DEF Expire
  <2> DEFINE c == [op |-> "EXPIRE", key |-> k, ttl |-> ttl]
  <2>2. c.op = "EXPIRE" /\ c.key = k /\ c.ttl \in Nat /\ Execute(c, CmdExpire(Store, c))
    BY <2>1, InstanceAssumption
  <2>3. c \in CmdRecords
    BY <2>2 DEF CmdRecords
  <2> HIDE DEF c
  <2>4. Right(Store, {k}, CmdExpire(Store, c))
    BY <2>2, StoreInOrder, ExpireRight
  <2> QED
    BY <2>2, <2>3, <2>4, KeyCommandAnswers DEF SingleKeyWrites
<1>2. CASE Pexpireat
  <2>1. PICK k \in Keys, at \in 0..MaxNow : LET c == [op |-> "PEXPIREAT", key |-> k, at |-> at]
                                            IN  Execute(c, CmdPexpireat(Store, c))
    BY <1>2 DEF Pexpireat
  <2> DEFINE c == [op |-> "PEXPIREAT", key |-> k, at |-> at]
  <2>2. c.op = "PEXPIREAT" /\ c.key = k /\ c.at \in Nat /\ Execute(c, CmdPexpireat(Store, c))
    BY <2>1, InstanceAssumption
  <2>3. c \in CmdRecords
    BY <2>2 DEF CmdRecords
  <2> HIDE DEF c
  <2>4. Right(Store, {k}, CmdPexpireat(Store, c))
    BY <2>2, StoreInOrder, PexpireatRight
  <2> QED
    BY <2>2, <2>3, <2>4, KeyCommandAnswers DEF SingleKeyWrites
<1>3. CASE Persist
  <2>1. PICK k \in Keys : LET c == [op |-> "PERSIST", key |-> k]
                          IN  Execute(c, CmdPersist(Store, c))
    BY <1>3 DEF Persist
  <2> DEFINE c == [op |-> "PERSIST", key |-> k]
  <2>2. c.op = "PERSIST" /\ c.key = k /\ Execute(c, CmdPersist(Store, c))
    BY <2>1
  <2>3. c \in CmdRecords
    BY <2>2 DEF CmdRecords
  <2> HIDE DEF c
  <2>4. Right(Store, {k}, CmdPersist(Store, c))
    BY <2>2, StoreInOrder, PersistRight
  <2> QED
    BY <2>2, <2>3, <2>4, KeyCommandAnswers DEF SingleKeyWrites
<1> QED
  BY <1>1, <1>2, <1>3

LEMMA KeysStep ==
    ASSUME InSync, KeysCommand
    PROVE  Answers
<1> DEFINE c == [op |-> "KEYS"]
           K == {}
<1>1. c.op = "KEYS" /\ Execute(c, CmdKeys(Store))
  BY DEF KeysCommand
<1>2. c \in CmdRecords
  BY DEF CmdRecords
<1>3. ArgKeys(c) = K
  BY Zenon DEF ArgKeys
<1> HIDE DEF c
<1>4. Right(Store, K, CmdKeys(Store))
  BY StoreInOrder, KeysRight
<1>5. \A o \in CmdKeys(Store) : Leads(o.store, RecordCommand(o.store, c, o.reply), K)
  BY <1>1, <1>2, <1>4, RecordPlainLeads DEF Right, Leads
<1>6. K \subseteq Keys
  OBVIOUS
<1> HIDE DEF K
<1> QED
  BY <1>1, <1>3, <1>4, <1>5, <1>6, CommandAnswers DEF SingleKeyWrites

LEMMA FlushallStep ==
    ASSUME InSync, Flushall
    PROVE  Flushes
<1> DEFINE c == [op |-> "FLUSHALL"]
           t == Flush(Store)
           r == RecordCommand(t, c, "ok")
<1>1. ArgKeys(c) = {}
  BY Zenon DEF ArgKeys
<1>2. Execute(c, {Outcome(t, "ok")})
  BY DEF Flushall, CmdFlushall
<1>3. c \in CmdRecords /\ c.op = "FLUSHALL"
  BY DEF CmdRecords
<1> HIDE DEF c
<1>4. Become(r) /\ last' = [op |-> "FLUSHALL", keys |-> {}, reply |-> "ok"]
  <2> DEFINE o == Outcome(t, "ok")
  <2>1. /\ Become(RecordCommand(o.store, c, o.reply))
        /\ last' = [op |-> c.op, keys |-> ArgKeys(c), reply |-> o.reply]
    BY <1>2 DEF Execute
  <2>2. o.store = t /\ o.reply = "ok"
    BY DEF Outcome
  <2> HIDE DEF o, t
  <2> QED
    BY <1>1, <1>3, <2>1, <2>2
<1>5. Leads(t, r, {})
  BY <1>3, StoreInOrder, FlushKeepsInv, RecordPlainLeads
<1> QED
  BY <1>4, <1>5 DEF Flushes

LEMMA ReadStep ==
    ASSUME InSync, Read
    PROVE  Answers
<1>1. PICK k \in Keys : LET c == [op |-> "READ", key |-> k] IN Execute(c, CmdRead(Store, c))
  BY DEF Read
<1> DEFINE c == [op |-> "READ", key |-> k]
<1>2. c.op = "READ" /\ c.key = k /\ Execute(c, CmdRead(Store, c))
  BY <1>1
<1>3. c \in CmdRecords
  BY DEF CmdRecords
<1> HIDE DEF c
<1>4. Right(Store, {k}, CmdRead(Store, c))
  BY <1>2, StoreInOrder, ReadRight
<1> QED
  BY <1>2, <1>3, <1>4, KeyCommandAnswers DEF SingleKeyWrites

LEMMA ArgsType ==
    ASSUME NEW xs \in Args
    PROVE  xs \in Seq(Elems) /\ IsArgs(xs) /\ xs \in ArgLists(Elems)
<1>1. xs \in Seq(Elems) /\ Len(xs) \in 1..2
  BY InstanceAssumption DEF MaxArgs
<1>2. \A i \in 1..Len(xs) : xs[i] \in Elems
  BY <1>1, ElementOfSeq
<1>3. ToSet(xs) \subseteq Elems
  BY <1>1, <1>2 DEF ToSet
<1>4. xs \in ArgLists(Elems)
  <2>1. xs \in [1..Len(xs) -> Elems] /\ (Len(xs) = 1 \/ Len(xs) = 2)
    BY <1>1, LenProperties
  <2> QED
    BY <2>1, ArgListsAre
<1> QED
  BY <1>1, <1>2, <1>3, <1>4 DEF IsArgs

LEMMA ListSteps ==
    ASSUME InSync, Push \/ Pop \/ Lset
    PROVE  Answers
<1>1. CASE Push
  <2>1. PICK k \in Keys, op \in {"LPUSH", "RPUSH"}, xs \in Args :
          LET c == [op |-> op, key |-> k, xs |-> xs] IN Execute(c, CmdPush(Store, c))
    BY <1>1 DEF Push
  <2> DEFINE c == [op |-> op, key |-> k, xs |-> xs]
  <2>2. /\ c.op \in {"LPUSH", "RPUSH"} /\ c.key = k /\ c.xs \in Seq(Elems)
        /\ Execute(c, CmdPush(Store, c))
    BY <2>1, ArgsType
  <2>3. c \in CmdRecords
    BY <2>1, ArgsType DEF CmdRecords, ElemOps
  <2> HIDE DEF c
  <2>4. Right(Store, {k}, CmdPush(Store, c)) /\ AllStored(Store, k, CmdPush(Store, c))
    BY <2>2, StoreInOrder, PushRight
  <2> QED
    BY <2>2, <2>3, <2>4, KeyCommandAnswers
<1>2. CASE Pop
  <2>1. PICK k \in Keys, op \in {"LPOP", "RPOP"} : LET c == [op |-> op, key |-> k]
                                                  IN  Execute(c, CmdPop(Store, c))
    BY <1>2 DEF Pop
  <2> DEFINE c == [op |-> op, key |-> k]
  <2>2. c.op \in {"LPOP", "RPOP"} /\ c.key = k /\ Execute(c, CmdPop(Store, c))
    BY <2>1
  <2>3. c \in CmdRecords
    BY <2>2 DEF CmdRecords
  <2> HIDE DEF c
  <2>4. Right(Store, {k}, CmdPop(Store, c))
    BY <2>2, StoreInOrder, PopRight
  <2> QED
    BY <2>2, <2>3, <2>4, KeyCommandAnswers DEF SingleKeyWrites
<1>3. CASE Lset
  <2>1. PICK k \in Keys, index \in (-MaxLen)..MaxLen, x \in Elems :
          LET c == [op |-> "LSET", key |-> k, index |-> index, x |-> x]
          IN  Execute(c, CmdLset(Store, c))
    BY <1>3 DEF Lset
  <2> DEFINE c == [op |-> "LSET", key |-> k, index |-> index, x |-> x]
  <2>2. c.op = "LSET" /\ c.key = k /\ c.x \in Elems /\ Execute(c, CmdLset(Store, c))
    BY <2>1
  <2>3. c \in CmdRecords
    BY InstanceAssumption DEF CmdRecords
  <2> HIDE DEF c
  <2>4. Right(Store, {k}, CmdLset(Store, c))
    BY <2>2, StoreInOrder, LsetRight
  <2> QED
    BY <2>2, <2>3, <2>4, KeyCommandAnswers DEF SingleKeyWrites
<1> QED
  BY <1>1, <1>2, <1>3

LEMMA CollectionSteps ==
    ASSUME InSync, Sadd \/ Srem \/ Hdel \/ Zrem \/ HsetZadd
    PROVE  Answers
<1>1. PICK op \in ElemOps, k \in Keys, xs \in Args :
        LET c == [op |-> op, key |-> k, xs |-> xs]
        IN  \/ op = "SADD" /\ Execute(c, CmdSadd(Store, c))
            \/ op = "SREM" /\ Execute(c, CmdSrem(Store, c))
            \/ op = "HDEL" /\ Execute(c, CmdHdel(Store, c))
            \/ op = "ZREM" /\ Execute(c, CmdZrem(Store, c))
            \/ op \in {"HSET", "ZADD"} /\ Execute(c, CmdAddEach(Store, c))
  <2>1. CASE Sadd
    BY <2>1 DEF Sadd, ElemOps
  <2>2. CASE Srem
    BY <2>2 DEF Srem, ElemOps
  <2>3. CASE Hdel
    BY <2>3 DEF Hdel, ElemOps
  <2>4. CASE Zrem
    BY <2>4 DEF Zrem, ElemOps
  <2>5. CASE HsetZadd
    BY <2>5 DEF HsetZadd, ElemOps
  <2> QED
    BY <2>1, <2>2, <2>3, <2>4, <2>5
<1> DEFINE c == [op |-> op, key |-> k, xs |-> xs]
<1>2. c \in CmdRecords
  BY ArgsType DEF CmdRecords
<1>3. /\ c.op = op /\ c.key = k /\ IsArgs(c.xs)
      /\ c.op \notin {"MSET", "DEL", "FLUSHALL", "KEYS", "SET"}
  BY ArgsType DEF ElemOps
<1>4. \/ op = "SADD" /\ Execute(c, CmdSadd(Store, c))
      \/ op = "SREM" /\ Execute(c, CmdSrem(Store, c))
      \/ op = "HDEL" /\ Execute(c, CmdHdel(Store, c))
      \/ op = "ZREM" /\ Execute(c, CmdZrem(Store, c))
      \/ op \in {"HSET", "ZADD"} /\ Execute(c, CmdAddEach(Store, c))
  BY <1>1
<1> HIDE DEF c
<1>5. CASE op = "SADD" /\ Execute(c, CmdSadd(Store, c))
  <2>1. Right(Store, {k}, CmdSadd(Store, c)) /\ AllStored(Store, k, CmdSadd(Store, c))
    BY <1>3, StoreInOrder, SaddRight
  <2> QED
    BY <1>2, <1>3, <1>5, <2>1, KeyCommandAnswers
<1>6. CASE op = "SREM" /\ Execute(c, CmdSrem(Store, c))
  <2>1. Right(Store, {k}, CmdSrem(Store, c))
    BY <1>3, StoreInOrder, SremRight
  <2> QED
    BY <1>2, <1>3, <1>6, <2>1, KeyCommandAnswers DEF SingleKeyWrites
<1>7. CASE op = "HDEL" /\ Execute(c, CmdHdel(Store, c))
  <2>1. \A o \in CmdHdel(Store, c) : Leads(Store, o.store, {k}) /\ ShedsFields(Store, o, k)
    BY <1>3, StoreInOrder, HdelRight
  <2> QED
    BY <1>2, <1>3, <1>7, <2>1, KeyCommandAnswers DEF SingleKeyWrites
<1>8. CASE op = "ZREM" /\ Execute(c, CmdZrem(Store, c))
  <2>1. Right(Store, {k}, CmdZrem(Store, c))
    BY <1>3, StoreInOrder, ZremRight
  <2> QED
    BY <1>2, <1>3, <1>8, <2>1, KeyCommandAnswers DEF SingleKeyWrites
<1>9. CASE op \in {"HSET", "ZADD"} /\ Execute(c, CmdAddEach(Store, c))
  <2>1. Right(Store, {k}, CmdAddEach(Store, c)) /\ AllStored(Store, k, CmdAddEach(Store, c))
    BY <1>3, StoreInOrder, AddEachRight
  <2> QED
    BY <1>2, <1>3, <1>9, <2>1, KeyCommandAnswers
<1> QED
  BY <1>4, <1>5, <1>6, <1>7, <1>8, <1>9

LEMMA ExpireCycleStep ==
    ASSUME InSync, ExpireCycle
    PROVE  Answers
<1>1. PICK s \in EvictExpiredSamples(Store) : Become(s) /\ last' = Idle
  BY DEF ExpireCycle
<1>2. Leads(Store, s, {})
  BY StoreInOrder, EvictExpiredLeads
<1>3. last'.op = "NONE" /\ last'.keys = {} /\ last'.reply = "ok"
  BY <1>1 DEF Idle
<1>4. Answered(s, last')
  BY <1>2, <1>3 DEF Answered, RolledBack, Outcome
<1> QED
  BY <1>1, <1>3, <1>4 DEF Answers

LEMMA NextSteps ==
    ASSUME InSync, Next
    PROVE  Answers \/ Flushes \/ Tick
  BY SetStep, MsetStep, StringSteps, DelStep, DeadlineSteps, KeysStep, FlushallStep, ReadStep,
     ListSteps, CollectionSteps, ExpireCycleStep DEF Next

-----------------------------------------------------------------------------
(***************************************************************************)
(* The invariant.                                                          *)
(***************************************************************************)
LEMMA InSyncInit == Init => InSync
<1> SUFFICES ASSUME Init PROVE InSync
  OBVIOUS
<1>1. <<>> \in Seq(CmdRecords)
  OBVIOUS
<1>2. TypeOK
  BY <1>1 DEF Init, TypeOK
<1>3. KeyMetadataInSync
  BY DEF Init, KeyMetadataInSync
<1>4. UsedMemoryIsSum
  <2>1. \A k \in Keys : sizes[k] = 0
    BY DEF Init
  <2> QED
    BY <2>1, TotalZero DEF Init, UsedMemoryIsSum, Total
<1>5. AccessRanked
  <2>1. Cardinality(Keys) \in Nat
    BY KeysAssumption, FS_CardinalityType
  <2> QED
    BY <2>1 DEF Init, AccessRanked
<1>6. Tidy(Store)
  <2>1. \A k \in Keys : BaseSize(Store)[k] = 0
    BY StoreFields DEF Init, BaseSize
  <2>2. Total(BaseSize(Store)) = 0 /\ config.limit \in Nat
    BY <1>2, <2>1, TotalZero, InstanceAssumption DEF TypeOK
  <2>3. \A k \in Keys : expiry[k] = 0
    BY DEF Init
  <2> QED
    BY <2>2, <2>3, StoreFields DEF Tidy, ValuesFit, DeadlinesLive
<1> QED
  BY <1>2, <1>3, <1>4, <1>5, <1>6 DEF InSync

LEMMA InSyncNext == InSync /\ [Next]_vars => InSync'
<1> SUFFICES ASSUME InSync, [Next]_vars PROVE InSync'
  OBVIOUS
<1>1. CASE Answers
  <2>1. PICK r : Become(r) /\ Answered(r, last')
    BY <1>1 DEF Answers
  <2>2. StoreInv(r) /\ Tidy(r) /\ r.now = now /\ r.limit = config.limit
    BY <2>1, StoreFields DEF InSync, Answered, Leads, Spares
  <2> QED
    BY <2>1, <2>2, BecomeKeepsInv
<1>2. CASE Flushes
  <2>1. PICK r : Become(r) /\ Leads(Flush(Store), r, {})
    BY <1>2 DEF Flushes
  <2>2. /\ StoreInv(Flush(Store)) /\ Tidy(Flush(Store))
        /\ Flush(Store).now = now /\ Flush(Store).limit = config.limit
    <3>1. StoreInv(Flush(Store)) /\ Tidy(Flush(Store))
      BY StoreInOrder, FlushKeepsInv, FlushTidy DEF InSync
    <3>2. Flush(Store).now = now /\ Flush(Store).limit = config.limit
      BY DEF Flush, Store
    <3> QED
      BY <3>1, <3>2
  <2>3. StoreInv(r) /\ Tidy(r) /\ r.now = now /\ r.limit = config.limit
    BY <2>1, <2>2 DEF Leads, Spares
  <2> QED
    BY <2>1, <2>3, BecomeKeepsInv
<1>3. CASE Tick \/ UNCHANGED vars
  <2>1. /\ UNCHANGED <<config, data, sizes, used, access, expiry, aof>>
        /\ now' \in Nat
    BY <1>3 DEF Tick, vars, InSync, TypeOK
  <2>2. \A k \in Keys : EstimateKeySize(Store, k)' = EstimateKeySize(Store, k)
    BY <2>1 DEF EstimateKeySize, Store
  <2>3. TypeOK' /\ KeyMetadataInSync' /\ UsedMemoryIsSum' /\ AccessRanked'
    BY <2>1, <2>2 DEF InSync, TypeOK, KeyMetadataInSync, MayOverstate, UsedMemoryIsSum, AccessRanked
  <2>4. Tidy(Store)'
    <3>1. BaseSize(Store)' = BaseSize(Store)
      BY <2>1 DEF BaseSize, Store
    <3>2. ValuesFit(Store)'
      BY <2>1, <3>1 DEF InSync, Tidy, ValuesFit, Store, Total
    <3>3. DeadlinesLive(Store)'
      BY <2>1 DEF InSync, Tidy, DeadlinesLive, Store
    <3> QED
      BY <3>2, <3>3 DEF Tidy
  <2> QED
    BY <2>3, <2>4 DEF InSync
<1> QED
  BY <1>1, <1>2, <1>3, NextSteps

LEMMA InSyncAlways == Spec => []InSync
  BY InSyncInit, InSyncNext, PTL DEF Spec

\* The counter is the values, which are within the limit, and the deadlines.
LEMMA SyncBounds == InSync => MemoryBounded
<1>1. ASSUME InSync, config.limit > 0
      PROVE  used <= config.limit + TtlCost * Cardinality({k \in Live : expiry[k] # 0})
  <2> DEFINE n == Cardinality({k \in Live : expiry[k] # 0})
             values == Total(BaseSize(Store))
  <2>1. {k \in Present(Store) : Store.expiry[k] # 0} = {k \in Live : expiry[k] # 0}
    BY StoreFields DEF Present, Live
  <2>2. values \in Nat /\ n \in Nat /\ used = values + TtlCost * n
    BY <1>1, <2>1, UsedIs, StoreInOrder, StoreFields
  <2>3. values <= config.limit
    BY <1>1, StoreFields DEF InSync, Tidy, ValuesFit
  <2>4. config.limit \in Nat
    BY <1>1, InstanceAssumption DEF InSync, TypeOK
  <2> HIDE DEF n, values
  <2>5. TtlCost * n \in Nat
    BY <2>2, CostAssumption
  <2> QED
    BY <2>2, <2>3, <2>4, <2>5 DEF n
<1> QED
  BY <1>1 DEF MemoryBounded

LEMMA SyncLeavesNoDeadline == InSync => ExpiryOnlyForLiveKeys
  BY StoreFields DEF InSync, Tidy, DeadlinesLive, ExpiryOnlyForLiveKeys

-----------------------------------------------------------------------------
(***************************************************************************)
(* The theorems.                                                           *)
(***************************************************************************)
\* In every behaviour of the server each variable has its type.
THEOREM TypeCorrect == Spec => []TypeOK
<1>1. InSync => TypeOK
  BY DEF InSync
<1> QED
  BY <1>1, InSyncAlways, PTL

\* In every behaviour of the server a key has a value iff it has an access
\* time iff it has a size, and the size is the current estimate: no eviction,
\* expiry or rollback inside a command leaves a trace of the other kind.  Only
\* a hash may be counted with too much, and only where a field may be bad.
THEOREM MetadataInSync == Spec => []KeyMetadataInSync
<1>1. InSync => KeyMetadataInSync
  BY DEF InSync
<1> QED
  BY <1>1, InSyncAlways, PTL

\* _used_memory never drifts from the sum of the sizes, however many keys one
\* command evicts, purges and rolls back.
THEOREM MemoryIsCounted == Spec => []UsedMemoryIsSum
<1>1. InSync => UsedMemoryIsSum
  BY DEF InSync
<1> QED
  BY <1>1, InSyncAlways, PTL

\* No sequence of commands gets past maxmemory, except by the bytes of deadlines.
THEOREM MemoryIsBounded == Spec => []MemoryBounded
  BY SyncBounds, InSyncAlways, PTL

\* Without a memory limit no way of removing a key leaves its deadline behind.
THEOREM DeadlinesHaveKeys == Spec => []ExpiryOnlyForLiveKeys
  BY SyncLeavesNoDeadline, InSyncAlways, PTL

LEMMA DueIs == \A k \in Keys : IsExpired(Store, k) <=> Due(k)
  BY StoreFields DEF IsExpired, Due

\* Every way of losing a key that the command did not name is an expired
\* deadline, or the choice of the policy: the least recently used, the nearest
\* deadline, never a key without one under volatile-ttl, nothing under
\* noeviction.
THEOREM EvictionIsByPolicy == Spec => EvictionFollowsPolicy
<1>1. ASSUME InSync, Answers, NEW e \in Evicted
      PROVE  CASE config.limit = 0 \/ config.policy = "noeviction" -> FALSE
               [] config.policy = "allkeys-lru" ->
                    \A k \in Bystanders : access[e] < access[k]
               [] config.policy = "volatile-ttl" ->
                    /\ expiry[e] # 0
                    /\ \A k \in Bystanders : expiry[k] = 0 \/ expiry[e] <= expiry[k]
               [] OTHER -> TRUE
  <2>1. PICK r : Become(r) /\ Answered(r, last')
    BY <1>1 DEF Answers
  <2> DEFINE K == last'.keys
  <2>2. e \in Keys \ K /\ data[e] # Missing /\ ~Due(e) /\ r.data[e] = Missing
    BY <1>1, <2>1 DEF Evicted, Live, Become
  <2>3. SparesKey(Store, r, K, e)
    BY <2>1, <2>2 DEF Answered, Leads, Spares
  <2>4. Evicts(Store, r, e)
    BY <2>2, StoreFields, DueIs DEF Evicts
  <2>5. MayEvict(Store, e) /\ \A j \in Keys \ K : r.data[j] # Missing => Precedes(Store, e, j)
    BY <2>3, <2>4 DEF SparesKey
  <2>6. \A j \in Bystanders : Precedes(Store, e, j)
    BY <2>1, <2>5 DEF Bystanders, Live, Become
  <2>7. /\ config.limit # 0 /\ config.policy # "noeviction"
        /\ config.policy = "volatile-ttl" => expiry[e] # 0
    BY <2>5, StoreFields DEF MayEvict
  <2>8. /\ config.policy = "allkeys-lru" => \A j \in Bystanders : access[e] < access[j]
        /\ config.policy = "volatile-ttl" =>
              \A j \in Bystanders : expiry[j] = 0 \/ expiry[e] <= expiry[j]
    BY <2>6, StoreFields DEF Precedes
  <2> QED
    BY <2>7, <2>8, Zenon
<1>2. ASSUME InSync, Tick PROVE Evicted = {}
  BY <1>2 DEF Tick, Evicted, Live
<1>3. ASSUME Flushes PROVE last'.op = "FLUSHALL"
  BY <1>3 DEF Flushes
<1>4. ASSUME InSync, [Next]_vars
      PROVE  [last'.op # "FLUSHALL" =>
          \A e \in Evicted :
             CASE config.limit = 0 \/ config.policy = "noeviction" -> FALSE
               [] config.policy = "allkeys-lru" ->
                    \A k \in Bystanders : access[e] < access[k]
               [] config.policy = "volatile-ttl" ->
                    /\ expiry[e] # 0
                    /\ \A k \in Bystanders : expiry[k] = 0 \/ expiry[e] <= expiry[k]
               [] OTHER -> TRUE]_vars
  BY <1>1, <1>2, <1>3, <1>4, NextSteps, Zenon
<1> QED
  BY <1>4, InSyncAlways, PTL DEF Spec, EvictionFollowsPolicy

\* A command that answers with an error has undone its own writes, and under
\* noeviction it has touched no value and no deadline at all; an HDEL that met
\* a bad field may have taken fields from its own hash, and has done no more.
THEOREM FailuresAreAtomic == Spec => FailedWriteIsAtomic
<1>1. ASSUME InSync, Answers, last'.reply \in {"oom", "error"}, config.limit > 0,
             NEW k \in Keys, ~Due(k)
      PROVE  /\ k \in last'.keys \/ config.policy = "noeviction" =>
                   \/ data'[k] = data[k]
                   \/ /\ last'.op = "HDEL" /\ k \in last'.keys /\ BadFields # {}
                      /\ LosesFields(data[k], data'[k])
             /\ config.policy = "noeviction" => expiry'[k] = expiry[k]
  <2>1. PICK r : Become(r) /\ Answered(r, last')
    BY <1>1 DEF Answers
  <2>2. data' = r.data /\ expiry' = r.expiry
    BY <2>1 DEF Become
  <2>3. ~IsExpired(Store, k) /\ Store.limit # 0
    BY <1>1, StoreFields, DueIs
  <2>4. CASE k \in last'.keys
    <3>1. /\ \/ r.data[k] = Store.data[k]
             \/ /\ last'.op = "HDEL" /\ BadFields # {}
                /\ LosesFields(Store.data[k], r.data[k])
          /\ Store.policy = "noeviction" => r.expiry[k] = Store.expiry[k]
      BY <1>1, <2>1, <2>3, <2>4 DEF Answered, RolledBack, ShedsFields, Outcome
    <3>2. /\ data'[k] = data[k] \/ (last'.op = "HDEL" /\ BadFields # {} /\ LosesFields(data[k], data'[k]))
          /\ config.policy = "noeviction" => expiry'[k] = expiry[k]
      BY ONLY <2>2, <3>1, StoreFields
    <3> QED
      BY ONLY <2>4, <3>2
  <2>5. CASE k \notin last'.keys
    <3>1. SparesKey(Store, r, last'.keys, k)
      BY <2>1, <2>5 DEF Answered, Leads, Spares
    <3>2. ASSUME Store.policy = "noeviction"
          PROVE  r.data[k] = Store.data[k] /\ r.expiry[k] = Store.expiry[k]
      BY <2>3, <3>1, <3>2 DEF SparesKey, SameAt, Evicts, MayEvict
    <3> QED
      BY <2>2, <2>5, <3>2, StoreFields
  <2> QED
    BY <2>4, <2>5
<1>2. ASSUME InSync, Tick \/ Flushes PROVE last'.reply = "ok"
  BY <1>2 DEF Tick, Idle, Flushes
<1>3. ASSUME InSync, [Next]_vars
      PROVE  [(last'.reply \in {"oom", "error"} /\ config.limit > 0) =>
          \A k \in Keys : ~Due(k) =>
             /\ k \in last'.keys \/ config.policy = "noeviction" =>
                   \/ data'[k] = data[k]
                   \/ /\ last'.op = "HDEL" /\ k \in last'.keys /\ BadFields # {}
                      /\ LosesFields(data[k], data'[k])
             /\ config.policy = "noeviction" => expiry'[k] = expiry[k]]_vars
  BY <1>1, <1>2, <1>3, NextSteps
<1> QED
  BY <1>3, InSyncAlways, PTL DEF Spec, FailedWriteIsAtomic

\* The key of an acknowledged write is there when the reply is sent: neither
\* the eviction that made room for it nor the record of it took it away.
THEOREM AcksAreStored == Spec => AckedWriteIsStored
<1>1. ASSUME InSync, Answers, last'.op \in SingleKeyWrites, last'.reply = "ok",
             NEW k \in last'.keys, config.policy \in {"noeviction", "allkeys-lru"}, ~Due(k)
      PROVE  data'[k] # Missing
  <2>1. PICK r : Become(r) /\ Answered(r, last')
    BY <1>1 DEF Answers
  <2>2. ~IsExpired(Store, k)
    BY <1>1, <2>1, DueIs DEF Answered
  <2>3. r.data[k] # Missing
    BY <1>1, <2>1, <2>2 DEF Answered
  <2> QED
    BY <2>1, <2>3 DEF Become
<1>2. ASSUME InSync, Tick \/ Flushes PROVE last'.op \notin SingleKeyWrites
  BY <1>2 DEF Tick, Idle, Flushes, SingleKeyWrites
<1>3. ASSUME InSync, [Next]_vars
      PROVE  [(last'.op \in SingleKeyWrites /\ last'.reply = "ok") =>
          \A k \in last'.keys :
             (config.policy \in {"noeviction", "allkeys-lru"} /\ ~Due(k)) => data'[k] # Missing]_vars
  BY <1>1, <1>2, <1>3, NextSteps
<1> QED
  BY <1>3, InSyncAlways, PTL DEF Spec, AckedWriteIsStored

LEMMA ExecuteNames ==
    ASSUME NEW c, NEW outcomes, Execute(c, outcomes)
    PROVE  last'.op = c.op
  BY DEF Execute

\* only the background cycle and the clock leave no command behind
LEMMA IdleSteps ==
    ASSUME Next, last' = Idle
    PROVE  ExpireCycle \/ Tick
<1>1. last'.op = "NONE"
  BY DEF Idle
<1>2. ASSUME Set PROVE FALSE
  BY <1>1, <1>2, ExecuteNames DEF Set
<1>3. ASSUME Mset PROVE FALSE
  BY <1>1, <1>3, ExecuteNames DEF Mset
<1>4. ASSUME Incrby PROVE FALSE
  BY <1>1, <1>4, ExecuteNames DEF Incrby
<1>5. ASSUME AppendText PROVE FALSE
  BY <1>1, <1>5, ExecuteNames DEF AppendText
<1>6. ASSUME Del PROVE FALSE
  BY <1>1, <1>6, ExecuteNames DEF Del
<1>7. ASSUME Expire PROVE FALSE
  BY <1>1, <1>7, ExecuteNames DEF Expire
<1>8. ASSUME Pexpireat PROVE FALSE
  BY <1>1, <1>8, ExecuteNames DEF Pexpireat
<1>9. ASSUME Persist PROVE FALSE
  BY <1>1, <1>9, ExecuteNames DEF Persist
<1>10. ASSUME Flushall PROVE FALSE
  BY <1>1, <1>10, ExecuteNames DEF Flushall
<1>11. ASSUME KeysCommand PROVE FALSE
  BY <1>1, <1>11, ExecuteNames DEF KeysCommand
<1>12. ASSUME Read PROVE FALSE
  BY <1>1, <1>12, ExecuteNames DEF Read
<1>13. ASSUME Push PROVE FALSE
  BY <1>1, <1>13, ExecuteNames DEF Push
<1>14. ASSUME Pop PROVE FALSE
  BY <1>1, <1>14, ExecuteNames DEF Pop
<1>15. ASSUME Lset PROVE FALSE
  BY <1>1, <1>15, ExecuteNames DEF Lset
<1>16. ASSUME Sadd PROVE FALSE
  BY <1>1, <1>16, ExecuteNames DEF Sadd
<1>17. ASSUME Srem PROVE FALSE
  BY <1>1, <1>17, ExecuteNames DEF Srem
<1>18. ASSUME Zrem PROVE FALSE
  BY <1>1, <1>18, ExecuteNames DEF Zrem
<1>19. ASSUME HsetZadd PROVE FALSE
  BY <1>1, <1>19, ExecuteNames DEF HsetZadd
<1>20. ASSUME Hdel PROVE FALSE
  BY <1>1, <1>20, ExecuteNames DEF Hdel
<1> QED
  BY <1>2, <1>3, <1>4, <1>5, <1>6, <1>7, <1>8, <1>9, <1>10, <1>11,
     <1>12, <1>13, <1>14, <1>15, <1>16, <1>17, <1>18, <1>19, <1>20 DEF Next

\* The background cycle takes expired keys only; when all deadlines have
\* passed it takes all of them, or as many as its passes can sample.
THEOREM CyclesClearBacklog == Spec => ExpireCycleClearsBacklog
<1> DEFINE due == {k \in Live : Due(k)}
           removed == {k \in Live : data'[k] = Missing}
           all == {k \in Keys : expiry[k] # 0}
<1>1. ASSUME InSync, ExpireCycle
      PROVE  /\ removed \subseteq due
             /\ due = all => removed = due \/ Cardinality(removed) >= SampleSize * MaxPasses
  <2>1. PICK t \in EvictExpiredSamples(Store) : Become(t)
    BY <1>1 DEF ExpireCycle
  <2>2. PICK expired \in SampledExpired(Store) : t = DeleteKeys(Store, SetToSeq(expired), "expiry")
    BY <2>1 DEF EvictExpiredSamples
  <2>3. expired \subseteq ExpiredKeys(Store)
    BY <2>2, SampledExpiredType
  <2>4. t.data = [k \in Keys |-> IF k \in expired THEN Missing ELSE Store.data[k]]
    BY <1>1, <2>2, <2>3, StoreInOrder, PurgedData
  <2>5. ExpiredKeys(Store) = due
    BY StoreFields, DueIs DEF ExpiredKeys, Present, Live
  <2>6. removed = expired
    BY <2>1, <2>3, <2>4, <2>5, StoreFields DEF Become, Live
  <2>7. Volatile(Store) = all
    BY StoreFields DEF Volatile
  <2>8. due = all => expired = due \/ Cardinality(expired) >= SampleSize * MaxPasses
    BY <2>2, <2>5, <2>7, DueBacklogGoes
  <2> QED
    BY <2>3, <2>5, <2>6, <2>8
<1>2. ASSUME InSync, Tick PROVE now' # now
  BY <1>2 DEF Tick, InSync, TypeOK
<1>3. ASSUME InSync, [Next]_vars
      PROVE  [(last' = Idle /\ now' = now) =>
                 /\ removed \subseteq due
                 /\ due = all => removed = due \/ Cardinality(removed) >= SampleSize * MaxPasses]_vars
  BY <1>1, <1>2, <1>3, IdleSteps
<1> QED
  BY <1>3, InSyncAlways, PTL DEF Spec, ExpireCycleClearsBacklog
=============================================================================

--------------------------- MODULE Recovery_proof ---------------------------
(***************************************************************************)
(* A server that restarts from its log is as consistent as the one that    *)
(* wrote it: dictionaries, memory counter, limit and deadlines are in      *)
(* step again, whatever the log holds and wherever a power failure cut it. *)
(***************************************************************************)
EXTENDS Recovery, Keyspace_proof

\* what holds of a store while a log is loaded into it
Loading(s) ==
    /\ StoreInv(s) /\ Tidy(s)
    /\ s.limit = 0 /\ s.now = now /\ s.policy = config.policy

AllLoading(loaded) == \A l \in loaded : Loading(l.store)

-----------------------------------------------------------------------------
(***************************************************************************)
(* The dispatcher.                                                         *)
(***************************************************************************)
LEMMA DispatchIs ==
    ASSUME NEW s, NEW c
    PROVE  /\ c.op = "SET" => Dispatch(s, c) = CmdSet(s, c)
           /\ c.op = "MSET" => Dispatch(s, c) = CmdMset(s, c)
           /\ c.op = "INCRBY" => Dispatch(s, c) = CmdIncrby(s, c)
           /\ c.op = "APPEND" => Dispatch(s, c) = CmdAppend(s, c)
           /\ c.op = "DEL" => Dispatch(s, c) = CmdDel(s, c)
           /\ c.op = "EXPIRE" => Dispatch(s, c) = CmdExpire(s, c)
           /\ c.op = "PEXPIREAT" => Dispatch(s, c) = CmdPexpireat(s, c)
           /\ c.op = "PERSIST" => Dispatch(s, c) = CmdPersist(s, c)
           /\ c.op = "FLUSHALL" => Dispatch(s, c) = CmdFlushall(s)
           /\ c.op = "KEYS" => Dispatch(s, c) = CmdKeys(s)
           /\ c.op = "READ" => Dispatch(s, c) = CmdRead(s, c)
           /\ c.op \in {"LPUSH", "RPUSH"} => Dispatch(s, c) = CmdPush(s, c)
           /\ c.op \in {"LPOP", "RPOP"} => Dispatch(s, c) = CmdPop(s, c)
           /\ c.op = "LSET" => Dispatch(s, c) = CmdLset(s, c)
           /\ c.op = "SADD" => Dispatch(s, c) = CmdSadd(s, c)
           /\ c.op = "SREM" => Dispatch(s, c) = CmdSrem(s, c)
           /\ c.op = "HDEL" => Dispatch(s, c) = CmdHdel(s, c)
           /\ c.op = "ZREM" => Dispatch(s, c) = CmdZrem(s, c)
           /\ c.op \in {"HSET", "ZADD"} => Dispatch(s, c) = CmdAddEach(s, c)
  BY Zenon DEF Dispatch

\* which arguments a record of the log has
LEMMA RecordArgs ==
    ASSUME NEW c \in CmdRecords
    PROVE  /\ c.op \in {"SET", "MSET", "INCRBY", "APPEND", "DEL", "EXPIRE", "PEXPIREAT", "PERSIST",
                        "READ", "LPOP", "RPOP", "KEYS", "FLUSHALL", "LSET"} \cup ElemOps
           /\ c.op \notin {"MSET", "DEL", "KEYS", "FLUSHALL"} => c.key \in Keys
           /\ c.op = "SET" => c.val \in Strings /\ c.ttl \in Nat
           /\ c.op = "MSET" => c.keys \in [1..2 -> Keys] /\ c.vals \in [1..2 -> Strings]
           /\ c.op \in {"INCRBY", "APPEND"} => c.by \in Int
           /\ c.op = "DEL" => c.keys \in ArgLists(Keys)
           /\ c.op = "EXPIRE" => c.ttl \in Nat
           /\ c.op = "PEXPIREAT" => c.at \in Nat
           /\ c.op \in ElemOps => c.xs \in ArgLists(Elems)
           /\ c.op = "LSET" => c.x \in Elems
<1>1. CASE c \in [op : {"SET"}, key : Keys, val : Strings, ttl : Nat]
  BY <1>1 DEF ElemOps
<1>2. CASE c \in [op : {"MSET"}, keys : [1..2 -> Keys], vals : [1..2 -> Strings]]
  BY <1>2 DEF ElemOps
<1>3. CASE c \in [op : {"INCRBY", "APPEND"}, key : Keys, by : Int]
  BY <1>3 DEF ElemOps
<1>4. CASE c \in [op : {"DEL"}, keys : ArgLists(Keys)]
  BY <1>4 DEF ElemOps
<1>5. CASE c \in [op : {"EXPIRE"}, key : Keys, ttl : Nat]
  BY <1>5 DEF ElemOps
<1>6. CASE c \in [op : {"PEXPIREAT"}, key : Keys, at : Nat]
  BY <1>6 DEF ElemOps
<1>7. CASE c \in [op : {"PERSIST", "READ", "LPOP", "RPOP"}, key : Keys]
  BY <1>7 DEF ElemOps
<1>8. CASE c \in [op : {"KEYS", "FLUSHALL"}]
  BY <1>8 DEF ElemOps
<1>9. CASE c \in [op : ElemOps, key : Keys, xs : ArgLists(Elems)]
  BY <1>9 DEF ElemOps
<1>10. CASE c \in [op : {"LSET"}, key : Keys, index : Int, x : Elems]
  BY <1>10 DEF ElemOps
<1> QED
  BY <1>1, <1>2, <1>3, <1>4, <1>5, <1>6, <1>7, <1>8, <1>9, <1>10 DEF CmdRecords

LEMMA ArgListIsArgs ==
    ASSUME NEW xs \in ArgLists(Elems)
    PROVE  xs \in Seq(Elems) /\ IsArgs(xs)
<1>1. CASE xs \in [1..1 -> Elems]
  <2>1. xs \in Seq(Elems) /\ DOMAIN xs = 1..1
    BY <1>1, SeqDef
  <2>2. Len(xs) = 1
    BY <2>1, LenProperties
  <2> QED
    BY <1>1, <2>1, <2>2 DEF ToSet, IsArgs
<1>2. CASE xs \in [1..2 -> Elems]
  <2>1. xs \in Seq(Elems) /\ DOMAIN xs = 1..2
    BY <1>2, SeqDef
  <2> QED
    BY <1>2, <2>1 DEF ToSet, IsArgs
<1> QED
  BY <1>1, <1>2, ArgListsAre

\* Any record, on any store in order, leaves it in order.
LEMMA DispatchLeads ==
    ASSUME NEW s, StoreInv(s), NEW c \in CmdRecords, c.op # "FLUSHALL"
    PROVE  \E K : \A o \in Dispatch(s, c) : Leads(s, o.store, K)
<1>1. CASE c.op = "SET"
  <2>1. c.key \in Keys /\ c.val \in Strings /\ c.ttl \in Nat
    BY <1>1, RecordArgs
  <2>2. Right(s, {c.key}, CmdSet(s, c))
    BY <2>1, SetRight
  <2>3. Dispatch(s, c) = CmdSet(s, c)
    BY <1>1, DispatchIs
  <2> QED
    BY ONLY <2>2, <2>3 DEF Right
<1>2. CASE c.op = "INCRBY"
  <2>1. c.key \in Keys /\ c.by \in Int
    BY <1>2, RecordArgs
  <2>2. Right(s, {c.key}, CmdIncrby(s, c))
    BY <2>1, IncrbyRight
  <2>3. Dispatch(s, c) = CmdIncrby(s, c)
    BY <1>2, DispatchIs
  <2> QED
    BY ONLY <2>2, <2>3 DEF Right
<1>3. CASE c.op = "APPEND"
  <2>1. c.key \in Keys /\ c.by \in Int
    BY <1>3, RecordArgs
  <2>2. Right(s, {c.key}, CmdAppend(s, c))
    BY <2>1, AppendRight
  <2>3. Dispatch(s, c) = CmdAppend(s, c)
    BY <1>3, DispatchIs
  <2> QED
    BY ONLY <2>2, <2>3 DEF Right
<1>4. CASE c.op = "EXPIRE"
  <2>1. c.key \in Keys /\ c.ttl \in Nat
    BY <1>4, RecordArgs
  <2>2. Right(s, {c.key}, CmdExpire(s, c))
    BY <2>1, ExpireRight
  <2>3. Dispatch(s, c) = CmdExpire(s, c)
    BY <1>4, DispatchIs
  <2> QED
    BY ONLY <2>2, <2>3 DEF Right
<1>5. CASE c.op = "PEXPIREAT"
  <2>1. c.key \in Keys /\ c.at \in Nat
    BY <1>5, RecordArgs
  <2>2. Right(s, {c.key}, CmdPexpireat(s, c))
    BY <2>1, PexpireatRight
  <2>3. Dispatch(s, c) = CmdPexpireat(s, c)
    BY <1>5, DispatchIs
  <2> QED
    BY ONLY <2>2, <2>3 DEF Right
<1>6. CASE c.op = "PERSIST"
  <2>1. c.key \in Keys
    BY <1>6, RecordArgs
  <2>2. Right(s, {c.key}, CmdPersist(s, c))
    BY <2>1, PersistRight
  <2>3. Dispatch(s, c) = CmdPersist(s, c)
    BY <1>6, DispatchIs
  <2> QED
    BY ONLY <2>2, <2>3 DEF Right
<1>7. CASE c.op = "READ"
  <2>1. c.key \in Keys
    BY <1>7, RecordArgs
  <2>2. Right(s, {c.key}, CmdRead(s, c))
    BY <2>1, ReadRight
  <2>3. Dispatch(s, c) = CmdRead(s, c)
    BY <1>7, DispatchIs
  <2> QED
    BY ONLY <2>2, <2>3 DEF Right
<1>8. CASE c.op = "LSET"
  <2>1. c.key \in Keys /\ c.x \in Elems
    BY <1>8, RecordArgs
  <2>2. Right(s, {c.key}, CmdLset(s, c))
    BY <2>1, LsetRight
  <2>3. Dispatch(s, c) = CmdLset(s, c)
    BY <1>8, DispatchIs
  <2> QED
    BY ONLY <2>2, <2>3 DEF Right
<1>9. CASE c.op \in {"LPOP", "RPOP"}
  <2>1. c.key \in Keys
    BY <1>9, RecordArgs
  <2>2. Right(s, {c.key}, CmdPop(s, c))
    BY <2>1, PopRight
  <2>3. Dispatch(s, c) = CmdPop(s, c)
    BY <1>9, DispatchIs
  <2> QED
    BY ONLY <2>2, <2>3 DEF Right
<1>10. CASE c.op \in {"LPUSH", "RPUSH"}
  <2>1. c.key \in Keys /\ c.xs \in Seq(Elems)
    BY <1>10, RecordArgs, ArgListIsArgs DEF ElemOps
  <2>2. Right(s, {c.key}, CmdPush(s, c))
    BY <2>1, PushRight
  <2>3. Dispatch(s, c) = CmdPush(s, c)
    BY <1>10, DispatchIs
  <2> QED
    BY ONLY <2>2, <2>3 DEF Right
<1>11. CASE c.op = "SADD"
  <2>1. c.key \in Keys /\ IsArgs(c.xs)
    BY <1>11, RecordArgs, ArgListIsArgs DEF ElemOps
  <2>2. Right(s, {c.key}, CmdSadd(s, c))
    BY <2>1, SaddRight
  <2>3. Dispatch(s, c) = CmdSadd(s, c)
    BY <1>11, DispatchIs
  <2> QED
    BY ONLY <2>2, <2>3 DEF Right
<1>12. CASE c.op = "SREM"
  <2>1. c.key \in Keys
    BY <1>12, RecordArgs DEF ElemOps
  <2>2. Right(s, {c.key}, CmdSrem(s, c))
    BY <2>1, SremRight
  <2>3. Dispatch(s, c) = CmdSrem(s, c)
    BY <1>12, DispatchIs
  <2> QED
    BY ONLY <2>2, <2>3 DEF Right
<1>18. CASE c.op = "HDEL"
  <2>1. c.key \in Keys
    BY <1>18, RecordArgs DEF ElemOps
  <2>2. \A o \in CmdHdel(s, c) : Leads(s, o.store, {c.key})
    BY <2>1, HdelRight
  <2>3. Dispatch(s, c) = CmdHdel(s, c)
    BY <1>18, DispatchIs
  <2> QED
    BY ONLY <2>2, <2>3
<1>13. CASE c.op = "ZREM"
  <2>1. c.key \in Keys
    BY <1>13, RecordArgs DEF ElemOps
  <2>2. Right(s, {c.key}, CmdZrem(s, c))
    BY <2>1, ZremRight
  <2>3. Dispatch(s, c) = CmdZrem(s, c)
    BY <1>13, DispatchIs
  <2> QED
    BY ONLY <2>2, <2>3 DEF Right
<1>14. CASE c.op \in {"HSET", "ZADD"}
  <2>1. c.key \in Keys /\ IsArgs(c.xs)
    BY <1>14, RecordArgs, ArgListIsArgs DEF ElemOps
  <2>2. Right(s, {c.key}, CmdAddEach(s, c))
    BY <2>1, AddEachRight
  <2>3. Dispatch(s, c) = CmdAddEach(s, c)
    BY <1>14, DispatchIs
  <2> QED
    BY ONLY <2>2, <2>3 DEF Right
<1>15. CASE c.op = "KEYS"
  <2>1. Right(s, {}, CmdKeys(s))
    BY KeysRight
  <2> QED
    BY <1>15, <2>1, DispatchIs DEF Right
<1>16. CASE c.op = "MSET"
  <2>1. c.keys[1] \in Keys /\ c.keys[2] \in Keys /\ c.vals[1] \in Strings /\ c.vals[2] \in Strings
    <3>1. c.keys \in [1..2 -> Keys] /\ c.vals \in [1..2 -> Strings]
      BY <1>16, RecordArgs
    <3> QED
      BY <3>1
  <2>2. Right(s, {c.keys[1], c.keys[2]}, CmdMset(s, c))
    BY <2>1, MsetRight
  <2>3. Dispatch(s, c) = CmdMset(s, c)
    BY <1>16, DispatchIs
  <2> QED
    BY ONLY <2>2, <2>3 DEF Right
<1>17. CASE c.op = "DEL"
  <2>1. c.keys[1] \in Keys /\ (Len(c.keys) = 1 \/ c.keys[2] \in Keys)
    <3> DEFINE ks == c.keys
    <3>1. ks \in [1..1 -> Keys] \/ ks \in [1..2 -> Keys]
      BY <1>17, RecordArgs, ArgListsAre
    <3> HIDE DEF ks
    <3>2. ks[1] \in Keys /\ (Len(ks) = 1 \/ ks[2] \in Keys)
      <4>1. CASE ks \in [1..1 -> Keys]
        <5>1. ks \in Seq(Keys) /\ DOMAIN ks = 1..1
          BY <4>1, SeqDef
        <5>2. Len(ks) = 1
          BY <5>1, LenProperties
        <5> QED
          BY <4>1, <5>2
      <4> QED
        BY <3>1, <4>1
    <3> QED
      BY <3>2 DEF ks
  <2>2. Right(s, Keys, CmdDel(s, c))
    BY <2>1, DelRight
  <2>3. Dispatch(s, c) = CmdDel(s, c)
    BY <1>17, DispatchIs
  <2> QED
    BY ONLY <2>2, <2>3 DEF Right
<1> QED
  BY <1>1, <1>2, <1>3, <1>4, <1>5, <1>6, <1>7, <1>8, <1>9, <1>10, <1>11, <1>12, <1>13, <1>14,
     <1>15, <1>16, <1>17, <1>18, RecordArgs DEF ElemOps

LEMMA DispatchLoads ==
    ASSUME NEW s, Loading(s), NEW c \in CmdRecords, NEW o \in Dispatch(s, c)
    PROVE  Loading(o.store)
<1>1. CASE c.op = "FLUSHALL"
  <2>1. o.store = Flush(s)
    BY <1>1, DispatchIs DEF CmdFlushall, Outcome
  <2>2. StoreInv(Flush(s)) /\ Tidy(Flush(s))
    BY FlushKeepsInv, FlushTidy DEF Loading
  <2>3. Flush(s).limit = s.limit /\ Flush(s).now = s.now /\ Flush(s).policy = s.policy
    BY FlushIs DEF Loading, StoreInv
  <2> QED
    BY <2>1, <2>2, <2>3 DEF Loading
<1>2. CASE c.op # "FLUSHALL"
  <2>1. PICK K : \A p \in Dispatch(s, c) : Leads(s, p.store, K)
    BY <1>2, DispatchLeads DEF Loading
  <2>2. Leads(s, o.store, K)
    BY <2>1
  <2> QED
    BY <2>2 DEF Leads, Spares, Loading
<1> QED
  BY <1>1, <1>2

LEMMA ReplayRecordLoads ==
    ASSUME NEW loaded, AllLoading(loaded), NEW c \in CmdRecords
    PROVE  AllLoading(ReplayRecord(loaded, c))
<1>1. SUFFICES ASSUME NEW r \in ReplayRecord(loaded, c) PROVE Loading(r.store)
  BY DEF AllLoading
<1>2. PICK l \in loaded :
        r \in IF l.reply = "error" THEN {l}
              ELSE {Outcome(o.store, IF o.reply = "error" THEN "error" ELSE "ok") :
                        o \in Dispatch(l.store, c)}
  BY DEF ReplayRecord
<1>3. CASE r = l
  BY <1>3 DEF AllLoading
<1>4. CASE \E o \in Dispatch(l.store, c) :
              r = Outcome(o.store, IF o.reply = "error" THEN "error" ELSE "ok")
  <2>1. PICK o \in Dispatch(l.store, c) : r.store = o.store
    BY <1>4 DEF Outcome
  <2> QED
    BY <2>1, DispatchLoads DEF AllLoading
<1> QED
  BY <1>2, <1>3, <1>4

-----------------------------------------------------------------------------
(***************************************************************************)
(* The replay of a log is a fold, which is a recursive function over the   *)
(* sets of positions.  A function with that equation exists for every      *)
(* length, and what it gives for a prefix follows from the prefix before.  *)
(***************************************************************************)
Replays(g, log, base, n) ==
    g = [p \in SUBSET (1..n) |->
            IF p = {} THEN base
            ELSE ReplayRecord(g[p \ {Max(p)}], log[Max(p)])]

LEMMA MaxIs ==
    ASSUME NEW n \in Nat \ {0}, NEW p \in SUBSET (1..n), n \in p
    PROVE  Max(p) = n
<1>1. \A i \in p : i <= n
  OBVIOUS
<1>2. \A x \in p : (\A y \in p : x >= y) => x = n
  BY <1>1
<1>3. \A y \in p : n >= y
  BY <1>1
<1> QED
  BY <1>2, <1>3 DEF Max

LEMMA ReplaysAt ==
    ASSUME NEW n \in Nat, NEW log, NEW base, NEW g, Replays(g, log, base, n)
    PROVE  /\ g[{}] = base
           /\ \A k \in 1..n : g[1..k] = ReplayRecord(g[1..(k - 1)], log[k])
<1>1. g[{}] = base
  BY DEF Replays
<1>2. ASSUME NEW k \in 1..n PROVE g[1..k] = ReplayRecord(g[1..(k - 1)], log[k])
  <2> DEFINE p == 1..k
  <2>1. p \in SUBSET (1..n) /\ p # {}
    BY SMT
  <2>2. Max(p) = k
    <3>1. k \in Nat \ {0} /\ p \in SUBSET (1..k) /\ k \in p
      OBVIOUS
    <3> HIDE DEF p
    <3> QED
      BY <3>1, MaxIs
  <2>3. p \ {k} = 1..(k - 1)
    BY SMT
  <2> HIDE DEF p
  <2>4. g[p] = ReplayRecord(g[p \ {Max(p)}], log[Max(p)])
    BY <2>1 DEF Replays
  <2> QED
    BY <2>2, <2>3, <2>4 DEF p
<1> QED
  BY <1>1, <1>2

LEMMA ReplaysExist ==
    ASSUME NEW log, NEW base, NEW n \in Nat
    PROVE  \E g : Replays(g, log, base, n)
<1> DEFINE Bad == {m \in Nat : ~\E g : Replays(g, log, base, m)}
<1>1. 0 \notin Bad
  <2> DEFINE g == [p \in SUBSET (1..0) |-> base]
  <2>1. \A p \in SUBSET (1..0) : p = {}
    OBVIOUS
  <2>2. Replays(g, log, base, 0)
    BY <2>1 DEF Replays
  <2> QED
    BY <2>2
<1>2. ASSUME NEW m \in Nat, NEW g, Replays(g, log, base, m)
      PROVE  \E h : Replays(h, log, base, m + 1)
  <2> DEFINE k == m + 1
             h == [p \in SUBSET (1..k) |->
                      IF k \in p THEN ReplayRecord(g[p \ {k}], log[k]) ELSE g[p]]
  <2>1. k \in Nat \ {0}
    OBVIOUS
  <2>2. ASSUME NEW p \in SUBSET (1..k), k \in p
        PROVE  h[p] = ReplayRecord(h[p \ {Max(p)}], log[Max(p)])
    <3>1. Max(p) = k
      BY <2>1, <2>2, MaxIs
    <3>2. h[p \ {k}] = g[p \ {k}]
      OBVIOUS
    <3>3. h[p] = ReplayRecord(g[p \ {k}], log[k])
      BY <2>2
    <3> QED
      BY <3>1, <3>2, <3>3
  <2>3. ASSUME NEW p \in SUBSET (1..k), k \notin p, p # {}
        PROVE  h[p] = ReplayRecord(h[p \ {Max(p)}], log[Max(p)])
    <3>1. p \in SUBSET (1..m)
      BY <2>3
    <3>2. g[p] = ReplayRecord(g[p \ {Max(p)}], log[Max(p)])
      BY <2>3, <3>1, <1>2 DEF Replays
    <3>3. h[p] = g[p] /\ h[p \ {Max(p)}] = g[p \ {Max(p)}]
      BY <2>3
    <3> QED
      BY <3>2, <3>3
  <2>4. h[{}] = base
    BY <1>2 DEF Replays
  <2>5. h = [p \in SUBSET (1..k) |-> h[p]]
    OBVIOUS
  <2> HIDE DEF h
  <2>6. \A p \in SUBSET (1..k) :
          h[p] = IF p = {} THEN base ELSE ReplayRecord(h[p \ {Max(p)}], log[Max(p)])
    BY <2>2, <2>3, <2>4
  <2>7. Replays(h, log, base, k)
    BY <2>5, <2>6 DEF Replays
  <2> QED
    BY <2>7
<1>3. Bad = {}
  <2>1. ASSUME Bad # {} PROVE FALSE
    <3>1. Bad \subseteq Nat
      OBVIOUS
    <3>2. PICK b \in Bad : \A c \in Bad : b <= c
      <4> HIDE DEF Bad
      <4> QED
        BY <2>1, <3>1, SmallestNat
    <3>3. b \in Nat /\ b # 0
      BY <1>1
    <3>4. b - 1 \in Nat /\ b - 1 \notin Bad /\ (b - 1) + 1 = b
      <4>1. b - 1 \in Nat /\ ~(b <= b - 1) /\ (b - 1) + 1 = b
        BY <3>3
      <4> HIDE DEF Bad
      <4> QED
        BY <3>2, <4>1
    <3>5. PICK g : Replays(g, log, base, b - 1)
      BY <3>4
    <3> QED
      BY <1>2, <3>4, <3>5
  <2> QED
    BY <2>1
<1> QED
  BY <1>3

AlikeUpTo(log1, log2, k) == \A i \in 1..k : log1[i] = log2[i]
SameAfter(g1, g2, k) == g1[1..k] = g2[1..k]

\* Logs that agree up to k are replayed alike up to k.
LEMMA ReplaysAgree ==
    ASSUME NEW base, NEW log1, NEW n1 \in Nat, NEW g1, Replays(g1, log1, base, n1),
           NEW log2, NEW n2 \in Nat, NEW g2, Replays(g2, log2, base, n2),
           NEW k \in Nat, k <= n1, k <= n2, AlikeUpTo(log1, log2, k)
    PROVE  SameAfter(g1, g2, k)
<1> DEFINE Bad == {m \in 0..k : g1[1..m] # g2[1..m]}
<1>1. 0 \notin Bad
  <2>1. 1..0 = {}
    OBVIOUS
  <2> QED
    BY <2>1, ReplaysAt
<1>2. ASSUME NEW m \in Bad PROVE m - 1 \in Bad
  <2>1. m \in 1..k
    BY <1>1
  <2>2. m \in 1..n1 /\ m \in 1..n2 /\ m - 1 \in 0..k
    BY <2>1
  <2>3. g1[1..m] = ReplayRecord(g1[1..(m - 1)], log1[m])
    BY <2>2, ReplaysAt
  <2>4. g2[1..m] = ReplayRecord(g2[1..(m - 1)], log2[m])
    BY <2>2, ReplaysAt
  <2> QED
    BY <2>1, <2>2, <2>3, <2>4 DEF AlikeUpTo
<1>3. Bad = {}
  <2>1. ASSUME Bad # {} PROVE FALSE
    <3>1. Bad \subseteq Nat
      OBVIOUS
    <3> HIDE DEF Bad
    <3>2. PICK b \in Bad : \A c \in Bad : b <= c
      BY <2>1, <3>1, SmallestNat
    <3>3. b \in Nat /\ b - 1 \in Bad
      BY <1>2, <3>1
    <3> QED
      BY <3>2, <3>3
  <2> QED
    BY <2>1
<1> QED
  BY <1>3 DEF SameAfter

FreshOnly == {Outcome(Fresh, "ok")}

LEMMA StreamIs ==
    ASSUME NEW log \in Seq(CmdRecords)
    PROVE  /\ Len(log) \in Nat
           /\ \E g : /\ Replays(g, log, FreshOnly, Len(log))
                     /\ ReplayStream(log) = g[1..Len(log)]
<1>1. Len(log) \in Nat /\ DOMAIN log = 1..Len(log)
  BY LenProperties
<1> DEFINE g == CHOOSE h : Replays(h, log, FreshOnly, Len(log))
<1>2. Replays(g, log, FreshOnly, Len(log))
  BY <1>1, ReplaysExist
<1>3. ReplayStream(log) = g[1..Len(log)]
  BY <1>1 DEF ReplayStream, FoldLeft, MapThenFoldSet, Replays, FreshOnly
<1> QED
  BY <1>1, <1>2, <1>3

LEMMA StreamOfNone == ReplayStream(<<>>) = FreshOnly
<1>1. <<>> \in Seq(CmdRecords) /\ Len(<<>>) = 0 /\ 1..0 = {}
  OBVIOUS
<1>2. PICK g : Replays(g, <<>>, FreshOnly, 0) /\ ReplayStream(<<>>) = g[{}]
  BY <1>1, StreamIs
<1> QED
  BY <1>2, ReplaysAt

\* one more record
LEMMA StreamOfMore ==
    ASSUME NEW log \in Seq(CmdRecords), NEW more \in Seq(CmdRecords),
           Len(more) = Len(log) + 1, \A i \in 1..Len(log) : more[i] = log[i]
    PROVE  ReplayStream(more) = ReplayRecord(ReplayStream(log), more[Len(more)])
<1> DEFINE n == Len(log)
           m == Len(more)
<1>1. PICK g : Replays(g, log, FreshOnly, n) /\ ReplayStream(log) = g[1..n]
  BY StreamIs
<1>2. PICK h : Replays(h, more, FreshOnly, m) /\ ReplayStream(more) = h[1..m]
  BY StreamIs
<1>3. n \in Nat /\ m \in Nat /\ m = n + 1
  BY LenProperties
<1>4. AlikeUpTo(log, more, n)
  BY DEF AlikeUpTo
<1> HIDE DEF n, m
<1>5. m \in 1..m /\ m - 1 = n /\ n <= m
  BY <1>3
<1>6. h[1..m] = ReplayRecord(h[1..n], more[m])
  BY <1>2, <1>3, <1>5, ReplaysAt
<1>7. SameAfter(g, h, n)
  <2>1. Replays(g, log, FreshOnly, n)
    BY <1>1
  <2>2. Replays(h, more, FreshOnly, m)
    BY <1>2
  <2>3. n \in Nat
    BY <1>3
  <2>4. m \in Nat
    BY <1>3
  <2>5. n <= n
    BY <1>3
  <2>6. n <= m
    BY <1>3
  <2> QED
    BY <1>4, <2>1, <2>2, <2>3, <2>4, <2>5, <2>6, ReplaysAgree
<1> QED
  BY <1>1, <1>2, <1>6, <1>7 DEF n, m, SameAfter

\* Whatever the log holds, the stores it loads are in order.
LEMMA StreamLoads ==
    ASSUME NEW log \in Seq(CmdRecords), AllLoading(FreshOnly)
    PROVE  AllLoading(ReplayStream(log))
<1> DEFINE R(n) == ReplayStream(SubSeq(log, 1, n))
           Bad == {n \in 0..Len(log) : ~AllLoading(R(n))}
<1>1. Len(log) \in Nat
  BY LenProperties
<1>2. ASSUME NEW n \in 0..Len(log)
      PROVE  /\ SubSeq(log, 1, n) \in Seq(CmdRecords) /\ Len(SubSeq(log, 1, n)) = n
             /\ \A i \in 1..n : SubSeq(log, 1, n)[i] = log[i]
  BY <1>1, SubSeqProperties
<1>3. 0 \notin Bad
  <2>1. SubSeq(log, 1, 0) = <<>>
    BY <1>1, <1>2, EmptySeq
  <2> QED
    BY <2>1, StreamOfNone
<1>4. ASSUME NEW n \in Bad PROVE n - 1 \in Bad
  <2> DEFINE short == SubSeq(log, 1, n - 1)
             more == SubSeq(log, 1, n)
  <2>1. n \in 1..Len(log) /\ n \in 0..Len(log) /\ n - 1 \in 0..Len(log) /\ (n - 1) + 1 = n
    BY <1>1, <1>3
  <2>2. short \in Seq(CmdRecords) /\ more \in Seq(CmdRecords) /\ Len(short) = n - 1 /\ Len(more) = n
    BY <1>2, <2>1
  <2>3. \A i \in 1..(n - 1) : more[i] = short[i]
    BY <1>2, <2>1
  <2>4. more[n] = log[n] /\ log[n] \in CmdRecords
    BY <1>2, <2>1, ElementOfSeq
  <2> HIDE DEF short, more
  <2>5. ReplayStream(more) = ReplayRecord(ReplayStream(short), log[n])
    BY <2>1, <2>2, <2>3, <2>4, StreamOfMore
  <2>6. ~AllLoading(ReplayStream(more))
    BY DEF more
  <2>7. ~AllLoading(ReplayStream(short))
    BY <2>4, <2>5, <2>6, ReplayRecordLoads
  <2> QED
    BY <2>1, <2>7 DEF short
<1>5. Bad = {}
  <2>1. ASSUME Bad # {} PROVE FALSE
    <3>1. Bad \subseteq Nat
      OBVIOUS
    <3> HIDE DEF Bad
    <3>2. PICK b \in Bad : \A c \in Bad : b <= c
      BY <2>1, <3>1, SmallestNat
    <3>3. b \in Nat /\ b - 1 \in Bad
      BY <1>4, <3>1
    <3> QED
      BY <3>2, <3>3
  <2> QED
    BY <2>1
<1>6. AllLoading(R(Len(log)))
  BY <1>1, <1>5
<1>7. SubSeq(log, 1, Len(log)) = log
  BY <1>1, SubSeqFull
<1> QED
  BY <1>6, <1>7

-----------------------------------------------------------------------------
(***************************************************************************)
(* The restart.                                                            *)
(***************************************************************************)
LEMMA FreshLoads ==
    ASSUME InSync
    PROVE  AllLoading(FreshOnly)
<1>1. /\ Fresh.data = [k \in Keys |-> Missing] /\ Fresh.sizes = [k \in Keys |-> 0]
      /\ Fresh.used = 0 /\ Fresh.access = [k \in Keys |-> 0] /\ Fresh.clock = 0
      /\ Fresh.expiry = [k \in Keys |-> 0] /\ Fresh.now = now /\ Fresh.limit = 0
      /\ Fresh.policy = config.policy /\ Fresh.logging = FALSE /\ Fresh.log = <<>>
  BY DEF Fresh
<1>2. WellTyped(Fresh)
  <2>1. DOMAIN Fresh = Fields
    BY SMT DEF Fresh, Fields
  <2>2. config.policy \in SUPPORTED_EVICTION_POLICIES /\ now \in Nat
    BY InstanceAssumption DEF InSync, TypeOK
  <2>3. <<>> \in Seq(CmdRecords)
    OBVIOUS
  <2>4. /\ Fresh.data \in [Keys -> Objects \cup {Missing}]
        /\ Fresh.sizes \in [Keys -> Nat] /\ Fresh.access \in [Keys -> Nat]
        /\ Fresh.expiry \in [Keys -> Nat]
    BY <1>1
  <2>5. /\ Fresh.used \in Int /\ Fresh.clock \in Nat /\ Fresh.limit \in Nat
        /\ Fresh.now \in Nat
    BY <1>1, <2>2
  <2>6. Fresh.policy \in SUPPORTED_EVICTION_POLICIES /\ Fresh.logging \in BOOLEAN
    BY <1>1, <2>2, Zenon
  <2>7. Fresh.log \in Seq(CmdRecords)
    BY <1>1, <2>3
  <2> QED
    BY <2>1, <2>4, <2>5, <2>6, <2>7 DEF WellTyped
<1>3. Counted(Fresh)
  BY <1>1, TotalZero DEF Counted
<1>4. \A k \in Keys : AccessInSync(Fresh, k) /\ SizeInSync(Fresh, k) /\ AccessInOrder(Fresh, k)
  BY <1>1 DEF AccessInSync, SizeInSync, AccessInOrder
<1>5. Tidy(Fresh)
  BY <1>1 DEF Tidy, ValuesFit, DeadlinesLive
<1>6. Loading(Fresh)
  BY <1>1, <1>2, <1>3, <1>4, <1>5 DEF Loading, StoreInv
<1> QED
  BY <1>6 DEF AllLoading, FreshOnly, Outcome

\* the limit enforced without a key of the command
LEMMA EnforceLoadedIs ==
    ASSUME NEW s, StoreInv(s), NEW o \in EnforceMaxmemory(s, {})
    PROVE  Enforced(s, o)
<1>1. CASE s.limit = 0
  <2>1. o = Outcome(s, "ok")
    BY <1>1 DEF EnforceMaxmemory
  <2>2. o.store = s /\ o.reply = "ok"
    BY <2>1 DEF Outcome
  <2> QED
    BY <1>1, <2>2, LeadsItself DEF Enforced, Shrinks, KeptOrGone
<1>2. CASE s.limit # 0
  <2>1. PICK t \in EvictExpiredSamples(s) : o \in EnforceAfterCleanup(t)
    BY <1>2 DEF EnforceMaxmemory
  <2>2. /\ Leads(s, t, {})
        /\ Shrinks(s, t)
        /\ t.used <= s.used
        /\ \A j \in Keys : ~IsExpired(s, j) =>
              /\ t.data[j] = s.data[j] /\ t.sizes[j] = s.sizes[j]
              /\ t.access[j] = s.access[j] /\ t.expiry[j] = s.expiry[j]
        /\ \A j \in Keys : t.expiry[j] \in {0, s.expiry[j]} /\ t.access[j] \in {0, s.access[j]}
    BY <2>1, EvictExpiredLeads
  <2>3. StoreInv(t) /\ t.limit = s.limit
    BY <2>2 DEF Leads, Spares
  <2>4. Enforced(t, o)
    BY <1>2, <2>1, <2>3, AfterCleanupIs
  <2>5. Leads(s, o.store, {})
    BY <2>2, <2>4, LeadsTrans DEF Enforced
  <2>6. Shrinks(s, o.store)
    BY <2>2, <2>4 DEF Enforced, Shrinks, KeptOrGone
  <2>7. \A j \in Keys : o.store.expiry[j] \in {0, s.expiry[j]}
    BY <2>2, <2>4 DEF Enforced
  <2> QED
    BY <1>2, <2>3, <2>4, <2>5, <2>6, <2>7 DEF Enforced
<1> QED
  BY <1>1, <1>2

\* the limit set again in a loaded store
LEMMA LimitedInOrder ==
    ASSUME InSync, NEW t, Loading(t)
    PROVE  LET s == [t EXCEPT !.limit = config.limit]
           IN  /\ StoreInv(s) /\ (config.limit = 0 => Tidy(s))
               /\ s.data = t.data /\ s.expiry = t.expiry /\ s.used = t.used
               /\ s.now = now /\ s.policy = config.policy /\ s.limit = config.limit
<1> DEFINE s == [t EXCEPT !.limit = config.limit]
<1>1. /\ DOMAIN s = Fields
      /\ s.data = t.data /\ s.sizes = t.sizes /\ s.used = t.used
      /\ s.access = t.access /\ s.clock = t.clock /\ s.expiry = t.expiry
      /\ s.now = t.now /\ s.limit = config.limit /\ s.policy = t.policy
      /\ s.logging = t.logging /\ s.log = t.log
  BY SMT DEF Loading, StoreInv, WellTyped, Fields
<1> HIDE DEF s
<1>2. WellTyped(s)
  <2>1. config.limit \in Nat
    BY InstanceAssumption DEF InSync, TypeOK
  <2> QED
    BY <1>1, <2>1 DEF Loading, StoreInv, WellTyped
<1>3. Counted(s)
  BY <1>1 DEF Loading, StoreInv, Counted
<1>4. \A k \in Keys : AccessInSync(s, k) /\ SizeInSync(s, k) /\ AccessInOrder(s, k)
  BY <1>1 DEF Loading, StoreInv, AccessInSync, SizeInSync, AccessInOrder, EstimateKeySize
<1>5. config.limit = 0 => Tidy(s)
  BY <1>1 DEF Loading, Tidy, ValuesFit, DeadlinesLive
<1>6. /\ StoreInv(s) /\ (config.limit = 0 => Tidy(s))
      /\ s.data = t.data /\ s.expiry = t.expiry /\ s.used = t.used
      /\ s.now = now /\ s.policy = config.policy /\ s.limit = config.limit
  BY <1>1, <1>2, <1>3, <1>4, <1>5 DEF StoreInv, Loading
<1> QED
  BY <1>6 DEF s

\* A load that succeeds leaves a store in order that is within the limit.
LEMMA LoadedInOrder ==
    ASSUME InSync, NEW log \in Seq(CmdRecords), NEW o \in ReplayAof(log), o.reply = "ok"
    PROVE  /\ StoreInv(o.store) /\ Tidy(o.store)
           /\ o.store.now = now /\ o.store.limit = config.limit /\ o.store.policy = config.policy
<1>1. PICK l \in ReplayStream(log) :
        o \in IF l.reply = "error" THEN {l}
              ELSE EnforceMaxmemory([l.store EXCEPT !.limit = config.limit], {})
  BY DEF ReplayAof
<1> DEFINE s == [l.store EXCEPT !.limit = config.limit]
<1>2. Loading(l.store)
  BY <1>1, FreshLoads, StreamLoads DEF AllLoading
<1>3. /\ StoreInv(s) /\ (config.limit = 0 => Tidy(s))
      /\ s.data = l.store.data /\ s.expiry = l.store.expiry /\ s.used = l.store.used
      /\ s.now = now /\ s.policy = config.policy /\ s.limit = config.limit
  BY <1>2, LimitedInOrder
<1>4. o \in EnforceMaxmemory(s, {})
  BY <1>1
<1> HIDE DEF s
<1>5. Enforced(s, o)
  BY <1>3, <1>4, EnforceLoadedIs
<1>6. /\ StoreInv(o.store)
      /\ o.store.now = now /\ o.store.limit = config.limit /\ o.store.policy = config.policy
  BY <1>3, <1>5 DEF Enforced, Leads, Spares
<1>7. CASE config.limit = 0
  <2>1. o.store = s
    BY <1>3, <1>5, <1>7 DEF Enforced
  <2> QED
    BY <1>3, <1>6, <1>7, <2>1
<1>8. CASE config.limit # 0
  <2>1. o.store.used <= o.store.limit
    BY <1>3, <1>5, <1>6, <1>8 DEF Enforced
  <2>2. ValuesFit(o.store)
    BY <1>6, <2>1, WithinLimitFits
  <2> QED
    BY <1>6, <1>8, <2>2 DEF Tidy, DeadlinesLive
<1> QED
  BY <1>7, <1>8

LEMMA RestartKeepsInv ==
    ASSUME InSync, Restart
    PROVE  InSync'
<1>a. PICK n \in 0..Len(aof) :
        \E o \in ReplayAof(SubSeq(aof, 1, n)) :
           o.reply = "ok" /\ Become([o.store EXCEPT !.log = SubSeq(aof, 1, n)])
  BY DEF Restart
<1>1. PICK o \in ReplayAof(SubSeq(aof, 1, n)) :
        o.reply = "ok" /\ Become([o.store EXCEPT !.log = SubSeq(aof, 1, n)])
  BY <1>a
<1> DEFINE log == SubSeq(aof, 1, n)
           t == o.store
           s == [t EXCEPT !.log = log]
<1>2. log \in Seq(CmdRecords)
  BY SubSeqProperties DEF InSync, TypeOK
<1>3. StoreInv(t) /\ Tidy(t) /\ t.now = now /\ t.limit = config.limit
  BY <1>1, <1>2, LoadedInOrder
<1>4. Become(s)
  BY <1>1
<1> HIDE DEF log, t
<1>5. /\ DOMAIN s = Fields
      /\ s.data = t.data /\ s.sizes = t.sizes /\ s.used = t.used
      /\ s.access = t.access /\ s.clock = t.clock /\ s.expiry = t.expiry
      /\ s.now = t.now /\ s.limit = t.limit /\ s.policy = t.policy
      /\ s.logging = t.logging /\ s.log = log
  BY <1>3, SMT DEF StoreInv, WellTyped, Fields
<1> HIDE DEF s
<1>6. StoreInv(s)
  <2>1. WellTyped(s)
    BY <1>2, <1>3, <1>5 DEF StoreInv, WellTyped
  <2>2. Counted(s)
    BY <1>3, <1>5 DEF StoreInv, Counted
  <2>3. \A k \in Keys : AccessInSync(s, k) /\ SizeInSync(s, k) /\ AccessInOrder(s, k)
    BY <1>3, <1>5 DEF StoreInv, AccessInSync, SizeInSync, AccessInOrder, EstimateKeySize
  <2> QED
    BY <2>1, <2>2, <2>3 DEF StoreInv
<1>7. Tidy(s)
  BY <1>3, <1>5 DEF Tidy, ValuesFit, DeadlinesLive, BaseSize
<1> QED
  BY <1>3, <1>4, <1>5, <1>6, <1>7, BecomeKeepsInv

LEMMA RecoverySync == RecoverySpec => []InSync
<1>1. InSync /\ [RecoveryNext]_vars => InSync'
  BY InSyncNext, RestartKeepsInv DEF RecoveryNext
<1> QED
  BY <1>1, InSyncInit, PTL DEF RecoverySpec

-----------------------------------------------------------------------------
(***************************************************************************)
(* What a log says: the values and the deadlines, in whole milliseconds,   *)
(* after each of its records, as far as no deadline has passed.            *)
(***************************************************************************)
Cut(at) == (at \div MsTicks) * MsTicks

LEMMA CutWhole ==
    ASSUME NEW at \in Nat
    PROVE  at * MsTicks \in Nat /\ Cut(at * MsTicks) = at * MsTicks
<1> DEFINE u == MsTicks
<1>1. u \in Nat \ {0}
  BY MsTicksAssumption
<1> HIDE DEF u
<1>2. at * u \in Nat
  BY <1>1
<1>3. ((at * u) \div u) * u = at * u
  BY <1>1
<1> QED
  BY <1>2, <1>3 DEF Cut, u

\* deadlines are cut to whole milliseconds
LEMMA CutIsBefore ==
    ASSUME NEW at \in Nat
    PROVE  at \div MsTicks \in Nat /\ Cut(at) \in Nat /\ Cut(at) <= at
<1> DEFINE u == MsTicks
<1>1. u \in Nat \ {0}
  BY MsTicksAssumption
<1> HIDE DEF u
<1>2. at \div u \in Nat /\ (at \div u) * u \in Nat /\ (at \div u) * u <= at
  BY <1>1
<1> QED
  BY <1>2 DEF Cut, u

\* the keys that have a deadline, each with the deadline that is recorded
Dates(s) == {p \in Keys \X Nat : s.expiry[p[1]] # 0 /\ p[2] = Cut(s.expiry[p[1]])}

But(V, k) == {p \in V : p[1] # k}

\* the records that commands and automatic deletions leave
IsEntry(c) ==
    /\ c \in CmdRecords
    /\ c.op \notin {"MSET", "EXPIRE", "KEYS", "READ"}
    /\ c.op = "SET" => c.ttl = 0
    /\ c.op \in {"HSET", "ZADD"} => Len(c.xs) = 1
    /\ c.op = "HDEL" => BadFields = {}

Allowed(c, d) == c.op \in KeyWrites => ~Refuses(c, d[c.key])

DataAfter(c, d) ==
    CASE c.op = "FLUSHALL" -> [k \in Keys |-> Missing]
      [] c.op = "DEL" -> [k \in Keys |-> IF k \in ToSet(c.keys) THEN Missing ELSE d[k]]
      [] c.op = "SET" -> [d EXCEPT ![c.key] = c.val]
      [] c.op \in {"PEXPIREAT", "PERSIST"} -> d
      [] c.op \in KeyWrites -> [d EXCEPT ![c.key] = Result(c, d[c.key])]

DatedAfter(c, V) ==
    CASE c.op = "PEXPIREAT" -> But(V, c.key) \cup {<<c.key, c.at * MsTicks>>}
      [] c.op \in {"SET", "PERSIST"} -> But(V, c.key)
      [] OTHER -> V

Redone(c, d, V, e, W) ==
    /\ Allowed(c, d)
    /\ e = DataAfter(c, d)
    /\ W = {p \in DatedAfter(c, V) : e[p[1]] # Missing}

NoneDue(s) == \A k \in Keys : ~IsExpired(s, k)

\* no deadline is new, but for the one a record sets
DeadlinesGo(s, t) == \A j \in Keys : t.expiry[j] \in {0, s.expiry[j]}

OnlyDates(c, s, t) ==
    \A j \in Keys : t.expiry[j] \in {0, s.expiry[j]} \cup
                       IF c.op = "PEXPIREAT" THEN {c.at * MsTicks} ELSE {}

\* a record replayed on s
Replayed(c, s, o) ==
    IF Allowed(c, s.data)
    THEN o.reply \in {"ok", "nil"} /\ Redone(c, s.data, Dates(s), o.store.data, Dates(o.store))
    ELSE o.reply = "error"

LEMMA DataAfterIs ==
    ASSUME NEW c, NEW d
    PROVE  /\ c.op = "FLUSHALL" => DataAfter(c, d) = [k \in Keys |-> Missing]
           /\ c.op = "DEL" => DataAfter(c, d) = [k \in Keys |-> IF k \in ToSet(c.keys) THEN Missing
                                                                 ELSE d[k]]
           /\ c.op = "SET" => DataAfter(c, d) = [d EXCEPT ![c.key] = c.val]
           /\ c.op \in {"PEXPIREAT", "PERSIST"} => DataAfter(c, d) = d
           /\ c.op \in KeyWrites => DataAfter(c, d) = [d EXCEPT ![c.key] = Result(c, d[c.key])]
  BY Zenon DEF DataAfter, KeyWrites

LEMMA DatedAfterIs ==
    ASSUME NEW c, NEW V
    PROVE  /\ c.op = "PEXPIREAT" => DatedAfter(c, V) = But(V, c.key) \cup {<<c.key, c.at * MsTicks>>}
           /\ c.op \in {"SET", "PERSIST"} => DatedAfter(c, V) = But(V, c.key)
           /\ c.op \notin {"PEXPIREAT", "SET", "PERSIST"} => DatedAfter(c, V) = V
  BY Zenon DEF DatedAfter

-----------------------------------------------------------------------------
(***************************************************************************)
(* The part of a store that a log tells of.                                *)
(***************************************************************************)
DelRecords(w) == [i \in 1..Len(w) |-> DelRecord(w[i])]
LogPlus(log, records) == log \o records

\* all of t that a record depends on, the values and deadlines aside
SameRun(s, t) ==
    /\ t.now = s.now /\ t.limit = s.limit /\ t.policy = s.policy /\ t.logging = s.logging

LEMMA DeleteKeysTells ==
    ASSUME NEW s, StoreInv(s), NEW w \in Seq(Keys), NEW reason
    PROVE  LET t == DeleteKeys(s, w, reason)
           IN  /\ t.data = [k \in Keys |-> IF k \in ToSet(w) THEN Missing ELSE s.data[k]]
               /\ t.expiry = [k \in Keys |-> IF k \in ToSet(w) THEN 0 ELSE s.expiry[k]]
               /\ SameRun(s, t)
               /\ t.log = IF s.logging /\ reason \in {"expiry", "eviction"}
                          THEN LogPlus(s.log, DelRecords(w)) ELSE s.log
<1> DEFINE t == DeleteKeys(s, w, reason)
           gone == ToSet(w)
<1>1. /\ WellTyped(t)
      /\ Counted(t)
      /\ t.used <= s.used
      /\ t.data = [j \in Keys |-> IF j \in gone THEN Missing ELSE s.data[j]]
      /\ t.sizes = [j \in Keys |-> IF j \in gone THEN 0 ELSE s.sizes[j]]
      /\ t.access = [j \in Keys |-> IF j \in gone THEN 0 ELSE s.access[j]]
      /\ t.expiry = [j \in Keys |-> IF j \in gone THEN 0 ELSE s.expiry[j]]
      /\ t.clock = s.clock /\ t.now = s.now /\ t.limit = s.limit
      /\ t.policy = s.policy /\ t.logging = s.logging
  BY DeleteKeysIs
<1>2. t.log = IF s.logging /\ reason \in {"expiry", "eviction"}
              THEN LogPlus(s.log, DelRecords(w)) ELSE s.log
  BY Zenon DEF DeleteKeys, LogPlus, DelRecords, StoreInv, WellTyped, Fields
<1> HIDE DEF t, gone
<1>3. SameRun(s, t)
  BY <1>1 DEF SameRun
<1> QED
  BY <1>1, <1>2, <1>3 DEF t, gone

-----------------------------------------------------------------------------
(***************************************************************************)
(* One record replayed on a store without a limit in which nothing is due. *)
(***************************************************************************)
LEMMA LookupLoaded ==
    ASSUME NEW s, Loading(s), NoneDue(s), NEW k \in Keys
    PROVE  LET t == Lookup(s, k)
           IN  Loading(t) /\ NoneDue(t) /\ t.data = s.data /\ t.expiry = s.expiry
<1> DEFINE t == Lookup(s, k)
<1>1. Leads(s, t, {k}) /\ t.data = s.data /\ t.expiry = s.expiry
  BY LookupLeads DEF Loading, NoneDue
<1> HIDE DEF t
<1>2. Loading(t) /\ t.now = s.now
  BY <1>1 DEF Leads, Spares, Loading
<1>3. NoneDue(t)
  BY <1>1, <1>2 DEF NoneDue, IsExpired
<1> QED
  BY <1>1, <1>2, <1>3 DEF t

LEMMA PutLoaded ==
    ASSUME NEW s, Loading(s), NoneDue(s), NEW k \in Keys, NEW obj \in Objects, NEW snap,
           NEW o \in Put(s, k, obj, snap)
    PROVE  /\ o.reply = "ok"
           /\ o.store.data = [s.data EXCEPT ![k] = obj]
           /\ o.store.expiry = s.expiry
           /\ NoneDue(o.store)
<1> DEFINE base == [s EXCEPT !.data[k] = obj]
           t == Written(s, k, obj)
<1>1. base.data[k] = obj /\ base.limit = 0
  BY SMT DEF Loading, StoreInv, WellTyped, Fields
<1>2. obj # Missing
  BY ObjectsArePresent
<1>3. /\ StoreInv(t)
      /\ t.data = [s.data EXCEPT ![k] = obj]
      /\ t.sizes = [s.sizes EXCEPT ![k] = EstimateKeySize(t, k)]
      /\ t.access = [s.access EXCEPT ![k] = s.clock + 1]
      /\ t.clock = s.clock + 1
      /\ t.expiry = s.expiry /\ t.now = s.now /\ t.limit = 0
      /\ t.policy = s.policy
  BY WrittenIs DEF Loading
<1>4. t = SyncMemoryForKey(TouchKey(base, k), k)
  BY DEF Written
<1>5. o \in {IF p.reply = "oom" THEN Outcome(RestoreKeySnapshot(p.store, k, snap), "oom")
             ELSE p : p \in EnforceMaxmemory(t, {k})}
  <2> HIDE DEF base, t
  <2> QED
    BY <1>1, <1>2, <1>4 DEF Put, FinalizeMutation, base
<1> HIDE DEF t
<1>6. EnforceMaxmemory(t, {k}) = {Outcome(t, "ok")}
  BY <1>3 DEF EnforceMaxmemory
<1>7. o.store = t /\ o.reply = "ok"
  BY <1>5, <1>6 DEF Outcome
<1>8. NoneDue(t)
  BY <1>3 DEF NoneDue, IsExpired
<1> QED
  BY <1>3, <1>7, <1>8

LEMMA StoreSetLoaded ==
    ASSUME NEW s, Loading(s), NoneDue(s), NEW k \in Keys, NEW obj \in Objects,
           NEW o \in StoreSet(s, k, obj)
    PROVE  /\ o.reply = "ok"
           /\ o.store.data = [s.data EXCEPT ![k] = obj]
           /\ o.store.expiry = s.expiry
           /\ NoneDue(o.store)
           /\ Loading(o.store)
<1>1. o \in Put(s, k, obj, SnapshotKey(s, k))
  BY DEF StoreSet
<1>2. Leads(s, o.store, {k})
  BY StoreSetIs DEF Loading
<1>3. Loading(o.store)
  BY <1>2 DEF Leads, Spares, Loading
<1> QED
  BY <1>1, <1>3, PutLoaded

LEMMA DeleteLoaded ==
    ASSUME NEW s, Loading(s), NoneDue(s), NEW k \in Keys, NEW reason
    PROVE  LET t == Delete(s, k, reason)
           IN  /\ Loading(t) /\ NoneDue(t)
               /\ t.data = [s.data EXCEPT ![k] = Missing]
               /\ t.expiry = [s.expiry EXCEPT ![k] = 0]
<1> DEFINE t == Delete(s, k, reason)
<1>1. CASE s.data[k] = Missing
  <2>1. t = s
    BY <1>1 DEF Delete
  <2>2. s.expiry[k] = 0
    BY <1>1 DEF Loading, Tidy, DeadlinesLive
  <2>3. s.data \in [Keys -> Objects \cup {Missing}] /\ s.expiry \in [Keys -> Nat]
    BY DEF Loading, StoreInv, WellTyped
  <2>4. s.data = [s.data EXCEPT ![k] = Missing] /\ s.expiry = [s.expiry EXCEPT ![k] = 0]
    BY <1>1, <2>2, <2>3
  <2> QED
    BY <2>1, <2>4
<1>2. CASE s.data[k] # Missing
  <2>1. <<k>> \in Seq(Keys) /\ ToSet(<<k>>) = {k}
    BY OneKey
  <2>2. t = DeleteKeys(s, <<k>>, reason)
    BY <1>2 DEF Delete
  <2>3. StoreInv(s)
    BY DEF Loading
  <2>4. /\ t.data = [j \in Keys |-> IF j \in {k} THEN Missing ELSE s.data[j]]
        /\ t.expiry = [j \in Keys |-> IF j \in {k} THEN 0 ELSE s.expiry[j]]
        /\ t.now = s.now
    <3> DEFINE w == <<k>>
    <3>1. w \in Seq(Keys) /\ ToSet(w) = {k} /\ t = DeleteKeys(s, w, reason)
      BY <2>1, <2>2
    <3> HIDE DEF w, t
    <3>2. /\ t.data = [j \in Keys |-> IF j \in ToSet(w) THEN Missing ELSE s.data[j]]
          /\ t.expiry = [j \in Keys |-> IF j \in ToSet(w) THEN 0 ELSE s.expiry[j]]
          /\ SameRun(s, t)
      BY <2>3, <3>1, DeleteKeysTells
    <3> QED
      BY <3>1, <3>2 DEF SameRun
  <2>5. Leads(s, t, {k})
    BY <2>3, DeleteLeads
  <2> HIDE DEF t
  <2>6. s.data \in [Keys -> Objects \cup {Missing}] /\ s.expiry \in [Keys -> Nat]
    BY <2>3 DEF StoreInv, WellTyped
  <2>7. t.data = [s.data EXCEPT ![k] = Missing] /\ t.expiry = [s.expiry EXCEPT ![k] = 0]
    BY <2>4, <2>6
  <2>8. Loading(t)
    BY <2>5 DEF Leads, Spares, Loading
  <2>9. NoneDue(t)
    BY <2>4 DEF NoneDue, IsExpired
  <2> QED
    BY <2>7, <2>8, <2>9 DEF t
<1> QED
  BY <1>1, <1>2

\* what replaying a write of w in place of v amounts to
WritesLoaded(s, k, w, o) ==
    /\ o.reply \in {"ok", "nil"}
    /\ o.store.data = [s.data EXCEPT ![k] = w]
    /\ Dates(o.store) = {p \in Dates(s) : o.store.data[p[1]] # Missing}
    /\ NoneDue(o.store)
    /\ Loading(o.store)
    /\ DeadlinesGo(s, o.store)

LEMMA WritesLoad ==
    ASSUME NEW s, Loading(s), NoneDue(s), NEW k \in Keys, NEW w, NEW o,
           Writes(s, k, s.data[k], w, o)
    PROVE  WritesLoaded(s, k, w, o)
<1>0. /\ s.data \in [Keys -> Objects \cup {Missing}] /\ s.expiry \in [Keys -> Nat]
      /\ \A j \in Keys : s.expiry[j] # 0 => s.data[j] # Missing
  BY DEF Loading, StoreInv, WellTyped, Tidy, DeadlinesLive
<1>1. CASE w = s.data[k] /\ o.store = s /\ o.reply \in {"ok", "nil"}
  <2>1. s.data = [s.data EXCEPT ![k] = w]
    BY <1>0, <1>1
  <2> QED
    BY <1>0, <1>1, <2>1 DEF WritesLoaded, Dates, DeadlinesGo
<1>2. CASE w = Missing /\ o = Outcome(Delete(s, k, "command"), "ok")
  <2> DEFINE t == Delete(s, k, "command")
  <2>1. o.store = t /\ o.reply = "ok"
    BY <1>2 DEF Outcome
  <2>2. /\ Loading(t) /\ NoneDue(t)
        /\ t.data = [s.data EXCEPT ![k] = Missing]
        /\ t.expiry = [s.expiry EXCEPT ![k] = 0]
    BY DeleteLoaded
  <2> HIDE DEF t
  <2>3. Dates(t) = {p \in Dates(s) : t.data[p[1]] # Missing}
    BY <1>0, <2>2 DEF Dates
  <2> QED
    BY <1>0, <1>2, <2>1, <2>2, <2>3 DEF WritesLoaded, DeadlinesGo
<1>3. CASE w \in Objects /\ o \in StoreSet(s, k, w)
  <2>1. /\ o.reply = "ok"
        /\ o.store.data = [s.data EXCEPT ![k] = w]
        /\ o.store.expiry = s.expiry
        /\ NoneDue(o.store)
        /\ Loading(o.store)
    BY <1>3, StoreSetLoaded
  <2>2. w # Missing
    BY <1>3, ObjectsArePresent
  <2>3. Dates(o.store) = {p \in Dates(s) : o.store.data[p[1]] # Missing}
    BY <1>0, <2>1, <2>2 DEF Dates
  <2> QED
    BY <2>1, <2>3 DEF WritesLoaded, DeadlinesGo
<1> QED
  BY <1>1, <1>2, <1>3 DEF Writes

\* the replay of a record succeeds as it should and leaves nothing due
GoesWell(c, s, o) ==
    Replayed(c, s, o) /\ (o.reply # "error" => NoneDue(o.store) /\ OnlyDates(c, s, o.store))

LEMMA WritesGoWell ==
    ASSUME NEW s, Loading(s), NoneDue(s), NEW t, t.data = s.data, t.expiry = s.expiry,
           NEW c, c.op \in KeyWrites, c.key \in Keys, ~Refuses(c, s.data[c.key]),
           NEW o, WritesLoaded(t, c.key, Result(c, s.data[c.key]), o)
    PROVE  GoesWell(c, s, o)
<1>1. Allowed(c, s.data)
  BY DEF Allowed
<1>2. o.store.data = DataAfter(c, s.data)
  BY DataAfterIs DEF WritesLoaded
<1>3. DatedAfter(c, Dates(s)) = Dates(s) /\ Dates(t) = Dates(s)
  BY DatedAfterIs DEF KeyWrites, Dates
<1>4. Dates(o.store) = {p \in DatedAfter(c, Dates(s)) : o.store.data[p[1]] # Missing}
  BY <1>3 DEF WritesLoaded
<1> QED
  BY <1>1, <1>2, <1>4 DEF GoesWell, Replayed, Redone, WritesLoaded, DeadlinesGo, OnlyDates

LEMMA DoesGoWell ==
    ASSUME NEW s, Loading(s), NoneDue(s), NEW c, c.op \in KeyWrites, c.key \in Keys,
           NEW o, Does(Lookup(s, c.key), c, o)
    PROVE  GoesWell(c, s, o)
<1> DEFINE t == Lookup(s, c.key)
           v == s.data[c.key]
<1>1. Loading(t) /\ NoneDue(t) /\ t.data = s.data /\ t.expiry = s.expiry
  BY LookupLoaded
<1>2. Does(t, c, o)
  OBVIOUS
<1> HIDE DEF t
<1>3. CASE Refuses(c, v)
  <2>1. o.reply = "error"
    BY <1>1, <1>2, <1>3 DEF Does, Outcome
  <2>2. ~Allowed(c, s.data)
    BY <1>3 DEF Allowed
  <2> QED
    BY <2>1, <2>2 DEF GoesWell, Replayed
<1>4. CASE ~Refuses(c, v)
  <2>1. Writes(t, c.key, t.data[c.key], Result(c, v), o)
    BY <1>1, <1>2, <1>4 DEF Does
  <2>2. WritesLoaded(t, c.key, Result(c, v), o)
    BY <1>1, <2>1, WritesLoad
  <2> QED
    BY <1>1, <1>4, <2>2, WritesGoWell
<1> QED
  BY <1>3, <1>4

LEMMA ZremGoesWell ==
    ASSUME NEW s, Loading(s), NoneDue(s), NEW c, c.op = "ZREM", c.key \in Keys, NEW o \in CmdZrem(s, c)
    PROVE  GoesWell(c, s, o)
<1> DEFINE k == c.key
           t == Lookup(s, k)
           v == s.data[k]
           w1 == ReducedOne(v, c.xs[1])
           w2 == ReducedOne(w1, c.xs[2])
<1>1. Loading(t) /\ NoneDue(t) /\ t.data = s.data /\ t.expiry = s.expiry
  BY LookupLoaded
<1>2. TypeFor(c.op) = "zset" /\ c.op \in KeyWrites
  BY TypeForIs DEF KeyWrites
<1> DEFINE first == ZremOne(t, k, c.xs[1])
           outcomes == IF Len(c.xs) = 1 THEN first ELSE Then(first, LAMBDA u : ZremOne(u, k, c.xs[2]))
<1>3. o \in Unless("zset", t, k, outcomes)
  BY DEF CmdZrem
<1> HIDE DEF t
\* one member
<1>4. ASSUME NEW u, Loading(u), NoneDue(u), u.data[k].type \in {"none", "zset"},
             NEW x, NEW p \in ZremOne(u, k, x)
      PROVE  WritesLoaded(u, k, ReducedOne(u.data[k], x), p)
  <2> DEFINE r == Lookup(u, k)
  <2>1. Loading(r) /\ NoneDue(r) /\ r.data = u.data /\ r.expiry = u.expiry
    BY <1>4, LookupLoaded
  <2>2. Writes(r, k, r.data[k], ReducedOne(r.data[k], x), p)
    <3>1. StoreInv(u)
      BY <1>4 DEF Loading
    <3> QED
      BY <1>4, <3>1, ZremOneDoes
  <2> HIDE DEF r
  <2>3. WritesLoaded(r, k, ReducedOne(r.data[k], x), p)
    BY <2>1, <2>2, WritesLoad
  <2> QED
    BY <2>1, <2>3 DEF WritesLoaded, Dates, DeadlinesGo
<1>5. CASE v.type \notin {"none", "zset"}
  <2>1. o.reply = "error"
    BY <1>1, <1>3, <1>5 DEF Unless, Outcome
  <2>2. ~Allowed(c, s.data)
    BY <1>2, <1>5 DEF Allowed, Refuses
  <2> QED
    BY <2>1, <2>2 DEF GoesWell, Replayed
<1>6. CASE v.type \in {"none", "zset"}
  <2>1. ~Refuses(c, v)
    BY <1>2, <1>6 DEF Refuses
  <2>2. o \in outcomes
    BY <1>1, <1>3, <1>6 DEF Unless
  <2>3. Result(c, v) = ZReduced(c, v)
    BY ResultIs
  <2>4. \A p \in first : WritesLoaded(t, k, w1, p)
    BY <1>1, <1>4, <1>6
  <2>5. CASE Len(c.xs) = 1
    <3>1. WritesLoaded(t, k, w1, o)
      BY <2>2, <2>4, <2>5
    <3>2. Result(c, v) = w1
      BY <2>3, <2>5 DEF ZReduced
    <3> QED
      BY <1>1, <1>2, <2>1, <3>1, <3>2, WritesGoWell
  <2>6. CASE Len(c.xs) # 1
    <3>1. PICK p \in first : \/ o = p /\ p.reply \in {"oom", "error"}
                             \/ o \in ZremOne(p.store, k, c.xs[2])
      <4> HIDE DEF first
      <4> QED
        BY <2>2, <2>6 DEF Then
    <3>2. WritesLoaded(t, k, w1, p)
      BY <2>4
    <3>3. o \in ZremOne(p.store, k, c.xs[2])
      BY <3>1, <3>2 DEF WritesLoaded
    <3>4. t.data \in [Keys -> Objects \cup {Missing}]
      BY <1>1 DEF Loading, StoreInv, WellTyped
    <3>5. p.store.data[k] = w1
      BY <3>2, <3>4 DEF WritesLoaded
    <3>6. w1.type \in {"none", "zset"}
      BY <1>6, Zenon DEF ReducedOne, Reduced, Missing, Collection
    <3>7. WritesLoaded(p.store, k, w2, o)
      <4> DEFINE u == p.store
      <4>1. Loading(u) /\ NoneDue(u) /\ u.data[k] = w1
        BY <3>2, <3>5 DEF WritesLoaded
      <4> HIDE DEF u, w1
      <4>2. u.data[k].type \in {"none", "zset"} /\ o \in ZremOne(u, k, c.xs[2])
        BY <3>3, <3>6, <4>1 DEF u
      <4>3. WritesLoaded(u, k, ReducedOne(u.data[k], c.xs[2]), o)
        BY <1>4, <4>1, <4>2
      <4> QED
        BY <4>1, <4>3 DEF u
    <3>8. [[t.data EXCEPT ![k] = w1] EXCEPT ![k] = w2] = [t.data EXCEPT ![k] = w2]
      BY <3>4
    <3>9. WritesLoaded(t, k, w2, o)
      <4>0. w1 = Missing => w2 = Missing
        BY DEF ReducedOne, Reduced, Members
      <4> HIDE DEF w1, w2
      <4>1. o.store.data = [t.data EXCEPT ![k] = w2]
        BY <3>2, <3>7, <3>8 DEF WritesLoaded
      <4>2. \A j \in Keys : o.store.data[j] # Missing => p.store.data[j] # Missing
        BY <3>2, <3>4, <4>0, <4>1 DEF WritesLoaded
      <4>3. Dates(o.store) = {q \in Dates(t) : o.store.data[q[1]] # Missing}
        BY <3>2, <3>7, <4>2 DEF WritesLoaded, Dates
      <4>4. DeadlinesGo(t, o.store)
        BY <3>2, <3>7 DEF WritesLoaded, DeadlinesGo
      <4> QED
        BY <3>2, <3>7, <4>1, <4>3, <4>4 DEF WritesLoaded
    <3>10. Result(c, v) = w2
      BY <2>3, <2>6 DEF ZReduced
    <3> QED
      BY <1>1, <1>2, <2>1, <3>9, <3>10, WritesGoWell
  <2> QED
    BY <2>5, <2>6
<1> QED
  BY <1>5, <1>6

LEMMA AddEachGoesWell ==
    ASSUME NEW s, Loading(s), NoneDue(s), NEW c, c.op \in {"HSET", "ZADD"}, c.key \in Keys,
           IsArgs(c.xs), Len(c.xs) = 1, NEW o \in CmdAddEach(s, c)
    PROVE  GoesWell(c, s, o)
<1> DEFINE k == c.key
           t == Lookup(s, k)
           u == Lookup(t, k)
           v == s.data[k]
           w == Result(c, v)
           snap == SnapshotKey(t, k)
           Back(r) == RestoreKeySnapshot(r, k, snap)
<1>1. Loading(t) /\ NoneDue(t) /\ t.data = s.data /\ t.expiry = s.expiry
  BY LookupLoaded
<1>2. AddsOne(t, c, o)
  BY AddEachDoes DEF Loading
<1> HIDE DEF t
<1>3. Loading(u) /\ NoneDue(u) /\ u.data = s.data /\ u.expiry = s.expiry
  BY <1>1, LookupLoaded
<1>4. c.op \in KeyWrites
  BY DEF KeyWrites
<1>5. CASE Refuses(c, v)
  <2>1. o.reply = "error"
    BY <1>1, <1>2, <1>5 DEF AddsOne, Outcome
  <2>2. ~Allowed(c, s.data)
    BY <1>4, <1>5 DEF Allowed
  <2> QED
    BY <2>1, <2>2 DEF GoesWell, Replayed
<1>6. CASE ~Refuses(c, v)
  <2> HIDE DEF w, snap, u
  <2>1. w \in Objects
    BY <1>1, <1>2, <1>6 DEF AddsOne, w
  <2>2. PICK p \in Put(u, k, w, snap) : o = IF p.reply = "ok" THEN p ELSE Outcome(Back(p.store), p.reply)
    BY <1>1, <1>2, <1>6 DEF AddsOne, w, snap, u
  <2>3. /\ p.reply = "ok"
        /\ p.store.data = [u.data EXCEPT ![k] = w]
        /\ p.store.expiry = u.expiry
        /\ NoneDue(p.store)
    BY <1>3, <2>1, PutLoaded
  <2>4. o = p
    BY <2>2, <2>3
  <2>5. \A j \in Keys : s.expiry[j] # 0 => p.store.data[j] # Missing
    <3>1. w # Missing
      BY <2>1, ObjectsArePresent
    <3>2. /\ s.data \in [Keys -> Objects \cup {Missing}]
          /\ \A j \in Keys : s.expiry[j] # 0 => s.data[j] # Missing
      BY DEF Loading, Tidy, DeadlinesLive, StoreInv, WellTyped
    <3> QED
      BY <1>3, <2>3, <3>1, <3>2
  <2>6. o.store.data = DataAfter(c, s.data)
    BY <1>3, <1>4, <2>3, <2>4, DataAfterIs DEF w
  <2>7. DatedAfter(c, Dates(s)) = Dates(s)
    BY DatedAfterIs
  <2>8. Dates(o.store) = {q \in DatedAfter(c, Dates(s)) : o.store.data[q[1]] # Missing}
    <3>1. o.store.expiry = s.expiry
      BY <1>3, <2>3, <2>4
    <3>2. Dates(o.store) = Dates(s)
      BY <3>1 DEF Dates
    <3>3. \A q \in Dates(s) : o.store.data[q[1]] # Missing
      BY <2>4, <2>5 DEF Dates
    <3> QED
      BY <2>7, <3>2, <3>3
  <2>9. Allowed(c, s.data)
    BY <1>6 DEF Allowed
  <2> QED
    BY <1>3, <2>3, <2>4, <2>6, <2>8, <2>9 DEF GoesWell, Replayed, Redone, OnlyDates
<1> QED
  BY <1>5, <1>6

LEMMA SetExpiryAtTells ==
    ASSUME NEW s, StoreInv(s), NEW k \in Keys, NEW at \in Nat
    PROVE  LET t == SetExpiryAt(s, k, at)
           IN  /\ StoreInv(t)
               /\ t.data = s.data
               /\ t.expiry = [s.expiry EXCEPT ![k] = at]
               /\ SameRun(s, t)
               /\ t.log = s.log
<1> DEFINE t == SetExpiryAt(s, k, at)
<1>1. /\ StoreInv(t)
      /\ t.data = s.data /\ t.access = s.access /\ t.clock = s.clock
      /\ t.expiry = [s.expiry EXCEPT ![k] = at]
      /\ t.now = s.now /\ t.limit = s.limit
      /\ t.policy = s.policy /\ t.logging = s.logging
  BY SetExpiryAtIs
<1>2. t.log = s.log
  BY Zenon DEF SetExpiryAt, SyncMemoryForKey, StoreInv, WellTyped, Fields
<1> HIDE DEF t
<1> QED
  BY <1>1, <1>2 DEF t, SameRun

LEMMA SetGoesWell ==
    ASSUME NEW s, Loading(s), NoneDue(s), NEW c, c.op = "SET", c.key \in Keys,
           c.val \in Strings, c.ttl = 0, NEW o \in CmdSet(s, c)
    PROVE  GoesWell(c, s, o)
<1> DEFINE k == c.key
<1>0. c.val \in Objects
  BY DEF Objects
<1>1. PICK p \in StoreSet(s, k, c.val) :
        \/ o = p /\ p.reply \in {"oom", "error"}
        \/ p.reply \notin {"oom", "error"} /\ o = Outcome(RemoveExpiry(p.store, k), "ok")
  BY DEF CmdSet, Then, Outcome
<1>2. /\ p.reply = "ok"
      /\ p.store.data = [s.data EXCEPT ![k] = c.val]
      /\ p.store.expiry = s.expiry
      /\ NoneDue(p.store)
      /\ Loading(p.store)
  BY <1>0, <1>1, StoreSetLoaded
<1> DEFINE t == RemoveExpiry(p.store, k)
<1>3. o.store = t /\ o.reply = "ok"
  BY <1>1, <1>2 DEF Outcome
<1>4. /\ t.data = p.store.data
      /\ t.expiry = [p.store.expiry EXCEPT ![k] = 0]
      /\ SameRun(p.store, t)
  BY <1>2, RemoveExpiryIs, SetExpiryAtTells DEF Loading
<1> HIDE DEF t
<1>5. s.expiry \in [Keys -> Nat] /\ s.data \in [Keys -> Objects \cup {Missing}]
  BY DEF Loading, StoreInv, WellTyped
<1>6. Dates(t) = {q \in But(Dates(s), k) : t.data[q[1]] # Missing}
  <2>1. \A j \in Keys : s.expiry[j] # 0 => s.data[j] # Missing
    BY DEF Loading, Tidy, DeadlinesLive
  <2> QED
    BY <1>2, <1>4, <1>5, <2>1 DEF Dates, But
<1>7. NoneDue(t)
  BY <1>2, <1>4, <1>5 DEF NoneDue, IsExpired, SameRun
<1>8. Allowed(c, s.data)
  BY DEF Allowed, KeyWrites
<1>9. o.store.data = DataAfter(c, s.data)
  BY <1>2, <1>3, <1>4, DataAfterIs
<1>10. DatedAfter(c, Dates(s)) = But(Dates(s), k)
  BY DatedAfterIs
<1>11. OnlyDates(c, s, t)
  BY <1>2, <1>4, <1>5 DEF OnlyDates
<1> QED
  BY <1>3, <1>6, <1>7, <1>8, <1>9, <1>10, <1>11 DEF GoesWell, Replayed, Redone

LEMMA DeadlinesGoWell ==
    ASSUME NEW s, Loading(s), NoneDue(s), NEW c, c.op \in {"PEXPIREAT", "PERSIST"}, c.key \in Keys,
           c.op = "PEXPIREAT" => c.at \in Nat /\ c.at * MsTicks > s.now,
           NEW o \in IF c.op = "PERSIST" THEN CmdPersist(s, c) ELSE CmdPexpireat(s, c)
    PROVE  GoesWell(c, s, o)
<1> DEFINE k == c.key
           t == Lookup(s, k)
<1>1. Loading(t) /\ NoneDue(t) /\ t.data = s.data /\ t.expiry = s.expiry
  BY LookupLoaded
<1>2. Allowed(c, s.data) /\ DataAfter(c, s.data) = s.data
  BY DataAfterIs DEF Allowed, KeyWrites
<1>3. /\ s.expiry \in [Keys -> Nat] /\ s.data \in [Keys -> Objects \cup {Missing}] /\ s.now \in Nat
      /\ t.now = s.now
      /\ \A j \in Keys : s.expiry[j] # 0 => s.data[j] # Missing
  BY <1>1 DEF Loading, StoreInv, WellTyped, Tidy, DeadlinesLive
<1>4. CASE c.op = "PERSIST"
  <2> DEFINE u == RemoveExpiry(t, k)
  <2>1. o = IF t.data[k] = Missing \/ t.expiry[k] = 0 THEN Outcome(t, "nil") ELSE Outcome(u, "ok")
    BY <1>4 DEF CmdPersist
  <2>2. u.data = t.data /\ u.expiry = [t.expiry EXCEPT ![k] = 0] /\ SameRun(t, u)
    BY <1>1, RemoveExpiryIs, SetExpiryAtTells DEF Loading
  <2>3. DatedAfter(c, Dates(s)) = But(Dates(s), k)
    BY <1>4, DatedAfterIs
  <2> HIDE DEF t, u
  <2>4. CASE t.data[k] = Missing \/ t.expiry[k] = 0
    <3>1. o.store = t /\ o.reply = "nil"
      BY <2>1, <2>4 DEF Outcome
    <3>2. Dates(t) = {p \in But(Dates(s), k) : t.data[p[1]] # Missing}
      BY <1>1, <1>3, <2>4 DEF Dates, But
    <3> QED
      BY <1>1, <1>2, <2>3, <3>1, <3>2 DEF GoesWell, Replayed, Redone, OnlyDates
  <2>5. CASE t.data[k] # Missing /\ t.expiry[k] # 0
    <3>1. o.store = u /\ o.reply = "ok"
      BY <2>1, <2>5 DEF Outcome
    <3>2. Dates(u) = {p \in But(Dates(s), k) : u.data[p[1]] # Missing}
      BY <1>1, <1>3, <2>2 DEF Dates, But
    <3>3. NoneDue(u)
      BY <1>1, <1>3, <2>2 DEF NoneDue, IsExpired, SameRun
    <3>4. OnlyDates(c, s, u)
      BY <1>1, <1>3, <2>2 DEF OnlyDates
    <3> QED
      BY <1>1, <1>2, <2>2, <2>3, <3>1, <3>2, <3>3, <3>4 DEF GoesWell, Replayed, Redone
  <2> QED
    BY <2>4, <2>5
<1>5. CASE c.op = "PEXPIREAT"
  <2> DEFINE at == c.at * MsTicks
             u == SetExpiryAt(t, k, at)
  <2>1. at \in Nat /\ at > s.now /\ ~(at <= t.now)
    BY <1>3, <1>5, MsTicksAssumption
  <2>2. o = IF t.data[k] = Missing THEN Outcome(t, "nil") ELSE Outcome(u, "ok")
    BY <1>5, <2>1 DEF CmdPexpireat
  <2>2a. Cut(at) = at
    BY <1>5, CutWhole
  <2> HIDE DEF at
  <2>3. u.data = t.data /\ u.expiry = [t.expiry EXCEPT ![k] = at] /\ SameRun(t, u)
    BY <1>1, <2>1, SetExpiryAtTells DEF Loading
  <2>4. DatedAfter(c, Dates(s)) = But(Dates(s), k) \cup {<<k, at>>}
    BY <1>5, DatedAfterIs DEF at
  <2> HIDE DEF t, u
  <2>5. CASE t.data[k] = Missing
    <3>1. o.store = t /\ o.reply = "nil"
      BY <2>2, <2>5 DEF Outcome
    <3>2. Dates(t) = {p \in But(Dates(s), k) \cup {<<k, at>>} : t.data[p[1]] # Missing}
      BY <1>1, <1>3, <2>5 DEF Dates, But
    <3> QED
      BY <1>1, <1>2, <2>4, <3>1, <3>2 DEF GoesWell, Replayed, Redone, OnlyDates
  <2>6. CASE t.data[k] # Missing
    <3>1. o.store = u /\ o.reply = "ok"
      BY <2>2, <2>6 DEF Outcome
    <3>2. Dates(u) = {p \in But(Dates(s), k) \cup {<<k, at>>} : u.data[p[1]] # Missing}
      BY <1>1, <1>3, <2>1, <2>2a, <2>3, <2>6 DEF Dates, But
    <3>3. NoneDue(u)
      BY <1>1, <1>3, <2>1, <2>3 DEF NoneDue, IsExpired, SameRun
    <3>4. OnlyDates(c, s, u)
      BY <1>1, <1>3, <1>5, <2>3 DEF OnlyDates, at
    <3> QED
      BY <1>1, <1>2, <2>3, <2>4, <3>1, <3>2, <3>3, <3>4 DEF GoesWell, Replayed, Redone
  <2> QED
    BY <2>5, <2>6
<1> QED
  BY <1>4, <1>5

LEMMA KeyLists ==
    ASSUME NEW ks \in ArgLists(Keys)
    PROVE  \/ Len(ks) = 1 /\ ks[1] \in Keys /\ ToSet(ks) = {ks[1]}
           \/ Len(ks) = 2 /\ ks[1] \in Keys /\ ks[2] \in Keys /\ ToSet(ks) = {ks[1], ks[2]}
<1>1. CASE ks \in [1..1 -> Keys]
  <2>1. ks \in Seq(Keys) /\ DOMAIN ks = 1..1
    BY <1>1, SeqDef
  <2>2. Len(ks) = 1
    BY <2>1, LenProperties
  <2> QED
    BY <1>1, <2>1, <2>2 DEF ToSet
<1>2. CASE ks \in [1..2 -> Keys]
  <2>1. ks \in Seq(Keys) /\ DOMAIN ks = 1..2
    BY <1>2, SeqDef
  <2>2. Len(ks) = 2
    BY <2>1, LenProperties
  <2> QED
    BY <1>2, <2>1, <2>2 DEF ToSet
<1> QED
  BY <1>1, <1>2, ArgListsAre

LEMMA PlainGoesWell ==
    ASSUME NEW s, Loading(s), NoneDue(s), NEW c, c.op \in {"DEL", "FLUSHALL"},
           c.op = "DEL" => c.keys \in ArgLists(Keys),
           NEW o \in IF c.op = "DEL" THEN CmdDel(s, c) ELSE CmdFlushall(s)
    PROVE  GoesWell(c, s, o)
<1>1. /\ s.expiry \in [Keys -> Nat] /\ s.data \in [Keys -> Objects \cup {Missing}] /\ s.now \in Nat
      /\ \A j \in Keys : s.expiry[j] # 0 => s.data[j] # Missing
  BY DEF Loading, StoreInv, WellTyped, Tidy, DeadlinesLive
<1>2. Allowed(c, s.data) /\ DatedAfter(c, Dates(s)) = Dates(s)
  BY DatedAfterIs DEF Allowed, KeyWrites
<1>3. CASE c.op = "FLUSHALL"
  <2> DEFINE t == Flush(s)
  <2>1. o.store = t /\ o.reply = "ok"
    BY <1>3 DEF CmdFlushall, Outcome
  <2>2. /\ DOMAIN t = Fields
        /\ t.used = 0
        /\ t.data = [k \in Keys |-> Missing]
        /\ t.sizes = [k \in Keys |-> 0]
        /\ t.access = [k \in Keys |-> 0]
        /\ t.expiry = [k \in Keys |-> IF k \in Present(s) THEN 0 ELSE s.expiry[k]]
        /\ t.clock = s.clock /\ t.now = s.now /\ t.limit = s.limit
        /\ t.policy = s.policy /\ t.logging = s.logging /\ t.log = s.log
    BY FlushIs DEF Loading, StoreInv
  <2> HIDE DEF t
  <2>3. t.data = DataAfter(c, s.data)
    BY <1>3, <2>2, DataAfterIs
  <2>4. Dates(t) = {} /\ NoneDue(t)
    BY <1>1, <2>2 DEF Dates, NoneDue, IsExpired, Present
  <2>5. {p \in Dates(s) : t.data[p[1]] # Missing} = {}
    BY <2>2 DEF Dates
  <2>6. OnlyDates(c, s, t)
    BY <2>2 DEF OnlyDates
  <2> QED
    BY <1>2, <2>1, <2>3, <2>4, <2>5, <2>6 DEF GoesWell, Replayed, Redone
<1>4. CASE c.op = "DEL"
  <2> DEFINE ks == c.keys
             t == Delete(s, ks[1], "command")
             u == Delete(t, ks[2], "command")
             r == IF Len(ks) = 1 THEN t ELSE u
  <2>1. o = Outcome(r, "ok")
    BY <1>4 DEF CmdDel
  <2>2. \/ Len(ks) = 1 /\ ks[1] \in Keys /\ ToSet(ks) = {ks[1]}
        \/ Len(ks) = 2 /\ ks[1] \in Keys /\ ks[2] \in Keys /\ ToSet(ks) = {ks[1], ks[2]}
    BY <1>4, KeyLists
  <2>3. DataAfter(c, s.data) = [j \in Keys |-> IF j \in ToSet(ks) THEN Missing ELSE s.data[j]]
    BY <1>4, DataAfterIs
  <2> HIDE DEF ks
  <2>4. /\ Loading(t) /\ NoneDue(t)
        /\ t.data = [s.data EXCEPT ![ks[1]] = Missing]
        /\ t.expiry = [s.expiry EXCEPT ![ks[1]] = 0]
    BY <2>2, DeleteLoaded
  <2> HIDE DEF t
  <2>5. ks[2] \in Keys => /\ Loading(u) /\ NoneDue(u)
                          /\ u.data = [t.data EXCEPT ![ks[2]] = Missing]
                          /\ u.expiry = [t.expiry EXCEPT ![ks[2]] = 0]
    BY <2>4, DeleteLoaded
  <2> HIDE DEF u
  <2>6. /\ NoneDue(r)
        /\ r.data = [j \in Keys |-> IF j \in ToSet(ks) THEN Missing ELSE s.data[j]]
        /\ r.expiry = [j \in Keys |-> IF j \in ToSet(ks) THEN 0 ELSE s.expiry[j]]
    BY <1>1, <2>2, <2>4, <2>5
  <2> HIDE DEF r
  <2>7. Dates(r) = {p \in Dates(s) : r.data[p[1]] # Missing}
    BY <1>1, <2>6 DEF Dates
  <2>8. o.store = r /\ o.reply = "ok"
    BY <2>1 DEF Outcome
  <2>9. OnlyDates(c, s, r)
    BY <2>6 DEF OnlyDates
  <2> QED
    BY <1>2, <2>3, <2>6, <2>7, <2>8, <2>9 DEF GoesWell, Replayed, Redone
<1> QED
  BY <1>3, <1>4

\* Replayed on a store in which nothing is due, a record whose deadline has not
\* passed does what the log says.
LEMMA EntryGoesWell ==
    ASSUME NEW s, Loading(s), NoneDue(s), NEW c, IsEntry(c),
           c.op = "PEXPIREAT" => c.at * MsTicks > s.now, NEW o \in Dispatch(s, c)
    PROVE  GoesWell(c, s, o)
<1>0. c \in CmdRecords /\ StoreInv(s)
  BY DEF IsEntry, Loading
<1>1. CASE c.op \in {"INCRBY", "APPEND"}
  <2>1. c.key \in Keys /\ c.by \in Int
    BY <1>0, <1>1, RecordArgs
  <2>2. o \in IF c.op = "INCRBY" THEN CmdIncrby(s, c) ELSE CmdAppend(s, c)
    BY <1>1, DispatchIs
  <2>3. Does(Lookup(s, c.key), c, o)
    BY <1>0, <1>1, <2>1, <2>2, StringDoes
  <2> QED
    BY <1>1, <2>1, <2>3, DoesGoWell DEF KeyWrites
<1>2. CASE c.op \in {"LPUSH", "RPUSH", "LPOP", "RPOP", "LSET"}
  <2>1. c.key \in Keys
    BY <1>0, <1>2, RecordArgs
  <2>2. c.op \in {"LPUSH", "RPUSH"} => c.xs \in Seq(Elems)
    BY <1>0, RecordArgs, ArgListIsArgs DEF ElemOps
  <2>3. c.op = "LSET" => c.x \in Elems
    BY <1>0, RecordArgs
  <2>4. o \in IF c.op = "LSET" THEN CmdLset(s, c)
              ELSE IF c.op \in {"LPOP", "RPOP"} THEN CmdPop(s, c) ELSE CmdPush(s, c)
    BY <1>2, DispatchIs
  <2>5. Does(Lookup(s, c.key), c, o)
    BY <1>0, <1>2, <2>1, <2>2, <2>3, <2>4, ListDoes
  <2> QED
    BY <1>2, <2>1, <2>5, DoesGoWell DEF KeyWrites
<1>3. CASE c.op \in {"SADD", "SREM", "HDEL"}
  <2>1. c.key \in Keys
    BY <1>0, <1>3, RecordArgs
  <2>2. c.op = "SADD" => IsArgs(c.xs)
    BY <1>0, RecordArgs, ArgListIsArgs DEF ElemOps
  <2>3. o \in CASE c.op = "SADD" -> CmdSadd(s, c)
                [] c.op = "SREM" -> CmdSrem(s, c)
                [] c.op = "HDEL" -> CmdHdel(s, c)
    BY <1>3, DispatchIs
  <2>4. Does(Lookup(s, c.key), c, o)
    BY <1>0, <1>3, <2>1, <2>2, <2>3, SetDoes DEF IsEntry
  <2> QED
    BY <1>3, <2>1, <2>4, DoesGoWell DEF KeyWrites
<1>4. CASE c.op = "ZREM"
  <2>1. c.key \in Keys
    BY <1>0, <1>4, RecordArgs
  <2>2. o \in CmdZrem(s, c)
    BY <1>4, DispatchIs
  <2> QED
    BY <1>4, <2>1, <2>2, ZremGoesWell
<1>5. CASE c.op \in {"HSET", "ZADD"}
  <2>1. c.key \in Keys
    BY <1>0, <1>5, RecordArgs
  <2>2. IsArgs(c.xs) /\ Len(c.xs) = 1
    BY <1>0, <1>5, RecordArgs, ArgListIsArgs DEF ElemOps, IsEntry
  <2>3. o \in CmdAddEach(s, c)
    BY <1>5, DispatchIs
  <2> QED
    BY <1>5, <2>1, <2>2, <2>3, AddEachGoesWell
<1>6. CASE c.op = "SET"
  <2>1. c.key \in Keys /\ c.val \in Strings /\ c.ttl = 0
    BY <1>0, <1>6, RecordArgs DEF IsEntry
  <2>2. o \in CmdSet(s, c)
    BY <1>6, DispatchIs
  <2> QED
    BY <1>6, <2>1, <2>2, SetGoesWell
<1>7. CASE c.op \in {"PEXPIREAT", "PERSIST"}
  <2>1. c.key \in Keys
    BY <1>0, <1>7, RecordArgs
  <2>2. c.op = "PEXPIREAT" => c.at \in Nat /\ c.at * MsTicks > s.now
    BY <1>0, RecordArgs
  <2>3. o \in IF c.op = "PERSIST" THEN CmdPersist(s, c) ELSE CmdPexpireat(s, c)
    BY <1>7, DispatchIs
  <2> QED
    BY <1>7, <2>1, <2>2, <2>3, DeadlinesGoWell
<1>8. CASE c.op \in {"DEL", "FLUSHALL"}
  <2>1. c.op = "DEL" => c.keys \in ArgLists(Keys)
    BY <1>0, RecordArgs
  <2>2. o \in IF c.op = "DEL" THEN CmdDel(s, c) ELSE CmdFlushall(s)
    BY <1>8, DispatchIs
  <2> QED
    BY <1>8, <2>1, <2>2, PlainGoesWell
<1>9. c.op \in {"SET", "INCRBY", "APPEND", "DEL", "PEXPIREAT", "PERSIST", "LPOP", "RPOP",
                "FLUSHALL", "LSET"} \cup ElemOps
  BY <1>0, RecordArgs DEF IsEntry
<1> QED
  BY <1>1, <1>2, <1>3, <1>4, <1>5, <1>6, <1>7, <1>8, <1>9 DEF ElemOps

-----------------------------------------------------------------------------
(***************************************************************************)
(* What a whole log says, and that its replay does it.                     *)
(***************************************************************************)
Nothing == [k \in Keys |-> Missing]

\* d[i] and V[i]: the values and the deadlines after i records
IsRun(d, V, log, n) ==
    /\ d[0] = Nothing /\ V[0] = {}
    /\ \A i \in 1..n : Redone(log[i], d[i - 1], V[i - 1], d[i], V[i])

Entries(log) == \A i \in 1..Len(log) : IsEntry(log[i])

NonStale(log, t) == \A i \in 1..Len(log) : log[i].op = "PEXPIREAT" => log[i].at * MsTicks > t

StreamTo(log, n) == ReplayStream(SubSeq(log, 1, n))

LEMMA StreamSteps ==
    ASSUME NEW log \in Seq(CmdRecords)
    PROVE  /\ Len(log) \in Nat
           /\ StreamTo(log, 0) = FreshOnly
           /\ \A n \in 1..Len(log) :
                 StreamTo(log, n) = ReplayRecord(StreamTo(log, n - 1), log[n])
           /\ StreamTo(log, Len(log)) = ReplayStream(log)
<1>1. Len(log) \in Nat
  BY LenProperties
<1>2. ASSUME NEW n \in 0..Len(log)
      PROVE  /\ SubSeq(log, 1, n) \in Seq(CmdRecords) /\ Len(SubSeq(log, 1, n)) = n
             /\ \A i \in 1..n : SubSeq(log, 1, n)[i] = log[i]
  BY <1>1, SubSeqProperties
<1>3. StreamTo(log, 0) = FreshOnly
  <2>1. SubSeq(log, 1, 0) = <<>>
    BY <1>1, <1>2, EmptySeq
  <2> QED
    BY <2>1, StreamOfNone DEF StreamTo
<1>4. ASSUME NEW n \in 1..Len(log)
      PROVE  StreamTo(log, n) = ReplayRecord(StreamTo(log, n - 1), log[n])
  <2> DEFINE short == SubSeq(log, 1, n - 1)
             more == SubSeq(log, 1, n)
  <2>1. n \in 0..Len(log) /\ n - 1 \in 0..Len(log) /\ (n - 1) + 1 = n /\ n \in 1..n
    BY <1>1
  <2>2. short \in Seq(CmdRecords) /\ more \in Seq(CmdRecords) /\ Len(short) = n - 1 /\ Len(more) = n
    BY <1>2, <2>1
  <2>3. \A i \in 1..(n - 1) : more[i] = short[i]
    BY <1>2, <2>1
  <2>4. more[n] = log[n]
    BY <1>2, <2>1
  <2> HIDE DEF short, more
  <2>5. ReplayStream(more) = ReplayRecord(ReplayStream(short), log[n])
    BY <2>1, <2>2, <2>3, <2>4, StreamOfMore
  <2> QED
    BY <2>5 DEF short, more, StreamTo
<1>5. SubSeq(log, 1, Len(log)) = log
  BY <1>1, SubSeqFull
<1> QED
  BY <1>1, <1>3, <1>4, <1>5 DEF StreamTo

\* a store loaded so far, with the values d and the deadlines V
Good(l, d, V) ==
    /\ l.reply # "error"
    /\ Loading(l.store) /\ NoneDue(l.store)
    /\ l.store.data = d /\ Dates(l.store) = V

LEMMA FreshGood ==
    ASSUME InSync
    PROVE  \A l \in FreshOnly : Good(l, Nothing, {})
<1>1. Loading(Fresh)
  BY FreshLoads DEF AllLoading, FreshOnly, Outcome
<1>2. Fresh.data = Nothing /\ Fresh.expiry = [k \in Keys |-> 0] /\ Fresh.now = now
  BY DEF Fresh, Nothing
<1>3. Dates(Fresh) = {} /\ NoneDue(Fresh)
  BY <1>2 DEF Dates, NoneDue, IsExpired
<1> QED
  BY <1>1, <1>2, <1>3 DEF FreshOnly, Good, Outcome

LEMMA ReplayRecordGood ==
    ASSUME NEW loaded, NEW c, IsEntry(c), c.op = "PEXPIREAT" => c.at * MsTicks > now,
           NEW r \in ReplayRecord(loaded, c)
    PROVE  \E l \in loaded :
              \/ l.reply = "error" /\ r = l
              \/ /\ l.reply # "error"
                 /\ \A d, V : Good(l, d, V) =>
                       IF Allowed(c, d)
                       THEN \E e, W : /\ Redone(c, d, V, e, W) /\ Good(r, e, W)
                                      /\ OnlyDates(c, l.store, r.store)
                       ELSE r.reply = "error"
<1>1. PICK l \in loaded :
        r \in IF l.reply = "error" THEN {l}
              ELSE {Outcome(o.store, IF o.reply = "error" THEN "error" ELSE "ok") :
                        o \in Dispatch(l.store, c)}
  BY DEF ReplayRecord
<1>2. CASE l.reply = "error"
  BY <1>1, <1>2
<1>3. CASE l.reply # "error"
  <2>1. SUFFICES ASSUME NEW d, NEW V, Good(l, d, V)
                 PROVE  IF Allowed(c, d)
                        THEN \E e, W : /\ Redone(c, d, V, e, W) /\ Good(r, e, W)
                                       /\ OnlyDates(c, l.store, r.store)
                        ELSE r.reply = "error"
    BY <1>3
  <2>2. PICK o \in Dispatch(l.store, c) :
          r = Outcome(o.store, IF o.reply = "error" THEN "error" ELSE "ok")
    BY <1>1, <1>3
  <2>3. Loading(l.store) /\ NoneDue(l.store) /\ l.store.data = d /\ Dates(l.store) = V
    BY <2>1 DEF Good
  <2>4. GoesWell(c, l.store, o)
    BY <2>2, <2>3, EntryGoesWell DEF Loading
  <2>5. Loading(o.store)
    BY <2>2, <2>3, DispatchLoads DEF IsEntry
  <2>6. CASE Allowed(c, d)
    <3>1. o.reply # "error" /\ Redone(c, d, V, o.store.data, Dates(o.store))
      BY <2>3, <2>4, <2>6 DEF GoesWell, Replayed
    <3>2. NoneDue(o.store)
      BY <2>4, <3>1 DEF GoesWell
    <3>3. r.reply = "ok" /\ r.store = o.store
      BY <2>2, <3>1 DEF Outcome
    <3>4. Good(r, o.store.data, Dates(o.store))
      BY <2>5, <3>2, <3>3 DEF Good
    <3>5. OnlyDates(c, l.store, r.store)
      BY <2>4, <3>1, <3>3 DEF GoesWell
    <3> QED
      BY <2>6, <3>1, <3>4, <3>5
  <2>7. CASE ~Allowed(c, d)
    BY <2>2, <2>3, <2>4, <2>7 DEF GoesWell, Replayed, Outcome
  <2> QED
    BY <2>6, <2>7
<1> QED
  BY <1>2, <1>3

\* the deadlines of a store loaded from the first n records are in the records
DatedBy(s, log, n) ==
    \A k \in Keys : s.expiry[k] # 0 =>
        \E i \in 1..n : log[i].op = "PEXPIREAT" /\ s.expiry[k] = log[i].at * MsTicks

LEMMA MoreDates ==
    ASSUME NEW s, NEW t, NEW log, NEW m \in Nat \ {0}, DatedBy(s, log, m - 1),
           OnlyDates(log[m], s, t)
    PROVE  DatedBy(t, log, m)
<1>1. m \in 1..m /\ \A i \in 1..(m - 1) : i \in 1..m
  OBVIOUS
<1> QED
  BY <1>1 DEF DatedBy, OnlyDates

\* The replay of a log is the run it describes.
LEMMA RunIsReplayed ==
    ASSUME InSync, NEW log \in Seq(CmdRecords), Entries(log), NonStale(log, now),
           NEW d, NEW V, IsRun(d, V, log, Len(log)), NEW l \in ReplayStream(log)
    PROVE  Good(l, d[Len(log)], V[Len(log)]) /\ DatedBy(l.store, log, Len(log))
<1> DEFINE n == Len(log)
           Fine(r, m) == Good(r, d[m], V[m]) /\ DatedBy(r.store, log, m)
           Fails(m) == \E r \in StreamTo(log, m) : ~Fine(r, m)
           Bad == {m \in 0..n : Fails(m)}
<1>1. /\ n \in Nat
      /\ StreamTo(log, 0) = FreshOnly
      /\ \A m \in 1..n : StreamTo(log, m) = ReplayRecord(StreamTo(log, m - 1), log[m])
      /\ StreamTo(log, n) = ReplayStream(log)
  BY StreamSteps
<1> HIDE DEF n
<1>2. ~Fails(0)
  <2>1. \A r \in FreshOnly : DatedBy(r.store, log, 0)
    BY DEF FreshOnly, Fresh, Outcome, DatedBy
  <2> QED
    BY <1>1, <2>1, FreshGood DEF IsRun
<1>3. ASSUME NEW m \in 1..n, ~Fails(m - 1), NEW r \in StreamTo(log, m)
      PROVE  Fine(r, m)
  <2> DEFINE c == log[m]
             loaded == StreamTo(log, m - 1)
             e == d[m - 1]
             W == V[m - 1]
  <2>1. IsEntry(c) /\ (c.op = "PEXPIREAT" => c.at * MsTicks > now)
    BY DEF Entries, NonStale, n
  <2>2. Redone(c, e, W, d[m], V[m])
    BY DEF IsRun, n
  <2>3. r \in ReplayRecord(loaded, c)
    BY <1>1, <1>3
  <2>4. \A q \in loaded : Good(q, e, W) /\ DatedBy(q.store, log, m - 1)
    BY <1>3
  <2> HIDE DEF c, loaded, e, W
  <2>5. PICK q \in loaded :
            \/ q.reply = "error" /\ r = q
            \/ /\ q.reply # "error"
               /\ \A f, X : Good(q, f, X) =>
                     IF Allowed(c, f)
                     THEN \E g, Y : /\ Redone(c, f, X, g, Y) /\ Good(r, g, Y)
                                    /\ OnlyDates(c, q.store, r.store)
                     ELSE r.reply = "error"
    BY <2>1, <2>3, ReplayRecordGood
  <2>6. Good(q, e, W) /\ q.reply # "error"
    BY <2>4 DEF Good
  <2>7. Allowed(c, e)
    BY <2>2 DEF Redone
  <2>8. PICK g, Y : Redone(c, e, W, g, Y) /\ Good(r, g, Y) /\ OnlyDates(c, q.store, r.store)
    BY <2>5, <2>6, <2>7
  <2>9. g = d[m] /\ Y = V[m]
    BY <2>2, <2>8 DEF Redone
  <2>10. DatedBy(r.store, log, m)
    <3>1. m \in Nat \ {0}
      BY <1>1
    <3> QED
      BY <2>4, <2>8, <3>1, MoreDates DEF c
  <2> QED
    BY <2>8, <2>9, <2>10
<1>4. Bad = {}
  <2>1. \A m \in 1..n : m \in Bad => m - 1 \in Bad
    BY <1>1, <1>3
  <2>2. 0 \notin Bad /\ Bad \subseteq 0..n
    BY <1>2
  <2> HIDE DEF Bad
  <2> QED
    BY <1>1, <2>1, <2>2, NoneBad
<1>5. ~Fails(n)
  BY <1>1, <1>4
<1> QED
  BY <1>1, <1>5 DEF n

\* A replay that succeeds is a run of the log.
LEMMA ReplayIsRun ==
    ASSUME InSync, NEW log \in Seq(CmdRecords), Entries(log), NonStale(log, now),
           NEW l \in ReplayStream(log), l.reply # "error"
    PROVE  \E d, V : IsRun(d, V, log, Len(log)) /\ Good(l, d[Len(log)], V[Len(log)])
<1> DEFINE n == Len(log)
           Fine(r, m) == r.reply = "error" \/ \E d, V : IsRun(d, V, log, m) /\ Good(r, d[m], V[m])
           Fails(m) == \E r \in StreamTo(log, m) : ~Fine(r, m)
           Bad == {m \in 0..n : Fails(m)}
<1>1. /\ n \in Nat
      /\ StreamTo(log, 0) = FreshOnly
      /\ \A m \in 1..n : StreamTo(log, m) = ReplayRecord(StreamTo(log, m - 1), log[m])
      /\ StreamTo(log, n) = ReplayStream(log)
  BY StreamSteps
<1> HIDE DEF n
<1>2. ~Fails(0)
  <2> DEFINE d == [i \in {0} |-> Nothing]
             V == [i \in {0} |-> {}]
  <2>1. IsRun(d, V, log, 0) /\ d[0] = Nothing /\ V[0] = {}
    BY DEF IsRun
  <2> HIDE DEF d, V
  <2>2. \A r \in FreshOnly : Good(r, d[0], V[0])
    BY <2>1, FreshGood
  <2> QED
    BY <1>1, <2>1, <2>2
<1>3. ASSUME NEW m \in 1..n, ~Fails(m - 1), NEW r \in StreamTo(log, m), r.reply # "error"
      PROVE  \E d, V : IsRun(d, V, log, m) /\ Good(r, d[m], V[m])
  <2> DEFINE c == log[m]
             loaded == StreamTo(log, m - 1)
  <2>1. IsEntry(c) /\ (c.op = "PEXPIREAT" => c.at * MsTicks > now)
    BY DEF Entries, NonStale, n
  <2>2. r \in ReplayRecord(loaded, c)
    BY <1>1, <1>3
  <2>3. \A q \in loaded : Fine(q, m - 1)
    BY <1>3
  <2> HIDE DEF c, loaded
  <2>4. PICK q \in loaded :
            \/ q.reply = "error" /\ r = q
            \/ /\ q.reply # "error"
               /\ \A f, X : Good(q, f, X) =>
                     IF Allowed(c, f)
                     THEN \E g, Y : /\ Redone(c, f, X, g, Y) /\ Good(r, g, Y)
                                    /\ OnlyDates(c, q.store, r.store)
                     ELSE r.reply = "error"
    BY <2>1, <2>2, ReplayRecordGood
  <2>5. q.reply # "error"
    BY <1>3, <2>4
  <2>6. PICK d, V : IsRun(d, V, log, m - 1) /\ Good(q, d[m - 1], V[m - 1])
    BY <2>3, <2>5
  <2>7. PICK g, Y : Redone(c, d[m - 1], V[m - 1], g, Y) /\ Good(r, g, Y)
    BY <1>3, <2>4, <2>5, <2>6
  <2> DEFINE d2 == [i \in 0..m |-> IF i = m THEN g ELSE d[i]]
             V2 == [i \in 0..m |-> IF i = m THEN Y ELSE V[i]]
  <2>8. m \in Nat /\ m # 0
    BY <1>1
  <2>9. /\ d2[m] = g /\ V2[m] = Y
        /\ \A i \in 0..(m - 1) : d2[i] = d[i] /\ V2[i] = V[i]
    BY <2>8
  <2> HIDE DEF d2, V2
  <2>10. IsRun(d2, V2, log, m)
    <3>1. d2[0] = Nothing /\ V2[0] = {}
      BY <2>6, <2>8, <2>9 DEF IsRun
    <3>2. ASSUME NEW i \in 1..m, i # m PROVE Redone(log[i], d2[i - 1], V2[i - 1], d2[i], V2[i])
      <4>1. i \in 1..(m - 1) /\ i \in 0..(m - 1) /\ i - 1 \in 0..(m - 1)
        BY <2>8, <3>2
      <4> QED
        BY <2>6, <2>9, <4>1 DEF IsRun
    <3>3. Redone(log[m], d2[m - 1], V2[m - 1], d2[m], V2[m])
      <4>1. m - 1 \in 0..(m - 1)
        BY <2>8
      <4> QED
        BY <2>7, <2>9, <4>1 DEF c
    <3> QED
      BY <3>1, <3>2, <3>3 DEF IsRun
  <2> QED
    BY <2>7, <2>9, <2>10
<1>4. Bad = {}
  <2>1. \A m \in 1..n : m \in Bad => m - 1 \in Bad
    BY <1>1, <1>3
  <2>2. 0 \notin Bad /\ Bad \subseteq 0..n
    BY <1>2
  <2> HIDE DEF Bad
  <2> QED
    BY <1>1, <2>1, <2>2, NoneBad
<1>5. ~Fails(n)
  BY <1>1, <1>4
<1> QED
  BY <1>1, <1>5 DEF n

-----------------------------------------------------------------------------
(***************************************************************************)
(* The theorems.                                                           *)
(***************************************************************************)
\* Restarts included, each variable has its type: replay_aof rebuilds a store
\* whose dictionaries, counter and deadlines are of the kind it started from.
THEOREM RestartsKeepTypes == RecoverySpec => []TypeOK
<1>1. InSync => TypeOK
  BY DEF InSync
<1> QED
  BY <1>1, RecoverySync, PTL

\* Restarts included, values, access times and sizes have the same keys.
THEOREM RestartsKeepMetadata == RecoverySpec => []KeyMetadataInSync
<1>1. InSync => KeyMetadataInSync
  BY DEF InSync
<1> QED
  BY <1>1, RecoverySync, PTL

\* _used_memory is the sum of the sizes after any load, which counts from
\* zero without a limit, and after the evictions at its end.
THEOREM RestartsCountMemory == RecoverySpec => []UsedMemoryIsSum
<1>1. InSync => UsedMemoryIsSum
  BY DEF InSync
<1> QED
  BY <1>1, RecoverySync, PTL

\* A log may hold more than maxmemory: the server that loads it starts within
\* the limit, or not at all, and stays within it but for the deadlines.
THEOREM RestartsKeepTheLimit == RecoverySpec => []MemoryBounded
  BY SyncBounds, RecoverySync, PTL

\* Without a limit no deadline is left without its key, whatever prefix of the
\* log a power failure leaves and whatever deadlines passed before the load.
THEOREM RestartsLeaveNoDeadline == RecoverySpec => []ExpiryOnlyForLiveKeys
  BY SyncLeavesNoDeadline, RecoverySync, PTL

-----------------------------------------------------------------------------
(***************************************************************************)
(* A restart gives back the values.  The log of a running server is        *)
(* honest: as long as none of its deadlines has passed, its records end in *)
(* the values of the store.  Every step keeps it so, the deletions that    *)
(* the store makes on its own included.                                    *)
(***************************************************************************)

-----------------------------------------------------------------------------
(***************************************************************************)
(* What the live server knows of its log: as long as none of its deadlines *)
(* has passed at t, the first n records end in the values d, and in the    *)
(* deadlines of L at least and of W at most.                               *)
(***************************************************************************)
FreshTo(log, n, t) == \A i \in 1..n : log[i].op = "PEXPIREAT" => log[i].at * MsTicks > t

EntriesTo(log, n) == \A i \in 1..n : IsEntry(log[i])

EndsIn(log, n, d, L, W) ==
    \E e, V : IsRun(e, V, log, n) /\ e[n] = d /\ L \subseteq V[n] /\ V[n] \subseteq W

SaysTo(t, log, n, d, L, W) ==
    /\ EntriesTo(log, n)
    /\ FreshTo(log, n, t) => EndsIn(log, n, d, L, W)

Says(t, log, d, L, W) == SaysTo(t, log, Len(log), d, L, W)

LEMMA SaysMonotone ==
    ASSUME NEW t, NEW log, NEW n, NEW d, NEW L, NEW W, NEW K, NEW X,
           SaysTo(t, log, n, d, L, W), FreshTo(log, n, t) => K \subseteq L, W \subseteq X
    PROVE  SaysTo(t, log, n, d, K, X)
  BY DEF SaysTo, EndsIn

LEMMA SaysLater ==
    ASSUME NEW t \in Int, NEW u \in Int, t <= u, NEW log \in Seq(CmdRecords), NEW d, NEW L, NEW W,
           Says(t, log, d, L, W)
    PROVE  Says(u, log, d, L, W)
<1>1. ASSUME FreshTo(log, Len(log), u) PROVE FreshTo(log, Len(log), t)
  <2>1. SUFFICES ASSUME NEW i \in 1..Len(log), log[i].op = "PEXPIREAT"
                 PROVE  log[i].at * MsTicks > t
    BY DEF FreshTo
  <2>2. log[i] \in CmdRecords
    OBVIOUS
  <2>3. log[i].at \in Nat
    BY <2>1, <2>2, RecordArgs
  <2>4. log[i].at * MsTicks \in Int
    BY <2>3, MsTicksAssumption
  <2>5. log[i].at * MsTicks > u
    BY <1>1, <2>1 DEF FreshTo
  <2> QED
    BY <2>4, <2>5
<1> QED
  BY <1>1 DEF Says, SaysTo

LEMMA SaysAlike ==
    ASSUME NEW t, NEW log, NEW more, NEW n \in Nat, \A i \in 1..n : more[i] = log[i],
           NEW d, NEW L, NEW W, SaysTo(t, log, n, d, L, W)
    PROVE  SaysTo(t, more, n, d, L, W)
<1>1. EntriesTo(more, n)
  BY DEF SaysTo, EntriesTo
<1>2. FreshTo(more, n, t) => FreshTo(log, n, t)
  BY DEF FreshTo
<1>3. EndsIn(log, n, d, L, W) => EndsIn(more, n, d, L, W)
  <2>1. \A e, V : IsRun(e, V, log, n) => IsRun(e, V, more, n)
    BY DEF IsRun
  <2> QED
    BY <2>1 DEF EndsIn
<1> QED
  BY <1>1, <1>2, <1>3 DEF SaysTo

\* a run has deadlines of keys that it has values for
LEMMA RunLive ==
    ASSUME NEW log, NEW n \in Nat, NEW e, NEW V, IsRun(e, V, log, n)
    PROVE  \A p \in V[n] : e[n][p[1]] # Missing
<1>1. CASE n = 0
  BY <1>1 DEF IsRun
<1>2. CASE n # 0
  <2>1. n \in 1..n
    BY <1>2
  <2>2. Redone(log[n], e[n - 1], V[n - 1], e[n], V[n])
    BY <2>1 DEF IsRun
  <2> QED
    BY <2>2 DEF Redone
<1> QED
  BY <1>1, <1>2

\* the deadlines K that a record that takes d to e leaves for sure of those of L
Leaves(c, d, L, e, K) ==
    \A p \in K : /\ p \in DatedAfter(c, L)
                 /\ e[p[1]] # Missing \/ (p \in L /\ e[p[1]] = d[p[1]])

\* one more record
LEMMA SaysNext ==
    ASSUME NEW t, NEW log, NEW n \in Nat \ {0}, NEW d, NEW L, NEW W,
           SaysTo(t, log, n - 1, d, L, W),
           IsEntry(log[n]), Allowed(log[n], d),
           NEW X, \A p \in DatedAfter(log[n], W) : DataAfter(log[n], d)[p[1]] # Missing => p \in X,
           NEW K, FreshTo(log, n - 1, t) => Leaves(log[n], d, L, DataAfter(log[n], d), K)
    PROVE  SaysTo(t, log, n, DataAfter(log[n], d), K, X)
<1> DEFINE c == log[n]
           new == DataAfter(c, d)
<1>1. EntriesTo(log, n)
  <2>1. \A i \in 1..n : i = n \/ i \in 1..(n - 1)
    OBVIOUS
  <2> QED
    BY <2>1 DEF SaysTo, EntriesTo
<1>2. ASSUME FreshTo(log, n, t) PROVE EndsIn(log, n, new, K, X)
  <2>1. FreshTo(log, n - 1, t)
    <3>1. \A i \in 1..(n - 1) : i \in 1..n
      OBVIOUS
    <3> QED
      BY <1>2, <3>1 DEF FreshTo
  <2>2. PICK e, V : /\ IsRun(e, V, log, n - 1) /\ e[n - 1] = d
                    /\ L \subseteq V[n - 1] /\ V[n - 1] \subseteq W
    BY <2>1 DEF SaysTo, EndsIn
  <2> DEFINE Y == {p \in DatedAfter(c, V[n - 1]) : new[p[1]] # Missing}
             e2 == [i \in 0..n |-> IF i = n THEN new ELSE e[i]]
             V2 == [i \in 0..n |-> IF i = n THEN Y ELSE V[i]]
  <2>3. /\ e2[n] = new /\ V2[n] = Y
        /\ \A i \in 0..(n - 1) : e2[i] = e[i] /\ V2[i] = V[i]
    OBVIOUS
  <2>4. Redone(c, d, V[n - 1], new, Y)
    BY DEF Redone
  <2>5. Y \subseteq X
    BY <2>2 DEF DatedAfter, But
  <2>6. K \subseteq Y
    <3>1. \A p \in L : d[p[1]] # Missing
      <4>1. n - 1 \in Nat
        OBVIOUS
      <4> QED
        BY <2>2, <4>1, RunLive
    <3>2. Leaves(c, d, L, new, K)
      BY <2>1
    <3>3. DatedAfter(c, L) \subseteq DatedAfter(c, V[n - 1])
      BY <2>2 DEF DatedAfter, But
    <3> HIDE DEF new, c
    <3> QED
      BY <3>1, <3>2, <3>3 DEF Leaves
  <2> HIDE DEF e2, V2, Y, new, c
  <2>7. IsRun(e2, V2, log, n)
    <3>1. e2[0] = Nothing /\ V2[0] = {}
      BY <2>2, <2>3 DEF IsRun
    <3>2. ASSUME NEW i \in 1..n, i # n PROVE Redone(log[i], e2[i - 1], V2[i - 1], e2[i], V2[i])
      <4>1. i \in 1..(n - 1) /\ i \in 0..(n - 1) /\ i - 1 \in 0..(n - 1)
        BY <3>2
      <4> QED
        BY <2>2, <2>3, <4>1 DEF IsRun
    <3>3. Redone(log[n], e2[n - 1], V2[n - 1], e2[n], V2[n])
      <4>1. n - 1 \in 0..(n - 1)
        OBVIOUS
      <4> QED
        BY <2>2, <2>3, <2>4, <4>1 DEF c
    <3> QED
      BY <3>1, <3>2, <3>3 DEF IsRun
  <2> QED
    BY <2>3, <2>5, <2>6, <2>7 DEF EndsIn
<1> QED
  BY <1>1, <1>2 DEF SaysTo

LEMMA LogPlusIs ==
    ASSUME NEW log \in Seq(CmdRecords), NEW records \in Seq(CmdRecords)
    PROVE  LET more == LogPlus(log, records)
           IN  /\ more \in Seq(CmdRecords)
               /\ Len(log) \in Nat /\ Len(records) \in Nat
               /\ Len(more) = Len(log) + Len(records)
               /\ \A i \in 1..Len(log) : more[i] = log[i]
               /\ \A i \in 1..Len(records) : more[Len(log) + i] = records[i]
<1>1. /\ log \o records \in Seq(CmdRecords)
      /\ Len(log) \in Nat /\ Len(records) \in Nat
      /\ Len(log \o records) = Len(log) + Len(records)
  BY ConcatProperties, LenProperties
<1>2. \A i \in 1..Len(log) : (log \o records)[i] = log[i]
  BY <1>1, ConcatProperties
<1>3. \A i \in 1..Len(records) : (log \o records)[Len(log) + i] = records[i]
  BY <1>1, ConcatProperties
<1> QED
  BY <1>1, <1>2, <1>3 DEF LogPlus

LEMMA OneRecord ==
    ASSUME NEW c \in CmdRecords
    PROVE  <<c>> \in Seq(CmdRecords) /\ Len(<<c>>) = 1 /\ <<c>>[1] = c
  OBVIOUS

\* one record appended
LEMMA SaysMore ==
    ASSUME NEW t, NEW log \in Seq(CmdRecords), NEW d, NEW L, NEW W, Says(t, log, d, L, W),
           NEW c \in CmdRecords, IsEntry(c), Allowed(c, d),
           NEW new, new = DataAfter(c, d),
           NEW X, \A p \in DatedAfter(c, W) : new[p[1]] # Missing => p \in X,
           NEW K, NonStale(log, t) => Leaves(c, d, L, new, K)
    PROVE  Says(t, LogPlus(log, <<c>>), new, K, X)
<1> DEFINE more == LogPlus(log, <<c>>)
           one == <<c>>
           n == Len(log) + 1
<1>1. one \in Seq(CmdRecords) /\ Len(one) = 1 /\ one[1] = c
  BY OneRecord
<1>2. /\ Len(log) \in Nat
      /\ Len(more) = Len(log) + Len(one)
      /\ \A i \in 1..Len(log) : more[i] = log[i]
      /\ \A i \in 1..Len(one) : more[Len(log) + i] = one[i]
  <2> HIDE DEF one
  <2> QED
    BY <1>1, LogPlusIs DEF one
<1>3. more[n] = c /\ Len(more) = n /\ n \in Nat \ {0} /\ n - 1 = Len(log)
  BY <1>1, <1>2
<1> HIDE DEF more, n, one
<1>4. SaysTo(t, more, n - 1, d, L, W)
  BY <1>2, <1>3, SaysAlike DEF Says
<1>5. FreshTo(more, n - 1, t) => Leaves(c, d, L, new, K)
  BY <1>2, <1>3 DEF FreshTo, NonStale
<1>6. SaysTo(t, more, n, DataAfter(more[n], d), K, X)
  BY <1>3, <1>4, <1>5, SaysNext
<1> QED
  BY <1>3, <1>6 DEF Says, more

LEMMA DelRecordIs ==
    ASSUME NEW k \in Keys
    PROVE  LET c == DelRecord(k)
           IN  /\ c \in CmdRecords /\ IsEntry(c)
               /\ \A d : Allowed(c, d)
               /\ \A d : DataAfter(c, d) = [j \in Keys |-> IF j = k THEN Missing ELSE d[j]]
               /\ \A V : DatedAfter(c, V) = V
<1> DEFINE c == DelRecord(k)
<1>1. c \in CmdRecords
  BY DelRecordType
<1>2. c.op = "DEL" /\ ToSet(c.keys) = {k}
  BY OneKey DEF DelRecord
<1> HIDE DEF c
<1>3. IsEntry(c) /\ \A d : Allowed(c, d)
  BY <1>1, <1>2 DEF IsEntry, Allowed, KeyWrites
<1>4. ASSUME NEW d PROVE DataAfter(c, d) = [j \in Keys |-> IF j = k THEN Missing ELSE d[j]]
  <2>1. DataAfter(c, d) = [j \in Keys |-> IF j \in ToSet(c.keys) THEN Missing ELSE d[j]]
    BY <1>2, DataAfterIs
  <2> QED
    BY <1>2, <2>1
<1>5. \A V : DatedAfter(c, V) = V
  BY <1>2, DatedAfterIs
<1> QED
  BY <1>1, <1>3, <1>4, <1>5 DEF c

LEMMA DelRecordsAre ==
    ASSUME NEW w \in Seq(Keys)
    PROVE  /\ DelRecords(w) \in Seq(CmdRecords)
           /\ Len(DelRecords(w)) = Len(w) /\ Len(w) \in Nat
           /\ \A i \in 1..Len(w) : DelRecords(w)[i] = DelRecord(w[i]) /\ w[i] \in Keys
<1>1. Len(w) \in Nat /\ \A i \in 1..Len(w) : w[i] \in Keys
  BY LenProperties, ElementOfSeq
<1>2. \A i \in 1..Len(w) : DelRecord(w[i]) \in CmdRecords
  BY <1>1, DelRecordType
<1>3. DelRecords(w) \in Seq(CmdRecords) /\ Len(DelRecords(w)) = Len(w)
  <2> DEFINE n == Len(w)
  <2>1. DelRecords(w) = [i \in 1..n |-> DelRecord(w[i])]
    BY Zenon DEF DelRecords
  <2> HIDE DEF n
  <2>2. n \in Nat /\ \A i \in 1..n : DelRecord(w[i]) \in CmdRecords
    BY <1>1, <1>2 DEF n
  <2>3. DelRecords(w) \in [1..n -> CmdRecords]
    BY <2>1, <2>2
  <2> HIDE <2>1
  <2>4. DelRecords(w) \in Seq(CmdRecords) /\ Len(DelRecords(w)) = n
    BY <2>2, <2>3
  <2> QED
    BY <2>4 DEF n
<1>4. \A i \in 1..Len(w) : DelRecords(w)[i] = DelRecord(w[i])
  BY Zenon DEF DelRecords
<1> QED
  BY <1>1, <1>3, <1>4

Without(d, gone) == [k \in Keys |-> IF k \in gone THEN Missing ELSE d[k]]

Undated(V, gone) == {p \in V : p[1] \notin gone}

\* the records of automatic deletions
LEMMA SaysDels ==
    ASSUME NEW t, NEW log \in Seq(CmdRecords), NEW S, NEW d \in [Keys -> S],
           NEW L, L \subseteq Keys \X Nat, NEW W, W \subseteq Keys \X Nat, Says(t, log, d, L, W),
           NEW w \in Seq(Keys)
    PROVE  Says(t, LogPlus(log, DelRecords(w)), Without(d, ToSet(w)), Undated(L, ToSet(w)),
                Undated(W, ToSet(w)))
<1> DEFINE more == LogPlus(log, DelRecords(w))
           n == Len(log)
           m == Len(w)
           Gone(i) == {w[j] : j \in 1..i}
           Holds(i) == SaysTo(t, more, n + i, Without(d, Gone(i)), Undated(L, Gone(i)),
                              Undated(W, Gone(i)))
           Bad == {i \in 0..m : ~Holds(i)}
<1>1. /\ n \in Nat /\ m \in Nat
      /\ Len(more) = n + m
      /\ \A i \in 1..n : more[i] = log[i]
      /\ \A i \in 1..m : more[n + i] = DelRecord(w[i]) /\ w[i] \in Keys
  <2> DEFINE dels == DelRecords(w)
  <2>1. /\ dels \in Seq(CmdRecords)
        /\ Len(dels) = Len(w) /\ Len(w) \in Nat
        /\ \A i \in 1..Len(w) : dels[i] = DelRecord(w[i]) /\ w[i] \in Keys
    BY DelRecordsAre
  <2> HIDE DEF dels
  <2>2. /\ LogPlus(log, dels) \in Seq(CmdRecords)
        /\ Len(log) \in Nat /\ Len(dels) \in Nat
        /\ Len(LogPlus(log, dels)) = Len(log) + Len(dels)
        /\ \A i \in 1..Len(log) : LogPlus(log, dels)[i] = log[i]
        /\ \A i \in 1..Len(dels) : LogPlus(log, dels)[Len(log) + i] = dels[i]
    BY <2>1, LogPlusIs
  <2> QED
    BY <2>1, <2>2 DEF dels
<1>2. ToSet(w) = Gone(m)
  BY ToSetIs
<1> HIDE DEF more, n, m
<1>3. Holds(0)
  <2>1. /\ Gone(0) = {} /\ Without(d, {}) = d /\ n + 0 = n
        /\ Undated(L, {}) = L /\ Undated(W, {}) = W
    BY <1>1 DEF Without, Undated
  <2>2. SaysTo(t, more, n, d, L, W)
    BY <1>1, SaysAlike DEF Says, n
  <2> HIDE DEF Gone
  <2> QED
    BY <2>1, <2>2
<1>4. ASSUME NEW i \in 1..m, Holds(i - 1) PROVE Holds(i)
  <2> DEFINE old == Without(d, Gone(i - 1))
             new == Without(d, Gone(i))
             c == DelRecord(w[i])
             X == Undated(W, Gone(i - 1))
             K == Undated(L, Gone(i - 1))
             X2 == Undated(W, Gone(i))
             K2 == Undated(L, Gone(i))
  <2>1. Gone(i) = Gone(i - 1) \cup {w[i]} /\ w[i] \in Keys
    BY <1>1
  <2>2. n + i \in Nat \ {0} /\ (n + i) - 1 = n + (i - 1) /\ more[n + i] = c
    BY <1>1
  <2>3. /\ IsEntry(c) /\ Allowed(c, old)
        /\ DataAfter(c, old) = [j \in Keys |-> IF j = w[i] THEN Missing ELSE old[j]]
        /\ DatedAfter(c, X) = X /\ DatedAfter(c, K) = K
    <3> HIDE DEF c, old, X, K, Gone
    <3> QED
      BY <2>1, DelRecordIs DEF c
  <2>4. SaysTo(t, more, (n + i) - 1, old, K, X)
    BY <1>4, <2>2
  <2> HIDE DEF Gone, c
  <2>5. DataAfter(c, old) = new
    BY <2>1, <2>3 DEF Without
  <2>6. \A p \in X : new[p[1]] # Missing => p \in X2
    <3>1. \A p \in W : p[1] \in Keys
      OBVIOUS
    <3> QED
      BY <2>1, <3>1 DEF Without, Undated
  <2>7. \A p \in K2 : p \in K /\ new[p[1]] = old[p[1]]
    <3>1. \A p \in L : p[1] \in Keys
      OBVIOUS
    <3> QED
      BY <2>1, <3>1 DEF Without, Undated
  <2> HIDE DEF old, new, X, K, X2, K2
  <2>8. \A p \in DatedAfter(c, X) : DataAfter(c, old)[p[1]] # Missing => p \in X2
    BY <2>3, <2>5, <2>6
  <2>9. Leaves(c, old, K, DataAfter(c, old), K2)
    BY <2>3, <2>5, <2>7 DEF Leaves
  <2>10. SaysTo(t, more, n + i, DataAfter(c, old), K2, X2)
    BY <2>2, <2>3, <2>4, <2>8, <2>9, SaysNext
  <2> QED
    BY <2>5, <2>10 DEF new, K2, X2
<1>5. Bad = {}
  <2> HIDE DEF Holds
  <2>1. \A i \in 1..m : i \in Bad => i - 1 \in Bad
    BY <1>1, <1>4
  <2>2. 0 \notin Bad /\ Bad \subseteq 0..m
    BY <1>3
  <2> HIDE DEF Bad
  <2> QED
    BY <1>1, <2>1, <2>2, NoneBad
<1>6. Holds(m)
  <2> HIDE DEF Holds
  <2>1. m \in 0..m
    BY <1>1
  <2> QED
    BY <1>5, <2>1
<1> QED
  BY <1>1, <1>2, <1>6 DEF Says, more

\* so the deadlines that a log has at most are of keys it has values for,
LEMMA SaysLive ==
    ASSUME NEW t, NEW log \in Seq(CmdRecords), NEW d, NEW L, NEW W, Says(t, log, d, L, W)
    PROVE  Says(t, log, d, L, {p \in W : d[p[1]] # Missing})
<1> DEFINE n == Len(log)
           X == {p \in W : d[p[1]] # Missing}
<1>1. n \in Nat
  BY LenProperties
<1> HIDE DEF n
<1>2. ASSUME NEW e, NEW V, IsRun(e, V, log, n) PROVE \A p \in V[n] : e[n][p[1]] # Missing
  BY <1>1, <1>2, RunLive
<1>3. EndsIn(log, n, d, L, W) => EndsIn(log, n, d, L, X)
  BY <1>2 DEF EndsIn
<1> QED
  BY <1>3 DEF Says, SaysTo, n

\* and so are those that it has at least
LEMMA SaysSurely ==
    ASSUME NEW t, NEW log \in Seq(CmdRecords), NEW d, NEW L, NEW W, Says(t, log, d, L, W),
           NonStale(log, t), NEW p \in L
    PROVE  d[p[1]] # Missing
<1> DEFINE n == Len(log)
<1>1. n \in Nat
  BY LenProperties
<1>2. FreshTo(log, n, t)
  BY DEF NonStale, FreshTo
<1> HIDE DEF n
<1>3. PICK e, V : IsRun(e, V, log, n) /\ e[n] = d /\ L \subseteq V[n]
  BY <1>2 DEF Says, SaysTo, EndsIn, n
<1> QED
  BY <1>1, <1>3, RunLive

-----------------------------------------------------------------------------
(***************************************************************************)
(* The live store and its log.  Within a command the log may still have    *)
(* the value v that the key k had before.                                  *)
(***************************************************************************)
\* the policies that do not evict a key that is being written
Exact == {"noeviction", "allkeys-lru"}

\* under them the log has the deadlines of the store, under the others some of them
Sure(s) == IF s.policy \in Exact THEN Dates(s) ELSE {}

\* under them only a deadline of the log that has passed purges a key
Noted(s) ==
    "SET" \in Enabled /\ s.policy \in Exact /\ NonStale(s.log, s.now) =>
        \A k \in Keys : s.expiry[k] # 0 => ~NonStale(s.log, s.expiry[k])

Honest(s) == Says(s.now, s.log, s.data, Sure(s), Dates(s)) /\ Noted(s)

IfMissing(s, k) == IF s.data[k] = Missing THEN {k} \X Nat ELSE {}

\* under them no deadline of k outlives its value
NotLeft(s, k) ==
    s.policy \in Exact /\ NonStale(s.log, s.now) /\ s.data[k] = Missing => s.expiry[k] = 0

Knows(s, k, v) ==
    /\ Says(s.now, s.log, [s.data EXCEPT ![k] = v], Sure(s), Dates(s) \cup IfMissing(s, k))
    /\ Noted(s)
    /\ NotLeft(s, k)

Outlasts(log, more) == \A x : NonStale(more, x) => NonStale(log, x)

KnowsStill(s, t, k) ==
    \A v : Knows(s, k, v) => \/ t.data[k] = s.data[k] /\ Knows(t, k, v)
                             \/ t.data[k] = Missing /\ Knows(t, k, Missing)

\* from s the store has come to t by deletions that it logged itself
Follows(s, t) ==
    /\ SameRun(s, t)
    /\ Outlasts(s.log, t.log)
    /\ DeadlinesGo(s, t)
    /\ Honest(s) => Honest(t)
    /\ \A k \in Keys : KnowsStill(s, t, k)

LEMMA FollowsTrans ==
    ASSUME NEW s, NEW t, NEW u, Follows(s, t), Follows(t, u)
    PROVE  Follows(s, u)
<1>1. SameRun(s, u) /\ Outlasts(s.log, u.log) /\ (Honest(s) => Honest(u))
  BY DEF Follows, SameRun, Outlasts
<1>2. DeadlinesGo(s, u)
  BY DEF Follows, DeadlinesGo
<1>3. ASSUME NEW k \in Keys PROVE KnowsStill(s, u, k)
  <2>1. KnowsStill(s, t, k) /\ KnowsStill(t, u, k)
    BY DEF Follows
  <2> QED
    BY <2>1, Zenon DEF KnowsStill
<1> QED
  BY <1>1, <1>2, <1>3 DEF Follows

LEMMA NotedStays ==
    ASSUME NEW s, NEW t, SameRun(s, t), Outlasts(s.log, t.log), DeadlinesGo(s, t), Noted(s)
    PROVE  Noted(t)
<1>1. SUFFICES ASSUME "SET" \in Enabled, t.policy \in Exact, NonStale(t.log, t.now),
                      NEW k \in Keys, t.expiry[k] # 0, NonStale(t.log, t.expiry[k])
               PROVE  FALSE
  BY DEF Noted
<1>2. s.policy \in Exact /\ NonStale(s.log, s.now) /\ t.expiry[k] = s.expiry[k]
  BY <1>1 DEF SameRun, Outlasts, DeadlinesGo
<1>3. NonStale(s.log, s.expiry[k])
  BY <1>1, <1>2 DEF Outlasts
<1> QED
  BY <1>1, <1>2, <1>3 DEF Noted

LEMMA HonestKnows ==
    ASSUME NEW s, StoreInv(s), NEW k \in Keys
    PROVE  Honest(s) <=> Knows(s, k, s.data[k])
<1> DEFINE W == Dates(s) \cup IfMissing(s, k)
           L == Sure(s)
<1>1. [s.data EXCEPT ![k] = s.data[k]] = s.data /\ s.log \in Seq(CmdRecords)
  BY DEF StoreInv, WellTyped
<1>2. Says(s.now, s.log, s.data, L, Dates(s)) => Says(s.now, s.log, s.data, L, W)
  BY SaysMonotone DEF Says
<1>3. ASSUME Says(s.now, s.log, s.data, L, W) PROVE Says(s.now, s.log, s.data, L, Dates(s))
  <2>1. Says(s.now, s.log, s.data, L, {p \in W : s.data[p[1]] # Missing})
    <3> HIDE DEF W, L
    <3> QED
      BY <1>1, <1>3, SaysLive
  <2>2. {p \in W : s.data[p[1]] # Missing} \subseteq Dates(s)
    BY DEF IfMissing
  <2> HIDE DEF W, L
  <2> QED
    BY <2>1, <2>2, SaysMonotone DEF Says
<1>4. ASSUME Says(s.now, s.log, s.data, L, Dates(s)) PROVE NotLeft(s, k)
  <2>1. SUFFICES ASSUME s.policy \in Exact, NonStale(s.log, s.now), s.data[k] = Missing,
                        s.expiry[k] # 0
                 PROVE  FALSE
    BY DEF NotLeft
  <2>2. <<k, Cut(s.expiry[k])>> \in L
    <3>1. s.expiry[k] \in Nat
      BY DEF StoreInv, WellTyped
    <3>2. Cut(s.expiry[k]) \in Nat
      BY <3>1, CutIsBefore
    <3> QED
      BY <2>1, <3>2 DEF Sure, Dates
  <2> DEFINE p == <<k, Cut(s.expiry[k])>>
  <2>3. p \in L /\ p[1] = k
    BY <2>2
  <2> HIDE DEF p, L
  <2>4. s.data[p[1]] # Missing
    BY <1>1, <1>4, <2>1, <2>3, SaysSurely
  <2> QED
    BY <2>1, <2>3, <2>4
<1> HIDE DEF W, L
<1> QED
  BY <1>1, <1>2, <1>3, <1>4 DEF Honest, Knows, W, L

\* nothing but access times, sizes and new deadlines
LEMMA QuietFollows ==
    ASSUME NEW s, NEW t, SameRun(s, t), t.log = s.log, t.data = s.data, t.expiry = s.expiry
    PROVE  Follows(s, t)
<1>1. Outlasts(s.log, t.log) /\ DeadlinesGo(s, t)
  BY DEF Outlasts, DeadlinesGo
<1>2. Noted(s) => Noted(t)
  BY <1>1, NotedStays
<1>3. Dates(t) = Dates(s) /\ t.now = s.now /\ \A k : IfMissing(t, k) = IfMissing(s, k)
  BY DEF Dates, IfMissing, SameRun
<1>4. Sure(t) = Sure(s) /\ \A k : NotLeft(s, k) => NotLeft(t, k)
  BY <1>3 DEF Sure, SameRun, NotLeft
<1> QED
  BY <1>1, <1>2, <1>3, <1>4 DEF Follows, KnowsStill, Honest, Knows

LEMMA DelsOutlast ==
    ASSUME NEW log \in Seq(CmdRecords), NEW records \in Seq(CmdRecords)
    PROVE  Outlasts(log, LogPlus(log, records))
<1> DEFINE more == LogPlus(log, records)
<1>1. /\ Len(log) \in Nat /\ Len(records) \in Nat
      /\ Len(more) = Len(log) + Len(records)
      /\ \A i \in 1..Len(log) : more[i] = log[i]
  BY LogPlusIs
<1> HIDE DEF more
<1>2. \A i \in 1..Len(log) : i \in 1..Len(more)
  BY <1>1
<1>3. Outlasts(log, more)
  BY <1>1, <1>2 DEF Outlasts, NonStale
<1> QED
  BY <1>3 DEF more

LEMMA DeleteKeysFollows ==
    ASSUME NEW s, StoreInv(s), s.logging, NEW w \in Seq(Keys), NEW reason \in {"expiry", "eviction"}
    PROVE  Follows(s, DeleteKeys(s, w, reason))
<1> DEFINE t == DeleteKeys(s, w, reason)
           gone == ToSet(w)
<1>1. /\ t.data = [j \in Keys |-> IF j \in gone THEN Missing ELSE s.data[j]]
      /\ t.expiry = [j \in Keys |-> IF j \in gone THEN 0 ELSE s.expiry[j]]
      /\ SameRun(s, t)
      /\ t.log = IF s.logging /\ reason \in {"expiry", "eviction"}
                 THEN LogPlus(s.log, DelRecords(w)) ELSE s.log
  BY DeleteKeysTells
<1>2. gone \subseteq Keys
  BY ToSetIs
<1> HIDE DEF t
<1>3. t.data = Without(s.data, gone) /\ t.log = LogPlus(s.log, DelRecords(w))
  BY <1>1, Zenon DEF Without
<1>4. s.data \in [Keys -> Objects \cup {Missing}] /\ s.log \in Seq(CmdRecords)
  BY DEF StoreInv, WellTyped
<1>5. Outlasts(s.log, t.log)
  BY <1>3, <1>4, DelRecordsAre, DelsOutlast
<1> HIDE DEF gone
<1>6. /\ DeadlinesGo(s, t)
      /\ Dates(t) = Undated(Dates(s), gone) /\ Sure(t) = Undated(Sure(s), gone)
  <2>1. Dates(t) = Undated(Dates(s), gone)
    BY <1>1 DEF Dates, Undated
  <2>2. Sure(t) = Undated(Sure(s), gone)
    BY <1>1, <2>1 DEF Sure, SameRun, Undated
  <2> QED
    BY <1>1, <2>1, <2>2 DEF DeadlinesGo
<1>7. Noted(s) => Noted(t)
  BY <1>1, <1>5, <1>6, NotedStays
<1>8. t.now = s.now /\ Dates(s) \subseteq Keys \X Nat /\ Sure(s) \subseteq Keys \X Nat
  BY <1>1 DEF SameRun, Dates, Sure
<1>9. Honest(s) => Honest(t)
  <2>1. Says(s.now, s.log, s.data, Sure(s), Dates(s))
           => Says(s.now, LogPlus(s.log, DelRecords(w)), Without(s.data, gone),
                   Undated(Sure(s), gone), Undated(Dates(s), gone))
    BY <1>4, <1>8, SaysDels DEF gone
  <2> QED
    BY <1>3, <1>6, <1>7, <1>8, <2>1 DEF Honest
<1>10. ASSUME NEW k \in Keys, NEW v, Knows(s, k, v)
       PROVE  \/ t.data[k] = s.data[k] /\ Knows(t, k, v)
              \/ t.data[k] = Missing /\ Knows(t, k, Missing)
  <2> DEFINE d == [s.data EXCEPT ![k] = v]
             W == Dates(s) \cup IfMissing(s, k)
             L == Sure(s)
  <2>1. d \in [Keys -> Objects \cup {Missing, v}]
    BY <1>4
  <2>2. W \subseteq Keys \X Nat /\ L \subseteq Keys \X Nat
    BY <1>8 DEF IfMissing
  <2>3. Says(s.now, s.log, d, L, W) /\ Noted(s)
    BY <1>10 DEF Knows
  <2>4. Says(s.now, LogPlus(s.log, DelRecords(w)), Without(d, gone), Undated(L, gone),
             Undated(W, gone))
    <3> HIDE DEF d, W, L
    <3> QED
      BY <1>4, <2>1, <2>2, <2>3, SaysDels DEF gone
  <2>5. NotLeft(t, k)
    <3>1. NotLeft(s, k)
      BY <1>10 DEF Knows
    <3>2. t.policy = s.policy /\ (NonStale(t.log, t.now) => NonStale(s.log, s.now))
      BY <1>1, <1>5, <1>8 DEF SameRun, Outlasts
    <3> QED
      BY <1>1, <3>1, <3>2 DEF NotLeft
  <2>6. CASE k \in gone
    <3>1. t.data[k] = Missing /\ IfMissing(t, k) = {k} \X Nat
      BY <1>1, <2>6 DEF IfMissing
    <3>2. Without(d, gone) = [t.data EXCEPT ![k] = Missing]
      BY <1>1, <1>4, <2>6 DEF Without
    <3>3. Undated(W, gone) \subseteq Dates(t) \cup IfMissing(t, k)
      BY <1>6, <2>6, <3>1 DEF IfMissing, Undated
    <3> HIDE DEF d, W
    <3>4. Says(s.now, t.log, [t.data EXCEPT ![k] = Missing], Sure(t), Dates(t) \cup IfMissing(t, k))
      BY <1>3, <1>6, <2>4, <3>2, <3>3, SaysMonotone DEF Says
    <3> QED
      BY <1>7, <1>8, <2>3, <2>5, <3>1, <3>4 DEF Knows
  <2>7. CASE k \notin gone
    <3>1. t.data[k] = s.data[k] /\ IfMissing(t, k) = IfMissing(s, k)
      BY <1>1, <2>7 DEF IfMissing
    <3>2. Without(d, gone) = [t.data EXCEPT ![k] = v]
      BY <1>1, <1>4, <2>7 DEF Without
    <3>3. Undated(W, gone) \subseteq Dates(t) \cup IfMissing(t, k)
      BY <1>6, <3>1 DEF IfMissing, Undated
    <3> HIDE DEF d, W
    <3>4. Says(s.now, t.log, [t.data EXCEPT ![k] = v], Sure(t), Dates(t) \cup IfMissing(t, k))
      BY <1>3, <1>6, <2>4, <3>2, <3>3, SaysMonotone DEF Says
    <3> QED
      BY <1>7, <1>8, <2>3, <2>5, <3>1, <3>4 DEF Knows
  <2> QED
    BY <2>6, <2>7
<1> QED
  BY <1>1, <1>5, <1>6, <1>9, <1>10 DEF Follows, KnowsStill, t

-----------------------------------------------------------------------------
(***************************************************************************)
(* Lookups, the expiry cycle and eviction.                                 *)
(***************************************************************************)
LEMMA ItselfFollows ==
    ASSUME NEW s
    PROVE  Follows(s, s)
  BY QuietFollows DEF SameRun

LEMMA TouchFollows ==
    ASSUME NEW s, StoreInv(s), NEW k \in Keys
    PROVE  Follows(s, TouchKey(s, k))
<1> DEFINE t == TouchKey(s, k)
<1>1. /\ DOMAIN t = Fields
      /\ t.data = s.data /\ t.sizes = s.sizes /\ t.used = s.used
      /\ t.expiry = s.expiry /\ t.now = s.now /\ t.limit = s.limit
      /\ t.policy = s.policy /\ t.logging = s.logging /\ t.log = s.log
      /\ s.data[k] = Missing => t = s
      /\ s.data[k] # Missing => /\ t.access = [s.access EXCEPT ![k] = s.clock + 1]
                                /\ t.clock = s.clock + 1
  BY TouchIs DEF StoreInv
<1> HIDE DEF t
<1>2. Follows(s, t)
  BY <1>1, QuietFollows DEF SameRun
<1> QED
  BY <1>2 DEF t

LEMMA DeleteFollows ==
    ASSUME NEW s, StoreInv(s), s.logging, NEW k \in Keys, NEW reason \in {"expiry", "eviction"}
    PROVE  Follows(s, Delete(s, k, reason)) /\ Delete(s, k, reason).data[k] = Missing
<1>1. CASE s.data[k] = Missing
  BY <1>1, ItselfFollows DEF Delete
<1>2. CASE s.data[k] # Missing
  <2>1. Delete(s, k, reason) = DeleteKeys(s, <<k>>, reason)
    BY <1>2 DEF Delete
  <2>2. <<k>> \in Seq(Keys) /\ k \in ToSet(<<k>>) \cap Keys
    BY OneKey
  <2> DEFINE w == <<k>>
  <2> HIDE DEF w
  <2>3. Follows(s, DeleteKeys(s, w, reason)) /\ DeleteKeys(s, w, reason).data[k] = Missing
    BY <2>2, DeleteKeysFollows, DeleteKeysDrops DEF w
  <2> QED
    BY <2>1, <2>3 DEF w
<1> QED
  BY <1>1, <1>2

LEMMA LookupFollows ==
    ASSUME NEW s, StoreInv(s), s.logging, NEW k \in Keys
    PROVE  /\ Follows(s, Lookup(s, k))
           /\ StoreInv(Lookup(s, k)) /\ Lookup(s, k).logging
           /\ ~IsExpired(Lookup(s, k), k) \/ Lookup(s, k).data[k] = Missing
<1> DEFINE p == PurgeIfExpired(s, k)
<1>1. StoreInv(p) /\ Follows(s, p)
  BY DeleteFollows, DeleteKeepsInv, ItselfFollows DEF PurgeIfExpired
<1> HIDE DEF p
<1>2. Follows(p, TouchKey(p, k))
  BY <1>1, TouchFollows
<1>3. Follows(s, TouchKey(p, k))
  BY <1>1, <1>2, FollowsTrans
<1>4. Lookup(s, k) = TouchKey(p, k)
  BY DEF Lookup, p
<1>5. Lookup(s, k).logging
  BY <1>3, <1>4 DEF Follows, SameRun
<1> QED
  BY <1>3, <1>4, <1>5, LookupIsLooked

LEMMA LookupIdle ==
    ASSUME NEW s, StoreInv(s), s.logging, NEW k \in Keys, ~IsExpired(s, k)
    PROVE  LET t == Lookup(s, k)
           IN  /\ StoreInv(t) /\ SameRun(s, t)
               /\ t.data = s.data /\ t.expiry = s.expiry /\ t.log = s.log
<1> DEFINE t == TouchKey(s, k)
<1>1. Lookup(s, k) = t
  BY DEF Lookup, PurgeIfExpired
<1>2. StoreInv(t)
  BY <1>1, LookupFollows
<1>3. /\ DOMAIN t = Fields
      /\ t.data = s.data /\ t.sizes = s.sizes /\ t.used = s.used
      /\ t.expiry = s.expiry /\ t.now = s.now /\ t.limit = s.limit
      /\ t.policy = s.policy /\ t.logging = s.logging /\ t.log = s.log
      /\ s.data[k] = Missing => t = s
      /\ s.data[k] # Missing => /\ t.access = [s.access EXCEPT ![k] = s.clock + 1]
                                /\ t.clock = s.clock + 1
  BY TouchIs DEF StoreInv
<1> HIDE DEF t
<1>4. SameRun(s, t) /\ t.data = s.data /\ t.expiry = s.expiry /\ t.log = s.log
  BY <1>3 DEF SameRun
<1> QED
  BY <1>1, <1>2, <1>4

LEMMA PurgedFollows ==
    ASSUME NEW s, StoreInv(s), s.logging, NEW expired, expired \subseteq ExpiredKeys(s)
    PROVE  Follows(s, DeleteKeys(s, SetToSeq(expired), "expiry"))
<1> DEFINE w == SetToSeq(expired)
<1>1. w \in Seq(Keys)
  BY SetToSeqIs DEF ExpiredKeys, Present
<1> HIDE DEF w
<1>2. Follows(s, DeleteKeys(s, w, "expiry"))
  BY <1>1, DeleteKeysFollows
<1> QED
  BY <1>2 DEF w

LEMMA CycleFollows ==
    ASSUME NEW s, StoreInv(s), s.logging, NEW t \in EvictExpiredSamples(s)
    PROVE  Follows(s, t) /\ t.logging
<1>1. PICK expired \in SampledExpired(s) : t = DeleteKeys(s, SetToSeq(expired), "expiry")
  BY DEF EvictExpiredSamples
<1>2. Follows(s, t)
  BY <1>1, SampledExpiredType, PurgedFollows
<1> QED
  BY <1>2 DEF Follows, SameRun

LEMMA PurgeAllFollows ==
    ASSUME NEW s, StoreInv(s), s.logging
    PROVE  Follows(s, PurgeAll(s))
  BY PurgedFollows DEF PurgeAll

LEMMA AfterCleanupFollows ==
    ASSUME NEW s, StoreInv(s), s.logging, NEW o \in EnforceAfterCleanup(s)
    PROVE  Follows(s, o.store)
<1>1. CASE o \in {Outcome(s, "ok")} \cup {Outcome(s, "oom")}
  <2>1. o.store = s
    BY <1>1 DEF Outcome
  <2> QED
    BY <2>1, ItselfFollows
<1>2. CASE \E w \in EvictionRuns(s) : o.store = DeleteKeys(s, w, "eviction")
  BY <1>2, EvictionRunsType, DeleteKeysFollows
<1>3. \/ o \in {Outcome(s, "ok")} \cup {Outcome(s, "oom")}
      \/ \E w \in EvictionRuns(s) : o.store = DeleteKeys(s, w, "eviction")
  BY DEF EnforceAfterCleanup, Outcome
<1> QED
  BY <1>1, <1>2, <1>3

LEMMA EnforceFollows ==
    ASSUME NEW s, StoreInv(s), s.logging, NEW K, NEW o \in EnforceMaxmemory(s, K)
    PROVE  Follows(s, o.store)
<1>1. CASE o \in {Outcome(s, "ok")} \cup {Outcome(s, "oom")}
  <2>1. o.store = s
    BY <1>1 DEF Outcome
  <2> QED
    BY <2>1, ItselfFollows
<1>2. CASE \E t \in EvictExpiredSamples(s) : o \in EnforceAfterCleanup(t)
  <2>1. PICK t \in EvictExpiredSamples(s) : o \in EnforceAfterCleanup(t)
    BY <1>2
  <2>2. Follows(s, t) /\ t.logging /\ StoreInv(t)
    BY CycleFollows, EvictExpiredKeepsInv
  <2>3. Follows(t, o.store)
    BY <2>1, <2>2, AfterCleanupFollows
  <2> QED
    BY <2>2, <2>3, FollowsTrans
<1>3. \/ o \in {Outcome(s, "ok")} \cup {Outcome(s, "oom")}
      \/ \E t \in EvictExpiredSamples(s) : o \in EnforceAfterCleanup(t)
  BY DEF EnforceMaxmemory
<1> QED
  BY <1>1, <1>2, <1>3

LEMMA LeastKey ==
    ASSUME NEW S, S \subseteq Keys, NEW f \in [Keys -> Nat], S # {}
    PROVE  \E k \in S : \A j \in S : f[k] <= f[j]
<1> DEFINE Image == {f[j] : j \in S}
<1>1. Image \subseteq Nat /\ Image # {}
  OBVIOUS
<1>2. PICK n \in Image : \A m \in Image : n <= m
  <2> HIDE DEF Image
  <2> QED
    BY <1>1, SmallestNat
<1>3. PICK k \in S : f[k] = n
  OBVIOUS
<1>4. \A j \in S : f[k] <= f[j]
  BY <1>2, <1>3
<1> QED
  BY <1>4

\* when no candidate is left there is no key with a deadline either
LEMMA NoCandidates ==
    ASSUME NEW s, StoreInv(s), s.policy # "noeviction", EvictionCandidates(s) = {}
    PROVE  {k \in Present(s) : s.expiry[k] # 0} = {}
<1> DEFINE deadlines == {k \in Present(s) : s.expiry[k] # 0}
<1>1. /\ s.policy \in SUPPORTED_EVICTION_POLICIES
      /\ s.access \in [Keys -> Nat] /\ s.expiry \in [Keys -> Nat]
      /\ Present(s) \subseteq Keys /\ deadlines \subseteq Present(s)
  BY DEF StoreInv, WellTyped, Present
<1>2. CASE s.policy = "allkeys-random"
  <2>1. EvictionCandidates(s) = Present(s)
    BY <1>2, Zenon DEF EvictionCandidates
  <2> QED
    BY <1>1, <2>1
<1>3. CASE s.policy = "allkeys-lru"
  <2>1. EvictionCandidates(s) =
           {k \in Present(s) : \A j \in Present(s) : s.access[k] <= s.access[j]}
    BY <1>3, Zenon DEF EvictionCandidates
  <2>2. Present(s) = {}
    BY <1>1, <2>1, LeastKey
  <2> QED
    BY <1>1, <2>2
<1>4. CASE s.policy = "volatile-ttl"
  <2>1. EvictionCandidates(s) =
           {k \in deadlines : \A j \in deadlines : s.expiry[k] <= s.expiry[j]}
    BY <1>4, Zenon DEF EvictionCandidates
  <2> HIDE DEF deadlines
  <2>2. deadlines \subseteq Keys
    BY <1>1
  <2>3. deadlines = {}
    BY <1>1, <2>1, <2>2, LeastKey
  <2> QED
    BY <2>3 DEF deadlines
<1> QED
  BY <1>1, <1>2, <1>3, <1>4 DEF SUPPORTED_EVICTION_POLICIES

\* Values that fit without deadlines cannot be too much for memory.
LEMMA UndatedFit ==
    ASSUME NEW s, StoreInv(s), s.limit # 0, ValuesFit(s), {k \in Present(s) : s.expiry[k] # 0} = {}
    PROVE  s.used <= s.limit
<1>1. /\ Total(BaseSize(s)) \in Nat
      /\ Cardinality({k \in Present(s) : s.expiry[k] # 0}) \in Nat
      /\ s.used = Total(BaseSize(s))
                    + TtlCost * Cardinality({k \in Present(s) : s.expiry[k] # 0})
  BY UsedIs
<1>2. Cardinality({k \in Present(s) : s.expiry[k] # 0}) = 0
  BY FS_EmptySet
<1>3. s.used = Total(BaseSize(s))
  <2> DEFINE n == Cardinality({k \in Present(s) : s.expiry[k] # 0})
             b == Total(BaseSize(s))
  <2>1. b \in Nat /\ n = 0 /\ s.used = b + TtlCost * n
    BY <1>1, <1>2
  <2> HIDE DEF n, b
  <2>2. s.used = b
    BY <2>1, CostAssumption
  <2> QED
    BY <2>2 DEF b
<1> QED
  BY <1>3 DEF ValuesFit

\* A write that ends in MemoryLimitError has not evicted its own key.
LEMMA OomKeeps ==
    ASSUME NEW s, StoreInv(s), ValuesFit(s), NEW k \in Keys,
           NEW t, StoreInv(t), t.limit = s.limit,
           \A j \in Keys \ {k} :
              t.data[j] = s.data[j] /\ t.sizes[j] = s.sizes[j] /\ t.expiry[j] = s.expiry[j],
           t.policy = "noeviction" => ~IsExpired(t, k),
           NEW o \in EnforceMaxmemory(t, {k}), o.reply = "oom"
    PROVE  o.store.data[k] = t.data[k]
<1>1. t.limit # 0
  BY DEF EnforceMaxmemory, Outcome
<1>2. CASE o = Outcome(t, "oom")
  BY <1>2 DEF Outcome
<1>3. CASE \E u \in EvictExpiredSamples(t) : o \in EnforceAfterCleanup(u)
  <2>1. PICK u \in EvictExpiredSamples(t) : o \in EnforceAfterCleanup(u)
    BY <1>3
  <2>2. /\ Leads(t, u, {})
        /\ Shrinks(t, u)
        /\ \A j \in Keys : ~IsExpired(t, j) => u.data[j] = t.data[j]
    BY EvictExpiredLeads
  <2>3. StoreInv(u) /\ u.limit = t.limit /\ u.policy = t.policy
    BY <2>2 DEF Leads, Spares
  <2>4. CASE o \in {Outcome(u, "ok"), Outcome(u, "oom")} /\ t.policy = "noeviction"
    <3>1. o.store = u
      BY <2>4 DEF Outcome
    <3> QED
      BY <2>2, <2>4, <3>1
  <2>5. CASE t.policy # "noeviction" /\ \E w \in EvictionRuns(u) :
               LET v == DeleteKeys(u, w, "eviction")
               IN  o = Outcome(v, IF v.used > v.limit THEN "oom" ELSE "ok")
    <3>1. PICK w \in EvictionRuns(u) :
            LET v == DeleteKeys(u, w, "eviction")
            IN  o = Outcome(v, IF v.used > v.limit THEN "oom" ELSE "ok")
      BY <2>5
    <3> DEFINE v == DeleteKeys(u, w, "eviction")
               gone == ToSet(w)
    <3>2. w \in Seq(Keys)
      BY EvictionRunsType
    <3>3. SubSeq(w, 1, Len(w)) = w
      BY <3>2, SubSeqFull
    <3>4. ~(v.used > v.limit /\ EvictionCandidates(v) # {})
      <4>1. LET After(i) == DeleteKeys(u, SubSeq(w, 1, i), "eviction")
            IN  ~(After(Len(w)).used > After(Len(w)).limit /\ EvictionCandidates(After(Len(w))) # {})
        BY Zenon DEF EvictionRuns
      <4> QED
        BY <3>3, <4>1, Zenon
    <3>5. o.store = v /\ v.used > v.limit
      BY <3>1 DEF Outcome
    <3>6. /\ WellTyped(v)
          /\ Counted(v)
          /\ v.used <= u.used
          /\ v.data = [j \in Keys |-> IF j \in gone THEN Missing ELSE u.data[j]]
          /\ v.sizes = [j \in Keys |-> IF j \in gone THEN 0 ELSE u.sizes[j]]
          /\ v.access = [j \in Keys |-> IF j \in gone THEN 0 ELSE u.access[j]]
          /\ v.expiry = [j \in Keys |-> IF j \in gone THEN 0 ELSE u.expiry[j]]
          /\ v.clock = u.clock /\ v.now = u.now /\ v.limit = u.limit
          /\ v.policy = u.policy /\ v.logging = u.logging
      BY <2>3, <3>2, DeleteKeysIs
    <3>7. StoreInv(v)
      BY <2>3, <3>2, DeleteKeysKeepsInv
    <3> HIDE DEF v, gone
    <3>8. {j \in Present(v) : v.expiry[j] # 0} = {}
      BY <2>3, <2>5, <3>4, <3>5, <3>6, <3>7, NoCandidates
    <3>9. ASSUME v.data[k] # t.data[k] PROVE FALSE
      <4>1. v.data[k] = Missing
        BY <2>2, <3>6, <3>9 DEF Shrinks, KeptOrGone
      <4>2. ASSUME NEW j \in Keys, v.data[j] # Missing
            PROVE  s.data[j] # Missing /\ v.sizes[j] = s.sizes[j] /\ v.expiry[j] = s.expiry[j]
        <5>1. j # k /\ j \notin gone
          BY <3>6, <4>1, <4>2
        <5>2. SameAt(t, u, j)
          BY <2>2, <3>6, <4>2, <5>1 DEF Leads, Spares, SparesKey
        <5> QED
          BY <3>6, <4>2, <5>1, <5>2 DEF SameAt
      <4>3. Lighter(s, v)
        BY <3>7, <4>2, SameIsLighter
      <4>4. ValuesFit(v)
        BY <2>3, <3>6, <3>7, <4>3, ShrunkFits
      <4>5. v.used <= v.limit
        BY <1>1, <2>3, <3>6, <3>7, <3>8, <4>4, UndatedFit
      <4> QED
        BY <3>5, <3>6, <4>5 DEF WellTyped
    <3> QED
      BY <3>5, <3>9
  <2>6. o # Outcome(u, "ok")
    BY DEF Outcome
  <2>7. \/ o \in {Outcome(u, "oom")} /\ t.policy = "noeviction"
        \/ t.policy # "noeviction" /\ \E w \in EvictionRuns(u) :
               LET v == DeleteKeys(u, w, "eviction")
               IN  o = Outcome(v, IF v.used > v.limit THEN "oom" ELSE "ok")
    BY <2>1, <2>3, <2>6, Zenon DEF EnforceAfterCleanup
  <2> QED
    BY <2>4, <2>5, <2>7
<1>4. o = Outcome(t, "oom") \/ \E u \in EvictExpiredSamples(t) : o \in EnforceAfterCleanup(u)
  <2>1. o # Outcome(t, "ok")
    BY DEF Outcome
  <2> QED
    BY <1>1, <2>1, Zenon DEF EnforceMaxmemory
<1> QED
  BY <1>2, <1>3, <1>4

-----------------------------------------------------------------------------
(***************************************************************************)
(* A write and its rollback.                                               *)
(***************************************************************************)
LEMMA SyncTells ==
    ASSUME NEW s, DOMAIN s = Fields, NEW k
    PROVE  SyncMemoryForKey(s, k).log = s.log /\ SyncMemoryForKey(s, k).logging = s.logging
  BY SMT DEF SyncMemoryForKey, Fields

LEMMA WrittenTells ==
    ASSUME NEW s, StoreInv(s), NEW k \in Keys, NEW obj \in Objects
    PROVE  LET t == Written(s, k, obj)
           IN  /\ StoreInv(t)
               /\ \A j \in Keys \ {k} : t.sizes[j] = s.sizes[j]
               /\ t.data = [s.data EXCEPT ![k] = obj] /\ t.data[k] = obj
               /\ t.expiry = s.expiry /\ t.log = s.log
               /\ SameRun(s, t)
<1> DEFINE w == [s EXCEPT !.data[k] = obj]
           u == TouchKey(w, k)
           t == SyncMemoryForKey(u, k)
<1>1. /\ DOMAIN w = Fields
      /\ w.data = [s.data EXCEPT ![k] = obj] /\ w.sizes = s.sizes /\ w.used = s.used
      /\ w.access = s.access /\ w.clock = s.clock
      /\ w.expiry = s.expiry /\ w.now = s.now /\ w.limit = s.limit
      /\ w.policy = s.policy /\ w.logging = s.logging /\ w.log = s.log
  BY SMT DEF StoreInv, WellTyped, Fields
<1> HIDE DEF w
<1>2. WellTyped(w)
  BY <1>1 DEF StoreInv, WellTyped
<1>3. /\ DOMAIN u = Fields
      /\ u.data = w.data /\ u.sizes = w.sizes /\ u.used = w.used
      /\ u.expiry = w.expiry /\ u.now = w.now /\ u.limit = w.limit
      /\ u.policy = w.policy /\ u.logging = w.logging /\ u.log = w.log
      /\ w.data[k] = Missing => u = w
      /\ w.data[k] # Missing => /\ u.access = [w.access EXCEPT ![k] = w.clock + 1]
                                /\ u.clock = w.clock + 1
  BY <1>2, TouchIs
<1> HIDE DEF u
<1>4. t.log = u.log /\ t.logging = u.logging
  BY <1>3, SyncTells
<1>5. t = Written(s, k, obj)
  BY DEF Written, u, w
<1> HIDE DEF t
<1>6. /\ StoreInv(t)
      /\ t.data = [s.data EXCEPT ![k] = obj]
      /\ t.sizes = [s.sizes EXCEPT ![k] = EstimateKeySize(t, k)]
      /\ t.access = [s.access EXCEPT ![k] = s.clock + 1]
      /\ t.clock = s.clock + 1
      /\ t.expiry = s.expiry /\ t.now = s.now /\ t.limit = s.limit
      /\ t.policy = s.policy
  <2> DEFINE x == Written(s, k, obj)
  <2>1. /\ StoreInv(x)
        /\ x.data = [s.data EXCEPT ![k] = obj]
        /\ x.sizes = [s.sizes EXCEPT ![k] = EstimateKeySize(x, k)]
        /\ x.access = [s.access EXCEPT ![k] = s.clock + 1]
        /\ x.clock = s.clock + 1
        /\ x.expiry = s.expiry /\ x.now = s.now /\ x.limit = s.limit
        /\ x.policy = s.policy
    BY WrittenIs
  <2> HIDE DEF x
  <2> QED
    BY <1>5, <2>1 DEF x
<1>7. SameRun(s, t) /\ t.log = s.log
  BY <1>1, <1>3, <1>4, <1>6 DEF SameRun
<1>8. t.data[k] = obj /\ \A j \in Keys \ {k} : t.sizes[j] = s.sizes[j]
  BY <1>6 DEF StoreInv, WellTyped
<1> QED
  BY <1>5, <1>6, <1>7, <1>8

LEMMA RestoreTells ==
    ASSUME NEW s, DOMAIN s = Fields, NEW k, NEW snap
    PROVE  LET r == RestoreKeySnapshot(s, k, snap)
           IN  r.log = s.log /\ r.logging = s.logging
<1> DEFINE cleared == [s EXCEPT !.sizes[k] = 0, !.used = Monus(s.used, s.sizes[k])]
           gone == [cleared EXCEPT !.data[k] = Missing, !.access[k] = 0]
           back == [cleared EXCEPT !.data[k] = IF s.limit = 0 /\ s.data[k] # Missing
                                               THEN s.data[k] ELSE snap.obj,
                                   !.access[k] = snap.access]
           r == RestoreKeySnapshot(s, k, snap)
<1>1. DOMAIN cleared = Fields /\ cleared.log = s.log /\ cleared.logging = s.logging
  BY SMT DEF Fields
<1> HIDE DEF cleared
<1>2. gone.log = s.log /\ gone.logging = s.logging
  BY <1>1, SMT DEF Fields
<1>3. DOMAIN back = Fields /\ back.log = s.log /\ back.logging = s.logging
  BY <1>1, SMT DEF Fields
<1>4. r = IF snap.obj = Missing THEN gone ELSE SyncMemoryForKey(back, k)
  BY Zenon DEF RestoreKeySnapshot, cleared
<1> HIDE DEF gone, back, r
<1>5. r.log = s.log /\ r.logging = s.logging
  BY <1>2, <1>3, <1>4, SyncTells
<1> QED
  BY <1>5 DEF r

LEMMA StaleKnows ==
    ASSUME NEW s, NEW k, NEW v, Knows(s, k, v), ~NonStale(s.log, s.now),
           NEW t, t.log = s.log, t.now = s.now
    PROVE  \A u : Knows(t, k, u)
  BY DEF Knows, Noted, NotLeft, Says, SaysTo, NonStale, FreshTo

\* the same log, and the values the same but for k
LEMMA SameLogKnows ==
    ASSUME NEW s, StoreInv(s), NEW k \in Keys, NEW v, Knows(s, k, v),
           NEW t, StoreInv(t), SameRun(s, t), t.log = s.log, DeadlinesGo(s, t),
           \A j \in Keys \ {k} : t.data[j] = s.data[j] /\ t.expiry[j] = s.expiry[j],
           \/ v = Missing
           \/ t.data[k] = Missing
           \/ s.data[k] # Missing /\ t.expiry[k] = s.expiry[k],
           v = Missing \/ t.data[k] # Missing \/ t.expiry[k] = 0
    PROVE  Knows(t, k, v)
<1> DEFINE d == [s.data EXCEPT ![k] = v]
           L == Sure(s)
           K == Sure(t)
           W == Dates(s) \cup IfMissing(s, k)
           X == Dates(t) \cup IfMissing(t, k)
<1>1. /\ s.data \in [Keys -> Objects \cup {Missing}] /\ s.log \in Seq(CmdRecords)
      /\ t.data \in [Keys -> Objects \cup {Missing}]
      /\ s.expiry \in [Keys -> Nat]
  BY DEF StoreInv, WellTyped
<1>2. [t.data EXCEPT ![k] = v] = d
  BY <1>1
<1>3. d[k] = v
  BY <1>1
<1>4. Says(s.now, s.log, d, L, W)
  BY DEF Knows
<1> HIDE DEF d
<1>5. Says(s.now, s.log, d, L, {p \in W : d[p[1]] # Missing})
  <2> HIDE DEF W, L
  <2> QED
    BY <1>1, <1>4, SaysLive
<1>6. {p \in W : d[p[1]] # Missing} \subseteq X
  BY <1>3 DEF Dates, IfMissing
<1>7. K \subseteq L
  BY DEF Sure, Dates, DeadlinesGo, SameRun
<1>8. Says(s.now, s.log, d, K, X)
  <2> HIDE DEF W, X, L, K
  <2> QED
    BY <1>5, <1>6, <1>7, SaysMonotone DEF Says
<1>9. Outlasts(s.log, t.log) /\ Noted(s)
  BY DEF Outlasts, Knows
<1>10. Noted(t)
  BY <1>9, NotedStays
<1>11. NotLeft(t, k)
  <2>1. SUFFICES ASSUME s.policy \in Exact, NonStale(s.log, s.now), v = Missing, s.expiry[k] # 0
                 PROVE  FALSE
    BY DEF NotLeft, SameRun, DeadlinesGo
  <2> DEFINE p == <<k, Cut(s.expiry[k])>>
  <2>2. p \in L /\ p[1] = k
    BY <1>1, <2>1, CutIsBefore DEF Sure, Dates
  <2> HIDE DEF p, L
  <2>3. d[p[1]] # Missing
    BY <1>1, <1>4, <2>1, <2>2, SaysSurely
  <2> QED
    BY <1>3, <2>1, <2>2, <2>3
<1> QED
  BY <1>2, <1>8, <1>10, <1>11 DEF Knows, SameRun

LEMMA RestoreKnows ==
    ASSUME NEW s0, StoreInv(s0), NEW s, StoreInv(s), NEW k \in Keys,
           s0.clock <= s.clock, \A j \in Keys : Renewed(s0, s, j),
           s.limit # 0 \/ s.data[k] = s0.data[k],
           NEW v, v = s0.data[k], Knows(s, k, v),
           v = Missing \/ s.data[k] # Missing \/ ~NonStale(s.log, s.now)
    PROVE  LET r == RestoreKeySnapshot(s, k, SnapshotKey(s0, k))
           IN  StoreInv(r) /\ SameRun(s, r) /\ r.data[k] = v /\ Knows(r, k, v)
<1> DEFINE r == RestoreKeySnapshot(s, k, SnapshotKey(s0, k))
<1>1. /\ StoreInv(r)
      /\ \A j \in Keys \ {k} : SameAt(s, r, j)
      /\ r.data[k] \in {s0.data[k], s.data[k]}
      /\ s.limit # 0 \/ s0.data[k] = Missing => r.data[k] = s0.data[k]
      /\ s0.data[k] # Missing => r.data[k] # Missing
      /\ r.access[k] = s0.access[k]
      /\ r.expiry = s.expiry /\ r.clock = s.clock /\ r.now = s.now
      /\ r.limit = s.limit /\ r.policy = s.policy
  BY RestoreIs
<1>2. r.log = s.log /\ r.logging = s.logging
  BY RestoreTells DEF StoreInv, WellTyped
<1> HIDE DEF r
<1>3. SameRun(s, r) /\ r.data[k] = v
  BY <1>1, <1>2 DEF SameRun
<1>4. DeadlinesGo(s, r)
  BY <1>1 DEF DeadlinesGo
<1>5. \A j \in Keys \ {k} : r.data[j] = s.data[j] /\ r.expiry[j] = s.expiry[j]
  BY <1>1 DEF SameAt
<1>6. CASE ~NonStale(s.log, s.now)
  BY <1>1, <1>2, <1>3, <1>6, StaleKnows DEF SameRun, r
<1>7. CASE v = Missing \/ s.data[k] # Missing
  <2>1. Knows(r, k, v)
    BY <1>1, <1>2, <1>3, <1>4, <1>5, <1>7, SameLogKnows
  <2> QED
    BY <1>1, <1>3, <2>1 DEF r
<1> QED
  BY <1>6, <1>7

\* the write of obj at k, from s; the key was as in s0 when its snapshot was taken
LEMMA PutComes ==
    ASSUME NEW s0, StoreInv(s0), NEW s, NEW k \in Keys, Looked(s0, s, k),
           NEW obj \in Objects, NEW p \in Put(s, k, obj, SnapshotKey(s0, k))
    PROVE  \E o \in EnforceMaxmemory(Written(s, k, obj), {k}) :
              /\ p = IF o.reply = "oom"
                     THEN Outcome(RestoreKeySnapshot(o.store, k, SnapshotKey(s0, k)), "oom")
                     ELSE o
              /\ o.reply \in {"ok", "oom"}
              /\ StoreInv(o.store) /\ Spares(s0, o.store, {k})
              /\ o.reply = "oom" => o.store.limit # 0
<1> DEFINE t == Written(s, k, obj)
           Back(u) == RestoreKeySnapshot(u, k, SnapshotKey(s0, k))
<1>1. StoreInv(s) /\ Spares(s0, s, {k})
  BY DEF Looked, Leads
<1>2. /\ StoreInv(t)
      /\ t.data = [s.data EXCEPT ![k] = obj]
      /\ t.sizes = [s.sizes EXCEPT ![k] = EstimateKeySize(t, k)]
      /\ t.access = [s.access EXCEPT ![k] = s.clock + 1]
      /\ t.clock = s.clock + 1
      /\ t.expiry = s.expiry /\ t.now = s.now /\ t.limit = s.limit
      /\ t.policy = s.policy
  BY <1>1, WrittenIs
<1>3. PICK o \in EnforceMaxmemory(t, {k}) :
        p = IF o.reply = "oom" THEN Outcome(Back(o.store), "oom") ELSE o
  <2>1. [s EXCEPT !.data[k] = obj].data[k] # Missing
    BY <1>1, ObjectsArePresent, SMT DEF StoreInv, WellTyped, Fields
  <2> QED
    BY <2>1 DEF Put, FinalizeMutation, Written
<1> HIDE DEF t, Back
<1>4. Enforced(t, o)
  <2>1. /\ Enforced(t, o)
        /\ o.reply = "ok" /\ Recent(t, k) => o.store.data[k] = t.data[k]
        /\ t.used <= t.limit => o.reply = "ok"
    BY <1>2, EnforceIs, Zenon
  <2> QED
    BY <2>1
<1>5. Spares(s, t, {k})
  <2>1. /\ s.clock <= t.clock
        /\ \A j \in Keys : Renewed(s, t, j)
    <3>1. s.access \in [Keys -> Nat] /\ s.clock \in Nat
      BY <1>1 DEF StoreInv, WellTyped
    <3> QED
      BY <1>2, <3>1 DEF Renewed
  <2>2. \A j \in Keys \ {k} : SameAt(s, t, j)
    BY <1>1, <1>2 DEF StoreInv, WellTyped, SameAt
  <2>3. \A j \in Keys \ {k} : SparesKey(s, t, {k}, j)
    BY <2>2 DEF SparesKey, SameAt, Evicts
  <2> QED
    BY <1>2, <2>1, <2>3 DEF Spares
<1>6. StoreInv(o.store) /\ Spares(s0, o.store, {k})
  <2>1. Leads(t, o.store, {k})
    BY <1>4, LeadsMore DEF Enforced
  <2>2. WellTyped(s0) /\ WellTyped(s) /\ WellTyped(t) /\ WellTyped(o.store)
    BY <1>1, <1>2, <2>1 DEF StoreInv, Leads
  <2>3. Spares(s, o.store, {k})
    BY <1>5, <2>1, <2>2, SparesTrans DEF Leads
  <2> QED
    BY <1>1, <2>1, <2>2, <2>3, SparesTrans DEF Leads
<1>7. o.reply \in {"ok", "oom"} /\ (o.reply = "oom" => o.store.limit # 0)
  BY <1>4 DEF Enforced, Leads, Spares
<1> QED
  BY <1>3, <1>6, <1>7 DEF t, Back

LEMMA PutKnows ==
    ASSUME NEW s0, StoreInv(s0), NEW s, s.logging, ValuesFit(s), NEW k \in Keys, Looked(s0, s, k),
           NEW obj \in Objects, NEW p \in Put(s, k, obj, SnapshotKey(s0, k)),
           NEW v, Knows(s, k, v), s.data[k] = Missing => v = Missing,
           v = Missing \/ ~NonStale(s.log, s.now) \/ ~IsExpired(s, k) \/ s.policy # "noeviction"
    PROVE  /\ p.store.logging
           /\ p.reply = "ok" => \/ p.store.data[k] = obj /\ Knows(p.store, k, v)
                                \/ p.store.data[k] = Missing /\ Knows(p.store, k, Missing)
           /\ p.reply = "oom" /\ s0.data[k] = v => p.store.data[k] = v /\ Knows(p.store, k, v)
<1> DEFINE t == Written(s, k, obj)
           snap == SnapshotKey(s0, k)
<1>0. StoreInv(s)
  BY DEF Looked, Leads
<1>1. /\ StoreInv(t)
      /\ \A j \in Keys \ {k} : t.sizes[j] = s.sizes[j]
      /\ t.data = [s.data EXCEPT ![k] = obj] /\ t.data[k] = obj
      /\ t.expiry = s.expiry /\ t.log = s.log
      /\ SameRun(s, t)
  BY <1>0, WrittenTells
<1>2. PICK o \in EnforceMaxmemory(t, {k}) :
        /\ p = IF o.reply = "oom" THEN Outcome(RestoreKeySnapshot(o.store, k, snap), "oom") ELSE o
        /\ o.reply \in {"ok", "oom"}
        /\ StoreInv(o.store) /\ Spares(s0, o.store, {k})
        /\ o.reply = "oom" => o.store.limit # 0
  BY PutComes
<1> HIDE DEF t
<1>3. obj # Missing
  BY ObjectsArePresent
<1>4. \A j \in Keys \ {k} : t.data[j] = s.data[j] /\ t.expiry[j] = s.expiry[j]
  BY <1>0, <1>1 DEF StoreInv, WellTyped
<1>5. DeadlinesGo(s, t) /\ t.logging
  BY <1>1 DEF DeadlinesGo, SameRun
<1>6. Knows(t, k, v)
  BY <1>0, <1>1, <1>3, <1>4, <1>5, SameLogKnows
<1>7. Follows(t, o.store)
  BY <1>1, <1>5, EnforceFollows
<1>8. \/ o.store.data[k] = obj /\ Knows(o.store, k, v)
      \/ o.store.data[k] = Missing /\ Knows(o.store, k, Missing)
  BY <1>1, <1>6, <1>7 DEF Follows, KnowsStill
<1>9. CASE o.reply = "ok"
  <2>1. p = o
    BY <1>2, <1>9
  <2> QED
    BY <1>5, <1>7, <1>8, <1>9, <2>1 DEF Follows, SameRun
<1>10. CASE o.reply = "oom"
  <2> DEFINE r == RestoreKeySnapshot(o.store, k, snap)
  <2>1. p.store = r /\ p.reply = "oom"
    BY <1>2, <1>10 DEF Outcome
  <2>2. r.log = o.store.log /\ r.logging = o.store.logging
    BY <1>2, RestoreTells DEF StoreInv, WellTyped
  <2>3. o.store.logging
    BY <1>5, <1>7 DEF Follows, SameRun
  <2>4. ASSUME s0.data[k] = v PROVE r.data[k] = v /\ Knows(r, k, v)
    <3>1. s0.clock <= o.store.clock /\ \A j \in Keys : Renewed(s0, o.store, j)
      BY <1>2 DEF Spares
    <3>2. \/ Knows(o.store, k, v) /\ (v = Missing \/ o.store.data[k] # Missing)
          \/ Knows(o.store, k, v) /\ ~NonStale(o.store.log, o.store.now)
      <4>1. CASE v = Missing
        BY <1>8, <4>1
      <4>2. CASE ~NonStale(s.log, s.now)
        <5>1. ~NonStale(o.store.log, o.store.now)
          BY <1>1, <1>7, <4>2 DEF Follows, Outlasts, SameRun
        <5> QED
          BY <1>8, <5>1, StaleKnows
      <4>3. CASE ~IsExpired(s, k) \/ s.policy # "noeviction"
        <5>1. t.policy = "noeviction" => ~IsExpired(t, k)
          BY <1>1, <4>3 DEF IsExpired, SameRun
        <5>2. t.limit = s.limit
          BY <1>1 DEF SameRun
        <5>3. \A j \in Keys \ {k} :
                 t.data[j] = s.data[j] /\ t.sizes[j] = s.sizes[j] /\ t.expiry[j] = s.expiry[j]
          BY <1>0, <1>1, <1>4 DEF StoreInv, WellTyped
        <5>4. StoreInv(t) /\ o \in EnforceMaxmemory(t, {k})
          BY <1>1, <1>2
        <5>5. o.store.data[k] = t.data[k]
          BY <1>0, <1>10, <5>1, <5>2, <5>3, <5>4, OomKeeps
        <5> QED
          BY <1>1, <1>3, <1>8, <5>5
      <4> QED
        BY <4>1, <4>2, <4>3
    <3> HIDE DEF r
    <3>3. StoreInv(r) /\ SameRun(o.store, r) /\ r.data[k] = v /\ Knows(r, k, v)
      BY <1>2, <1>10, <2>4, <3>1, <3>2, RestoreKnows DEF r
    <3> QED
      BY <3>3
  <2> HIDE DEF r
  <2> QED
    BY <2>1, <2>2, <2>3, <2>4
<1> QED
  BY <1>2, <1>9, <1>10

-----------------------------------------------------------------------------
(***************************************************************************)
(* The commands that change the value of one key.                          *)
(***************************************************************************)
\* After the handler the log has the value from which the command made the
\* value that the store has, or that it refused.
Handled(c, o) ==
    /\ o.store.logging
    /\ \E v : /\ Knows(o.store, c.key, v)
              /\ o.reply \in {"error", "oom"} => o.store.data[c.key] = v
              /\ o.reply \notin {"error", "oom"} =>
                    \/ o.store.data[c.key] = Missing
                    \/ ~Refuses(c, v) /\ o.store.data[c.key] = Result(c, v)

\* a store that a lookup of k has left
LookedUp(t, k) ==
    /\ StoreInv(t) /\ t.logging /\ Tidy(t)
    /\ ~IsExpired(t, k) \/ t.data[k] = Missing

LEMMA LookupLooks ==
    ASSUME NEW s, StoreInv(s), s.logging, Tidy(s), NEW k \in Keys
    PROVE  LookedUp(Lookup(s, k), k)
  BY LookupFollows, LookupLeads DEF LookedUp, Leads

LEMMA DeleteKnows ==
    ASSUME NEW s, StoreInv(s), NEW k \in Keys, NEW v, Knows(s, k, v)
    PROVE  LET t == Delete(s, k, "command")
           IN  SameRun(s, t) /\ t.data[k] = Missing /\ Knows(t, k, v)
<1> DEFINE t == Delete(s, k, "command")
<1>1. CASE s.data[k] = Missing
  BY <1>1 DEF Delete, SameRun
<1>2. CASE s.data[k] # Missing
  <2> DEFINE w == <<k>>
  <2>1. t = DeleteKeys(s, w, "command")
    BY <1>2 DEF Delete
  <2>2. w \in Seq(Keys) /\ ToSet(w) = {k}
    BY OneKey
  <2>3. StoreInv(t)
    BY DeleteKeepsInv
  <2> HIDE DEF t, w
  <2>4. /\ t.data = [j \in Keys |-> IF j \in ToSet(w) THEN Missing ELSE s.data[j]]
        /\ t.expiry = [j \in Keys |-> IF j \in ToSet(w) THEN 0 ELSE s.expiry[j]]
        /\ SameRun(s, t)
        /\ t.log = IF s.logging /\ "command" \in {"expiry", "eviction"}
                   THEN LogPlus(s.log, DelRecords(w)) ELSE s.log
    BY <2>1, <2>2, DeleteKeysTells
  <2>5. t.log = s.log
    BY <2>4
  <2>6. /\ DeadlinesGo(s, t) /\ t.data[k] = Missing /\ t.expiry[k] = 0
        /\ \A j \in Keys \ {k} : t.data[j] = s.data[j] /\ t.expiry[j] = s.expiry[j]
    BY <2>2, <2>4 DEF DeadlinesGo
  <2>7. Knows(t, k, v)
    BY <2>3, <2>4, <2>5, <2>6, SameLogKnows
  <2> QED
    BY <2>4, <2>6, <2>7 DEF t
<1> QED
  BY <1>1, <1>2

LEMMA WritesKnow ==
    ASSUME NEW t, NEW k \in Keys, LookedUp(t, k), NEW v, Knows(t, k, v),
           t.data[k] = Missing => v = Missing,
           NEW w, NEW o, Writes(t, k, t.data[k], w, o)
    PROVE  /\ o.store.logging
           /\ o.reply \in {"ok", "nil", "oom"}
           /\ o.reply = "oom" /\ t.data[k] = v => o.store.data[k] = v /\ Knows(o.store, k, v)
           /\ o.reply # "oom" => \/ o.store.data[k] = w /\ Knows(o.store, k, v)
                                 \/ o.store.data[k] = Missing /\ Knows(o.store, k, Missing)
<1>1. CASE w = t.data[k] /\ o.store = t /\ o.reply \in {"ok", "nil"}
  BY <1>1 DEF LookedUp
<1>2. CASE w = Missing /\ o = Outcome(Delete(t, k, "command"), "ok")
  <2> DEFINE u == Delete(t, k, "command")
  <2>1. o.store = u /\ o.reply = "ok"
    BY <1>2 DEF Outcome
  <2>2. SameRun(t, u) /\ u.data[k] = Missing /\ Knows(u, k, v)
    BY DeleteKnows DEF LookedUp
  <2> HIDE DEF u
  <2> QED
    BY <1>2, <2>1, <2>2 DEF LookedUp, SameRun
<1>3. CASE w \in Objects /\ o \in StoreSet(t, k, w)
  <2>1. o \in Put(t, k, w, SnapshotKey(t, k)) /\ Looked(t, t, k)
    BY <1>3, LookedItself DEF StoreSet, LookedUp
  <2>2. ValuesFit(t) /\ (v = Missing \/ ~IsExpired(t, k))
    BY DEF LookedUp, Tidy
  <2>3. /\ o.store.logging
        /\ o.reply = "ok" => \/ o.store.data[k] = w /\ Knows(o.store, k, v)
                             \/ o.store.data[k] = Missing /\ Knows(o.store, k, Missing)
        /\ o.reply = "oom" /\ t.data[k] = v => o.store.data[k] = v /\ Knows(o.store, k, v)
    BY <1>3, <2>1, <2>2, PutKnows DEF LookedUp
  <2>4. o.reply \in {"ok", "oom"}
    BY <1>3, StoreSetIs DEF LookedUp
  <2> QED
    BY <2>3, <2>4
<1> QED
  BY <1>1, <1>2, <1>3 DEF Writes

LEMMA DoesHandle ==
    ASSUME NEW c, c.key \in Keys, NEW t, LookedUp(t, c.key), Honest(t), NEW o, Does(t, c, o)
    PROVE  Handled(c, o)
<1> DEFINE k == c.key
           v == t.data[k]
<1>1. Knows(t, k, v)
  BY HonestKnows DEF LookedUp
<1>2. CASE Refuses(c, v)
  <2>1. o = Outcome(t, "error")
    BY <1>2 DEF Does
  <2>2. o.store = t /\ o.reply = "error"
    BY <2>1 DEF Outcome
  <2> QED
    BY <1>1, <2>2 DEF Handled, LookedUp
<1>3. CASE ~Refuses(c, v)
  <2> DEFINE w == Result(c, v)
  <2>1. Writes(t, k, v, w, o)
    BY <1>3 DEF Does
  <2> HIDE DEF w
  <2>2. /\ o.store.logging
        /\ o.reply \in {"ok", "nil", "oom"}
        /\ o.reply = "oom" /\ t.data[k] = v => o.store.data[k] = v /\ Knows(o.store, k, v)
        /\ o.reply # "oom" => \/ o.store.data[k] = w /\ Knows(o.store, k, v)
                              \/ o.store.data[k] = Missing /\ Knows(o.store, k, Missing)
    BY <1>1, <2>1, WritesKnow
  <2>3. CASE o.reply = "oom"
    BY <2>2, <2>3 DEF Handled
  <2>4. CASE o.reply # "oom" /\ o.store.data[k] = w /\ Knows(o.store, k, v)
    BY <1>3, <2>2, <2>4 DEF Handled, w
  <2>5. CASE o.reply # "oom" /\ o.store.data[k] = Missing /\ Knows(o.store, k, Missing)
    BY <2>2, <2>5 DEF Handled
  <2> QED
    BY <2>2, <2>3, <2>4, <2>5
<1> QED
  BY <1>2, <1>3

LEMMA SecondLookup ==
    ASSUME NEW k \in Keys, NEW t, LookedUp(t, k), NEW v, Knows(t, k, v),
           t.data[k] = Missing => v = Missing
    PROVE  LET u == Lookup(t, k)
           IN  /\ LookedUp(u, k) /\ Looked(t, u, k)
               /\ u.data[k] = t.data[k] /\ Knows(u, k, v)
<1> DEFINE u == Lookup(t, k)
<1>1. LookedUp(u, k) /\ Looked(t, u, k)
  BY LookupLooks, LookupIsLooked DEF LookedUp
<1>2. Follows(t, u)
  BY LookupFollows DEF LookedUp
<1> HIDE DEF u
<1>3. u.data[k] = t.data[k]
  BY <1>1 DEF LookedUp, Looked, Shrinks, KeptOrGone
<1>4. Knows(u, k, v)
  BY <1>2, <1>3 DEF Follows, KnowsStill
<1> QED
  BY <1>1, <1>3, <1>4 DEF u

LEMMA AddsOneHandle ==
    ASSUME NEW c, c.key \in Keys, NEW t, LookedUp(t, c.key), Honest(t), NEW o, AddsOne(t, c, o)
    PROVE  Handled(c, o)
<1> DEFINE k == c.key
           v == t.data[k]
           u == Lookup(t, k)
           Back(s) == RestoreKeySnapshot(s, k, SnapshotKey(t, k))
<1>1. Knows(t, k, v) /\ StoreInv(t)
  BY HonestKnows DEF LookedUp
<1>2. LookedUp(u, k) /\ Looked(t, u, k) /\ u.data[k] = v /\ Knows(u, k, v)
  BY <1>1, SecondLookup
<1>3. ASSUME NEW s, StoreInv(s), s.logging, Spares(t, s, {k}), s.data[k] = v, Knows(s, k, v)
      PROVE  Back(s).logging /\ Back(s).data[k] = v /\ Knows(Back(s), k, v)
  <2>1. t.clock <= s.clock /\ \A j \in Keys : Renewed(t, s, j)
    BY <1>3 DEF Spares
  <2> DEFINE r == RestoreKeySnapshot(s, k, SnapshotKey(t, k))
  <2>2. StoreInv(r) /\ SameRun(s, r) /\ r.data[k] = v /\ Knows(r, k, v)
    <3> DEFINE x == v
    <3> HIDE DEF x
    <3>1. x = t.data[k] /\ Knows(s, k, x) /\ s.data[k] = x
      BY <1>3 DEF x
    <3>2. StoreInv(r) /\ SameRun(s, r) /\ r.data[k] = x /\ Knows(r, k, x)
      BY <1>1, <1>3, <2>1, <3>1, RestoreKnows
    <3> QED
      BY <3>2 DEF x
  <2> HIDE DEF r
  <2> QED
    BY <1>3, <2>2 DEF SameRun, r
<1> HIDE DEF u, Back
<1>4. CASE Refuses(c, v)
  <2>1. o = Outcome(t, "error") \/ o = Outcome(Back(u), "error")
    BY <1>4 DEF AddsOne, Back, u
  <2>2. CASE o = Outcome(t, "error")
    <3>1. o.store = t /\ o.reply = "error"
      BY <2>2 DEF Outcome
    <3> QED
      BY <1>1, <3>1 DEF Handled, LookedUp
  <2>3. CASE o = Outcome(Back(u), "error")
    <3>1. o.store = Back(u) /\ o.reply = "error"
      BY <2>3 DEF Outcome
    <3>2. Back(u).logging /\ Back(u).data[k] = v /\ Knows(Back(u), k, v)
      BY <1>2, <1>3 DEF LookedUp, Looked, Leads
    <3> QED
      BY <3>1, <3>2 DEF Handled
  <2> QED
    BY <2>1, <2>2, <2>3
<1>5. CASE ~Refuses(c, v)
  <2> DEFINE w == Result(c, v)
  <2>1. w \in Objects /\ \E p \in Put(u, k, w, SnapshotKey(t, k)) :
           o = IF p.reply = "ok" THEN p ELSE Outcome(Back(p.store), p.reply)
    BY <1>5 DEF AddsOne, Back, u
  <2>2. PICK p \in Put(u, k, w, SnapshotKey(t, k)) :
           o = IF p.reply = "ok" THEN p ELSE Outcome(Back(p.store), p.reply)
    BY <2>1
  <2> HIDE DEF w
  <2>3. Leads(t, p.store, {k}) /\ p.reply \in {"ok", "oom"}
    BY <1>1, <1>2, <2>1, PutIs
  <2>4. /\ p.store.logging
        /\ p.reply = "ok" => \/ p.store.data[k] = w /\ Knows(p.store, k, v)
                             \/ p.store.data[k] = Missing /\ Knows(p.store, k, Missing)
        /\ p.reply = "oom" /\ t.data[k] = v => p.store.data[k] = v /\ Knows(p.store, k, v)
    <3>1. u.logging /\ ValuesFit(u) /\ (v = Missing \/ ~IsExpired(u, k))
      BY <1>2 DEF LookedUp, Tidy
    <3> DEFINE x == v
    <3> HIDE DEF x
    <3>2. Knows(u, k, x) /\ u.data[k] = x
      BY <1>2 DEF x
    <3>3. /\ p.store.logging
          /\ p.reply = "ok" => \/ p.store.data[k] = w /\ Knows(p.store, k, x)
                               \/ p.store.data[k] = Missing /\ Knows(p.store, k, Missing)
          /\ p.reply = "oom" /\ t.data[k] = x => p.store.data[k] = x /\ Knows(p.store, k, x)
      BY <1>1, <1>2, <2>1, <3>1, <3>2, PutKnows DEF x
    <3> QED
      BY <3>3 DEF x
  <2>5. CASE p.reply = "ok"
    <3>1. o = p
      BY <2>2, <2>5
    <3> QED
      BY <1>5, <2>4, <2>5, <3>1 DEF Handled, w
  <2>6. CASE p.reply = "oom"
    <3>1. o.store = Back(p.store) /\ o.reply = "oom"
      BY <2>2, <2>6 DEF Outcome
    <3>2. Back(p.store).logging /\ Back(p.store).data[k] = v /\ Knows(Back(p.store), k, v)
      BY <1>3, <2>3, <2>4, <2>6 DEF Leads
    <3> QED
      BY <3>1, <3>2 DEF Handled
  <2> QED
    BY <2>3, <2>5, <2>6
<1> QED
  BY <1>4, <1>5

\* one call of DataStore.zrem
LEMMA ZremOneKnows ==
    ASSUME NEW k \in Keys, NEW s, StoreInv(s), s.logging, Tidy(s), s.data[k].type \in {"none", "zset"},
           NEW v, Knows(s, k, v), s.data[k] = Missing => v = Missing,
           NEW x, NEW p \in ZremOne(s, k, x)
    PROVE  /\ p.store.logging
           /\ p.reply = "oom" /\ s.data[k] = v =>
                 \/ p.store.data[k] = v /\ Knows(p.store, k, v)
                 \/ p.store.data[k] = Missing /\ Knows(p.store, k, Missing)
           /\ p.reply # "oom" =>
                 \/ p.store.data[k] = ReducedOne(s.data[k], x) /\ Knows(p.store, k, v)
                 \/ p.store.data[k] = Missing /\ Knows(p.store, k, Missing)
<1> DEFINE t == Lookup(s, k)
           w == ReducedOne(t.data[k], x)
<1>1. LookedUp(t, k)
  BY LookupLooks
<1>2. Follows(s, t)
  BY LookupFollows
<1>3. Writes(t, k, t.data[k], w, p)
  BY ZremOneDoes
<1> HIDE DEF t
<1>4. \/ t.data[k] = s.data[k] /\ Knows(t, k, v)
      \/ t.data[k] = Missing /\ Knows(t, k, Missing)
  BY <1>2 DEF Follows, KnowsStill
<1>5. CASE t.data[k] = s.data[k] /\ Knows(t, k, v)
  <2>1. w = ReducedOne(s.data[k], x)
    BY <1>5
  <2> HIDE DEF w
  <2> QED
    BY <1>1, <1>3, <1>5, <2>1, WritesKnow
<1>6. CASE t.data[k] = Missing /\ Knows(t, k, Missing)
  <2>1. w = Missing
    BY <1>6, Zenon DEF ReducedOne, Members
  <2> HIDE DEF w
  <2> DEFINE none == Missing
  <2> HIDE DEF none
  <2>2. Knows(t, k, none) /\ t.data[k] = none
    BY <1>6 DEF none
  <2>3. /\ p.store.logging
        /\ p.reply = "oom" /\ t.data[k] = none => p.store.data[k] = none /\ Knows(p.store, k, none)
        /\ p.reply # "oom" => \/ p.store.data[k] = w /\ Knows(p.store, k, none)
                              \/ p.store.data[k] = Missing /\ Knows(p.store, k, Missing)
    BY <1>1, <1>3, <2>2, WritesKnow DEF none
  <2> QED
    BY <2>1, <2>2, <2>3 DEF none
<1> QED
  BY <1>4, <1>5, <1>6

LEMMA ZremHandle ==
    ASSUME NEW s, StoreInv(s), s.logging, Tidy(s), Honest(s), NEW c, c.op = "ZREM", c.key \in Keys,
           NEW o \in CmdZrem(s, c)
    PROVE  Handled(c, o)
<1> DEFINE k == c.key
           t == Lookup(s, k)
           v == t.data[k]
           w1 == ReducedOne(v, c.xs[1])
           w2 == ReducedOne(w1, c.xs[2])
           first == ZremOne(t, k, c.xs[1])
           outcomes == IF Len(c.xs) = 1 THEN first ELSE Then(first, LAMBDA u : ZremOne(u, k, c.xs[2]))
<1>1. LookedUp(t, k) /\ Honest(t)
  BY LookupLooks, LookupFollows DEF Follows
<1>2. StoreInv(t) /\ t.logging /\ Tidy(t)
  BY <1>1 DEF LookedUp
<1>3. Knows(t, k, v)
  BY <1>1, <1>2, HonestKnows
<1>4. o \in Unless("zset", t, k, outcomes)
  BY DEF CmdZrem
<1>5. TypeFor(c.op) = "zset" /\ Result(c, v) = ZReduced(c, v)
  BY TypeForIs, ResultIs
<1> HIDE DEF t
<1>6. CASE v.type \notin {"none", "zset"}
  <2>1. o.store = t /\ o.reply = "error"
    BY <1>4, <1>6 DEF Unless, Outcome
  <2> QED
    BY <1>2, <1>3, <2>1 DEF Handled
<1>7. CASE v.type \in {"none", "zset"}
  <2>1. ~Refuses(c, v)
    BY <1>5, <1>7 DEF Refuses
  <2>2. o \in outcomes
    BY <1>4, <1>7 DEF Unless
  <2>3. IsCollectionAt(t, k)
    BY <1>7 DEF IsCollectionAt, CollectionTypes
  <2> DEFINE x == v
  <2> HIDE DEF x
  <2>4. Knows(t, k, x) /\ t.data[k] = x
    BY <1>3 DEF x
  <2>5. ASSUME NEW p \in first
        PROVE  /\ p.store.logging
               /\ p.reply = "oom" => \/ p.store.data[k] = x /\ Knows(p.store, k, x)
                                     \/ p.store.data[k] = Missing /\ Knows(p.store, k, Missing)
               /\ p.reply # "oom" => \/ p.store.data[k] = w1 /\ Knows(p.store, k, x)
                                     \/ p.store.data[k] = Missing /\ Knows(p.store, k, Missing)
               /\ p.reply \in {"ok", "oom"}
               /\ StoreInv(p.store) /\ Tidy(p.store) /\ p.store.limit = t.limit
               /\ p.reply = "ok" /\ t.limit # 0 => \/ p.store = Lookup(t, k)
                                                   \/ p.store.data[k] = Missing
                                                   \/ p.store.used <= t.limit
    <3>1. /\ p.store.logging
          /\ p.reply = "oom" /\ t.data[k] = x =>
                \/ p.store.data[k] = x /\ Knows(p.store, k, x)
                \/ p.store.data[k] = Missing /\ Knows(p.store, k, Missing)
          /\ p.reply # "oom" =>
                \/ p.store.data[k] = ReducedOne(t.data[k], c.xs[1]) /\ Knows(p.store, k, x)
                \/ p.store.data[k] = Missing /\ Knows(p.store, k, Missing)
      BY <1>2, <1>7, <2>4, <2>5, ZremOneKnows
    <3>2. /\ Leads(t, p.store, {k})
          /\ p.reply \in {"ok", "oom"}
          /\ p.reply = "ok" /\ t.limit # 0 => \/ p.store = Lookup(t, k)
                                              \/ p.store.data[k] = Missing
                                              \/ p.store.used <= t.limit
      BY <1>2, <2>3, <2>5, ZremOneIs
    <3>3. StoreInv(p.store) /\ Tidy(p.store) /\ p.store.limit = t.limit
      BY <1>2, <3>2 DEF Leads, Spares
    <3> QED
      BY <2>4, <3>1, <3>2, <3>3
  <2>6. CASE Len(c.xs) = 1
    <3>1. Result(c, v) = w1
      BY <1>5, <2>6 DEF ZReduced
    <3>2. o \in first
      BY <2>2, <2>6
    <3> HIDE DEF first, w1
    <3> QED
      BY <2>1, <2>5, <3>1, <3>2 DEF Handled, x
  <2>7. CASE Len(c.xs) # 1
    <3>1. Result(c, v) = w2
      BY <1>5, <2>7 DEF ZReduced
    <3>2. PICK p \in first : \/ o = p /\ p.reply \in {"oom", "error"}
                             \/ o \in ZremOne(p.store, k, c.xs[2]) /\ p.reply \notin {"oom", "error"}
      <4> HIDE DEF first
      <4> QED
        BY <2>2, <2>7 DEF Then
    <3> HIDE DEF first
    <3>3. CASE o = p /\ p.reply \in {"oom", "error"}
      BY <2>5, <3>3 DEF Handled
    <3>4. CASE o \in ZremOne(p.store, k, c.xs[2]) /\ p.reply \notin {"oom", "error"}
      <4> DEFINE u == p.store
      <4>1. /\ StoreInv(u) /\ Tidy(u) /\ u.logging /\ u.limit = t.limit
            /\ \/ u.data[k] = w1 /\ Knows(u, k, x)
               \/ u.data[k] = Missing /\ Knows(u, k, Missing)
            /\ t.limit # 0 => \/ u = Lookup(t, k)
                              \/ u.data[k] = Missing
                              \/ u.used <= t.limit
        BY <2>5, <3>4
      <4>2. o \in ZremOne(u, k, c.xs[2])
        BY <3>4
      <4>3. w1.type \in {"none", "zset"} /\ Missing.type = "none"
        BY <1>7, Zenon DEF ReducedOne, Reduced, Missing, Collection
      <4>4. ReducedOne(Missing, c.xs[2]) = Missing
        BY Zenon DEF ReducedOne, Members
      <4> HIDE DEF u
      <4>5. CASE u.data[k] = Missing /\ Knows(u, k, Missing)
        <5> DEFINE none == Missing
        <5> HIDE DEF none
        <5>1. u.data[k] = none /\ Knows(u, k, none) /\ none = Missing
          BY <4>5 DEF none
        <5>2. /\ o.store.logging
              /\ o.reply = "oom" /\ u.data[k] = none =>
                    \/ o.store.data[k] = none /\ Knows(o.store, k, none)
                    \/ o.store.data[k] = Missing /\ Knows(o.store, k, Missing)
              /\ o.reply # "oom" =>
                    \/ o.store.data[k] = ReducedOne(u.data[k], c.xs[2]) /\ Knows(o.store, k, none)
                    \/ o.store.data[k] = Missing /\ Knows(o.store, k, Missing)
          BY <4>1, <4>2, <4>3, <4>5, <5>1, ZremOneKnows
        <5>3. o.store.logging /\ o.store.data[k] = Missing /\ Knows(o.store, k, Missing)
          BY <4>4, <4>5, <5>1, <5>2
        <5> QED
          BY <5>3 DEF Handled
      <4>6. CASE u.data[k] = w1 /\ Knows(u, k, x) /\ u.data[k] # Missing
        <5> DEFINE y == w1
        <5> HIDE DEF y
        <5>1. u.data[k] = y /\ y.type \in {"none", "zset"}
          BY <4>3, <4>6 DEF y
        <5>2. /\ o.store.logging
              /\ o.reply = "oom" /\ u.data[k] = x =>
                    \/ o.store.data[k] = x /\ Knows(o.store, k, x)
                    \/ o.store.data[k] = Missing /\ Knows(o.store, k, Missing)
              /\ o.reply # "oom" =>
                    \/ o.store.data[k] = ReducedOne(u.data[k], c.xs[2]) /\ Knows(o.store, k, x)
                    \/ o.store.data[k] = Missing /\ Knows(o.store, k, Missing)
          BY <4>1, <4>2, <4>6, <5>1, ZremOneKnows
        <5>3. ReducedOne(u.data[k], c.xs[2]) = w2
          BY <4>6
        <5>4. o.reply = "oom" => u.data[k] = x
          <6>1. IsCollectionAt(u, k)
            BY <5>1 DEF IsCollectionAt, CollectionTypes
          <6>2. u.used <= u.limit => o.reply = "ok"
            <7>1. StoreInv(u)
              BY <4>1
            <7>2. u.data[k] = Missing \/ u.used <= u.limit => o.reply = "ok"
              BY ONLY <7>1, <4>2, <6>1, c.key \in Keys, ZremOneIs
            <7> QED
              BY <7>2
          <6>3. t.limit = 0 => o.reply # "oom"
            <7>1. StoreInv(Lookup(u, k)) /\ Lookup(u, k).limit = u.limit
              BY <4>1, LookupIsLooked DEF Looked, Leads, Spares
            <7>2. \E w : Writes(Lookup(u, k), k, Lookup(u, k).data[k], w, o)
              BY <4>1, <4>2, <5>1, ZremOneDoes
            <7> DEFINE r == Lookup(u, k)
            <7> HIDE DEF r
            <7>3. StoreInv(r) /\ r.limit = u.limit /\ \E w : Writes(r, k, r.data[k], w, o)
              BY <7>1, <7>2 DEF r
            <7>4. PICK w : Writes(r, k, r.data[k], w, o)
              BY <7>3
            <7>5. CASE w \in Objects /\ o \in StoreSet(r, k, w)
              <8>1. StoreInv(r) /\ k \in Keys /\ w \in Objects /\ o \in StoreSet(r, k, w)
                BY <7>3, <7>5
              <8>2. r.limit = 0 => o.reply = "ok"
                BY ONLY <8>1, StoreSetIs
              <8> QED
                BY <4>1, <7>3, <8>2
            <7> QED
              BY <7>4, <7>5 DEF Writes, Outcome
          <6>4. u = Lookup(t, k) => u.data[k] = x
            <7>1. Lookup(t, k).data[k] \in {t.data[k], Missing}
              BY <1>2, LookupIsLooked DEF Looked, Shrinks, KeptOrGone
            <7>2. u.data[k] # Missing
              BY <4>6
            <7> QED
              BY <2>4, <7>1, <7>2
          <6> QED
            BY <4>1, <4>6, <6>2, <6>3, <6>4
        <5>5. CASE o.reply = "oom"
          BY <5>2, <5>4, <5>5 DEF Handled
        <5>6. CASE o.reply # "oom"
          <6>1. ~Refuses(c, x) /\ Result(c, x) = w2
            BY <2>1, <3>1 DEF x
          <6> HIDE DEF w2
          <6>2. \/ o.store.data[k] = w2 /\ Knows(o.store, k, x)
                \/ o.store.data[k] = Missing /\ Knows(o.store, k, Missing)
            BY <5>2, <5>3, <5>6
          <6>3. CASE o.store.data[k] = w2 /\ Knows(o.store, k, x)
            <7>1. IsCollectionAt(u, k) /\ StoreInv(u)
              BY <4>1, <5>1 DEF IsCollectionAt, CollectionTypes
            <7>2. o.reply \in {"ok", "oom"}
              BY ONLY <7>1, <4>2, c.key \in Keys, ZremOneIs
            <7> QED
              BY <5>2, <5>6, <6>1, <6>3, <7>2 DEF Handled
          <6>4. CASE o.store.data[k] = Missing /\ Knows(o.store, k, Missing)
            BY <5>2, <6>4 DEF Handled
          <6> QED
            BY <6>2, <6>3, <6>4
        <5> QED
          BY <5>5, <5>6
      <4>7. ASSUME u.data[k] = w1, Knows(u, k, x), u.data[k] = Missing
            PROVE  Handled(c, o)
        <5> DEFINE r == Lookup(u, k)
        <5>1. o.store = r /\ o.reply = "ok"
          <6>1. c.xs[2] \notin Members(u.data[k]) \/ u.data[k] = Missing
            BY <4>7
          <6>2. Members(Missing) = {}
            BY DEF Members
          <6>3. Lookup(u, k).data[k] = Missing
            BY <4>1, <4>7, LookupIsLooked DEF Looked, Shrinks, KeptOrGone
          <6>4. o = Outcome(r, "ok")
            BY <4>2, <6>2, <6>3 DEF ZremOne
          <6> QED
            BY <6>4 DEF Outcome
        <5>2. Follows(u, r) /\ r.logging
          BY <4>1, LookupFollows
        <5> HIDE DEF r
        <5>3. \/ r.data[k] = Missing /\ Knows(r, k, x)
              \/ r.data[k] = Missing /\ Knows(r, k, Missing)
          BY <4>7, <5>2 DEF Follows, KnowsStill
        <5> QED
          BY <5>1, <5>2, <5>3 DEF Handled
      <4> QED
        BY <4>1, <4>5, <4>6, <4>7
    <3> QED
      BY <3>2, <3>3, <3>4
  <2> QED
    BY <2>6, <2>7
<1> QED
  BY <1>6, <1>7

-----------------------------------------------------------------------------
(***************************************************************************)
(* A command that writes one key, and the record of it.                    *)
(***************************************************************************)
LEMMA KeyWriteHandled ==
    ASSUME NEW s, StoreInv(s), s.logging, Tidy(s), Honest(s), NEW c \in CmdRecords,
           c.op \in KeyWrites, c.op \in {"HSET", "ZADD"} => Len(c.xs) = 1,
           c.op = "HDEL" => BadFields = {}, NEW o \in Dispatch(s, c)
    PROVE  Handled(c, o)
<1> DEFINE t == Lookup(s, c.key)
<1>1. /\ c.key \in Keys
      /\ c.op \in {"INCRBY", "APPEND"} => c.by \in Int
      /\ c.op \in ElemOps => c.xs \in Seq(Elems) /\ IsArgs(c.xs)
      /\ c.op = "LSET" => c.x \in Elems
  BY RecordArgs, ArgListIsArgs DEF KeyWrites
<1>2. LookedUp(t, c.key) /\ Honest(t)
  BY <1>1, LookupLooks, LookupFollows DEF Follows
<1>3. ASSUME Does(t, c, o) PROVE Handled(c, o)
  BY <1>1, <1>2, <1>3, DoesHandle
<1>4. CASE c.op \in {"INCRBY", "APPEND"}
  <2>1. Does(t, c, o)
    BY <1>1, <1>4, DispatchIs, StringDoes
  <2> QED
    BY <1>3, <2>1
<1>5. CASE c.op \in {"LPUSH", "RPUSH", "LPOP", "RPOP", "LSET"}
  <2>1. Does(t, c, o)
    BY <1>1, <1>5, DispatchIs, ListDoes DEF ElemOps
  <2> QED
    BY <1>3, <2>1
<1>6. CASE c.op \in {"SADD", "SREM", "HDEL"}
  <2>1. Does(t, c, o)
    BY <1>1, <1>6, DispatchIs, SetDoes DEF ElemOps
  <2> QED
    BY <1>3, <2>1
<1>7. CASE c.op = "ZREM"
  BY <1>1, <1>7, DispatchIs, ZremHandle
<1>8. CASE c.op \in {"HSET", "ZADD"}
  <2>1. AddsOne(t, c, o)
    BY <1>1, <1>8, DispatchIs, AddEachDoes DEF ElemOps
  <2> QED
    BY <1>1, <1>2, <2>1, AddsOneHandle
<1> QED
  BY <1>4, <1>5, <1>6, <1>7, <1>8 DEF KeyWrites

LEMMA AppendIs ==
    ASSUME NEW s, StoreInv(s), NEW records
    PROVE  LET t == AppendRecords(s, records)
           IN  /\ SameRun(s, t) /\ t.data = s.data /\ t.expiry = s.expiry
               /\ t.log = LogPlus(s.log, records)
  BY DEF AppendRecords, StoreInv, WellTyped, Fields, SameRun, LogPlus

\* a record that takes what the log says to the store
LEMMA RecordSays ==
    ASSUME NEW s, StoreInv(s), NEW d, NEW L, NEW W, Says(s.now, s.log, d, L, W),
           NEW r \in CmdRecords, IsEntry(r), Allowed(r, d), DataAfter(r, d) = s.data,
           NEW X, \A p \in DatedAfter(r, W) : s.data[p[1]] # Missing => p \in X,
           NEW K, NonStale(s.log, s.now) => Leaves(r, d, L, s.data, K)
    PROVE  LET t == AppendRecords(s, <<r>>)
           IN  /\ Says(t.now, t.log, t.data, K, X)
               /\ Outlasts(s.log, t.log)
               /\ SameRun(s, t) /\ t.data = s.data /\ t.expiry = s.expiry
               /\ Dates(t) = Dates(s) /\ Sure(t) = Sure(s)
<1> DEFINE records == <<r>>
           t == AppendRecords(s, records)
           new == s.data
<1>1. /\ SameRun(s, t) /\ t.data = s.data /\ t.expiry = s.expiry
      /\ t.log = LogPlus(s.log, records)
  BY AppendIs
<1>2. s.log \in Seq(CmdRecords) /\ records \in Seq(CmdRecords)
  BY OneRecord DEF StoreInv, WellTyped
<1>3. Says(s.now, LogPlus(s.log, <<r>>), new, K, X)
  <2>1. /\ new = DataAfter(r, d) /\ \A p \in DatedAfter(r, W) : new[p[1]] # Missing => p \in X
        /\ NonStale(s.log, s.now) => Leaves(r, d, L, new, K)
    OBVIOUS
  <2> HIDE DEF new
  <2> QED
    BY <1>2, <2>1, SaysMore
<1>4. Outlasts(s.log, LogPlus(s.log, records))
  BY <1>2, DelsOutlast
<1> HIDE DEF t
<1>5. Says(t.now, t.log, t.data, K, X)
  BY <1>1, <1>3 DEF SameRun
<1>6. Outlasts(s.log, t.log)
  BY <1>1, <1>4
<1>7. Dates(t) = Dates(s) /\ Sure(t) = Sure(s)
  BY <1>1 DEF Dates, Sure, SameRun
<1> QED
  BY <1>1, <1>5, <1>6, <1>7 DEF t

LEMMA RecordHonest ==
    ASSUME NEW s, StoreInv(s), Noted(s), NEW d, NEW L, NEW W, Says(s.now, s.log, d, L, W),
           NEW r \in CmdRecords, IsEntry(r), Allowed(r, d), DataAfter(r, d) = s.data,
           \A p \in DatedAfter(r, W) : s.data[p[1]] # Missing => p \in Dates(s),
           NonStale(s.log, s.now) => Leaves(r, d, L, s.data, Sure(s))
    PROVE  Honest(AppendRecords(s, <<r>>))
<1> DEFINE t == AppendRecords(s, <<r>>)
           X == Dates(s)
           K == Sure(s)
<1>1. /\ Says(t.now, t.log, t.data, K, X)
      /\ Outlasts(s.log, t.log)
      /\ SameRun(s, t) /\ t.data = s.data /\ t.expiry = s.expiry
      /\ Dates(t) = Dates(s) /\ Sure(t) = Sure(s)
  <2>1. /\ \A p \in DatedAfter(r, W) : s.data[p[1]] # Missing => p \in X
        /\ NonStale(s.log, s.now) => Leaves(r, d, L, s.data, K)
    OBVIOUS
  <2> HIDE DEF X, K
  <2> QED
    BY <2>1, RecordSays
<1> HIDE DEF t
<1>2. DeadlinesGo(s, t)
  BY <1>1 DEF DeadlinesGo
<1>3. Noted(t)
  BY <1>1, <1>2, NotedStays
<1> QED
  BY <1>1, <1>3 DEF Honest, t

\* every deadline but that of k is in the log
NotedBut(s, k) ==
    "SET" \in Enabled /\ s.policy \in Exact /\ NonStale(s.log, s.now) =>
        \A j \in Keys \ {k} : s.expiry[j] # 0 => ~NonStale(s.log, s.expiry[j])

LEMMA NotedButStays ==
    ASSUME NEW s, NEW t, SameRun(s, t), Outlasts(s.log, t.log), NEW k,
           \A j \in Keys \ {k} : t.expiry[j] \in {0, s.expiry[j]}, NotedBut(s, k)
    PROVE  NotedBut(t, k)
  BY DEF NotedBut, Outlasts, SameRun

LEMMA DeadlineHonest ==
    ASSUME NEW s, StoreInv(s), NEW k \in Keys, NotedBut(s, k),
           NEW L, NEW W, Says(s.now, s.log, s.data, L, W),
           But(W, k) \subseteq Dates(s), But(Sure(s), k) \subseteq L,
           s.data[k] # Missing, s.expiry[k] # 0
    PROVE  Honest(AppendRecords(s, <<DeadlineRecord(s, k)>>))
<1> DEFINE r == DeadlineRecord(s, k)
           t == AppendRecords(s, <<r>>)
<1>1. r \in CmdRecords /\ r.op = "PEXPIREAT" /\ r.key = k /\ r.at = s.expiry[k] \div MsTicks
  BY DeadlineRecordType DEF DeadlineRecord
<1>2. s.expiry[k] \in Nat /\ s.log \in Seq(CmdRecords)
  BY DEF StoreInv, WellTyped
<1>3. /\ r.at * MsTicks = Cut(s.expiry[k])
      /\ Cut(s.expiry[k]) \in Nat /\ Cut(s.expiry[k]) <= s.expiry[k]
  BY <1>1, <1>2, CutIsBefore DEF Cut
<1> HIDE DEF r
<1>4. IsEntry(r)
  BY <1>1 DEF IsEntry
<1>5. Allowed(r, s.data) /\ DataAfter(r, s.data) = s.data
  BY <1>1, DataAfterIs DEF Allowed, KeyWrites
<1> DEFINE date == <<k, r.at * MsTicks>>
<1>6. /\ DatedAfter(r, W) = But(W, k) \cup {date}
      /\ DatedAfter(r, L) = But(L, k) \cup {date}
  BY <1>1, DatedAfterIs
<1>7. date \in Dates(s) /\ date[1] = k
  BY <1>3 DEF Dates
<1>8. \A p \in DatedAfter(r, W) : s.data[p[1]] # Missing => p \in Dates(s)
  BY <1>6, <1>7
<1>9. Leaves(r, s.data, L, s.data, Sure(s))
  <2>1. ASSUME NEW p \in Sure(s), p[1] # k
        PROVE  p \in L /\ p \in DatedAfter(r, L)
    <3>1. p \in But(Sure(s), k)
      BY <2>1 DEF But
    <3>2. p \in L
      BY <3>1
    <3> QED
      BY <1>6, <2>1, <3>2 DEF But
  <2>2. ASSUME NEW p \in Sure(s), p[1] = k
        PROVE  p \in DatedAfter(r, L) /\ s.data[p[1]] # Missing
    <3>1. p = date
      BY <1>3, <2>2 DEF Sure, Dates
    <3> QED
      BY <1>6, <2>2, <3>1
  <2> QED
    BY <2>1, <2>2 DEF Leaves
<1> HIDE DEF date
<1>10. /\ Says(t.now, t.log, t.data, Sure(s), Dates(s))
       /\ Outlasts(s.log, t.log)
       /\ SameRun(s, t) /\ t.data = s.data /\ t.expiry = s.expiry
       /\ Dates(t) = Dates(s) /\ Sure(t) = Sure(s)
  BY <1>1, <1>4, <1>5, <1>8, <1>9, RecordSays
<1>11. ~NonStale(t.log, t.expiry[k])
  <2> DEFINE records == <<r>>
             more == LogPlus(s.log, records)
  <2>1. records \in Seq(CmdRecords) /\ Len(records) = 1 /\ records[1] = r
    BY <1>1, OneRecord
  <2>2. t.log = more
    BY AppendIs
  <2> HIDE DEF records
  <2>3. /\ Len(s.log) \in Nat /\ Len(more) = Len(s.log) + Len(records)
        /\ \A i \in 1..Len(records) : more[Len(s.log) + i] = records[i]
    BY <1>2, <2>1, LogPlusIs
  <2> HIDE DEF more
  <2>4. Len(s.log) + 1 \in 1..Len(more) /\ more[Len(s.log) + 1] = r
    BY <2>1, <2>3
  <2>5. ~NonStale(more, s.expiry[k])
    BY <1>1, <1>2, <1>3, <2>4 DEF NonStale
  <2> QED
    BY <1>10, <2>2, <2>5
<1> HIDE DEF t
<1>12. Noted(t)
  <2>1. NotedBut(t, k)
    BY <1>10, NotedButStays
  <2> QED
    BY <1>11, <2>1 DEF Noted, NotedBut
<1> QED
  BY <1>10, <1>12 DEF Honest, t, r

LEMMA DelHonest ==
    ASSUME NEW s, StoreInv(s), NEW k \in Keys, NEW v, Knows(s, k, v), s.data[k] = Missing
    PROVE  Honest(AppendRecords(s, <<DelRecord(k)>>))
<1> DEFINE r == DelRecord(k)
           d == [s.data EXCEPT ![k] = v]
           W == Dates(s) \cup IfMissing(s, k)
           L == Sure(s)
<1>1. Noted(s) /\ Says(s.now, s.log, d, L, W)
  BY DEF Knows
<1>2. /\ r \in CmdRecords /\ IsEntry(r)
      /\ Allowed(r, d)
      /\ DataAfter(r, d) = [j \in Keys |-> IF j = k THEN Missing ELSE d[j]]
      /\ DatedAfter(r, W) = W /\ DatedAfter(r, L) = L
  BY DelRecordIs
<1>3. s.data \in [Keys -> Objects \cup {Missing}]
  BY DEF StoreInv, WellTyped
<1>4. DataAfter(r, d) = s.data
  BY <1>2, <1>3
<1>5. \A p \in W : s.data[p[1]] # Missing => p \in Dates(s)
  BY DEF IfMissing
<1>6. ASSUME NonStale(s.log, s.now) PROVE Leaves(r, d, L, s.data, L)
  <2>1. \A p \in L : p[1] # k /\ p[1] \in Keys
    BY <1>6 DEF Knows, NotLeft, Sure, Dates
  <2>2. \A j \in Keys \ {k} : d[j] = s.data[j]
    BY <1>3
  <2> HIDE DEF L, d, r
  <2>3. \A p \in L : p \in DatedAfter(r, L) /\ s.data[p[1]] = d[p[1]]
    BY <1>2, <2>1, <2>2
  <2> QED
    BY <2>3 DEF Leaves
<1> HIDE DEF r, d, W
<1>7. \A p \in DatedAfter(r, W) : s.data[p[1]] # Missing => p \in Dates(s)
  BY <1>2, <1>5
<1>8. Honest(AppendRecords(s, <<r>>))
  BY <1>1, <1>2, <1>4, <1>6, <1>7, RecordHonest
<1> QED
  BY <1>8 DEF r

LEMMA CommandHonest ==
    ASSUME NEW s, StoreInv(s), NEW c, IsEntry(c), c.op \in KeyWrites, c.key \in Keys,
           NEW v, Knows(s, c.key, v), s.data[c.key] # Missing,
           ~Refuses(c, v), s.data[c.key] = Result(c, v)
    PROVE  Honest(AppendRecords(s, <<c>>))
<1> DEFINE k == c.key
           d == [s.data EXCEPT ![k] = v]
           W == Dates(s)
           L == Sure(s)
<1>1. Noted(s) /\ Says(s.now, s.log, d, L, W)
  <2>1. Dates(s) \cup IfMissing(s, k) = Dates(s)
    BY DEF IfMissing
  <2> QED
    BY <2>1 DEF Knows
<1>2. s.data \in [Keys -> Objects \cup {Missing}]
  BY DEF StoreInv, WellTyped
<1>3. d[k] = v
  BY <1>2
<1>4. c \in CmdRecords /\ Allowed(c, d)
  BY <1>3 DEF IsEntry, Allowed
<1>5. DataAfter(c, d) = [d EXCEPT ![k] = Result(c, d[k])]
  BY DataAfterIs
<1> DEFINE w == Result(c, v)
<1>6. s.data[k] = w /\ DataAfter(c, d) = [d EXCEPT ![k] = w]
  BY <1>3, <1>5
<1> HIDE DEF w
<1>7. DataAfter(c, d) = s.data
  BY <1>2, <1>6
<1>8. DatedAfter(c, W) = W /\ DatedAfter(c, L) = L
  BY DatedAfterIs DEF KeyWrites
<1>9. \A p \in DatedAfter(c, W) : p \in Dates(s)
  BY <1>8
<1>10. Leaves(c, d, L, s.data, Sure(s))
  <2>1. \A j \in Keys \ {k} : d[j] = s.data[j]
    BY <1>2
  <2>2. \A p \in L : p[1] \in Keys
    BY DEF Sure, Dates
  <2>3. L = Sure(s)
    OBVIOUS
  <2> HIDE DEF d, L
  <2> QED
    BY <1>8, <2>1, <2>2, <2>3 DEF Leaves
<1> HIDE DEF d, W, L
<1> QED
  BY <1>1, <1>4, <1>7, <1>9, <1>10, RecordHonest

LEMMA RecordWriteHonest ==
    ASSUME NEW c, IsEntry(c), c.op \in KeyWrites, c.key \in Keys,
           NEW o, StoreInv(o.store), Handled(c, o), o.reply \notin {"error", "oom"}
    PROVE  Honest(RecordWrite(o.store, c))
<1> DEFINE k == c.key
           u == o.store
           t == Lookup(u, k)
<1>1. PICK v : /\ Knows(u, k, v)
               /\ u.data[k] = Missing \/ (~Refuses(c, v) /\ u.data[k] = Result(c, v))
  BY DEF Handled
<1>2. u.logging
  BY DEF Handled
<1> HIDE DEF u
<1>3. StoreInv(u)
  BY DEF u
<1>4. Follows(u, t) /\ StoreInv(t)
  BY <1>2, <1>3, LookupFollows
<1>5. RecordWrite(u, c) = AppendRecords(t, <<IF t.data[k] = Missing THEN DelRecord(k) ELSE c>>)
  BY DEF RecordWrite
<1> HIDE DEF t
<1>6. \/ t.data[k] = u.data[k] /\ Knows(t, k, v)
      \/ t.data[k] = Missing /\ Knows(t, k, Missing)
  BY <1>1, <1>4 DEF Follows, KnowsStill
<1>7. CASE t.data[k] = Missing
  <2>1. \E x : Knows(t, k, x)
    BY <1>6
  <2>2. Honest(AppendRecords(t, <<DelRecord(k)>>))
    BY <1>4, <1>7, <2>1, DelHonest
  <2> QED
    BY <1>5, <1>7, <2>2 DEF u
<1>8. CASE t.data[k] # Missing
  <2>1. Knows(t, k, v) /\ ~Refuses(c, v) /\ t.data[k] = Result(c, v)
    BY <1>1, <1>6, <1>8
  <2>2. Honest(AppendRecords(t, <<c>>))
    BY <1>4, <1>8, <2>1, CommandHonest
  <2> QED
    BY <1>5, <1>8, <2>2 DEF u
<1> QED
  BY <1>7, <1>8

LEMMA KeyWriteHonest ==
    ASSUME NEW s, StoreInv(s), s.logging, Tidy(s), Honest(s), NEW c, IsEntry(c),
           c.op \in KeyWrites, NEW o \in Dispatch(s, c)
    PROVE  Honest(RecordCommand(o.store, c, o.reply))
<1>1. /\ c \in CmdRecords /\ (c.op \in {"HSET", "ZADD"} => Len(c.xs) = 1)
      /\ c.op = "HDEL" => BadFields = {}
  BY DEF IsEntry
<1>2. c.key \in Keys /\ c.op # "FLUSHALL"
  BY <1>1, RecordArgs DEF KeyWrites
<1>3. Handled(c, o)
  BY <1>1, KeyWriteHandled
<1>4. StoreInv(o.store)
  <2>1. \E K : \A p \in Dispatch(s, c) : Leads(s, p.store, K)
    BY <1>1, <1>2, DispatchLeads
  <2> QED
    BY <2>1 DEF Leads
<1>5. CASE o.reply \in {"error", "oom"}
  <2>1. RecordCommand(o.store, c, o.reply) = o.store
    BY <1>5, FailureIsNotLogged
  <2>2. Knows(o.store, c.key, o.store.data[c.key])
    BY <1>3, <1>5 DEF Handled
  <2> QED
    BY <1>2, <1>4, <2>1, <2>2, HonestKnows
<1>6. CASE o.reply \notin {"error", "oom"}
  <2>1. o.store.logging
    BY <1>3 DEF Handled
  <2>2. RecordCommand(o.store, c, o.reply) = RecordWrite(o.store, c)
    BY <1>6, <2>1, Zenon DEF RecordCommand, KeyWrites
  <2>3. Honest(RecordWrite(o.store, c))
    BY <1>2, <1>3, <1>4, <1>6, RecordWriteHonest
  <2> QED
    BY <2>2, <2>3
<1> QED
  BY <1>5, <1>6

LEMMA SetOutlasts ==
    ASSUME NEW s, StoreInv(s), s.logging, NEW k \in Keys, NEW obj \in Objects,
           NEW p \in StoreSet(s, k, obj), p.reply = "ok"
    PROVE  Outlasts(s.log, p.store.log) /\ p.store.logging
<1> DEFINE t == Written(s, k, obj)
<1>1. Looked(s, s, k)
  BY LookedItself
<1>2. p \in Put(s, k, obj, SnapshotKey(s, k))
  BY DEF StoreSet
<1>3. \E o \in EnforceMaxmemory(t, {k}) :
         p = IF o.reply = "oom" THEN Outcome(RestoreKeySnapshot(o.store, k, SnapshotKey(s, k)), "oom")
             ELSE o
  BY <1>1, <1>2, PutComes
<1>4. PICK o \in EnforceMaxmemory(t, {k}) :
         p = IF o.reply = "oom" THEN Outcome(RestoreKeySnapshot(o.store, k, SnapshotKey(s, k)), "oom")
             ELSE o
  BY <1>3
<1>5. p = o
  BY <1>4 DEF Outcome
<1>6. /\ StoreInv(t)
      /\ \A j \in Keys \ {k} : t.sizes[j] = s.sizes[j]
      /\ t.data = [s.data EXCEPT ![k] = obj] /\ t.data[k] = obj
      /\ t.expiry = s.expiry /\ t.log = s.log
      /\ SameRun(s, t)
  BY WrittenTells
<1> HIDE DEF t
<1>7. Follows(t, o.store)
  BY <1>6, EnforceFollows DEF SameRun
<1> QED
  BY <1>5, <1>6, <1>7 DEF Follows, SameRun

LEMMA TwoRecords ==
    ASSUME NEW s, StoreInv(s), NEW a \in CmdRecords, NEW b \in CmdRecords
    PROVE  AppendRecords(s, <<a, b>>) = AppendRecords(AppendRecords(s, <<a>>), <<b>>)
<1>1. s.log \in Seq(CmdRecords) /\ DOMAIN s = Fields
  BY DEF StoreInv, WellTyped
<1>2. s.log \o <<a, b>> = (s.log \o <<a>>) \o <<b>>
  <2> DEFINE log == s.log
  <2>1. log \in Seq(CmdRecords) /\ <<a>> \in Seq(CmdRecords) /\ <<b>> \in Seq(CmdRecords)
    BY <1>1
  <2>2. <<a, b>> = <<a>> \o <<b>>
    <3> DEFINE both == <<a, b>>
               one == <<a>> \o <<b>>
    <3>1. both \in Seq(CmdRecords) /\ Len(both) = 2 /\ both[1] = a /\ both[2] = b
      OBVIOUS
    <3>2. one \in Seq(CmdRecords) /\ Len(one) = 2 /\ one[1] = a /\ one[2] = b
      BY <2>1
    <3> HIDE DEF both, one
    <3>3. \A i \in 1..2 : both[i] = one[i]
      <4>1. \A i \in 1..2 : i = 1 \/ i = 2
        OBVIOUS
      <4> QED
        BY <3>1, <3>2, <4>1
    <3>4. both = one
      BY <3>1, <3>2, <3>3, SeqEqual
    <3> QED
      BY <3>4 DEF both, one
  <2> HIDE DEF log
  <2>3. log \o (<<a>> \o <<b>>) = (log \o <<a>>) \o <<b>>
    BY <2>1, ConcatAssociative
  <2> QED
    BY <2>2, <2>3 DEF log
<1> DEFINE l1 == s.log \o <<a>>
           l2 == l1 \o <<b>>
<1>3. AppendRecords(s, <<a, b>>) = [s EXCEPT !.log = l2]
  BY <1>2 DEF AppendRecords
<1>4. AppendRecords(s, <<a>>) = [s EXCEPT !.log = l1] /\ [s EXCEPT !.log = l1].log = l1
  BY <1>1 DEF AppendRecords, Fields
<1>5. AppendRecords(AppendRecords(s, <<a>>), <<b>>) = [[s EXCEPT !.log = l1] EXCEPT !.log = l2]
  BY <1>4, Zenon DEF AppendRecords
<1> HIDE DEF l1, l2
<1>6. [[s EXCEPT !.log = l1] EXCEPT !.log = l2] = [s EXCEPT !.log = l2]
  BY <1>1
<1> QED
  BY <1>3, <1>5, <1>6

\* what SET leaves at its key
Dated(s, k, e) == IF e = 0 THEN RemoveExpiry(s, k) ELSE SetExpiryAt(RemoveExpiry(s, k), k, e)

LEMMA DatedTells ==
    ASSUME NEW s, StoreInv(s), NEW k \in Keys, NEW e \in Nat
    PROVE  LET t == Dated(s, k, e)
           IN  /\ StoreInv(t) /\ SameRun(s, t)
               /\ t.data = s.data /\ t.log = s.log
               /\ t.expiry = [s.expiry EXCEPT ![k] = e]
<1> DEFINE u == SetExpiryAt(s, k, 0)
           r == SetExpiryAt(u, k, e)
<1>1. /\ StoreInv(u)
      /\ u.data = s.data
      /\ u.expiry = [s.expiry EXCEPT ![k] = 0]
      /\ SameRun(s, u)
      /\ u.log = s.log
  BY SetExpiryAtTells
<1>2. Dated(s, k, e) = IF e = 0 THEN u ELSE r
  BY RemoveExpiryIs, Zenon DEF Dated
<1> HIDE DEF u
<1>3. /\ StoreInv(r)
      /\ r.data = u.data
      /\ r.expiry = [u.expiry EXCEPT ![k] = e]
      /\ SameRun(u, r)
      /\ r.log = u.log
  BY <1>1, SetExpiryAtTells
<1> HIDE DEF r
<1>4. s.expiry \in [Keys -> Nat]
  BY DEF StoreInv, WellTyped
<1> QED
  BY <1>1, <1>2, <1>3, <1>4 DEF SameRun

LEMMA SetIs ==
    ASSUME NEW s, s.now \in Nat, NEW c, c.ttl \in Nat, NEW o \in CmdSet(s, c)
    PROVE  LET e == IF c.ttl = 0 THEN 0 ELSE s.now + c.ttl
           IN  \E p \in StoreSet(s, c.key, c.val) :
                  \/ o = p /\ p.reply \in {"oom", "error"}
                  \/ p.reply \notin {"oom", "error"} /\ o = Outcome(Dated(p.store, c.key, e), "ok")
<1> DEFINE e == IF c.ttl = 0 THEN 0 ELSE s.now + c.ttl
           Step(t) == {Outcome(IF c.ttl = 0 THEN RemoveExpiry(t, c.key)
                               ELSE SetExpiryAt(RemoveExpiry(t, c.key), c.key, s.now + c.ttl), "ok")}
<1>1. PICK p \in StoreSet(s, c.key, c.val) :
         \/ o = p /\ p.reply \in {"oom", "error"}
         \/ p.reply \notin {"oom", "error"} /\ o \in Step(p.store)
  BY DEF CmdSet, Then
<1>2. \A t : Step(t) = {Outcome(Dated(t, c.key, e), "ok")}
  <2>1. (e = 0) <=> (c.ttl = 0)
    OBVIOUS
  <2>2. c.ttl # 0 => e = s.now + c.ttl
    OBVIOUS
  <2> HIDE DEF e
  <2> QED
    BY <2>1, <2>2, Zenon DEF Dated
<1> HIDE DEF Step, e
<1>3. \E q \in StoreSet(s, c.key, c.val) :
         \/ o = q /\ q.reply \in {"oom", "error"}
         \/ q.reply \notin {"oom", "error"} /\ o = Outcome(Dated(q.store, c.key, e), "ok")
  BY <1>1, <1>2
<1> QED
  BY <1>3 DEF e

LEMMA SetHonest ==
    ASSUME NEW s, StoreInv(s), s.logging, Tidy(s), Honest(s), "SET" \in Enabled,
           NEW c, c.op = "SET", c.key \in Keys, c.val \in Strings, c.ttl \in Nat,
           NEW o \in CmdSet(s, c)
    PROVE  Honest(RecordCommand(o.store, c, o.reply))
<1> DEFINE k == c.key
           e == IF c.ttl = 0 THEN 0 ELSE s.now + c.ttl
           x == s.data[k]
<1>1. /\ c.val \in Objects /\ s.now \in Nat /\ e \in Nat /\ (e # 0 => e > s.now)
      /\ s.expiry \in [Keys -> Nat] /\ s.log \in Seq(CmdRecords)
  BY DEF Objects, StoreInv, WellTyped
<1>2. PICK p \in StoreSet(s, k, c.val) :
         \/ o = p /\ p.reply \in {"oom", "error"}
         \/ p.reply \notin {"oom", "error"} /\ o = Outcome(Dated(p.store, k, e), "ok")
  BY <1>1, SetIs
<1> HIDE DEF e
<1>3. /\ StoreInv(p.store) /\ p.reply \in {"ok", "oom"}
      /\ p.store.now = s.now /\ p.store.policy = s.policy
      /\ p.reply = "ok" /\ s.policy \in Exact /\ ~IsExpired(s, k) => p.store.data[k] # Missing
  <2>1. Leads(s, p.store, {k}) /\ p.reply \in {"ok", "oom"} /\ Stored(s, p, k)
    BY <1>1, <1>2, StoreSetIs
  <2> QED
    BY <2>1 DEF Leads, Spares, Stored, Exact
<1>4. Knows(s, k, x) /\ Looked(s, s, k)
  BY HonestKnows, LookedItself
\* under these policies a key of a log without stale deadlines is not due
<1>5. s.policy \in Exact /\ NonStale(s.log, s.now) => ~IsExpired(s, k)
  <2>1. ASSUME NonStale(s.log, s.now), NEW at \in Nat, s.now >= at PROVE NonStale(s.log, at)
    <3>1. \A i \in 1..Len(s.log) : s.log[i].op = "PEXPIREAT" => s.log[i].at \in Nat
      <4>1. \A i \in 1..Len(s.log) : s.log[i] \in CmdRecords
        BY <1>1
      <4> QED
        BY <4>1, RecordArgs
    <3>2. \A i \in 1..Len(s.log) : s.log[i].op = "PEXPIREAT" => s.log[i].at * MsTicks \in Nat
      BY <3>1, MsTicksAssumption
    <3> QED
      BY <1>1, <2>1, <3>2 DEF NonStale
  <2>2. ASSUME s.policy \in Exact, NonStale(s.log, s.now), IsExpired(s, k) PROVE FALSE
    <3>1. s.expiry[k] # 0 /\ s.now >= s.expiry[k] /\ s.expiry[k] \in Nat
      BY <1>1, <2>2 DEF IsExpired
    <3>2. NonStale(s.log, s.expiry[k])
      BY <2>1, <2>2, <3>1
    <3> QED
      BY <2>2, <3>1, <3>2 DEF Honest, Noted
  <2> QED
    BY <2>2
<1>6. /\ p.store.logging
      /\ p.reply = "ok" => \/ p.store.data[k] = c.val /\ Knows(p.store, k, x)
                           \/ p.store.data[k] = Missing /\ Knows(p.store, k, Missing)
      /\ p.reply = "oom" => p.store.data[k] = x /\ Knows(p.store, k, x)
  <2>1. p \in Put(s, k, c.val, SnapshotKey(s, k))
    BY <1>2 DEF StoreSet
  <2> DEFINE y == x
  <2> HIDE DEF y
  <2>2. /\ Knows(s, k, y) /\ (s.data[k] = Missing => y = Missing) /\ s.data[k] = y
        /\ y = Missing \/ ~NonStale(s.log, s.now) \/ ~IsExpired(s, k) \/ s.policy # "noeviction"
    BY <1>4, <1>5 DEF y, Exact
  <2>3. ValuesFit(s)
    BY DEF Tidy
  <2>4. /\ p.store.logging
        /\ p.reply = "ok" => \/ p.store.data[k] = c.val /\ Knows(p.store, k, y)
                             \/ p.store.data[k] = Missing /\ Knows(p.store, k, Missing)
        /\ p.reply = "oom" /\ s.data[k] = y => p.store.data[k] = y /\ Knows(p.store, k, y)
    BY <1>1, <1>4, <2>1, <2>2, <2>3, PutKnows
  <2> QED
    BY <2>2, <2>4 DEF y
<1>7. CASE p.reply = "oom"
  <2>1. o = p
    BY <1>2, <1>7
  <2>2. RecordCommand(o.store, c, o.reply) = o.store
    BY <1>7, <2>1, FailureIsNotLogged
  <2>3. Knows(p.store, k, p.store.data[k])
    BY <1>6, <1>7
  <2> QED
    BY <1>3, <2>1, <2>2, <2>3, HonestKnows
<1>8. CASE p.reply = "ok"
  <2> DEFINE u == p.store
             r == Dated(u, k, e)
             t == Lookup(r, k)
  <2>1. o.store = r /\ o.reply = "ok"
    BY <1>2, <1>8 DEF Outcome
  <2>2. Outlasts(s.log, u.log)
    BY <1>1, <1>2, <1>8, SetOutlasts
  <2>3. \E y : /\ Knows(u, k, y)
               /\ u.data[k] \in {c.val, Missing}
    BY <1>6, <1>8
  <2>4. PICK y : Knows(u, k, y) /\ u.data[k] \in {c.val, Missing}
    BY <2>3
  <2>5. StoreInv(u) /\ u.logging /\ u.now = s.now /\ u.policy = s.policy
    BY <1>3, <1>6
  <2>6. s.policy \in Exact /\ NonStale(u.log, u.now) => u.data[k] # Missing
    BY <1>3, <1>5, <1>8, <2>2, <2>5 DEF Outlasts
  <2> HIDE DEF u
  <2>7. /\ StoreInv(r) /\ SameRun(u, r)
        /\ r.data = u.data /\ r.log = u.log
        /\ r.expiry = [u.expiry EXCEPT ![k] = e]
    BY <1>1, <2>5, DatedTells
  <2> HIDE DEF r
  <2>8. r.logging /\ ~IsExpired(r, k)
    <3>1. r.expiry[k] = e
      BY <2>5, <2>7 DEF StoreInv, WellTyped
    <3> QED
      BY <1>1, <2>5, <2>7, <3>1 DEF IsExpired, SameRun
  <2>9. /\ StoreInv(t) /\ SameRun(r, t)
        /\ t.data = r.data /\ t.expiry = r.expiry /\ t.log = r.log
    BY <2>7, <2>8, LookupIdle
  <2>10. RecordCommand(o.store, c, o.reply) = RecordSet(r, c)
    BY <2>1, <2>8, Zenon DEF RecordCommand
  <2>11. RecordSet(r, c) = AppendRecords(t,
            IF t.data[k] = Missing THEN <<DelRecord(k)>>
            ELSE IF t.expiry[k] = 0 THEN <<SetRecord(k, c.val)>>
            ELSE <<SetRecord(k, c.val), DeadlineRecord(t, k)>>)
    BY DEF RecordSet
  <2> HIDE DEF t
  <2>12. /\ t.now = u.now /\ t.policy = u.policy /\ t.log = u.log /\ t.data = u.data
         /\ t.expiry = [u.expiry EXCEPT ![k] = e] /\ SameRun(u, t)
    BY <2>7, <2>9 DEF SameRun
  <2>13. u.expiry \in [Keys -> Nat] /\ u.data \in [Keys -> Objects \cup {Missing}]
    BY <2>5 DEF StoreInv, WellTyped
  <2>14. NotedBut(t, k)
    <3>1. NotedBut(u, k)
      BY <2>4 DEF Knows, Noted, NotedBut
    <3>2. Outlasts(u.log, t.log)
      BY <2>12 DEF Outlasts
    <3>3. \A j \in Keys \ {k} : t.expiry[j] \in {0, u.expiry[j]}
      BY <2>12, <2>13
    <3> QED
      BY <2>12, <3>1, <3>2, <3>3, NotedButStays
  <2> DEFINE d == [t.data EXCEPT ![k] = y]
             W == Dates(u) \cup IfMissing(u, k)
             L == Sure(u)
  <2>15. Says(t.now, t.log, d, L, W)
    BY <2>4, <2>12 DEF Knows
  <2>16. But(W, k) \subseteq Dates(t) /\ But(Sure(t), k) \subseteq L
    <3>1. \A j \in Keys \ {k} : t.expiry[j] = u.expiry[j]
      BY <2>12, <2>13
    <3>2. \A q \in W : q[1] # k => q \in Dates(t)
      BY <3>1 DEF Dates, IfMissing
    <3>3. \A q \in Sure(t) : q[1] # k => q \in L
      BY <2>12, <3>1 DEF Sure, Dates
    <3> QED
      BY <3>2, <3>3 DEF But
  <2>17. CASE t.data[k] = Missing
    <3>1. ~(s.policy \in Exact /\ NonStale(t.log, t.now)) /\ t.policy = s.policy
      BY <2>5, <2>6, <2>12, <2>17
    <3>2. Noted(t) /\ NotLeft(t, k)
      BY <3>1 DEF Noted, NotLeft
    <3>3. W \subseteq Dates(t) \cup IfMissing(t, k)
      <4>1. \A q \in W : q \in Keys \X Nat
        BY DEF Dates, IfMissing
      <4>2. \A q \in W : q[1] # k => q \in Dates(t)
        BY <2>16 DEF But
      <4> HIDE DEF W
      <4> QED
        BY <2>17, <4>1, <4>2 DEF IfMissing
    <3>4. FreshTo(t.log, Len(t.log), t.now) => Sure(t) \subseteq L
      BY <3>1 DEF Sure, FreshTo, NonStale
    <3> DEFINE K == Sure(t)
               X == Dates(t) \cup IfMissing(t, k)
    <3> HIDE DEF W, L, d
    <3>5. Says(t.now, t.log, d, K, X)
      <4> HIDE DEF K, X
      <4>1. (FreshTo(t.log, Len(t.log), t.now) => K \subseteq L) /\ W \subseteq X
        BY <3>3, <3>4 DEF K, X
      <4> QED
        BY <2>15, <4>1, SaysMonotone DEF Says
    <3>6. Knows(t, k, y)
      BY <3>2, <3>5 DEF Knows, d
    <3>7. Honest(AppendRecords(t, <<DelRecord(k)>>))
      BY <2>9, <2>17, <3>6, DelHonest
    <3> QED
      BY <2>10, <2>11, <2>17, <3>7
  <2>18. CASE t.data[k] # Missing
    <3> DEFINE a == SetRecord(k, c.val)
               K == But(Sure(t), k)
               X == But(W, k)
    <3>1. a \in CmdRecords
      BY SetRecordType
    <3>2. a.op = "SET" /\ a.key = k /\ a.val = c.val /\ a.ttl = 0
      BY DEF SetRecord
    <3> HIDE DEF a
    <3>3. IsEntry(a) /\ Allowed(a, d)
      BY <3>1, <3>2 DEF IsEntry, Allowed, KeyWrites
    <3>4. DataAfter(a, d) = t.data
      <4>1. DataAfter(a, d) = [d EXCEPT ![k] = c.val]
        BY <3>2, DataAfterIs
      <4>2. t.data[k] = c.val
        BY <2>4, <2>12, <2>18
      <4> QED
        BY <2>12, <2>13, <4>1, <4>2
    <3>5. DatedAfter(a, W) = X /\ DatedAfter(a, L) = But(L, k)
      BY <3>2, DatedAfterIs
    <3>6. Leaves(a, d, L, t.data, K)
      <4>1. \A j \in Keys \ {k} : d[j] = t.data[j]
        BY <2>12, <2>13
      <4>2. \A q \in K : q \in L /\ q[1] # k /\ q[1] \in Keys
        BY <2>16 DEF But, Sure, Dates
      <4> HIDE DEF d, L, K
      <4> QED
        BY <3>5, <4>1, <4>2 DEF Leaves, But
    <3>7. \A q \in DatedAfter(a, W) : t.data[q[1]] # Missing => q \in X
      BY <3>5
    <3>8. X \subseteq Dates(t)
      BY <2>16
    <3> HIDE DEF d, W, L, X, K
    <3>9. CASE t.expiry[k] = 0
      <4>1. Noted(t)
        BY <2>14, <3>9 DEF Noted, NotedBut
      <4>2. \A q \in DatedAfter(a, W) : t.data[q[1]] # Missing => q \in Dates(t)
        BY <3>7, <3>8
      <4>3. K = Sure(t)
        BY <3>9 DEF K, But, Sure, Dates
      <4>4. Leaves(a, d, L, t.data, Sure(t))
        BY <3>6, <4>3
      <4>5. Honest(AppendRecords(t, <<a>>))
        BY <2>9, <2>15, <3>1, <3>3, <3>4, <4>1, <4>2, <4>4, RecordHonest
      <4> QED
        BY <2>10, <2>11, <2>18, <3>9, <4>5 DEF a
    <3>10. CASE t.expiry[k] # 0
      <4> DEFINE t1 == AppendRecords(t, <<a>>)
      <4>1. /\ Says(t1.now, t1.log, t1.data, K, X)
            /\ Outlasts(t.log, t1.log)
            /\ SameRun(t, t1) /\ t1.data = t.data /\ t1.expiry = t.expiry
            /\ Dates(t1) = Dates(t) /\ Sure(t1) = Sure(t)
        BY <2>9, <2>15, <3>1, <3>3, <3>4, <3>6, <3>7, RecordSays
      <4>2. StoreInv(t1)
        <5>1. <<a>> \in Seq(CmdRecords)
          BY <3>1
        <5> QED
          BY <2>9, <5>1, AppendRecordsLeads DEF Leads
      <4>3. AppendRecords(t, <<a, DeadlineRecord(t, k)>>) = AppendRecords(t1, <<DeadlineRecord(t, k)>>)
        BY <2>9, <3>1, DeadlineRecordType, TwoRecords
      <4> HIDE DEF t1
      <4>4. NotedBut(t1, k)
        BY <2>14, <4>1, NotedButStays
      <4>5. But(X, k) \subseteq Dates(t1) /\ But(Sure(t1), k) \subseteq K
        BY <3>8, <4>1 DEF But, K
      <4>6. Honest(AppendRecords(t1, <<DeadlineRecord(t1, k)>>))
        BY <2>18, <3>10, <4>1, <4>2, <4>4, <4>5, DeadlineHonest
      <4>7. DeadlineRecord(t1, k) = DeadlineRecord(t, k)
        BY <4>1 DEF DeadlineRecord
      <4> QED
        BY <2>10, <2>11, <2>18, <3>10, <4>3, <4>6, <4>7 DEF a
    <3> QED
      BY <3>9, <3>10
  <2> QED
    BY <2>17, <2>18
<1> QED
  BY <1>3, <1>7, <1>8

\* nothing to record
LEMMA NoRecord ==
    ASSUME NEW s, StoreInv(s)
    PROVE  Follows(s, AppendRecords(s, <<>>))
<1> DEFINE none == <<>>
           t == AppendRecords(s, none)
<1>1. SameRun(s, t) /\ t.data = s.data /\ t.expiry = s.expiry /\ t.log = LogPlus(s.log, none)
  BY AppendIs
<1>2. LogPlus(s.log, none) = s.log
  BY ConcatEmptySeq DEF LogPlus, StoreInv, WellTyped
<1> HIDE DEF t
<1>3. Follows(s, t)
  BY <1>1, <1>2, QuietFollows
<1> QED
  BY <1>3 DEF t

\* EXPIRE and PEXPIREAT with a deadline to come
LEMMA NewDeadlineHonest ==
    ASSUME NEW s, StoreInv(s), s.logging, Honest(s), NEW c, c.key \in Keys, s.data[c.key] # Missing,
           NEW at \in Nat, at > s.now
    PROVE  Honest(RecordDeadline(SetExpiryAt(s, c.key, at), c))
<1> DEFINE k == c.key
           r == SetExpiryAt(s, k, at)
           t == Lookup(r, k)
<1>1. /\ StoreInv(r)
      /\ r.data = s.data
      /\ r.expiry = [s.expiry EXCEPT ![k] = at]
      /\ SameRun(s, r)
      /\ r.log = s.log
  BY SetExpiryAtTells
<1>2. RecordDeadline(r, c) = AppendRecords(t, IF t.data[k] = Missing \/ t.expiry[k] = 0 THEN <<>>
                                               ELSE <<DeadlineRecord(t, k)>>)
  BY DEF RecordDeadline
<1> HIDE DEF r
<1>3. s.expiry \in [Keys -> Nat] /\ s.now \in Nat
  BY DEF StoreInv, WellTyped
<1>4. r.logging /\ ~IsExpired(r, k)
  BY <1>1, <1>3 DEF IsExpired, SameRun
<1>5. /\ StoreInv(t) /\ SameRun(r, t)
      /\ t.data = r.data /\ t.expiry = r.expiry /\ t.log = r.log
  BY <1>1, <1>4, LookupIdle
<1> HIDE DEF t
<1>6. t.expiry[k] = at /\ at # 0 /\ t.data[k] # Missing
  BY <1>1, <1>3, <1>5
<1>7. SameRun(s, t) /\ t.log = s.log /\ t.data = s.data /\ t.now = s.now
  BY <1>1, <1>5 DEF SameRun
<1>8. \A j \in Keys \ {k} : t.expiry[j] \in {0, s.expiry[j]}
  BY <1>1, <1>3, <1>5
<1>9. NotedBut(t, k)
  <2>1. NotedBut(s, k)
    BY DEF Honest, Noted, NotedBut
  <2>2. Outlasts(s.log, t.log)
    BY <1>7 DEF Outlasts
  <2> QED
    BY <1>7, <1>8, <2>1, <2>2, NotedButStays
<1>10. /\ Says(t.now, t.log, t.data, Sure(s), Dates(s))
       /\ But(Dates(s), k) \subseteq Dates(t) /\ But(Sure(t), k) \subseteq Sure(s)
  <2>1. Says(t.now, t.log, t.data, Sure(s), Dates(s))
    BY <1>7 DEF Honest
  <2>2. t.policy = s.policy /\ \A j \in Keys \ {k} : t.expiry[j] = s.expiry[j]
    BY <1>1, <1>3, <1>5, <1>7 DEF SameRun
  <2>3. But(Dates(s), k) \subseteq Dates(t) /\ But(Dates(t), k) \subseteq Dates(s)
    BY <2>2 DEF Dates, But
  <2> QED
    BY <2>1, <2>2, <2>3 DEF Sure, But
<1>11. Honest(AppendRecords(t, <<DeadlineRecord(t, k)>>))
  BY <1>5, <1>6, <1>9, <1>10, DeadlineHonest
<1> QED
  BY <1>2, <1>6, <1>11 DEF r

\* ... and when there is no deadline to record
LEMMA NoDeadlineHonest ==
    ASSUME NEW s, StoreInv(s), s.logging, Honest(s), NEW c, c.key \in Keys, s.data[c.key] = Missing
    PROVE  Honest(RecordDeadline(s, c))
<1> DEFINE k == c.key
           t == Lookup(s, k)
<1>1. Follows(s, t) /\ StoreInv(t)
  BY LookupFollows
<1>2. t.data[k] = Missing
  BY LookupIsLooked DEF Looked, Shrinks, KeptOrGone
<1>3. RecordDeadline(s, c) = AppendRecords(t, <<>>)
  BY <1>2 DEF RecordDeadline
<1> HIDE DEF t
<1> QED
  BY <1>1, <1>3, NoRecord DEF Follows

LEMMA ExpireHonest ==
    ASSUME NEW s, StoreInv(s), s.logging, Honest(s), NEW c, c.op \in {"EXPIRE", "PEXPIREAT"},
           c.key \in Keys, c.op = "EXPIRE" => c.ttl \in Nat \ {0}, c.op = "PEXPIREAT" => c.at \in Nat,
           NEW o \in IF c.op = "EXPIRE" THEN CmdExpire(s, c) ELSE CmdPexpireat(s, c)
    PROVE  Honest(RecordCommand(o.store, c, o.reply))
<1> DEFINE k == c.key
           t == Lookup(s, k)
           at == IF c.op = "EXPIRE" THEN t.now + c.ttl ELSE c.at * MsTicks
           set == SetExpiryAt(t, k, at)
           gone == Delete(t, k, "expiry")
<1>1. Follows(s, t) /\ StoreInv(t) /\ t.logging
  BY LookupFollows
<1>2. Honest(t)
  BY <1>1 DEF Follows
<1>3. t.now \in Nat /\ at \in Nat /\ (c.op = "EXPIRE" => at > t.now)
  <2>1. t.now \in Nat
    BY <1>1 DEF StoreInv, WellTyped
  <2>2. c.op = "PEXPIREAT" => c.at * MsTicks \in Nat
    BY MsTicksAssumption
  <2> HIDE DEF t
  <2> QED
    BY <2>1, <2>2
<1>4. \/ t.data[k] = Missing /\ o = Outcome(t, "nil")
      \/ t.data[k] # Missing /\ at > t.now /\ o = Outcome(set, "ok")
      \/ t.data[k] # Missing /\ at <= t.now /\ o = Outcome(gone, "ok")
  <2>1. CASE c.op = "EXPIRE"
    <3>1. ~IsExpired(set, k)
      <4>1. set.expiry = [t.expiry EXCEPT ![k] = at] /\ SameRun(t, set)
        BY <1>1, <1>3, SetExpiryAtTells
      <4>2. t.expiry \in [Keys -> Nat]
        BY <1>1 DEF StoreInv, WellTyped
      <4> HIDE DEF set, at
      <4> QED
        BY <1>3, <2>1, <4>1, <4>2 DEF IsExpired, SameRun
    <3>2. o = IF t.data[k] = Missing THEN Outcome(t, "nil")
              ELSE Outcome(IF IsExpired(set, k) THEN Delete(set, k, "command") ELSE set, "ok")
      BY <2>1 DEF CmdExpire
    <3> HIDE DEF set, at, t
    <3> QED
      BY <1>3, <2>1, <3>1, <3>2
  <2>2. CASE c.op # "EXPIRE"
    <3>1. o = IF t.data[k] = Missing THEN Outcome(t, "nil")
              ELSE Outcome(IF at <= t.now THEN gone ELSE set, "ok")
      BY <2>2 DEF CmdPexpireat
    <3> HIDE DEF set, at, t, gone
    <3> QED
      BY <1>3, <2>2, <3>1
  <2> QED
    BY <2>1, <2>2
<1>5. ASSUME o.store.logging, o.reply \in {"ok", "nil"}
      PROVE  RecordCommand(o.store, c, o.reply) = RecordDeadline(o.store, c)
  BY <1>5, Zenon DEF RecordCommand
<1> HIDE DEF t, at
<1>6. CASE t.data[k] = Missing /\ o = Outcome(t, "nil")
  <2>1. o.store = t /\ o.reply = "nil"
    BY <1>6 DEF Outcome
  <2>2. Honest(RecordDeadline(t, c))
    BY <1>1, <1>2, <1>6, NoDeadlineHonest
  <2> QED
    BY <1>1, <1>5, <2>1, <2>2
<1>7. CASE t.data[k] # Missing /\ at > t.now /\ o = Outcome(set, "ok")
  <2>1. o.store = set /\ o.reply = "ok"
    BY <1>7 DEF Outcome
  <2>2. Honest(RecordDeadline(set, c))
    BY <1>1, <1>2, <1>3, <1>7, NewDeadlineHonest
  <2>3. SameRun(t, set)
    BY <1>1, <1>3, SetExpiryAtTells
  <2> HIDE DEF set
  <2> QED
    BY <1>1, <1>5, <2>1, <2>2, <2>3 DEF SameRun
<1>8. CASE t.data[k] # Missing /\ at <= t.now /\ o = Outcome(gone, "ok")
  <2>1. o.store = gone /\ o.reply = "ok"
    BY <1>8 DEF Outcome
  <2>2. Follows(t, gone) /\ gone.data[k] = Missing
    BY <1>1, DeleteFollows
  <2>3. StoreInv(gone)
    BY <1>1, DeleteKeepsInv
  <2> HIDE DEF gone
  <2>4. Honest(gone) /\ gone.logging
    BY <1>1, <1>2, <2>2 DEF Follows, SameRun
  <2>5. Honest(RecordDeadline(gone, c))
    BY <2>2, <2>3, <2>4, NoDeadlineHonest
  <2> QED
    BY <1>5, <2>1, <2>4, <2>5
<1> QED
  BY <1>4, <1>6, <1>7, <1>8

LEMMA PersistHonest ==
    ASSUME NEW s, StoreInv(s), s.logging, Honest(s), NEW c \in CmdRecords, c.op = "PERSIST",
           c.key \in Keys, NEW o \in CmdPersist(s, c)
    PROVE  Honest(RecordCommand(o.store, c, o.reply))
<1> DEFINE k == c.key
           t == Lookup(s, k)
           r == SetExpiryAt(t, k, 0)
<1>1. Follows(s, t) /\ StoreInv(t) /\ t.logging
  BY LookupFollows
<1>2. Honest(t)
  BY <1>1 DEF Follows
<1>3. o = IF t.data[k] = Missing \/ t.expiry[k] = 0 THEN Outcome(t, "nil") ELSE Outcome(r, "ok")
  BY RemoveExpiryIs DEF CmdPersist
<1>4. ASSUME o.store.logging, o.reply \in {"ok", "nil"}
      PROVE  RecordCommand(o.store, c, o.reply) =
                AppendRecords(o.store, IF o.reply = "ok" THEN <<c>> ELSE <<>>)
  BY <1>4, Zenon DEF RecordCommand
<1> HIDE DEF t
<1>5. CASE o = Outcome(t, "nil")
  <2>1. o.store = t /\ o.reply = "nil"
    BY <1>5 DEF Outcome
  <2>2. Honest(AppendRecords(t, <<>>))
    BY <1>1, <1>2, NoRecord DEF Follows
  <2> QED
    BY <1>1, <1>4, <2>1, <2>2
<1>6. CASE o = Outcome(r, "ok")
  <2>1. o.store = r /\ o.reply = "ok"
    BY <1>6 DEF Outcome
  <2>2. /\ StoreInv(r)
        /\ r.data = t.data
        /\ r.expiry = [t.expiry EXCEPT ![k] = 0]
        /\ SameRun(t, r)
        /\ r.log = t.log
    BY <1>1, SetExpiryAtTells
  <2> HIDE DEF r
  <2>3. t.expiry \in [Keys -> Nat]
    BY <1>1 DEF StoreInv, WellTyped
  <2>4. Noted(r)
    <3>1. DeadlinesGo(t, r)
      BY <2>2, <2>3 DEF DeadlinesGo
    <3>2. Outlasts(t.log, r.log)
      BY <2>2 DEF Outlasts
    <3> QED
      BY <1>2, <2>2, <3>1, <3>2, NotedStays DEF Honest
  <2>5. Says(r.now, r.log, r.data, Sure(t), Dates(t))
    BY <1>2, <2>2 DEF Honest, SameRun
  <2>6. IsEntry(c) /\ Allowed(c, r.data) /\ DataAfter(c, r.data) = r.data
    BY DataAfterIs DEF IsEntry, Allowed, KeyWrites
  <2>7. /\ DatedAfter(c, Dates(t)) = But(Dates(t), k)
        /\ DatedAfter(c, Sure(t)) = But(Sure(t), k)
    BY DatedAfterIs
  <2>8. Dates(r) = But(Dates(t), k) /\ Sure(r) = But(Sure(t), k)
    <3>1. Dates(r) = But(Dates(t), k)
      BY <2>2, <2>3 DEF Dates, But
    <3> QED
      BY <2>2, <3>1 DEF Sure, SameRun, But
  <2>9. \A p \in DatedAfter(c, Dates(t)) : r.data[p[1]] # Missing => p \in Dates(r)
    BY <2>7, <2>8
  <2>10. Leaves(c, r.data, Sure(t), r.data, Sure(r))
    BY <2>7, <2>8 DEF Leaves, But
  <2>11. Honest(AppendRecords(r, <<c>>))
    BY <2>2, <2>4, <2>5, <2>6, <2>9, <2>10, RecordHonest
  <2> QED
    BY <1>1, <1>4, <2>1, <2>2, <2>11 DEF SameRun
<1> QED
  BY <1>3, <1>5, <1>6

\* FLUSHALL, and DEL once its keys are gone
LEMMA GoneHonest ==
    ASSUME NEW s, StoreInv(s), Honest(s), NEW c \in CmdRecords, c.op \in {"DEL", "FLUSHALL"},
           NEW t, StoreInv(t), SameRun(s, t), t.log = s.log, DeadlinesGo(s, t),
           t.data = DataAfter(c, s.data), \A j \in Keys : t.expiry[j] = s.expiry[j] \/ t.data[j] = Missing,
           \A j \in Keys : t.expiry[j] = 0 \/ t.data[j] # Missing \/ s.data[j] = Missing
    PROVE  Honest(AppendRecords(t, <<c>>))
<1> DEFINE L == Sure(s)
           W == Dates(s)
<1>1. IsEntry(c) /\ Allowed(c, s.data)
  BY DEF IsEntry, Allowed, KeyWrites
<1>2. DatedAfter(c, W) = W /\ DatedAfter(c, L) = L
  BY DatedAfterIs
<1>3. Says(t.now, t.log, s.data, L, W) /\ t.log \in Seq(CmdRecords)
  BY DEF Honest, SameRun, StoreInv, WellTyped
<1>4. Noted(t)
  <2>1. Outlasts(s.log, t.log)
    BY DEF Outlasts
  <2> QED
    BY <2>1, NotedStays DEF Honest
<1>5. \A p \in W : t.data[p[1]] # Missing => p \in Dates(t)
  BY DEF Dates
<1>6. \A p \in Sure(t) : p \in L /\ p[1] \in Keys /\ t.expiry[p[1]] # 0
  BY DEF Sure, Dates, DeadlinesGo, SameRun
<1> HIDE DEF L, W
<1>7. ASSUME NonStale(t.log, t.now) PROVE Leaves(c, s.data, L, t.data, Sure(t))
  <2>1. \A p \in L : s.data[p[1]] # Missing
    BY <1>3, <1>7, SaysSurely
  <2> QED
    BY <1>2, <1>6, <2>1 DEF Leaves
<1>8. \A p \in DatedAfter(c, W) : t.data[p[1]] # Missing => p \in Dates(t)
  BY <1>2, <1>5
<1> QED
  BY <1>1, <1>3, <1>4, <1>7, <1>8, RecordHonest

LEMMA DeleteTells ==
    ASSUME NEW s, StoreInv(s), NEW k \in Keys
    PROVE  LET t == Delete(s, k, "command")
           IN  /\ StoreInv(t) /\ SameRun(s, t) /\ t.log = s.log
               /\ t.data = [s.data EXCEPT ![k] = Missing]
               /\ \A j \in Keys : t.expiry[j] \in {0, s.expiry[j]}
               /\ \A j \in Keys \ {k} : t.expiry[j] = s.expiry[j]
               /\ t.expiry[k] = 0 \/ s.data[k] = Missing
<1> DEFINE t == Delete(s, k, "command")
<1>0. s.data \in [Keys -> Objects \cup {Missing}]
  BY DEF StoreInv, WellTyped
<1>1. CASE s.data[k] = Missing
  <2>1. t = s
    BY <1>1 DEF Delete
  <2> QED
    BY <1>0, <1>1, <2>1 DEF SameRun
<1>2. CASE s.data[k] # Missing
  <2> DEFINE w == <<k>>
  <2>1. t = DeleteKeys(s, w, "command")
    BY <1>2 DEF Delete
  <2>2. w \in Seq(Keys) /\ ToSet(w) = {k}
    BY OneKey
  <2>3. StoreInv(t)
    BY DeleteKeepsInv
  <2> HIDE DEF t, w
  <2>4. /\ t.data = [j \in Keys |-> IF j \in ToSet(w) THEN Missing ELSE s.data[j]]
        /\ t.expiry = [j \in Keys |-> IF j \in ToSet(w) THEN 0 ELSE s.expiry[j]]
        /\ SameRun(s, t)
        /\ t.log = IF s.logging /\ "command" \in {"expiry", "eviction"}
                   THEN LogPlus(s.log, DelRecords(w)) ELSE s.log
    BY <2>1, <2>2, DeleteKeysTells
  <2> QED
    BY <1>0, <2>2, <2>3, <2>4 DEF t
<1> QED
  BY <1>1, <1>2

LEMMA DelCommandHonest ==
    ASSUME NEW s, StoreInv(s), s.logging, Honest(s), NEW c \in CmdRecords, c.op = "DEL",
           c.keys \in ArgLists(Keys), NEW o \in CmdDel(s, c)
    PROVE  Honest(RecordCommand(o.store, c, o.reply))
<1> DEFINE ks == c.keys
           t == Delete(s, ks[1], "command")
           u == Delete(t, ks[2], "command")
           r == IF Len(ks) = 1 THEN t ELSE u
<1>1. o.store = r /\ o.reply = "ok"
  BY DEF CmdDel, Outcome
<1>2. \/ Len(ks) = 1 /\ ks[1] \in Keys /\ ToSet(ks) = {ks[1]}
      \/ Len(ks) = 2 /\ ks[1] \in Keys /\ ks[2] \in Keys /\ ToSet(ks) = {ks[1], ks[2]}
  BY KeyLists
<1>3. DataAfter(c, s.data) = [j \in Keys |-> IF j \in ToSet(ks) THEN Missing ELSE s.data[j]]
  BY DataAfterIs
<1>4. s.data \in [Keys -> Objects \cup {Missing}]
  BY DEF StoreInv, WellTyped
<1> DEFINE k1 == ks[1]
           k2 == ks[2]
<1>5. /\ StoreInv(t) /\ SameRun(s, t) /\ t.log = s.log
      /\ t.data = [s.data EXCEPT ![k1] = Missing]
      /\ \A j \in Keys : t.expiry[j] \in {0, s.expiry[j]}
      /\ \A j \in Keys \ {k1} : t.expiry[j] = s.expiry[j]
      /\ t.expiry[k1] = 0 \/ s.data[k1] = Missing
  BY <1>2, DeleteTells
<1> HIDE DEF t
<1>6. ASSUME k2 \in Keys
      PROVE  /\ StoreInv(u) /\ SameRun(t, u) /\ u.log = t.log
             /\ u.data = [t.data EXCEPT ![k2] = Missing]
             /\ \A j \in Keys : u.expiry[j] \in {0, t.expiry[j]}
             /\ \A j \in Keys \ {k2} : u.expiry[j] = t.expiry[j]
             /\ u.expiry[k2] = 0 \/ t.data[k2] = Missing
  <2> HIDE DEF k2
  <2> DEFINE q == Delete(t, k2, "command")
  <2>1. /\ StoreInv(q) /\ SameRun(t, q) /\ q.log = t.log
        /\ q.data = [t.data EXCEPT ![k2] = Missing]
        /\ \A j \in Keys : q.expiry[j] \in {0, t.expiry[j]}
        /\ \A j \in Keys \ {k2} : q.expiry[j] = t.expiry[j]
        /\ q.expiry[k2] = 0 \/ t.data[k2] = Missing
    BY <1>5, <1>6, DeleteTells
  <2> QED
    BY <2>1 DEF k2
<1> HIDE DEF u
<1>7. /\ StoreInv(r) /\ SameRun(s, r) /\ r.log = s.log
      /\ r.data = [j \in Keys |-> IF j \in ToSet(ks) THEN Missing ELSE s.data[j]]
      /\ \A j \in Keys : r.expiry[j] \in {0, s.expiry[j]}
      /\ \A j \in Keys \ ToSet(ks) : r.expiry[j] = s.expiry[j]
      /\ \A j \in ToSet(ks) : r.expiry[j] = 0 \/ s.data[j] = Missing
  <2>1. CASE Len(ks) = 1
    <3>1. r = t /\ ToSet(ks) = {k1}
      BY <1>2, <2>1
    <3> HIDE DEF r, ks, k1
    <3> QED
      BY <1>4, <1>5, <3>1
  <2>2. CASE Len(ks) = 2
    <3>1. r = u /\ ToSet(ks) = {k1, k2} /\ k2 \in Keys
      BY <1>2, <2>2
    <3> DEFINE gone == ToSet(ks)
    <3> HIDE DEF r, ks, k1, k2
    <3>2. StoreInv(r) /\ SameRun(s, r) /\ r.log = s.log
      BY <1>5, <1>6, <3>1 DEF SameRun
    <3>3. r.data = [j \in Keys |-> IF j \in gone THEN Missing ELSE s.data[j]]
      BY <1>4, <1>5, <1>6, <3>1
    <3>4. gone = {k1, k2}
      BY <3>1
    <3> HIDE DEF gone
    <3>5. /\ \A j \in Keys : r.expiry[j] \in {0, s.expiry[j]}
          /\ \A j \in Keys \ gone : r.expiry[j] = s.expiry[j]
      BY <1>5, <1>6, <3>1, <3>4
    <3>6. \A j \in gone : r.expiry[j] = 0 \/ s.data[j] = Missing
      <4>1. r.expiry[k1] = 0 \/ s.data[k1] = Missing
        <5>1. k1 \in Keys
          BY <1>2 DEF k1, ks
        <5> QED
          BY <1>5, <1>6, <3>1, <5>1
      <4>2. r.expiry[k2] = 0 \/ s.data[k2] = Missing
        <5>1. CASE k2 = k1
          BY <4>1, <5>1
        <5>2. CASE k2 # k1
          BY <1>4, <1>5, <1>6, <3>1, <5>2
        <5> QED
          BY <5>1, <5>2
      <4> QED
        BY <3>4, <4>1, <4>2
    <3> QED
      BY <3>2, <3>3, <3>5, <3>6 DEF gone
  <2> QED
    BY <1>2, <2>1, <2>2
<1> HIDE DEF r, ks
<1>8. DeadlinesGo(s, r) /\ r.data = DataAfter(c, s.data)
  BY <1>3, <1>7 DEF DeadlinesGo, ks
<1>9. /\ \A j \in Keys : r.expiry[j] = s.expiry[j] \/ r.data[j] = Missing
      /\ \A j \in Keys : r.expiry[j] = 0 \/ r.data[j] # Missing \/ s.data[j] = Missing
  BY <1>7
<1>10. Honest(AppendRecords(r, <<c>>))
  BY <1>7, <1>8, <1>9, GoneHonest
<1>11. r.logging
  BY <1>7 DEF SameRun
<1>12. RecordCommand(r, c, "ok") = AppendRecords(r, <<c>>)
  BY <1>11, Zenon DEF RecordCommand
<1> QED
  BY <1>1, <1>10, <1>12

LEMMA FlushallHonest ==
    ASSUME NEW s, StoreInv(s), s.logging, Honest(s), NEW c \in CmdRecords, c.op = "FLUSHALL",
           NEW o \in CmdFlushall(s)
    PROVE  Honest(RecordCommand(o.store, c, o.reply))
<1> DEFINE t == Flush(s)
<1>1. o.store = t /\ o.reply = "ok"
  BY DEF CmdFlushall, Outcome
<1>2. /\ DOMAIN t = Fields
      /\ t.used = 0
      /\ t.data = [k \in Keys |-> Missing]
      /\ t.sizes = [k \in Keys |-> 0]
      /\ t.access = [k \in Keys |-> 0]
      /\ t.expiry = [k \in Keys |-> IF k \in Present(s) THEN 0 ELSE s.expiry[k]]
      /\ t.clock = s.clock /\ t.now = s.now /\ t.limit = s.limit
      /\ t.policy = s.policy /\ t.logging = s.logging /\ t.log = s.log
  BY FlushIs DEF StoreInv
<1>3. StoreInv(t)
  BY FlushKeepsInv
<1> HIDE DEF t
<1>4. SameRun(s, t) /\ t.log = s.log
  BY <1>2 DEF SameRun
<1>5. /\ DeadlinesGo(s, t)
      /\ \A j \in Keys : t.expiry[j] = s.expiry[j] \/ t.data[j] = Missing
      /\ \A j \in Keys : t.expiry[j] = 0 \/ t.data[j] # Missing \/ s.data[j] = Missing
  BY <1>2 DEF DeadlinesGo, Present
<1>6. t.data = DataAfter(c, s.data)
  BY <1>2, DataAfterIs
<1>7. Honest(AppendRecords(t, <<c>>))
  BY <1>3, <1>4, <1>5, <1>6, GoneHonest
<1>8. RecordCommand(t, c, "ok") = AppendRecords(t, <<c>>)
  BY <1>2, Zenon DEF RecordCommand
<1> QED
  BY <1>1, <1>7, <1>8

LEMMA ReadHonest ==
    ASSUME NEW s, StoreInv(s), s.logging, Honest(s), NEW c, c.op \in {"KEYS", "READ"},
           c.op = "READ" => c.key \in Keys,
           NEW o \in IF c.op = "KEYS" THEN CmdKeys(s) ELSE CmdRead(s, c)
    PROVE  Honest(RecordCommand(o.store, c, o.reply))
<1>1. o.store = IF c.op = "KEYS" THEN PurgeAll(s) ELSE Lookup(s, c.key)
  BY DEF CmdKeys, CmdRead, Outcome
<1>2. RecordCommand(o.store, c, o.reply) = o.store
  BY Zenon DEF RecordCommand
<1>3. CASE c.op = "KEYS"
  BY <1>1, <1>2, <1>3, PurgeAllFollows DEF Follows
<1>4. CASE c.op = "READ"
  BY <1>1, <1>2, <1>4, LookupFollows DEF Follows
<1> QED
  BY <1>3, <1>4

\* Every command that the log can replay, with its record, keeps the log honest.
LEMMA CommandsKeepHonest ==
    ASSUME NEW s, StoreInv(s), s.logging, Tidy(s), Honest(s), NEW c \in CmdRecords,
           c.op \in Enabled, c.op # "MSET", c.op = "EXPIRE" => c.ttl # 0,
           c.op \in {"HSET", "ZADD"} => Len(c.xs) = 1, c.op = "HDEL" => BadFields = {},
           NEW o \in Dispatch(s, c)
    PROVE  Honest(RecordCommand(o.store, c, o.reply))
<1>1. CASE c.op \in KeyWrites
  <2>1. IsEntry(c)
    BY <1>1 DEF IsEntry, KeyWrites
  <2> QED
    BY <1>1, <2>1, KeyWriteHonest
<1>2. CASE c.op = "SET"
  BY <1>2, RecordArgs, DispatchIs, SetHonest
<1>3. CASE c.op \in {"EXPIRE", "PEXPIREAT"}
  <2>1. c.key \in Keys /\ (c.op = "EXPIRE" => c.ttl \in Nat \ {0}) /\ (c.op = "PEXPIREAT" => c.at \in Nat)
    BY <1>3, RecordArgs
  <2>2. o \in IF c.op = "EXPIRE" THEN CmdExpire(s, c) ELSE CmdPexpireat(s, c)
    BY <1>3, DispatchIs
  <2> QED
    BY <1>3, <2>1, <2>2, ExpireHonest
<1>4. CASE c.op = "PERSIST"
  BY <1>4, RecordArgs, DispatchIs, PersistHonest
<1>5. CASE c.op = "DEL"
  BY <1>5, RecordArgs, DispatchIs, DelCommandHonest
<1>6. CASE c.op = "FLUSHALL"
  BY <1>6, DispatchIs, FlushallHonest
<1>7. CASE c.op \in {"KEYS", "READ"}
  <2>1. c.op = "READ" => c.key \in Keys
    BY RecordArgs
  <2>2. o \in IF c.op = "KEYS" THEN CmdKeys(s) ELSE CmdRead(s, c)
    BY <1>7, DispatchIs
  <2> QED
    BY <1>7, <2>1, <2>2, ReadHonest
<1> QED
  BY <1>1, <1>2, <1>3, <1>4, <1>5, <1>6, <1>7, RecordArgs DEF KeyWrites, ElemOps

-----------------------------------------------------------------------------
(***************************************************************************)
(* The steps of the server as dispatched commands.                         *)
(***************************************************************************)
Executes(c) ==
    /\ c \in CmdRecords
    /\ Execute(c, Dispatch(Store, c))
    /\ c.op = "EXPIRE" => c.ttl \in ExpireTtls
    /\ c.op \in ElemOps => c.xs \in Args

LEMMA StringsExecute ==
    ASSUME Set \/ Mset \/ Incrby \/ AppendText
    PROVE  \E c : Executes(c)
<1>1. CASE Set
  <2>1. PICK k \in Keys, v \in Vals, ttl \in SetTtls :
          LET c == [op |-> "SET", key |-> k, val |-> v, ttl |-> ttl]
          IN  Execute(c, CmdSet(Store, c))
    BY <1>1 DEF Set
  <2> DEFINE c == [op |-> "SET", key |-> k, val |-> v, ttl |-> ttl]
  <2>2. c \in CmdRecords
    BY InstanceAssumption DEF CmdRecords
  <2>3. c.op = "SET" /\ Execute(c, CmdSet(Store, c))
    BY <2>1
  <2> HIDE DEF c
  <2> QED
    BY <2>2, <2>3, DispatchIs DEF Executes, ElemOps
<1>2. CASE Mset
  <2>1. PICK k1 \in Keys, k2 \in Keys, v1 \in Vals, v2 \in Vals :
          LET c == [op |-> "MSET", keys |-> <<k1, k2>>, vals |-> <<v1, v2>>]
          IN  Execute(c, CmdMset(Store, c))
    BY <1>2 DEF Mset
  <2> DEFINE ks == <<k1, k2>>
             vs == <<v1, v2>>
             c == [op |-> "MSET", keys |-> ks, vals |-> vs]
  <2>2. c \in CmdRecords
    <3>1. ks \in [1..2 -> Keys] /\ vs \in [1..2 -> Strings]
      BY InstanceAssumption
    <3> HIDE DEF ks, vs
    <3> QED
      BY <3>1 DEF CmdRecords
  <2>3. c.op = "MSET" /\ Execute(c, CmdMset(Store, c))
    BY <2>1
  <2> HIDE DEF c
  <2> QED
    BY <2>2, <2>3, DispatchIs DEF Executes, ElemOps
<1>3. CASE Incrby
  <2>1. PICK k \in Keys, by \in Deltas : LET c == [op |-> "INCRBY", key |-> k, by |-> by]
                                         IN  Execute(c, CmdIncrby(Store, c))
    BY <1>3 DEF Incrby
  <2> DEFINE c == [op |-> "INCRBY", key |-> k, by |-> by]
  <2>2. c \in CmdRecords
    BY InstanceAssumption DEF CmdRecords
  <2>3. c.op = "INCRBY" /\ Execute(c, CmdIncrby(Store, c))
    BY <2>1
  <2> HIDE DEF c
  <2> QED
    BY <2>2, <2>3, DispatchIs DEF Executes, ElemOps
<1>4. CASE AppendText
  <2>1. PICK k \in Keys : LET c == [op |-> "APPEND", key |-> k, by |-> 1]
                          IN  Execute(c, CmdAppend(Store, c))
    BY <1>4 DEF AppendText
  <2> DEFINE c == [op |-> "APPEND", key |-> k, by |-> 1]
  <2>2. c \in CmdRecords
    BY DEF CmdRecords
  <2>3. c.op = "APPEND" /\ Execute(c, CmdAppend(Store, c))
    BY <2>1
  <2> HIDE DEF c
  <2> QED
    BY <2>2, <2>3, DispatchIs DEF Executes, ElemOps
<1> QED
  BY <1>1, <1>2, <1>3, <1>4

LEMMA GenericsExecute ==
    ASSUME Del \/ Expire \/ Pexpireat \/ Persist \/ Flushall \/ KeysCommand \/ Read
    PROVE  \E c : Executes(c)
<1>1. CASE Del
  <2>1. PICK ks \in [1..1 -> Keys] \cup [1..2 -> Keys] : LET c == [op |-> "DEL", keys |-> ks]
                                                         IN  Execute(c, CmdDel(Store, c))
    BY <1>1 DEF Del
  <2> DEFINE c == [op |-> "DEL", keys |-> ks]
  <2>2. c \in CmdRecords
    BY <2>1, ArgListsAre DEF CmdRecords
  <2>3. c.op = "DEL" /\ Execute(c, CmdDel(Store, c))
    BY <2>1
  <2> HIDE DEF c
  <2> QED
    BY <2>2, <2>3, DispatchIs DEF Executes, ElemOps
<1>2. CASE Expire
  <2>1. PICK k \in Keys, ttl \in ExpireTtls : LET c == [op |-> "EXPIRE", key |-> k, ttl |-> ttl]
                                              IN  Execute(c, CmdExpire(Store, c))
    BY <1>2 DEF Expire
  <2> DEFINE c == [op |-> "EXPIRE", key |-> k, ttl |-> ttl]
  <2>2. c \in CmdRecords
    BY InstanceAssumption DEF CmdRecords
  <2>3. c.op = "EXPIRE" /\ c.ttl \in ExpireTtls /\ Execute(c, CmdExpire(Store, c))
    BY <2>1
  <2> HIDE DEF c
  <2> QED
    BY <2>2, <2>3, DispatchIs DEF Executes, ElemOps
<1>3. CASE Pexpireat
  <2>1. PICK k \in Keys, at \in 0..MaxNow : LET c == [op |-> "PEXPIREAT", key |-> k, at |-> at]
                                            IN  Execute(c, CmdPexpireat(Store, c))
    BY <1>3 DEF Pexpireat
  <2> DEFINE c == [op |-> "PEXPIREAT", key |-> k, at |-> at]
  <2>2. c \in CmdRecords
    BY InstanceAssumption DEF CmdRecords
  <2>3. c.op = "PEXPIREAT" /\ Execute(c, CmdPexpireat(Store, c))
    BY <2>1
  <2> HIDE DEF c
  <2> QED
    BY <2>2, <2>3, DispatchIs DEF Executes, ElemOps
<1>4. CASE Persist
  <2>1. PICK k \in Keys : LET c == [op |-> "PERSIST", key |-> k]
                          IN  Execute(c, CmdPersist(Store, c))
    BY <1>4 DEF Persist
  <2> DEFINE c == [op |-> "PERSIST", key |-> k]
  <2>2. c \in CmdRecords
    BY DEF CmdRecords
  <2>3. c.op = "PERSIST" /\ Execute(c, CmdPersist(Store, c))
    BY <2>1
  <2> HIDE DEF c
  <2> QED
    BY <2>2, <2>3, DispatchIs DEF Executes, ElemOps
<1>5. CASE Flushall
  <2> DEFINE c == [op |-> "FLUSHALL"]
  <2>1. c \in CmdRecords
    BY DEF CmdRecords
  <2>2. c.op = "FLUSHALL" /\ Execute(c, CmdFlushall(Store))
    BY <1>5 DEF Flushall
  <2> HIDE DEF c
  <2> QED
    BY <2>1, <2>2, DispatchIs DEF Executes, ElemOps
<1>6. CASE KeysCommand
  <2> DEFINE c == [op |-> "KEYS"]
  <2>1. c \in CmdRecords
    BY DEF CmdRecords
  <2>2. c.op = "KEYS" /\ Execute(c, CmdKeys(Store))
    BY <1>6 DEF KeysCommand
  <2> HIDE DEF c
  <2> QED
    BY <2>1, <2>2, DispatchIs DEF Executes, ElemOps
<1>7. CASE Read
  <2>1. PICK k \in Keys : LET c == [op |-> "READ", key |-> k] IN Execute(c, CmdRead(Store, c))
    BY <1>7 DEF Read
  <2> DEFINE c == [op |-> "READ", key |-> k]
  <2>2. c \in CmdRecords
    BY DEF CmdRecords
  <2>3. c.op = "READ" /\ Execute(c, CmdRead(Store, c))
    BY <2>1
  <2> HIDE DEF c
  <2> QED
    BY <2>2, <2>3, DispatchIs DEF Executes, ElemOps
<1> QED
  BY <1>1, <1>2, <1>3, <1>4, <1>5, <1>6, <1>7

LEMMA CollectionsExecute ==
    ASSUME Push \/ Pop \/ Lset \/ Sadd \/ Srem \/ Hdel \/ Zrem \/ HsetZadd
    PROVE  \E c : Executes(c)
<1>1. CASE Pop
  <2>1. PICK k \in Keys, op \in {"LPOP", "RPOP"} : LET c == [op |-> op, key |-> k]
                                                  IN  Execute(c, CmdPop(Store, c))
    BY <1>1 DEF Pop
  <2> DEFINE c == [op |-> op, key |-> k]
  <2>2. c \in CmdRecords
    BY DEF CmdRecords
  <2>3. c.op \in {"LPOP", "RPOP"} /\ Execute(c, CmdPop(Store, c))
    BY <2>1
  <2> HIDE DEF c
  <2> QED
    BY <2>2, <2>3, DispatchIs DEF Executes, ElemOps
<1>2. CASE Lset
  <2>1. PICK k \in Keys, index \in (-MaxLen)..MaxLen, x \in Elems :
          LET c == [op |-> "LSET", key |-> k, index |-> index, x |-> x]
          IN  Execute(c, CmdLset(Store, c))
    BY <1>2 DEF Lset
  <2> DEFINE c == [op |-> "LSET", key |-> k, index |-> index, x |-> x]
  <2>2. c \in CmdRecords
    BY InstanceAssumption DEF CmdRecords
  <2>3. c.op = "LSET" /\ Execute(c, CmdLset(Store, c))
    BY <2>1
  <2> HIDE DEF c
  <2> QED
    BY <2>2, <2>3, DispatchIs DEF Executes, ElemOps
<1>3. CASE Push \/ Sadd \/ Srem \/ Hdel \/ Zrem \/ HsetZadd
  <2>1. PICK op \in ElemOps, k \in Keys, xs \in Args :
          LET c == [op |-> op, key |-> k, xs |-> xs]
          IN  \/ op \in {"LPUSH", "RPUSH"} /\ Execute(c, CmdPush(Store, c))
              \/ op = "SADD" /\ Execute(c, CmdSadd(Store, c))
              \/ op = "SREM" /\ Execute(c, CmdSrem(Store, c))
              \/ op = "HDEL" /\ Execute(c, CmdHdel(Store, c))
              \/ op = "ZREM" /\ Execute(c, CmdZrem(Store, c))
              \/ op \in {"HSET", "ZADD"} /\ Execute(c, CmdAddEach(Store, c))
    <3>1. CASE Push
      BY <3>1 DEF Push, ElemOps
    <3>2. CASE Sadd
      BY <3>2 DEF Sadd, ElemOps
    <3>3. CASE Srem
      BY <3>3 DEF Srem, ElemOps
    <3>4. CASE Hdel
      BY <3>4 DEF Hdel, ElemOps
    <3>5. CASE Zrem
      BY <3>5 DEF Zrem, ElemOps
    <3>6. CASE HsetZadd
      BY <3>6 DEF HsetZadd, ElemOps
    <3> QED
      BY <1>3, <3>1, <3>2, <3>3, <3>4, <3>5, <3>6
  <2> DEFINE c == [op |-> op, key |-> k, xs |-> xs]
  <2>2. c \in CmdRecords
    BY ArgsType DEF CmdRecords
  <2>3. /\ c.op = op /\ c.xs \in Args
        /\ \/ op \in {"LPUSH", "RPUSH"} /\ Execute(c, CmdPush(Store, c))
           \/ op = "SADD" /\ Execute(c, CmdSadd(Store, c))
           \/ op = "SREM" /\ Execute(c, CmdSrem(Store, c))
           \/ op = "HDEL" /\ Execute(c, CmdHdel(Store, c))
           \/ op = "ZREM" /\ Execute(c, CmdZrem(Store, c))
           \/ op \in {"HSET", "ZADD"} /\ Execute(c, CmdAddEach(Store, c))
    BY <2>1
  <2> HIDE DEF c
  <2>4. Execute(c, Dispatch(Store, c))
    BY <2>3, DispatchIs
  <2> QED
    BY <2>2, <2>3, <2>4 DEF Executes, ElemOps
<1> QED
  BY <1>1, <1>2, <1>3

LEMMA NextExecutes ==
    ASSUME Next
    PROVE  (\E c : Executes(c)) \/ ExpireCycle \/ Tick
  BY StringsExecute, GenericsExecute, CollectionsExecute DEF Next

-----------------------------------------------------------------------------
(***************************************************************************)
(* The log stays honest.                                                   *)
(***************************************************************************)
LEMMA HonestAlike ==
    ASSUME NEW s, NEW t, t.data = s.data, t.log = s.log, t.now = s.now, t.policy = s.policy,
           t.expiry = s.expiry, Honest(s)
    PROVE  Honest(t)
<1>1. Dates(t) = Dates(s) /\ Sure(t) = Sure(s)
  BY DEF Dates, Sure
<1>2. Says(t.now, t.log, t.data, Sure(t), Dates(t))
  BY <1>1 DEF Honest
<1>3. Noted(t)
  BY DEF Honest, Noted
<1> QED
  BY <1>2, <1>3 DEF Honest

LEMMA HonestBecomes ==
    ASSUME NEW r, Honest(r), r.now = now, r.policy = config.policy, Become(r)
    PROVE  Honest(Store)'
<1> DEFINE t == Store'
<1>1. t.data = r.data /\ t.log = r.log /\ t.now = r.now /\ t.policy = r.policy /\ t.expiry = r.expiry
  BY DEF Store, Become
<1> HIDE DEF t
<1>2. Honest(t)
  BY <1>1, HonestAlike
<1> QED
  BY <1>2 DEF t

LEMMA EarlierNonStale ==
    ASSUME NEW log \in Seq(CmdRecords), NEW t \in Int, NEW u \in Int, u <= t, NonStale(log, t)
    PROVE  NonStale(log, u)
<1>1. \A i \in 1..Len(log) : log[i].op = "PEXPIREAT" => log[i].at \in Nat
  <2>1. \A i \in 1..Len(log) : log[i] \in CmdRecords
    OBVIOUS
  <2> QED
    BY <2>1, RecordArgs
<1>2. \A i \in 1..Len(log) : log[i].op = "PEXPIREAT" => log[i].at * MsTicks \in Nat
  BY <1>1, MsTicksAssumption
<1> QED
  BY <1>2 DEF NonStale

\* a command takes no time and does not change the configuration
LEMMA CommandRuns ==
    ASSUME NEW s, StoreInv(s), NEW c \in CmdRecords, c.op # "MSET", NEW o \in Dispatch(s, c)
    PROVE  LET r == RecordCommand(o.store, c, o.reply)
           IN  r.now = s.now /\ r.policy = s.policy
<1> DEFINE r == RecordCommand(o.store, c, o.reply)
<1>1. StoreInv(o.store) /\ o.store.now = s.now /\ o.store.policy = s.policy
  <2>1. CASE c.op = "FLUSHALL"
    <3>1. o.store = Flush(s)
      BY <2>1, DispatchIs DEF CmdFlushall, Outcome
    <3>2. Flush(s).now = s.now /\ Flush(s).policy = s.policy
      BY FlushIs DEF StoreInv
    <3> QED
      BY <3>1, <3>2, FlushKeepsInv
  <2>2. CASE c.op # "FLUSHALL"
    <3>1. \E K : \A p \in Dispatch(s, c) : Leads(s, p.store, K)
      BY <2>2, DispatchLeads
    <3> QED
      BY <3>1 DEF Leads, Spares
  <2> QED
    BY <2>1, <2>2
<1>2. \E K : Leads(o.store, r, K)
  <2>1. CASE c.op \in {"DEL", "FLUSHALL", "KEYS"}
    BY <1>1, <2>1, RecordPlainLeads
  <2>2. CASE c.op \notin {"DEL", "FLUSHALL", "KEYS"}
    <3>1. c.key \in Keys /\ (c.op = "SET" => c.val \in Strings)
      BY <2>2, RecordArgs
    <3> QED
      BY <1>1, <2>2, <3>1, RecordKeyLogs DEF Logs
  <2> QED
    BY <2>1, <2>2
<1> HIDE DEF r
<1>3. r.now = o.store.now /\ r.policy = o.store.policy
  BY <1>2 DEF Leads, Spares
<1> QED
  BY <1>1, <1>3 DEF r

\* The instances whose commands a replay repeats.  MSET logs its final values
\* but not what its rollback loses, EXPIRE with a time that is over is not
\* logged as a deletion, a command that adds two elements may fail between them,
\* and an HDEL that meets a bad field does not log what it took (README,
\* section 4).
Repeatable ==
    /\ AofEnabled
    /\ "MSET" \notin Enabled
    /\ "EXPIRE" \in Enabled => 0 \notin ExpireTtls
    /\ Enabled \cap {"HSET", "ZADD"} # {} => \A xs \in Args : Len(xs) = 1
    /\ BadFields = {}

LEMMA ExecuteHonest ==
    ASSUME Repeatable, InSync, Honest(Store), NEW c, Executes(c)
    PROVE  Honest(Store)'
<1>1. c \in CmdRecords /\ c.op \in Enabled
  BY DEF Executes, Execute
<1>2. PICK o \in Dispatch(Store, c) : Become(RecordCommand(o.store, c, o.reply))
  BY DEF Executes, Execute
<1>3. /\ c.op # "MSET"
      /\ c.op = "EXPIRE" => c.ttl # 0
      /\ c.op \in {"HSET", "ZADD"} => Len(c.xs) = 1
      /\ c.op = "HDEL" => BadFields = {}
  BY <1>1 DEF Repeatable, Executes, ElemOps
<1>4. StoreInv(Store) /\ Store.logging /\ Tidy(Store)
  BY StoreInOrder, StoreFields DEF InSync, Repeatable
<1> DEFINE s == Store
<1>5. s.now = now /\ s.policy = config.policy
  BY StoreFields
<1> HIDE DEF s
<1> DEFINE r == RecordCommand(o.store, c, o.reply)
<1>6. StoreInv(s) /\ s.logging /\ Tidy(s) /\ Honest(s) /\ o \in Dispatch(s, c)
  BY <1>4 DEF s
<1>7. Honest(r)
  BY <1>1, <1>3, <1>6, CommandsKeepHonest
<1>8. r.now = s.now /\ r.policy = s.policy
  BY <1>1, <1>3, <1>6, CommandRuns
<1>9. Become(r)
  BY <1>2
<1> HIDE DEF r
<1> QED
  BY <1>5, <1>7, <1>8, <1>9, HonestBecomes

LEMMA CycleHonest ==
    ASSUME AofEnabled, InSync, Honest(Store), ExpireCycle
    PROVE  Honest(Store)'
<1>1. PICK t \in EvictExpiredSamples(Store) : Become(t)
  BY DEF ExpireCycle
<1>2. StoreInv(Store) /\ Store.logging /\ Store.now = now /\ Store.policy = config.policy
  BY StoreInOrder, StoreFields
<1>3. Follows(Store, t)
  BY <1>1, <1>2, CycleFollows
<1>4. Honest(t) /\ t.now = now /\ t.policy = config.policy
  BY <1>2, <1>3 DEF Follows, SameRun
<1> QED
  BY <1>1, <1>4, HonestBecomes

LEMMA TickHonest ==
    ASSUME InSync, Honest(Store), Tick
    PROVE  Honest(Store)'
<1> DEFINE s == Store
           t == Store'
<1>1. /\ t.data = s.data /\ t.log = s.log /\ t.policy = s.policy /\ t.expiry = s.expiry
      /\ t.now = s.now + 1 /\ s.now \in Int /\ s.log \in Seq(CmdRecords)
  BY DEF Store, Tick, InSync, TypeOK
<1>2. Honest(s)
  OBVIOUS
<1> HIDE DEF s, t
<1>3. Dates(t) = Dates(s) /\ Sure(t) = Sure(s)
  BY <1>1 DEF Dates, Sure
<1>4. Says(t.now, t.log, t.data, Sure(t), Dates(t))
  <2>1. Says(s.now, s.log, s.data, Sure(s), Dates(s))
    BY <1>2 DEF Honest
  <2>2. t.now \in Int /\ s.now <= t.now
    BY <1>1
  <2>3. Says(t.now, s.log, s.data, Sure(s), Dates(s))
    BY <1>1, <2>1, <2>2, SaysLater
  <2> QED
    BY <1>1, <1>3, <2>3
<1>5. Noted(t)
  <2>1. NonStale(t.log, t.now) => NonStale(s.log, s.now)
    BY <1>1, EarlierNonStale
  <2> QED
    BY <1>1, <1>2, <2>1 DEF Honest, Noted
<1>6. Honest(t)
  BY <1>4, <1>5 DEF Honest
<1> QED
  BY <1>6 DEF t

LEMMA NextHonest ==
    ASSUME Repeatable, InSync, Honest(Store), [Next]_vars
    PROVE  Honest(Store)'
<1>1. CASE Next
  BY <1>1, NextExecutes, ExecuteHonest, CycleHonest, TickHonest DEF Repeatable
<1>2. CASE UNCHANGED vars
  <2>1. Store' = Store
    BY <1>2 DEF vars, Store
  <2> DEFINE t == Store'
  <2>2. t = Store
    BY <2>1
  <2> HIDE DEF t
  <2>3. Honest(t)
    BY <2>2
  <2> QED
    BY <2>3 DEF t
<1> QED
  BY <1>1, <1>2

-----------------------------------------------------------------------------
(***************************************************************************)
(* The log of a server that starts, or starts again, is honest.            *)
(***************************************************************************)
LEMMA InitHonest ==
    ASSUME Init
    PROVE  Honest(Store)
<1>1. /\ Store.data = Nothing /\ Store.expiry = [k \in Keys |-> 0]
      /\ Store.log = <<>> /\ Store.now = now
  BY DEF Init, Store, Nothing
<1> DEFINE s == Store
<1>2. s.data = Nothing /\ s.expiry = [k \in Keys |-> 0] /\ s.log = <<>>
  BY <1>1
<1> HIDE DEF s
<1>3. Len(s.log) = 0
  BY <1>2
<1>4. EndsIn(s.log, 0, s.data, Sure(s), Dates(s))
  <2>0. Dates(s) = {} /\ Sure(s) = {}
    BY <1>2 DEF Dates, Sure
  <2> DEFINE d == [i \in {0} |-> Nothing]
             V == [i \in {0} |-> {}]
  <2>1. IsRun(d, V, s.log, 0) /\ d[0] = Nothing /\ V[0] = {}
    BY DEF IsRun
  <2> HIDE DEF d, V
  <2> QED
    BY <1>2, <2>0, <2>1 DEF EndsIn
<1>5. EntriesTo(s.log, 0)
  BY DEF EntriesTo
<1>6. Says(s.now, s.log, s.data, Sure(s), Dates(s))
  BY <1>3, <1>4, <1>5 DEF Says, SaysTo
<1>7. Noted(s)
  BY <1>2 DEF Noted
<1>8. Honest(s)
  BY <1>6, <1>7 DEF Honest
<1> QED
  BY <1>8 DEF s

\* A load in which nothing is due and that fits needs neither cleanup nor
\* eviction.
LEMMA LoadEnforced ==
    ASSUME InSync, NEW t, Loading(t), NoneDue(t), Fits(t),
           NEW o \in EnforceMaxmemory([t EXCEPT !.limit = config.limit], {})
    PROVE  /\ o.reply = "ok"
           /\ o.store.data = t.data /\ o.store.expiry = t.expiry
           /\ o.store.now = now /\ o.store.policy = config.policy
<1> DEFINE s == [t EXCEPT !.limit = config.limit]
<1>1. /\ StoreInv(s) /\ (config.limit = 0 => Tidy(s))
      /\ s.data = t.data /\ s.expiry = t.expiry /\ s.used = t.used
      /\ s.now = now /\ s.policy = config.policy /\ s.limit = config.limit
  BY LimitedInOrder
<1>2. o \in EnforceMaxmemory(s, {})
  OBVIOUS
<1> HIDE DEF s
<1>3. CASE config.limit = 0
  <2>1. o = Outcome(s, "ok")
    BY <1>1, <1>2, <1>3 DEF EnforceMaxmemory
  <2> QED
    BY <1>1, <2>1 DEF Outcome
<1>4. CASE config.limit # 0
  <2>1. PICK r \in EvictExpiredSamples(s) : o \in EnforceAfterCleanup(r)
    BY <1>1, <1>2, <1>4 DEF EnforceMaxmemory
  <2>2. /\ Leads(s, r, {}) /\ r.used <= s.used
        /\ \A k \in Keys : ~IsExpired(s, k) => r.data[k] = s.data[k] /\ r.expiry[k] = s.expiry[k]
    BY <1>1, EvictExpiredLeads
  <2>3. \A k \in Keys : ~IsExpired(s, k)
    BY <1>1 DEF NoneDue, IsExpired, Loading
  <2>4. StoreInv(r) /\ r.now = s.now /\ r.policy = s.policy /\ r.limit = s.limit
    BY <2>2 DEF Leads, Spares
  <2>5. r.data = s.data /\ r.expiry = s.expiry
    <3>1. /\ r.data \in [Keys -> Objects \cup {Missing}] /\ r.expiry \in [Keys -> Nat]
          /\ s.data \in [Keys -> Objects \cup {Missing}] /\ s.expiry \in [Keys -> Nat]
      BY <1>1, <2>4 DEF StoreInv, WellTyped
    <3>2. \A k \in Keys : r.data[k] = s.data[k] /\ r.expiry[k] = s.expiry[k]
      BY <2>2, <2>3
    <3>3. r.data = s.data
      BY ONLY <3>1, <3>2
    <3>4. r.expiry = s.expiry
      BY ONLY <3>1, <3>2
    <3> QED
      BY <3>3, <3>4
  <2>6. r.used <= r.limit
    <3>1. r.used \in Int /\ s.used \in Int /\ config.limit \in Int
      BY <1>1, <2>4 DEF StoreInv, WellTyped
    <3> QED
      BY <1>1, <1>4, <2>2, <2>4, <3>1 DEF Fits
  <2>7. o = Outcome(r, "ok")
    BY <2>1, <2>6 DEF EnforceAfterCleanup
  <2> QED
    BY <1>1, <2>4, <2>5, <2>7 DEF Outcome
<1> QED
  BY <1>3, <1>4

\* With the same values and no more deadlines a store is not larger.
LEMMA FewerDeadlines ==
    ASSUME BadFields = {}, NEW s, StoreInv(s), NEW t, StoreInv(t), t.data = s.data,
           Dates(t) \subseteq Dates(s)
    PROVE  t.used <= s.used
<1>1. s.sizes \in [Keys -> Nat] /\ t.sizes \in [Keys -> Nat]
  BY DEF StoreInv, WellTyped
<1>2. AreNats(s.sizes, Keys) /\ AreNats(t.sizes, Keys)
  BY <1>1 DEF AreNats
<1>3. ASSUME NEW k \in Keys PROVE t.sizes[k] <= s.sizes[k]
  <2>1. CASE s.data[k] = Missing
    BY <1>1, <2>1 DEF StoreInv, SizeInSync
  <2>2. CASE s.data[k] # Missing
    <3>1. Weight(s.data[k]) \in Nat
      BY <2>2, WeightType DEF StoreInv, WellTyped
    <3>2. s.expiry[k] = 0 => t.expiry[k] = 0
      <4>1. t.expiry[k] \in Nat
        BY DEF StoreInv, WellTyped
      <4>2. Cut(t.expiry[k]) \in Nat
        BY <4>1, CutIsBefore
      <4>3. t.expiry[k] # 0 => <<k, Cut(t.expiry[k])>> \in Dates(t)
        BY <4>2 DEF Dates
      <4>4. \A p \in Dates(s) : s.expiry[p[1]] # 0
        BY DEF Dates
      <4> QED
        BY <4>3, <4>4
    <3>3. /\ s.sizes[k] = KeyCost + Weight(s.data[k]) + (IF s.expiry[k] = 0 THEN 0 ELSE TtlCost)
          /\ t.sizes[k] = KeyCost + Weight(s.data[k]) + (IF t.expiry[k] = 0 THEN 0 ELSE TtlCost)
      BY <2>2 DEF StoreInv, SizeInSync, MayOverstate, EstimateKeySize
    <3> QED
      BY <3>1, <3>2, <3>3, CostAssumption
  <2> QED
    BY <2>1, <2>2
<1>4. Total(t.sizes) <= Total(s.sizes)
  BY <1>2, <1>3, KeysAssumption, SumMonotone DEF Total
<1> QED
  BY <1>4 DEF StoreInv, Counted

\* What a prefix of an honest log loads, it says.
LEMMA LoadSays ==
    ASSUME InSync, NEW log \in Seq(CmdRecords), Entries(log), NonStale(log, now),
           NEW l \in ReplayStream(log), l.reply # "error"
    PROVE  /\ Loading(l.store) /\ NoneDue(l.store)
           /\ EndsIn(log, Len(log), l.store.data, Dates(l.store), Dates(l.store))
           /\ DatedBy(l.store, log, Len(log))
<1>1. PICK d, V : IsRun(d, V, log, Len(log)) /\ Good(l, d[Len(log)], V[Len(log)])
  BY ReplayIsRun
<1>2. DatedBy(l.store, log, Len(log))
  BY <1>1, RunIsReplayed
<1> QED
  BY <1>1, <1>2 DEF Good, EndsIn

LEMMA LoadedHonest ==
    ASSUME InSync, NEW log \in Seq(CmdRecords), Entries(log),
           \A l \in ReplayStream(log) : Fits(l.store),
           NEW o \in ReplayAof(log), o.reply = "ok",
           NEW r, r.data = o.store.data, r.expiry = o.store.expiry, r.now = now,
           r.policy = config.policy, r.log = log
    PROVE  Honest(r)
<1>1. PICK l \in ReplayStream(log) :
        o \in IF l.reply = "error" THEN {l}
              ELSE EnforceMaxmemory([l.store EXCEPT !.limit = config.limit], {})
  BY DEF ReplayAof
<1>2. l.reply # "error" /\ o \in EnforceMaxmemory([l.store EXCEPT !.limit = config.limit], {})
  BY <1>1
<1>3. EntriesTo(log, Len(log))
  BY DEF Entries, EntriesTo
<1>4. CASE NonStale(log, now)
  <2>1. /\ Loading(l.store) /\ NoneDue(l.store)
        /\ EndsIn(log, Len(log), l.store.data, Dates(l.store), Dates(l.store))
        /\ DatedBy(l.store, log, Len(log))
    BY <1>2, <1>4, LoadSays
  <2>2. r.data = l.store.data /\ r.expiry = l.store.expiry
    BY <1>2, <2>1, LoadEnforced
  <2>3. Dates(r) = Dates(l.store) /\ Sure(r) \subseteq Dates(r)
    BY <2>2 DEF Dates, Sure
  <2>4. Says(r.now, r.log, r.data, Sure(r), Dates(r))
    BY <1>3, <2>1, <2>2, <2>3 DEF Says, SaysTo, EndsIn
  <2>5. ASSUME NEW k \in Keys, r.expiry[k] # 0 PROVE ~NonStale(log, r.expiry[k])
    <3>1. PICK i \in 1..Len(log) : log[i].op = "PEXPIREAT" /\ r.expiry[k] = log[i].at * MsTicks
      BY <2>1, <2>2, <2>5 DEF DatedBy
    <3>2. r.expiry[k] \in Nat
      BY <2>1, <2>2 DEF Loading, StoreInv, WellTyped
    <3>3. ~(log[i].at * MsTicks > r.expiry[k])
      BY <3>1, <3>2
    <3> QED
      BY <3>1, <3>3 DEF NonStale
  <2> QED
    BY <2>4, <2>5 DEF Honest, Noted
<1>5. CASE ~NonStale(log, now)
  BY <1>3, <1>5 DEF Honest, Noted, Says, SaysTo, NonStale, FreshTo
<1> QED
  BY <1>4, <1>5

LEMMA HonestPrefix ==
    ASSUME InSync, Honest(Store), NEW n \in 0..Len(aof)
    PROVE  SubSeq(aof, 1, n) \in Seq(CmdRecords) /\ Entries(SubSeq(aof, 1, n))
<1> DEFINE log == SubSeq(aof, 1, n)
<1>1. aof \in Seq(CmdRecords) /\ Len(aof) \in Nat
  BY LenProperties DEF InSync, TypeOK
<1>2. log \in Seq(CmdRecords) /\ Len(log) = n /\ \A i \in 1..n : log[i] = aof[i]
  BY <1>1, SubSeqProperties
<1>3. \A i \in 1..Len(aof) : IsEntry(aof[i])
  BY StoreFields DEF Honest, Says, SaysTo, EntriesTo
<1> HIDE DEF log
<1>4. \A i \in 1..n : i \in 1..Len(aof)
  BY <1>1
<1>5. Entries(log)
  BY <1>2, <1>3, <1>4 DEF Entries
<1> QED
  BY <1>2, <1>5 DEF log

LEMMA RestartHonest ==
    ASSUME ~EvictingLoads, InSync, Honest(Store), Restart
    PROVE  Honest(Store)'
<1>1. PICK n \in 0..Len(aof) :
        /\ \A l \in ReplayStream(SubSeq(aof, 1, n)) : Fits(l.store)
        /\ \E o \in ReplayAof(SubSeq(aof, 1, n)) :
              o.reply = "ok" /\ Become([o.store EXCEPT !.log = SubSeq(aof, 1, n)])
  BY DEF Restart
<1> DEFINE log == SubSeq(aof, 1, n)
<1>2. PICK o \in ReplayAof(log) : o.reply = "ok" /\ Become([o.store EXCEPT !.log = log])
  BY <1>1
<1>3. log \in Seq(CmdRecords) /\ Entries(log) /\ \A l \in ReplayStream(log) : Fits(l.store)
  BY <1>1, HonestPrefix
<1> HIDE DEF log
<1>4. StoreInv(o.store) /\ o.store.now = now /\ o.store.policy = config.policy
  BY <1>2, <1>3, LoadedInOrder
<1> DEFINE r == [o.store EXCEPT !.log = log]
<1>5. /\ r.data = o.store.data /\ r.expiry = o.store.expiry /\ r.now = now
      /\ r.policy = config.policy /\ r.log = log
  BY <1>4, SMT DEF StoreInv, WellTyped, Fields
<1>6. Become(r)
  BY <1>2
<1> HIDE DEF r
<1>7. Honest(r)
  BY <1>2, <1>3, <1>5, LoadedHonest
<1> QED
  BY <1>5, <1>6, <1>7, HonestBecomes

\* An honest log gives back the values, and the deadlines that it has.
LEMMA HonestLoads ==
    ASSUME BadFields = {}, InSync, Honest(Store), NoStaleDeadline, Fits(Store), NEW o \in Recovered
    PROVE  /\ o.reply = "ok" /\ o.store.data = data
           /\ o.store.expiry \in [Keys -> Nat]
           /\ Sure(Store) \subseteq Dates(o.store) /\ Dates(o.store) \subseteq Dates(Store)
           /\ DatedBy(o.store, aof, Len(aof))
<1> DEFINE s == Store
<1>1. StoreInv(s) /\ s.data = data /\ s.log = aof /\ s.now = now /\ Fits(s) /\ Honest(s)
  BY StoreInOrder, StoreFields
<1> HIDE DEF s
<1>2. aof \in Seq(CmdRecords) /\ DOMAIN aof = 1..Len(aof)
  BY LenProperties DEF InSync, TypeOK
<1>3. NonStale(aof, now)
  BY <1>2 DEF NoStaleDeadline, NonStale
<1>4. Entries(aof) /\ EndsIn(aof, Len(aof), data, Sure(s), Dates(s))
  BY <1>1, <1>3 DEF Honest, Says, SaysTo, EntriesTo, FreshTo, NonStale, Entries
<1>5. PICK d, V : /\ IsRun(d, V, aof, Len(aof)) /\ d[Len(aof)] = data
                  /\ Sure(s) \subseteq V[Len(aof)] /\ V[Len(aof)] \subseteq Dates(s)
  BY <1>4 DEF EndsIn
<1>6. PICK l \in ReplayStream(aof) :
        o \in IF l.reply = "error" THEN {l}
              ELSE EnforceMaxmemory([l.store EXCEPT !.limit = config.limit], {})
  BY DEF Recovered, ReplayAof
<1>7. Good(l, d[Len(aof)], V[Len(aof)]) /\ DatedBy(l.store, aof, Len(aof))
  BY <1>2, <1>3, <1>4, <1>5, RunIsReplayed
<1>8. /\ l.reply # "error" /\ Loading(l.store) /\ NoneDue(l.store)
      /\ l.store.data = data
      /\ Sure(s) \subseteq Dates(l.store) /\ Dates(l.store) \subseteq Dates(s)
  BY <1>5, <1>7 DEF Good
<1>9. Fits(l.store)
  <2>1. l.store.used <= s.used
    BY <1>1, <1>8, FewerDeadlines DEF Loading
  <2>2. l.store.used \in Int /\ s.used \in Int
    BY <1>1, <1>8 DEF Loading, StoreInv, WellTyped
  <2>3. config.limit \in Nat
    BY InstanceAssumption DEF InSync, TypeOK
  <2> QED
    BY <1>1, <2>1, <2>2, <2>3 DEF Fits
<1>10. /\ o.reply = "ok"
       /\ o.store.data = l.store.data /\ o.store.expiry = l.store.expiry
  BY <1>6, <1>8, <1>9, LoadEnforced
<1>11. l.store.expiry \in [Keys -> Nat]
  BY <1>8 DEF Loading, StoreInv, WellTyped
<1>12. Dates(o.store) = Dates(l.store) /\ DatedBy(o.store, aof, Len(aof))
  BY <1>7, <1>10 DEF Dates, DatedBy
<1> QED
  BY <1>8, <1>10, <1>11, <1>12 DEF s

LEMMA HonestRecovers ==
    ASSUME BadFields = {}, InSync, Honest(Store)
    PROVE  RecoversValues
  BY HonestLoads DEF RecoversValues

LEMMA HonestRecoversDeadlines ==
    ASSUME BadFields = {}, InSync, Honest(Store)
    PROVE  RecoversDeadlines
<1>1. SUFFICES ASSUME NoStaleDeadline, Fits(Store), config.policy \in Exact,
                      NEW o \in Recovered, NEW k \in Keys
               PROVE  o.store.expiry[k] = (expiry[k] \div MsTicks) * MsTicks
  BY DEF RecoversDeadlines, Exact, Live
<1> DEFINE s == Store
           r == o.store
<1>2. /\ r.expiry \in [Keys -> Nat] /\ DatedBy(r, aof, Len(aof))
      /\ Sure(s) \subseteq Dates(r) /\ Dates(r) \subseteq Dates(s)
  BY <1>1, HonestLoads
<1>3. /\ s.expiry = expiry /\ s.policy = config.policy /\ expiry \in [Keys -> Nat]
      /\ aof \in Seq(CmdRecords)
  BY StoreFields DEF InSync, TypeOK
<1> HIDE DEF s, r
<1>4. Dates(r) = Dates(s)
  BY <1>1, <1>2, <1>3 DEF Sure
<1>5. Cut(expiry[k]) \in Nat /\ Cut(r.expiry[k]) \in Nat
  BY <1>2, <1>3, CutIsBefore
<1>6. /\ r.expiry[k] # 0 => <<k, Cut(r.expiry[k])>> \in Dates(r)
      /\ expiry[k] # 0 => <<k, Cut(expiry[k])>> \in Dates(s)
  BY <1>3, <1>5 DEF Dates
<1>7. /\ \A p \in Dates(r) : r.expiry[p[1]] # 0 /\ p[2] = Cut(r.expiry[p[1]])
      /\ \A p \in Dates(s) : expiry[p[1]] # 0 /\ p[2] = Cut(expiry[p[1]])
  BY <1>3 DEF Dates
<1>8. (r.expiry[k] = 0 <=> expiry[k] = 0) /\ (expiry[k] # 0 => Cut(r.expiry[k]) = Cut(expiry[k]))
  BY <1>4, <1>6, <1>7
<1>9. CASE expiry[k] = 0
  <2>1. 0 * MsTicks = 0 /\ Cut(0 * MsTicks) = 0 * MsTicks
    BY CutWhole, MsTicksAssumption
  <2>2. Cut(expiry[k]) = 0
    BY <1>9, <2>1
  <2> QED
    BY <1>8, <1>9, <2>2 DEF Cut, r
<1>10. CASE expiry[k] # 0
  <2>1. PICK i \in 1..Len(aof) : aof[i].op = "PEXPIREAT" /\ r.expiry[k] = aof[i].at * MsTicks
    BY <1>2, <1>8, <1>10 DEF DatedBy
  <2>2. aof[i] \in CmdRecords
    BY <1>3
  <2>3. aof[i].at \in Nat
    BY <2>1, <2>2, RecordArgs
  <2>4. Cut(r.expiry[k]) = r.expiry[k]
    BY <2>1, <2>3, CutWhole
  <2> QED
    BY <1>8, <1>10, <2>4 DEF Cut, r
<1> QED
  BY <1>9, <1>10

LEMMA RecoveryHonest ==
    ASSUME Repeatable, ~EvictingLoads
    PROVE  RecoverySpec => [](InSync /\ Honest(Store))
<1>1. Init => InSync /\ Honest(Store)
  BY InSyncInit, InitHonest
<1>2. InSync /\ Honest(Store) /\ [RecoveryNext]_vars => InSync' /\ Honest(Store)'
  <2>1. SUFFICES ASSUME InSync, Honest(Store), [RecoveryNext]_vars
                 PROVE  InSync' /\ Honest(Store)'
    OBVIOUS
  <2>2. CASE [Next]_vars
    BY <2>1, <2>2, InSyncNext, NextHonest
  <2>3. CASE Restart
    BY <2>1, <2>3, RestartKeepsInv, RestartHonest
  <2> QED
    BY <2>1, <2>2, <2>3 DEF RecoveryNext
<1> DEFINE Inv == InSync /\ Honest(Store)
<1>3. Init => Inv
  BY <1>1
<1>4. Inv /\ [RecoveryNext]_vars => Inv'
  BY <1>2
<1> HIDE DEF Inv
<1>5. RecoverySpec => []Inv
  BY <1>3, <1>4, PTL DEF RecoverySpec
<1> QED
  BY <1>5 DEF Inv

\* Whatever was evicted, expired or undone, and wherever a power failure has
\* cut the log, replaying it gives every key the value it has, as long as no
\* deadline in it has passed: what recovery.cfg checks on two keys holds of
\* any keys, limits and policies.
THEOREM RestartsRecoverValues ==
    ASSUME Repeatable, ~EvictingLoads
    PROVE  RecoverySpec => []RecoversValues
<1>1. InSync /\ Honest(Store) => RecoversValues
  BY HonestRecovers DEF Repeatable
<1>2. RecoverySpec => [](InSync /\ Honest(Store))
  BY RecoveryHonest
<1> QED
  BY <1>1, <1>2, PTL

\* Under noeviction and allkeys-lru the keys also get back the deadlines they
\* have, each cut to whole milliseconds, as the log writes them: no deadline is
\* lost by SET, PERSIST, EXPIRE, a rollback or a purge, and none is left over
\* from an earlier value of the key.
THEOREM RestartsRecoverDeadlines ==
    ASSUME Repeatable, ~EvictingLoads
    PROVE  RecoverySpec => []RecoversDeadlines
<1>1. InSync /\ Honest(Store) => RecoversDeadlines
  BY HonestRecoversDeadlines DEF Repeatable
<1>2. RecoverySpec => [](InSync /\ Honest(Store))
  BY RecoveryHonest
<1> QED
  BY <1>1, <1>2, PTL
=============================================================================

-------------------------- MODULE DataStore_proof ---------------------------
(***************************************************************************)
(* What the methods of DataStore keep of the store record and what they    *)
(* change: its types, the agreement of its dictionaries, its memory        *)
(* counter, which keys a method may disturb; and what a write does: whom   *)
(* the eviction loop may choose, what a rolled-back write leaves, and what *)
(* an acknowledged one has stored.                                         *)
(***************************************************************************)
EXTENDS Commands, Sums, SequenceTheorems

Fields == {"data", "sizes", "used", "access", "clock", "expiry", "now", "limit",
           "policy", "logging", "log"}

\* the type of a store record
WellTyped(s) ==
    /\ DOMAIN s = Fields
    /\ s.data \in [Keys -> Objects \cup {Missing}]
    /\ s.sizes \in [Keys -> Nat]
    /\ s.used \in Int
    /\ s.access \in [Keys -> Nat]
    /\ s.clock \in Nat
    /\ s.expiry \in [Keys -> Nat]
    /\ s.now \in Nat
    /\ s.limit \in Nat
    /\ s.policy \in SUPPORTED_EVICTION_POLICIES
    /\ s.logging \in BOOLEAN
    /\ s.log \in Seq(CmdRecords)

Total(f) == SumFunctionOnSet(f, Keys)

\* the memory counter is the sum of the sizes
Counted(s) == s.used = Total(s.sizes)

\* a key has a value iff it has an access time
AccessInSync(s, k) == s.data[k] = Missing <=> s.access[k] = 0

\* a key has a size iff it has a value, and it is the estimate of the value,
\* or more for a hash that an HDEL may have left half done
SizeInSync(s, k) ==
    IF s.data[k] = Missing THEN s.sizes[k] = 0
    ELSE IF MayOverstate(s.data[k]) THEN s.sizes[k] >= EstimateKeySize(s, k)
    ELSE s.sizes[k] = EstimateKeySize(s, k)

\* no access time is in the future, and no two keys have the same
AccessInOrder(s, k) ==
    /\ s.access[k] <= s.clock
    /\ \A j \in Keys \ {k} : s.access[k] # 0 => s.access[j] # s.access[k]

\* what holds before and after every method of the store
StoreInv(s) ==
    /\ WellTyped(s)
    /\ Counted(s)
    /\ \A k \in Keys : AccessInSync(s, k) /\ SizeInSync(s, k) /\ AccessInOrder(s, k)

\* what holds inside a method that has changed the value or deadline of k
StoreInvBut(s, k) ==
    /\ WellTyped(s)
    /\ Counted(s)
    /\ \A j \in Keys : AccessInSync(s, j) /\ AccessInOrder(s, j)
    /\ \A j \in Keys \ {k} : SizeInSync(s, j)

-----------------------------------------------------------------------------
(***************************************************************************)
(* Sums over the keys.                                                     *)
(***************************************************************************)
LEMMA TotalType ==
    ASSUME NEW f \in [Keys -> Nat]
    PROVE  AreNats(f, Keys) /\ Total(f) \in Nat
<1>1. AreNats(f, Keys)
  BY DEF AreNats
<1> QED
  BY <1>1, KeysAssumption, SumType DEF Total

LEMMA TotalSet ==
    ASSUME NEW f \in [Keys -> Nat], NEW k \in Keys, NEW n \in Nat
    PROVE  /\ Total([f EXCEPT ![k] = n]) = Total(f) + n - f[k]
           /\ f[k] <= Total(f)
<1> DEFINE g == [f EXCEPT ![k] = n]
           rest == SumFunctionOnSet(f, Keys \ {k})
<1>1. AreNats(f, Keys) /\ AreNats(g, Keys)
  BY DEF AreNats
<1>2. Total(f) = f[k] + rest /\ rest \in Nat
  BY <1>1, KeysAssumption, SumTake DEF Total
<1>3. Total(g) = g[k] + SumFunctionOnSet(g, Keys \ {k})
  BY <1>1, KeysAssumption, SumTake DEF Total
<1>4. SumFunctionOnSet(g, Keys \ {k}) = rest
  <2>1. IsFiniteSet(Keys \ {k}) /\ AreNats(f, Keys \ {k})
    BY <1>1, KeysAssumption, FS_Difference DEF AreNats
  <2>2. \A x \in Keys \ {k} : f[x] = g[x]
    OBVIOUS
  <2> QED
    BY <2>1, <2>2, SumSame
<1>5. g[k] = n /\ f[k] \in Nat
  OBVIOUS
<1> HIDE DEF g, rest
<1>6. Total(g) = Total(f) + n - f[k] /\ f[k] <= Total(f)
  BY <1>2, <1>3, <1>4, <1>5
<1> QED
  BY <1>6 DEF g

LEMMA TotalDrop ==
    ASSUME NEW f \in [Keys -> Nat], NEW gone \in SUBSET Keys
    PROVE  /\ SumFunctionOnSet(f, gone) \in 0..Total(f)
           /\ Total([k \in Keys |-> IF k \in gone THEN 0 ELSE f[k]]) =
                Total(f) - SumFunctionOnSet(f, gone)
<1> DEFINE g == [k \in Keys |-> IF k \in gone THEN 0 ELSE f[k]]
           kept == Keys \ gone
<1>1. AreNats(f, Keys) /\ AreNats(g, Keys)
  BY DEF AreNats
<1>2. /\ IsFiniteSet(gone) /\ IsFiniteSet(kept) /\ AreNats(f, kept)
      /\ Cardinality(gone) \in Nat
  BY <1>1, KeysAssumption, FS_Subset, FS_Difference, FS_CardinalityType DEF AreNats
<1>3. /\ Total(f) = SumFunctionOnSet(f, gone) + SumFunctionOnSet(f, kept)
      /\ SumFunctionOnSet(f, gone) \in Nat /\ SumFunctionOnSet(f, kept) \in Nat
  BY <1>1, KeysAssumption, SumSplit DEF Total
<1>4. Total(g) = SumFunctionOnSet(g, gone) + SumFunctionOnSet(g, kept)
  BY <1>1, KeysAssumption, SumSplit DEF Total
<1>5. SumFunctionOnSet(g, gone) = 0
  <2>1. \A x \in gone : g[x] = 0
    OBVIOUS
  <2>2. SumFunctionOnSet(g, gone) = 0 * Cardinality(gone)
    BY <1>2, <2>1, SumConstant
  <2> QED
    BY <1>2, <2>2
<1>6. SumFunctionOnSet(g, kept) = SumFunctionOnSet(f, kept)
  <2>1. \A x \in kept : f[x] = g[x]
    OBVIOUS
  <2> QED
    BY <1>2, <2>1, SumSame
<1> HIDE DEF g, kept
<1>7. /\ SumFunctionOnSet(f, gone) \in 0..Total(f)
      /\ Total(g) = Total(f) - SumFunctionOnSet(f, gone)
  BY <1>3, <1>4, <1>5, <1>6
<1> QED
  BY <1>7 DEF g

LEMMA TotalZero ==
    ASSUME NEW f, \A k \in Keys : f[k] = 0
    PROVE  Total(f) = 0
<1>1. Total(f) = 0 * Cardinality(Keys)
  BY KeysAssumption, SumConstant DEF Total
<1> QED
  BY <1>1, KeysAssumption, FS_CardinalityType

-----------------------------------------------------------------------------
(***************************************************************************)
(* Values and sizes.                                                       *)
(***************************************************************************)
LEMMA WeightType ==
    ASSUME NEW v \in Objects
    PROVE  Weight(v) \in Nat
<1>1. CASE v \in Strings
  BY <1>1, SMT DEF Strings, Weight, StrLen
<1>2. CASE v \in Lists
  <2>1. v.type = "list" /\ v.items \in Seq(Elems)
    BY <1>2 DEF Lists
  <2>2. Len(v.items) \in Nat
    BY <2>1, LenProperties
  <2> QED
    BY <2>1, <2>2 DEF Weight
<1>3. CASE v \in Collections
  <2>1. v.type \in {"hash", "set", "zset"} /\ v.members \in SUBSET Elems
    BY <1>3 DEF Collections
  <2>2. Cardinality(v.members) \in Nat
    BY <2>1, ElemsAssumption, FS_Subset, FS_CardinalityType
  <2> QED
    BY <2>1, <2>2 DEF Weight
<1> QED
  BY <1>1, <1>2, <1>3 DEF Objects

LEMMA EstimateType ==
    ASSUME NEW s, WellTyped(s), NEW k \in Keys, s.data[k] # Missing
    PROVE  EstimateKeySize(s, k) \in Nat
<1>1. s.data[k] \in Objects
  BY DEF WellTyped
<1>2. Weight(s.data[k]) \in Nat
  BY <1>1, WeightType
<1> QED
  BY <1>2, CostAssumption DEF EstimateKeySize

\* The counter never drops below zero where it is a sum that has the removed
\* size as a part.
LEMMA MonusIs ==
    ASSUME NEW a \in Nat, NEW b \in 0..a
    PROVE  Monus(a, b) = a - b
  BY DEF Monus

-----------------------------------------------------------------------------
(***************************************************************************)
(* Single steps of the methods.                                            *)
(***************************************************************************)
LEMMA TouchIs ==
    ASSUME NEW s, WellTyped(s), NEW k \in Keys
    PROVE  LET t == TouchKey(s, k)
           IN  /\ DOMAIN t = Fields
               /\ t.data = s.data /\ t.sizes = s.sizes /\ t.used = s.used
               /\ t.expiry = s.expiry /\ t.now = s.now /\ t.limit = s.limit
               /\ t.policy = s.policy /\ t.logging = s.logging /\ t.log = s.log
               /\ s.data[k] = Missing => t = s
               /\ s.data[k] # Missing => /\ t.access = [s.access EXCEPT ![k] = s.clock + 1]
                                         /\ t.clock = s.clock + 1
  BY SMT DEF Fields, WellTyped, TouchKey

LEMMA TouchKeepsInv ==
    ASSUME NEW s, StoreInv(s), NEW k \in Keys
    PROVE  StoreInv(TouchKey(s, k))
<1> DEFINE t == TouchKey(s, k)
<1>1. CASE s.data[k] = Missing
  BY <1>1 DEF TouchKey
<1>2. CASE s.data[k] # Missing
  <2>1. /\ DOMAIN t = Fields
        /\ t.data = s.data /\ t.sizes = s.sizes /\ t.used = s.used
        /\ t.expiry = s.expiry /\ t.now = s.now /\ t.limit = s.limit
        /\ t.policy = s.policy /\ t.logging = s.logging /\ t.log = s.log
        /\ t.access = [s.access EXCEPT ![k] = s.clock + 1]
        /\ t.clock = s.clock + 1
    BY <1>2, TouchIs DEF StoreInv
  <2> HIDE DEF t
  <2>2. WellTyped(t)
    BY <2>1 DEF StoreInv, WellTyped
  <2>3. Counted(t)
    BY <2>1 DEF StoreInv, Counted
  <2>4. \A j \in Keys : AccessInSync(t, j) /\ SizeInSync(t, j)
    BY <1>2, <2>1 DEF StoreInv, WellTyped, AccessInSync, SizeInSync, EstimateKeySize
  <2>5. \A j \in Keys : AccessInOrder(t, j)
    BY <2>1, SMT DEF StoreInv, WellTyped, AccessInOrder
  <2> QED
    BY <2>2, <2>3, <2>4, <2>5 DEF StoreInv, t
<1> QED
  BY <1>1, <1>2

LEMMA SyncIs ==
    ASSUME NEW s, WellTyped(s), Counted(s), NEW k \in Keys
    PROVE  LET t == SyncMemoryForKey(s, k)
               size == IF s.data[k] = Missing THEN 0 ELSE EstimateKeySize(s, k)
           IN  /\ WellTyped(t)
               /\ Counted(t)
               /\ t.sizes = [s.sizes EXCEPT ![k] = size]
               /\ t.data = s.data /\ t.access = s.access /\ t.clock = s.clock
               /\ t.expiry = s.expiry /\ t.now = s.now /\ t.limit = s.limit
               /\ t.policy = s.policy /\ t.logging = s.logging /\ t.log = s.log
<1> DEFINE t == SyncMemoryForKey(s, k)
           size == IF s.data[k] = Missing THEN 0 ELSE EstimateKeySize(s, k)
<1>1. size \in Nat
  BY EstimateType
<1>2. /\ Total(s.sizes) \in Nat /\ s.sizes[k] \in 0..Total(s.sizes)
      /\ Total([s.sizes EXCEPT ![k] = size]) = Total(s.sizes) + size - s.sizes[k]
  <2>1. s.sizes \in [Keys -> Nat] /\ s.sizes[k] \in Nat
    BY DEF WellTyped
  <2> HIDE DEF size
  <2> QED
    BY <1>1, <2>1, TotalType, TotalSet
<1>3. Monus(s.used, s.sizes[k]) = s.used - s.sizes[k]
  BY <1>2, MonusIs DEF Counted
<1>4. /\ DOMAIN t = Fields
      /\ t.sizes = [s.sizes EXCEPT ![k] = size]
      /\ t.used = s.used + size - s.sizes[k]
      /\ t.data = s.data /\ t.access = s.access /\ t.clock = s.clock
      /\ t.expiry = s.expiry /\ t.now = s.now /\ t.limit = s.limit
      /\ t.policy = s.policy /\ t.logging = s.logging /\ t.log = s.log
  <2>1. s.used \in Int /\ s.sizes[k] \in Nat
    BY DEF WellTyped
  <2>2. CASE s.data[k] = Missing
    BY <1>3, <2>1, <2>2, SMT DEF SyncMemoryForKey, WellTyped, Fields
  <2>3. CASE s.data[k] # Missing
    BY <2>3, SMT DEF SyncMemoryForKey, WellTyped, Fields
  <2> QED
    BY <2>2, <2>3
<1> HIDE DEF t, size
<1>5. WellTyped(t)
  BY <1>1, <1>4, SMT DEF WellTyped
<1>6. Counted(t)
  BY <1>2, <1>4 DEF Counted
<1> QED
  BY <1>4, <1>5, <1>6 DEF t, size

LEMMA SyncRestoresInv ==
    ASSUME NEW s, NEW k \in Keys, StoreInvBut(s, k)
    PROVE  StoreInv(SyncMemoryForKey(s, k))
<1> DEFINE t == SyncMemoryForKey(s, k)
           size == IF s.data[k] = Missing THEN 0 ELSE EstimateKeySize(s, k)
<1>1. /\ WellTyped(t)
      /\ Counted(t)
      /\ t.sizes = [s.sizes EXCEPT ![k] = size]
      /\ t.data = s.data /\ t.access = s.access /\ t.clock = s.clock
      /\ t.expiry = s.expiry
  BY SyncIs DEF StoreInvBut
<1> HIDE DEF t
<1>2. \A j \in Keys : AccessInSync(t, j) /\ AccessInOrder(t, j)
  BY <1>1 DEF StoreInvBut, AccessInSync, AccessInOrder
<1>3. \A j \in Keys : SizeInSync(t, j)
  BY <1>1 DEF StoreInvBut, WellTyped, SizeInSync, EstimateKeySize
<1> QED
  BY <1>1, <1>2, <1>3 DEF StoreInv, t

-----------------------------------------------------------------------------
(***************************************************************************)
(* Deletion and lazy expiry.                                               *)
(***************************************************************************)
LEMMA ArgListsAre ==
    ASSUME NEW S
    PROVE  ArgLists(S) = [1..1 -> S] \cup [1..2 -> S]
<1>1. 1..MaxArgs = {1, 2}
  BY DEF MaxArgs
<1> QED
  BY <1>1, Zenon DEF ArgLists

LEMMA DelRecordType ==
    ASSUME NEW k \in Keys
    PROVE  DelRecord(k) \in CmdRecords
<1>1. <<k>> \in ArgLists(Keys)
  BY ArgListsAre
<1> QED
  BY <1>1 DEF DelRecord, CmdRecords

\* The DEL records of automatic deletions are commands of the log.
LEMMA LogDeletesType ==
    ASSUME NEW log \in Seq(CmdRecords), NEW w \in Seq(Keys)
    PROVE  log \o [i \in 1..Len(w) |-> DelRecord(w[i])] \in Seq(CmdRecords)
<1> DEFINE records == [i \in 1..Len(w) |-> DelRecord(w[i])]
<1>1. Len(w) \in Nat /\ \A i \in 1..Len(w) : w[i] \in Keys
  BY LenProperties, ElementOfSeq
<1>2. \A i \in 1..Len(w) : DelRecord(w[i]) \in CmdRecords
  BY <1>1, DelRecordType
<1>3. records \in [1..Len(w) -> CmdRecords]
  BY <1>2
<1>4. records \in Seq(CmdRecords)
  BY <1>1, <1>3, SMT
<1> QED
  BY <1>4, ConcatProperties

LEMMA ToSetIs ==
    ASSUME NEW S, NEW w \in Seq(S)
    PROVE  /\ ToSet(w) = {w[i] : i \in 1..Len(w)}
           /\ ToSet(w) \subseteq S
<1>1. \A i \in 1..Len(w) : w[i] \in S
  BY ElementOfSeq
<1> QED
  BY <1>1, LenProperties DEF ToSet

LEMMA OneKey ==
    ASSUME NEW k \in Keys
    PROVE  <<k>> \in Seq(Keys) /\ ToSet(<<k>>) = {k}
<1>1. <<k>> \in Seq(Keys) /\ DOMAIN <<k>> = {1} /\ <<k>>[1] = k
  OBVIOUS
<1> QED
  BY <1>1 DEF ToSet

LEMMA DeleteKeysIs ==
    ASSUME NEW s, StoreInv(s), NEW w \in Seq(Keys), NEW reason
    PROVE  LET t == DeleteKeys(s, w, reason)
               gone == ToSet(w)
           IN  /\ WellTyped(t)
               /\ Counted(t)
               /\ t.used <= s.used
               /\ t.data = [k \in Keys |-> IF k \in gone THEN Missing ELSE s.data[k]]
               /\ t.sizes = [k \in Keys |-> IF k \in gone THEN 0 ELSE s.sizes[k]]
               /\ t.access = [k \in Keys |-> IF k \in gone THEN 0 ELSE s.access[k]]
               /\ t.expiry = [k \in Keys |-> IF k \in gone THEN 0 ELSE s.expiry[k]]
               /\ t.clock = s.clock /\ t.now = s.now /\ t.limit = s.limit
               /\ t.policy = s.policy /\ t.logging = s.logging
<1> DEFINE gone == ToSet(w)
           t == DeleteKeys(s, w, reason)
           sum == SumFunctionOnSet(s.sizes, gone)
<1>1. /\ sum \in 0..Total(s.sizes) /\ Total(s.sizes) \in Nat
      /\ Total([k \in Keys |-> IF k \in gone THEN 0 ELSE s.sizes[k]]) = Total(s.sizes) - sum
  BY ToSetIs, TotalDrop, TotalType DEF StoreInv, WellTyped
<1>2. s.log \o [i \in 1..Len(w) |-> DelRecord(w[i])] \in Seq(CmdRecords)
  BY LogDeletesType DEF StoreInv, WellTyped
<1>3. Monus(s.used, sum) = s.used - sum
  BY <1>1, MonusIs DEF StoreInv, Counted
<1>4. /\ DOMAIN t = Fields
      /\ t.used = Monus(s.used, sum)
      /\ t.data = [k \in Keys |-> IF k \in gone THEN Missing ELSE s.data[k]]
      /\ t.sizes = [k \in Keys |-> IF k \in gone THEN 0 ELSE s.sizes[k]]
      /\ t.access = [k \in Keys |-> IF k \in gone THEN 0 ELSE s.access[k]]
      /\ t.expiry = [k \in Keys |-> IF k \in gone THEN 0 ELSE s.expiry[k]]
      /\ t.clock = s.clock /\ t.now = s.now /\ t.limit = s.limit
      /\ t.policy = s.policy /\ t.logging = s.logging
      /\ t.log \in {s.log, s.log \o [i \in 1..Len(w) |-> DelRecord(w[i])]}
  BY SMT DEF DeleteKeys, StoreInv, WellTyped, Fields
<1> HIDE DEF t, gone, sum
<1>5. WellTyped(t)
  <2>1. /\ t.data \in [Keys -> Objects \cup {Missing}]
        /\ t.sizes \in [Keys -> Nat] /\ t.access \in [Keys -> Nat]
        /\ t.expiry \in [Keys -> Nat]
    BY <1>4, SMT DEF StoreInv, WellTyped
  <2>2. t.log \in Seq(CmdRecords)
    BY <1>2, <1>4 DEF StoreInv, WellTyped
  <2>3. t.used \in Int
    BY <1>1, <1>3, <1>4 DEF StoreInv, WellTyped
  <2> QED
    BY <1>4, <2>1, <2>2, <2>3 DEF StoreInv, WellTyped
<1>6. Counted(t)
  BY <1>1, <1>3, <1>4 DEF StoreInv, Counted
<1>7. t.used <= s.used
  BY <1>1, <1>3, <1>4 DEF StoreInv, WellTyped
<1> QED
  BY <1>4, <1>5, <1>6, <1>7 DEF t, gone

\* a deleted key is gone from all dictionaries
LEMMA DeleteKeysDrops ==
    ASSUME NEW s, StoreInv(s), NEW w \in Seq(Keys), NEW reason, NEW k \in ToSet(w) \cap Keys
    PROVE  DeleteKeys(s, w, reason).data[k] = Missing
<1> DEFINE t == DeleteKeys(s, w, reason)
           gone == ToSet(w)
<1>1. /\ WellTyped(t)
      /\ Counted(t)
      /\ t.used <= s.used
      /\ t.data = [j \in Keys |-> IF j \in gone THEN Missing ELSE s.data[j]]
      /\ t.sizes = [j \in Keys |-> IF j \in gone THEN 0 ELSE s.sizes[j]]
      /\ t.access = [j \in Keys |-> IF j \in gone THEN 0 ELSE s.access[j]]
      /\ t.expiry = [j \in Keys |-> IF j \in gone THEN 0 ELSE s.expiry[j]]
      /\ t.clock = s.clock /\ t.now = s.now /\ t.limit = s.limit
      /\ t.policy = s.policy /\ t.logging = s.logging
  BY DeleteKeysIs
<1> HIDE DEF t, gone
<1>2. t.data[k] = Missing
  BY <1>1 DEF gone
<1> QED
  BY <1>2 DEF t

LEMMA DeleteKeysKeepsInv ==
    ASSUME NEW s, StoreInv(s), NEW w \in Seq(Keys), NEW reason
    PROVE  StoreInv(DeleteKeys(s, w, reason))
<1> DEFINE gone == ToSet(w)
           t == DeleteKeys(s, w, reason)
<1>1. /\ WellTyped(t)
      /\ Counted(t)
      /\ t.data = [k \in Keys |-> IF k \in gone THEN Missing ELSE s.data[k]]
      /\ t.sizes = [k \in Keys |-> IF k \in gone THEN 0 ELSE s.sizes[k]]
      /\ t.access = [k \in Keys |-> IF k \in gone THEN 0 ELSE s.access[k]]
      /\ t.expiry = [k \in Keys |-> IF k \in gone THEN 0 ELSE s.expiry[k]]
      /\ t.clock = s.clock
  BY DeleteKeysIs
<1> HIDE DEF t, gone
<1>2. \A k \in Keys : AccessInSync(t, k) /\ SizeInSync(t, k)
  BY <1>1, SMT DEF StoreInv, WellTyped, AccessInSync, SizeInSync, EstimateKeySize
<1>3. \A k \in Keys : AccessInOrder(t, k)
  BY <1>1, SMT DEF StoreInv, WellTyped, AccessInOrder
<1>4. StoreInv(t)
  BY <1>1, <1>2, <1>3 DEF StoreInv
<1> QED
  BY <1>4 DEF t

LEMMA DeleteKeepsInv ==
    ASSUME NEW s, StoreInv(s), NEW k \in Keys, NEW reason
    PROVE  StoreInv(Delete(s, k, reason))
<1>1. <<k>> \in Seq(Keys)
  OBVIOUS
<1> QED
  BY <1>1, DeleteKeysKeepsInv DEF Delete

LEMMA LookupKeepsInv ==
    ASSUME NEW s, StoreInv(s), NEW k \in Keys
    PROVE  StoreInv(Lookup(s, k))
<1>1. StoreInv(PurgeIfExpired(s, k))
  BY DeleteKeepsInv DEF PurgeIfExpired
<1> QED
  BY <1>1, TouchKeepsInv DEF Lookup

LEMMA FlushIs ==
    ASSUME NEW s, WellTyped(s)
    PROVE  LET t == Flush(s)
           IN  /\ DOMAIN t = Fields
               /\ t.used = 0
               /\ t.data = [k \in Keys |-> Missing]
               /\ t.sizes = [k \in Keys |-> 0]
               /\ t.access = [k \in Keys |-> 0]
               /\ t.expiry = [k \in Keys |-> IF k \in Present(s) THEN 0 ELSE s.expiry[k]]
               /\ t.clock = s.clock /\ t.now = s.now /\ t.limit = s.limit
               /\ t.policy = s.policy /\ t.logging = s.logging /\ t.log = s.log
  BY SMT DEF Flush, WellTyped, Fields

LEMMA FlushKeepsInv ==
    ASSUME NEW s, StoreInv(s)
    PROVE  StoreInv(Flush(s))
<1> DEFINE t == Flush(s)
<1>1. /\ DOMAIN t = Fields
      /\ t.used = 0
      /\ t.data = [k \in Keys |-> Missing]
      /\ t.sizes = [k \in Keys |-> 0]
      /\ t.access = [k \in Keys |-> 0]
      /\ t.expiry = [k \in Keys |-> IF k \in Present(s) THEN 0 ELSE s.expiry[k]]
      /\ t.clock = s.clock /\ t.now = s.now /\ t.limit = s.limit
      /\ t.policy = s.policy /\ t.logging = s.logging /\ t.log = s.log
  BY FlushIs DEF StoreInv
<1> HIDE DEF t
<1>2. WellTyped(t)
  <2>1. t.expiry \in [Keys -> Nat]
    BY <1>1 DEF StoreInv, WellTyped
  <2> QED
    BY <1>1, <2>1 DEF StoreInv, WellTyped
<1>3. Counted(t)
  BY <1>1, TotalZero DEF Counted
<1>4. \A k \in Keys : AccessInSync(t, k) /\ SizeInSync(t, k) /\ AccessInOrder(t, k)
  BY <1>1 DEF StoreInv, WellTyped, AccessInSync, SizeInSync, AccessInOrder
<1> QED
  BY <1>2, <1>3, <1>4 DEF StoreInv, t

\* The sequence of expired keys that a cycle deletes is a sequence of keys,
\* each of them once.
LEMMA SetToSeqIs ==
    ASSUME NEW S, S \subseteq Keys
    PROVE  SetToSeq(S) \in Seq(Keys) /\ ToSet(SetToSeq(S)) = S
<1>1. IsFiniteSet(S)
  BY KeysAssumption, FS_Subset
<1>2. PICK n \in Nat : ExistsBijection(1..n, S)
  BY <1>1, FS_NatBijection
<1>3. Cardinality(S) = n
  BY <1>2, FS_CountingElements
<1>4. PICK f : f \in Bijection(1..n, S)
  BY <1>2 DEF ExistsBijection
<1>5. f \in [1..n -> S] /\ IsInjective(f)
  BY <1>4 DEF Bijection, Injection
<1> DEFINE q == SetToSeq(S)
<1>6. q \in [1..n -> S] /\ IsInjective(q)
  BY <1>3, <1>5 DEF SetToSeq
<1> HIDE DEF q
<1>7. q \in Injection(1..n, S)
  BY <1>6 DEF Injection
<1>8. IsFiniteSet(1..n) /\ Cardinality(1..n) = n
  BY FS_Interval
<1>9. q \in Surjection(1..n, S)
  BY <1>1, <1>3, <1>7, <1>8, FS_Injection
<1>10. ToSet(q) = S
  BY <1>6, <1>9 DEF Surjection, ToSet
<1>11. q \in Seq(Keys)
  BY <1>6, SMT
<1> QED
  BY <1>10, <1>11 DEF q

LEMMA PurgeAllKeepsInv ==
    ASSUME NEW s, StoreInv(s)
    PROVE  StoreInv(PurgeAll(s))
<1>1. SetToSeq(ExpiredKeys(s)) \in Seq(Keys)
  BY SetToSeqIs DEF ExpiredKeys, Present
<1> QED
  BY <1>1, DeleteKeysKeepsInv DEF PurgeAll

-----------------------------------------------------------------------------
(***************************************************************************)
(* ExpiryManager.                                                          *)
(***************************************************************************)
LEMMA SetExpiryAtIs ==
    ASSUME NEW s, StoreInv(s), NEW k \in Keys, NEW at \in Nat
    PROVE  LET t == SetExpiryAt(s, k, at)
           IN  /\ StoreInv(t)
               /\ t.data = s.data /\ t.access = s.access /\ t.clock = s.clock
               /\ t.expiry = [s.expiry EXCEPT ![k] = at]
               /\ \A j \in Keys \ {k} : t.sizes[j] = s.sizes[j]
               /\ t.data[k] # Missing => t.sizes[k] = EstimateKeySize(t, k)
               /\ t.now = s.now /\ t.limit = s.limit
               /\ t.policy = s.policy /\ t.logging = s.logging
<1> DEFINE u == [s EXCEPT !.expiry[k] = at]
           t == SyncMemoryForKey(u, k)
<1>1. /\ DOMAIN u = Fields
      /\ u.data = s.data /\ u.sizes = s.sizes /\ u.used = s.used
      /\ u.access = s.access /\ u.clock = s.clock
      /\ u.expiry = [s.expiry EXCEPT ![k] = at]
      /\ u.now = s.now /\ u.limit = s.limit
      /\ u.policy = s.policy /\ u.logging = s.logging /\ u.log = s.log
  BY SMT DEF StoreInv, WellTyped, Fields
<1>2. SetExpiryAt(s, k, at) = t
  BY DEF SetExpiryAt
<1> HIDE DEF u
<1>3. WellTyped(u) /\ Counted(u)
  BY <1>1 DEF StoreInv, WellTyped, Counted
<1>4. /\ \A j \in Keys : AccessInSync(u, j) /\ AccessInOrder(u, j)
      /\ \A j \in Keys \ {k} : SizeInSync(u, j)
  BY <1>1 DEF StoreInv, WellTyped, AccessInSync, AccessInOrder, SizeInSync, EstimateKeySize
<1>5. StoreInvBut(u, k)
  BY <1>3, <1>4 DEF StoreInvBut
<1>6. StoreInv(t)
  BY <1>5, SyncRestoresInv
<1> DEFINE size == IF u.data[k] = Missing THEN 0 ELSE EstimateKeySize(u, k)
<1>7. /\ t.data = u.data /\ t.access = u.access /\ t.clock = u.clock
      /\ t.sizes = [u.sizes EXCEPT ![k] = size]
      /\ t.expiry = u.expiry /\ t.now = u.now /\ t.limit = u.limit
      /\ t.policy = u.policy /\ t.logging = u.logging
  BY <1>3, SyncIs
<1> HIDE DEF t
<1>8. t.data[k] # Missing => size = EstimateKeySize(t, k)
  BY <1>7 DEF EstimateKeySize
<1> HIDE DEF size
<1>9. /\ \A j \in Keys \ {k} : t.sizes[j] = s.sizes[j]
      /\ t.data[k] # Missing => t.sizes[k] = EstimateKeySize(t, k)
  BY <1>1, <1>7, <1>8 DEF StoreInv, WellTyped
<1> QED
  BY <1>1, <1>2, <1>6, <1>7, <1>9

LEMMA RemoveExpiryIs ==
    ASSUME NEW s, NEW k
    PROVE  RemoveExpiry(s, k) = SetExpiryAt(s, k, 0)
  BY DEF RemoveExpiry, SetExpiryAt

LEMMA SampledExpiredType ==
    ASSUME NEW s, NEW expired \in SampledExpired(s)
    PROVE  expired \subseteq ExpiredKeys(s) /\ expired \subseteq Keys
<1>1. ExpiredKeys(s) \subseteq Keys
  BY DEF ExpiredKeys, Present
<1>2. expired \subseteq ExpiredKeys(s)
  BY Zenon DEF SampledExpired
<1> QED
  BY <1>1, <1>2

LEMMA EvictExpiredKeepsInv ==
    ASSUME NEW s, StoreInv(s), NEW t \in EvictExpiredSamples(s)
    PROVE  StoreInv(t)
<1>1. PICK expired \in SampledExpired(s) : t = DeleteKeys(s, SetToSeq(expired), "expiry")
  BY DEF EvictExpiredSamples
<1>2. SetToSeq(expired) \in Seq(Keys)
  BY SampledExpiredType, SetToSeqIs
<1> QED
  BY <1>1, <1>2, DeleteKeysKeepsInv

-----------------------------------------------------------------------------
(***************************************************************************)
(* What a method that works on the keys of K may do to the others: they    *)
(* keep their entries, unless they expired or the policy chose them.       *)
(***************************************************************************)
Evicts(s, t, k) == s.data[k] # Missing /\ t.data[k] = Missing /\ ~IsExpired(s, k)

MayEvict(s, k) ==
    /\ s.limit # 0 /\ s.policy # "noeviction"
    /\ s.policy = "volatile-ttl" => s.expiry[k] # 0

\* the policy prefers the victim k to j
Precedes(s, k, j) ==
    /\ s.policy = "allkeys-lru" => s.access[k] < s.access[j]
    /\ s.policy = "volatile-ttl" => s.expiry[j] = 0 \/ s.expiry[k] <= s.expiry[j]

SameAt(s, t, k) ==
    /\ t.data[k] = s.data[k] /\ t.sizes[k] = s.sizes[k]
    /\ t.access[k] = s.access[k] /\ t.expiry[k] = s.expiry[k]

SparesKey(s, t, K, k) ==
    /\ t.data[k] # Missing => SameAt(s, t, k)
    /\ s.data[k] = Missing => t.data[k] = Missing /\ t.expiry[k] = s.expiry[k]
    /\ Evicts(s, t, k) =>
          /\ MayEvict(s, k)
          /\ \A j \in Keys \ K : t.data[j] # Missing => Precedes(s, k, j)

Renewed(s, t, k) == t.access[k] \in {0, s.access[k]} \/ t.access[k] > s.clock

Spares(s, t, K) ==
    /\ t.now = s.now /\ t.limit = s.limit /\ t.policy = s.policy
    /\ s.clock <= t.clock
    /\ \A k \in Keys : Renewed(s, t, k)
    /\ \A k \in Keys \ K : SparesKey(s, t, K, k)

\* what the values are counted with, deadlines aside
BaseSize(s) ==
    [k \in Keys |-> IF s.data[k] = Missing THEN 0
                    ELSE s.sizes[k] - (IF s.expiry[k] = 0 THEN 0 ELSE TtlCost)]

\* no value is counted with more than before
Lighter(s, t) == \A k \in Keys : t.data[k] # Missing => BaseSize(t)[k] <= BaseSize(s)[k]

\* what holds between commands, but not inside one that writes
ValuesFit(s) == s.limit # 0 => Total(BaseSize(s)) <= s.limit
DeadlinesLive(s) == s.limit = 0 => \A k \in Keys : s.expiry[k] # 0 => s.data[k] # Missing
Tidy(s) == ValuesFit(s) /\ DeadlinesLive(s)

\* a correct way from s to t
Leads(s, t, K) ==
    /\ StoreInv(t)
    /\ Spares(s, t, K)
    /\ Tidy(s) => Tidy(t)

\* t has no value that s does not have
KeptOrGone(s, t, k) == t.data[k] \in {s.data[k], Missing}
Shrinks(s, t) == \A k \in Keys : KeptOrGone(s, t, k)

LEMMA BaseSizeType ==
    ASSUME NEW s, StoreInv(s)
    PROVE  /\ BaseSize(s) \in [Keys -> Nat]
           /\ \A k \in Keys : s.data[k] # Missing => BaseSize(s)[k] >= KeyCost + Weight(s.data[k])
<1> DEFINE deadline(k) == IF s.expiry[k] = 0 THEN 0 ELSE TtlCost
<1>1. ASSUME NEW k \in Keys, s.data[k] # Missing
      PROVE  /\ s.sizes[k] - deadline(k) \in Nat
             /\ s.sizes[k] - deadline(k) >= KeyCost + Weight(s.data[k])
  <2>1. Weight(s.data[k]) \in Nat
    BY <1>1, WeightType DEF StoreInv, WellTyped
  <2>2. s.sizes[k] >= KeyCost + Weight(s.data[k]) + deadline(k)
    <3>1. s.sizes[k] \in Nat /\ EstimateKeySize(s, k) \in Nat
      BY <1>1, EstimateType DEF StoreInv, WellTyped
    <3>2. s.sizes[k] >= EstimateKeySize(s, k)
      BY <1>1, <3>1 DEF StoreInv, SizeInSync
    <3> QED
      BY <3>2 DEF EstimateKeySize
  <2>3. deadline(k) \in Nat /\ s.sizes[k] \in Nat
    BY CostAssumption DEF StoreInv, WellTyped
  <2> HIDE DEF deadline
  <2> QED
    BY <2>1, <2>2, <2>3, CostAssumption
<1> QED
  BY <1>1 DEF BaseSize

LEMMA ShrunkFits ==
    ASSUME NEW s, StoreInv(s), NEW t, StoreInv(t), Lighter(s, t), t.limit = s.limit, ValuesFit(s)
    PROVE  ValuesFit(t)
<1>1. BaseSize(s) \in [Keys -> Nat] /\ BaseSize(t) \in [Keys -> Nat]
  BY BaseSizeType
<1>2. \A k \in Keys : t.data[k] = Missing => BaseSize(t)[k] = 0
  BY DEF BaseSize
<1>3. \A k \in Keys : BaseSize(t)[k] <= BaseSize(s)[k]
  BY <1>1, <1>2 DEF Lighter
<1>4. Total(BaseSize(t)) <= Total(BaseSize(s))
  BY <1>1, <1>3, KeysAssumption, TotalType, SumMonotone DEF Total
<1>5. Total(BaseSize(t)) \in Nat /\ Total(BaseSize(s)) \in Nat /\ s.limit \in Nat
  BY <1>1, TotalType DEF StoreInv, WellTyped
<1> QED
  BY <1>4, <1>5 DEF ValuesFit

\* A value that is left alone, with its size and its deadline.
LEMMA SameIsLighter ==
    ASSUME NEW s, NEW t, StoreInv(s), StoreInv(t),
           \A k \in Keys : t.data[k] # Missing =>
              s.data[k] # Missing /\ t.sizes[k] = s.sizes[k] /\ t.expiry[k] = s.expiry[k]
    PROVE  Lighter(s, t)
<1>1. \A k \in Keys : t.data[k] # Missing => BaseSize(t)[k] = BaseSize(s)[k]
  BY DEF BaseSize
<1>2. BaseSize(s) \in [Keys -> Nat]
  BY BaseSizeType
<1> QED
  BY <1>1, <1>2 DEF Lighter

\* A value that is counted anew is counted with no more than before.
LEMMA ExactIsLight ==
    ASSUME NEW s, NEW t, StoreInv(s), StoreInv(t), NEW k \in Keys, t.data[k] # Missing,
           t.data[k] = s.data[k], t.sizes[k] = EstimateKeySize(t, k)
    PROVE  BaseSize(t)[k] <= BaseSize(s)[k]
<1>1. BaseSize(t)[k] = t.sizes[k] - (IF t.expiry[k] = 0 THEN 0 ELSE TtlCost)
  BY DEF BaseSize
<1>2. Weight(t.data[k]) \in Nat
  BY WeightType DEF StoreInv, WellTyped
<1>3. BaseSize(t)[k] = KeyCost + Weight(t.data[k])
  BY <1>1, <1>2, CostAssumption DEF EstimateKeySize
<1> QED
  BY <1>3, BaseSizeType

\* The counter is made of the values and of the deadlines of the keys.
LEMMA UsedIs ==
    ASSUME NEW s, StoreInv(s)
    PROVE  /\ Total(BaseSize(s)) \in Nat
           /\ Cardinality({k \in Present(s) : s.expiry[k] # 0}) \in Nat
           /\ s.used = Total(BaseSize(s))
                         + TtlCost * Cardinality({k \in Present(s) : s.expiry[k] # 0})
<1> DEFINE V == {k \in Present(s) : s.expiry[k] # 0}
           f == BaseSize(s)
           g == [k \in Keys |-> IF k \in V THEN TtlCost ELSE 0]
           rest == Keys \ V
<1>1. V \in SUBSET Keys /\ IsFiniteSet(V) /\ IsFiniteSet(rest)
      /\ Cardinality(V) \in Nat /\ Cardinality(rest) \in Nat
  BY KeysAssumption, FS_Subset, FS_Difference, FS_CardinalityType DEF Present
<1>2. f \in [Keys -> Nat] /\ g \in [Keys -> Nat]
  BY BaseSizeType, CostAssumption DEF StoreInv
<1>3. ASSUME NEW k \in Keys PROVE s.sizes[k] = f[k] + g[k]
  <2>1. CASE s.data[k] = Missing
    BY <2>1 DEF StoreInv, SizeInSync, BaseSize, Present
  <2>2. CASE s.data[k] # Missing
    <3>1. s.sizes[k] \in Nat
      BY DEF StoreInv, WellTyped
    <3>2. f[k] = s.sizes[k] - (IF s.expiry[k] = 0 THEN 0 ELSE TtlCost)
      BY <2>2 DEF BaseSize
    <3>3. g[k] = IF s.expiry[k] = 0 THEN 0 ELSE TtlCost
      BY <2>2 DEF Present
    <3> HIDE DEF f, g
    <3> QED
      BY <3>1, <3>2, <3>3, CostAssumption
  <2> QED
    BY <2>1, <2>2
<1> HIDE DEF f
<1>4. AreNats(f, Keys) /\ AreNats(g, Keys) /\ AreNats(g, V)
  BY <1>1, <1>2 DEF AreNats
<1>5. Total(s.sizes) = Total(f) + Total(g)
  BY <1>3, <1>4, KeysAssumption, SumPlus DEF Total
<1>6. SumFunctionOnSet(g, V) = TtlCost * Cardinality(V)
  <2>1. \A x \in V : g[x] = TtlCost
    BY <1>1
  <2> QED
    BY <1>1, <2>1, CostAssumption, SumConstant
<1>7. SumFunctionOnSet(g, rest) = 0
  <2>1. \A x \in rest : g[x] = 0
    OBVIOUS
  <2>2. SumFunctionOnSet(g, rest) = 0 * Cardinality(rest)
    BY <1>1, <2>1, SumConstant
  <2> QED
    BY <1>1, <2>2
<1>8. Total(g) = SumFunctionOnSet(g, V) + SumFunctionOnSet(g, rest)
  BY <1>1, <1>4, KeysAssumption, SumSplit DEF Total
<1>9. Total(f) \in Nat
  BY <1>2, TotalType
<1>10. TtlCost * Cardinality(V) \in Nat
  BY <1>1, CostAssumption
<1> HIDE DEF V, g, rest
<1>11. s.used = Total(f) + TtlCost * Cardinality(V)
  BY <1>5, <1>6, <1>7, <1>8, <1>9, <1>10 DEF StoreInv, Counted
<1> QED
  BY <1>1, <1>9, <1>11 DEF V, f

LEMMA WithinLimitFits ==
    ASSUME NEW s, StoreInv(s), s.used <= s.limit
    PROVE  ValuesFit(s)
<1> DEFINE n == Cardinality({k \in Present(s) : s.expiry[k] # 0})
<1>1. /\ Total(BaseSize(s)) \in Nat /\ n \in Nat
      /\ s.used = Total(BaseSize(s)) + TtlCost * n
  BY UsedIs
<1> HIDE DEF n
<1>2. TtlCost * n \in Nat
  BY <1>1, CostAssumption
<1>3. Total(BaseSize(s)) <= s.limit
  BY <1>1, <1>2 DEF StoreInv, WellTyped
<1> QED
  BY <1>3 DEF ValuesFit

LEMMA SparesItself ==
    ASSUME NEW s, WellTyped(s), NEW K
    PROVE  Spares(s, s, K)
  BY DEF Spares, Renewed, SparesKey, SameAt, Evicts, WellTyped

LEMMA LeadsItself ==
    ASSUME NEW s, StoreInv(s), NEW K
    PROVE  Leads(s, s, K)
  BY SparesItself DEF Leads, StoreInv

LEMMA SparesKeyTrans ==
    ASSUME NEW s, NEW t, NEW u, NEW K, NEW k \in Keys \ K,
           t.now = s.now, t.limit = s.limit, t.policy = s.policy,
           \A j \in Keys \ K : SparesKey(s, t, K, j), \A j \in Keys \ K : SparesKey(t, u, K, j)
    PROVE  SparesKey(s, u, K, k)
<1>1. u.data[k] # Missing => SameAt(s, u, k)
  BY DEF SparesKey, SameAt
<1>2. s.data[k] = Missing => u.data[k] = Missing /\ u.expiry[k] = s.expiry[k]
  BY DEF SparesKey
<1>3. ASSUME Evicts(s, u, k)
      PROVE  /\ MayEvict(s, k)
             /\ \A j \in Keys \ K : u.data[j] # Missing => Precedes(s, k, j)
  <2>1. CASE t.data[k] = Missing
    <3>1. Evicts(s, t, k)
      BY <1>3, <2>1 DEF Evicts
    <3>2. \A j \in Keys \ K : u.data[j] # Missing => t.data[j] # Missing
      BY DEF SparesKey
    <3> QED
      BY <3>1, <3>2 DEF SparesKey
  <2>2. CASE t.data[k] # Missing
    <3>1. SameAt(s, t, k)
      BY <2>2 DEF SparesKey
    <3>2. Evicts(t, u, k)
      BY <1>3, <2>2, <3>1 DEF Evicts, IsExpired, SameAt
    <3>3. /\ MayEvict(t, k)
          /\ \A j \in Keys \ K : u.data[j] # Missing => Precedes(t, k, j)
      BY <3>2 DEF SparesKey
    <3>4. \A j \in Keys \ K : u.data[j] # Missing => SameAt(s, t, j)
      BY DEF SparesKey
    <3> QED
      BY <3>1, <3>3, <3>4 DEF MayEvict, Precedes, SameAt
  <2> QED
    BY <2>1, <2>2
<1> QED
  BY <1>1, <1>2, <1>3 DEF SparesKey

LEMMA SparesTrans ==
    ASSUME NEW s, WellTyped(s), NEW t, WellTyped(t), NEW u, WellTyped(u), NEW K,
           Spares(s, t, K), Spares(t, u, K)
    PROVE  Spares(s, u, K)
<1>1. \A k \in Keys \ K : SparesKey(s, u, K, k)
  BY SparesKeyTrans DEF Spares
<1>2. ASSUME NEW k \in Keys PROVE Renewed(s, u, k)
  <2>1. s.clock \in Nat /\ t.clock \in Nat /\ u.access[k] \in Nat /\ s.clock <= t.clock
    BY DEF WellTyped, Spares
  <2>2. Renewed(s, t, k) /\ Renewed(t, u, k)
    BY DEF Spares
  <2> QED
    BY <2>1, <2>2 DEF Renewed
<1> QED
  BY <1>1, <1>2, SMT DEF Spares, WellTyped

LEMMA LeadsTrans ==
    ASSUME NEW s, StoreInv(s), NEW t, NEW u, NEW K, Leads(s, t, K), Leads(t, u, K)
    PROVE  Leads(s, u, K)
  BY SparesTrans DEF Leads, StoreInv

LEMMA LeadsMore ==
    ASSUME NEW s, NEW t, NEW K, NEW L, K \subseteq L, Leads(s, t, K)
    PROVE  Leads(s, t, L)
  BY DEF Leads, Spares, SparesKey

\* A method that takes values and deadlines away leaves the store tidy.
LEMMA TidyStays ==
    ASSUME NEW s, StoreInv(s), NEW t, StoreInv(t), t.limit = s.limit, Lighter(s, t),
           \A k \in Keys : t.expiry[k] # 0 => s.expiry[k] # 0 /\ t.data[k] = s.data[k]
    PROVE  Tidy(s) => Tidy(t)
<1>1. ValuesFit(s) => ValuesFit(t)
  BY ShrunkFits
<1>2. DeadlinesLive(s) => DeadlinesLive(t)
  BY DEF DeadlinesLive
<1> QED
  BY <1>1, <1>2 DEF Tidy

-----------------------------------------------------------------------------
(***************************************************************************)
(* The methods of the store, one by one.                                   *)
(***************************************************************************)
LEMMA TouchLeads ==
    ASSUME NEW s, StoreInv(s), NEW k \in Keys
    PROVE  Leads(s, TouchKey(s, k), {k})
<1> DEFINE t == TouchKey(s, k)
<1>1. CASE s.data[k] = Missing
  BY <1>1, LeadsItself DEF TouchKey
<1>2. CASE s.data[k] # Missing
  <2>1. /\ t.data = s.data /\ t.sizes = s.sizes /\ t.expiry = s.expiry
        /\ t.now = s.now /\ t.limit = s.limit /\ t.policy = s.policy
        /\ t.access = [s.access EXCEPT ![k] = s.clock + 1]
        /\ t.clock = s.clock + 1
    BY <1>2, TouchIs DEF StoreInv
  <2>2. StoreInv(t)
    BY TouchKeepsInv
  <2> HIDE DEF t
  <2>3. /\ s.clock <= t.clock
        /\ \A j \in Keys : Renewed(s, t, j)
        /\ \A j \in Keys \ {k} : t.access[j] = s.access[j]
    BY <2>1 DEF StoreInv, WellTyped, Renewed
  <2>4. \A j \in Keys \ {k} : SparesKey(s, t, {k}, j)
    BY <2>1, <2>3 DEF SparesKey, SameAt, Evicts
  <2>5. Tidy(s) => Tidy(t)
    <3>1. Lighter(s, t)
      BY <2>1, <2>2, SameIsLighter
    <3> QED
      BY <2>1, <2>2, <3>1, TidyStays
  <2> QED
    BY <2>1, <2>2, <2>3, <2>4, <2>5 DEF Leads, Spares, t
<1> QED
  BY <1>1, <1>2

\* the keys outside K that a deletion of w takes are expired or the policy's choice
MayDelete(s, w, K) ==
    \A k \in ToSet(w) \ K :
        /\ s.data[k] # Missing
        /\ \/ IsExpired(s, k)
           \/ /\ MayEvict(s, k)
              /\ \A j \in (Keys \ K) \ ToSet(w) : s.data[j] # Missing => Precedes(s, k, j)

LEMMA DeleteKeysLeads ==
    ASSUME NEW s, StoreInv(s), NEW w \in Seq(Keys), NEW reason, NEW K, MayDelete(s, w, K)
    PROVE  /\ Leads(s, DeleteKeys(s, w, reason), K)
           /\ Shrinks(s, DeleteKeys(s, w, reason))
<1> DEFINE t == DeleteKeys(s, w, reason)
           gone == ToSet(w)
<1>1. /\ WellTyped(t)
      /\ Counted(t)
      /\ t.used <= s.used
      /\ t.data = [k \in Keys |-> IF k \in gone THEN Missing ELSE s.data[k]]
      /\ t.sizes = [k \in Keys |-> IF k \in gone THEN 0 ELSE s.sizes[k]]
      /\ t.access = [k \in Keys |-> IF k \in gone THEN 0 ELSE s.access[k]]
      /\ t.expiry = [k \in Keys |-> IF k \in gone THEN 0 ELSE s.expiry[k]]
      /\ t.clock = s.clock /\ t.now = s.now /\ t.limit = s.limit
      /\ t.policy = s.policy /\ t.logging = s.logging
  BY DeleteKeysIs
<1>2. StoreInv(t)
  BY DeleteKeysKeepsInv
<1>3. \A k \in gone \ K :
        /\ s.data[k] # Missing
        /\ \/ IsExpired(s, k)
           \/ /\ MayEvict(s, k)
              /\ \A j \in (Keys \ K) \ gone : s.data[j] # Missing => Precedes(s, k, j)
  BY DEF MayDelete
<1> HIDE DEF t, gone
<1>4. /\ s.clock <= t.clock
      /\ \A k \in Keys : Renewed(s, t, k)
  BY <1>1 DEF StoreInv, WellTyped, Renewed
<1>5. ASSUME NEW k \in Keys \ K PROVE SparesKey(s, t, K, k)
  <2>1. CASE k \in gone
    <3>1. s.data[k] # Missing /\ t.data[k] = Missing
      BY <1>1, <1>3, <1>5, <2>1
    <3>2. \A j \in Keys \ K : t.data[j] # Missing => j \notin gone /\ s.data[j] # Missing
      BY <1>1
    <3>3. Evicts(s, t, k) => /\ MayEvict(s, k)
                             /\ \A j \in Keys \ K : t.data[j] # Missing => Precedes(s, k, j)
      BY <1>3, <1>5, <2>1, <3>2 DEF Evicts
    <3> QED
      BY <3>1, <3>3 DEF SparesKey
  <2>2. CASE k \notin gone
    BY <1>1, <2>2 DEF SparesKey, SameAt, Evicts
  <2> QED
    BY <2>1, <2>2
<1>6. Shrinks(s, t)
  BY <1>1 DEF Shrinks, KeptOrGone
<1>7. Tidy(s) => Tidy(t)
  <2>1. \A k \in Keys : t.expiry[k] # 0 => s.expiry[k] # 0 /\ t.data[k] = s.data[k]
    BY <1>1
  <2>2. Lighter(s, t)
    BY <1>1, <1>2, SameIsLighter
  <2> QED
    BY <1>1, <1>2, <2>1, <2>2, TidyStays
<1> QED
  BY <1>1, <1>2, <1>4, <1>5, <1>6, <1>7 DEF Leads, Spares, t

LEMMA DeleteLeads ==
    ASSUME NEW s, StoreInv(s), NEW k \in Keys, NEW reason
    PROVE  Leads(s, Delete(s, k, reason), {k}) /\ Shrinks(s, Delete(s, k, reason))
<1>1. <<k>> \in Seq(Keys) /\ ToSet(<<k>>) = {k}
  BY OneKey
<1>2. MayDelete(s, <<k>>, {k})
  BY <1>1 DEF MayDelete
<1>3. CASE s.data[k] = Missing
  BY <1>3, LeadsItself DEF Delete, Shrinks, KeptOrGone
<1>4. CASE s.data[k] # Missing
  BY <1>1, <1>2, <1>4, DeleteKeysLeads DEF Delete
<1> QED
  BY <1>3, <1>4

\* only the key that was asked for is renewed or purged, and purged only if it expired
LEMMA LookupLeads ==
    ASSUME NEW s, StoreInv(s), NEW k \in Keys
    PROVE  /\ Leads(s, Lookup(s, k), {k})
           /\ Shrinks(s, Lookup(s, k))
           /\ ~IsExpired(s, k) => /\ Lookup(s, k).data = s.data
                                  /\ Lookup(s, k).expiry = s.expiry
           /\ IsExpired(s, k) => Lookup(s, k).data[k] = Missing
<1> DEFINE t == PurgeIfExpired(s, k)
           u == TouchKey(t, k)
<1>1. Leads(s, t, {k}) /\ Shrinks(s, t)
  BY DeleteLeads, LeadsItself DEF PurgeIfExpired, Shrinks, KeptOrGone
<1>2. Leads(t, u, {k}) /\ u.data = t.data /\ u.expiry = t.expiry
  BY <1>1, TouchLeads, TouchIs DEF Leads, StoreInv
<1>3. ~IsExpired(s, k) => t = s
  BY DEF PurgeIfExpired
<1>4. IsExpired(s, k) => t.data[k] = Missing
  <2>1. CASE s.data[k] = Missing
    BY <2>1 DEF PurgeIfExpired, Delete
  <2>2. CASE s.data[k] # Missing
    <3>1. <<k>> \in Seq(Keys) /\ k \in ToSet(<<k>>)
      BY OneKey
    <3>2. DeleteKeys(s, <<k>>, "expiry").data[k] = Missing
      BY <3>1, DeleteKeysDrops
    <3> QED
      BY <2>2, <3>1, <3>2 DEF PurgeIfExpired, Delete
  <2> QED
    BY <2>1, <2>2
<1> HIDE DEF t, u
<1>5. Leads(s, u, {k})
  BY <1>1, <1>2, LeadsTrans
<1>6. Shrinks(s, u)
  BY <1>1, <1>2 DEF Shrinks, KeptOrGone
<1> QED
  BY <1>2, <1>3, <1>4, <1>5, <1>6 DEF Lookup, t, u

LEMMA PurgesExpired ==
    ASSUME NEW s, StoreInv(s), NEW expired, expired \subseteq ExpiredKeys(s), NEW K
    PROVE  LET t == DeleteKeys(s, SetToSeq(expired), "expiry")
           IN  /\ Leads(s, t, K)
               /\ Shrinks(s, t)
               /\ t.used <= s.used
               /\ t.data = [k \in Keys |-> IF k \in expired THEN Missing ELSE s.data[k]]
               /\ t.sizes = [k \in Keys |-> IF k \in expired THEN 0 ELSE s.sizes[k]]
               /\ t.access = [k \in Keys |-> IF k \in expired THEN 0 ELSE s.access[k]]
               /\ t.expiry = [k \in Keys |-> IF k \in expired THEN 0 ELSE s.expiry[k]]
<1> DEFINE w == SetToSeq(expired)
<1>1. \A k \in expired : k \in Keys /\ s.data[k] # Missing /\ IsExpired(s, k)
  BY DEF ExpiredKeys, Present
<1>2. w \in Seq(Keys) /\ ToSet(w) = expired
  BY <1>1, SetToSeqIs
<1> HIDE DEF w
<1>3. MayDelete(s, w, K)
  BY <1>1, <1>2 DEF MayDelete
<1>4. /\ Leads(s, DeleteKeys(s, w, "expiry"), K)
      /\ Shrinks(s, DeleteKeys(s, w, "expiry"))
  BY <1>2, <1>3, DeleteKeysLeads
<1>5. LET t == DeleteKeys(s, w, "expiry")
      IN  /\ t.used <= s.used
          /\ t.data = [k \in Keys |-> IF k \in expired THEN Missing ELSE s.data[k]]
          /\ t.sizes = [k \in Keys |-> IF k \in expired THEN 0 ELSE s.sizes[k]]
          /\ t.access = [k \in Keys |-> IF k \in expired THEN 0 ELSE s.access[k]]
          /\ t.expiry = [k \in Keys |-> IF k \in expired THEN 0 ELSE s.expiry[k]]
  BY <1>2, DeleteKeysIs
<1> QED
  BY <1>4, <1>5 DEF w

LEMMA PurgeAllLeads ==
    ASSUME NEW s, StoreInv(s), NEW K
    PROVE  Leads(s, PurgeAll(s), K)
  BY PurgesExpired DEF PurgeAll

LEMMA EvictExpiredLeads ==
    ASSUME NEW s, StoreInv(s), NEW t \in EvictExpiredSamples(s), NEW K
    PROVE  /\ Leads(s, t, K)
           /\ Shrinks(s, t)
           /\ t.used <= s.used
           /\ \A k \in Keys : ~IsExpired(s, k) =>
                 /\ t.data[k] = s.data[k] /\ t.sizes[k] = s.sizes[k]
                 /\ t.access[k] = s.access[k] /\ t.expiry[k] = s.expiry[k]
           /\ \A k \in Keys : t.expiry[k] \in {0, s.expiry[k]} /\ t.access[k] \in {0, s.access[k]}
<1>1. PICK expired \in SampledExpired(s) : t = DeleteKeys(s, SetToSeq(expired), "expiry")
  BY DEF EvictExpiredSamples
<1>2. expired \subseteq ExpiredKeys(s)
  BY SampledExpiredType
<1>3. /\ Leads(s, t, K)
      /\ Shrinks(s, t)
      /\ t.used <= s.used
      /\ t.data = [k \in Keys |-> IF k \in expired THEN Missing ELSE s.data[k]]
      /\ t.sizes = [k \in Keys |-> IF k \in expired THEN 0 ELSE s.sizes[k]]
      /\ t.access = [k \in Keys |-> IF k \in expired THEN 0 ELSE s.access[k]]
      /\ t.expiry = [k \in Keys |-> IF k \in expired THEN 0 ELSE s.expiry[k]]
  BY <1>1, <1>2, PurgesExpired
<1>4. \A k \in Keys : ~IsExpired(s, k) => k \notin expired
  BY <1>2 DEF ExpiredKeys
<1> QED
  BY <1>3, <1>4

LEMMA SetExpiryAtLeads ==
    ASSUME NEW s, StoreInv(s), NEW k \in Keys, NEW at \in Nat,
           s.limit = 0 => at = 0 \/ s.data[k] # Missing
    PROVE  Leads(s, SetExpiryAt(s, k, at), {k})
<1> DEFINE t == SetExpiryAt(s, k, at)
<1>1. /\ StoreInv(t)
      /\ t.data = s.data /\ t.access = s.access /\ t.clock = s.clock
      /\ t.expiry = [s.expiry EXCEPT ![k] = at]
      /\ \A j \in Keys \ {k} : t.sizes[j] = s.sizes[j]
      /\ t.data[k] # Missing => t.sizes[k] = EstimateKeySize(t, k)
      /\ t.now = s.now /\ t.limit = s.limit /\ t.policy = s.policy
  BY SetExpiryAtIs
<1> HIDE DEF t
<1>2. /\ s.clock <= t.clock
      /\ \A j \in Keys : Renewed(s, t, j)
  BY <1>1 DEF StoreInv, WellTyped, Renewed
<1>3. \A j \in Keys \ {k} : SparesKey(s, t, {k}, j)
  BY <1>1 DEF SparesKey, SameAt, Evicts, StoreInv, WellTyped
<1>4. ValuesFit(s) => ValuesFit(t)
  <2>1. t.data[k] # Missing => BaseSize(t)[k] <= BaseSize(s)[k]
    BY <1>1, ExactIsLight
  <2>2. BaseSize(s) \in [Keys -> Nat]
    BY BaseSizeType
  <2>3. \A j \in Keys \ {k} : BaseSize(t)[j] = BaseSize(s)[j]
    BY <1>1 DEF BaseSize, StoreInv, WellTyped
  <2>4. Lighter(s, t)
    BY <2>1, <2>2, <2>3 DEF Lighter
  <2> QED
    BY <1>1, <2>4, ShrunkFits
<1>5. DeadlinesLive(s) => DeadlinesLive(t)
  BY <1>1 DEF DeadlinesLive, StoreInv, WellTyped
<1> QED
  BY <1>1, <1>2, <1>3, <1>4, <1>5 DEF Leads, Spares, Tidy, t

LEMMA RemoveExpiryLeads ==
    ASSUME NEW s, StoreInv(s), NEW k \in Keys
    PROVE  Leads(s, RemoveExpiry(s, k), {k})
  BY RemoveExpiryIs, SetExpiryAtLeads

LEMMA FlushTidy ==
    ASSUME NEW s, StoreInv(s), Tidy(s)
    PROVE  Tidy(Flush(s))
<1> DEFINE t == Flush(s)
<1>1. /\ StoreInv(t)
      /\ t.data = [k \in Keys |-> Missing]
      /\ t.expiry = [k \in Keys |-> IF k \in Present(s) THEN 0 ELSE s.expiry[k]]
      /\ t.limit = s.limit
  BY FlushIs, FlushKeepsInv DEF StoreInv
<1> HIDE DEF t
<1>2. ValuesFit(t)
  <2>1. Lighter(s, t)
    BY <1>1 DEF Lighter
  <2> QED
    BY <1>1, <2>1, ShrunkFits DEF Tidy
<1>3. DeadlinesLive(t)
  BY <1>1 DEF Tidy, DeadlinesLive, Present
<1> QED
  BY <1>2, <1>3 DEF Tidy, t

-----------------------------------------------------------------------------
(***************************************************************************)
(* Passes of the background cycle in which every deadline has passed.      *)
(***************************************************************************)
\* the keys that the first i passes sampled
Sampled(p, i) == UNION {p[j] : j \in 1..i}

\* the passes take samples from what is left of the table, and the last one
\* is the last allowed, or sampled nothing, or left nothing
AreFullPasses(table, p) ==
    /\ \A i \in 1..Len(p) : p[i] \in Samples(table \ Sampled(p, i - 1))
    /\ \/ Len(p) >= MaxPasses
       \/ p[Len(p)] = {}
       \/ table \subseteq Sampled(p, Len(p))

LEMMA SamplesFull ==
    ASSUME NEW T, IsFiniteSet(T), NEW q \in Samples(T)
    PROVE  q \subseteq T /\ IsFiniteSet(q) /\ (q = T \/ Cardinality(q) = SampleSize)
<1>1. q \subseteq T /\ (q = T \/ Cardinality(q) = SampleSize)
  BY DEF Samples, kSubset
<1> QED
  BY <1>1, FS_Subset

LEMMA SampledNext ==
    ASSUME NEW p, NEW i \in Nat \ {0}
    PROVE  Sampled(p, i) = Sampled(p, i - 1) \cup p[i]
<1>1. 1..i = (1..(i - 1)) \cup {i}
  OBVIOUS
<1> QED
  BY <1>1 DEF Sampled

\* each pass takes SampleSize more, or all there are
LEMMA PassesGrow ==
    ASSUME NEW table, IsFiniteSet(table), NEW p, NEW n \in Nat,
           \A i \in 1..n : p[i] \in Samples(table \ Sampled(p, i - 1)),
           NEW m \in 0..n
    PROVE  /\ Sampled(p, m) \subseteq table
           /\ table \subseteq Sampled(p, m) \/ Cardinality(Sampled(p, m)) >= SampleSize * m
<1> DEFINE Grown(i) == /\ Sampled(p, i) \subseteq table
                       /\ \/ table \subseteq Sampled(p, i)
                          \/ Cardinality(Sampled(p, i)) >= SampleSize * i
           Bad == {i \in 0..n : ~Grown(i)}
<1>1. Grown(0)
  <2>1. Sampled(p, 0) = {}
    BY DEF Sampled
  <2> QED
    BY <2>1, FS_EmptySet, SamplingAssumption
<1>2. ASSUME NEW i \in 1..n, Grown(i - 1) PROVE Grown(i)
  <2> DEFINE before == Sampled(p, i - 1)
             rest == table \ before
  <2>1. before \subseteq table /\ IsFiniteSet(before) /\ IsFiniteSet(rest)
    BY <1>2, FS_Subset, FS_Difference
  <2>2. p[i] \subseteq rest /\ IsFiniteSet(p[i]) /\ (p[i] = rest \/ Cardinality(p[i]) = SampleSize)
    BY <2>1, SamplesFull
  <2>3. Sampled(p, i) = before \cup p[i]
    BY SampledNext
  <2>4. CASE p[i] = rest
    BY <2>1, <2>3, <2>4
  <2>5. CASE table \subseteq before
    BY <2>1, <2>2, <2>3, <2>5
  <2>6. CASE ~(table \subseteq before) /\ Cardinality(p[i]) = SampleSize
    <3>1. before \cap p[i] = {}
      BY <2>2
    <3> HIDE DEF before, rest
    <3>2. Cardinality(before \cup p[i]) =
            Cardinality(before) + Cardinality(p[i]) - Cardinality(before \cap p[i])
      BY <2>1, <2>2, FS_Union
    <3>3. Cardinality(before \cap p[i]) = 0 /\ Cardinality(before) \in Nat
      BY <2>1, <3>1, FS_EmptySet, FS_CardinalityType
    <3>4. Cardinality(before) >= SampleSize * (i - 1)
      BY <1>2, <2>6 DEF before
    <3>5. SampleSize * (i - 1) + SampleSize = SampleSize * i
      BY SamplingAssumption
    <3>6. SampleSize * (i - 1) \in Nat /\ SampleSize \in Nat
      BY SamplingAssumption
    <3>7. Cardinality(Sampled(p, i)) = Cardinality(before) + SampleSize
      BY <2>3, <2>6, <3>2, <3>3, <3>6
    <3>8. Cardinality(Sampled(p, i)) >= SampleSize * i
      BY <3>3, <3>4, <3>5, <3>6, <3>7
    <3>9. Sampled(p, i) \subseteq table
      BY <2>1, <2>2, <2>3 DEF rest
    <3> QED
      BY <3>8, <3>9
  <2> QED
    BY <2>2, <2>4, <2>5, <2>6
<1>3. Bad \subseteq Nat
  OBVIOUS
<1>4. ASSUME NEW b \in Bad PROVE b - 1 \in Bad
  <2>1. b \in 1..n
    BY <1>1
  <2>2. b - 1 \in 0..n
    BY <2>1
  <2> QED
    BY <1>2, <2>1, <2>2
<1> HIDE DEF Bad
<1>5. Bad = {}
  <2>1. ASSUME Bad # {} PROVE FALSE
    <3>1. PICK b \in Bad : \A c \in Bad : b <= c
      BY <1>3, <2>1, SmallestNat
    <3>2. b \in Nat /\ b - 1 \in Bad
      BY <1>3, <1>4
    <3> QED
      BY <3>1, <3>2
  <2> QED
    BY <2>1
<1>6. Grown(m)
  BY <1>5 DEF Bad
<1> QED
  BY <1>6

LEMMA PassesSuffice ==
    ASSUME NEW table, IsFiniteSet(table), NEW p, Len(p) \in Nat \ {0}, AreFullPasses(table, p)
    PROVE  /\ Sampled(p, Len(p)) \subseteq table
           /\ \/ Sampled(p, Len(p)) = table
              \/ Cardinality(Sampled(p, Len(p))) >= SampleSize * MaxPasses
<1> DEFINE n == Len(p)
<1>1. /\ \A i \in 1..n : p[i] \in Samples(table \ Sampled(p, i - 1))
      /\ n >= MaxPasses \/ p[n] = {} \/ table \subseteq Sampled(p, n)
  BY DEF AreFullPasses
<1>2. n \in 0..n /\ n - 1 \in 0..n
  OBVIOUS
<1> HIDE DEF n
<1>3. /\ Sampled(p, n) \subseteq table
      /\ table \subseteq Sampled(p, n) \/ Cardinality(Sampled(p, n)) >= SampleSize * n
  BY <1>1, <1>2, PassesGrow DEF n
<1>4. CASE n >= MaxPasses
  <2>1. SampleSize * n >= SampleSize * MaxPasses
    BY <1>2, <1>4, SamplingAssumption
  <2>2. IsFiniteSet(Sampled(p, n))
    BY <1>3, FS_Subset
  <2>3. Cardinality(Sampled(p, n)) \in Nat
    BY <2>2, FS_CardinalityType
  <2>4. SampleSize * n \in Nat /\ SampleSize * MaxPasses \in Nat
    BY <1>2, SamplingAssumption
  <2>5. table \subseteq Sampled(p, n) \/ Cardinality(Sampled(p, n)) >= SampleSize * MaxPasses
    BY <1>3, <2>1, <2>3, <2>4
  <2> QED
    BY <1>3, <2>5 DEF n
<1>5. CASE p[n] = {}
  <2>1. n \in 1..n
    BY DEF n
  <2>2. IsFiniteSet(table \ Sampled(p, n - 1))
    BY FS_Difference
  <2>3. p[n] = table \ Sampled(p, n - 1) \/ Cardinality(p[n]) = SampleSize
    BY <1>1, <2>1, <2>2, SamplesFull
  <2>4. Cardinality(p[n]) = 0
    BY <1>5, FS_EmptySet
  <2>5. table \subseteq Sampled(p, n - 1)
    BY <1>5, <2>3, <2>4, SamplingAssumption
  <2>6. Sampled(p, n) = Sampled(p, n - 1) \cup p[n]
    BY SampledNext DEF n
  <2> QED
    BY <1>3, <2>5, <2>6 DEF n
<1> QED
  BY <1>1, <1>3, <1>4, <1>5 DEF n

LEMMA DueBacklogGoes ==
    ASSUME NEW s, NEW expired \in SampledExpired(s), Volatile(s) = ExpiredKeys(s)
    PROVE  expired = ExpiredKeys(s) \/ Cardinality(expired) >= SampleSize * MaxPasses
<1> DEFINE table == Volatile(s)
           due == {k \in table : IsExpired(s, k)}
<1>1. IsFiniteSet(table)
  BY KeysAssumption, FS_Subset DEF Volatile
<1>2. due = table
  BY DEF ExpiredKeys
<1>3. CASE Cardinality(table) <= SampleSize
  BY <1>3 DEF SampledExpired
<1>4. CASE ~(Cardinality(table) <= SampleSize)
  <2>1. PICK p \in SeqOf(SUBSET table, MaxPasses) :
          LET Removed(i) == Sampled(p, i) \cap ExpiredKeys(s)
              Left(i) == table \ Removed(i)
              GoesOn(i) == LET hits == Cardinality(p[i] \cap due)
                           IN  hits > 0 /\ 4 * hits >= Cardinality(p[i]) /\ Left(i) # {}
          IN  /\ p # <<>>
              /\ expired = Removed(Len(p))
              /\ \A i \in DOMAIN p : p[i] \in Samples(Left(i - 1))
              /\ Len(p) < MaxPasses => ~GoesOn(Len(p))
    BY <1>4, Zenon DEF SampledExpired, Sampled
  <2>2. PICK m \in 0..MaxPasses : p \in [1..m -> SUBSET table]
    BY Zenon DEF SeqOf
  <2>3. m \in Nat \ {0} /\ Len(p) = m /\ DOMAIN p = 1..m
    BY <2>1, <2>2, SamplingAssumption
  <2>4. \A i \in 0..m : Sampled(p, i) \subseteq table
    BY <2>2, <2>3 DEF Sampled
  <2>5. \A i \in 0..m : Sampled(p, i) \cap ExpiredKeys(s) = Sampled(p, i)
    BY <2>4
  <2>6. m \in 0..m /\ p[m] \subseteq table
    BY <2>2, <2>3
  <2> HIDE DEF table
  <2>7. \A i \in 1..m : p[i] \in Samples(table \ Sampled(p, i - 1))
    BY <2>1, <2>3, <2>5
  <2>8. expired = Sampled(p, m)
    BY <2>1, <2>3, <2>5, <2>6
  <2>9. p[m] \cap due = p[m]
    BY <1>2, <2>6
  <2> DEFINE hits == Cardinality(p[m])
  <2>10. m < MaxPasses => ~(hits > 0 /\ 4 * hits >= hits /\ table \ Sampled(p, m) # {})
    BY <2>1, <2>3, <2>5, <2>6, <2>9
  <2>11. IsFiniteSet(p[m])
    BY <1>1, <2>6, FS_Subset
  <2>12. hits \in Nat /\ (hits = 0 <=> p[m] = {})
    BY <2>11, FS_CardinalityType, FS_EmptySet
  <2>13. m >= MaxPasses \/ p[m] = {} \/ table \subseteq Sampled(p, m)
    <3> HIDE DEF hits
    <3> QED
      BY <2>3, <2>10, <2>12, SamplingAssumption
  <2>14. AreFullPasses(table, p)
    BY <2>3, <2>7, <2>13 DEF AreFullPasses
  <2> QED
    BY <1>1, <2>3, <2>8, <2>14, PassesSuffice DEF table
<1> QED
  BY <1>3, <1>4

LEMMA PurgedData ==
    ASSUME NEW s, StoreInv(s), NEW expired, expired \subseteq ExpiredKeys(s),
           NEW t, t = DeleteKeys(s, SetToSeq(expired), "expiry")
    PROVE  t.data = [k \in Keys |-> IF k \in expired THEN Missing ELSE s.data[k]]
<1>1. /\ Leads(s, t, {})
      /\ Shrinks(s, t)
      /\ t.used <= s.used
      /\ t.data = [k \in Keys |-> IF k \in expired THEN Missing ELSE s.data[k]]
      /\ t.sizes = [k \in Keys |-> IF k \in expired THEN 0 ELSE s.sizes[k]]
      /\ t.access = [k \in Keys |-> IF k \in expired THEN 0 ELSE s.access[k]]
      /\ t.expiry = [k \in Keys |-> IF k \in expired THEN 0 ELSE s.expiry[k]]
  BY PurgesExpired
<1> QED
  BY <1>1

-----------------------------------------------------------------------------
(***************************************************************************)
(* Eviction.                                                               *)
(***************************************************************************)
LEMMA EvictionRunsType ==
    ASSUME NEW s, NEW w \in EvictionRuns(s)
    PROVE  w \in Seq(Keys)
<1>1. w \in SeqOf(Present(s), Cardinality(Present(s)))
  BY DEF EvictionRuns
<1>2. PICK m \in 0..Cardinality(Present(s)) : w \in [1..m -> Present(s)]
  BY <1>1, Zenon DEF SeqOf
<1>3. Present(s) \subseteq Keys
  BY DEF Present
<1>4. Cardinality(Present(s)) \in Nat
  BY <1>3, KeysAssumption, FS_Subset, FS_CardinalityType
<1>5. m \in Nat
  BY <1>2, <1>4
<1> QED
  BY <1>2, <1>3, <1>5, SMT

\* The policy chooses a key that it may choose and that it prefers to all others.
LEMMA CandidateIs ==
    ASSUME NEW s, StoreInv(s), NEW k \in EvictionCandidates(s)
    PROVE  /\ k \in Keys /\ s.data[k] # Missing
           /\ s.policy # "noeviction"
           /\ s.policy = "volatile-ttl" => s.expiry[k] # 0
           /\ \A j \in Keys \ {k} : s.data[j] # Missing => Precedes(s, k, j)
           /\ s.policy = "allkeys-lru" =>
                 \A j \in Keys : s.data[j] # Missing => s.access[k] <= s.access[j]
<1> DEFINE present == Present(s)
           deadlines == {j \in present : s.expiry[j] # 0}
           oldest == {j \in present : \A i \in present : s.access[j] <= s.access[i]}
           nearest == {j \in deadlines : \A i \in deadlines : s.expiry[j] <= s.expiry[i]}
<1>1. /\ s.policy = "allkeys-random" => k \in present
      /\ s.policy = "allkeys-lru" => k \in oldest
      /\ s.policy = "volatile-ttl" => k \in nearest
      /\ s.policy # "noeviction"
  <2>1. EvictionCandidates(s) =
          CASE s.policy = "allkeys-random" -> present
            [] s.policy = "allkeys-lru" -> oldest
            [] s.policy = "volatile-ttl" -> nearest
            [] OTHER -> {}
    BY Zenon DEF EvictionCandidates
  <2> HIDE DEF present, deadlines, oldest, nearest
  <2>2. "allkeys-lru" # "allkeys-random" /\ "volatile-ttl" # "allkeys-random"
        /\ "volatile-ttl" # "allkeys-lru" /\ "noeviction" # "allkeys-random"
        /\ "noeviction" # "allkeys-lru" /\ "noeviction" # "volatile-ttl"
    OBVIOUS
  <2> QED
    BY <2>1, <2>2, Zenon
<1>2. s.policy \in {"noeviction", "allkeys-random", "allkeys-lru", "volatile-ttl"}
  BY DEF StoreInv, WellTyped, SUPPORTED_EVICTION_POLICIES
<1>3. k \in present
  BY <1>1, <1>2
<1>4. k \in Keys /\ s.data[k] # Missing
  BY <1>3 DEF Present
<1>5. ASSUME s.policy = "allkeys-lru", NEW j \in Keys, s.data[j] # Missing
      PROVE  s.access[k] <= s.access[j] /\ (j # k => s.access[k] < s.access[j])
  <2>1. s.access[k] <= s.access[j]
    BY <1>1, <1>5 DEF Present
  <2>2. s.access[k] # 0 /\ (j # k => s.access[k] # s.access[j])
    BY <1>4, <1>5 DEF StoreInv, AccessInSync, AccessInOrder
  <2>3. s.access[k] \in Nat /\ s.access[j] \in Nat
    BY <1>4 DEF StoreInv, WellTyped
  <2> QED
    BY <2>1, <2>2, <2>3
<1>6. ASSUME s.policy = "volatile-ttl", NEW j \in Keys, s.data[j] # Missing, s.expiry[j] # 0
      PROVE  s.expiry[k] <= s.expiry[j]
  BY <1>1, <1>6 DEF Present
<1>7. s.policy = "volatile-ttl" => s.expiry[k] # 0
  BY <1>1
<1> QED
  BY <1>1, <1>4, <1>5, <1>6, <1>7 DEF Precedes

\* a victim of the loop, and the store it is chosen from
LEMMA VictimIs ==
    ASSUME NEW s, StoreInv(s), NEW w \in EvictionRuns(s), NEW i \in 1..Len(w)
    PROVE  LET t == DeleteKeys(s, SubSeq(w, 1, i - 1), "eviction")
               before == {w[j] : j \in 1..(i - 1)}
           IN  /\ StoreInv(t)
               /\ t.used > s.limit
               /\ w[i] \in EvictionCandidates(t)
               /\ t.data = [k \in Keys |-> IF k \in before THEN Missing ELSE s.data[k]]
               /\ t.sizes = [k \in Keys |-> IF k \in before THEN 0 ELSE s.sizes[k]]
               /\ t.access = [k \in Keys |-> IF k \in before THEN 0 ELSE s.access[k]]
               /\ t.expiry = [k \in Keys |-> IF k \in before THEN 0 ELSE s.expiry[k]]
               /\ t.policy = s.policy
<1> DEFINE v == SubSeq(w, 1, i - 1)
           t == DeleteKeys(s, v, "eviction")
           gone == ToSet(v)
           before == {w[j] : j \in 1..(i - 1)}
<1>1. w \in Seq(Keys) /\ Len(w) \in Nat
  BY EvictionRunsType, LenProperties
<1>2. v \in Seq(Keys) /\ Len(v) = i - 1 /\ \A j \in 1..(i - 1) : v[j] = w[j]
  BY <1>1, SubSeqProperties
<1>4. t.used > t.limit /\ w[i] \in EvictionCandidates(t)
  BY Zenon DEF EvictionRuns
<1> HIDE DEF v
<1>3. gone = before
  <2>1. ToSet(v) = {v[j] : j \in 1..Len(v)}
    BY <1>2, ToSetIs
  <2> QED
    BY <1>2, <2>1
<1>5. StoreInv(t)
  BY <1>2, DeleteKeysKeepsInv
<1>6. /\ WellTyped(t)
      /\ Counted(t)
      /\ t.used <= s.used
      /\ t.data = [j \in Keys |-> IF j \in gone THEN Missing ELSE s.data[j]]
      /\ t.sizes = [j \in Keys |-> IF j \in gone THEN 0 ELSE s.sizes[j]]
      /\ t.access = [j \in Keys |-> IF j \in gone THEN 0 ELSE s.access[j]]
      /\ t.expiry = [j \in Keys |-> IF j \in gone THEN 0 ELSE s.expiry[j]]
      /\ t.clock = s.clock /\ t.now = s.now /\ t.limit = s.limit
      /\ t.policy = s.policy /\ t.logging = s.logging
  BY <1>2, DeleteKeysIs
<1> HIDE DEF t, gone, before
<1>7. /\ t.used > s.limit
      /\ t.data = [k \in Keys |-> IF k \in before THEN Missing ELSE s.data[k]]
      /\ t.sizes = [k \in Keys |-> IF k \in before THEN 0 ELSE s.sizes[k]]
      /\ t.access = [k \in Keys |-> IF k \in before THEN 0 ELSE s.access[k]]
      /\ t.expiry = [k \in Keys |-> IF k \in before THEN 0 ELSE s.expiry[k]]
  BY <1>3, <1>4, <1>6
<1> QED
  BY <1>4, <1>5, <1>6, <1>7 DEF t, v, before

\* The keys that the loop takes are the policy's choice against all others.
LEMMA VictimsMayGo ==
    ASSUME NEW s, StoreInv(s), s.limit # 0, NEW w \in EvictionRuns(s), NEW K
    PROVE  MayDelete(s, w, K)
<1>1. w \in Seq(Keys)
  BY EvictionRunsType
<1>2. ToSet(w) = {w[i] : i \in 1..Len(w)} /\ Len(w) \in Nat
  BY <1>1, ToSetIs, LenProperties
<1>3. ASSUME NEW i \in 1..Len(w)
      PROVE  /\ s.data[w[i]] # Missing
             /\ MayEvict(s, w[i])
             /\ \A j \in Keys \ ToSet(w) : s.data[j] # Missing => Precedes(s, w[i], j)
  <2> DEFINE t == DeleteKeys(s, SubSeq(w, 1, i - 1), "eviction")
             before == {w[j] : j \in 1..(i - 1)}
             k == w[i]
  <2>1. /\ StoreInv(t)
        /\ t.used > s.limit
        /\ k \in EvictionCandidates(t)
        /\ t.data = [j \in Keys |-> IF j \in before THEN Missing ELSE s.data[j]]
        /\ t.sizes = [j \in Keys |-> IF j \in before THEN 0 ELSE s.sizes[j]]
        /\ t.access = [j \in Keys |-> IF j \in before THEN 0 ELSE s.access[j]]
        /\ t.expiry = [j \in Keys |-> IF j \in before THEN 0 ELSE s.expiry[j]]
        /\ t.policy = s.policy
    BY VictimIs
  <2>2. before \subseteq ToSet(w)
    BY <1>2
  <2> HIDE DEF t, before, k
  <2>3. /\ k \in Keys /\ t.data[k] # Missing
        /\ t.policy # "noeviction"
        /\ t.policy = "volatile-ttl" => t.expiry[k] # 0
        /\ \A j \in Keys \ {k} : t.data[j] # Missing => Precedes(t, k, j)
    BY <2>1, CandidateIs
  <2>4. k \notin before /\ s.data[k] # Missing
    BY <2>1, <2>3
  <2>5. MayEvict(s, k)
    BY <2>1, <2>3, <2>4 DEF MayEvict
  <2>6. ASSUME NEW j \in Keys \ ToSet(w), s.data[j] # Missing PROVE Precedes(s, k, j)
    <3>1. j \notin before /\ j # k
      BY <1>2, <2>2 DEF k
    <3>2. t.data[j] # Missing
      BY <2>1, <2>6, <3>1
    <3>3. Precedes(t, k, j)
      BY <2>3, <3>1, <3>2
    <3> QED
      BY <2>1, <2>3, <2>4, <3>1, <3>3 DEF Precedes
  <2> QED
    BY <2>4, <2>5, <2>6 DEF k
<1> QED
  BY <1>2, <1>3 DEF MayDelete

LEMMA TotalOne ==
    ASSUME NEW f \in [Keys -> Nat], NEW k \in Keys, \A j \in Keys \ {k} : f[j] = 0
    PROVE  Total(f) = f[k]
<1>1. AreNats(f, Keys)
  BY DEF AreNats
<1>2. Total(f) = f[k] + SumFunctionOnSet(f, Keys \ {k})
  BY <1>1, KeysAssumption, SumTake DEF Total
<1>3. IsFiniteSet(Keys \ {k}) /\ Cardinality(Keys \ {k}) \in Nat
  BY KeysAssumption, FS_Difference, FS_CardinalityType
<1>4. SumFunctionOnSet(f, Keys \ {k}) = 0 * Cardinality(Keys \ {k})
  BY <1>3, SumConstant
<1> QED
  BY <1>2, <1>3, <1>4

\* The most recently used key is not evicted under allkeys-lru when it fits
\* by itself: as a victim it would be the last key left, within the limit.
LEMMA RecentSurvives ==
    ASSUME NEW s, StoreInv(s), s.policy = "allkeys-lru", NEW k \in Keys, s.sizes[k] <= s.limit,
           \A j \in Keys : s.access[j] <= s.access[k], NEW w \in EvictionRuns(s)
    PROVE  k \notin ToSet(w)
<1>1. w \in Seq(Keys)
  BY EvictionRunsType
<1>2. ToSet(w) = {w[i] : i \in 1..Len(w)}
  BY <1>1, ToSetIs
<1>3. SUFFICES ASSUME NEW i \in 1..Len(w), w[i] = k PROVE FALSE
  BY <1>2
<1> DEFINE t == DeleteKeys(s, SubSeq(w, 1, i - 1), "eviction")
           before == {w[j] : j \in 1..(i - 1)}
<1>4. /\ StoreInv(t)
      /\ t.used > s.limit
      /\ w[i] \in EvictionCandidates(t)
      /\ t.data = [j \in Keys |-> IF j \in before THEN Missing ELSE s.data[j]]
      /\ t.sizes = [j \in Keys |-> IF j \in before THEN 0 ELSE s.sizes[j]]
      /\ t.access = [j \in Keys |-> IF j \in before THEN 0 ELSE s.access[j]]
      /\ t.expiry = [j \in Keys |-> IF j \in before THEN 0 ELSE s.expiry[j]]
      /\ t.policy = s.policy
  BY VictimIs
<1> HIDE DEF t, before
<1>5. /\ t.data[k] # Missing
      /\ \A j \in Keys \ {k} : t.data[j] # Missing => Precedes(t, k, j)
  BY <1>3, <1>4, CandidateIs
<1>6. t.access \in [Keys -> Nat] /\ s.access \in [Keys -> Nat]
      /\ t.sizes \in [Keys -> Nat] /\ t.used \in Int /\ s.limit \in Nat
  BY <1>4 DEF StoreInv, WellTyped
<1>7. k \notin before /\ t.access[k] = s.access[k] /\ t.sizes[k] = s.sizes[k]
  BY <1>4, <1>5
<1>8. ASSUME NEW j \in Keys \ {k} PROVE t.sizes[j] = 0
  <2>1. SUFFICES ASSUME t.data[j] # Missing PROVE FALSE
    BY <1>4 DEF StoreInv, SizeInSync
  <2>2. t.access[k] < t.access[j]
    BY <1>4, <1>5, <2>1 DEF Precedes
  <2>3. j \notin before
    BY <1>4, <2>1
  <2>4. t.access[j] = s.access[j]
    BY <1>4, <2>3
  <2> QED
    BY <1>6, <1>7, <2>2, <2>4
<1>9. t.used = t.sizes[k]
  BY <1>4, <1>6, <1>8, TotalOne DEF StoreInv, Counted
<1> QED
  BY <1>4, <1>6, <1>7, <1>9

-----------------------------------------------------------------------------
(***************************************************************************)
(* Enforcement of the limit.                                               *)
(***************************************************************************)
Enforced(s, o) ==
    /\ Leads(s, o.store, {})
    /\ Shrinks(s, o.store)
    /\ o.reply \in {"ok", "oom"}
    /\ s.limit = 0 => o.store = s /\ o.reply = "ok"
    /\ o.reply = "ok" /\ s.limit # 0 => o.store.used <= s.limit
    /\ \A k \in Keys : o.store.expiry[k] \in {0, s.expiry[k]}

\* the policy cannot choose k while another key is there
Recent(s, k) ==
    /\ s.policy \in {"noeviction", "allkeys-lru"}
    /\ s.data[k] # Missing /\ ~IsExpired(s, k)
    /\ \A j \in Keys : s.access[j] <= s.access[k]

LEMMA AfterCleanupIs ==
    ASSUME NEW s, StoreInv(s), s.limit # 0, NEW o \in EnforceAfterCleanup(s)
    PROVE  /\ Enforced(s, o)
           /\ \A k \in Keys : Recent(s, k) /\ s.sizes[k] <= s.limit
                               => o.store.data[k] = s.data[k]
           /\ s.used <= s.limit => o.reply = "ok"
<1>1. CASE o \in {Outcome(s, "ok"), Outcome(s, "oom")} /\ (o.reply = "ok" <=> s.used <= s.limit)
  <2>1. o.store = s /\ o.reply \in {"ok", "oom"}
    BY <1>1 DEF Outcome
  <2>2. Leads(s, s, {})
    BY LeadsItself
  <2> QED
    BY <1>1, <2>1, <2>2 DEF Enforced, Shrinks, KeptOrGone
<1>2. CASE /\ s.used > s.limit /\ s.policy # "noeviction"
           /\ \E w \in EvictionRuns(s) :
                 LET t == DeleteKeys(s, w, "eviction")
                 IN  o = Outcome(t, IF t.used > t.limit THEN "oom" ELSE "ok")
  <2>1. PICK w \in EvictionRuns(s) :
          LET t == DeleteKeys(s, w, "eviction")
          IN  o = Outcome(t, IF t.used > t.limit THEN "oom" ELSE "ok")
    BY <1>2
  <2> DEFINE t == DeleteKeys(s, w, "eviction")
             gone == ToSet(w)
  <2>2. o.store = t /\ o.reply = IF t.used > t.limit THEN "oom" ELSE "ok"
    BY <2>1 DEF Outcome
  <2>3. w \in Seq(Keys)
    BY EvictionRunsType
  <2>4. MayDelete(s, w, {})
    BY VictimsMayGo
  <2>5. Leads(s, t, {}) /\ Shrinks(s, t)
    BY <2>3, <2>4, DeleteKeysLeads
  <2>6. /\ WellTyped(t)
        /\ Counted(t)
        /\ t.used <= s.used
        /\ t.data = [j \in Keys |-> IF j \in gone THEN Missing ELSE s.data[j]]
        /\ t.sizes = [j \in Keys |-> IF j \in gone THEN 0 ELSE s.sizes[j]]
        /\ t.access = [j \in Keys |-> IF j \in gone THEN 0 ELSE s.access[j]]
        /\ t.expiry = [j \in Keys |-> IF j \in gone THEN 0 ELSE s.expiry[j]]
        /\ t.clock = s.clock /\ t.now = s.now /\ t.limit = s.limit
        /\ t.policy = s.policy /\ t.logging = s.logging
    BY <2>3, DeleteKeysIs
  <2> HIDE DEF t, gone
  <2>7. o.reply \in {"ok", "oom"} /\ (o.reply = "ok" => ~(t.used > t.limit))
    BY <2>2
  <2>8. t.used \in Int /\ s.limit \in Nat /\ s.used \in Int
    BY <2>6 DEF StoreInv, WellTyped
  <2>9. o.reply = "ok" => t.used <= s.limit
    BY <2>6, <2>7, <2>8
  <2>10. \A k \in Keys : t.expiry[k] \in {0, s.expiry[k]}
    BY <2>6
  <2>11. Enforced(s, o)
    BY <2>2, <2>5, <2>7, <2>9, <2>10 DEF Enforced
  <2>12. ASSUME NEW k \in Keys, Recent(s, k), s.sizes[k] <= s.limit
         PROVE  o.store.data[k] = s.data[k]
    <3>1. s.policy = "allkeys-lru"
      BY <1>2, <2>12 DEF Recent
    <3>2. k \notin gone
      BY <2>12, <3>1, RecentSurvives DEF Recent, gone
    <3> QED
      BY <2>2, <2>6, <3>2
  <2> QED
    BY <1>2, <2>8, <2>11, <2>12
<1>3. s.used \in Int /\ s.limit \in Nat
  BY DEF StoreInv, WellTyped
<1>4. CASE s.used <= s.limit
  <2>1. o = Outcome(s, "ok") /\ o.reply = "ok"
    BY <1>4 DEF EnforceAfterCleanup, Outcome
  <2> QED
    BY <1>1, <1>4, <2>1
<1>5. CASE s.used > s.limit /\ s.policy = "noeviction"
  <2>1. o = Outcome(s, "oom") /\ o.reply = "oom"
    BY <1>3, <1>5 DEF EnforceAfterCleanup, Outcome
  <2> QED
    BY <1>1, <1>3, <1>5, <2>1
<1>6. CASE s.used > s.limit /\ s.policy # "noeviction"
  <2>1. ~(s.used <= s.limit)
    BY <1>3, <1>6
  <2>2. \E w \in EvictionRuns(s) :
          LET t == DeleteKeys(s, w, "eviction")
          IN  o = Outcome(t, IF t.used > t.limit THEN "oom" ELSE "ok")
    BY <1>6, <2>1, Zenon DEF EnforceAfterCleanup
  <2> QED
    BY <1>2, <1>6, <2>2
<1> QED
  BY <1>3, <1>4, <1>5, <1>6

LEMMA EnforceIs ==
    ASSUME NEW s, StoreInv(s), NEW k \in Keys, NEW o \in EnforceMaxmemory(s, {k})
    PROVE  /\ Enforced(s, o)
           /\ o.reply = "ok" /\ Recent(s, k) => o.store.data[k] = s.data[k]
           /\ s.used <= s.limit => o.reply = "ok"
<1>1. CASE s.limit = 0
  <2>1. o = Outcome(s, "ok")
    BY <1>1 DEF EnforceMaxmemory
  <2>2. o.store = s /\ o.reply = "ok"
    BY <2>1 DEF Outcome
  <2> QED
    BY <1>1, <2>2, LeadsItself DEF Enforced, Shrinks, KeptOrGone
<1>2. CASE s.limit # 0 /\ s.sizes[k] > s.limit
  <2>1. o = Outcome(s, "oom")
    BY <1>2 DEF EnforceMaxmemory
  <2>2. o.store = s /\ o.reply = "oom"
    BY <2>1 DEF Outcome
  <2>4. s.sizes[k] <= Total(s.sizes) /\ Total(s.sizes) \in Nat
    BY TotalSet, TotalType DEF StoreInv, WellTyped
  <2>5. ~(s.used <= s.limit)
    BY <1>2, <2>4 DEF StoreInv, WellTyped, Counted
  <2> QED
    BY <1>2, <2>2, <2>5, LeadsItself DEF Enforced, Shrinks, KeptOrGone
<1>3. CASE s.limit # 0 /\ ~(s.sizes[k] > s.limit)
  <2>1. PICK t \in EvictExpiredSamples(s) : o \in EnforceAfterCleanup(t)
    BY <1>3 DEF EnforceMaxmemory
  <2>2. /\ Leads(s, t, {})
        /\ Shrinks(s, t)
        /\ t.used <= s.used
        /\ \A j \in Keys : ~IsExpired(s, j) =>
              /\ t.data[j] = s.data[j] /\ t.sizes[j] = s.sizes[j]
              /\ t.access[j] = s.access[j] /\ t.expiry[j] = s.expiry[j]
        /\ \A j \in Keys : t.expiry[j] \in {0, s.expiry[j]} /\ t.access[j] \in {0, s.access[j]}
    BY EvictExpiredLeads
  <2>3. StoreInv(t) /\ t.limit = s.limit /\ t.policy = s.policy /\ t.now = s.now
    BY <2>2 DEF Leads, Spares
  <2>4. /\ Enforced(t, o)
        /\ \A j \in Keys : Recent(t, j) /\ t.sizes[j] <= t.limit
                            => o.store.data[j] = t.data[j]
        /\ t.used <= t.limit => o.reply = "ok"
    BY <1>3, <2>1, <2>3, AfterCleanupIs
  <2>5. Enforced(s, o)
    <3>1. Leads(s, o.store, {})
      BY <2>2, <2>4, LeadsTrans DEF Enforced
    <3>2. Shrinks(s, o.store)
      BY <2>2, <2>4 DEF Enforced, Shrinks, KeptOrGone
    <3>3. \A j \in Keys : o.store.expiry[j] \in {0, s.expiry[j]}
      BY <2>2, <2>4 DEF Enforced
    <3> QED
      BY <1>3, <2>3, <2>4, <3>1, <3>2, <3>3 DEF Enforced
  <2>6. ASSUME Recent(s, k) PROVE o.store.data[k] = s.data[k]
    <3>1. /\ t.data[k] = s.data[k] /\ t.sizes[k] = s.sizes[k]
          /\ t.access[k] = s.access[k] /\ t.expiry[k] = s.expiry[k]
      BY <2>2, <2>6 DEF Recent
    <3>2. t.sizes[k] <= t.limit
      BY <1>3, <2>3, <2>6, <3>1 DEF StoreInv, WellTyped
    <3>3. ASSUME NEW j \in Keys PROVE t.access[j] <= t.access[k]
      <4>1. s.access[j] <= s.access[k] /\ s.access[j] \in Nat /\ s.access[k] \in Nat
        BY <2>6 DEF Recent, StoreInv, WellTyped
      <4>2. t.access[j] \in {0, s.access[j]}
        BY <2>2
      <4> QED
        BY <3>1, <4>1, <4>2
    <3>4. Recent(t, k)
      BY <2>3, <2>6, <3>1, <3>3 DEF Recent, IsExpired
    <3> QED
      BY <2>4, <3>1, <3>2, <3>4
  <2>7. s.used <= s.limit => t.used <= t.limit
    BY <2>2, <2>3 DEF StoreInv, WellTyped
  <2> QED
    BY <2>4, <2>5, <2>6, <2>7
<1> QED
  BY <1>1, <1>2, <1>3

-----------------------------------------------------------------------------
(***************************************************************************)
(* Snapshots.  The snapshot of k was taken from s0, and nothing since has  *)
(* given another key the access time it holds.                             *)
(***************************************************************************)
LEMMA ObjectsArePresent ==
    ASSUME NEW v \in Objects
    PROVE  v # Missing
  BY SMT DEF Objects, Strings, Lists, Collections, Missing

LEMMA RestoreIs ==
    ASSUME NEW s0, StoreInv(s0), NEW s, StoreInv(s), NEW k \in Keys,
           s0.clock <= s.clock, \A j \in Keys : Renewed(s0, s, j)
    PROVE  LET r == RestoreKeySnapshot(s, k, SnapshotKey(s0, k))
           IN  /\ StoreInv(r)
               /\ \A j \in Keys \ {k} : SameAt(s, r, j)
               /\ r.data[k] \in {s0.data[k], s.data[k]}
               /\ s.limit # 0 \/ s0.data[k] = Missing => r.data[k] = s0.data[k]
               /\ s0.data[k] # Missing => r.data[k] # Missing
               /\ r.access[k] = s0.access[k]
               /\ r.data[k] # Missing => r.sizes[k] = EstimateKeySize(r, k)
               /\ r.expiry = s.expiry /\ r.clock = s.clock /\ r.now = s.now
               /\ r.limit = s.limit /\ r.policy = s.policy
<1> DEFINE snap == SnapshotKey(s0, k)
           r == RestoreKeySnapshot(s, k, snap)
           cleared == [s EXCEPT !.sizes[k] = 0, !.used = Monus(s.used, s.sizes[k])]
           obj == IF snap.obj = Missing THEN Missing
                  ELSE IF s.limit = 0 /\ s.data[k] # Missing THEN s.data[k] ELSE snap.obj
           t == [cleared EXCEPT !.data[k] = obj, !.access[k] = snap.access]
<1>1. /\ snap.obj = s0.data[k] /\ snap.access = s0.access[k]
      /\ snap.access \in Nat /\ (snap.obj = Missing <=> snap.access = 0)
      /\ snap.obj \in Objects \cup {Missing}
  BY DEF SnapshotKey, StoreInv, WellTyped, AccessInSync
<1>2. /\ Total(s.sizes) \in Nat /\ s.sizes[k] \in 0..Total(s.sizes)
      /\ Total([s.sizes EXCEPT ![k] = 0]) = Total(s.sizes) - s.sizes[k]
  <2>1. s.sizes \in [Keys -> Nat] /\ s.sizes[k] \in Nat
    BY DEF StoreInv, WellTyped
  <2> QED
    BY <2>1, TotalType, TotalSet
<1>3. Monus(s.used, s.sizes[k]) = s.used - s.sizes[k]
  BY <1>2, MonusIs DEF StoreInv, Counted
<1>4. /\ DOMAIN t = Fields
      /\ t.used = s.used - s.sizes[k]
      /\ t.data = [s.data EXCEPT ![k] = obj]
      /\ t.sizes = [s.sizes EXCEPT ![k] = 0]
      /\ t.access = [s.access EXCEPT ![k] = snap.access]
      /\ t.expiry = s.expiry /\ t.clock = s.clock /\ t.now = s.now
      /\ t.limit = s.limit /\ t.policy = s.policy
      /\ t.logging = s.logging /\ t.log = s.log
  <2> HIDE DEF snap, obj
  <2> QED
    BY <1>3, SMT DEF StoreInv, WellTyped, Fields
<1>5. /\ obj \in Objects \cup {Missing}
      /\ obj = Missing <=> snap.obj = Missing
      /\ obj \in {snap.obj, s.data[k]}
      /\ s.limit # 0 => obj = snap.obj
  BY <1>1 DEF StoreInv, WellTyped
<1>6. r = IF snap.obj = Missing THEN t ELSE SyncMemoryForKey(t, k)
  <2>1. CASE snap.obj = Missing
    BY <1>1, <2>1 DEF RestoreKeySnapshot
  <2>2. CASE snap.obj # Missing
    BY <2>2 DEF RestoreKeySnapshot
  <2> QED
    BY <2>1, <2>2
<1> HIDE DEF r, t, obj, snap
<1>7. WellTyped(t)
  <2>1. /\ s.data \in [Keys -> Objects \cup {Missing}] /\ s.sizes \in [Keys -> Nat]
        /\ s.access \in [Keys -> Nat] /\ s.used \in Int /\ s.sizes[k] \in Nat
    BY DEF StoreInv, WellTyped
  <2>2. /\ t.data \in [Keys -> Objects \cup {Missing}] /\ t.sizes \in [Keys -> Nat]
        /\ t.access \in [Keys -> Nat] /\ t.used \in Int
    BY <1>1, <1>4, <1>5, <2>1
  <2> QED
    BY <1>4, <2>2 DEF StoreInv, WellTyped
<1>8. Counted(t)
  BY <1>2, <1>4 DEF StoreInv, Counted
<1>9. /\ \A j \in Keys : AccessInSync(t, j)
      /\ \A j \in Keys \ {k} : SizeInSync(t, j)
  <2>1. ASSUME NEW j \in Keys \ {k}
        PROVE  /\ t.data[j] = s.data[j] /\ t.sizes[j] = s.sizes[j]
               /\ t.access[j] = s.access[j] /\ t.expiry[j] = s.expiry[j]
    BY <1>4 DEF StoreInv, WellTyped
  <2>2. t.data[k] = obj /\ t.access[k] = snap.access
    BY <1>4 DEF StoreInv, WellTyped
  <2>3. \A j \in Keys \ {k} : AccessInSync(t, j) /\ SizeInSync(t, j)
    BY <2>1 DEF StoreInv, AccessInSync, SizeInSync, EstimateKeySize
  <2>4. AccessInSync(t, k)
    BY <1>1, <1>5, <2>2 DEF AccessInSync
  <2> QED
    BY <2>3, <2>4
<1>10. ASSUME NEW j \in Keys PROVE AccessInOrder(t, j)
  <2>1. s0.access[k] <= s0.clock /\ s0.clock \in Nat /\ s.clock \in Nat
        /\ s.access \in [Keys -> Nat] /\ s0.access \in [Keys -> Nat]
    BY DEF StoreInv, WellTyped, AccessInOrder
  <2>2. t.access[j] <= t.clock
    <3>1. t.access[j] = IF j = k THEN s0.access[k] ELSE s.access[j]
      BY <1>1, <1>4, <2>1
    <3>2. s.access[j] <= s.clock /\ t.clock = s.clock /\ s.access[j] \in Nat
      BY <1>4, <2>1 DEF StoreInv, AccessInOrder
    <3>3. s0.access[k] \in Nat
      BY <2>1
    <3> QED
      BY <2>1, <3>1, <3>2, <3>3
  <2>3. ASSUME NEW i \in Keys \ {k} PROVE s.access[i] = 0 \/ s.access[i] # s0.access[k]
    <3>1. CASE s.access[i] \in {0, s0.access[i]}
      BY <3>1 DEF StoreInv, AccessInOrder
    <3>2. CASE s.access[i] > s0.clock
      BY <2>1, <3>2
    <3> QED
      BY <3>1, <3>2 DEF Renewed
  <2>4. ASSUME NEW i \in Keys \ {j}, t.access[j] # 0 PROVE t.access[i] # t.access[j]
    <3>1. CASE j = k
      BY <1>1, <1>4, <2>1, <2>3, <2>4, <3>1
    <3>2. CASE j # k /\ i = k
      BY <1>1, <1>4, <2>1, <2>3, <2>4, <3>2
    <3>3. CASE j # k /\ i # k
      BY <1>4, <2>1, <2>4, <3>3 DEF StoreInv, AccessInOrder
    <3> QED
      BY <3>1, <3>2, <3>3
  <2> QED
    BY <2>2, <2>4 DEF AccessInOrder
<1>11. StoreInvBut(t, k)
  BY <1>7, <1>8, <1>9, <1>10 DEF StoreInvBut
<1>12. /\ StoreInv(r)
       /\ \A j \in Keys \ {k} : r.sizes[j] = t.sizes[j]
       /\ r.data[k] # Missing => r.sizes[k] = EstimateKeySize(r, k)
       /\ r.data = t.data /\ r.access = t.access /\ r.expiry = t.expiry /\ r.clock = t.clock
       /\ r.now = t.now /\ r.limit = t.limit /\ r.policy = t.policy
  <2>1. CASE snap.obj = Missing
    <3>1. SizeInSync(t, k)
      BY <1>4, <1>5, <2>1 DEF SizeInSync, StoreInv, WellTyped
    <3>2. StoreInv(t)
      BY <1>11, <3>1 DEF StoreInvBut, StoreInv
    <3>3. r.data[k] = Missing
      BY <1>4, <1>5, <1>6, <2>1 DEF StoreInv, WellTyped
    <3> QED
      BY <1>6, <2>1, <3>2, <3>3
  <2>2. CASE snap.obj # Missing
    <3> DEFINE size == IF t.data[k] = Missing THEN 0 ELSE EstimateKeySize(t, k)
    <3>1. /\ r.sizes = [t.sizes EXCEPT ![k] = size]
          /\ r.data = t.data /\ r.access = t.access /\ r.clock = t.clock
          /\ r.expiry = t.expiry /\ r.now = t.now /\ r.limit = t.limit
          /\ r.policy = t.policy
      BY <1>6, <1>7, <1>8, <2>2, SyncIs
    <3>2. StoreInv(r)
      BY <1>6, <1>11, <2>2, SyncRestoresInv
    <3>3. r.data[k] # Missing => size = EstimateKeySize(r, k)
      BY <3>1 DEF EstimateKeySize
    <3> HIDE DEF size
    <3>4. /\ \A j \in Keys \ {k} : r.sizes[j] = t.sizes[j]
          /\ r.data[k] # Missing => r.sizes[k] = EstimateKeySize(r, k)
      BY <1>7, <3>1, <3>3 DEF WellTyped
    <3> QED
      BY <3>1, <3>2, <3>4
  <2> QED
    BY <2>1, <2>2
<1>13. ASSUME NEW j \in Keys \ {k} PROVE SameAt(s, r, j)
  <2>1. t.data[j] = s.data[j] /\ t.sizes[j] = s.sizes[j] /\ t.access[j] = s.access[j] /\ t.expiry[j] = s.expiry[j]
    BY <1>4 DEF StoreInv, WellTyped
  <2> QED
    BY <1>12, <2>1 DEF SameAt
<1>14. r.data[k] = obj /\ r.access[k] = s0.access[k]
  BY <1>1, <1>4, <1>12 DEF StoreInv, WellTyped
<1>15. LET r2 == RestoreKeySnapshot(s, k, SnapshotKey(s0, k)) IN r2 = r
  BY DEF r, snap
<1> QED
  BY <1>1, <1>4, <1>5, <1>12, <1>13, <1>14, <1>15

\* A rollback of k is a correct way on from the state of the snapshot.
LEMMA RestoreLeads ==
    ASSUME NEW s0, StoreInv(s0), NEW s, StoreInv(s), NEW k \in Keys, Spares(s0, s, {k}),
           s.limit = 0 => /\ s.expiry[k] \in {0, s0.expiry[k]}
                          /\ DeadlinesLive(s0) => DeadlinesLive(s)
    PROVE  Leads(s0, RestoreKeySnapshot(s, k, SnapshotKey(s0, k)), {k})
<1> DEFINE r == RestoreKeySnapshot(s, k, SnapshotKey(s0, k))
<1>1. /\ StoreInv(r)
      /\ \A j \in Keys \ {k} : SameAt(s, r, j)
      /\ r.data[k] \in {s0.data[k], s.data[k]}
      /\ s.limit # 0 \/ s0.data[k] = Missing => r.data[k] = s0.data[k]
      /\ s0.data[k] # Missing => r.data[k] # Missing
      /\ r.access[k] = s0.access[k]
      /\ r.data[k] # Missing => r.sizes[k] = EstimateKeySize(r, k)
      /\ r.expiry = s.expiry /\ r.clock = s.clock /\ r.now = s.now
      /\ r.limit = s.limit /\ r.policy = s.policy
  BY RestoreIs DEF Spares
<1> HIDE DEF r
<1>2. Spares(s0, r, {k})
  <2>1. /\ r.now = s0.now /\ r.limit = s0.limit /\ r.policy = s0.policy
        /\ s0.clock <= r.clock
    BY <1>1 DEF Spares
  <2>2. \A j \in Keys : Renewed(s0, r, j)
    BY <1>1 DEF Spares, Renewed, SameAt
  <2>3. \A j \in Keys \ {k} : SparesKey(s0, r, {k}, j)
    BY <1>1 DEF Spares, SparesKey, SameAt, Evicts
  <2> QED
    BY <2>1, <2>2, <2>3 DEF Spares
<1>3. ValuesFit(s0) => ValuesFit(r)
  <2>1. CASE s0.limit = 0
    BY <1>2, <2>1 DEF ValuesFit, Spares
  <2>2. CASE s0.limit # 0
    <3>1. r.data[k] = s0.data[k]
      BY <1>1, <2>2 DEF Spares
    <3>2. r.data[k] # Missing => BaseSize(r)[k] <= BaseSize(s0)[k]
      BY <1>1, <3>1, ExactIsLight
    <3>3. \A j \in Keys \ {k} : r.data[j] # Missing => BaseSize(r)[j] = BaseSize(s0)[j]
      BY <1>2 DEF Spares, SparesKey, SameAt, BaseSize
    <3>4. BaseSize(s0) \in [Keys -> Nat]
      BY BaseSizeType
    <3>5. Lighter(s0, r)
      BY <3>2, <3>3, <3>4 DEF Lighter
    <3> QED
      BY <1>1, <1>2, <3>5, ShrunkFits DEF Spares
  <2> QED
    BY <2>1, <2>2
<1>4. DeadlinesLive(s0) => DeadlinesLive(r)
  <2>1. CASE s0.limit # 0
    BY <1>2, <2>1 DEF DeadlinesLive, Spares
  <2>2. CASE s0.limit = 0
    <3>1. s.limit = 0
      BY <2>2 DEF Spares
    <3>2. SUFFICES ASSUME DeadlinesLive(s0), NEW j \in Keys, r.expiry[j] # 0
                   PROVE  r.data[j] # Missing
      BY DEF DeadlinesLive
    <3>3. CASE j = k
      <4>1. s0.expiry[k] # 0
        BY <1>1, <3>1, <3>2, <3>3
      <4> QED
        BY <1>1, <2>2, <3>2, <3>3, <4>1 DEF DeadlinesLive
    <3>4. CASE j # k
      BY <1>1, <3>1, <3>2, <3>4 DEF DeadlinesLive, SameAt
    <3> QED
      BY <3>3, <3>4
  <2> QED
    BY <2>1, <2>2
<1> QED
  BY <1>1, <1>2, <1>3, <1>4 DEF Leads, Tidy, r

-----------------------------------------------------------------------------
(***************************************************************************)
(* Writes.                                                                 *)
(***************************************************************************)
\* s is s0 or what a lookup of k has made of it
Looked(s0, s, k) ==
    /\ Leads(s0, s, {k})
    /\ Shrinks(s0, s)
    /\ s.expiry[k] \in {0, s0.expiry[k]}
    /\ ~IsExpired(s0, k) => s.data[k] = s0.data[k] /\ s.expiry[k] = s0.expiry[k]

\* under a limit a failure leaves the values of its own keys as they were
RolledBack(s, o, K) ==
    o.reply \in {"oom", "error"} /\ s.limit # 0 =>
        \A k \in K : ~IsExpired(s, k) =>
            /\ o.store.data[k] = s.data[k]
            /\ s.policy = "noeviction" => o.store.expiry[k] = s.expiry[k]

\* a success has stored a value where the policy cannot choose it
Stored(s, o, k) ==
    o.reply = "ok" /\ s.policy \in {"noeviction", "allkeys-lru"} /\ ~IsExpired(s, k) =>
        o.store.data[k] # Missing /\ ~IsExpired(o.store, k)

KeepsDeadline(s, t, k) ==
    /\ t.expiry[k] \in {0, s.expiry[k]}
    /\ s.policy = "noeviction" /\ ~IsExpired(s, k) => t.expiry[k] = s.expiry[k]

\* the store that a write of obj at k hands to the enforcement
Written(s, k, obj) == SyncMemoryForKey(TouchKey([s EXCEPT !.data[k] = obj], k), k)

LEMMA LookedItself ==
    ASSUME NEW s, StoreInv(s), NEW k \in Keys
    PROVE  Looked(s, s, k)
  BY LeadsItself DEF Looked, Shrinks, KeptOrGone

LEMMA WrittenIs ==
    ASSUME NEW s, StoreInv(s), NEW k \in Keys, NEW obj \in Objects
    PROVE  LET t == Written(s, k, obj)
           IN  /\ StoreInv(t)
               /\ t.data = [s.data EXCEPT ![k] = obj]
               /\ t.sizes = [s.sizes EXCEPT ![k] = EstimateKeySize(t, k)]
               /\ t.access = [s.access EXCEPT ![k] = s.clock + 1]
               /\ t.clock = s.clock + 1
               /\ t.expiry = s.expiry /\ t.now = s.now /\ t.limit = s.limit
               /\ t.policy = s.policy
<1> DEFINE w == [s EXCEPT !.data[k] = obj]
           u == TouchKey(w, k)
           t == SyncMemoryForKey(u, k)
           size == IF u.data[k] = Missing THEN 0 ELSE EstimateKeySize(u, k)
<1>1. /\ DOMAIN w = Fields
      /\ w.data = [s.data EXCEPT ![k] = obj] /\ w.sizes = s.sizes /\ w.used = s.used
      /\ w.access = s.access /\ w.clock = s.clock
      /\ w.expiry = s.expiry /\ w.now = s.now /\ w.limit = s.limit
      /\ w.policy = s.policy /\ w.logging = s.logging /\ w.log = s.log
  BY SMT DEF StoreInv, WellTyped, Fields
<1> HIDE DEF w
<1>2. w.data[k] = obj /\ obj # Missing
  BY <1>1, ObjectsArePresent DEF StoreInv, WellTyped
<1>3. WellTyped(w)
  BY <1>1 DEF StoreInv, WellTyped
<1>4. /\ DOMAIN u = Fields
      /\ u.data = w.data /\ u.sizes = w.sizes /\ u.used = w.used
      /\ u.expiry = w.expiry /\ u.now = w.now /\ u.limit = w.limit
      /\ u.policy = w.policy /\ u.logging = w.logging /\ u.log = w.log
      /\ u.access = [w.access EXCEPT ![k] = w.clock + 1]
      /\ u.clock = w.clock + 1
  BY <1>2, <1>3, TouchIs
<1> HIDE DEF u
<1>5. WellTyped(u) /\ Counted(u)
  BY <1>1, <1>3, <1>4 DEF StoreInv, WellTyped, Counted
<1>6. /\ u.access[k] = s.clock + 1 /\ s.clock + 1 # 0 /\ u.data[k] # Missing
      /\ \A j \in Keys \ {k} : /\ u.data[j] = s.data[j] /\ u.sizes[j] = s.sizes[j]
                               /\ u.access[j] = s.access[j] /\ u.expiry[j] = s.expiry[j]
  BY <1>1, <1>2, <1>4 DEF StoreInv, WellTyped
<1>7. /\ \A j \in Keys : AccessInSync(u, j)
      /\ \A j \in Keys \ {k} : SizeInSync(u, j)
  BY <1>6 DEF StoreInv, AccessInSync, SizeInSync, EstimateKeySize
<1>8. ASSUME NEW j \in Keys PROVE AccessInOrder(u, j)
  <2>1. \A i \in Keys : s.access[i] <= s.clock /\ s.access[i] \in Nat
    BY DEF StoreInv, WellTyped, AccessInOrder
  <2>2. s.clock \in Nat /\ u.clock = s.clock + 1
    BY <1>1, <1>4 DEF StoreInv, WellTyped
  <2>3. CASE j = k
    BY <1>6, <2>1, <2>2, <2>3 DEF AccessInOrder
  <2>4. CASE j # k
    <3>1. u.access[j] = s.access[j] /\ u.access[j] <= u.clock
      BY <1>6, <2>1, <2>2, <2>4
    <3>2. ASSUME NEW i \in Keys \ {j}, u.access[j] # 0 PROVE u.access[i] # u.access[j]
      <4>1. CASE i = k
        BY <1>6, <2>1, <2>2, <3>1, <4>1
      <4>2. CASE i # k
        BY <1>6, <3>1, <3>2, <4>2 DEF StoreInv, AccessInOrder
      <4> QED
        BY <4>1, <4>2
    <3> QED
      BY <3>1, <3>2 DEF AccessInOrder
  <2> QED
    BY <2>3, <2>4
<1>9. StoreInvBut(u, k)
  BY <1>5, <1>7, <1>8 DEF StoreInvBut
<1>10. /\ StoreInv(t)
       /\ t.sizes = [u.sizes EXCEPT ![k] = size]
       /\ t.data = u.data /\ t.access = u.access /\ t.clock = u.clock
       /\ t.expiry = u.expiry /\ t.now = u.now /\ t.limit = u.limit
       /\ t.policy = u.policy
  BY <1>5, <1>9, SyncIs, SyncRestoresInv
<1>11. t = Written(s, k, obj)
  BY DEF Written, u, w
<1> HIDE DEF t
<1>12. size = EstimateKeySize(t, k)
  BY <1>6, <1>10 DEF EstimateKeySize
<1> HIDE DEF size
<1> QED
  BY <1>1, <1>4, <1>10, <1>11, <1>12

LEMMA NoEviction ==
    ASSUME NEW s, NEW t, Leads(s, t, {}), s.policy = "noeviction", NEW k \in Keys, ~IsExpired(s, k)
    PROVE  t.data[k] = s.data[k] /\ t.expiry[k] = s.expiry[k]
  BY DEF Leads, Spares, SparesKey, SameAt, Evicts, MayEvict

LEMMA PutIs ==
    ASSUME NEW s0, StoreInv(s0), NEW s, NEW k \in Keys, Looked(s0, s, k),
           NEW obj \in Objects, NEW p \in Put(s, k, obj, SnapshotKey(s0, k))
    PROVE  /\ Leads(s0, p.store, {k})
           /\ p.reply \in {"ok", "oom"} /\ (s0.limit = 0 => p.reply = "ok")
           /\ RolledBack(s0, p, {k})
           /\ Stored(s0, p, k)
           /\ KeepsDeadline(s0, p.store, k)
           /\ p.reply = "ok" => /\ p.store.data[k] \in {obj, Missing}
                                /\ s0.limit # 0 => p.store.used <= s0.limit
           /\ s0.limit = 0 => p.store.data[k] = obj
<1> DEFINE t == Written(s, k, obj)
           Back(u) == RestoreKeySnapshot(u, k, SnapshotKey(s0, k))
<1>1. /\ StoreInv(s) /\ Spares(s0, s, {k}) /\ (Tidy(s0) => Tidy(s))
      /\ s.now = s0.now /\ s.limit = s0.limit /\ s.policy = s0.policy
  BY DEF Looked, Leads, Spares
<1>2. /\ StoreInv(t)
      /\ t.data = [s.data EXCEPT ![k] = obj]
      /\ t.sizes = [s.sizes EXCEPT ![k] = EstimateKeySize(t, k)]
      /\ t.access = [s.access EXCEPT ![k] = s.clock + 1]
      /\ t.clock = s.clock + 1
      /\ t.expiry = s.expiry /\ t.now = s.now /\ t.limit = s.limit
      /\ t.policy = s.policy
  BY <1>1, WrittenIs
<1>3. PICK o \in EnforceMaxmemory(t, {k}) :
        p = IF o.reply = "oom" THEN Outcome(Back(o.store), "oom") ELSE o
  <2>1. [s EXCEPT !.data[k] = obj].data[k] # Missing
    BY <1>1, ObjectsArePresent DEF StoreInv, WellTyped, Fields
  <2> QED
    BY <2>1 DEF Put, FinalizeMutation, Written
<1> HIDE DEF t, Back
<1>4. /\ Enforced(t, o)
      /\ o.reply = "ok" /\ Recent(t, k) => o.store.data[k] = t.data[k]
  <2>1. StoreInv(t)
    BY <1>2
  <2>2. /\ Enforced(t, o)
        /\ o.reply = "ok" /\ Recent(t, k) => o.store.data[k] = t.data[k]
        /\ t.used <= t.limit => o.reply = "ok"
    BY <2>1, EnforceIs, Zenon
  <2> QED
    BY <2>2
<1>5. /\ o.reply = "ok" => p = o
      /\ o.reply = "oom" => p.store = Back(o.store) /\ p.reply = "oom"
      /\ o.reply \in {"ok", "oom"}
  BY <1>3, <1>4 DEF Outcome, Enforced
<1>6. t.data[k] = obj /\ obj # Missing /\ t.expiry[k] = s.expiry[k]
  BY <1>1, <1>2, ObjectsArePresent DEF StoreInv, WellTyped
<1>7. Spares(s, t, {k})
  <2>1. /\ s.clock <= t.clock
        /\ \A j \in Keys : Renewed(s, t, j)
    <3>1. s.access \in [Keys -> Nat] /\ s.clock \in Nat
      BY <1>1 DEF StoreInv, WellTyped
    <3> QED
      BY <1>2, <3>1 DEF Renewed
  <2>2. \A j \in Keys \ {k} : SameAt(s, t, j)
    BY <1>1, <1>2 DEF StoreInv, WellTyped, SameAt
  <2>3. \A j \in Keys \ {k} : SparesKey(s, t, {k}, j)
    BY <2>2 DEF SparesKey, SameAt, Evicts
  <2> QED
    BY <1>2, <2>1, <2>3 DEF Spares
<1>8. /\ StoreInv(o.store)
      /\ Spares(s0, o.store, {k})
  <2>1. Leads(t, o.store, {k})
    BY <1>4, LeadsMore DEF Enforced
  <2>2. WellTyped(s0) /\ WellTyped(s) /\ WellTyped(t) /\ WellTyped(o.store)
    BY <1>1, <1>2, <2>1 DEF StoreInv, Leads
  <2>3. Spares(s, o.store, {k})
    BY <1>7, <2>1, <2>2, SparesTrans DEF Leads
  <2> QED
    BY <1>1, <2>1, <2>2, <2>3, SparesTrans DEF Leads
<1>9. KeepsDeadline(s0, o.store, k)
  <2>1. o.store.expiry[k] \in {0, s0.expiry[k]}
    BY <1>4, <1>6 DEF Enforced, Looked
  <2>2. ASSUME s0.policy = "noeviction", ~IsExpired(s0, k)
        PROVE  o.store.expiry[k] = s0.expiry[k]
    <3>1. t.expiry[k] = s0.expiry[k] /\ ~IsExpired(t, k)
      BY <1>1, <1>2, <2>2 DEF Looked, IsExpired
    <3> QED
      BY <1>1, <1>2, <1>4, <2>2, <3>1, NoEviction DEF Enforced
  <2> QED
    BY <2>1, <2>2 DEF KeepsDeadline
<1>10. CASE o.reply = "ok"
  <2>1. p = o
    BY <1>5, <1>10
  <2>2. Tidy(s0) => Tidy(o.store)
    <3>1. CASE s0.limit = 0
      <4>1. o.store = t
        BY <1>1, <1>2, <1>4, <3>1 DEF Enforced
      <4>2. DeadlinesLive(s) => DeadlinesLive(t)
        BY <1>1, <1>2, <1>6 DEF DeadlinesLive, StoreInv, WellTyped
      <4> QED
        BY <1>1, <1>2, <3>1, <4>1, <4>2 DEF Tidy, ValuesFit
    <3>2. CASE s0.limit # 0
      <4>1. o.store.used <= o.store.limit /\ o.store.limit # 0
        BY <1>1, <1>2, <1>4, <1>8, <1>10, <3>2 DEF Enforced, Spares
      <4> QED
        BY <1>8, <4>1, WithinLimitFits DEF Tidy, DeadlinesLive
    <3> QED
      BY <3>1, <3>2
  <2>3. Leads(s0, p.store, {k})
    BY <1>8, <2>1, <2>2 DEF Leads
  <2>4. o.store.data[k] \in {obj, Missing}
    BY <1>4, <1>6 DEF Enforced, Shrinks, KeptOrGone
  <2>5. ASSUME s0.policy \in {"noeviction", "allkeys-lru"}, ~IsExpired(s0, k)
        PROVE  o.store.data[k] # Missing /\ ~IsExpired(o.store, k)
    <3>1. t.expiry[k] = s0.expiry[k] /\ ~IsExpired(t, k)
      BY <1>1, <1>2, <2>5 DEF Looked, IsExpired
    <3>2. ASSUME NEW j \in Keys PROVE t.access[j] <= t.access[k]
      <4>1. s.access \in [Keys -> Nat] /\ s.clock \in Nat /\ s.access[j] <= s.clock
        BY <1>1 DEF StoreInv, WellTyped, AccessInOrder
      <4> QED
        BY <1>2, <4>1
    <3>3. Recent(t, k)
      BY <1>1, <1>2, <1>6, <2>5, <3>1, <3>2 DEF Recent
    <3>4. o.store.data[k] # Missing
      BY <1>4, <1>6, <1>10, <3>3
    <3>5. o.store.expiry[k] \in {0, t.expiry[k]} /\ o.store.now = t.now
      BY <1>4 DEF Enforced, Leads, Spares
    <3> QED
      BY <3>1, <3>4, <3>5 DEF IsExpired
  <2>6. Stored(s0, p, k)
    BY <2>1, <2>5 DEF Stored
  <2>7. RolledBack(s0, p, {k})
    BY <1>10, <2>1 DEF RolledBack
  <2>8. s0.limit # 0 => o.store.used <= s0.limit
    BY <1>1, <1>2, <1>4, <1>10 DEF Enforced
  <2>9. s0.limit = 0 => o.store.data[k] = obj
    BY <1>1, <1>2, <1>4, <1>6 DEF Enforced
  <2> QED
    BY <1>9, <1>10, <2>1, <2>3, <2>4, <2>6, <2>7, <2>8, <2>9
<1>11. CASE o.reply = "oom"
  <2>1. s0.limit # 0 /\ o.store.limit # 0
    BY <1>1, <1>2, <1>4, <1>8, <1>11 DEF Enforced, Spares
  <2> DEFINE r == Back(o.store)
  <2>2. p.store = r /\ p.reply = "oom"
    BY <1>5, <1>11
  <2>3. Leads(s0, r, {k})
    BY <1>8, <2>1, RestoreLeads DEF Back
  <2>4. /\ o.store.limit # 0 \/ s0.data[k] = Missing => r.data[k] = s0.data[k]
        /\ r.expiry = o.store.expiry
    BY <1>8, RestoreIs DEF Back, Spares
  <2> HIDE DEF r
  <2>5. KeepsDeadline(s0, r, k)
    BY <1>9, <2>4 DEF KeepsDeadline
  <2>6. RolledBack(s0, p, {k})
    BY <2>1, <2>2, <2>4, <2>5 DEF RolledBack, KeepsDeadline
  <2>7. Stored(s0, p, k)
    BY <2>2 DEF Stored
  <2> QED
    BY <2>1, <2>2, <2>3, <2>5, <2>6, <2>7
<1> QED
  BY <1>5, <1>10, <1>11

LEMMA StoreSetIs ==
    ASSUME NEW s, StoreInv(s), NEW k \in Keys, NEW obj \in Objects, NEW p \in StoreSet(s, k, obj)
    PROVE  /\ Leads(s, p.store, {k})
           /\ p.reply \in {"ok", "oom"} /\ (s.limit = 0 => p.reply = "ok")
           /\ RolledBack(s, p, {k})
           /\ Stored(s, p, k)
           /\ KeepsDeadline(s, p.store, k)
           /\ p.reply = "ok" => /\ p.store.data[k] \in {obj, Missing}
                                /\ s.limit # 0 => p.store.used <= s.limit
           /\ s.limit = 0 => p.store.data[k] = obj
<1>1. Looked(s, s, k)
  BY LookedItself
<1>2. p \in Put(s, k, obj, SnapshotKey(s, k))
  BY DEF StoreSet
<1> QED
  BY <1>1, <1>2, PutIs, Zenon

\* A store within its limit accepts a value that is no larger than the one it
\* replaces.
LEMMA SmallerIsAccepted ==
    ASSUME NEW s, StoreInv(s), NEW k \in Keys, s.data[k] # Missing, s.used <= s.limit,
           NEW obj \in Objects, Weight(obj) <= Weight(s.data[k]), NEW p \in StoreSet(s, k, obj)
    PROVE  p.reply = "ok"
<1> DEFINE t == Written(s, k, obj)
           snap == SnapshotKey(s, k)
<1>1. /\ StoreInv(t)
      /\ t.data = [s.data EXCEPT ![k] = obj]
      /\ t.sizes = [s.sizes EXCEPT ![k] = EstimateKeySize(t, k)]
      /\ t.access = [s.access EXCEPT ![k] = s.clock + 1]
      /\ t.clock = s.clock + 1
      /\ t.expiry = s.expiry /\ t.now = s.now /\ t.limit = s.limit
      /\ t.policy = s.policy
  BY WrittenIs
<1>2. PICK o \in EnforceMaxmemory(t, {k}) :
        p = IF o.reply = "oom" THEN Outcome(RestoreKeySnapshot(o.store, k, snap), "oom") ELSE o
  <2>1. [s EXCEPT !.data[k] = obj].data[k] # Missing
    BY ObjectsArePresent DEF StoreInv, WellTyped, Fields
  <2> QED
    BY <2>1 DEF StoreSet, Put, FinalizeMutation, Written
<1> HIDE DEF t, snap
<1>3. t.data[k] = obj /\ obj # Missing /\ t.expiry[k] = s.expiry[k]
  BY <1>1, ObjectsArePresent DEF StoreInv, WellTyped
<1>4. Weight(obj) \in Nat /\ Weight(s.data[k]) \in Nat
  BY WeightType DEF StoreInv, WellTyped
<1>5. /\ EstimateKeySize(t, k) = KeyCost + Weight(obj) + (IF s.expiry[k] = 0 THEN 0 ELSE TtlCost)
      /\ s.sizes[k] >= KeyCost + Weight(s.data[k]) + (IF s.expiry[k] = 0 THEN 0 ELSE TtlCost)
  <2>1. EstimateKeySize(s, k) \in Nat /\ s.sizes[k] \in Nat
    BY EstimateType DEF StoreInv, WellTyped
  <2>2. s.sizes[k] >= EstimateKeySize(s, k)
    BY <2>1 DEF StoreInv, SizeInSync
  <2> QED
    BY <1>3, <2>2 DEF EstimateKeySize
<1>6. /\ EstimateKeySize(t, k) <= s.sizes[k]
      /\ EstimateKeySize(t, k) \in Nat /\ s.sizes[k] \in Nat
  <2>1. s.sizes[k] \in Nat
    BY DEF StoreInv, WellTyped
  <2> QED
    BY <1>4, <1>5, <2>1, CostAssumption
<1>7. Total(t.sizes) = Total(s.sizes) + EstimateKeySize(t, k) - s.sizes[k] /\ Total(s.sizes) \in Nat
  <2> DEFINE n == EstimateKeySize(t, k)
  <2>1. n \in Nat /\ s.sizes \in [Keys -> Nat]
    BY <1>6 DEF StoreInv, WellTyped
  <2> HIDE DEF n
  <2>2. Total([s.sizes EXCEPT ![k] = n]) = Total(s.sizes) + n - s.sizes[k] /\ Total(s.sizes) \in Nat
    BY <2>1, TotalSet, TotalType
  <2> QED
    BY <1>1, <2>2 DEF n
<1>8. t.used <= t.limit
  BY <1>1, <1>6, <1>7 DEF StoreInv, Counted, WellTyped
<1>9. StoreInv(t)
  BY <1>1
<1>10. t.used <= t.limit => o.reply = "ok"
  BY <1>9, EnforceIs, Zenon
<1> QED
  BY <1>2, <1>8, <1>10

LEMMA LookupIsLooked ==
    ASSUME NEW s, StoreInv(s), NEW k \in Keys
    PROVE  /\ Looked(s, Lookup(s, k), k)
           /\ StoreInv(Lookup(s, k))
           /\ ~IsExpired(Lookup(s, k), k) \/ Lookup(s, k).data[k] = Missing
           /\ Lookup(s, k).used <= s.used
<1> DEFINE t == PurgeIfExpired(s, k)
           u == TouchKey(t, k)
<1>1. /\ Leads(s, u, {k}) /\ Shrinks(s, u)
      /\ ~IsExpired(s, k) => u.data = s.data /\ u.expiry = s.expiry
      /\ IsExpired(s, k) => u.data[k] = Missing
  BY LookupLeads DEF Lookup
<1>2. StoreInv(t) /\ t.expiry[k] \in {0, s.expiry[k]} /\ t.used <= s.used
  <2>1. CASE t = s
    BY <2>1 DEF StoreInv, WellTyped
  <2>2. CASE t = DeleteKeys(s, <<k>>, "expiry")
    <3> DEFINE w == <<k>>
               d == DeleteKeys(s, w, "expiry")
               gone == ToSet(w)
    <3>1. w \in Seq(Keys)
      BY OneKey
    <3> HIDE DEF w
    <3>2. /\ WellTyped(d)
          /\ Counted(d)
          /\ d.used <= s.used
          /\ d.data = [j \in Keys |-> IF j \in gone THEN Missing ELSE s.data[j]]
          /\ d.sizes = [j \in Keys |-> IF j \in gone THEN 0 ELSE s.sizes[j]]
          /\ d.access = [j \in Keys |-> IF j \in gone THEN 0 ELSE s.access[j]]
          /\ d.expiry = [j \in Keys |-> IF j \in gone THEN 0 ELSE s.expiry[j]]
          /\ d.clock = s.clock /\ d.now = s.now /\ d.limit = s.limit
          /\ d.policy = s.policy /\ d.logging = s.logging
      BY <3>1, DeleteKeysIs
    <3>3. StoreInv(d)
      BY <3>1, DeleteKeysKeepsInv
    <3> HIDE DEF d, gone
    <3>4. d.expiry[k] \in {0, s.expiry[k]}
      BY <3>2
    <3>5. t = d
      BY <2>2 DEF d, w
    <3> QED
      BY <3>2, <3>3, <3>4, <3>5
  <2> QED
    BY <2>1, <2>2 DEF PurgeIfExpired, Delete
<1>3. u.expiry = t.expiry /\ u.used = t.used
  <2>1. WellTyped(t)
    BY <1>2 DEF StoreInv
  <2> HIDE DEF t
  <2> QED
    BY <2>1, TouchIs
<1> HIDE DEF t, u
<1>4. u.now = s.now /\ StoreInv(u)
  BY <1>1 DEF Leads, Spares
<1>5. ~IsExpired(u, k) \/ u.data[k] = Missing
  BY <1>1, <1>4 DEF IsExpired
<1>6. Looked(s, u, k)
  BY <1>1, <1>2, <1>3 DEF Looked
<1>7. u = Lookup(s, k)
  BY DEF u, t, Lookup
<1> QED
  BY <1>2, <1>3, <1>4, <1>5, <1>6, <1>7
=============================================================================

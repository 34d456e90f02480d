----------------------------- MODULE HashTable ------------------------------
(***************************************************************************)
(* The hash structures of hash_table.py: Hash with its compact list that   *)
(* is promoted to a ChainedHashTable, that table alone, and the            *)
(* OpenAddressHashTable kept beside it.  One record holds the structure;   *)
(* its field "form" says which attributes it has.                          *)
(***************************************************************************)
EXTENDS Integers, Sequences, FiniteSets, SequencesExt

CONSTANTS
    Kinds,             \* of the structures: "open", "chained", "hash"
    Fields, Values,
    BadFields,         \* fields that are not valid UTF-8: encoding them raises
    BigFields, BigValues, \* longer than COMPACT_MAX_BYTES
    HashCode,          \* murmurhash3_32 of each field
    INITIAL_CAPACITY,  \* 8 in the source
    COMPACT_MAX_ENTRIES, \* 32 in the source
    Missing            \* None

\* no odd divisor but 1: what a capacity must be, c & (c - 1) = 0
PowerOfTwo(c) == c \in Nat \ {0} /\ \A d \in 2..c : c % d = 0 => d % 2 = 0

ASSUME HashTableAssumption ==
    /\ Kinds \subseteq {"open", "chained", "hash"}
    /\ IsFiniteSet(Fields) /\ Missing \notin Values \cup Nat
    /\ BigFields \cup BadFields \subseteq Fields /\ BigValues \subseteq Values
    /\ HashCode \in [Fields -> Nat]
    /\ PowerOfTwo(INITIAL_CAPACITY) /\ INITIAL_CAPACITY >= 4
    /\ COMPACT_MAX_ENTRIES \in Nat

VARIABLES
    kind,   \* the structure of this behaviour
    table,  \* its attributes
    call,   \* the last call
    reply   \* and what it returned

vars == <<kind, table, call, reply>>

Entry(f, v) == <<f, v>>
Result(t, r) == [table |-> t, reply |-> r]
Raised == -1           \* the reply of a call that raised

-----------------------------------------------------------------------------
\* both tables: load factors 0.7 and 0.2, and the index of a hash code
Home(f, capacity) == HashCode[f] % capacity
Crowded(count, capacity) == 10 * count > 7 * capacity
Sparse(t) == t.capacity > INITIAL_CAPACITY /\ 10 * t.liveCount < 2 * t.capacity
Halved(t) == IF t.capacity \div 2 < INITIAL_CAPACITY THEN INITIAL_CAPACITY ELSE t.capacity \div 2

-----------------------------------------------------------------------------
\* OpenAddressHashTable: a slot is SLOT_EMPTY, SLOT_TOMBSTONE or an entry
SLOT_EMPTY == <<>>
SLOT_TOMBSTONE == <<Missing>>

NewOpen(capacity) ==
    [form |-> "open", capacity |-> capacity, liveCount |-> 0, used |-> 0,
     slots |-> [i \in 0..capacity - 1 |-> SLOT_EMPTY]]

\* the exclusive or of two numbers, bit by bit
Xor(a, b) ==
    SumFunctionOnSet([i \in 0..30 |-> 2 ^ i],
                     {i \in 0..30 : (a \div 2 ^ i) % 2 # (b \div 2 ^ i) % 2})

\* the bits of the mask 0xFFFFFFFF that are left out select no slot of a table
\* with a capacity of up to 2^31
Derived == [f \in Fields |-> Xor(HashCode[f] \div 65536, 2 * HashCode[f])]

ProbeStep(f, capacity) == (2 * (Derived[f] \div 2) + 1) % capacity

\* the n-th index of the search for a field, and what is there
Index(t, f, n) == (Home(f, t.capacity) + n * ProbeStep(f, t.capacity)) % t.capacity
Slot(t, f, n) == t.slots[Index(t, f, n)]

Occupied(slot) == slot \notin {SLOT_EMPTY, SLOT_TOMBSTONE}
Holds(slot, f) == Occupied(slot) /\ slot[1] = f

\* the probe that ends the search, and the first that meets a tombstone;
\* the capacity if there is none
LastProbe(t, f) ==
    CHOOSE n \in 0..t.capacity :
        /\ n = t.capacity \/ Slot(t, f, n) = SLOT_EMPTY \/ Holds(Slot(t, f, n), f)
        /\ \A m \in 0..n - 1 : Slot(t, f, m) # SLOT_EMPTY /\ ~Holds(Slot(t, f, m), f)

FirstTombstone(t, f) ==
    CHOOSE n \in 0..t.capacity :
        /\ n = t.capacity \/ Slot(t, f, n) = SLOT_TOMBSTONE
        /\ \A m \in 0..n - 1 : Slot(t, f, m) # SLOT_TOMBSTONE

\* faulty: a tombstone ends the search like an empty slot
FindSlotStopsAtTombstone(t, f) ==
    LET last == LastProbe(t, f)
        tombstone == FirstTombstone(t, f)
    IN  IF tombstone < last THEN [existing |-> Missing, insert |-> Index(t, f, tombstone)]
        ELSE IF last = t.capacity THEN [existing |-> Missing, insert |-> Missing]
        ELSE IF Holds(Slot(t, f, last), f) THEN [existing |-> Index(t, f, last), insert |-> Missing]
        ELSE [existing |-> Missing, insert |-> Index(t, f, last)]

\* _find_slot: where the field is, or else where it should be inserted
FindSlot(t, f) ==
    LET last == LastProbe(t, f)
        tombstone == FirstTombstone(t, f)
    IN  IF last < t.capacity /\ Holds(Slot(t, f, last), f)
        THEN [existing |-> Index(t, f, last), insert |-> Missing]
        ELSE [existing |-> Missing,
              insert |-> IF tombstone < last THEN Index(t, f, tombstone)
                         ELSE IF last < t.capacity THEN Index(t, f, last) ELSE Missing]

\* _insert_rehashed into a table that has no tombstones
InsertRehashedOpen(t, entry) ==
    [t EXCEPT !.slots[Index(t, entry[1], LastProbe(t, entry[1]))] = entry,
              !.liveCount = @ + 1, !.used = @ + 1]

ItemsOpen(t) ==
    FlattenSeq([n \in 1..t.capacity |->
                   IF Occupied(t.slots[n - 1]) THEN <<t.slots[n - 1]>> ELSE <<>>])

ResizeOpen(t, capacity) == FoldLeft(InsertRehashedOpen, NewOpen(capacity), ItemsOpen(t))

\* faulty: growth is decided by the live entries, tombstones not counted
GrowOpenOnLive(t) == IF Crowded(t.liveCount, t.capacity) THEN ResizeOpen(t, 2 * t.capacity) ELSE t

GrowOpen(t) == IF Crowded(t.used, t.capacity) THEN ResizeOpen(t, 2 * t.capacity) ELSE t

\* faulty: a tombstone that is reused is counted again
SetOpenAtCountsTwice(t, i, f, v) ==
    GrowOpen([t EXCEPT !.slots[i] = Entry(f, v), !.liveCount = @ + 1, !.used = @ + 1])

SetOpenAt(t, i, f, v) ==
    GrowOpen([t EXCEPT !.slots[i] = Entry(f, v), !.liveCount = @ + 1,
                       !.used = IF t.slots[i] = SLOT_EMPTY THEN @ + 1 ELSE @])

SetOpen(t, f, v) ==
    LET found == FindSlot(t, f)
        larger == ResizeOpen(t, 2 * t.capacity)
    IN  IF found.existing # Missing
        THEN Result([t EXCEPT !.slots[found.existing] = Entry(f, v)], 0)
        ELSE IF found.insert # Missing THEN Result(SetOpenAt(t, found.insert, f, v), 1)
        ELSE Result(SetOpenAt(larger, FindSlot(larger, f).insert, f, v), 1)

\* faulty: the slot becomes empty and cuts the probe paths through it
DeleteOpenToEmpty(t, f) ==
    LET i == FindSlot(t, f).existing
        cleared == [t EXCEPT !.slots[i] = SLOT_EMPTY, !.liveCount = @ - 1, !.used = @ - 1]
    IN  IF i = Missing THEN Result(t, 0)
        ELSE Result(IF Sparse(cleared) THEN ResizeOpen(cleared, Halved(cleared)) ELSE cleared, 1)

DeleteOpen(t, f) ==
    LET i == FindSlot(t, f).existing
        cleared == [t EXCEPT !.slots[i] = SLOT_TOMBSTONE, !.liveCount = @ - 1]
    IN  IF i = Missing THEN Result(t, 0)
        ELSE Result(IF Sparse(cleared) THEN ResizeOpen(cleared, Halved(cleared)) ELSE cleared, 1)

-----------------------------------------------------------------------------
\* ChainedHashTable: a bucket is the sequence of its chain, the head first
NewChained(capacity) ==
    [form |-> "chained", capacity |-> capacity, liveCount |-> 0,
     buckets |-> [i \in 0..capacity - 1 |-> <<>>]]

PushEntry(t, entry) ==
    [t EXCEPT !.buckets[Home(entry[1], t.capacity)] = <<entry>> \o @, !.liveCount = @ + 1]

ItemsChained(t) == FlattenSeq([n \in 1..t.capacity |-> t.buckets[n - 1]])

ResizeChained(t, capacity) == FoldLeft(PushEntry, NewChained(capacity), ItemsChained(t))

Position(chain, f) == SelectInSeq(chain, LAMBDA entry : entry[1] = f)

SetChained(t, f, v) ==
    LET b == Home(f, t.capacity)
        i == Position(t.buckets[b], f)
        pushed == PushEntry(t, Entry(f, v))
    IN  IF i # 0 THEN Result([t EXCEPT !.buckets[b][i] = Entry(f, v)], 0)
        ELSE Result(IF Crowded(pushed.liveCount, t.capacity)
                    THEN ResizeChained(pushed, 2 * t.capacity) ELSE pushed, 1)

\* faulty: the table never shrinks
DeleteChainedNoShrink(t, f) ==
    LET b == Home(f, t.capacity)
        i == Position(t.buckets[b], f)
    IN  IF i = 0 THEN Result(t, 0)
        ELSE Result([t EXCEPT !.buckets[b] = RemoveAt(@, i), !.liveCount = @ - 1], 1)

DeleteChained(t, f) ==
    LET b == Home(f, t.capacity)
        i == Position(t.buckets[b], f)
        unlinked == [t EXCEPT !.buckets[b] = RemoveAt(@, i), !.liveCount = @ - 1]
    IN  IF i = 0 THEN Result(t, 0)
        ELSE Result(IF Sparse(unlinked) THEN ResizeChained(unlinked, Halved(unlinked)) ELSE unlinked, 1)

-----------------------------------------------------------------------------
\* Hash: a list of entries until it has too many or too long ones
NewCompact == [form |-> "compact", entries |-> <<>>]

ShouldPromote(t, f, v, i) ==
    \/ f \in BigFields \/ v \in BigValues
    \/ Len(t.entries) + (IF i = 0 THEN 1 ELSE 0) > COMPACT_MAX_ENTRIES

Promote(t) ==
    FoldLeft(LAMBDA promoted, entry : SetChained(promoted, entry[1], entry[2]).table,
             NewChained(INITIAL_CAPACITY), t.entries)

SetCompact(t, f, v) ==
    LET i == Position(t.entries, f)
    IN  IF f \in BadFields THEN Result(t, Raised)
        ELSE IF ShouldPromote(t, f, v, i) THEN SetChained(Promote(t), f, v)
        ELSE IF i # 0 THEN Result([t EXCEPT !.entries[i] = Entry(f, v)], 0)
        ELSE Result([t EXCEPT !.entries = Append(@, Entry(f, v))], 1)

DeleteCompact(t, f) ==
    LET i == Position(t.entries, f)
    IN  IF i = 0 THEN Result(t, 0) ELSE Result([t EXCEPT !.entries = RemoveAt(@, i)], 1)

-----------------------------------------------------------------------------
\* the methods of whatever structure there is; a table hashes the field first
SetField(t, f, v) ==
    IF t.form = "compact" THEN SetCompact(t, f, v)
    ELSE IF f \in BadFields THEN Result(t, Raised)
    ELSE IF t.form = "open" THEN SetOpen(t, f, v) ELSE SetChained(t, f, v)

DeleteField(t, f) ==
    IF t.form = "compact" THEN DeleteCompact(t, f)
    ELSE IF f \in BadFields THEN Result(t, Raised)
    ELSE IF t.form = "open" THEN DeleteOpen(t, f) ELSE DeleteChained(t, f)

Items(t) ==
    CASE t.form = "compact" -> t.entries
      [] t.form = "chained" -> ItemsChained(t)
      [] t.form = "open" -> ItemsOpen(t)

Size(t) == IF t.form = "compact" THEN Len(t.entries) ELSE t.liveCount

GetCompact(t, f) ==
    LET i == Position(t.entries, f) IN IF i = 0 THEN Missing ELSE t.entries[i][2]

GetChained(t, f) ==
    LET chain == t.buckets[Home(f, t.capacity)]
        i == Position(chain, f)
    IN  IF i = 0 THEN Missing ELSE chain[i][2]

GetOpen(t, f) ==
    LET i == FindSlot(t, f).existing IN IF i = Missing THEN Missing ELSE t.slots[i][2]

Get(t, f) ==
    CASE t.form = "compact" -> GetCompact(t, f)
      [] t.form = "chained" -> GetChained(t, f)
      [] t.form = "open" -> GetOpen(t, f)

-----------------------------------------------------------------------------
Return(results, op, fs, v) ==
    \E r \in results :
        /\ table' = r.table
        /\ reply' = r.reply
        /\ call' = [op |-> op, fields |-> fs, value |-> v]

Set == \E f \in Fields, v \in Values : Return({SetField(table, f, v)}, "set", <<f>>, v)

Delete ==
    /\ kind # "hash"
    /\ \E f \in Fields : Return({DeleteField(table, f)}, "delete", <<f>>, Missing)

\* DataStore.hdel: fields one by one; an exception leaves the rest, an empty
\* hash loses its key, so that the next write starts with a new Hash
HdelField(r, f) ==
    IF r.reply = Raised THEN r
    ELSE LET d == DeleteField(r.table, f)
         IN  Result(d.table, IF d.reply = Raised THEN Raised ELSE r.reply + d.reply)

HdelFields(t, fs) == FoldLeft(HdelField, Result(t, 0), fs)

Hdel ==
    /\ kind = "hash"
    /\ \E fs \in [1..1 -> Fields] \cup [1..2 -> Fields] :
          Return({IF r.reply # Raised /\ Size(r.table) = 0 THEN Result(NewCompact, r.reply) ELSE r :
                     r \in {HdelFields(table, fs)}},
                 "delete", fs, Missing)

NewTable ==
    CASE kind = "open" -> NewOpen(INITIAL_CAPACITY)
      [] kind = "chained" -> NewChained(INITIAL_CAPACITY)
      [] kind = "hash" -> NewCompact

Init ==
    /\ kind \in Kinds
    /\ table = NewTable
    /\ call = [op |-> "new", fields |-> <<>>, value |-> Missing]
    /\ reply = 0

Next == (Set \/ Delete \/ Hdel) /\ UNCHANGED kind

Spec == Init /\ [][Next]_vars

-----------------------------------------------------------------------------
InTable(f) == f \in Fields \ BadFields

\* what get() answers for every field
Contents == [f \in Fields |-> IF f \in BadFields THEN Missing ELSE Get(table, f)]

Abstract == INSTANCE HashMap WITH map <- Contents

\* Every form answers every operation as a map would, through tombstones,
\* growth, shrinking and promotion: nothing stored becomes unreachable,
\* nothing deleted comes back (test_hash_table.py tries single sequences).
IsMap == Abstract!MapSpec

\* Counters are those of the slots and chains they were kept beside:
\* live_count and used of the open table, and used of the resized one.
CountersMatch ==
    /\ table.form = "open" =>
          /\ table.liveCount = Len(ItemsOpen(table))
          /\ table.used = Cardinality({i \in DOMAIN table.slots : table.slots[i] # SLOT_EMPTY})
    /\ table.form = "chained" => table.liveCount = Len(ItemsChained(table))

\* items() lists each stored field once: the entry set is what get() finds, no
\* second copy behind a tombstone or in another bucket.
ItemsAreContents ==
    LET items == Items(table)
    IN  /\ \A i, j \in DOMAIN items : items[i][1] = items[j][1] => i = j
        /\ \A f \in Fields \ BadFields :
              IF Contents[f] = Missing THEN \A i \in DOMAIN items : items[i][1] # f
              ELSE \E i \in DOMAIN items : items[i] = <<f, Contents[f]>>

\* Between two calls an open table has an empty slot on every probe path
\* (load of live entries and tombstones at most 0.7): a search ends before
\* the whole table was seen and "rehash insert failed" is never raised.
LookupsEndEarly ==
    table.form = "open" =>
        /\ ~Crowded(table.used, table.capacity)
        /\ \A f \in Fields \ BadFields :
              \E n \in 0..table.capacity - 1 : Slot(table, f, n) = SLOT_EMPTY

\* Tombstones never inflate a table for good: whatever sequence of insertions
\* and deletions led to it, one slot or bucket in ten has a live entry, but for
\* a table as small as it can be and one that grew once from there.
CapacityFollowsSize ==
    table.form # "compact" =>
        \/ table.capacity = INITIAL_CAPACITY
        \/ table.capacity = 2 * INITIAL_CAPACITY /\ table.liveCount > 0
        \/ table.capacity <= 10 * table.liveCount
=============================================================================

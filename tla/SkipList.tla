------------------------------ MODULE SkipList ------------------------------
(***************************************************************************)
(* The sorted set of one key (store/skiplist.py): a dictionary from member *)
(* to score and a skip list whose links carry the number of nodes they     *)
(* step over, from which ranks and ranges are computed.                    *)
(*                                                                         *)
(* Members are positive integers in the order of the strings they stand    *)
(* for.  A node <<m, c>> holds member m; c tells apart the nodes of one    *)
(* member, should the list ever hold two.  Levels are numbered from 1.     *)
(* NaNs are float objects that equal no float, themselves included;        *)
(* float(...) in cmd_zadd makes a new one for each "nan".                  *)
(***************************************************************************)
EXTENDS Integers, Sequences, FiniteSets, SequencesExt, FiniteSetsExt

CONSTANTS
    Members,
    Numbers,     \* scores that are numbers
    NaNs,        \* scores that are not
    None,
    MaxCopies,   \* bound on the nodes of one member in the list
    MaxLevel     \* SKIPLIST_MAX_LEVEL

ASSUME MembersAssumption == Members \subseteq Nat \ {0} /\ IsFiniteSet(Members)
ASSUME ScoresAssumption == Numbers \subseteq Int /\ None \notin Numbers \cup NaNs
ASSUME BoundsAssumption == MaxLevel \in Nat \ {0} /\ MaxCopies \in Nat \ {0}

VARIABLES
    scores,      \* ZSet._scores; None for a member that is not there
    list         \* ZSet._index

vars == <<scores, list>>

Scores == Numbers \cup NaNs
Header == <<0, 0>>
Nil == <<>>
Entries == Members \X (1..MaxCopies)
Nodes == Entries \cup {Header}
Member(n) == n[1]

\* == and < on floats; = is "the same object or equal", as in tuples
Equal(a, b) == a \notin NaNs /\ a = b
Below(a, b) == a \notin NaNs /\ b \notin NaNs /\ a < b

EmptyList ==
    [score |-> [n \in Entries |-> None],
     forward |-> [n \in Nodes |-> IF n = Header THEN [i \in 1..MaxLevel |-> Nil] ELSE <<>>],
     span |-> [n \in Nodes |-> IF n = Header THEN [i \in 1..MaxLevel |-> 0] ELSE <<>>],
     backward |-> [n \in Entries |-> Nil],
     tail |-> Nil, level |-> 1, length |-> 0]

\* the node n comes before the entry of score s and member m
LessThan(l, n, s, m) == Below(l.score[n], s) \/ (l.score[n] = s /\ Member(n) < m)

-----------------------------------------------------------------------------
(***************************************************************************)
(* The search that all operations share: from the header at the top level, *)
(* along each level while the next place is in passed, then down.  A place *)
(* is a node with its position by the spans; where there is no next node,  *)
(* there is no place.                                                      *)
(***************************************************************************)
Places == [node : Entries, pos : Int]
Start == [node |-> Header, pos |-> 0]
Spots == Places \cup {Start}

\* the loop that repeats F from x until nothing changes, at most n times
Loop(S, F, x, n) ==
    LET run[k \in 0..n] == [y \in S |-> IF k = 0 \/ F[y] = y THEN y ELSE run[k - 1][F[y]]]
    IN  run[n][x]

\* one turn of the loop on level i
Pass(l, passed, i) ==
    [here \in Spots |->
        LET there == [node |-> l.forward[here.node][i], pos |-> here.pos + l.span[here.node][i]]
        IN  IF there \in passed THEN there ELSE here]

\* Descend(l, passed)[i] is the place where level i is left
Descend(l, passed) ==
    LET at[i \in 1..(l.level + 1)] ==
            IF i > l.level THEN Start
            ELSE Loop(Spots, Pass(l, passed, i), at[i + 1], Cardinality(Entries))
    IN  at

\* the places before the entry of score s and member m
Smaller(l, s, m) == {p \in Places : LessThan(l, p.node, s, m)}

\* faulty: the new node itself is not counted
NewSpanOffByOne(l, old, distance, pos) ==
    IF old # 0 THEN old - distance - 1 ELSE l.length - pos

\* span of a new node behind the position pos; old is the span it divides
NewSpan(l, old, distance, pos) == IF old # 0 THEN old - distance ELSE l.length - pos

\* faulty: only the first node becomes the tail
TailOnlyWhenEmpty(l, node, next) == IF l.length = 0 THEN node ELSE l.tail

TailAfterInsert(l, node, next) == IF next = Nil THEN node ELSE l.tail

\* the names that a new node for m may take
FreeCopies(l, m) == {c \in 1..MaxCopies : l.forward[<<m, c>>] = <<>>}
FreeNode(l, m) == <<m, Min(FreeCopies(l, m))>>

Insert(l, s, m, height) ==
    LET node == FreeNode(l, m)
        at == Descend(l, Smaller(l, s, m))
        Update(i) == IF i <= l.level THEN at[i].node ELSE Header
        Distance(i) == at[1].pos - (IF i <= l.level THEN at[i].pos ELSE 0)
        OldSpan(i) == IF i <= l.level THEN l.span[Update(i)][i] ELSE l.length
        first == Update(1)
        next == l.forward[first][1]
        top == Max({l.level, height})
    IN  [l EXCEPT
            !.score[node] = s,
            !.forward = [n \in Nodes |->
                IF n = node THEN [i \in 1..height |-> l.forward[Update(i)][i]]
                ELSE [i \in DOMAIN @[n] |-> IF i <= height /\ n = Update(i) THEN node ELSE @[n][i]]],
            !.span = [n \in Nodes |->
                IF n = node
                THEN [i \in 1..height |-> NewSpan(l, OldSpan(i), Distance(i), at[1].pos)]
                ELSE [i \in DOMAIN @[n] |->
                        IF i > top \/ n # Update(i) THEN @[n][i]
                        ELSE IF i <= height THEN Distance(i) + 1 ELSE @[n][i] + 1]],
            !.backward = [n \in Entries |->
                IF n = node THEN (IF first = Header THEN Nil ELSE first)
                ELSE IF n = next THEN node ELSE @[n]],
            !.tail = TailAfterInsert(l, node, next),
            !.level = top,
            !.length = @ + 1]

\* faulty: an empty list has no level
LevelOfLinks(l, forward) == Max({0} \cup {i \in 1..l.level : forward[Header][i] # Nil})

LevelAfterDelete(l, forward) == Max({1} \cup {i \in 1..l.level : forward[Header][i] # Nil})

Delete(l, s, m) ==
    LET at == Descend(l, Smaller(l, s, m))
        target == l.forward[at[1].node][1]
        Skips(n, i) == i <= l.level /\ n = at[i].node
        next == l.forward[target][1]
        forward == [n \in Nodes |->
            IF n = target THEN <<>>
            ELSE [i \in DOMAIN l.forward[n] |->
                    IF Skips(n, i) /\ l.forward[n][i] = target THEN l.forward[target][i]
                    ELSE l.forward[n][i]]]
    IN  IF target = Nil \/ Member(target) # m \/ l.score[target] # s THEN l
        ELSE [l EXCEPT
                !.score[target] = None,
                !.forward = forward,
                !.span = [n \in Nodes |->
                    IF n = target THEN <<>>
                    ELSE [i \in DOMAIN @[n] |->
                            IF ~Skips(n, i) THEN @[n][i]
                            ELSE IF l.forward[n][i] = target
                                 THEN @[n][i] + l.span[target][i] - 1
                                 ELSE @[n][i] - 1]],
                !.backward = [n \in Entries |->
                    IF n = target THEN Nil ELSE IF n = next THEN @[target] ELSE @[n]],
                !.tail = IF next = Nil THEN l.backward[target] ELSE @,
                !.level = LevelAfterDelete(l, forward),
                !.length = @ - 1]

-----------------------------------------------------------------------------
(***************************************************************************)
(* Queries.                                                                *)
(***************************************************************************)
\* the nodes from n on, along the lowest level
From(l, n) ==
    LET Longer == [nodes \in Seq(Entries) |->
                    LET next == l.forward[Last(nodes)][1]
                    IN  IF next \in Entries THEN Append(nodes, next) ELSE nodes]
    IN  IF n = Nil THEN <<>> ELSE Loop(Seq(Entries), Longer, <<n>>, Cardinality(Entries))

\* faulty: stops in front of the member itself
RankBefore(l, s, m) ==
    LET at == Descend(l, Smaller(l, s, m))
        found == {i \in 1..l.level : at[i].node # Header /\ Member(at[i].node) = m
                                    /\ Equal(l.score[at[i].node], s)}
    IN  IF found = {} THEN None ELSE at[Max(found)].pos - 1

SkipRank(l, s, m) ==
    LET at == Descend(l, {p \in Places :
                  \/ Below(l.score[p.node], s)
                  \/ Equal(l.score[p.node], s) /\ Member(p.node) <= m})
        found == {i \in 1..l.level : at[i].node # Header /\ Member(at[i].node) = m
                                    /\ Equal(l.score[at[i].node], s)}
    IN  IF found = {} THEN None ELSE at[Max(found)].pos - 1

\* faulty: one node too far
NodeBehind(l, rank) ==
    LET at == Descend(l, {p \in Places : p.pos <= rank + 2})
        found == {i \in 1..l.level : at[i].pos = rank + 2}
    IN  IF rank < 0 \/ rank >= l.length \/ found = {} THEN Nil ELSE at[Max(found)].node

NodeByRank(l, rank) ==
    LET at == Descend(l, {p \in Places : p.pos <= rank + 1})
        found == {i \in 1..l.level : at[i].pos = rank + 1}
    IN  IF rank < 0 \/ rank >= l.length \/ found = {} THEN Nil ELSE at[Max(found)].node

\* start and stop as ZRANGE takes them, cut to a list of len entries
Clamp(start, stop, len) ==
    [start |-> Max({0, IF start < 0 THEN start + len ELSE start}),
     stop |-> Min({len - 1, IF stop < 0 THEN stop + len ELSE stop})]

RangeEntries(l, start, stop) ==
    LET r == Clamp(start, stop, l.length)
        nodes == From(l, NodeByRank(l, r.start))
    IN  IF r.start > r.stop \/ r.start >= l.length THEN <<>>
        ELSE SubSeq(nodes, 1, Min({Len(nodes), r.stop - r.start + 1}))

\* ZSet.revrange_entries, on a set of len members
RevrangeEntries(l, start, stop, len) ==
    LET r == Clamp(start, stop, len)
    IN  IF r.start > r.stop \/ r.start >= len THEN <<>>
        ELSE Reverse(RangeEntries(l, len - 1 - r.stop, len - 1 - r.start))

\* the entries of nodes before the first whose score is above maximum
UpToScore(l, nodes, maximum) ==
    LET over == {i \in DOMAIN nodes : ~(Below(l.score[nodes[i]], maximum)
                                        \/ Equal(l.score[nodes[i]], maximum))}
    IN  IF over = {} THEN nodes ELSE SubSeq(nodes, 1, Min(over) - 1)

\* faulty: entries at the minimum are left out
RangeAboveScore(l, minimum, maximum) ==
    LET at == Descend(l, {p \in Places : Below(l.score[p.node], minimum)
                                   \/ Equal(l.score[p.node], minimum)})
    IN  UpToScore(l, From(l, l.forward[at[1].node][1]), maximum)

RangeByScore(l, minimum, maximum) ==
    LET at == Descend(l, {p \in Places : Below(l.score[p.node], minimum)})
    IN  UpToScore(l, From(l, l.forward[at[1].node][1]), maximum)

-----------------------------------------------------------------------------
(***************************************************************************)
(* ZSet.                                                                   *)
(***************************************************************************)
\* faulty: a changed score reaches the dictionary only
SetDictionaryOnly(m, s, height) ==
    /\ scores' = [scores EXCEPT ![m] = s]
    /\ list' = IF scores[m] = None THEN Insert(list, s, m, height) ELSE list

\* a NaN is an object of its own: it is not yet in the set
IsNew(s) == s \in NaNs => \A m \in Members, n \in Entries : s # scores[m] /\ s # list.score[n]

ZSetSet(m, s, height) ==
    LET others == IF scores[m] = None THEN list ELSE Delete(list, scores[m], m)
    IN  /\ IsNew(s)
        /\ ~Equal(scores[m], s)
        /\ FreeCopies(others, m) # {}
        /\ scores' = [scores EXCEPT ![m] = s]
        /\ list' = Insert(others, s, m, height)

ZSetRemove(m) ==
    /\ scores[m] # None
    /\ scores' = [scores EXCEPT ![m] = None]
    /\ list' = Delete(list, scores[m], m)

Init ==
    /\ scores = [m \in Members |-> None]
    /\ list = EmptyList

Next ==
    \/ \E m \in Members, s \in Scores, height \in 1..MaxLevel : ZSetSet(m, s, height)
    \/ \E m \in Members : ZSetRemove(m)

Spec == Init /\ [][Next]_vars

-----------------------------------------------------------------------------
Held == {m \in Members : scores[m] # None}

\* the order that the dictionary alone determines
Precedes(m, n) ==
    Below(scores[m], scores[n]) \/ (Equal(scores[m], scores[n]) /\ m < n)
Place(m) == Cardinality({k \in Held : Precedes(k, m)}) + 1
InOrder == [p \in 1..Cardinality(Held) |-> CHOOSE m \in Held : Place(m) = p]

\* the nodes of the list
Linked == From(list, list.forward[Header][1])

\* The list is made of nodes with one link and one span per level.
TypeOK ==
    /\ scores \in [Members -> Scores \cup {None}]
    /\ list.score \in [Entries -> Scores \cup {None}]
    /\ list.level \in 1..MaxLevel
    /\ list.length \in Nat
    /\ list.tail \in Entries \cup {Nil}
    /\ list.backward \in [Entries -> Entries \cup {Nil}]
    /\ \A n \in Nodes :
          /\ list.forward[n] \in Seq(Entries \cup {Nil})
          /\ list.span[n] \in Seq(Int)
          /\ Len(list.forward[n]) = Len(list.span[n])

\* ZSet "combines a member-to-score dictionary [...] with a skiplist"
\* (skiplist.py): both hold the same members with the same scores after any
\* sequence of additions, score changes and removals.
DictionaryAndListAgree ==
    LET nodes == Linked
    IN  /\ {Member(nodes[p]) : p \in DOMAIN nodes} = Held
        /\ Len(nodes) = Cardinality(Held)
        /\ list.length = Cardinality(Held)
        /\ \A p \in DOMAIN nodes : list.score[nodes[p]] = scores[Member(nodes[p])]

\* On every level in use, each link leads to the next node that is tall
\* enough, and its span is the number of nodes it steps over; a last link
\* spans the rest of the list. insert and delete must keep the spans of the
\* levels above the node's height too.
SpansAreDistances ==
    LET nodes == Linked
        Position == [n \in ToSet(nodes) \cup {Header} |->
                        IF n = Header THEN 0 ELSE CHOOSE p \in DOMAIN nodes : nodes[p] = n]
    IN  \A n \in DOMAIN Position : \A i \in 1..Min({list.level, Len(list.forward[n])}) :
            LET next == list.forward[n][i]
                ahead == {p \in (Position[n] + 1)..Len(nodes) : Len(list.forward[nodes[p]]) >= i}
            IN  IF ahead = {}
                THEN next = Nil /\ list.span[n][i] = Len(nodes) - Position[n]
                ELSE next = nodes[Min(ahead)] /\ list.span[n][i] = Min(ahead) - Position[n]

\* The backward links and the tail mirror the lowest level.
BackwardMirrorsForward ==
    LET nodes == Linked
    IN  /\ list.tail = IF nodes = <<>> THEN Nil ELSE Last(nodes)
        /\ \A p \in DOMAIN nodes : list.backward[nodes[p]] = IF p = 1 THEN Nil ELSE nodes[p - 1]

\* ZRANK of every member is the number of members before it, although the
\* search adds up spans of whatever levels it happens to use.
RanksAreRight == \A m \in Held : SkipRank(list, scores[m], m) = Place(m) - 1

\* the entries with 0-based index start..stop, negative ones from the end
Slice(entries, start, stop) ==
    LET Index(x) == IF x < 0 THEN x + Len(entries) ELSE x
        kept == {p \in DOMAIN entries : Index(start) < p /\ p <= Index(stop) + 1}
    IN  IF kept = {} THEN <<>> ELSE SubSeq(entries, Min(kept), Max(kept))

\* ZRANGE and ZREVRANGE return the slice of the sorted members that start
\* and stop name, out of range and negative values included.
RangesAreSlices ==
    LET far == Cardinality(Members) + 1
        order == InOrder
        reversed == Reverse(order)
        MembersOf(nodes) == [p \in DOMAIN nodes |-> Member(nodes[p])]
    IN  \A start, stop \in (-far)..far :
            /\ MembersOf(RangeEntries(list, start, stop)) = Slice(order, start, stop)
            /\ MembersOf(RevrangeEntries(list, start, stop, Len(order)))
                   = Slice(reversed, start, stop)

\* ZRANGEBYSCORE returns exactly the members between two scores, both
\* included, in their order.
ScoreRangesAreExact ==
    \A low, high \in Numbers :
        LET nodes == RangeByScore(list, low, high)
        IN  /\ {Member(nodes[p]) : p \in DOMAIN nodes}
                   = {m \in Held : low <= scores[m] /\ scores[m] <= high}
            /\ \A p, q \in DOMAIN nodes :
                  p < q => Precedes(Member(nodes[p]), Member(nodes[q]))
=============================================================================

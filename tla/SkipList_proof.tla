--------------------------- MODULE SkipList_proof ---------------------------
(***************************************************************************)
(* The sorted set keeps its two structures together: after any sequence of *)
(* additions, score changes and removals, with nodes of any height, every  *)
(* link leads to the next node that is tall enough and its span is the     *)
(* distance to it, so that ranks and ranges are right.                     *)
(*                                                                         *)
(* The proof numbers the nodes of the list: pos[n] is the position of the  *)
(* node n and 0 that of the header.  A search is then determined by the    *)
(* last position that it passes, and a step renumbers the nodes behind it. *)
(***************************************************************************)
EXTENDS SkipList, Sums, SequenceTheorems

Runs(f, S, F, n) ==
    f = [k \in 0..n |-> [y \in S |-> IF k = 0 \/ F[y] = y THEN y ELSE f[k - 1][F[y]]]]

LEMMA RunsAt ==
    ASSUME NEW S, NEW F \in [S -> S], NEW n \in Nat, NEW f, Runs(f, S, F, n),
           NEW k \in 0..n, NEW y \in S
    PROVE  f[k][y] = IF k = 0 \/ F[y] = y THEN y ELSE f[k - 1][F[y]]
  BY DEF Runs

LEMMA RunsAgree ==
    ASSUME NEW S, NEW F \in [S -> S], NEW n \in Nat, NEW m \in Nat, n <= m,
           NEW f, Runs(f, S, F, n), NEW g, Runs(g, S, F, m), NEW y \in S
    PROVE  f[n][y] = g[n][y]
<1> DEFINE Bad == {k \in 0..n : \E z \in S : f[k][z] # g[k][z]}
<1>1. 0 \notin Bad
  <2>1. ASSUME NEW z \in S PROVE f[0][z] = g[0][z]
    <3>1. f[0][z] = z
      BY RunsAt
    <3>2. g[0][z] = z
      BY RunsAt
    <3> QED
      BY <3>1, <3>2
  <2> QED
    BY <2>1
<1>2. ASSUME NEW k \in 1..n, k \in Bad PROVE k - 1 \in Bad
  <2>1. PICK z \in S : f[k][z] # g[k][z]
    BY <1>2
  <2>2. k \in 0..n /\ k \in 0..m /\ k # 0 /\ k - 1 \in 0..n
    OBVIOUS
  <2>3. f[k][z] = IF k = 0 \/ F[z] = z THEN z ELSE f[k - 1][F[z]]
    BY <2>2, RunsAt
  <2>4. g[k][z] = IF k = 0 \/ F[z] = z THEN z ELSE g[k - 1][F[z]]
    BY <2>2, RunsAt
  <2>5. f[k - 1][F[z]] # g[k - 1][F[z]]
    BY <2>1, <2>2, <2>3, <2>4
  <2> QED
    BY <2>2, <2>5
<1>3. Bad \subseteq 0..n
  OBVIOUS
<1> HIDE DEF Bad
<1>4. Bad = {}
  BY <1>1, <1>2, <1>3, NoneBad
<1> QED
  BY <1>4 DEF Bad

LEMMA RunsExist ==
    ASSUME NEW S, NEW F \in [S -> S], NEW n \in Nat
    PROVE  \E f : Runs(f, S, F, n)
<1> DEFINE Bad == {m \in 0..n : ~\E f : Runs(f, S, F, m)}
<1>1. 0 \notin Bad
  <2> DEFINE f == [k \in 0..0 |-> [y \in S |-> y]]
  <2>1. Runs(f, S, F, 0)
    BY DEF Runs
  <2> QED
    BY <2>1
<1>2. ASSUME NEW m \in 1..n, m \in Bad PROVE m - 1 \in Bad
  <2>1. ASSUME NEW g, Runs(g, S, F, m - 1) PROVE FALSE
    <3> DEFINE f == [k \in 0..m |-> [y \in S |-> IF k = 0 \/ F[y] = y THEN y ELSE g[k - 1][F[y]]]]
    <3>1. ASSUME NEW k \in 1..m, NEW y \in S PROVE f[k - 1][y] = g[k - 1][y]
      <4>1. k - 1 \in 0..(m - 1) /\ k - 1 \in 0..m /\ m - 1 \in Nat
        OBVIOUS
      <4>2. g[k - 1][y] = IF k - 1 = 0 \/ F[y] = y THEN y ELSE g[(k - 1) - 1][F[y]]
        BY <2>1, <4>1, RunsAt
      <4> QED
        BY <4>1, <4>2
    <3> HIDE DEF f
    <3>2. ASSUME NEW k \in 0..m
          PROVE  f[k] = [y \in S |-> IF k = 0 \/ F[y] = y THEN y ELSE f[k - 1][F[y]]]
      <4>1. f[k] = [y \in S |-> IF k = 0 \/ F[y] = y THEN y ELSE g[k - 1][F[y]]]
        BY DEF f
      <4>2. ASSUME k # 0, NEW y \in S PROVE f[k - 1][F[y]] = g[k - 1][F[y]]
        <5>1. k \in 1..m /\ F[y] \in S
          BY <4>2
        <5> QED
          BY <3>1, <5>1
      <4> QED
        BY <4>1, <4>2
    <3>3. f = [k \in 0..m |-> f[k]]
      BY DEF f
    <3>4. Runs(f, S, F, m)
      BY <3>2, <3>3 DEF Runs
    <3> QED
      BY <1>2, <3>4
  <2> QED
    BY <2>1
<1>3. Bad \subseteq 0..n
  OBVIOUS
<1> HIDE DEF Bad
<1>4. Bad = {}
  BY <1>1, <1>2, <1>3, NoneBad
<1> QED
  BY <1>4 DEF Bad

LEMMA LoopRuns ==
    ASSUME NEW S, NEW F \in [S -> S], NEW n \in Nat
    PROVE  \E f : Runs(f, S, F, n) /\ \A x \in S : Loop(S, F, x, n) = f[n][x]
<1> DEFINE f == CHOOSE f : Runs(f, S, F, n)
<1>1. Runs(f, S, F, n)
  BY RunsExist
<1>2. ASSUME NEW x \in S PROVE Loop(S, F, x, n) = f[n][x]
  BY DEF Loop, Runs
<1> QED
  BY <1>1, <1>2

\* What the loop does: one turn after the other, while something changes.
LEMMA LoopTurns ==
    ASSUME NEW S, NEW F \in [S -> S], NEW x \in S, NEW n \in Nat
    PROVE  /\ Loop(S, F, x, 0) = x
           /\ F[x] = x => Loop(S, F, x, n) = x
           /\ F[x] # x => Loop(S, F, x, n + 1) = Loop(S, F, F[x], n)
<1>1. Loop(S, F, x, 0) = x
  <2>1. PICK f : Runs(f, S, F, 0) /\ \A y \in S : Loop(S, F, y, 0) = f[0][y]
    BY LoopRuns
  <2> QED
    BY <2>1, RunsAt
<1>2. PICK f : Runs(f, S, F, n) /\ \A y \in S : Loop(S, F, y, n) = f[n][y]
  BY LoopRuns
<1>3. n + 1 \in Nat /\ n \in 0..n /\ n + 1 \in 0..(n + 1) /\ (n + 1) - 1 = n /\ n + 1 # 0 /\ n <= n + 1
  OBVIOUS
<1>4. PICK g : Runs(g, S, F, n + 1) /\ \A y \in S : Loop(S, F, y, n + 1) = g[n + 1][y]
  BY <1>3, LoopRuns
<1>5. F[x] = x => Loop(S, F, x, n) = x
  BY <1>2, <1>3, RunsAt
<1>6. ASSUME F[x] # x PROVE Loop(S, F, x, n + 1) = Loop(S, F, F[x], n)
  <2>1. g[n + 1][x] = IF n + 1 = 0 \/ F[x] = x THEN x ELSE g[(n + 1) - 1][F[x]]
    BY <1>3, <1>4, RunsAt
  <2>2. g[n + 1][x] = g[n][F[x]]
    BY <1>3, <1>6, <2>1
  <2>3. F[x] \in S
    OBVIOUS
  <2>4. f[n][F[x]] = g[n][F[x]]
    BY <1>2, <1>3, <1>4, <2>3, RunsAgree
  <2> QED
    BY <1>2, <1>4, <2>2, <2>3, <2>4
<1> QED
  BY <1>1, <1>5, <1>6

\* A loop whose turns each use up some of what is left ends where F changes nothing.
LEMMA LoopEnds ==
    ASSUME NEW S, NEW F \in [S -> S], NEW I \in SUBSET S, \A y \in I : F[y] \in I,
           NEW left, \A y \in I : left[y] \in Nat,
           \A y \in I : F[y] # y => left[F[y]] < left[y],
           NEW n \in Nat, NEW x \in I, left[x] <= n
    PROVE  Loop(S, F, x, n) \in I /\ F[Loop(S, F, x, n)] = Loop(S, F, x, n)
<1> DEFINE Ends(y, k) == Loop(S, F, y, k) \in I /\ F[Loop(S, F, y, k)] = Loop(S, F, y, k)
           Bad == {k \in 0..n : \E y \in I : left[y] <= k /\ ~Ends(y, k)}
<1>1. ASSUME NEW y \in I, NEW k \in Nat, F[y] = y PROVE Ends(y, k)
  <2>1. Loop(S, F, y, k) = y
    BY <1>1, LoopTurns
  <2> QED
    BY <1>1, <2>1
<1>2. ASSUME NEW y \in I, F[y] # y PROVE left[y] > 0
  <2>1. F[y] \in I /\ left[F[y]] \in Nat /\ left[y] \in Nat /\ left[F[y]] < left[y]
    BY <1>2
  <2> QED
    BY <2>1
<1>3. 0 \notin Bad
  <2>1. ASSUME NEW y \in I, left[y] <= 0 PROVE F[y] = y
    BY <1>2, <2>1
  <2> QED
    BY <1>1, <2>1
<1>4. ASSUME NEW k \in 1..n, k \in Bad PROVE k - 1 \in Bad
  <2>1. PICK y \in I : left[y] <= k /\ ~Ends(y, k)
    BY <1>4
  <2>2. F[y] # y
    BY <1>1, <2>1
  <2>3. k - 1 \in Nat /\ (k - 1) + 1 = k /\ y \in S
    OBVIOUS
  <2> DEFINE j == k - 1
  <2>4. j \in Nat /\ j + 1 = k
    BY <2>3
  <2> HIDE DEF j
  <2>5. Loop(S, F, y, j + 1) = Loop(S, F, F[y], j)
    BY <2>2, <2>3, <2>4, LoopTurns
  <2>6. ~Ends(F[y], j)
    BY <2>1, <2>4, <2>5
  <2>7. F[y] \in I /\ left[F[y]] <= j
    BY <2>1, <2>2, <2>4
  <2>8. j \in 0..n /\ j = k - 1
    BY <2>4
  <2> QED
    BY <2>6, <2>7, <2>8
<1>5. Bad \subseteq 0..n
  OBVIOUS
<1>6. Bad = {}
  <2> HIDE DEF Bad
  <2> QED
    BY <1>3, <1>4, <1>5, NoneBad
<1>7. n \in 0..n
  OBVIOUS
<1> QED
  BY <1>6, <1>7

-----------------------------------------------------------------------------
(***************************************************************************)
(* The numbered list.                                                      *)
(***************************************************************************)
Present(l) == {n \in Entries : l.forward[n] # <<>>}
Stand(l) == Present(l) \cup {Header}
Height(l, n) == Len(l.forward[n])

\* the nodes have the positions 1..l.length, each one of its own
Numbered(l, pos) ==
    /\ l.length \in Nat
    /\ pos \in [Stand(l) -> 0..l.length]
    /\ pos[Header] = 0
    /\ \A n \in Present(l) : pos[n] # 0
    /\ \A m, n \in Present(l) : pos[m] = pos[n] => m = n
    /\ \A p \in 1..l.length : \E n \in Present(l) : pos[n] = p

\* link i of n leads to the next node of that height, its span is the distance
LinkRight(l, pos, n, i) ==
    \/ /\ l.forward[n][i] = Nil
       /\ l.span[n][i] = l.length - pos[n]
       /\ \A k \in Present(l) : Height(l, k) >= i => pos[k] <= pos[n]
    \/ /\ l.forward[n][i] \in Present(l)
       /\ Height(l, l.forward[n][i]) >= i
       /\ pos[n] < pos[l.forward[n][i]]
       /\ l.span[n][i] = pos[l.forward[n][i]] - pos[n]
       /\ \A k \in Present(l) :
             Height(l, k) >= i /\ pos[n] < pos[k] => pos[l.forward[n][i]] <= pos[k]

Links(l, pos) ==
    \A n \in Stand(l) : \A i \in 1..l.level : i <= Height(l, n) => LinkRight(l, pos, n, i)

Heights(l) ==
    /\ l.level \in 1..MaxLevel
    /\ Height(l, Header) = MaxLevel
    /\ \A n \in Present(l) : Height(l, n) \in 1..l.level

Spot(pos, n) == [node |-> n, pos |-> pos[n]]

\* passed are the places up to the position r
Marks(l, pos, passed, r) ==
    /\ passed \subseteq Places
    /\ r \in 0..l.length
    /\ \A k \in Present(l) : Spot(pos, k) \in passed <=> pos[k] <= r

\* s is the place of the last node of height i up to the position r
LastUpTo(l, pos, r, i, s) ==
    /\ s.node \in Stand(l)
    /\ s = Spot(pos, s.node)
    /\ s.pos = pos[s.node]
    /\ Height(l, s.node) >= i
    /\ s.pos <= r
    /\ \A j \in Present(l) : Height(l, j) >= i /\ pos[j] <= r => pos[j] <= s.pos

LEMMA NodeFacts ==
    /\ Header \notin Entries /\ Nil \notin Nodes /\ Nil \notin Entries /\ Header \in Nodes
    /\ \A n \in Entries : Member(n) \in Members /\ Member(n) \in Nat \ {0} /\ n \in Nodes
    /\ Nodes = Entries \cup {Header}
<1>1. \A n \in Entries : \E m \in Members, c \in 1..MaxCopies : n = <<m, c>>
  BY DEF Entries
<1>2. Header \notin Entries
  BY <1>1, MembersAssumption DEF Header
<1>3. \A m, c : <<m, c>> # Nil
  BY DEF Nil
<1>4. \A n \in Entries : Member(n) \in Members
  BY <1>1 DEF Member
<1> QED
  BY <1>1, <1>2, <1>3, <1>4, MembersAssumption DEF Nodes, Header

LEMMA EntriesFinite == IsFiniteSet(Entries) /\ Cardinality(Entries) \in Nat
<1>1. IsFiniteSet(1..MaxCopies)
  BY BoundsAssumption, FS_Interval
<1>2. IsFiniteSet(Entries)
  BY <1>1, MembersAssumption, FS_Product DEF Entries
<1> QED
  BY <1>2, FS_CardinalityType

\* a list is no longer than there are nodes
LEMMA LengthBounded ==
    ASSUME NEW l, NEW pos, Numbered(l, pos)
    PROVE  /\ l.length \in Nat /\ l.length <= Cardinality(Entries)
           /\ IsFiniteSet(Present(l)) /\ Cardinality(Present(l)) = l.length
<1>1. IsFiniteSet(Present(l)) /\ Cardinality(Present(l)) <= Cardinality(Entries)
  BY EntriesFinite, FS_Subset DEF Present
<1> DEFINE f == [n \in Present(l) |-> pos[n]]
<1>2. f \in Bijection(Present(l), 1..l.length)
  <2>1. f \in [Present(l) -> 1..l.length]
    BY DEF Numbered, Stand
  <2>2. \A m, n \in Present(l) : f[m] = f[n] => m = n
    BY DEF Numbered
  <2>3. \A p \in 1..l.length : \E n \in Present(l) : f[n] = p
    BY DEF Numbered
  <2> HIDE DEF f
  <2> QED
    BY <2>1, <2>2, <2>3 DEF Bijection, Injection, Surjection, IsInjective
<1>3. Cardinality(1..l.length) = Cardinality(Present(l))
  BY <1>1, <1>2, FS_Bijection DEF ExistsBijection
<1>4. l.length \in Nat
  BY DEF Numbered
<1>5. Cardinality(1..l.length) = l.length
  <2> DEFINE N == l.length
  <2>1. N \in Nat
    BY <1>4
  <2> HIDE DEF N
  <2>2. Cardinality(1..N) = N
    BY <2>1, FS_Interval
  <2> QED
    BY <2>2 DEF N
<1> QED
  BY <1>1, <1>3, <1>4, <1>5

-----------------------------------------------------------------------------
(***************************************************************************)
(* The search.                                                             *)
(***************************************************************************)
LEMMA PassIs ==
    ASSUME NEW l, NEW passed \in SUBSET Places, NEW i
    PROVE  /\ Pass(l, passed, i) \in [Spots -> Spots]
           /\ \A s \in Spots :
                 Pass(l, passed, i)[s] =
                    IF [node |-> l.forward[s.node][i], pos |-> s.pos + l.span[s.node][i]] \in passed
                    THEN [node |-> l.forward[s.node][i], pos |-> s.pos + l.span[s.node][i]]
                    ELSE s
  BY DEF Pass, Spots

LEMMA SpotIs ==
    ASSUME NEW l, NEW pos, Numbered(l, pos), NEW n \in Stand(l)
    PROVE  /\ Spot(pos, n) \in Spots /\ Spot(pos, n).node = n /\ Spot(pos, n).pos = pos[n]
           /\ pos[n] \in 0..l.length
           /\ n \in Present(l) => Spot(pos, n) \in Places /\ pos[n] \in 1..l.length
<1>1. pos[n] \in 0..l.length
  BY DEF Numbered
<1>2. CASE n \in Present(l)
  <2>1. n \in Entries /\ pos[n] \in Int /\ pos[n] # 0
    BY <1>1, <1>2 DEF Present, Numbered
  <2> QED
    BY <1>1, <1>2, <2>1 DEF Spot, Spots, Places
<1>3. CASE n = Header
  <2>1. pos[n] = 0 /\ n \notin Present(l)
    BY <1>3, NodeFacts DEF Numbered, Present
  <2> QED
    BY <1>1, <1>3, <2>1 DEF Spot, Spots, Start
<1> QED
  BY <1>2, <1>3 DEF Stand

\* One turn: to the next node of that height, unless it is behind r.
LEMMA PassTurn ==
    ASSUME NEW l, NEW pos, Numbered(l, pos), NEW passed, NEW r, Marks(l, pos, passed, r),
           NEW n \in Stand(l), NEW i, LinkRight(l, pos, n, i)
    PROVE  \/ /\ Pass(l, passed, i)[Spot(pos, n)] = Spot(pos, n)
              /\ \A j \in Present(l) : Height(l, j) >= i /\ pos[j] <= r => pos[j] <= pos[n]
           \/ \E k \in Present(l) :
                 /\ Pass(l, passed, i)[Spot(pos, n)] = Spot(pos, k)
                 /\ Height(l, k) >= i /\ pos[n] < pos[k] /\ pos[k] <= r
<1> DEFINE next == l.forward[n][i]
           there == [node |-> next, pos |-> pos[n] + l.span[n][i]]
<1>1. Spot(pos, n) \in Spots /\ Spot(pos, n).node = n /\ Spot(pos, n).pos = pos[n] /\ pos[n] \in Int
  BY SpotIs
<1>2. passed \in SUBSET Places /\ r \in Int
  BY DEF Marks
<1>3. Pass(l, passed, i)[Spot(pos, n)] = IF there \in passed THEN there ELSE Spot(pos, n)
  <2> DEFINE x == Spot(pos, n)
             turn == [node |-> l.forward[x.node][i], pos |-> x.pos + l.span[x.node][i]]
  <2>1. x \in Spots /\ x.node = n /\ x.pos = pos[n]
    BY <1>1
  <2>2. turn = there
    BY <2>1
  <2>3. Pass(l, passed, i)[x] = IF turn \in passed THEN turn ELSE x
    <3> HIDE DEF x
    <3> QED
      BY <1>2, <2>1, PassIs
  <2> HIDE DEF turn, there
  <2> QED
    BY <2>2, <2>3
<1>4. \A k \in Present(l) : pos[k] \in Int
  BY SpotIs DEF Stand
<1>5. CASE next = Nil /\ \A k \in Present(l) : Height(l, k) >= i => pos[k] <= pos[n]
  <2>1. there \notin passed
    <3>1. \A s \in Places : s.node \in Entries
      BY DEF Places
    <3>2. there.node = next
      OBVIOUS
    <3> QED
      BY <1>2, <1>5, <3>1, <3>2, NodeFacts
  <2> QED
    BY <1>3, <1>5, <2>1
<1>6. CASE /\ next \in Present(l) /\ Height(l, next) >= i
           /\ pos[n] < pos[next]
           /\ l.span[n][i] = pos[next] - pos[n]
           /\ \A k \in Present(l) : Height(l, k) >= i /\ pos[n] < pos[k] => pos[next] <= pos[k]
  <2>1. there = Spot(pos, next)
    <3>1. pos[n] + l.span[n][i] = pos[next]
      BY <1>1, <1>4, <1>6
    <3> HIDE DEF next
    <3> QED
      BY <3>1 DEF Spot
  <2>2. there \in passed <=> pos[next] <= r
    <3> HIDE DEF next, there
    <3> QED
      BY <1>6, <2>1 DEF Marks
  <2>3. CASE pos[next] <= r
    <3> HIDE DEF next, there
    <3> QED
      BY <1>3, <1>6, <2>1, <2>2, <2>3
  <2>4. CASE ~(pos[next] <= r)
    <3> HIDE DEF next, there
    <3>1. ASSUME NEW j \in Present(l), Height(l, j) >= i, pos[j] <= r PROVE pos[j] <= pos[n]
      <4>1. pos[j] \in Int /\ pos[next] \in Int
        BY <1>4, <1>6
      <4>2. pos[n] < pos[j] => pos[next] <= pos[j]
        BY <1>6, <3>1
      <4> QED
        BY <1>1, <1>2, <2>4, <3>1, <4>1, <4>2
    <3> QED
      BY <1>3, <2>2, <2>4, <3>1
  <2> QED
    BY <2>3, <2>4
<1> QED
  BY <1>5, <1>6 DEF LinkRight

LEMMA LevelReaches ==
    ASSUME NEW l, NEW pos, Numbered(l, pos), Heights(l), Links(l, pos),
           NEW passed, NEW r, Marks(l, pos, passed, r),
           NEW i \in 1..l.level, NEW n \in Stand(l), Height(l, n) >= i, pos[n] <= r
    PROVE  LastUpTo(l, pos, r, i,
                    Loop(Spots, Pass(l, passed, i), Spot(pos, n), Cardinality(Entries)))
<1> DEFINE F == Pass(l, passed, i)
           I == {Spot(pos, k) : k \in {m \in Stand(l) : Height(l, m) >= i /\ pos[m] <= r}}
           left == [s \in I |-> r - s.pos]
           N == Cardinality(Entries)
           end == Loop(Spots, F, Spot(pos, n), N)
<1>1. r \in 0..l.length /\ passed \in SUBSET Places
  BY DEF Marks
<1>2. F \in [Spots -> Spots]
  BY <1>1, PassIs
<1>3. I \subseteq Spots
  BY SpotIs
<1>4. ASSUME NEW s \in I
      PROVE  \E k \in Stand(l) :
                /\ s = Spot(pos, k) /\ Height(l, k) >= i /\ pos[k] <= r
                /\ s.node = k /\ s.pos = pos[k] /\ pos[k] \in Int /\ LinkRight(l, pos, k, i)
  <2>1. PICK k \in Stand(l) : s = Spot(pos, k) /\ Height(l, k) >= i /\ pos[k] <= r
    OBVIOUS
  <2>2. s.node = k /\ s.pos = pos[k] /\ pos[k] \in Int
    BY <2>1, SpotIs
  <2>3. Height(l, k) \in Int
    BY BoundsAssumption DEF Heights, Stand
  <2>4. LinkRight(l, pos, k, i)
    BY <2>1, <2>3 DEF Links
  <2> QED
    BY <2>1, <2>2, <2>4
<1>5. ASSUME NEW s \in I
      PROVE  \/ F[s] = s /\ \A j \in Present(l) : Height(l, j) >= i /\ pos[j] <= r => pos[j] <= s.pos
             \/ F[s] \in I /\ F[s].pos > s.pos
  <2>1. PICK k \in Stand(l) : /\ s = Spot(pos, k) /\ s.pos = pos[k] /\ pos[k] \in Int
                              /\ LinkRight(l, pos, k, i)
    BY <1>4
  <2>2. \/ F[s] = s /\ \A j \in Present(l) : Height(l, j) >= i /\ pos[j] <= r => pos[j] <= pos[k]
        \/ \E j \in Present(l) : /\ F[s] = Spot(pos, j)
                                 /\ Height(l, j) >= i /\ pos[k] < pos[j] /\ pos[j] <= r
    <3> HIDE DEF I
    <3> QED
      BY <2>1, PassTurn
  <2>3. ASSUME NEW j \in Present(l), F[s] = Spot(pos, j), Height(l, j) >= i,
               pos[k] < pos[j], pos[j] <= r
        PROVE  F[s] \in I /\ F[s].pos > s.pos
    <3>1. j \in Stand(l) /\ Spot(pos, j).pos = pos[j] /\ pos[j] \in Int
      BY SpotIs DEF Stand
    <3>2. Spot(pos, j) \in I
      BY <2>3, <3>1
    <3> HIDE DEF I, F
    <3> QED
      BY <2>1, <2>3, <3>1, <3>2
  <2> HIDE DEF I, F
  <2> QED
    BY <2>1, <2>2, <2>3
<1>6. \A s \in I : F[s] \in I
  <2> HIDE DEF F, I
  <2> QED
    BY <1>5
<1>7. \A s \in I : left[s] \in Nat /\ s.pos \in Int
  <2>1. ASSUME NEW s \in I PROVE r - s.pos \in Nat /\ s.pos \in Int
    <3>1. PICK k \in Stand(l) : s.pos = pos[k] /\ pos[k] <= r /\ pos[k] \in Int
      BY <1>4
    <3> HIDE DEF I
    <3> QED
      BY <1>1, <3>1
  <2> HIDE DEF I
  <2> QED
    BY <2>1
<1>8. \A s \in I : F[s] # s => left[F[s]] < left[s]
  <2> HIDE DEF F, I
  <2> QED
    BY <1>1, <1>5, <1>6, <1>7
<1>9. Spot(pos, n) \in I /\ left[Spot(pos, n)] <= N
  <2>1. Spot(pos, n).pos = pos[n] /\ pos[n] \in 0..l.length
    BY SpotIs
  <2>2. Spot(pos, n) \in I
    OBVIOUS
  <2>3. l.length <= N /\ N \in Nat /\ l.length \in Nat
    BY LengthBounded, EntriesFinite
  <2> HIDE DEF I, N
  <2> QED
    BY <1>1, <2>1, <2>2, <2>3
<1>10. N \in Nat
  BY EntriesFinite
<1>11. end \in I /\ F[end] = end
  <2> DEFINE x == Spot(pos, n)
  <2>1. \A s \in I : left[s] \in Nat
    <3> HIDE DEF I, left
    <3> QED
      BY <1>7
  <2>2. I \in SUBSET Spots /\ x \in I /\ left[x] <= N
    <3> HIDE DEF I, left
    <3> QED
      BY <1>3, <1>9
  <2> HIDE DEF F, I, N, left, x
  <2>3. Loop(Spots, F, x, N) \in I /\ F[Loop(Spots, F, x, N)] = Loop(Spots, F, x, N)
    BY ONLY <1>2, <1>6, <1>8, <1>10, <2>1, <2>2, LoopEnds
  <2> QED
    BY <2>3 DEF x
<1>12. \A j \in Present(l) : Height(l, j) >= i /\ pos[j] <= r => pos[j] <= end.pos
  <2>1. end.pos \in Int
    BY <1>7, <1>11
  <2> HIDE DEF I, F, end
  <2> QED
    BY <1>5, <1>11, <2>1
<1>13. PICK k \in Stand(l) : /\ end = Spot(pos, k) /\ Height(l, k) >= i /\ pos[k] <= r
                             /\ end.node = k /\ end.pos = pos[k]
  <2> HIDE DEF end
  <2> QED
    BY <1>4, <1>11
<1> HIDE DEF end
<1>14. LastUpTo(l, pos, r, i, end)
  BY <1>12, <1>13 DEF LastUpTo
<1> QED
  BY <1>14 DEF end

\* the levels from the top down to i
Falls(f, l, passed, i) ==
    f = [j \in i..(l.level + 1) |->
            IF j > l.level THEN Start
            ELSE Loop(Spots, Pass(l, passed, j), f[j + 1], Cardinality(Entries))]

LEMMA FallsExist ==
    ASSUME NEW l, l.level \in Nat, NEW passed
    PROVE  \E f : Falls(f, l, passed, 1)
<1> DEFINE n == l.level
           Bad == {m \in 0..n : ~\E f : Falls(f, l, passed, n + 1 - m)}
<1>1. 0 \notin Bad
  <2> DEFINE f == [j \in (n + 1)..(n + 1) |-> Start]
  <2>1. f = [j \in (n + 1)..(n + 1) |->
                IF j > n THEN Start
                ELSE Loop(Spots, Pass(l, passed, j), f[j + 1], Cardinality(Entries))]
    OBVIOUS
  <2>2. n + 1 - 0 = n + 1
    OBVIOUS
  <2> HIDE DEF f
  <2>3. Falls(f, l, passed, n + 1 - 0)
    BY <2>1, <2>2 DEF Falls
  <2> QED
    BY <2>3
<1>2. ASSUME NEW m \in 1..n, m \in Bad PROVE m - 1 \in Bad
  <2> DEFINE i == n + 1 - m
  <2>1. /\ i \in 1..n /\ n + 1 - (m - 1) = i + 1 /\ i + 1 \in (i + 1)..(n + 1)
        /\ m - 1 \in 0..n
    OBVIOUS
  <2> HIDE DEF i
  <2>2. ASSUME NEW g, Falls(g, l, passed, i + 1) PROVE FALSE
    <3> DEFINE f == [j \in i..(n + 1) |->
                        IF j > n THEN Start
                        ELSE Loop(Spots, Pass(l, passed, j), g[j + 1], Cardinality(Entries))]
    <3>1. ASSUME NEW j \in (i + 1)..(n + 1) PROVE f[j] = g[j]
      <4>1. j \in i..(n + 1)
        BY <2>1
      <4>2. g[j] = IF j > n THEN Start
                   ELSE Loop(Spots, Pass(l, passed, j), g[j + 1], Cardinality(Entries))
        BY <2>2 DEF Falls
      <4> QED
        BY <4>1, <4>2
    <3> HIDE DEF f
    <3>2. ASSUME NEW j \in i..(n + 1)
          PROVE  f[j] = IF j > n THEN Start
                        ELSE Loop(Spots, Pass(l, passed, j), f[j + 1], Cardinality(Entries))
      <4>1. f[j] = IF j > n THEN Start
                   ELSE Loop(Spots, Pass(l, passed, j), g[j + 1], Cardinality(Entries))
        BY DEF f
      <4>2. CASE j > n
        BY <4>1, <4>2
      <4>3. CASE ~(j > n)
        <5>1. j + 1 \in (i + 1)..(n + 1)
          BY <2>1, <4>3
        <5> QED
          BY <3>1, <4>1, <4>3, <5>1
      <4> QED
        BY <4>2, <4>3
    <3>3. f = [j \in i..(n + 1) |-> f[j]]
      BY DEF f
    <3>4. Falls(f, l, passed, i)
      BY <3>2, <3>3 DEF Falls
    <3> QED
      BY <1>2, <3>4 DEF i
  <2> QED
    BY <2>1, <2>2
<1>3. Bad \subseteq 0..n
  OBVIOUS
<1>4. Bad = {}
  <2> HIDE DEF Bad
  <2> QED
    BY <1>1, <1>2, <1>3, NoneBad
<1>5. n \in 0..n /\ n + 1 - n = 1
  OBVIOUS
<1> QED
  BY <1>4, <1>5

LEMMA DescendIs ==
    ASSUME NEW l, l.level \in Nat, NEW passed
    PROVE  /\ Descend(l, passed)[l.level + 1] = Start
           /\ \A i \in 1..l.level :
                 Descend(l, passed)[i] =
                    Loop(Spots, Pass(l, passed, i), Descend(l, passed)[i + 1], Cardinality(Entries))
<1> DEFINE f == CHOOSE f : Falls(f, l, passed, 1)
<1>1. Falls(f, l, passed, 1)
  BY FallsExist
<1>2. Descend(l, passed) = f
  BY DEF Descend, Falls
<1> HIDE DEF f
<1>3. f[l.level + 1] = Start
  BY <1>1 DEF Falls
<1>4. ASSUME NEW i \in 1..l.level
      PROVE  f[i] = Loop(Spots, Pass(l, passed, i), f[i + 1], Cardinality(Entries))
  BY <1>1 DEF Falls
<1> QED
  BY <1>2, <1>3, <1>4

\* On every level the search ends at the last node up to the position r.
LEMMA SearchReaches ==
    ASSUME NEW l, NEW pos, Numbered(l, pos), Heights(l), Links(l, pos),
           NEW passed, NEW r, Marks(l, pos, passed, r)
    PROVE  \A i \in 1..l.level : LastUpTo(l, pos, r, i, Descend(l, passed)[i])
<1> DEFINE n == l.level
           at == Descend(l, passed)
           Bad == {m \in 0..n : m # 0 /\ ~LastUpTo(l, pos, r, n + 1 - m, at[n + 1 - m])}
<1>1. n \in Nat /\ n <= MaxLevel /\ MaxLevel \in Nat
  BY BoundsAssumption DEF Heights
<1>2. at[n + 1] = Start /\ \A i \in 1..n : at[i] = Loop(Spots, Pass(l, passed, i), at[i + 1], Cardinality(Entries))
  BY <1>1, DescendIs
<1>3. r \in Nat /\ Header \in Stand(l) /\ Spot(pos, Header) = Start /\ pos[Header] <= r
  BY DEF Marks, Numbered, Stand, Spot, Start
<1>4. ASSUME NEW i \in 1..n,
             i # n => LastUpTo(l, pos, r, i + 1, at[i + 1])
      PROVE  LastUpTo(l, pos, r, i, at[i])
  <2>1. CASE i = n
    <3>1. Height(l, Header) >= i
      BY <1>1, <2>1 DEF Heights
    <3>2. at[i] = Loop(Spots, Pass(l, passed, i), Spot(pos, Header), Cardinality(Entries))
      BY <1>2, <1>3, <2>1
    <3>3. i \in 1..l.level
      OBVIOUS
    <3> HIDE DEF n, at
    <3> QED
      BY <1>3, <3>1, <3>2, <3>3, LevelReaches
  <2>2. CASE i # n
    <3> DEFINE k == at[i + 1].node
    <3>1. /\ k \in Stand(l) /\ at[i + 1] = Spot(pos, k) /\ at[i + 1].pos = pos[k]
          /\ Height(l, k) >= i + 1 /\ at[i + 1].pos <= r
      BY <1>4, <2>2 DEF LastUpTo
    <3>2. Height(l, k) >= i /\ pos[k] <= r
      <4>1. Height(l, k) \in Int
        BY <1>1, <3>1 DEF Heights, Stand
      <4> HIDE DEF k, n, at
      <4>2. i \in Int
        OBVIOUS
      <4> QED
        BY <3>1, <4>1, <4>2
    <3>3. at[i] = Loop(Spots, Pass(l, passed, i), Spot(pos, k), Cardinality(Entries))
      BY <1>2, <3>1
    <3>4. i \in 1..l.level
      OBVIOUS
    <3> HIDE DEF n, at, k
    <3> QED
      BY <3>1, <3>2, <3>3, <3>4, LevelReaches
  <2> QED
    BY <2>1, <2>2
<1>5. 0 \notin Bad
  OBVIOUS
<1>6. ASSUME NEW m \in 1..n, m \in Bad PROVE m - 1 \in Bad
  <2> DEFINE i == n + 1 - m
  <2>1. i \in 1..n /\ ~LastUpTo(l, pos, r, i, at[i])
    <3>1. ~LastUpTo(l, pos, r, i, at[i])
      BY <1>6
    <3>2. i \in 1..n
      <4> HIDE DEF n, at
      <4> QED
        BY <1>1
    <3> QED
      BY <3>1, <3>2
  <2>2. i # n /\ ~LastUpTo(l, pos, r, i + 1, at[i + 1])
    <3> HIDE DEF n, at, i
    <3> QED
      BY <1>4, <2>1
  <2>3. i + 1 = n + 1 - (m - 1) /\ m - 1 \in 0..n /\ m - 1 # 0
    <3>1. i # n
      BY <2>2
    <3> HIDE DEF n, at
    <3> QED
      BY <1>1, <3>1
  <2> QED
    BY <2>2, <2>3
<1>7. Bad \subseteq 0..n
  OBVIOUS
<1>8. Bad = {}
  <2> HIDE DEF Bad
  <2> QED
    BY <1>1, <1>5, <1>6, <1>7, NoneBad
<1>9. ASSUME NEW i \in 1..n PROVE LastUpTo(l, pos, r, i, at[i])
  <2> DEFINE m == n + 1 - i
  <2>1. m \in 0..n /\ m # 0 /\ n + 1 - m = i
    <3> HIDE DEF n, at
    <3> QED
      BY <1>1
  <2>2. m \notin Bad
    BY <1>8
  <2> QED
    BY <2>1, <2>2
<1> QED
  BY <1>9

-----------------------------------------------------------------------------
(***************************************************************************)
(* What an insertion and a deletion assign.                                *)
(***************************************************************************)
Lists == [score : [Entries -> Numbers \cup {None}],
          forward : [Nodes -> Seq(Entries \cup {Nil})],
          span : [Nodes -> Seq(Int)],
          backward : [Entries -> Entries \cup {Nil}],
          tail : Entries \cup {Nil},
          level : 1..MaxLevel,
          length : Nat]

\* the node behind which a new node goes on level i, and its position
Update(l, at, i) == IF i <= l.level THEN at[i].node ELSE Header
UpdatePos(l, at, i) == IF i <= l.level THEN at[i].pos ELSE 0
OldSpan(l, at, i) == IF i <= l.level THEN l.span[Update(l, at, i)][i] ELSE l.length
Top(l, h) == Max({l.level, h})

InsertedForward(l, at, x, h) ==
    [n \in Nodes |->
        IF n = x THEN [i \in 1..h |-> l.forward[Update(l, at, i)][i]]
        ELSE [i \in DOMAIN l.forward[n] |->
                IF i <= h /\ n = Update(l, at, i) THEN x ELSE l.forward[n][i]]]

InsertedSpan(l, at, x, h) ==
    [n \in Nodes |->
        IF n = x
        THEN [i \in 1..h |-> NewSpan(l, OldSpan(l, at, i), at[1].pos - UpdatePos(l, at, i), at[1].pos)]
        ELSE [i \in DOMAIN l.span[n] |->
                IF i > Top(l, h) \/ n # Update(l, at, i) THEN l.span[n][i]
                ELSE IF i <= h THEN at[1].pos - UpdatePos(l, at, i) + 1 ELSE l.span[n][i] + 1]]

InsertedBackward(l, at, x) ==
    [n \in Entries |->
        IF n = x THEN (IF Update(l, at, 1) = Header THEN Nil ELSE Update(l, at, 1))
        ELSE IF n = l.forward[Update(l, at, 1)][1] THEN x ELSE l.backward[n]]

InsertAssigns(l, at, x, s, h, l2) ==
    /\ DOMAIN l2 = DOMAIN l
    /\ l2 = [f \in DOMAIN l |-> l2[f]]
    /\ l2.score = [l.score EXCEPT ![x] = s]
    /\ l2.forward = InsertedForward(l, at, x, h)
    /\ l2.span = InsertedSpan(l, at, x, h)
    /\ l2.backward = InsertedBackward(l, at, x)
    /\ l2.tail = TailAfterInsert(l, x, l.forward[Update(l, at, 1)][1])
    /\ l2.level = Top(l, h)
    /\ l2.length = l.length + 1

LEMMA InsertFields ==
    ASSUME NEW l \in Lists, NEW s, NEW m, NEW h
    PROVE  InsertAssigns(l, Descend(l, Smaller(l, s, m)), FreeNode(l, m), s, h, Insert(l, s, m, h))
<1> DEFINE at == Descend(l, Smaller(l, s, m))
           x == FreeNode(l, m)
           l2 == Insert(l, s, m, h)
<1>1. DOMAIN l = {"score", "forward", "span", "backward", "tail", "level", "length"}
  BY DEF Lists
<1>2. DOMAIN l2 = DOMAIN l /\ l2 = [f \in DOMAIN l |-> l2[f]]
  BY DEF Insert
<1>3. l2.score = [l.score EXCEPT ![x] = s]
  BY <1>1 DEF Insert
<1>4. l2.forward = InsertedForward(l, at, x, h)
  BY <1>1 DEF Insert, InsertedForward, Update
<1>5. l2.span = InsertedSpan(l, at, x, h)
  BY <1>1 DEF Insert, InsertedSpan, Update, UpdatePos, OldSpan, Top
<1>6. l2.backward = InsertedBackward(l, at, x)
  BY <1>1 DEF Insert, InsertedBackward, Update
<1>7. l2.tail = TailAfterInsert(l, x, l.forward[Update(l, at, 1)][1])
  BY <1>1 DEF Insert, Update
<1>8. l2.level = Top(l, h)
  BY <1>1 DEF Insert, Top
<1>9. l2.length = l.length + 1
  BY <1>1 DEF Insert
<1> HIDE DEF at, x, l2
<1>10. InsertAssigns(l, at, x, s, h, l2)
  BY <1>2, <1>3, <1>4, <1>5, <1>6, <1>7, <1>8, <1>9 DEF InsertAssigns
<1> QED
  BY <1>10 DEF at, x, l2

Skips(l, at, n, i) == i <= l.level /\ n = at[i].node

DeletedForward(l, at, t) ==
    [n \in Nodes |->
        IF n = t THEN <<>>
        ELSE [i \in DOMAIN l.forward[n] |->
                IF Skips(l, at, n, i) /\ l.forward[n][i] = t THEN l.forward[t][i]
                ELSE l.forward[n][i]]]

DeletedSpan(l, at, t) ==
    [n \in Nodes |->
        IF n = t THEN <<>>
        ELSE [i \in DOMAIN l.span[n] |->
                IF ~Skips(l, at, n, i) THEN l.span[n][i]
                ELSE IF l.forward[n][i] = t THEN l.span[n][i] + l.span[t][i] - 1
                     ELSE l.span[n][i] - 1]]

DeletedBackward(l, t) ==
    [n \in Entries |->
        IF n = t THEN Nil ELSE IF n = l.forward[t][1] THEN l.backward[t] ELSE l.backward[n]]

DeleteAssigns(l, at, t, l2) ==
    /\ DOMAIN l2 = DOMAIN l
    /\ l2 = [f \in DOMAIN l |-> l2[f]]
    /\ l2.score = [l.score EXCEPT ![t] = None]
    /\ l2.forward = DeletedForward(l, at, t)
    /\ l2.span = DeletedSpan(l, at, t)
    /\ l2.backward = DeletedBackward(l, t)
    /\ l2.tail = IF l.forward[t][1] = Nil THEN l.backward[t] ELSE l.tail
    /\ l2.level = LevelAfterDelete(l, DeletedForward(l, at, t))
    /\ l2.length = l.length - 1

LEMMA DeleteFields ==
    ASSUME NEW l \in Lists, NEW s, NEW m, NEW at, at = Descend(l, Smaller(l, s, m)),
           NEW t, t = l.forward[at[1].node][1], t # Nil, Member(t) = m, l.score[t] = s
    PROVE  DeleteAssigns(l, at, t, Delete(l, s, m))
<1> DEFINE l2 == Delete(l, s, m)
           new == [l EXCEPT !.score[t] = None,
                            !.forward = DeletedForward(l, at, t),
                            !.span = DeletedSpan(l, at, t),
                            !.backward = DeletedBackward(l, t),
                            !.tail = IF l.forward[t][1] = Nil THEN l.backward[t] ELSE l.tail,
                            !.level = LevelAfterDelete(l, DeletedForward(l, at, t)),
                            !.length = l.length - 1]
<1>1. DOMAIN l = {"score", "forward", "span", "backward", "tail", "level", "length"}
  BY DEF Lists
<1>2. l2 = new
  BY <1>1 DEF Delete, DeletedForward, DeletedSpan, DeletedBackward, Skips
<1> HIDE DEF l2
<1>3. DOMAIN new = DOMAIN l /\ new = [f \in DOMAIN l |-> new[f]]
  OBVIOUS
<1>4. /\ new.score = [l.score EXCEPT ![t] = None]
      /\ new.forward = DeletedForward(l, at, t)
      /\ new.span = DeletedSpan(l, at, t)
  BY <1>1
<1>5. /\ new.backward = DeletedBackward(l, t)
      /\ new.tail = IF l.forward[t][1] = Nil THEN l.backward[t] ELSE l.tail
      /\ new.level = LevelAfterDelete(l, DeletedForward(l, at, t))
      /\ new.length = l.length - 1
  BY <1>1
<1> HIDE DEF new
<1> QED
  BY <1>2, <1>3, <1>4, <1>5 DEF l2, DeleteAssigns

-----------------------------------------------------------------------------
(***************************************************************************)
(* The list as it should be.                                               *)
(***************************************************************************)
\* links and spans come in pairs; the header has none above the level in use
Rows(l) ==
    /\ \A n \in Nodes : Len(l.forward[n]) = Len(l.span[n])
    /\ \A i \in 1..MaxLevel : i > l.level => l.forward[Header][i] = Nil

\* exactly the nodes of the list have a score, and no two the same member
Named(l) ==
    /\ \A n \in Entries : n \in Present(l) <=> l.score[n] # None
    /\ \A m, n \in Present(l) : Member(m) = Member(n) => m = n

Sorted(l, pos) ==
    \A m, n \in Present(l) : pos[m] < pos[n] => LessThan(l, m, l.score[n], Member(n))

Backs(l, pos) ==
    /\ \A n \in Present(l) :
          \/ pos[n] = 1 /\ l.backward[n] = Nil
          \/ l.backward[n] \in Present(l) /\ pos[l.backward[n]] = pos[n] - 1
    /\ \/ l.length = 0 /\ l.tail = Nil
       \/ l.tail \in Present(l) /\ pos[l.tail] = l.length

Good(l, pos) ==
    /\ l \in Lists
    /\ Numbered(l, pos)
    /\ Heights(l)
    /\ Rows(l)
    /\ Links(l, pos)
    /\ Named(l)
    /\ Sorted(l, pos)
    /\ Backs(l, pos)

\* A set of nodes that holds with each node all before it ends at a position.
LEMMA CutExists ==
    ASSUME NEW l, NEW pos, Numbered(l, pos), NEW D,
           \A m, n \in Present(l) : n \in D /\ pos[m] < pos[n] => m \in D
    PROVE  \E r \in 0..l.length : \A k \in Present(l) : k \in D <=> pos[k] <= r
<1> DEFINE Outside == {p \in Nat : \E k \in Present(l) : k \notin D /\ pos[k] = p}
<1>1. \A k \in Present(l) : pos[k] \in 1..l.length
  BY SpotIs DEF Stand
<1>2. CASE Outside = {}
  <2>1. \A k \in Present(l) : k \in D
    BY <1>1, <1>2
  <2>2. l.length \in 0..l.length
    BY DEF Numbered
  <2> QED
    BY <1>1, <2>1, <2>2
<1>3. CASE Outside # {}
  <2>1. Outside \subseteq Nat
    OBVIOUS
  <2>2. PICK p \in Outside : \A q \in Outside : p <= q
    <3> HIDE DEF Outside
    <3> QED
      BY <1>3, <2>1, SmallestNat
  <2>3. PICK o \in Present(l) : o \notin D /\ pos[o] = p
    OBVIOUS
  <2>4. p - 1 \in 0..l.length
    <3>1. p \in 1..l.length /\ l.length \in Nat
      BY <1>1, <2>3 DEF Numbered
    <3> QED
      BY <3>1
  <2>5. ASSUME NEW k \in Present(l) PROVE k \in D <=> pos[k] <= p - 1
    <3>1. pos[k] \in Nat /\ p \in Int
      BY <1>1, <2>3
    <3>2. k \notin D => p <= pos[k]
      BY <2>2, <3>1
    <3>3. k \in D => ~(pos[o] < pos[k])
      BY <2>3
    <3>4. k \in D => pos[o] # pos[k]
      BY <2>3 DEF Numbered
    <3> HIDE DEF Outside
    <3> QED
      BY <2>3, <3>1, <3>2, <3>3, <3>4
  <2> QED
    BY <2>4, <2>5
<1> QED
  BY <1>2, <1>3

LEMMA LessThanIs ==
    ASSUME NaNs = {}, NEW l \in Lists, Named(l), NEW n \in Present(l), NEW s \in Numbers, NEW m
    PROVE  /\ l.score[n] \in Int /\ l.score[n] \in Numbers /\ s \in Int /\ Member(n) \in Nat
           /\ LessThan(l, n, s, m) <=> l.score[n] < s \/ (l.score[n] = s /\ Member(n) < m)
<1>1. n \in Entries
  BY DEF Present
<1>2. l.score[n] \in Numbers \cup {None} /\ l.score[n] # None
  BY <1>1 DEF Lists, Named
<1> QED
  BY <1>1, <1>2, ScoresAssumption, NodeFacts DEF LessThan, Below

\* The search for a score and a member divides the list.
LEMMA SmallerMarks ==
    ASSUME NaNs = {}, NEW l, NEW pos, Good(l, pos), NEW s \in Numbers, NEW m \in Nat
    PROVE  \E r \in 0..l.length :
              /\ Marks(l, pos, Smaller(l, s, m), r)
              /\ \A k \in Present(l) : LessThan(l, k, s, m) <=> pos[k] <= r
<1> DEFINE D == {k \in Present(l) : LessThan(l, k, s, m)}
<1>1. l \in Lists /\ Named(l) /\ Numbered(l, pos)
  BY DEF Good
<1>2. ASSUME NEW a \in Present(l), NEW b \in Present(l), b \in D, pos[a] < pos[b] PROVE a \in D
  <2>1. LessThan(l, a, l.score[b], Member(b))
    BY <1>2 DEF Good, Sorted
  <2>2. l.score[b] \in Numbers /\ l.score[b] \in Int /\ Member(b) \in Nat /\ s \in Int
    BY <1>1, LessThanIs
  <2>3. l.score[b] < s \/ (l.score[b] = s /\ Member(b) < m)
    BY <1>1, <1>2, LessThanIs
  <2>4. /\ l.score[a] \in Int /\ Member(a) \in Nat
        /\ l.score[a] < l.score[b] \/ (l.score[a] = l.score[b] /\ Member(a) < Member(b))
    BY <1>1, <2>1, <2>2, LessThanIs
  <2>5. l.score[a] < s \/ (l.score[a] = s /\ Member(a) < m)
    BY <2>2, <2>3, <2>4
  <2> QED
    BY <1>1, <2>5, LessThanIs
<1>3. PICK r \in 0..l.length : \A k \in Present(l) : k \in D <=> pos[k] <= r
  <2> HIDE DEF D
  <2> QED
    BY <1>1, <1>2, CutExists
<1>4. ASSUME NEW k \in Present(l) PROVE Spot(pos, k) \in Smaller(l, s, m) <=> LessThan(l, k, s, m)
  <2>1. Spot(pos, k) \in Places /\ Spot(pos, k).node = k
    BY <1>1, SpotIs DEF Stand
  <2> QED
    BY <2>1 DEF Smaller
<1>5. Smaller(l, s, m) \subseteq Places
  BY DEF Smaller
<1> QED
  BY <1>3, <1>4, <1>5 DEF Marks

\* u is where level i is left by a search that passes r positions, p its
\* position, next and span the link that leads on from there
Cut(l, pos, r, i, u, p, next, span) ==
    /\ u \in Stand(l) /\ p = pos[u] /\ p \in 0..r /\ Height(l, u) >= i
    /\ \A j \in Present(l) : Height(l, j) >= i /\ pos[j] <= r => pos[j] <= p
    /\ \/ /\ next = Nil /\ span = l.length - p
          /\ \A j \in Present(l) : Height(l, j) >= i => pos[j] <= p
       \/ /\ next \in Present(l) /\ Height(l, next) >= i /\ pos[next] > r
          /\ span = pos[next] - p
          /\ \A j \in Present(l) : Height(l, j) >= i /\ pos[j] > p => pos[next] <= pos[j]

LEMMA LevelCut ==
    ASSUME NEW l, NEW pos, Good(l, pos), NEW passed, NEW r, Marks(l, pos, passed, r),
           NEW at, at = Descend(l, passed), NEW i \in 1..MaxLevel
    PROVE  /\ Cut(l, pos, r, i, Update(l, at, i), UpdatePos(l, at, i),
                  l.forward[Update(l, at, i)][i], OldSpan(l, at, i))
           /\ i > l.level => \A j \in Present(l) : Height(l, j) < i
<1> DEFINE u == Update(l, at, i)
           p == UpdatePos(l, at, i)
           next == l.forward[u][i]
           span == OldSpan(l, at, i)
<1>1. r \in 0..l.length /\ l.length \in Nat /\ l.level \in 1..MaxLevel /\ MaxLevel \in Nat
  BY BoundsAssumption DEF Marks, Good, Numbered, Heights
<1>2. /\ \A j \in Present(l) : pos[j] \in 1..l.length /\ Height(l, j) \in 1..l.level
      /\ Height(l, Header) = MaxLevel /\ pos[Header] = 0
  BY SpotIs DEF Good, Stand, Heights, Numbered
<1>3. CASE i > l.level
  <2>1. \A j \in Present(l) : Height(l, j) < i
    BY <1>1, <1>2, <1>3
  <2>2. u = Header /\ p = 0 /\ span = l.length
    BY <1>1, <1>3 DEF Update, UpdatePos, OldSpan
  <2>3. next = Nil
    BY <1>3, <2>2 DEF Good, Rows
  <2>4. Header \in Stand(l) /\ 0 \in 0..r /\ MaxLevel >= i /\ l.length = l.length - 0
    BY <1>1 DEF Stand
  <2>5. \A j \in Present(l) : ~(Height(l, j) >= i)
    BY <1>1, <1>2, <1>3
  <2> HIDE DEF u, p, next, span
  <2>6. Cut(l, pos, r, i, u, p, next, span)
    BY <1>2, <2>2, <2>3, <2>4, <2>5 DEF Cut
  <2> QED
    BY <2>1, <2>6 DEF u, p, next, span
<1>4. CASE i <= l.level
  <2>1. i \in 1..l.level
    BY <1>1, <1>4
  <2>2. LastUpTo(l, pos, r, i, at[i])
    BY <2>1, SearchReaches DEF Good
  <2>3. u = at[i].node /\ p = at[i].pos /\ span = l.span[u][i]
    BY <1>4 DEF Update, UpdatePos, OldSpan
  <2> HIDE DEF u, p, next, span
  <2>4. /\ u \in Stand(l) /\ p = pos[u] /\ Height(l, u) >= i /\ p <= r
        /\ \A j \in Present(l) : Height(l, j) >= i /\ pos[j] <= r => pos[j] <= p
    BY <2>2, <2>3 DEF LastUpTo
  <2>5. p \in 0..r
    BY <1>1, <1>2, <2>4 DEF Stand
  <2>6. LinkRight(l, pos, u, i)
    <3>1. i <= Height(l, u)
      BY <1>1, <1>2, <2>4 DEF Stand
    <3> QED
      BY <2>1, <2>4, <3>1 DEF Good, Links
  <2>7. \/ /\ next = Nil /\ span = l.length - p
           /\ \A j \in Present(l) : Height(l, j) >= i => pos[j] <= p
        \/ /\ next \in Present(l) /\ Height(l, next) >= i /\ pos[next] > p
           /\ span = pos[next] - p
           /\ \A j \in Present(l) : Height(l, j) >= i /\ pos[j] > p => pos[next] <= pos[j]
    BY <2>3, <2>4, <2>6 DEF LinkRight, next
  <2>8. next \in Present(l) /\ Height(l, next) >= i /\ pos[next] > p => pos[next] > r
    BY <1>1, <1>2, <2>4, <2>5
  <2>9. Cut(l, pos, r, i, u, p, next, span)
    BY <2>4, <2>5, <2>7, <2>8 DEF Cut
  <2>10. ~(i > l.level)
    BY <1>1, <1>4
  <2> QED
    BY <2>9, <2>10 DEF u, p, next, span
<1> QED
  BY <1>1, <1>3, <1>4

-----------------------------------------------------------------------------
(***************************************************************************)
(* An insertion.                                                           *)
(***************************************************************************)
LEMMA MinIs ==
    ASSUME NEW S, S \subseteq Nat, S # {}
    PROVE  Min(S) \in S /\ \A n \in S : Min(S) <= n
<1>1. PICK n \in S : \A k \in S : n <= k
  BY SmallestNat
<1>2. \E x \in S : \A y \in S : x <= y
  BY <1>1
<1> QED
  BY <1>2 DEF Min

LEMMA MaxOfTwo ==
    ASSUME NEW a \in Int, NEW b \in Int
    PROVE  /\ Max({a, b}) \in {a, b} /\ Max({a, b}) >= a /\ Max({a, b}) >= b
<1>1. \E x \in {a, b} : x >= a /\ x >= b
  <2>1. CASE a >= b
    BY <2>1
  <2>2. CASE ~(a >= b)
    BY <2>2
  <2> QED
    BY <2>1, <2>2
<1>2. \E x \in {a, b} : \A y \in {a, b} : x >= y
  BY <1>1
<1> QED
  BY <1>2 DEF Max

LEMMA RowIs ==
    ASSUME NEW S, NEW n \in Nat, NEW f \in [1..n -> S]
    PROVE  f \in Seq(S) /\ Len(f) = n
  OBVIOUS

\* r nodes are before the entry of the score s and the member m, which is new
Inserting(l, pos, s, m, h, at, x, r) ==
    /\ NaNs = {} /\ Good(l, pos)
    /\ s \in Numbers /\ m \in Members /\ h \in 1..MaxLevel
    /\ at = Descend(l, Smaller(l, s, m)) /\ x = FreeNode(l, m)
    /\ \A k \in Present(l) : Member(k) # m
    /\ Marks(l, pos, Smaller(l, s, m), r)
    /\ \A k \in Present(l) : LessThan(l, k, s, m) <=> pos[k] <= r

LEMMA NewNode ==
    ASSUME NEW l, NEW pos, NEW s, NEW m, NEW h, NEW at, NEW x, NEW r,
           Inserting(l, pos, s, m, h, at, x, r)
    PROVE  /\ x \in Entries /\ x \notin Present(l) /\ x # Header /\ x # Nil /\ Member(x) = m
           /\ FreeCopies(l, m) # {}
<1>1. ASSUME NEW c \in 1..MaxCopies PROVE c \in FreeCopies(l, m)
  <2>1. <<m, c>> \in Entries /\ Member(<<m, c>>) = m
    BY DEF Inserting, Entries, Member
  <2>2. l.forward[<<m, c>>] = <<>>
    BY <2>1 DEF Inserting, Present
  <2> QED
    BY <2>2 DEF FreeCopies
<1>2. FreeCopies(l, m) \subseteq Nat /\ FreeCopies(l, m) # {}
  <2>1. 1 \in 1..MaxCopies
    BY BoundsAssumption
  <2>2. 1 \in FreeCopies(l, m)
    BY <1>1, <2>1
  <2>3. FreeCopies(l, m) \subseteq Nat
    BY DEF FreeCopies
  <2> QED
    BY <2>2, <2>3
<1>3. Min(FreeCopies(l, m)) \in 1..MaxCopies
  BY <1>2, MinIs DEF FreeCopies
<1>4. x \in Entries /\ Member(x) = m
  BY <1>3 DEF Inserting, FreeNode, Entries, Member
<1> QED
  BY <1>2, <1>4, NodeFacts DEF Inserting

LEMMA InsertCut ==
    ASSUME NEW l, NEW pos, NEW s, NEW m, NEW h, NEW at, NEW x, NEW r,
           Inserting(l, pos, s, m, h, at, x, r)
    PROVE  /\ r \in 0..l.length /\ l.length \in Nat /\ l.level \in 1..MaxLevel
           /\ MaxLevel \in Nat /\ h \in 1..MaxLevel
           /\ at[1].pos = r
           /\ Top(l, h) \in 1..MaxLevel /\ Top(l, h) >= h /\ Top(l, h) >= l.level
           /\ Top(l, h) = h \/ Top(l, h) = l.level
           /\ \A i \in 1..MaxLevel :
                 /\ Cut(l, pos, r, i, Update(l, at, i), UpdatePos(l, at, i),
                        l.forward[Update(l, at, i)][i], OldSpan(l, at, i))
                 /\ i > l.level => \A j \in Present(l) : Height(l, j) < i
<1>1. /\ r \in 0..l.length /\ l.length \in Nat /\ l.level \in 1..MaxLevel
      /\ MaxLevel \in Nat /\ h \in 1..MaxLevel
  BY BoundsAssumption DEF Inserting, Marks, Good, Numbered, Heights
<1>2. \A i \in 1..MaxLevel :
         /\ Cut(l, pos, r, i, Update(l, at, i), UpdatePos(l, at, i),
                l.forward[Update(l, at, i)][i], OldSpan(l, at, i))
         /\ i > l.level => \A j \in Present(l) : Height(l, j) < i
  BY LevelCut DEF Inserting
<1>3. at[1].pos = r
  <2>1. 1 \in 1..l.level /\ Numbered(l, pos)
    BY <1>1 DEF Inserting, Good
  <2>2. LastUpTo(l, pos, r, 1, at[1])
    BY <2>1, SearchReaches DEF Inserting, Good
  <2> DEFINE a == at[1]
  <2> HIDE DEF a
  <2>3. a.pos <= r /\ a.pos \in Nat
    BY <2>1, <2>2, SpotIs DEF LastUpTo, a
  <2>4. CASE r = 0
    BY <2>3, <2>4 DEF a
  <2>5. CASE r # 0
    <3>1. r \in 1..l.length
      BY <1>1, <2>5
    <3>2. PICK j \in Present(l) : pos[j] = r
      BY <2>1, <3>1 DEF Numbered
    <3>3. Height(l, j) >= 1
      BY <1>1 DEF Inserting, Good, Heights
    <3>4. r <= a.pos
      BY <1>1, <2>2, <3>2, <3>3 DEF LastUpTo, a
    <3> QED
      BY <1>1, <2>3, <3>4 DEF a
  <2> QED
    BY <2>4, <2>5
<1>4. Top(l, h) \in {l.level, h} /\ Top(l, h) >= h /\ Top(l, h) >= l.level
  <2> DEFINE v == l.level
  <2>1. v \in Int /\ h \in Int
    BY <1>1
  <2> HIDE DEF v
  <2>2. Max({v, h}) \in {v, h} /\ Max({v, h}) >= v /\ Max({v, h}) >= h
    BY <2>1, MaxOfTwo
  <2> QED
    BY <2>2 DEF v, Top
<1> QED
  BY <1>1, <1>2, <1>3, <1>4

\* the rows of links and spans after an insertion
LEMMA InsertRows ==
    ASSUME NEW l, NEW pos, NEW s, NEW m, NEW h, NEW at, NEW x, NEW r,
           Inserting(l, pos, s, m, h, at, x, r),
           NEW l2, l2.forward = InsertedForward(l, at, x, h), l2.span = InsertedSpan(l, at, x, h),
           NEW n \in Nodes
    PROVE  /\ l2.forward[n] \in Seq(Entries \cup {Nil}) /\ l2.span[n] \in Seq(Int)
           /\ Height(l2, n) = IF n = x THEN h ELSE Height(l, n)
           /\ Len(l2.span[n]) = Height(l2, n)
<1>1. /\ l.forward[n] \in Seq(Entries \cup {Nil}) /\ l.span[n] \in Seq(Int)
      /\ Len(l.forward[n]) = Len(l.span[n]) /\ Len(l.forward[n]) \in Nat
  BY DEF Inserting, Good, Lists, Rows
<1>2. /\ \A i \in 1..Len(l.forward[n]) : l.forward[n][i] \in Entries \cup {Nil} /\ l.span[n][i] \in Int
      /\ DOMAIN l.forward[n] = 1..Len(l.forward[n])
      /\ DOMAIN l.span[n] = 1..Len(l.forward[n])
  BY <1>1
<1>3. /\ r \in 0..l.length /\ l.length \in Nat /\ at[1].pos = r
      /\ h \in 1..MaxLevel /\ MaxLevel \in Nat
  BY InsertCut
<1>4. ASSUME NEW i \in 1..MaxLevel
      PROVE  /\ l.forward[Update(l, at, i)][i] \in Entries \cup {Nil}
             /\ UpdatePos(l, at, i) \in Int /\ OldSpan(l, at, i) \in Int
  <2> DEFINE u == Update(l, at, i)
             p == UpdatePos(l, at, i)
             next == l.forward[u][i]
             span == OldSpan(l, at, i)
  <2>1. Cut(l, pos, r, i, u, p, next, span)
    BY InsertCut
  <2>2. \A j \in Present(l) : pos[j] \in Int /\ j \in Entries
    BY SpotIs DEF Inserting, Good, Stand, Present
  <2> HIDE DEF u, p, next, span
  <2>3. next \in Entries \cup {Nil} /\ p \in Int /\ span \in Int
    BY <1>3, <2>1, <2>2 DEF Cut
  <2> QED
    BY <2>3 DEF u, p, next, span
<1>5. CASE n = x
  <2>1. l2.forward[n] = [i \in 1..h |-> l.forward[Update(l, at, i)][i]]
    BY <1>5 DEF InsertedForward
  <2>2. l2.span[n] = [i \in 1..h |-> NewSpan(l, OldSpan(l, at, i), r - UpdatePos(l, at, i), r)]
    BY <1>3, <1>5 DEF InsertedSpan
  <2>3. \A i \in 1..h : i \in 1..MaxLevel
    BY <1>3
  <2>4. l2.forward[n] \in [1..h -> Entries \cup {Nil}]
    BY <1>4, <2>1, <2>3
  <2>5. ASSUME NEW i \in 1..h
        PROVE  NewSpan(l, OldSpan(l, at, i), r - UpdatePos(l, at, i), r) \in Int
    BY <1>3, <1>4, <2>3 DEF NewSpan
  <2>6. l2.span[n] \in [1..h -> Int]
    BY <2>2, <2>5
  <2>7. h \in Nat
    BY <1>3
  <2> DEFINE f == l2.forward[n]
             g == l2.span[n]
  <2> HIDE DEF f, g
  <2>8. f \in Seq(Entries \cup {Nil}) /\ Len(f) = h
    BY <2>4, <2>7, RowIs DEF f
  <2>9. g \in Seq(Int) /\ Len(g) = h
    BY <2>6, <2>7, RowIs DEF g
  <2> QED
    BY <1>5, <2>8, <2>9 DEF f, g, Height
<1>6. CASE n # x
  <2> DEFINE k == Len(l.forward[n])
  <2>1. l2.forward[n] = [i \in 1..k |->
                            IF i <= h /\ n = Update(l, at, i) THEN x ELSE l.forward[n][i]]
    BY <1>2, <1>6 DEF InsertedForward
  <2>2. l2.span[n] = [i \in 1..k |->
                        IF i > Top(l, h) \/ n # Update(l, at, i) THEN l.span[n][i]
                        ELSE IF i <= h THEN r - UpdatePos(l, at, i) + 1 ELSE l.span[n][i] + 1]
    BY <1>2, <1>3, <1>6 DEF InsertedSpan
  <2>3. k \in Nat
    BY <1>1
  <2>4. l2.forward[n] \in [1..k -> Entries \cup {Nil}]
    <3>1. x \in Entries
      BY NewNode
    <3> HIDE DEF k
    <3>2. \A i \in 1..k : l.forward[n][i] \in Entries \cup {Nil}
      BY <1>2 DEF k
    <3> QED
      BY <2>1, <3>1, <3>2
  <2>5. l2.span[n] \in [1..k -> Int]
    <3>1. ASSUME NEW i \in 1..k
          PROVE  (IF i > Top(l, h) \/ n # Update(l, at, i) THEN l.span[n][i]
                  ELSE IF i <= h THEN r - UpdatePos(l, at, i) + 1 ELSE l.span[n][i] + 1) \in Int
      <4>1. l.span[n][i] \in Int /\ i \in Nat \ {0} /\ Top(l, h) \in 1..MaxLevel /\ Top(l, h) \in Int
        BY <1>2, InsertCut
      <4>2. CASE i > Top(l, h)
        BY <4>1, <4>2
      <4>3. CASE ~(i > Top(l, h))
        <5>1. i \in 1..MaxLevel
          BY <1>3, <4>1, <4>3
        <5>2. UpdatePos(l, at, i) \in Int /\ r \in Int
          BY <1>3, <1>4, <5>1
        <5> QED
          BY <4>1, <5>2
      <4> QED
        BY <4>2, <4>3
    <3> HIDE DEF k
    <3> QED
      BY <2>2, <3>1
  <2> DEFINE f == l2.forward[n]
             g == l2.span[n]
  <2> HIDE DEF f, g, k
  <2>6. f \in Seq(Entries \cup {Nil}) /\ Len(f) = k
    BY <2>3, <2>4, RowIs DEF f
  <2>7. g \in Seq(Int) /\ Len(g) = k
    BY <2>3, <2>5, RowIs DEF g
  <2> QED
    BY <1>6, <2>6, <2>7 DEF f, g, k, Height
<1> QED
  BY <1>5, <1>6

LEMMA PresentIs ==
    ASSUME NEW l, NEW n \in Entries, l.forward[n] \in Seq(Entries \cup {Nil})
    PROVE  n \in Present(l) <=> Height(l, n) # 0
<1> DEFINE f == l.forward[n]
<1> HIDE DEF f
<1>1. f \in Seq(Entries \cup {Nil})
  BY DEF f
<1>2. f = <<>> <=> Len(f) = 0
  BY <1>1, EmptySeq
<1> QED
  BY <1>2 DEF Present, Height, f

\* the positions after an insertion behind the first r nodes
Shifted(l, pos, x, r) ==
    [n \in Stand(l) \cup {x} |->
        IF n = x THEN r + 1 ELSE IF pos[n] > r THEN pos[n] + 1 ELSE pos[n]]

LEMMA InsertStand ==
    ASSUME NEW l, NEW pos, NEW s, NEW m, NEW h, NEW at, NEW x, NEW r,
           Inserting(l, pos, s, m, h, at, x, r),
           NEW l2, l2.forward = InsertedForward(l, at, x, h), l2.span = InsertedSpan(l, at, x, h)
    PROVE  /\ Present(l2) = Present(l) \cup {x} /\ Stand(l2) = Stand(l) \cup {x}
           /\ Height(l2, x) = h
           /\ \A n \in Stand(l) : Height(l2, n) = Height(l, n) /\ n # x
<1>1. x \in Entries /\ x \notin Present(l) /\ x # Header
  BY NewNode
<1>2. Stand(l) \subseteq Nodes /\ x \in Nodes
  BY <1>1, NodeFacts DEF Stand, Present
<1>3. Height(l2, x) = h /\ \A n \in Stand(l) : Height(l2, n) = Height(l, n) /\ n # x
  BY <1>1, <1>2, InsertRows DEF Stand
<1>4. ASSUME NEW n \in Entries PROVE n \in Present(l2) <=> n \in Present(l) \/ n = x
  <2>1. /\ l2.forward[n] \in Seq(Entries \cup {Nil})
        /\ Height(l2, n) = IF n = x THEN h ELSE Height(l, n)
    BY NodeFacts, InsertRows
  <2>2. l.forward[n] \in Seq(Entries \cup {Nil})
    BY NodeFacts DEF Inserting, Good, Lists
  <2>3. n \in Present(l2) <=> Height(l2, n) # 0
    BY <2>1, PresentIs
  <2>4. n \in Present(l) <=> Height(l, n) # 0
    BY <2>2, PresentIs
  <2>5. h # 0
    BY BoundsAssumption DEF Inserting
  <2> QED
    BY <2>1, <2>3, <2>4, <2>5
<1>5. Present(l2) \subseteq Entries /\ Present(l) \subseteq Entries
  BY DEF Present
<1>6. Present(l2) = Present(l) \cup {x}
  BY <1>1, <1>4, <1>5
<1> QED
  BY <1>3, <1>6 DEF Stand

Shifts(l, pos, x, r, np) ==
    /\ np[x] = r + 1 /\ r \in 0..l.length /\ l.length \in Nat
    /\ \A n \in Stand(l) : /\ np[n] = IF pos[n] > r THEN pos[n] + 1 ELSE pos[n]
                           /\ pos[n] \in 0..l.length /\ n # x
    /\ \A n \in Present(l) : pos[n] \in 1..l.length
    /\ Header \in Stand(l) /\ pos[Header] = 0
    /\ DOMAIN np = Stand(l) \cup {x}

LEMMA ShiftedIs ==
    ASSUME NEW l, NEW pos, NEW s, NEW m, NEW h, NEW at, NEW x, NEW r,
           Inserting(l, pos, s, m, h, at, x, r),
           NEW np, np = Shifted(l, pos, x, r)
    PROVE  Shifts(l, pos, x, r, np)
<1>1. x \notin Present(l) /\ x # Header
  BY NewNode
<1>2. Numbered(l, pos) /\ r \in 0..l.length /\ l.length \in Nat
  BY DEF Inserting, Good, Numbered, Marks
<1>3. \A n \in Stand(l) : n # x
  BY <1>1 DEF Stand
<1>4. \A n \in Stand(l) : pos[n] \in 0..l.length /\ (n \in Present(l) => pos[n] \in 1..l.length)
  BY <1>2, SpotIs
<1>5. np[x] = r + 1
  BY DEF Shifted
<1>6. \A n \in Stand(l) : np[n] = IF pos[n] > r THEN pos[n] + 1 ELSE pos[n]
  BY <1>3 DEF Shifted
<1>7. Header \in Stand(l) /\ pos[Header] = 0 /\ DOMAIN np = Stand(l) \cup {x}
  BY <1>2 DEF Stand, Numbered, Shifted
<1> QED
  BY <1>2, <1>3, <1>4, <1>5, <1>6, <1>7 DEF Stand, Shifts

LEMMA InsertNumbers ==
    ASSUME NEW l, NEW pos, NEW s, NEW m, NEW h, NEW at, NEW x, NEW r,
           Inserting(l, pos, s, m, h, at, x, r),
           NEW np, np = Shifted(l, pos, x, r),
           NEW l2, Present(l2) = Present(l) \cup {x}, Stand(l2) = Stand(l) \cup {x},
           l2.length = l.length + 1
    PROVE  Numbered(l2, np)
<1>1. /\ np[x] = r + 1 /\ r \in 0..l.length /\ l.length \in Nat
      /\ \A n \in Stand(l) : /\ np[n] = IF pos[n] > r THEN pos[n] + 1 ELSE pos[n]
                             /\ pos[n] \in 0..l.length /\ n # x
      /\ \A n \in Present(l) : pos[n] \in 1..l.length
      /\ Header \in Stand(l) /\ pos[Header] = 0
      /\ DOMAIN np = Stand(l) \cup {x}
  <2>1. Shifts(l, pos, x, r, np)
    BY ShiftedIs
  <2> QED
    BY <2>1 DEF Shifts
<1>2. \A n \in Present(l) : n \in Stand(l)
  BY DEF Stand
<1>3. l2.length \in Nat
  BY <1>1
<1>4. np \in [Stand(l2) -> 0..l2.length]
  <2>1. ASSUME NEW n \in Stand(l2) PROVE np[n] \in 0..l2.length
    <3>1. CASE n = x
      BY <1>1, <3>1
    <3>2. CASE n \in Stand(l)
      BY <1>1, <3>2
    <3> QED
      BY <3>1, <3>2
  <2>2. np = [n \in Stand(l2) |-> np[n]]
    BY <1>1 DEF Shifted
  <2> QED
    BY <2>1, <2>2
<1>5. np[Header] = 0
  BY <1>1
<1>6. ASSUME NEW n \in Present(l2) PROVE np[n] # 0
  <2>1. CASE n = x
    BY <1>1, <2>1
  <2>2. CASE n \in Present(l)
    BY <1>1, <1>2, <2>2
  <2> QED
    BY <2>1, <2>2
<1>7. ASSUME NEW a \in Present(l2), NEW b \in Present(l2), np[a] = np[b] PROVE a = b
  <2>1. ASSUME NEW c \in Present(l) PROVE np[c] # np[x]
    BY <1>1, <1>2
  <2>2. CASE a \in Present(l) /\ b \in Present(l)
    <3>1. pos[a] = pos[b]
      BY <1>1, <1>2, <1>7, <2>2
    <3> QED
      BY <2>2, <3>1 DEF Inserting, Good, Numbered
  <2> QED
    BY <1>7, <2>1, <2>2
<1>8. ASSUME NEW q \in 1..l2.length PROVE \E n \in Present(l2) : np[n] = q
  <2>1. CASE q = r + 1
    BY <1>1, <2>1
  <2>2. CASE q # r + 1
    <3> DEFINE old == IF q > r THEN q - 1 ELSE q
    <3>1. old \in 1..l.length /\ (old > r <=> q > r)
      BY <1>1, <2>2
    <3>2. PICK n \in Present(l) : pos[n] = old
      BY <3>1 DEF Inserting, Good, Numbered
    <3>3. np[n] = q
      BY <1>1, <1>2, <3>1, <3>2
    <3> QED
      BY <3>2, <3>3
  <2> QED
    BY <2>1, <2>2
<1> QED
  BY <1>3, <1>4, <1>5, <1>6, <1>7, <1>8 DEF Numbered

\* the order of the nodes is that of scores and members still
LEMMA InsertSorted ==
    ASSUME NEW l, NEW pos, NEW s, NEW m, NEW h, NEW at, NEW x, NEW r,
           Inserting(l, pos, s, m, h, at, x, r),
           NEW np, np = Shifted(l, pos, x, r),
           NEW l2 \in Lists, Present(l2) = Present(l) \cup {x},
           l2.score = [l.score EXCEPT ![x] = s]
    PROVE  Named(l2) /\ Sorted(l2, np)
<1>1. x \in Entries /\ x \notin Present(l) /\ Member(x) = m
  BY NewNode
<1>2. /\ NaNs = {} /\ l \in Lists /\ Named(l) /\ Sorted(l, pos)
      /\ s \in Numbers /\ m \in Members /\ m \in Nat /\ s \in Int /\ s # None
      /\ \A k \in Present(l) : Member(k) # m
      /\ \A k \in Present(l) : LessThan(l, k, s, m) <=> pos[k] <= r
  BY MembersAssumption, ScoresAssumption DEF Inserting, Good
<1>3. /\ np[x] = r + 1 /\ r \in Int
      /\ \A k \in Present(l) : /\ np[k] = IF pos[k] > r THEN pos[k] + 1 ELSE pos[k]
                               /\ pos[k] \in Int
  <2>1. \A k \in Present(l) : k \in Stand(l)
    BY DEF Stand
  <2>2. Shifts(l, pos, x, r, np)
    BY ShiftedIs
  <2> QED
    BY <2>1, <2>2 DEF Shifts
<1>4. /\ l2.score[x] = s
      /\ \A k \in Entries : k # x => l2.score[k] = l.score[k]
  <2>1. l.score \in [Entries -> Numbers \cup {None}]
    BY <1>2 DEF Lists
  <2> QED
    BY <1>1, <2>1
<1>5. Named(l2)
  <2>1. ASSUME NEW k \in Entries PROVE k \in Present(l2) <=> l2.score[k] # None
    BY <1>1, <1>2, <1>4 DEF Named
  <2>2. ASSUME NEW a \in Present(l2), NEW b \in Present(l2), Member(a) = Member(b) PROVE a = b
    BY <1>1, <1>2, <2>2 DEF Named
  <2> QED
    BY <2>1, <2>2 DEF Named
<1>6. Sorted(l2, np)
  <2>1. SUFFICES ASSUME NEW a \in Present(l2), NEW b \in Present(l2), np[a] < np[b]
                 PROVE  LessThan(l2, a, l2.score[b], Member(b))
    BY DEF Sorted
  <2>2. \A k \in Present(l) : k \in Entries /\ k # x
    BY <1>1 DEF Present
  <2>3. CASE a \in Present(l) /\ b \in Present(l)
    <3>1. pos[a] < pos[b]
      BY <1>3, <2>1, <2>3
    <3>2. LessThan(l, a, l.score[b], Member(b))
      BY <1>2, <2>3, <3>1 DEF Sorted
    <3>3. l2.score[a] = l.score[a] /\ l2.score[b] = l.score[b]
      BY <1>4, <2>2, <2>3
    <3> QED
      BY <3>2, <3>3 DEF LessThan
  <2>4. CASE a \in Present(l) /\ b = x
    <3>1. pos[a] <= r
      BY <1>3, <2>1, <2>4
    <3>2. LessThan(l, a, s, m)
      BY <1>2, <2>4, <3>1
    <3>3. l2.score[a] = l.score[a] /\ l2.score[b] = s /\ Member(b) = m
      BY <1>1, <1>4, <2>2, <2>4
    <3> QED
      BY <3>2, <3>3 DEF LessThan
  <2>5. CASE a = x /\ b \in Present(l)
    <3>1. ~(pos[b] <= r)
      BY <1>3, <2>1, <2>5
    <3>2. ~LessThan(l, b, s, m)
      BY <1>2, <2>5, <3>1
    <3>3. l.score[b] \in Int /\ Member(b) \in Nat /\ Member(b) # m /\ l.score[b] \in Numbers
      BY <1>2, <2>5, LessThanIs
    <3>4. ~(l.score[b] < s \/ (l.score[b] = s /\ Member(b) < m))
      BY <1>2, <2>5, <3>2, LessThanIs
    <3>5. s < l.score[b] \/ (s = l.score[b] /\ m < Member(b))
      BY <1>2, <3>3, <3>4
    <3>6. l2.score[b] = l.score[b] /\ l2.score[a] = s /\ Member(a) = m
      BY <1>1, <1>4, <2>2, <2>5
    <3>7. a \in Present(l2)
      OBVIOUS
    <3> QED
      BY <1>2, <1>5, <3>3, <3>5, <3>6, <3>7, LessThanIs
  <2>6. CASE a = x /\ b = x
    BY <1>3, <2>1, <2>6
  <2> QED
    BY <2>3, <2>4, <2>5, <2>6
<1> QED
  BY <1>5, <1>6

LEMMA InsertCell ==
    ASSUME NEW l, NEW pos, NEW s, NEW m, NEW h, NEW at, NEW x, NEW r,
           Inserting(l, pos, s, m, h, at, x, r),
           NEW l2, l2.forward = InsertedForward(l, at, x, h), l2.span = InsertedSpan(l, at, x, h),
           NEW n \in Stand(l), NEW i \in 1..MaxLevel, i <= Height(l, n)
    PROVE  /\ l2.forward[n][i] = IF i <= h /\ n = Update(l, at, i) THEN x ELSE l.forward[n][i]
           /\ l2.span[n][i] = IF i > Top(l, h) \/ n # Update(l, at, i) THEN l.span[n][i]
                              ELSE IF i <= h THEN r - UpdatePos(l, at, i) + 1
                              ELSE l.span[n][i] + 1
<1>1. n \in Nodes /\ n # x
  <2>1. x \notin Present(l) /\ x # Header
    BY NewNode
  <2> QED
    BY <2>1, NodeFacts DEF Stand, Present
<1>2. /\ l.forward[n] \in Seq(Entries \cup {Nil}) /\ l.span[n] \in Seq(Int)
      /\ Len(l.forward[n]) = Len(l.span[n]) /\ Len(l.forward[n]) \in Nat
  BY <1>1 DEF Inserting, Good, Lists, Rows
<1>3. i \in DOMAIN l.forward[n] /\ i \in DOMAIN l.span[n]
  BY <1>2, BoundsAssumption DEF Height
<1>4. at[1].pos = r
  BY InsertCut
<1>5. l2.forward[n] = [k \in DOMAIN l.forward[n] |->
                          IF k <= h /\ n = Update(l, at, k) THEN x ELSE l.forward[n][k]]
  BY <1>1 DEF InsertedForward
<1>6. l2.span[n] = [k \in DOMAIN l.span[n] |->
                       IF k > Top(l, h) \/ n # Update(l, at, k) THEN l.span[n][k]
                       ELSE IF k <= h THEN r - UpdatePos(l, at, k) + 1 ELSE l.span[n][k] + 1]
  BY <1>1, <1>4 DEF InsertedSpan
<1> QED
  BY <1>3, <1>5, <1>6

LEMMA InsertCellNew ==
    ASSUME NEW l, NEW pos, NEW s, NEW m, NEW h, NEW at, NEW x, NEW r,
           Inserting(l, pos, s, m, h, at, x, r),
           NEW l2, l2.forward = InsertedForward(l, at, x, h), l2.span = InsertedSpan(l, at, x, h),
           NEW i \in 1..h
    PROVE  /\ l2.forward[x][i] = l.forward[Update(l, at, i)][i]
           /\ l2.span[x][i] = NewSpan(l, OldSpan(l, at, i), r - UpdatePos(l, at, i), r)
<1>1. x \in Nodes
  BY NewNode, NodeFacts
<1>2. at[1].pos = r
  BY InsertCut
<1>3. l2.forward[x] = [k \in 1..h |-> l.forward[Update(l, at, k)][k]]
  BY <1>1 DEF InsertedForward
<1>4. l2.span[x] = [k \in 1..h |-> NewSpan(l, OldSpan(l, at, k), r - UpdatePos(l, at, k), r)]
  BY <1>1, <1>2 DEF InsertedSpan
<1> QED
  BY <1>3, <1>4

\* l2 has the nodes of l and x behind the first r of them
Grown(l, pos, x, r, h, l2, np) ==
    /\ Shifts(l, pos, x, r, np)
    /\ Present(l2) = Present(l) \cup {x} /\ Stand(l2) = Stand(l) \cup {x}
    /\ Height(l2, x) = h /\ h \in Nat
    /\ \A n \in Stand(l) : Height(l2, n) = Height(l, n) /\ n # x
    /\ l2.length = l.length + 1

\* a link that does not lead over x
LEMMA LinkBeside ==
    ASSUME NEW l, NEW pos, NEW x, NEW r, NEW h, NEW l2, NEW np, Grown(l, pos, x, r, h, l2, np),
           NEW n \in Stand(l), NEW i \in Nat, LinkRight(l, pos, n, i),
           l2.forward[n][i] = l.forward[n][i], l2.span[n][i] = l.span[n][i],
           pos[n] > r \/ (l.forward[n][i] \in Present(l) /\ pos[l.forward[n][i]] <= r),
           Nil \notin Present(l)
    PROVE  LinkRight(l2, np, n, i)
<1> DEFINE k == l.forward[n][i]
           d == l.span[n][i]
<1>1. /\ np[x] = r + 1 /\ r \in 0..l.length /\ l.length \in Nat
      /\ \A j \in Stand(l) : /\ np[j] = IF pos[j] > r THEN pos[j] + 1 ELSE pos[j]
                             /\ pos[j] \in Int /\ j # x /\ Height(l2, j) = Height(l, j)
      /\ l2.length = l.length + 1
      /\ Present(l2) = Present(l) \cup {x} /\ Present(l) \subseteq Stand(l)
  BY DEF Grown, Shifts, Stand
<1>2. \/ /\ k = Nil /\ d = l.length - pos[n]
         /\ \A j \in Present(l) : Height(l, j) >= i => pos[j] <= pos[n]
      \/ /\ k \in Present(l) /\ Height(l, k) >= i /\ pos[n] < pos[k] /\ d = pos[k] - pos[n]
         /\ \A j \in Present(l) : Height(l, j) >= i /\ pos[n] < pos[j] => pos[k] <= pos[j]
  BY DEF LinkRight
<1>3. l2.forward[n][i] = k /\ l2.span[n][i] = d
  OBVIOUS
<1>4. pos[n] > r \/ (k \in Present(l) /\ pos[k] <= r)
  OBVIOUS
<1> HIDE DEF k, d
<1>5. CASE k = Nil
  <2>1. pos[n] > r /\ np[n] = pos[n] + 1
    BY <1>1, <1>4, <1>5
  <2>2. d = l.length - pos[n] /\ \A j \in Present(l) : Height(l, j) >= i => pos[j] <= pos[n]
    BY <1>2, <1>5
  <2>3. d = l2.length - np[n]
    BY <1>1, <2>1, <2>2
  <2>4. ASSUME NEW j \in Present(l2), Height(l2, j) >= i PROVE np[j] <= np[n]
    BY <1>1, <2>1, <2>2, <2>4
  <2> QED
    BY <1>3, <1>5, <2>3, <2>4 DEF LinkRight
<1>6. CASE k # Nil
  <2>1. /\ k \in Present(l) /\ Height(l, k) >= i /\ pos[n] < pos[k] /\ d = pos[k] - pos[n]
        /\ \A j \in Present(l) : Height(l, j) >= i /\ pos[n] < pos[j] => pos[k] <= pos[j]
    BY <1>2, <1>6
  <2>2. /\ pos[k] \in Int /\ pos[n] \in Int /\ k \in Present(l2) /\ Height(l2, k) >= i
        /\ np[k] = IF pos[k] > r THEN pos[k] + 1 ELSE pos[k]
        /\ np[n] = IF pos[n] > r THEN pos[n] + 1 ELSE pos[n]
    BY <1>1, <2>1
  <2>3. np[n] < np[k] /\ d = np[k] - np[n]
    BY <1>1, <1>4, <2>1, <2>2
  <2>4. ASSUME NEW j \in Present(l2), Height(l2, j) >= i, np[n] < np[j] PROVE np[k] <= np[j]
    <3>1. CASE j = x
      BY <1>1, <1>4, <2>1, <2>2, <2>4, <3>1
    <3>2. CASE j \in Present(l)
      <4>1. /\ np[j] = IF pos[j] > r THEN pos[j] + 1 ELSE pos[j]
            /\ pos[j] \in Int /\ Height(l, j) >= i
        BY <1>1, <2>4, <3>2
      <4>2. pos[n] < pos[j]
        BY <1>1, <2>2, <2>4, <4>1
      <4>3. pos[k] <= pos[j]
        BY <2>1, <3>2, <4>1, <4>2
      <4> QED
        BY <1>1, <2>2, <4>1, <4>3
    <3> QED
      BY <1>1, <3>1, <3>2
  <2> QED
    BY <1>3, <2>2, <2>3, <2>4 DEF LinkRight
<1> QED
  BY <1>5, <1>6

\* a link that leads over x because x is not tall enough for it
LEMMA LinkOver ==
    ASSUME NEW l, NEW pos, NEW x, NEW r, NEW h, NEW l2, NEW np, Grown(l, pos, x, r, h, l2, np),
           NEW n \in Stand(l), NEW i \in Nat, LinkRight(l, pos, n, i), h < i,
           l2.forward[n][i] = l.forward[n][i], l2.span[n][i] = l.span[n][i] + 1,
           pos[n] <= r, l.forward[n][i] \in Present(l) => pos[l.forward[n][i]] > r
    PROVE  LinkRight(l2, np, n, i)
<1> DEFINE k == l.forward[n][i]
           d == l.span[n][i]
<1>1. /\ np[x] = r + 1 /\ r \in 0..l.length /\ l.length \in Nat
      /\ \A j \in Stand(l) : /\ np[j] = IF pos[j] > r THEN pos[j] + 1 ELSE pos[j]
                             /\ pos[j] \in Int /\ j # x /\ Height(l2, j) = Height(l, j)
      /\ l2.length = l.length + 1 /\ Height(l2, x) = h /\ h \in Nat
      /\ Present(l2) = Present(l) \cup {x} /\ Present(l) \subseteq Stand(l)
  BY DEF Grown, Shifts, Stand
<1>2. \/ /\ k = Nil /\ d = l.length - pos[n]
         /\ \A j \in Present(l) : Height(l, j) >= i => pos[j] <= pos[n]
      \/ /\ k \in Present(l) /\ Height(l, k) >= i /\ pos[n] < pos[k] /\ d = pos[k] - pos[n]
         /\ \A j \in Present(l) : Height(l, j) >= i /\ pos[n] < pos[j] => pos[k] <= pos[j]
  BY DEF LinkRight
<1>3. l2.forward[n][i] = k /\ l2.span[n][i] = d + 1
  OBVIOUS
<1>4. pos[n] <= r /\ (k \in Present(l) => pos[k] > r)
  OBVIOUS
<1> HIDE DEF k, d
<1>5. np[n] = pos[n] /\ pos[n] \in Int
  BY <1>1, <1>4
<1>6. CASE /\ k = Nil /\ d = l.length - pos[n]
           /\ \A j \in Present(l) : Height(l, j) >= i => pos[j] <= pos[n]
  <2>1. d + 1 = l2.length - np[n]
    BY <1>1, <1>5, <1>6
  <2>2. ASSUME NEW j \in Present(l2), Height(l2, j) >= i PROVE np[j] <= np[n]
    BY <1>1, <1>4, <1>5, <1>6, <2>2
  <2> QED
    BY <1>3, <1>6, <2>1, <2>2 DEF LinkRight
<1>7. CASE /\ k \in Present(l) /\ Height(l, k) >= i /\ pos[n] < pos[k] /\ d = pos[k] - pos[n]
           /\ \A j \in Present(l) : Height(l, j) >= i /\ pos[n] < pos[j] => pos[k] <= pos[j]
  <2>1. /\ np[k] = pos[k] + 1 /\ pos[k] \in Int /\ k \in Present(l2) /\ Height(l2, k) >= i
    BY <1>1, <1>4, <1>7
  <2>2. np[n] < np[k] /\ d + 1 = np[k] - np[n]
    BY <1>5, <1>7, <2>1
  <2>3. ASSUME NEW j \in Present(l2), Height(l2, j) >= i, np[n] < np[j] PROVE np[k] <= np[j]
    <3>1. j \in Present(l) /\ Height(l, j) >= i
      BY <1>1, <2>3
    <3>2. pos[n] < pos[j] /\ pos[j] \in Int
      BY <1>1, <1>4, <1>5, <2>3, <3>1
    <3>3. pos[k] <= pos[j]
      BY <1>7, <3>1, <3>2
    <3> QED
      BY <1>1, <1>4, <1>7, <2>1, <3>1, <3>2, <3>3
  <2> QED
    BY <1>3, <2>1, <2>2, <2>3 DEF LinkRight
<1> QED
  BY <1>2, <1>6, <1>7

\* the link to x
LEMMA LinkTo ==
    ASSUME NEW l, NEW pos, NEW x, NEW r, NEW h, NEW l2, NEW np, Grown(l, pos, x, r, h, l2, np),
           NEW n \in Stand(l), NEW i \in Nat, i <= h,
           NEW p, NEW next, NEW span, Cut(l, pos, r, i, n, p, next, span),
           l2.forward[n][i] = x, l2.span[n][i] = r - p + 1
    PROVE  LinkRight(l2, np, n, i)
<1>1. /\ np[x] = r + 1 /\ r \in 0..l.length /\ l.length \in Nat
      /\ \A j \in Stand(l) : /\ np[j] = IF pos[j] > r THEN pos[j] + 1 ELSE pos[j]
                             /\ pos[j] \in Int /\ j # x /\ Height(l2, j) = Height(l, j)
      /\ Height(l2, x) = h /\ h \in Nat
      /\ Present(l2) = Present(l) \cup {x} /\ Present(l) \subseteq Stand(l)
  BY DEF Grown, Shifts, Stand
<1>2. /\ p = pos[n] /\ p \in 0..r
      /\ \A j \in Present(l) : Height(l, j) >= i /\ pos[j] <= r => pos[j] <= p
  BY DEF Cut
<1>3. np[n] = p /\ x \in Present(l2) /\ Height(l2, x) >= i
  BY <1>1, <1>2
<1>4. np[n] < np[x] /\ r - p + 1 = np[x] - np[n]
  BY <1>1, <1>2, <1>3
<1>5. ASSUME NEW j \in Present(l2), Height(l2, j) >= i, np[n] < np[j] PROVE np[x] <= np[j]
  BY <1>1, <1>2, <1>3, <1>5
<1> QED
  BY <1>3, <1>4, <1>5 DEF LinkRight

\* the links of x
LEMMA LinkFrom ==
    ASSUME NEW l, NEW pos, NEW x, NEW r, NEW h, NEW l2, NEW np, Grown(l, pos, x, r, h, l2, np),
           NEW i \in Nat,
           NEW u, NEW p, NEW next, NEW span, Cut(l, pos, r, i, u, p, next, span),
           l2.forward[x][i] = next, l2.span[x][i] = NewSpan(l, span, r - p, r)
    PROVE  LinkRight(l2, np, x, i)
<1>1. /\ np[x] = r + 1 /\ r \in 0..l.length /\ l.length \in Nat
      /\ \A j \in Stand(l) : /\ np[j] = IF pos[j] > r THEN pos[j] + 1 ELSE pos[j]
                             /\ pos[j] \in Int /\ j # x /\ Height(l2, j) = Height(l, j)
      /\ l2.length = l.length + 1
      /\ Present(l2) = Present(l) \cup {x} /\ Present(l) \subseteq Stand(l)
  BY DEF Grown, Shifts, Stand
<1>2. p = pos[u] /\ p \in 0..r
  BY DEF Cut
<1>3. l2.span[x][i] = IF span # 0 THEN span - (r - p) ELSE l.length - r
  BY DEF NewSpan
<1>4. CASE /\ next = Nil /\ span = l.length - p
           /\ \A j \in Present(l) : Height(l, j) >= i => pos[j] <= p
  <2>1. l2.span[x][i] = l2.length - np[x]
    BY <1>1, <1>2, <1>3, <1>4
  <2>2. ASSUME NEW j \in Present(l2), Height(l2, j) >= i PROVE np[j] <= np[x]
    BY <1>1, <1>2, <1>4, <2>2
  <2> QED
    BY <1>4, <2>1, <2>2 DEF LinkRight
<1>5. CASE /\ next \in Present(l) /\ Height(l, next) >= i /\ pos[next] > r
           /\ span = pos[next] - p
           /\ \A j \in Present(l) : Height(l, j) >= i /\ pos[j] > p => pos[next] <= pos[j]
  <2>1. /\ np[next] = pos[next] + 1 /\ pos[next] \in Int /\ next \in Present(l2)
        /\ Height(l2, next) >= i
    BY <1>1, <1>5
  <2>2. np[x] < np[next] /\ l2.span[x][i] = np[next] - np[x]
    BY <1>1, <1>2, <1>3, <1>5, <2>1
  <2>3. ASSUME NEW j \in Present(l2), Height(l2, j) >= i, np[x] < np[j] PROVE np[next] <= np[j]
    <3>1. j \in Present(l) /\ Height(l, j) >= i /\ pos[j] \in Int
      BY <1>1, <2>3
    <3>2. pos[j] > r /\ np[j] = pos[j] + 1
      BY <1>1, <2>3, <3>1
    <3>3. pos[next] <= pos[j]
      BY <1>1, <1>2, <1>5, <3>1, <3>2
    <3> QED
      BY <2>1, <3>1, <3>2, <3>3
  <2> QED
    BY <2>1, <2>2, <2>3 DEF LinkRight
<1> QED
  BY <1>4, <1>5 DEF Cut

LEMMA InsertLinks ==
    ASSUME NEW l, NEW pos, NEW s, NEW m, NEW h, NEW at, NEW x, NEW r,
           Inserting(l, pos, s, m, h, at, x, r),
           NEW l2, l2.forward = InsertedForward(l, at, x, h), l2.span = InsertedSpan(l, at, x, h),
           l2.level = Top(l, h),
           NEW np, Grown(l, pos, x, r, h, l2, np)
    PROVE  Links(l2, np)
<1>1. /\ r \in 0..l.length /\ l.length \in Nat /\ l.level \in 1..MaxLevel
      /\ MaxLevel \in Nat /\ h \in 1..MaxLevel
      /\ Top(l, h) \in 1..MaxLevel /\ Top(l, h) >= h /\ Top(l, h) >= l.level
      /\ Top(l, h) = h \/ Top(l, h) = l.level
  BY InsertCut
<1>2. \A j \in Present(l) : Height(l, j) \in 1..l.level /\ j \in Stand(l) /\ pos[j] \in 1..l.length
  BY SpotIs DEF Inserting, Good, Heights, Stand
<1>3. /\ Height(l, Header) = MaxLevel /\ Header \in Stand(l) /\ pos[Header] = 0
      /\ Nil \notin Present(l)
      /\ \A j \in Stand(l) : pos[j] \in Int /\ pos[j] >= 0 /\ Height(l, j) \in Int
  <2>1. Height(l, Header) = MaxLevel /\ Header \in Stand(l) /\ pos[Header] = 0
    BY DEF Inserting, Good, Heights, Stand, Numbered
  <2>2. \A j \in Stand(l) : pos[j] \in Int /\ pos[j] >= 0 /\ Height(l, j) \in Int
    BY <1>1, <1>2, <2>1 DEF Stand
  <2> QED
    BY <2>1, <2>2, NodeFacts DEF Present
<1>4. ASSUME NEW i \in 1..Top(l, h), i <= h PROVE LinkRight(l2, np, x, i)
  <2> DEFINE u == Update(l, at, i)
             p == UpdatePos(l, at, i)
             next == l.forward[u][i]
             span == OldSpan(l, at, i)
  <2>1. i \in 1..MaxLevel /\ i \in 1..h /\ i \in Nat
    BY <1>1, <1>4
  <2>2. Cut(l, pos, r, i, u, p, next, span)
    BY <2>1, InsertCut
  <2>3. l2.forward[x][i] = next /\ l2.span[x][i] = NewSpan(l, span, r - p, r)
    BY <2>1, InsertCellNew
  <2> HIDE DEF u, p, next, span
  <2> QED
    BY <2>1, <2>2, <2>3, LinkFrom
<1>5. ASSUME NEW n \in Stand(l), NEW i \in 1..Top(l, h), i <= Height(l, n)
      PROVE  LinkRight(l2, np, n, i)
  <2> DEFINE u == Update(l, at, i)
             p == UpdatePos(l, at, i)
             next == l.forward[u][i]
             span == OldSpan(l, at, i)
  <2>1. i \in 1..MaxLevel /\ i \in Nat /\ ~(i > Top(l, h))
    BY <1>1
  <2>2. /\ Cut(l, pos, r, i, u, p, next, span)
        /\ i > l.level => \A j \in Present(l) : Height(l, j) < i
    BY <2>1, InsertCut
  <2>3. /\ l2.forward[n][i] = IF i <= h /\ n = u THEN x ELSE l.forward[n][i]
        /\ l2.span[n][i] = IF n # u THEN l.span[n][i]
                           ELSE IF i <= h THEN r - p + 1 ELSE l.span[n][i] + 1
    BY <1>5, <2>1, InsertCell
  <2>4. u \in Stand(l) /\ p = pos[u] /\ p \in 0..r
    BY <2>2 DEF Cut
  <2>5. i > l.level => n = Header /\ u = Header
    <3>1. i > l.level => ~(n \in Present(l))
      BY <1>2, <1>5, <2>2
    <3>2. i > l.level => u = Header
      <4>1. i > l.level => ~(i <= l.level)
        BY <1>1, <2>1
      <4> QED
        BY <4>1 DEF Update
    <3>3. n \in Present(l) \/ n = Header
      BY DEF Stand
    <3> QED
      BY <3>1, <3>2, <3>3
  <2>6. n # u => LinkRight(l, pos, n, i)
    <3>1. ASSUME n # u PROVE LinkRight(l, pos, n, i)
      <4>1. i \in 1..l.level
        BY <1>1, <2>1, <2>5, <3>1
      <4> QED
        BY <1>5, <4>1 DEF Inserting, Good, Links
    <3> QED
      BY <3>1
  <2>7. CASE n = u /\ i <= h
    <3>1. l2.forward[n][i] = x /\ l2.span[n][i] = r - p + 1
      BY <2>3, <2>7
    <3>2. Cut(l, pos, r, i, n, p, next, span)
      BY <2>2, <2>7
    <3> HIDE DEF u, p, next, span
    <3> QED
      BY <2>1, <2>7, <3>1, <3>2, LinkTo
  <2>8. CASE n = u /\ ~(i <= h)
    <3>1. i \in 1..l.level /\ h < i
      BY <1>1, <2>8
    <3>2. LinkRight(l, pos, n, i)
      BY <1>5, <3>1 DEF Inserting, Good, Links
    <3>3. l2.forward[n][i] = l.forward[n][i] /\ l2.span[n][i] = l.span[n][i] + 1
      BY <2>3, <2>8
    <3>4. pos[n] <= r
      BY <1>1, <2>4, <2>8
    <3>5. next = l.forward[n][i]
      BY <2>8
    <3>6. l.forward[n][i] \in Present(l) => pos[l.forward[n][i]] > r
      <4> DEFINE k == l.forward[n][i]
      <4>1. Cut(l, pos, r, i, u, p, k, span)
        BY <2>2, <3>5
      <4> HIDE DEF k, u, p, next, span
      <4>2. k \in Present(l) => pos[k] > r
        BY <1>3, <4>1 DEF Cut
      <4> QED
        BY <4>2 DEF k
    <3> QED
      BY <2>1, <3>1, <3>2, <3>3, <3>4, <3>6, LinkOver
  <2>9. CASE n # u
    <3>1. l2.forward[n][i] = l.forward[n][i] /\ l2.span[n][i] = l.span[n][i]
      BY <2>3, <2>9
    <3>2. LinkRight(l, pos, n, i)
      BY <2>6, <2>9
    <3>3. pos[n] # p
      <4>1. pos[n] = pos[u] => n = u
        BY <1>2, <1>3, <2>4 DEF Inserting, Good, Numbered, Stand
      <4> QED
        BY <2>4, <2>9, <4>1
    <3>4. pos[n] > r \/ (l.forward[n][i] \in Present(l) /\ pos[l.forward[n][i]] <= r)
      <4>1. CASE pos[n] > p
        <5>1. n \in Present(l)
          BY <1>1, <1>3, <2>4, <4>1 DEF Stand
        <5>2. pos[n] <= r => pos[n] <= p
          <6>1. Height(l, n) >= i
            BY <1>2, <1>5, <5>1
          <6> HIDE DEF u, p, next, span
          <6> QED
            BY <2>2, <5>1, <6>1 DEF Cut
        <5> QED
          BY <1>1, <1>3, <2>4, <4>1, <5>2
      <4>2. CASE ~(pos[n] > p)
        <5>1. pos[n] < p
          BY <1>1, <1>3, <2>4, <3>3, <4>2
        <5>2. u \in Present(l) /\ Height(l, u) >= i
          <6>1. u # Header
            BY <1>3, <2>4, <5>1
          <6> HIDE DEF u, p, next, span
          <6> QED
            BY <2>2, <2>4, <6>1 DEF Cut, Stand
        <5> DEFINE k == l.forward[n][i]
        <5>3. k \in Present(l) /\ pos[k] <= pos[u]
          <6> HIDE DEF u, p, next, span
          <6>1. pos[n] < pos[u] /\ ~(pos[u] <= pos[n])
            BY <1>3, <2>4, <5>1
          <6> QED
            BY <3>2, <5>2, <6>1 DEF LinkRight
        <5>4. pos[k] <= r
          <6> HIDE DEF u, p, next, span, k
          <6> QED
            BY <1>1, <1>2, <2>4, <5>3
        <5> QED
          BY <5>3, <5>4
      <4> QED
        BY <4>1, <4>2
    <3> QED
      BY <1>3, <2>1, <3>1, <3>2, <3>4, LinkBeside
  <2> QED
    BY <2>7, <2>8, <2>9
<1>6. /\ Stand(l2) = Stand(l) \cup {x} /\ Height(l2, x) = h
      /\ \A n \in Stand(l) : Height(l2, n) = Height(l, n)
  BY DEF Grown
<1> QED
  BY <1>4, <1>5, <1>6 DEF Links

\* on the lowest level the node behind the position r has position r + 1
LEMMA CutAtBottom ==
    ASSUME NEW l, NEW pos, Numbered(l, pos), Heights(l), NEW r \in 0..l.length,
           NEW u, NEW p, NEW next, NEW span, Cut(l, pos, r, 1, u, p, next, span)
    PROVE  /\ p = r /\ u \in Stand(l) /\ pos[u] = r
           /\ \/ next = Nil /\ r = l.length
              \/ next \in Present(l) /\ pos[next] = r + 1 /\ r < l.length
<1>1. /\ l.length \in Nat
      /\ \A j \in Present(l) : pos[j] \in 1..l.length /\ Height(l, j) >= 1
      /\ \A q \in 1..l.length : \E n \in Present(l) : pos[n] = q
      /\ pos[Header] = 0
  <2>1. \A j \in Present(l) : pos[j] \in 1..l.length
    BY SpotIs DEF Stand
  <2>2. \A j \in Present(l) : Height(l, j) >= 1
    BY BoundsAssumption DEF Heights
  <2> QED
    BY <2>1, <2>2 DEF Numbered
<1>2. p = r
  <2>1. p = pos[u] /\ p \in 0..r
    BY DEF Cut
  <2>2. CASE r = 0
    BY <2>1, <2>2
  <2>3. CASE r # 0
    <3>1. PICK j \in Present(l) : pos[j] = r
      BY <1>1, <2>3
    <3>2. r <= p
      BY <1>1, <3>1 DEF Cut
    <3> QED
      BY <2>1, <3>2
  <2> QED
    BY <2>2, <2>3
<1>3. u \in Stand(l) /\ pos[u] = r
  BY <1>2 DEF Cut
<1>4. CASE next = Nil /\ \A j \in Present(l) : Height(l, j) >= 1 => pos[j] <= p
  <2>1. CASE r = l.length
    BY <1>2, <1>3, <1>4, <2>1
  <2>2. CASE r # l.length
    <3>1. l.length \in 1..l.length
      BY <1>1, <2>2
    <3>2. PICK j \in Present(l) : pos[j] = l.length
      BY <1>1, <3>1
    <3> QED
      BY <1>1, <1>2, <1>4, <2>2, <3>2
  <2> QED
    BY <2>1, <2>2
<1>5. CASE /\ next \in Present(l) /\ pos[next] > r
           /\ \A j \in Present(l) : Height(l, j) >= 1 /\ pos[j] > p => pos[next] <= pos[j]
  <2>1. r + 1 \in 1..l.length /\ r < l.length
    BY <1>1, <1>5
  <2>2. PICK j \in Present(l) : pos[j] = r + 1
    BY <1>1, <2>1
  <2>3. pos[next] <= r + 1
    BY <1>1, <1>2, <1>5, <2>2
  <2>4. pos[next] = r + 1
    BY <1>1, <1>5, <2>3
  <2> QED
    BY <1>2, <1>3, <1>5, <2>1, <2>4
<1> QED
  BY <1>4, <1>5 DEF Cut

LEMMA InsertBacks ==
    ASSUME NEW l, NEW pos, NEW s, NEW m, NEW h, NEW at, NEW x, NEW r,
           Inserting(l, pos, s, m, h, at, x, r),
           NEW l2, l2.backward = InsertedBackward(l, at, x),
           l2.tail = TailAfterInsert(l, x, l.forward[Update(l, at, 1)][1]),
           NEW np, Grown(l, pos, x, r, h, l2, np)
    PROVE  Backs(l2, np)
<1> DEFINE u == Update(l, at, 1)
           p == UpdatePos(l, at, 1)
           next == l.forward[u][1]
           span == OldSpan(l, at, 1)
<1>1. /\ np[x] = r + 1 /\ r \in 0..l.length /\ l.length \in Nat
      /\ \A j \in Stand(l) : /\ np[j] = IF pos[j] > r THEN pos[j] + 1 ELSE pos[j]
                             /\ pos[j] \in Int /\ j # x
      /\ l2.length = l.length + 1
      /\ Present(l2) = Present(l) \cup {x} /\ Present(l) \subseteq Stand(l)
      /\ \A j \in Present(l) : pos[j] \in 1..l.length /\ j \in Entries
      /\ Header \in Stand(l) /\ pos[Header] = 0
  BY DEF Grown, Shifts, Stand, Present
<1>2. /\ u \in Stand(l) /\ pos[u] = r
      /\ \/ next = Nil /\ r = l.length
         \/ next \in Present(l) /\ pos[next] = r + 1 /\ r < l.length
  <2>1. 1 \in 1..MaxLevel
    BY BoundsAssumption
  <2>2. Cut(l, pos, r, 1, u, p, next, span)
    BY <2>1, InsertCut
  <2>3. Numbered(l, pos) /\ Heights(l)
    BY DEF Inserting, Good
  <2> HIDE DEF u, p, next, span
  <2> QED
    BY <1>1, <2>2, <2>3, CutAtBottom
<1>3. l2.tail = IF next = Nil THEN x ELSE l.tail
  BY DEF TailAfterInsert
<1>4. \A n \in Entries : l2.backward[n] = IF n = x THEN (IF u = Header THEN Nil ELSE u)
                                          ELSE IF n = next THEN x ELSE l.backward[n]
  BY DEF InsertedBackward
<1>5. /\ \A n \in Present(l) :
            \/ pos[n] = 1 /\ l.backward[n] = Nil
            \/ l.backward[n] \in Present(l) /\ pos[l.backward[n]] = pos[n] - 1
      /\ \/ l.length = 0 /\ l.tail = Nil
         \/ l.tail \in Present(l) /\ pos[l.tail] = l.length
      /\ \A a, b \in Present(l) : pos[a] = pos[b] => a = b
  BY DEF Inserting, Good, Backs, Numbered
<1>6. x \in Entries /\ Nil \notin Present(l)
  BY NewNode, NodeFacts DEF Present
<1> HIDE DEF u, p, next, span
<1>7. ASSUME NEW n \in Present(l2)
      PROVE  \/ np[n] = 1 /\ l2.backward[n] = Nil
             \/ l2.backward[n] \in Present(l2) /\ np[l2.backward[n]] = np[n] - 1
  <2>1. CASE n = x
    <3>1. CASE u = Header
      BY <1>1, <1>2, <1>4, <1>6, <2>1, <3>1
    <3>2. CASE u # Header
      <4>1. u \in Present(l)
        BY <1>2, <3>2 DEF Stand
      <4>2. l2.backward[n] = u /\ np[u] = r /\ np[n] = r + 1
        BY <1>1, <1>2, <1>4, <1>6, <2>1, <3>2
      <4> QED
        BY <1>1, <4>1, <4>2
    <3> QED
      BY <3>1, <3>2
  <2>2. CASE n # x /\ n = next
    <3>1. n \in Present(l) /\ pos[n] = r + 1
      BY <1>1, <1>2, <1>6, <2>2
    <3>2. l2.backward[n] = x /\ np[n] = (r + 1) + 1
      BY <1>1, <1>4, <2>2, <3>1
    <3> QED
      BY <1>1, <3>2
  <2>3. CASE n # x /\ n # next
    <3>1. n \in Present(l) /\ l2.backward[n] = l.backward[n]
      BY <1>1, <1>4, <2>3
    <3>2. pos[n] # r + 1
      <4>1. CASE next = Nil /\ r = l.length
        BY <1>1, <3>1, <4>1
      <4>2. CASE next \in Present(l) /\ pos[next] = r + 1
        BY <1>5, <2>3, <3>1, <4>2
      <4> QED
        BY <1>2, <4>1, <4>2
    <3>3. CASE pos[n] = 1 /\ l.backward[n] = Nil
      <4>1. np[n] = 1
        BY <1>1, <3>1, <3>2, <3>3
      <4> QED
        BY <3>1, <3>3, <4>1
    <3>4. CASE l.backward[n] \in Present(l) /\ pos[l.backward[n]] = pos[n] - 1
      <4> DEFINE b == l.backward[n]
      <4>1. l2.backward[n] = b /\ b \in Present(l) /\ pos[b] = pos[n] - 1
        BY <3>1, <3>4
      <4> HIDE DEF b
      <4>2. np[b] = np[n] - 1
        BY <1>1, <3>1, <3>2, <4>1
      <4> QED
        BY <1>1, <4>1, <4>2
    <3> QED
      BY <1>5, <3>1, <3>3, <3>4
  <2> QED
    BY <2>1, <2>2, <2>3
<1>8. l2.tail \in Present(l2) /\ np[l2.tail] = l2.length
  <2>1. CASE next = Nil
    BY <1>1, <1>2, <1>3, <1>6, <2>1
  <2>2. CASE next # Nil
    <3>1. l2.tail = l.tail /\ r < l.length
      BY <1>2, <1>3, <2>2
    <3>2. l.tail \in Present(l) /\ pos[l.tail] = l.length
      BY <1>1, <1>5, <3>1
    <3> QED
      BY <1>1, <3>1, <3>2
  <2> QED
    BY <2>1, <2>2
<1> QED
  BY <1>7, <1>8 DEF Backs

\* l2 is the list l with one more node, which holds m with the score s
Inserted(l, s, m, l2) ==
    \E np, x :
       /\ Good(l2, np)
       /\ x \in Entries /\ Member(x) = m /\ x \notin Present(l)
       /\ Present(l2) = Present(l) \cup {x}
       /\ l2.score = [l.score EXCEPT ![x] = s]
       /\ FreeCopies(l, m) # {}

LEMMA InsertGood ==
    ASSUME NaNs = {}, NEW l, NEW pos, Good(l, pos), NEW s \in Numbers, NEW m \in Members,
           NEW h \in 1..MaxLevel, \A k \in Present(l) : Member(k) # m
    PROVE  Inserted(l, s, m, Insert(l, s, m, h))
<1> DEFINE at == Descend(l, Smaller(l, s, m))
           x == FreeNode(l, m)
           l2 == Insert(l, s, m, h)
<1>1. PICK r \in 0..l.length :
         /\ Marks(l, pos, Smaller(l, s, m), r)
         /\ \A k \in Present(l) : LessThan(l, k, s, m) <=> pos[k] <= r
  BY MembersAssumption, SmallerMarks
<1> DEFINE np == Shifted(l, pos, x, r)
<1>2. l \in Lists
  BY DEF Good
<1>3. /\ DOMAIN l2 = DOMAIN l
      /\ l2 = [f \in DOMAIN l |-> l2[f]]
      /\ l2.score = [l.score EXCEPT ![x] = s]
      /\ l2.forward = InsertedForward(l, at, x, h)
      /\ l2.span = InsertedSpan(l, at, x, h)
      /\ l2.backward = InsertedBackward(l, at, x)
      /\ l2.tail = TailAfterInsert(l, x, l.forward[Update(l, at, 1)][1])
      /\ l2.level = Top(l, h)
      /\ l2.length = l.length + 1
  <2>1. InsertAssigns(l, at, x, s, h, l2)
    BY <1>2, InsertFields
  <2> HIDE DEF at, x, l2
  <2> QED
    BY <2>1 DEF InsertAssigns
<1>4. Inserting(l, pos, s, m, h, at, x, r)
  BY <1>1 DEF Inserting
<1> HIDE DEF at, x, l2, np
<1>5. x \in Entries /\ x \notin Present(l) /\ x # Header /\ Member(x) = m /\ FreeCopies(l, m) # {}
  BY <1>4, NewNode
<1>6. /\ Present(l2) = Present(l) \cup {x} /\ Stand(l2) = Stand(l) \cup {x}
      /\ Height(l2, x) = h
      /\ \A n \in Stand(l) : Height(l2, n) = Height(l, n) /\ n # x
  BY <1>3, <1>4, InsertStand
<1>7. Shifts(l, pos, x, r, np)
  BY <1>4, ShiftedIs DEF np
<1>8. Grown(l, pos, x, r, h, l2, np)
  <2>1. h \in Nat
    BY BoundsAssumption
  <2> QED
    BY <1>3, <1>6, <1>7, <2>1 DEF Grown
<1>9. Links(l2, np)
  BY <1>3, <1>4, <1>8, InsertLinks
<1>10. Backs(l2, np)
  BY <1>3, <1>4, <1>8, InsertBacks
<1>11. Numbered(l2, np)
  BY <1>3, <1>4, <1>6, InsertNumbers DEF np
<1>12. /\ l.level \in 1..MaxLevel /\ Top(l, h) \in 1..MaxLevel /\ Top(l, h) >= h
       /\ Top(l, h) >= l.level /\ MaxLevel \in Nat /\ l.length \in Nat
  BY <1>4, InsertCut
<1>13. Heights(l2)
  <2>1. Height(l2, Header) = MaxLevel
    BY <1>6 DEF Good, Heights, Stand
  <2>2. ASSUME NEW n \in Present(l2) PROVE Height(l2, n) \in 1..l2.level
    <3>1. CASE n = x
      BY <1>3, <1>6, <1>12, <3>1
    <3>2. CASE n \in Present(l)
      <4>1. Height(l2, n) = Height(l, n) /\ Height(l, n) \in 1..l.level
        BY <1>6, <3>2 DEF Good, Heights, Stand
      <4> QED
        BY <1>3, <1>12, <4>1
    <3> QED
      BY <1>6, <3>1, <3>2
  <2> QED
    BY <1>3, <1>12, <2>1, <2>2 DEF Heights
<1>14. \A n \in Nodes : /\ l2.forward[n] \in Seq(Entries \cup {Nil}) /\ l2.span[n] \in Seq(Int)
                        /\ Len(l2.span[n]) = Len(l2.forward[n])
  BY <1>3, <1>4, InsertRows DEF Height
<1>15. Rows(l2)
  <2>1. ASSUME NEW i \in 1..MaxLevel, i > l2.level PROVE l2.forward[Header][i] = Nil
    <3>1. i > l.level /\ ~(i <= h)
      BY <1>3, <1>12, <2>1
    <3>2. l.forward[Header][i] = Nil
      BY <3>1 DEF Good, Rows
    <3>3. Header \in Stand(l) /\ i <= Height(l, Header)
      BY <1>12 DEF Stand, Good, Heights
    <3>4. l2.forward[Header][i] = IF i <= h /\ Header = Update(l, at, i) THEN x
                                  ELSE l.forward[Header][i]
      BY <1>3, <1>4, <3>3, InsertCell
    <3> QED
      BY <3>1, <3>2, <3>4
  <2> QED
    BY <1>14, <2>1 DEF Rows
<1>16. l2 \in Lists
  <2>1. l2.score \in [Entries -> Numbers \cup {None}]
    BY <1>2, <1>3, <1>5 DEF Lists
  <2>2. l2.forward \in [Nodes -> Seq(Entries \cup {Nil})]
    BY <1>3, <1>14 DEF InsertedForward
  <2>3. l2.span \in [Nodes -> Seq(Int)]
    BY <1>3, <1>14 DEF InsertedSpan
  <2>4. l2.tail \in Entries \cup {Nil}
    BY <1>10 DEF Backs, Present
  <2>5. l2.backward \in [Entries -> Entries \cup {Nil}]
    <3>1. Update(l, at, 1) \in Entries \cup {Header}
      <4>1. 1 \in 1..MaxLevel
        BY BoundsAssumption
      <4>2. Update(l, at, 1) \in Stand(l)
        BY <1>4, <4>1, InsertCut DEF Cut
      <4> QED
        BY <4>2 DEF Stand, Present
    <3>2. \A n \in Entries : l.backward[n] \in Entries \cup {Nil}
      BY <1>2 DEF Lists
    <3> QED
      BY <1>3, <1>5, <3>1, <3>2 DEF InsertedBackward
  <2>6. l2.level \in 1..MaxLevel /\ l2.length \in Nat
    BY <1>3, <1>12
  <2>7. DOMAIN l2 = {"score", "forward", "span", "backward", "tail", "level", "length"}
    BY <1>2, <1>3 DEF Lists
  <2>8. l2 = [f \in {"score", "forward", "span", "backward", "tail", "level", "length"} |-> l2[f]]
    BY <1>3, <2>7
  <2> QED
    BY <2>1, <2>2, <2>3, <2>4, <2>5, <2>6, <2>7, <2>8 DEF Lists
<1>17. Named(l2) /\ Sorted(l2, np)
  <2>1. np = Shifted(l, pos, x, r)
    BY DEF np
  <2>2. Present(l2) = Present(l) \cup {x} /\ l2.score = [l.score EXCEPT ![x] = s]
    BY <1>3, <1>6
  <2> QED
    BY ONLY <1>4, <1>16, <2>1, <2>2, InsertSorted
<1>18. Good(l2, np)
  BY <1>9, <1>10, <1>11, <1>13, <1>15, <1>16, <1>17 DEF Good
<1> QED
  BY <1>3, <1>5, <1>6, <1>18 DEF l2, Inserted

-----------------------------------------------------------------------------
(***************************************************************************)
(* A deletion.                                                             *)
(***************************************************************************)
\* t, which holds m with the score s, is behind r nodes
Deleting(l, pos, s, m, at, t, r) ==
    /\ Good(l, pos)
    /\ at = Descend(l, Smaller(l, s, m))
    /\ Marks(l, pos, Smaller(l, s, m), r)
    /\ t \in Present(l) /\ Member(t) = m /\ l.score[t] = s
    /\ t = l.forward[at[1].node][1]
    /\ pos[t] = r + 1

LEMMA DeleteFinds ==
    ASSUME NaNs = {}, NEW l, NEW pos, Good(l, pos), NEW t \in Present(l), NEW s, s = l.score[t],
           NEW m, m = Member(t), NEW at, at = Descend(l, Smaller(l, s, m))
    PROVE  \E r \in 0..l.length : Deleting(l, pos, s, m, at, t, r)
<1>1. l \in Lists /\ Named(l) /\ Sorted(l, pos) /\ Numbered(l, pos) /\ Heights(l)
  BY DEF Good
<1>2. s \in Numbers /\ s \in Int /\ m \in Nat /\ ~LessThan(l, t, s, m)
  <2>1. l.score[t] \in Int /\ l.score[t] \in Numbers /\ Member(t) \in Nat
    <3>1. \E v \in Numbers : TRUE
      BY <1>1 DEF Lists, Named, Present
    <3> QED
      BY <1>1, <3>1, LessThanIs
  <2>2. LessThan(l, t, s, m) <=> l.score[t] < s \/ (l.score[t] = s /\ Member(t) < m)
    BY <1>1, <2>1, LessThanIs
  <2> QED
    BY <2>1, <2>2
<1>3. PICK r \in 0..l.length :
         /\ Marks(l, pos, Smaller(l, s, m), r)
         /\ \A k \in Present(l) : LessThan(l, k, s, m) <=> pos[k] <= r
  BY <1>2, SmallerMarks
<1> DEFINE u == at[1].node
           next == l.forward[u][1]
<1>4. /\ \/ next = Nil /\ r = l.length
         \/ next \in Present(l) /\ pos[next] = r + 1
  <2>1. 1 \in 1..MaxLevel /\ 1 <= l.level
    BY <1>1, BoundsAssumption DEF Heights
  <2> DEFINE v == Update(l, at, 1)
             p == UpdatePos(l, at, 1)
             n == l.forward[v][1]
             span == OldSpan(l, at, 1)
  <2>2. Cut(l, pos, r, 1, v, p, n, span)
    BY <1>3, <2>1, LevelCut
  <2>3. n = next
    BY <2>1 DEF Update
  <2> HIDE DEF v, p, n, span, next
  <2>4. \/ n = Nil /\ r = l.length
        \/ n \in Present(l) /\ pos[n] = r + 1 /\ r < l.length
    BY <1>1, <1>3, <2>2, CutAtBottom
  <2> QED
    BY <2>3, <2>4
<1> HIDE DEF next
<1>5. /\ \A k \in Present(l) : pos[k] \in 1..l.length
      /\ ~(pos[t] <= r) /\ l.length \in Nat
      /\ \A a, b \in Present(l) : pos[a] = pos[b] => a = b
  <2>1. \A k \in Present(l) : pos[k] \in 1..l.length
    BY <1>1, SpotIs DEF Stand
  <2> QED
    BY <1>1, <1>2, <1>3, <2>1 DEF Numbered
<1>6. next \in Present(l) /\ pos[next] = r + 1
  BY <1>4, <1>5
<1>7. next = t
  <2>1. pos[next] < pos[t] => LessThan(l, next, s, m)
    BY <1>1, <1>6 DEF Sorted
  <2>2. pos[next] < pos[t] => pos[next] <= r
    BY <1>3, <1>6, <2>1
  <2>3. pos[next] = pos[t]
    BY <1>5, <1>6, <2>2
  <2> QED
    BY <1>5, <1>6, <2>3
<1> QED
  BY <1>3, <1>6, <1>7 DEF Deleting, next

LEMMA DeleteCut ==
    ASSUME NEW l, NEW pos, NEW s, NEW m, NEW at, NEW t, NEW r, Deleting(l, pos, s, m, at, t, r)
    PROVE  /\ r \in 0..l.length /\ l.length \in Nat /\ l.level \in 1..MaxLevel /\ MaxLevel \in Nat
           /\ r < l.length
           /\ \A i \in 1..l.level :
                 Cut(l, pos, r, i, at[i].node, at[i].pos, l.forward[at[i].node][i],
                     l.span[at[i].node][i])
<1>1. r \in 0..l.length /\ l.length \in Nat /\ l.level \in 1..MaxLevel /\ MaxLevel \in Nat
  BY BoundsAssumption DEF Deleting, Marks, Good, Numbered, Heights
<1>2. r < l.length
  <2>1. pos[t] \in 1..l.length
    BY SpotIs DEF Deleting, Good, Stand
  <2> QED
    BY <1>1, <2>1 DEF Deleting
<1>3. ASSUME NEW i \in 1..l.level
      PROVE  Cut(l, pos, r, i, at[i].node, at[i].pos, l.forward[at[i].node][i],
                 l.span[at[i].node][i])
  <2>1. i \in 1..MaxLevel /\ i <= l.level
    BY <1>1
  <2>2. /\ Update(l, at, i) = at[i].node /\ UpdatePos(l, at, i) = at[i].pos
        /\ OldSpan(l, at, i) = l.span[at[i].node][i]
    BY <2>1 DEF Update, UpdatePos, OldSpan
  <2>3. Cut(l, pos, r, i, Update(l, at, i), UpdatePos(l, at, i),
            l.forward[Update(l, at, i)][i], OldSpan(l, at, i))
    BY <2>1, LevelCut DEF Deleting
  <2> QED
    BY <2>2, <2>3
<1> QED
  BY <1>1, <1>2, <1>3

LEMMA DeleteCell ==
    ASSUME NEW l, NEW pos, NEW s, NEW m, NEW at, NEW t, NEW r, Deleting(l, pos, s, m, at, t, r),
           NEW l2, l2.forward = DeletedForward(l, at, t), l2.span = DeletedSpan(l, at, t),
           NEW n \in Nodes \ {t}, NEW i \in 1..Height(l, n)
    PROVE  /\ l2.forward[n][i] = IF Skips(l, at, n, i) /\ l.forward[n][i] = t
                                 THEN l.forward[t][i] ELSE l.forward[n][i]
           /\ l2.span[n][i] = IF ~Skips(l, at, n, i) THEN l.span[n][i]
                              ELSE IF l.forward[n][i] = t THEN l.span[n][i] + l.span[t][i] - 1
                              ELSE l.span[n][i] - 1
<1>1. /\ l.forward[n] \in Seq(Entries \cup {Nil}) /\ l.span[n] \in Seq(Int)
      /\ Len(l.forward[n]) = Len(l.span[n]) /\ Len(l.forward[n]) \in Nat
  BY DEF Deleting, Good, Lists, Rows
<1>2. i \in DOMAIN l.forward[n] /\ i \in DOMAIN l.span[n]
  BY <1>1 DEF Height
<1>3. l2.forward[n] = [k \in DOMAIN l.forward[n] |->
                          IF Skips(l, at, n, k) /\ l.forward[n][k] = t THEN l.forward[t][k]
                          ELSE l.forward[n][k]]
  BY DEF DeletedForward
<1>4. l2.span[n] = [k \in DOMAIN l.span[n] |->
                       IF ~Skips(l, at, n, k) THEN l.span[n][k]
                       ELSE IF l.forward[n][k] = t THEN l.span[n][k] + l.span[t][k] - 1
                       ELSE l.span[n][k] - 1]
  BY DEF DeletedSpan
<1> QED
  BY <1>2, <1>3, <1>4

\* the levels of a node that is skipped to
LEMMA SkippedLevels ==
    ASSUME NEW l, NEW pos, NEW s, NEW m, NEW at, NEW t, NEW r, Deleting(l, pos, s, m, at, t, r),
           NEW n, NEW i \in Nat \ {0}, Skips(l, at, n, i), l.forward[n][i] = t
    PROVE  /\ i \in 1..Height(l, t) /\ Height(l, t) \in Nat
           /\ l.forward[t][i] \in Entries \cup {Nil} /\ l.span[t][i] \in Int
<1>1. i \in 1..l.level /\ n = at[i].node
  BY DeleteCut DEF Skips
<1>2. Cut(l, pos, r, i, n, at[i].pos, t, l.span[n][i])
  BY <1>1, DeleteCut
<1>3. t \in Entries /\ t # Nil /\ t \in Nodes
  BY NodeFacts DEF Deleting, Present
<1>4. Height(l, t) >= i
  BY <1>2, <1>3 DEF Cut
<1>5. /\ l.forward[t] \in Seq(Entries \cup {Nil}) /\ l.span[t] \in Seq(Int)
      /\ Len(l.forward[t]) = Len(l.span[t]) /\ Len(l.forward[t]) \in Nat
  BY <1>3 DEF Deleting, Good, Lists, Rows
<1>6. i \in 1..Height(l, t) /\ Height(l, t) \in Nat
  BY <1>4, <1>5 DEF Height
<1>7. l.forward[t][i] \in Entries \cup {Nil} /\ l.span[t][i] \in Int
  BY <1>5, <1>6 DEF Height
<1> QED
  BY <1>6, <1>7

LEMMA DeleteRows ==
    ASSUME NEW l, NEW pos, NEW s, NEW m, NEW at, NEW t, NEW r, Deleting(l, pos, s, m, at, t, r),
           NEW l2, l2.forward = DeletedForward(l, at, t), l2.span = DeletedSpan(l, at, t),
           NEW n \in Nodes
    PROVE  /\ l2.forward[n] \in Seq(Entries \cup {Nil}) /\ l2.span[n] \in Seq(Int)
           /\ Height(l2, n) = IF n = t THEN 0 ELSE Height(l, n)
           /\ Len(l2.span[n]) = Height(l2, n)
<1>1. CASE n = t
  <2>1. l2.forward[n] = <<>> /\ l2.span[n] = <<>>
    BY <1>1 DEF DeletedForward, DeletedSpan
  <2> QED
    BY <1>1, <2>1, EmptySeq DEF Height
<1>2. CASE n # t
  <2> DEFINE k == Len(l.forward[n])
  <2>1. /\ l.forward[n] \in Seq(Entries \cup {Nil}) /\ l.span[n] \in Seq(Int)
        /\ Len(l.forward[n]) = Len(l.span[n]) /\ k \in Nat
    BY DEF Deleting, Good, Lists, Rows
  <2>2. /\ \A i \in 1..k : l.forward[n][i] \in Entries \cup {Nil} /\ l.span[n][i] \in Int
        /\ DOMAIN l.forward[n] = 1..k /\ DOMAIN l.span[n] = 1..k
    BY <2>1
  <2>3. l2.forward[n] = [i \in 1..k |->
                            IF Skips(l, at, n, i) /\ l.forward[n][i] = t THEN l.forward[t][i]
                            ELSE l.forward[n][i]]
    BY <1>2, <2>2 DEF DeletedForward
  <2>4. l2.span[n] = [i \in 1..k |->
                         IF ~Skips(l, at, n, i) THEN l.span[n][i]
                         ELSE IF l.forward[n][i] = t THEN l.span[n][i] + l.span[t][i] - 1
                         ELSE l.span[n][i] - 1]
    BY <1>2, <2>2 DEF DeletedSpan
  <2> DEFINE f == l2.forward[n]
             g == l2.span[n]
  <2> HIDE DEF k
  <2>5. ASSUME NEW i \in 1..k, Skips(l, at, n, i), l.forward[n][i] = t
        PROVE  l.forward[t][i] \in Entries \cup {Nil} /\ l.span[t][i] \in Int
    <3>1. i \in Nat \ {0}
      BY <2>1
    <3> QED
      BY <2>5, <3>1, SkippedLevels
  <2>6. f \in [1..k -> Entries \cup {Nil}]
    BY <2>2, <2>3, <2>5
  <2>7. g \in [1..k -> Int]
    BY <2>2, <2>4, <2>5
  <2> HIDE DEF f, g
  <2>8. f \in Seq(Entries \cup {Nil}) /\ Len(f) = k
    BY <2>1, <2>6, RowIs
  <2>9. g \in Seq(Int) /\ Len(g) = k
    BY <2>1, <2>7, RowIs
  <2> QED
    BY <1>2, <2>8, <2>9 DEF f, g, k, Height
<1> QED
  BY <1>1, <1>2

LEMMA DeleteStand ==
    ASSUME NEW l, NEW pos, NEW s, NEW m, NEW at, NEW t, NEW r, Deleting(l, pos, s, m, at, t, r),
           NEW l2, l2.forward = DeletedForward(l, at, t), l2.span = DeletedSpan(l, at, t)
    PROVE  /\ Present(l2) = Present(l) \ {t} /\ Stand(l2) = Stand(l) \ {t}
           /\ \A n \in Stand(l2) : Height(l2, n) = Height(l, n)
           /\ t \in Entries /\ t # Header
<1>1. t \in Entries /\ t # Header
  BY NodeFacts DEF Deleting, Present
<1>2. ASSUME NEW n \in Entries PROVE n \in Present(l2) <=> n \in Present(l) /\ n # t
  <2>1. /\ l2.forward[n] \in Seq(Entries \cup {Nil})
        /\ Height(l2, n) = IF n = t THEN 0 ELSE Height(l, n)
    BY NodeFacts, DeleteRows
  <2>2. l.forward[n] \in Seq(Entries \cup {Nil})
    BY NodeFacts DEF Deleting, Good, Lists
  <2>3. n \in Present(l2) <=> Height(l2, n) # 0
    BY <2>1, PresentIs
  <2>4. n \in Present(l) <=> Height(l, n) # 0
    BY <2>2, PresentIs
  <2> QED
    BY <2>1, <2>3, <2>4
<1>3. Present(l2) = Present(l) \ {t}
  <2>1. Present(l2) \subseteq Entries /\ Present(l) \subseteq Entries
    BY DEF Present
  <2> QED
    BY <1>2, <2>1
<1>4. Stand(l2) = Stand(l) \ {t}
  BY <1>1, <1>3 DEF Stand
<1>5. ASSUME NEW n \in Stand(l2) PROVE Height(l2, n) = Height(l, n)
  <2>1. n \in Nodes /\ n # t
    BY <1>4, NodeFacts DEF Stand, Present
  <2> QED
    BY <2>1, DeleteRows
<1> QED
  BY <1>1, <1>3, <1>4, <1>5

\* the positions once t is gone
Closed(l, pos, t, r) == [n \in Stand(l) \ {t} |-> IF pos[n] > r THEN pos[n] - 1 ELSE pos[n]]

\* l2 has the nodes of l but t, the one behind the first r
Shrunk(l, pos, t, r, l2, np) ==
    /\ r \in 0..l.length /\ l.length \in Nat /\ r < l.length /\ pos[t] = r + 1
    /\ t \in Present(l) /\ t # Header /\ t # Nil /\ Header \in Stand(l) /\ pos[Header] = 0
    /\ Present(l2) = Present(l) \ {t} /\ Stand(l2) = Stand(l) \ {t}
    /\ \A n \in Stand(l) \ {t} : /\ np[n] = IF pos[n] > r THEN pos[n] - 1 ELSE pos[n]
                                 /\ pos[n] \in 0..l.length /\ pos[n] # r + 1
                                 /\ Height(l2, n) = Height(l, n)
    /\ \A n \in Present(l) : pos[n] \in 1..l.length /\ n \in Stand(l)
    /\ l2.length = l.length - 1
    /\ DOMAIN np = Stand(l) \ {t}

LEMMA DeleteShrinks ==
    ASSUME NEW l, NEW pos, NEW s, NEW m, NEW at, NEW t, NEW r, Deleting(l, pos, s, m, at, t, r),
           NEW l2, l2.forward = DeletedForward(l, at, t), l2.span = DeletedSpan(l, at, t),
           l2.length = l.length - 1,
           NEW np, np = Closed(l, pos, t, r)
    PROVE  Shrunk(l, pos, t, r, l2, np)
<1>1. /\ Present(l2) = Present(l) \ {t} /\ Stand(l2) = Stand(l) \ {t}
      /\ \A n \in Stand(l2) : Height(l2, n) = Height(l, n)
      /\ t \in Entries /\ t # Header
  BY DeleteStand
<1>2. r \in 0..l.length /\ l.length \in Nat /\ r < l.length
  BY DeleteCut
<1>3. /\ Numbered(l, pos) /\ pos[t] = r + 1 /\ t \in Present(l) /\ t # Nil
  BY <1>1, NodeFacts DEF Deleting, Good
<1>4. /\ Header \in Stand(l) /\ pos[Header] = 0 /\ Header \notin Present(l)
      /\ \A n \in Present(l) : pos[n] \in 1..l.length /\ n \in Stand(l)
      /\ \A n \in Stand(l) : pos[n] \in 0..l.length
  BY <1>3, SpotIs, NodeFacts DEF Stand, Numbered, Present
<1>5. ASSUME NEW n \in Stand(l) \ {t} PROVE pos[n] # r + 1
  <2>1. CASE n = Header
    BY <1>2, <1>4, <2>1
  <2>2. CASE n \in Present(l)
    BY <1>3, <2>2 DEF Numbered
  <2> QED
    BY <2>1, <2>2 DEF Stand
<1>6. \A n \in Stand(l) \ {t} : np[n] = IF pos[n] > r THEN pos[n] - 1 ELSE pos[n]
  BY DEF Closed
<1>7. DOMAIN np = Stand(l) \ {t}
  BY DEF Closed
<1> QED
  BY <1>1, <1>2, <1>3, <1>4, <1>5, <1>6, <1>7 DEF Shrunk

LEMMA DeleteNumbers ==
    ASSUME NEW l, NEW pos, Numbered(l, pos), NEW t, NEW r, NEW l2, NEW np,
           np = Closed(l, pos, t, r), Shrunk(l, pos, t, r, l2, np)
    PROVE  Numbered(l2, np)
<1>1. /\ r \in 0..l.length /\ l.length \in Nat /\ r < l.length /\ pos[t] = r + 1
      /\ t \in Present(l) /\ t # Header /\ Header \in Stand(l) /\ pos[Header] = 0
      /\ Present(l2) = Present(l) \ {t} /\ Stand(l2) = Stand(l) \ {t}
      /\ \A n \in Stand(l) \ {t} : /\ np[n] = IF pos[n] > r THEN pos[n] - 1 ELSE pos[n]
                                   /\ pos[n] \in 0..l.length /\ pos[n] # r + 1
      /\ \A n \in Present(l) : pos[n] \in 1..l.length /\ n \in Stand(l)
      /\ l2.length = l.length - 1
  BY DEF Shrunk
<1>2. l2.length \in Nat
  BY <1>1
<1>3. np \in [Stand(l2) -> 0..l2.length]
  <2>1. \A n \in Stand(l2) : np[n] \in 0..l2.length
    BY <1>1
  <2>2. np = [n \in Stand(l2) |-> np[n]]
    BY <1>1 DEF Closed
  <2> QED
    BY <2>1, <2>2
<1>4. np[Header] = 0
  BY <1>1
<1>5. \A n \in Present(l2) : np[n] # 0
  BY <1>1
<1>6. ASSUME NEW a \in Present(l2), NEW b \in Present(l2), np[a] = np[b] PROVE a = b
  <2>1. /\ a \in Present(l) /\ b \in Present(l)
        /\ np[a] = IF pos[a] > r THEN pos[a] - 1 ELSE pos[a]
        /\ np[b] = IF pos[b] > r THEN pos[b] - 1 ELSE pos[b]
        /\ pos[a] \in Int /\ pos[a] # r + 1 /\ pos[b] \in Int /\ pos[b] # r + 1
    BY <1>1
  <2>2. pos[a] = pos[b]
    <3>1. r \in Int
      BY <1>1
    <3>2. CASE pos[a] > r /\ pos[b] > r
      <4>1. pos[a] - 1 = pos[b] - 1
        BY <1>6, <2>1, <3>2
      <4> QED
        BY <2>1, <4>1
    <3>3. CASE pos[a] > r /\ ~(pos[b] > r)
      <4>1. pos[a] - 1 = pos[b]
        BY <1>6, <2>1, <3>3
      <4> QED
        BY <2>1, <3>1, <3>3, <4>1
    <3>4. CASE ~(pos[a] > r) /\ pos[b] > r
      <4>1. pos[a] = pos[b] - 1
        BY <1>6, <2>1, <3>4
      <4> QED
        BY <2>1, <3>1, <3>4, <4>1
    <3>5. CASE ~(pos[a] > r) /\ ~(pos[b] > r)
      BY <1>6, <2>1, <3>5
    <3> QED
      BY <3>2, <3>3, <3>4, <3>5
  <2> QED
    BY <2>1, <2>2 DEF Numbered
<1>7. ASSUME NEW q \in 1..l2.length PROVE \E n \in Present(l2) : np[n] = q
  <2> DEFINE old == IF q > r THEN q + 1 ELSE q
  <2>1. old \in 1..l.length /\ old # r + 1 /\ (old > r <=> q > r)
    BY <1>1
  <2>2. PICK n \in Present(l) : pos[n] = old
    BY <2>1 DEF Numbered
  <2>3. n # t
    BY <1>1, <2>1, <2>2
  <2>4. np[n] = q
    BY <1>1, <2>1, <2>2, <2>3
  <2> QED
    BY <1>1, <2>2, <2>3, <2>4
<1> QED
  BY <1>2, <1>3, <1>4, <1>5, <1>6, <1>7 DEF Numbered

LEMMA DeleteSorted ==
    ASSUME NEW l, NEW pos, Named(l), Sorted(l, pos), l \in Lists, NEW t, NEW r, NEW l2, NEW np,
           Shrunk(l, pos, t, r, l2, np), l2.score = [l.score EXCEPT ![t] = None]
    PROVE  Named(l2) /\ Sorted(l2, np)
<1>1. /\ r \in 0..l.length /\ l.length \in Nat
      /\ Present(l2) = Present(l) \ {t} /\ Present(l) \subseteq Entries /\ t \in Present(l)
      /\ \A n \in Present(l2) : /\ np[n] = IF pos[n] > r THEN pos[n] - 1 ELSE pos[n]
                                /\ pos[n] \in Int /\ pos[n] # r + 1
  BY DEF Shrunk, Present
<1>2. /\ l2.score[t] = None
      /\ \A k \in Entries : k # t => l2.score[k] = l.score[k]
  <2>1. l.score \in [Entries -> Numbers \cup {None}]
    BY DEF Lists
  <2> QED
    BY <1>1, <2>1
<1>3. Named(l2)
  BY <1>1, <1>2 DEF Named
<1>4. Sorted(l2, np)
  <2>1. SUFFICES ASSUME NEW a \in Present(l2), NEW b \in Present(l2), np[a] < np[b]
                 PROVE  LessThan(l2, a, l2.score[b], Member(b))
    BY DEF Sorted
  <2>2. /\ a \in Present(l) /\ b \in Present(l)
        /\ np[a] = IF pos[a] > r THEN pos[a] - 1 ELSE pos[a]
        /\ np[b] = IF pos[b] > r THEN pos[b] - 1 ELSE pos[b]
        /\ pos[a] \in Int /\ pos[b] \in Int
    BY <1>1
  <2>3. pos[a] < pos[b]
    BY <1>1, <2>1, <2>2
  <2>4. LessThan(l, a, l.score[b], Member(b))
    BY <2>2, <2>3 DEF Sorted
  <2>5. l2.score[a] = l.score[a] /\ l2.score[b] = l.score[b]
    BY <1>1, <1>2
  <2> QED
    BY <2>4, <2>5 DEF LessThan
<1> QED
  BY <1>3, <1>4

\* a link beside t
LEMMA LinkStays ==
    ASSUME NEW l, NEW pos, NEW t, NEW r, NEW l2, NEW np, Shrunk(l, pos, t, r, l2, np),
           NEW n \in Stand(l) \ {t}, NEW i \in Nat, LinkRight(l, pos, n, i),
           l2.forward[n][i] = l.forward[n][i], l2.span[n][i] = l.span[n][i],
           pos[n] > r \/ (l.forward[n][i] \in Present(l) /\ pos[l.forward[n][i]] <= r)
    PROVE  LinkRight(l2, np, n, i)
<1> DEFINE k == l.forward[n][i]
           d == l.span[n][i]
<1>1. /\ r \in 0..l.length /\ l.length \in Nat /\ pos[t] = r + 1
      /\ Present(l2) = Present(l) \ {t} /\ l2.length = l.length - 1
      /\ \A j \in Stand(l) \ {t} : /\ np[j] = IF pos[j] > r THEN pos[j] - 1 ELSE pos[j]
                                   /\ pos[j] \in Int /\ pos[j] # r + 1
                                   /\ Height(l2, j) = Height(l, j)
      /\ \A j \in Present(l) : j \in Stand(l) /\ pos[j] \in Int
      /\ Nil \notin Present(l)
  BY NodeFacts DEF Shrunk, Present
<1>2. \/ /\ k = Nil /\ d = l.length - pos[n]
         /\ \A j \in Present(l) : Height(l, j) >= i => pos[j] <= pos[n]
      \/ /\ k \in Present(l) /\ Height(l, k) >= i /\ pos[n] < pos[k] /\ d = pos[k] - pos[n]
         /\ \A j \in Present(l) : Height(l, j) >= i /\ pos[n] < pos[j] => pos[k] <= pos[j]
  BY DEF LinkRight
<1>3. l2.forward[n][i] = k /\ l2.span[n][i] = d
  OBVIOUS
<1>4. pos[n] > r \/ (k \in Present(l) /\ pos[k] <= r)
  OBVIOUS
<1> HIDE DEF k, d
<1>5. CASE /\ k = Nil /\ d = l.length - pos[n]
           /\ \A j \in Present(l) : Height(l, j) >= i => pos[j] <= pos[n]
  <2>1. pos[n] > r /\ np[n] = pos[n] - 1 /\ pos[n] \in Int
    BY <1>1, <1>4, <1>5
  <2>2. d = l2.length - np[n]
    BY <1>1, <1>5, <2>1
  <2>3. ASSUME NEW j \in Present(l2), Height(l2, j) >= i PROVE np[j] <= np[n]
    BY <1>1, <1>5, <2>1, <2>3
  <2> QED
    BY <1>3, <1>5, <2>2, <2>3 DEF LinkRight
<1>6. CASE /\ k \in Present(l) /\ Height(l, k) >= i /\ pos[n] < pos[k] /\ d = pos[k] - pos[n]
           /\ \A j \in Present(l) : Height(l, j) >= i /\ pos[n] < pos[j] => pos[k] <= pos[j]
  <2>1. k # t
    BY <1>1, <1>4, <1>6
  <2>2. /\ pos[k] \in Int /\ pos[n] \in Int /\ k \in Present(l2) /\ Height(l2, k) >= i
        /\ np[k] = IF pos[k] > r THEN pos[k] - 1 ELSE pos[k]
        /\ np[n] = IF pos[n] > r THEN pos[n] - 1 ELSE pos[n]
    BY <1>1, <1>6, <2>1
  <2>3. np[n] < np[k] /\ d = np[k] - np[n]
    BY <1>1, <1>4, <1>6, <2>2
  <2>4. ASSUME NEW j \in Present(l2), Height(l2, j) >= i, np[n] < np[j] PROVE np[k] <= np[j]
    <3>1. /\ j \in Present(l) /\ Height(l, j) >= i /\ pos[j] \in Int /\ pos[j] # r + 1
          /\ np[j] = IF pos[j] > r THEN pos[j] - 1 ELSE pos[j]
      BY <1>1, <2>4
    <3>2. pos[n] < pos[j]
      BY <1>1, <2>2, <2>4, <3>1
    <3>3. pos[k] <= pos[j]
      BY <1>6, <3>1, <3>2
    <3> QED
      BY <1>1, <2>2, <3>1, <3>3
  <2> QED
    BY <1>3, <2>2, <2>3, <2>4 DEF LinkRight
<1> QED
  BY <1>2, <1>5, <1>6

\* a link over t, or to t and now on to where t led
LEMMA LinkCloses ==
    ASSUME NEW l, NEW pos, NEW t, NEW r, NEW l2, NEW np, Shrunk(l, pos, t, r, l2, np),
           NEW n \in Stand(l) \ {t}, NEW i \in Nat,
           NEW p, NEW k, NEW d, Cut(l, pos, r, i, n, p, k, d),
           k = t => LinkRight(l, pos, t, i),
           l2.forward[n][i] = IF k = t THEN l.forward[t][i] ELSE k,
           l2.span[n][i] = IF k = t THEN d + l.span[t][i] - 1 ELSE d - 1
    PROVE  LinkRight(l2, np, n, i)
<1>1. /\ r \in 0..l.length /\ l.length \in Nat /\ pos[t] = r + 1 /\ t \in Present(l)
      /\ Present(l2) = Present(l) \ {t} /\ l2.length = l.length - 1
      /\ \A j \in Stand(l) \ {t} : /\ np[j] = IF pos[j] > r THEN pos[j] - 1 ELSE pos[j]
                                   /\ pos[j] \in Int /\ pos[j] # r + 1
                                   /\ Height(l2, j) = Height(l, j)
      /\ \A j \in Present(l) : j \in Stand(l) /\ pos[j] \in Int
      /\ Nil \notin Present(l)
  BY NodeFacts DEF Shrunk, Present
<1>2. /\ p = pos[n] /\ p \in 0..r
      /\ \A j \in Present(l) : Height(l, j) >= i /\ pos[j] <= r => pos[j] <= p
      /\ \/ /\ k = Nil /\ d = l.length - p
            /\ \A j \in Present(l) : Height(l, j) >= i => pos[j] <= p
         \/ /\ k \in Present(l) /\ Height(l, k) >= i /\ pos[k] > r
            /\ d = pos[k] - p
            /\ \A j \in Present(l) : Height(l, j) >= i /\ pos[j] > p => pos[k] <= pos[j]
  BY DEF Cut
<1>3. np[n] = p
  BY <1>1, <1>2
<1>4. ASSUME NEW j \in Present(l2), Height(l2, j) >= i
      PROVE  /\ j \in Present(l) /\ Height(l, j) >= i /\ pos[j] \in Int /\ pos[j] # r + 1 /\ j # t
             /\ np[j] = IF pos[j] > r THEN pos[j] - 1 ELSE pos[j]
             /\ np[j] > p => pos[j] > r + 1
  <2>1. /\ j \in Present(l) /\ Height(l, j) >= i /\ pos[j] \in Int /\ pos[j] # r + 1 /\ j # t
        /\ np[j] = IF pos[j] > r THEN pos[j] - 1 ELSE pos[j]
    BY <1>1, <1>4
  <2>2. pos[j] <= r => pos[j] <= p
    BY <1>2, <2>1
  <2> QED
    BY <1>1, <1>2, <2>1, <2>2
<1>5. CASE k = Nil
  <2>1. l2.forward[n][i] = Nil /\ l2.span[n][i] = d - 1 /\ d = l.length - p
    BY <1>1, <1>2, <1>5
  <2>2. l2.span[n][i] = l2.length - np[n]
    BY <1>1, <1>2, <1>3, <2>1
  <2>3. ASSUME NEW j \in Present(l2), Height(l2, j) >= i PROVE np[j] <= np[n]
    <3>1. pos[j] <= p
      BY <1>1, <1>2, <1>4, <1>5, <2>3
    <3> QED
      BY <1>1, <1>2, <1>3, <1>4, <2>3, <3>1
  <2> QED
    BY <2>1, <2>2, <2>3 DEF LinkRight
<1>6. CASE k # Nil /\ k # t
  <2>1. /\ k \in Present(l) /\ Height(l, k) >= i /\ pos[k] > r /\ d = pos[k] - p
        /\ \A j \in Present(l) : Height(l, j) >= i /\ pos[j] > p => pos[k] <= pos[j]
    BY <1>2, <1>6
  <2>2. k \in Present(l2) /\ Height(l2, k) >= i /\ np[k] = pos[k] - 1 /\ pos[k] > r + 1 /\ pos[k] \in Int
    BY <1>1, <1>6, <2>1
  <2>3. l2.forward[n][i] = k /\ np[n] < np[k] /\ l2.span[n][i] = np[k] - np[n]
    BY <1>1, <1>2, <1>3, <1>6, <2>1, <2>2
  <2>4. ASSUME NEW j \in Present(l2), Height(l2, j) >= i, np[n] < np[j] PROVE np[k] <= np[j]
    <3>1. pos[j] > r + 1 /\ pos[j] \in Int /\ np[j] = pos[j] - 1
      BY <1>1, <1>2, <1>3, <1>4, <2>4
    <3>2. pos[k] <= pos[j]
      BY <1>1, <1>2, <1>4, <2>1, <2>4, <3>1
    <3> QED
      BY <2>2, <3>1, <3>2
  <2> QED
    BY <2>2, <2>3, <2>4 DEF LinkRight
<1>7. CASE k = t
  <2> DEFINE c == l.forward[t][i]
             e == l.span[t][i]
  <2>1. \/ /\ c = Nil /\ e = l.length - pos[t]
           /\ \A j \in Present(l) : Height(l, j) >= i => pos[j] <= pos[t]
        \/ /\ c \in Present(l) /\ Height(l, c) >= i /\ pos[t] < pos[c] /\ e = pos[c] - pos[t]
           /\ \A j \in Present(l) : Height(l, j) >= i /\ pos[t] < pos[j] => pos[c] <= pos[j]
    BY <1>7 DEF LinkRight
  <2>2. l2.forward[n][i] = c /\ l2.span[n][i] = d + e - 1 /\ d = (r + 1) - p
    BY <1>1, <1>2, <1>7
  <2> HIDE DEF c, e
  <2>3. CASE /\ c = Nil /\ e = l.length - pos[t]
             /\ \A j \in Present(l) : Height(l, j) >= i => pos[j] <= pos[t]
    <3>1. l2.span[n][i] = l2.length - np[n]
      BY <1>1, <1>2, <1>3, <2>2, <2>3
    <3>2. ASSUME NEW j \in Present(l2), Height(l2, j) >= i PROVE np[j] <= np[n]
      <4>1. pos[j] <= r + 1 /\ pos[j] # r + 1 /\ pos[j] \in Int /\ np[j] = IF pos[j] > r THEN pos[j] - 1 ELSE pos[j]
        BY <1>1, <1>4, <2>3, <3>2
      <4>2. pos[j] <= p
        BY <1>1, <1>2, <1>4, <3>2, <4>1
      <4> QED
        BY <1>1, <1>2, <1>3, <4>1, <4>2
    <3> QED
      BY <2>2, <2>3, <3>1, <3>2 DEF LinkRight
  <2>4. CASE /\ c \in Present(l) /\ Height(l, c) >= i /\ pos[t] < pos[c] /\ e = pos[c] - pos[t]
             /\ \A j \in Present(l) : Height(l, j) >= i /\ pos[t] < pos[j] => pos[c] <= pos[j]
    <3>1. c \in Present(l2) /\ Height(l2, c) >= i /\ np[c] = pos[c] - 1 /\ pos[c] > r + 1 /\ pos[c] \in Int
      BY <1>1, <2>4
    <3>2. np[n] < np[c] /\ l2.span[n][i] = np[c] - np[n]
      BY <1>1, <1>2, <1>3, <2>2, <2>4, <3>1
    <3>3. ASSUME NEW j \in Present(l2), Height(l2, j) >= i, np[n] < np[j] PROVE np[c] <= np[j]
      <4>1. pos[j] > r + 1 /\ pos[j] \in Int /\ np[j] = pos[j] - 1 /\ j \in Present(l) /\ Height(l, j) >= i
        BY <1>1, <1>2, <1>3, <1>4, <3>3
      <4>2. pos[c] <= pos[j]
        BY <1>1, <2>4, <4>1
      <4> QED
        BY <3>1, <4>1, <4>2
    <3> QED
      BY <2>2, <3>1, <3>2, <3>3 DEF LinkRight
  <2> QED
    BY <2>1, <2>3, <2>4
<1> QED
  BY <1>5, <1>6, <1>7

LEMMA DeleteLinks ==
    ASSUME NEW l, NEW pos, NEW s, NEW m, NEW at, NEW t, NEW r, Deleting(l, pos, s, m, at, t, r),
           NEW l2, l2.forward = DeletedForward(l, at, t), l2.span = DeletedSpan(l, at, t),
           NEW np, Shrunk(l, pos, t, r, l2, np),
           NEW n \in Stand(l2), NEW i \in 1..l.level, i <= Height(l2, n)
    PROVE  LinkRight(l2, np, n, i)
<1>1. /\ r \in 0..l.length /\ l.length \in Nat /\ l.level \in 1..MaxLevel /\ MaxLevel \in Nat
  BY DeleteCut
<1>2. /\ pos[t] = r + 1 /\ t \in Present(l) /\ Header \in Stand(l) /\ pos[Header] = 0
      /\ Stand(l2) = Stand(l) \ {t} /\ Height(l2, n) = Height(l, n)
      /\ \A j \in Stand(l) : pos[j] \in 0..l.length
      /\ n # t /\ pos[n] # r + 1
  BY SpotIs DEF Shrunk, Deleting, Good
<1>3. /\ n \in Stand(l) \ {t} /\ n \in Nodes \ {t} /\ i \in Nat \ {0}
      /\ Height(l, n) \in Nat /\ i \in 1..Height(l, n)
  <2>1. n \in Nodes
    BY <1>2, NodeFacts DEF Stand, Present
  <2>2. l.forward[n] \in Seq(Entries \cup {Nil})
    BY <2>1 DEF Deleting, Good, Lists
  <2>3. Height(l, n) \in Nat
    BY <2>2 DEF Height
  <2> QED
    BY <1>1, <1>2, <2>1, <2>3
<1> DEFINE u == at[i].node
           p == at[i].pos
           k == l.forward[u][i]
           d == l.span[u][i]
<1>4. Cut(l, pos, r, i, u, p, k, d)
  BY DeleteCut
<1>5. Skips(l, at, n, i) <=> n = u
  BY <1>1 DEF Skips
<1>6. /\ l2.forward[n][i] = IF n = u /\ l.forward[n][i] = t THEN l.forward[t][i] ELSE l.forward[n][i]
      /\ l2.span[n][i] = IF n # u THEN l.span[n][i]
                         ELSE IF l.forward[n][i] = t THEN l.span[n][i] + l.span[t][i] - 1
                         ELSE l.span[n][i] - 1
  BY <1>3, <1>5, DeleteCell
<1>7. LinkRight(l, pos, n, i)
  BY <1>2, <1>3 DEF Deleting, Good, Links
<1>8. u \in Stand(l) /\ p = pos[u] /\ p \in 0..r /\ Height(l, u) >= i
  BY <1>4 DEF Cut
<1>9. CASE n = u
  <2>1. k = t => LinkRight(l, pos, t, i)
    <3>1. ASSUME k = t PROVE LinkRight(l, pos, t, i)
      <4>1. Skips(l, at, n, i) /\ l.forward[n][i] = t
        BY <1>5, <1>9, <3>1
      <4>2. i \in 1..Height(l, t) /\ Height(l, t) \in Nat
        BY <1>3, <4>1, SkippedLevels
      <4>3. i <= Height(l, t) /\ t \in Stand(l)
        BY <1>2, <4>2 DEF Stand
      <4> QED
        BY <4>3 DEF Deleting, Good, Links
    <3> QED
      BY <3>1
  <2>2. /\ l2.forward[n][i] = IF k = t THEN l.forward[t][i] ELSE k
        /\ l2.span[n][i] = IF k = t THEN d + l.span[t][i] - 1 ELSE d - 1
    BY <1>6, <1>9
  <2>3. Cut(l, pos, r, i, n, p, k, d)
    BY <1>4, <1>9
  <2> HIDE DEF u, p, k, d
  <2>4. i \in Nat
    BY <1>3
  <2> QED
    BY <1>3, <2>1, <2>2, <2>3, <2>4, LinkCloses
<1>10. CASE n # u
  <2>1. l2.forward[n][i] = l.forward[n][i] /\ l2.span[n][i] = l.span[n][i]
    BY <1>6, <1>10
  <2>2. pos[n] # p
    <3>1. pos[n] = pos[u] => n = u
      <4>1. \A j \in Present(l) : pos[j] # 0
        BY DEF Deleting, Good, Numbered
      <4>2. \A j, o \in Present(l) : pos[j] = pos[o] => j = o
        BY DEF Deleting, Good, Numbered
      <4>3. (n \in Present(l) \/ n = Header) /\ (u \in Present(l) \/ u = Header)
        BY <1>3, <1>8 DEF Stand
      <4> HIDE DEF u
      <4> QED
        BY <1>2, <4>1, <4>2, <4>3
    <3> QED
      BY <1>8, <1>10, <3>1
  <2>3. pos[n] > r \/ (l.forward[n][i] \in Present(l) /\ pos[l.forward[n][i]] <= r)
    <3>1. CASE pos[n] > p
      <4>1. n \in Present(l)
        BY <1>1, <1>2, <1>3, <1>8, <3>1 DEF Stand
      <4>2. pos[n] <= r => pos[n] <= p
        <5>1. Height(l, n) >= i
          BY <1>3
        <5> HIDE DEF u, p, k, d
        <5> QED
          BY <1>4, <4>1, <5>1 DEF Cut
      <4>3. pos[n] \in Int /\ p \in Int /\ r \in Int
        BY <1>1, <1>2, <1>3, <1>8
      <4> HIDE DEF u, p, k, d
      <4> QED
        BY <3>1, <4>2, <4>3
    <3>2. CASE ~(pos[n] > p)
      <4>1. pos[n] < p /\ pos[n] \in Int /\ p \in Int /\ r \in Int /\ p <= r /\ pos[n] >= 0
        <5>1. pos[n] \in 0..l.length
          BY <1>2, <1>3
        <5> HIDE DEF u, p, k, d
        <5> QED
          BY <1>1, <1>8, <2>2, <3>2, <5>1
      <4>2. u \in Present(l)
        <5> HIDE DEF u, p, k, d
        <5>1. u # Header
          BY <1>2, <1>8, <4>1
        <5> QED
          BY <1>8, <5>1 DEF Stand
      <4> DEFINE c == l.forward[n][i]
      <4>3. c \in Present(l) /\ pos[c] <= pos[u]
        <5> HIDE DEF u, p, k, d
        <5>1. pos[n] < pos[u] /\ ~(pos[u] <= pos[n])
          BY <1>8, <4>1
        <5> QED
          BY <1>7, <1>8, <4>2, <5>1 DEF LinkRight
      <4>4. pos[c] \in Int
        BY <1>2, <4>3 DEF Stand
      <4> HIDE DEF u, p, k, d, c
      <4>5. pos[c] <= r
        BY <1>8, <4>1, <4>3, <4>4
      <4> QED
        BY <4>3, <4>5 DEF c
    <3> QED
      BY <3>1, <3>2
  <2>4. i \in Nat
    BY <1>3
  <2> HIDE DEF u, p, k, d
  <2> QED
    BY <1>3, <1>7, <2>1, <2>3, <2>4, LinkStays
<1> QED
  BY <1>9, <1>10

LEMMA MaxIs ==
    ASSUME NEW n \in Nat, NEW S, S \subseteq 1..n, S # {}
    PROVE  Max(S) \in S /\ \A k \in S : k <= Max(S)
<1> DEFINE Gaps == {k \in Nat : n - k \in S}
<1>1. Gaps \subseteq Nat /\ Gaps # {}
  <2>1. PICK x \in S : TRUE
    OBVIOUS
  <2>2. n - x \in Nat /\ n - (n - x) = x
    OBVIOUS
  <2>3. n - x \in Gaps
    BY <2>2
  <2> QED
    BY <2>3
<1>2. PICK g \in Gaps : \A k \in Gaps : g <= k
  <2> HIDE DEF Gaps
  <2> QED
    BY <1>1, SmallestNat
<1>3. n - g \in S /\ g \in Nat
  OBVIOUS
<1>4. ASSUME NEW k \in S PROVE k <= n - g
  <2>1. n - k \in Nat /\ n - (n - k) = k /\ k \in Int
    OBVIOUS
  <2>2. n - k \in Gaps
    BY <2>1
  <2>3. g <= n - k
    BY <1>2, <2>2
  <2> QED
    BY <1>3, <2>1, <2>3
<1>5. \A y \in S : n - g >= y
  BY <1>3, <1>4
<1>6. \E x \in S : \A y \in S : x >= y
  BY <1>3, <1>5
<1>7. Max(S) \in S /\ \A y \in S : Max(S) >= y
  BY <1>6 DEF Max
<1> QED
  BY <1>7

\* no node is taller than the level that a deletion leaves
LEMMA DeleteLevel ==
    ASSUME NEW l, NEW pos, NEW s, NEW m, NEW at, NEW t, NEW r, Deleting(l, pos, s, m, at, t, r),
           NEW l2, l2.forward = DeletedForward(l, at, t), l2.span = DeletedSpan(l, at, t),
           l2.level = LevelAfterDelete(l, DeletedForward(l, at, t)),
           NEW np, Shrunk(l, pos, t, r, l2, np)
    PROVE  /\ l2.level \in 1..l.level
           /\ \A n \in Present(l2) : Height(l2, n) \in 1..l2.level
           /\ \A i \in 1..l.level : i > l2.level => l2.forward[Header][i] = Nil
<1> DEFINE S == {1} \cup {i \in 1..l.level : l2.forward[Header][i] # Nil}
<1>1. /\ l.level \in 1..MaxLevel /\ MaxLevel \in Nat /\ l.level \in Nat /\ r \in 0..l.length
      /\ l.length \in Nat
  BY DeleteCut
<1>2. l2.level = Max(S)
  BY DEF LevelAfterDelete
<1>3. l2.level \in S /\ \A k \in S : k <= l2.level
  <2>1. S \subseteq 1..l.level /\ S # {}
    BY <1>1
  <2> HIDE DEF S
  <2> QED
    BY <1>1, <1>2, <2>1, MaxIs
<1>4. l2.level \in 1..l.level
  BY <1>1, <1>3
<1>5. \A i \in 1..l.level : i > l2.level => l2.forward[Header][i] = Nil
  BY <1>1, <1>3, <1>4
<1>6. ASSUME NEW n \in Present(l2) PROVE Height(l2, n) \in 1..l2.level
  <2> DEFINE i == Height(l2, n)
  <2>1. /\ n \in Present(l) /\ i = Height(l, n) /\ Header \in Stand(l2) /\ np[Header] = 0
        /\ Height(l2, Header) = Height(l, Header)
        /\ np[n] > 0 /\ np[n] \in Int
    <3>1. /\ n \in Stand(l) \ {t} /\ n \in Present(l) /\ Header \in Stand(l) \ {t}
          /\ pos[Header] = 0
      BY DEF Shrunk
    <3>2. /\ np[Header] = 0 /\ np[n] = (IF pos[n] > r THEN pos[n] - 1 ELSE pos[n])
          /\ pos[n] \in 1..l.length /\ Header \in Stand(l2)
          /\ Height(l2, n) = Height(l, n) /\ Height(l2, Header) = Height(l, Header)
          /\ pos[n] # r + 1
      BY <1>1, <3>1 DEF Shrunk
    <3> QED
      BY <1>1, <3>1, <3>2
  <2>2. i \in 1..l.level /\ Height(l2, Header) = MaxLevel
    BY <2>1 DEF Deleting, Good, Heights
  <2>3. i <= Height(l2, Header)
    BY <1>1, <2>2
  <2>4. LinkRight(l2, np, Header, i)
    <3> HIDE DEF i
    <3> QED
      BY <2>1, <2>2, <2>3, DeleteLinks
  <2>5. l2.forward[Header][i] # Nil
    <3>1. ASSUME l2.forward[Header][i] = Nil PROVE FALSE
      <4>1. Nil \notin Present(l2)
        BY NodeFacts DEF Present
      <4>2. \A k \in Present(l2) : Height(l2, k) >= i => np[k] <= np[Header]
        BY <2>4, <3>1, <4>1 DEF LinkRight
      <4>3. Height(l2, n) >= i
        BY <1>1, <2>2
      <4> HIDE DEF i
      <4> QED
        BY <2>1, <4>2, <4>3
    <3> QED
      BY <3>1
  <2>6. i \in S
    BY <2>2, <2>5
  <2> QED
    BY <1>1, <1>3, <1>4, <2>2, <2>6
<1> QED
  BY <1>4, <1>5, <1>6

\* the lowest level leads from every node to the next
LEMMA NextIs ==
    ASSUME NEW l, NEW pos, Numbered(l, pos), Heights(l), Links(l, pos), NEW n \in Stand(l)
    PROVE  \/ l.forward[n][1] = Nil /\ pos[n] = l.length
           \/ /\ l.forward[n][1] \in Present(l) /\ pos[l.forward[n][1]] = pos[n] + 1
              /\ pos[n] < l.length
<1> DEFINE r == pos[n]
           next == l.forward[n][1]
           span == l.span[n][1]
<1>1. r \in 0..l.length /\ l.length \in Nat
  BY SpotIs DEF Numbered
<1>2. Height(l, n) >= 1 /\ Height(l, n) \in Nat
  <2>1. CASE n = Header
    BY <2>1, BoundsAssumption DEF Heights
  <2>2. CASE n \in Present(l)
    BY <2>2, BoundsAssumption DEF Heights
  <2> QED
    BY <2>1, <2>2 DEF Stand
<1>3. LinkRight(l, pos, n, 1)
  BY <1>2, BoundsAssumption DEF Links, Heights
<1>4. Cut(l, pos, r, 1, n, r, next, span)
  <2>1. \A j \in Present(l) : pos[j] \in Int
    BY SpotIs DEF Stand
  <2>2. \/ /\ next = Nil /\ span = l.length - r
           /\ \A j \in Present(l) : Height(l, j) >= 1 => pos[j] <= r
        \/ /\ next \in Present(l) /\ Height(l, next) >= 1 /\ pos[next] > r
           /\ span = pos[next] - r
           /\ \A j \in Present(l) : Height(l, j) >= 1 /\ pos[j] > r => pos[next] <= pos[j]
    <3>1. CASE /\ next = Nil /\ span = l.length - r
               /\ \A j \in Present(l) : Height(l, j) >= 1 => pos[j] <= r
      BY <3>1
    <3>2. CASE /\ next \in Present(l) /\ Height(l, next) >= 1 /\ pos[n] < pos[next]
               /\ span = pos[next] - r
               /\ \A j \in Present(l) : Height(l, j) >= 1 /\ pos[n] < pos[j] => pos[next] <= pos[j]
      BY <1>1, <2>1, <3>2
    <3> QED
      BY <1>3, <3>1, <3>2 DEF LinkRight
  <2> HIDE DEF next, span
  <2> QED
    BY <1>1, <1>2, <2>2 DEF Cut
<1> HIDE DEF r, next, span
<1>5. \/ next = Nil /\ r = l.length
      \/ next \in Present(l) /\ pos[next] = r + 1 /\ r < l.length
  BY <1>1, <1>4, CutAtBottom
<1> QED
  BY <1>5 DEF r, next

LEMMA DeleteBacks ==
    ASSUME NEW l, NEW pos, Good(l, pos), NEW t, NEW r, NEW l2, NEW np,
           Shrunk(l, pos, t, r, l2, np), l2.backward = DeletedBackward(l, t),
           l2.tail = IF l.forward[t][1] = Nil THEN l.backward[t] ELSE l.tail
    PROVE  Backs(l2, np)
<1> DEFINE next == l.forward[t][1]
           back == l.backward[t]
<1>1. /\ pos[t] = r + 1 /\ r \in 0..l.length /\ l.length \in Nat /\ t \in Present(l)
      /\ r < l.length
      /\ Present(l2) = Present(l) \ {t} /\ l2.length = l.length - 1
      /\ \A j \in Stand(l) \ {t} : np[j] = IF pos[j] > r THEN pos[j] - 1 ELSE pos[j]
      /\ \A j \in Present(l) : pos[j] \in 1..l.length /\ j \in Stand(l)
      /\ \A j \in Present(l) \ {t} : pos[j] # r + 1
  BY DEF Shrunk
<1>2. \A n \in Entries : l2.backward[n] = IF n = t THEN Nil ELSE IF n = next THEN back
                                          ELSE l.backward[n]
  BY DEF DeletedBackward
<1>3. \/ next = Nil /\ l.length = r + 1
      \/ next \in Present(l) /\ pos[next] = (r + 1) + 1 /\ r + 1 < l.length
  <2>1. t \in Stand(l)
    BY <1>1
  <2> HIDE DEF next
  <2> QED
    BY <1>1, <2>1, NextIs DEF Good, next
<1>4. /\ \A n \in Present(l) :
            \/ pos[n] = 1 /\ l.backward[n] = Nil
            \/ l.backward[n] \in Present(l) /\ pos[l.backward[n]] = pos[n] - 1
      /\ \/ l.length = 0 /\ l.tail = Nil
         \/ l.tail \in Present(l) /\ pos[l.tail] = l.length
      /\ \A a, b \in Present(l) : pos[a] = pos[b] => a = b
  BY DEF Good, Backs, Numbered
<1>5. Nil \notin Present(l) /\ Present(l) \subseteq Entries
  BY NodeFacts DEF Present
<1>6. \/ r = 0 /\ back = Nil
      \/ back \in Present(l) /\ pos[back] = r /\ back # t
  <2>1. CASE pos[t] = 1 /\ back = Nil
    BY <1>1, <2>1
  <2>2. CASE back \in Present(l) /\ pos[back] = pos[t] - 1
    <3>1. pos[back] = r
      BY <1>1, <2>2
    <3> QED
      BY <1>1, <2>2, <3>1
  <2> QED
    BY <1>1, <1>4, <2>1, <2>2
<1>7. l2.tail = IF next = Nil THEN back ELSE l.tail
  OBVIOUS
<1> HIDE DEF next, back
<1>8. \A b \in Present(l) : pos[b] = r => b \in Present(l2) /\ np[b] = r
  BY <1>1
<1>9. ASSUME NEW n \in Present(l2)
      PROVE  \/ np[n] = 1 /\ l2.backward[n] = Nil
             \/ l2.backward[n] \in Present(l2) /\ np[l2.backward[n]] = np[n] - 1
  <2>1. n \in Present(l) /\ n # t /\ n \in Entries
    BY <1>1, <1>5
  <2>2. CASE n = next
    <3>1. np[n] = r + 1 /\ l2.backward[n] = back
      BY <1>1, <1>2, <1>3, <1>5, <2>1, <2>2
    <3>2. CASE r = 0 /\ back = Nil
      BY <3>1, <3>2
    <3>3. CASE back \in Present(l) /\ pos[back] = r
      <4>1. back \in Present(l2) /\ np[back] = r
        BY <1>8, <3>3
      <4>2. np[back] = np[n] - 1
        BY <1>1, <3>1, <4>1
      <4> QED
        BY <3>1, <4>1, <4>2
    <3> QED
      BY <1>6, <3>2, <3>3
  <2>3. CASE n # next
    <3> DEFINE b == l.backward[n]
    <3>1. l2.backward[n] = b
      BY <1>2, <2>1, <2>3
    <3>2. pos[n] \in 1..l.length /\ pos[n] # r + 1 /\ pos[n] # (r + 1) + 1
      BY <1>1, <1>3, <1>4, <2>1, <2>3
    <3>3. np[n] = IF pos[n] > r THEN pos[n] - 1 ELSE pos[n]
      BY <1>1, <2>1
    <3>4. CASE pos[n] = 1 /\ b = Nil
      <4>1. ~(pos[n] > r)
        BY <1>1, <3>2, <3>4
      <4> QED
        BY <3>1, <3>3, <3>4, <4>1
    <3>5. CASE b \in Present(l) /\ pos[b] = pos[n] - 1
      <4>1. b # t /\ b \in Present(l2)
        BY <1>1, <3>2, <3>5
      <4>2. np[b] = IF pos[b] > r THEN pos[b] - 1 ELSE pos[b]
        BY <1>1, <3>5, <4>1
      <4> HIDE DEF b
      <4>3. np[b] = np[n] - 1
        <5>1. CASE pos[n] > r
          BY <1>1, <3>2, <3>3, <3>5, <4>2, <5>1
        <5>2. CASE ~(pos[n] > r)
          BY <1>1, <3>2, <3>3, <3>5, <4>2, <5>2
        <5> QED
          BY <5>1, <5>2
      <4> QED
        BY <3>1, <4>1, <4>3
    <3> QED
      BY <1>4, <2>1, <3>4, <3>5
  <2> QED
    BY <2>2, <2>3
<1>10. \/ l2.length = 0 /\ l2.tail = Nil
       \/ l2.tail \in Present(l2) /\ np[l2.tail] = l2.length
  <2>1. CASE next = Nil
    <3>1. l2.length = r /\ l2.tail = back
      BY <1>1, <1>3, <1>5, <1>7, <2>1
    <3>2. CASE r = 0 /\ back = Nil
      BY <3>1, <3>2
    <3>3. CASE back \in Present(l) /\ pos[back] = r
      BY <1>8, <3>1, <3>3
    <3> QED
      BY <1>6, <3>2, <3>3
  <2>2. CASE next # Nil
    <3>1. l2.tail = l.tail /\ r + 1 < l.length
      BY <1>3, <1>7, <2>2
    <3>2. l.tail \in Present(l) /\ pos[l.tail] = l.length
      BY <1>1, <1>4, <3>1
    <3> DEFINE b == l.tail
               v == l.length
    <3>3. b \in Present(l) /\ pos[b] = v /\ r + 1 < v /\ v \in Nat /\ l2.length = v - 1
          /\ l2.tail = b
      BY <1>1, <3>1, <3>2
    <3> HIDE DEF b, v
    <3>4. b # t /\ pos[b] > r
      BY <1>1, <3>3
    <3>5. b \in Present(l2) /\ np[b] = v - 1
      BY <1>1, <3>3, <3>4
    <3> QED
      BY <3>3, <3>5
  <2> QED
    BY <2>1, <2>2
<1> QED
  BY <1>9, <1>10 DEF Backs

\* a deletion removes one node and leaves the list as it should be
LEMMA DeleteGood ==
    ASSUME NaNs = {}, NEW l, NEW pos, Good(l, pos), NEW t \in Present(l)
    PROVE  LET l2 == Delete(l, l.score[t], Member(t))
           IN  /\ \E np : Good(l2, np)
               /\ Present(l2) = Present(l) \ {t}
               /\ l2.score = [l.score EXCEPT ![t] = None]
<1> DEFINE s == l.score[t]
           m == Member(t)
           at == Descend(l, Smaller(l, s, m))
           l2 == Delete(l, s, m)
<1>1. PICK r \in 0..l.length : Deleting(l, pos, s, m, at, t, r)
  <2>1. /\ s = l.score[t] /\ m = Member(t) /\ at = Descend(l, Smaller(l, s, m))
    OBVIOUS
  <2> HIDE DEF s, m, at, l2
  <2> QED
    BY <2>1, DeleteFinds
<1> DEFINE np == Closed(l, pos, t, r)
<1>2. l \in Lists
  BY DEF Good
<1>3. /\ DOMAIN l2 = DOMAIN l
      /\ l2 = [f \in DOMAIN l |-> l2[f]]
      /\ l2.score = [l.score EXCEPT ![t] = None]
      /\ l2.forward = DeletedForward(l, at, t)
      /\ l2.span = DeletedSpan(l, at, t)
      /\ l2.backward = DeletedBackward(l, t)
      /\ l2.tail = IF l.forward[t][1] = Nil THEN l.backward[t] ELSE l.tail
      /\ l2.level = LevelAfterDelete(l, DeletedForward(l, at, t))
      /\ l2.length = l.length - 1
  <2>1. DeleteAssigns(l, at, t, l2)
    <3>1. t # Nil
      BY NodeFacts DEF Present
    <3>2. /\ at = Descend(l, Smaller(l, s, m)) /\ t = l.forward[at[1].node][1]
          /\ Member(t) = m /\ l.score[t] = s
      BY <1>1 DEF Deleting
    <3> QED
      BY ONLY <1>2, <3>1, <3>2, DeleteFields
  <2> HIDE DEF s, m, at, l2
  <2> QED
    BY <2>1 DEF DeleteAssigns
<1> HIDE DEF s, m, at, l2, np
<1>4. /\ Present(l2) = Present(l) \ {t} /\ Stand(l2) = Stand(l) \ {t}
      /\ \A n \in Stand(l2) : Height(l2, n) = Height(l, n)
      /\ t \in Entries /\ t # Header
  BY <1>1, <1>3, DeleteStand
<1>5. np = Closed(l, pos, t, r)
  BY DEF np
<1>6. Shrunk(l, pos, t, r, l2, np)
  BY <1>1, <1>3, <1>5, DeleteShrinks
<1>7. Numbered(l2, np)
  BY <1>5, <1>6, DeleteNumbers DEF Good
<1>8. Named(l2) /\ Sorted(l2, np)
  <2>1. Named(l) /\ Sorted(l, pos) /\ l2.score = [l.score EXCEPT ![t] = None]
    BY <1>3 DEF Good
  <2> QED
    BY ONLY <1>2, <1>6, <2>1, DeleteSorted
<1>9. Backs(l2, np)
  BY <1>3, <1>6, DeleteBacks
<1>10. /\ l2.level \in 1..l.level
       /\ \A n \in Present(l2) : Height(l2, n) \in 1..l2.level
       /\ \A i \in 1..l.level : i > l2.level => l2.forward[Header][i] = Nil
  BY <1>1, <1>3, <1>6, DeleteLevel
<1>11. /\ r \in 0..l.length /\ l.length \in Nat /\ l.level \in 1..MaxLevel /\ MaxLevel \in Nat
       /\ r < l.length
  BY <1>1, DeleteCut
<1>12. Links(l2, np)
  <2>1. ASSUME NEW n \in Stand(l2), NEW i \in 1..l2.level, i <= Height(l2, n)
        PROVE  LinkRight(l2, np, n, i)
    <3>1. i \in 1..l.level
      BY <1>10, <1>11
    <3> QED
      BY <1>1, <1>3, <1>6, <2>1, <3>1, DeleteLinks
  <2> QED
    BY <2>1 DEF Links
<1>13. \A n \in Nodes : /\ l2.forward[n] \in Seq(Entries \cup {Nil}) /\ l2.span[n] \in Seq(Int)
                        /\ Len(l2.span[n]) = Len(l2.forward[n])
  BY <1>1, <1>3, DeleteRows DEF Height
<1>14. Header \in Stand(l) /\ Height(l, Header) = MaxLevel /\ Header \in Nodes \ {t}
  BY <1>4, NodeFacts DEF Good, Heights, Stand
<1>15. Heights(l2)
  <2>1. Height(l2, Header) = MaxLevel
    BY <1>4, <1>14
  <2> QED
    BY <1>10, <1>11, <2>1 DEF Heights
<1>16. Rows(l2)
  <2>1. ASSUME NEW i \in 1..MaxLevel, i > l2.level PROVE l2.forward[Header][i] = Nil
    <3>1. CASE i <= l.level
      BY <1>10, <1>11, <2>1, <3>1
    <3>2. CASE i > l.level
      <4>1. l.forward[Header][i] = Nil
        BY <3>2 DEF Good, Rows
      <4>2. l2.forward[Header][i] = IF Skips(l, at, Header, i) /\ l.forward[Header][i] = t
                                    THEN l.forward[t][i] ELSE l.forward[Header][i]
        BY <1>1, <1>3, <1>14, DeleteCell
      <4>3. ~Skips(l, at, Header, i)
        BY <1>11, <3>2 DEF Skips
      <4> QED
        BY <4>1, <4>2, <4>3
    <3> QED
      BY <1>11, <3>1, <3>2
  <2> QED
    BY <1>13, <2>1 DEF Rows
<1>17. l2 \in Lists
  <2>1. l2.score \in [Entries -> Numbers \cup {None}]
    BY <1>2, <1>3, <1>4 DEF Lists
  <2>2. l2.forward \in [Nodes -> Seq(Entries \cup {Nil})]
    BY <1>3, <1>13 DEF DeletedForward
  <2>3. l2.span \in [Nodes -> Seq(Int)]
    BY <1>3, <1>13 DEF DeletedSpan
  <2>4. l2.tail \in Entries \cup {Nil}
    BY <1>9 DEF Backs, Present
  <2>5. l2.backward \in [Entries -> Entries \cup {Nil}]
    <3>1. \A n \in Entries : l.backward[n] \in Entries \cup {Nil}
      BY <1>2 DEF Lists
    <3> QED
      BY <1>3, <1>4, <3>1 DEF DeletedBackward
  <2>6. l2.level \in 1..MaxLevel /\ l2.length \in Nat
    BY <1>3, <1>10, <1>11
  <2>7. DOMAIN l2 = {"score", "forward", "span", "backward", "tail", "level", "length"}
    BY <1>2, <1>3 DEF Lists
  <2>8. l2 = [f \in {"score", "forward", "span", "backward", "tail", "level", "length"} |-> l2[f]]
    BY <1>3, <2>7
  <2> QED
    BY <2>1, <2>2, <2>3, <2>4, <2>5, <2>6, <2>7, <2>8 DEF Lists
<1>18. Good(l2, np)
  BY <1>7, <1>8, <1>9, <1>12, <1>15, <1>16, <1>17 DEF Good
<1> QED
  BY <1>3, <1>4, <1>18 DEF l2, s, m

-----------------------------------------------------------------------------
(***************************************************************************)
(* The dictionary and the list.                                            *)
(***************************************************************************)
\* the dictionary sc and the list l hold the same members and scores
Agree(sc, l) ==
    /\ sc \in [Members -> Numbers \cup {None}]
    /\ \A m \in Members : sc[m] # None <=> \E n \in Present(l) : Member(n) = m
    /\ \A n \in Present(l) : l.score[n] = sc[Member(n)]

IInv == Agree(scores, list) /\ \E pos : Good(list, pos)

\* the empty list is as it should be
LEMMA InitGood == Init => IInv
<1> SUFFICES ASSUME Init PROVE IInv
  OBVIOUS
<1> DEFINE l == EmptyList
           pos == [n \in {Header} |-> 0]
<1>1. list = l /\ scores = [m \in Members |-> None]
  BY DEF Init
<1>2. MaxLevel \in Nat \ {0} /\ 1 \in 1..MaxLevel
  BY BoundsAssumption
<1>3. /\ \A n \in Entries : l.forward[n] = <<>> /\ l.span[n] = <<>> /\ n # Header
      /\ l.forward[Header] = [i \in 1..MaxLevel |-> Nil]
      /\ l.span[Header] = [i \in 1..MaxLevel |-> 0]
      /\ l.score = [n \in Entries |-> None] /\ l.backward = [n \in Entries |-> Nil]
      /\ l.tail = Nil /\ l.level = 1 /\ l.length = 0
      /\ DOMAIN l.forward = Nodes /\ DOMAIN l.span = Nodes
      /\ l.forward = [n \in Nodes |-> l.forward[n]] /\ l.span = [n \in Nodes |-> l.span[n]]
  BY NodeFacts DEF EmptyList
<1>4. Present(l) = {} /\ Stand(l) = {Header}
  BY <1>3 DEF Present, Stand
<1>5. /\ [i \in 1..MaxLevel |-> Nil] \in Seq(Entries \cup {Nil})
      /\ Len([i \in 1..MaxLevel |-> Nil]) = MaxLevel
  <2>1. [i \in 1..MaxLevel |-> Nil] \in [1..MaxLevel -> Entries \cup {Nil}]
    OBVIOUS
  <2> QED
    BY <1>2, <2>1, RowIs
<1>6. /\ [i \in 1..MaxLevel |-> 0] \in Seq(Int) /\ Len([i \in 1..MaxLevel |-> 0]) = MaxLevel
  <2>1. [i \in 1..MaxLevel |-> 0] \in [1..MaxLevel -> Int]
    OBVIOUS
  <2> QED
    BY <1>2, <2>1, RowIs
<1>7. \A n \in Nodes : /\ l.forward[n] \in Seq(Entries \cup {Nil}) /\ l.span[n] \in Seq(Int)
                       /\ Len(l.forward[n]) = Len(l.span[n])
  <2>1. CASE Entries = {}
    BY <1>3, <1>5, <1>6, <2>1, NodeFacts
  <2>2. /\ <<>> \in Seq(Entries \cup {Nil}) /\ <<>> \in Seq(Int) /\ Len(<<>>) = 0
    OBVIOUS
  <2> HIDE DEF l
  <2> QED
    BY <1>3, <1>5, <1>6, <2>2, NodeFacts
<1>8. l \in Lists
  <2>1. DOMAIN l = {"score", "forward", "span", "backward", "tail", "level", "length"}
    BY DEF EmptyList
  <2>2. l = [f \in {"score", "forward", "span", "backward", "tail", "level", "length"} |-> l[f]]
    BY <2>1 DEF EmptyList
  <2>3. l.score \in [Entries -> Numbers \cup {None}]
    BY <1>3
  <2>4. l.backward \in [Entries -> Entries \cup {Nil}]
    BY <1>3
  <2>5. l.forward \in [Nodes -> Seq(Entries \cup {Nil})]
    BY <1>3, <1>7
  <2>6. l.span \in [Nodes -> Seq(Int)]
    BY <1>3, <1>7
  <2>7. l.tail \in Entries \cup {Nil} /\ l.level \in 1..MaxLevel /\ l.length \in Nat
    BY <1>2, <1>3
  <2> HIDE DEF l
  <2> QED
    BY <2>1, <2>2, <2>3, <2>4, <2>5, <2>6, <2>7 DEF Lists
<1> HIDE DEF l
<1>9. Numbered(l, pos)
  BY <1>3, <1>4 DEF Numbered
<1>10. Heights(l)
  BY <1>2, <1>3, <1>4, <1>5 DEF Heights, Height
<1>11. Rows(l)
  BY <1>3, <1>7 DEF Rows
<1>12. Links(l, pos)
  BY <1>2, <1>3, <1>4 DEF Links, LinkRight
<1>13. Named(l) /\ Sorted(l, pos) /\ Backs(l, pos)
  BY <1>3, <1>4 DEF Named, Sorted, Backs
<1>14. Good(l, pos)
  BY <1>8, <1>9, <1>10, <1>11, <1>12, <1>13 DEF Good
<1>15. Agree(scores, l)
  BY <1>1, <1>4 DEF Agree
<1> QED
  BY <1>1, <1>14, <1>15 DEF IInv

\* removing a member from both keeps them together
LEMMA RemovesBoth ==
    ASSUME NaNs = {}, NEW sc, NEW l, NEW pos, Agree(sc, l), Good(l, pos),
           NEW m \in Members, sc[m] # None
    PROVE  LET l2 == Delete(l, sc[m], m)
           IN  /\ \E np : Good(l2, np)
               /\ Agree([sc EXCEPT ![m] = None], l2)
               /\ \A k \in Present(l2) : Member(k) # m
<1> DEFINE l2 == Delete(l, sc[m], m)
           s2 == [sc EXCEPT ![m] = None]
<1>1. PICK t \in Present(l) : Member(t) = m
  BY DEF Agree
<1>2. l.score[t] = sc[m]
  BY <1>1 DEF Agree
<1>3. /\ \E np : Good(l2, np)
      /\ Present(l2) = Present(l) \ {t}
      /\ l2.score = [l.score EXCEPT ![t] = None]
  BY <1>1, <1>2, DeleteGood
<1> HIDE DEF l2
<1>4. \A k \in Present(l2) : Member(k) # m /\ k # t /\ k \in Present(l)
  BY <1>1, <1>3 DEF Good, Named
<1>5. s2 \in [Members -> Numbers \cup {None}] /\ s2[m] = None
      /\ \A k \in Members \ {m} : s2[k] = sc[k]
  BY DEF Agree
<1>6. \A k \in Entries \ {t} : l2.score[k] = l.score[k]
  BY <1>3 DEF Good, Lists
<1>7. Present(l) \subseteq Entries /\ \A k \in Present(l) : Member(k) \in Members
  BY NodeFacts DEF Present
<1>8. Agree(s2, l2)
  <2> HIDE DEF s2
  <2>1. ASSUME NEW k \in Members
        PROVE  s2[k] # None <=> \E n \in Present(l2) : Member(n) = k
    <3>1. CASE k = m
      BY <1>4, <1>5, <3>1
    <3>2. CASE k # m
      <4>1. s2[k] # None <=> \E n \in Present(l) : Member(n) = k
        BY <1>5, <3>2 DEF Agree
      <4>2. \A n \in Present(l) : Member(n) = k => n \in Present(l2)
        BY <1>1, <1>3, <3>2
      <4> QED
        BY <1>4, <4>1, <4>2
    <3> QED
      BY <3>1, <3>2
  <2>2. ASSUME NEW n \in Present(l2) PROVE l2.score[n] = s2[Member(n)]
    <3>1. l2.score[n] = l.score[n] /\ s2[Member(n)] = sc[Member(n)]
      BY <1>4, <1>5, <1>6, <1>7
    <3> QED
      BY <1>4, <3>1 DEF Agree
  <2> QED
    BY ONLY <1>5, <2>1, <2>2 DEF Agree
<1> QED
  BY <1>3, <1>4, <1>8 DEF l2

\* adding a member that neither holds to both keeps them together
LEMMA AddsBoth ==
    ASSUME NaNs = {}, NEW sc, NEW l, NEW pos, Agree(sc, l), Good(l, pos),
           NEW m \in Members, NEW s \in Numbers, NEW h \in 1..MaxLevel,
           \A k \in Present(l) : Member(k) # m
    PROVE  LET l2 == Insert(l, s, m, h)
           IN  (\E np : Good(l2, np)) /\ Agree([sc EXCEPT ![m] = s], l2)
<1> DEFINE l2 == Insert(l, s, m, h)
           s2 == [sc EXCEPT ![m] = s]
<1>1. PICK np, x :
         /\ Good(l2, np)
         /\ x \in Entries /\ Member(x) = m /\ x \notin Present(l)
         /\ Present(l2) = Present(l) \cup {x}
         /\ l2.score = [l.score EXCEPT ![x] = s]
  <2>1. Inserted(l, s, m, l2)
    BY InsertGood
  <2> HIDE DEF l2
  <2> QED
    BY <2>1 DEF Inserted
<1> HIDE DEF l2
<1>2. s2 \in [Members -> Numbers \cup {None}] /\ s2[m] = s /\ s # None
      /\ \A k \in Members \ {m} : s2[k] = sc[k]
  BY ScoresAssumption DEF Agree
<1>3. l2.score[x] = s /\ \A k \in Entries \ {x} : l2.score[k] = l.score[k]
  BY <1>1 DEF Good, Lists
<1>4. Present(l) \subseteq Entries /\ \A k \in Present(l) : Member(k) \in Members
  BY NodeFacts DEF Present
<1>5. Agree(s2, l2)
  <2> HIDE DEF s2
  <2>1. ASSUME NEW k \in Members
        PROVE  s2[k] # None <=> \E n \in Present(l2) : Member(n) = k
    <3>1. CASE k = m
      BY <1>1, <1>2, <3>1
    <3>2. CASE k # m
      BY <1>1, <1>2, <3>2 DEF Agree
    <3> QED
      BY <3>1, <3>2
  <2>2. ASSUME NEW n \in Present(l2) PROVE l2.score[n] = s2[Member(n)]
    <3>1. CASE n = x
      BY <1>1, <1>2, <1>3, <3>1
    <3>2. CASE n \in Present(l)
      <4>1. l2.score[n] = l.score[n] /\ s2[Member(n)] = sc[Member(n)]
        BY <1>1, <1>2, <1>3, <1>4, <3>2
      <4> QED
        BY <3>2, <4>1 DEF Agree
    <3> QED
      BY <1>1, <3>1, <3>2
  <2> QED
    BY ONLY <1>2, <2>1, <2>2 DEF Agree
<1> QED
  BY <1>1, <1>5 DEF l2

\* the invariant is inductive where every score is a number
LEMMA StepGood == ASSUME NaNs = {}, IInv, [Next]_vars PROVE IInv'
<1>1. CASE UNCHANGED vars
  BY <1>1 DEF vars, IInv
<1>2. ASSUME NEW m \in Members, NEW s \in Scores, NEW h \in 1..MaxLevel, ZSetSet(m, s, h)
      PROVE  IInv'
  <2> DEFINE others == IF scores[m] = None THEN list ELSE Delete(list, scores[m], m)
             sc == [scores EXCEPT ![m] = None]
  <2>1. s \in Numbers
    BY DEF Scores
  <2>2. /\ scores' = [scores EXCEPT ![m] = s] /\ list' = Insert(others, s, m, h)
    BY <1>2 DEF ZSetSet
  <2>3. PICK pos : Good(list, pos)
    BY DEF IInv
  <2>4. Agree(scores, list)
    BY DEF IInv
  <2>5. /\ \E np : Good(others, np)
        /\ Agree(sc, others)
        /\ \A k \in Present(others) : Member(k) # m
    <3>1. CASE scores[m] = None
      <4>1. sc = scores
        BY <2>4, <3>1 DEF Agree
      <4>2. \A k \in Present(list) : Member(k) # m
        BY <2>4, <3>1 DEF Agree
      <4> QED
        BY <2>3, <2>4, <3>1, <4>1, <4>2
    <3>2. CASE scores[m] # None
      <4> DEFINE l2 == Delete(list, scores[m], m)
      <4>1. /\ \E np : Good(l2, np)
            /\ Agree(sc, l2)
            /\ \A k \in Present(l2) : Member(k) # m
        BY <2>3, <2>4, <3>2, RemovesBoth
      <4>2. others = l2
        BY <3>2
      <4> QED
        BY <4>1, <4>2
    <3> QED
      BY <3>1, <3>2
  <2> HIDE DEF others
  <2>6. scores' = [sc EXCEPT ![m] = s]
    BY <2>2, <2>4 DEF Agree
  <2> HIDE DEF sc
  <2>7. PICK np : Good(others, np)
    BY <2>5
  <2> DEFINE l2 == Insert(others, s, m, h)
             s2 == [sc EXCEPT ![m] = s]
  <2>8. (\E q : Good(l2, q)) /\ Agree(s2, l2)
    BY <2>1, <2>5, <2>7, AddsBoth
  <2>9. list' = l2 /\ scores' = s2
    BY <2>2, <2>6
  <2> HIDE DEF l2, s2
  <2> QED
    BY ONLY <2>8, <2>9 DEF IInv
<1>3. ASSUME NEW m \in Members, ZSetRemove(m) PROVE IInv'
  <2> DEFINE l2 == Delete(list, scores[m], m)
             s2 == [scores EXCEPT ![m] = None]
  <2>1. scores[m] # None /\ list' = l2 /\ scores' = s2
    BY <1>3 DEF ZSetRemove
  <2>2. PICK pos : Good(list, pos)
    BY DEF IInv
  <2>3. Agree(scores, list)
    BY DEF IInv
  <2>4. (\E q : Good(l2, q)) /\ Agree(s2, l2)
    BY <2>1, <2>2, <2>3, RemovesBoth
  <2> HIDE DEF l2, s2
  <2> QED
    BY ONLY <2>1, <2>4 DEF IInv
<1> QED
  BY <1>1, <1>2, <1>3 DEF Next

THEOREM InvAlways == ASSUME NaNs = {} PROVE Spec => []IInv
<1>1. Init => IInv
  BY InitGood
<1>2. IInv /\ [Next]_vars => IInv'
  BY StepGood
<1> QED
  BY <1>1, <1>2, PTL DEF Spec

\* The links and spans are of the right kinds in every reachable state, where
\* every score is a number.
THEOREM TypesAlways == ASSUME NaNs = {} PROVE Spec => []TypeOK
<1>1. IInv => TypeOK
  <2> SUFFICES ASSUME IInv PROVE TypeOK
    OBVIOUS
  <2>1. PICK pos : Good(list, pos)
    BY DEF IInv
  <2>2. Scores = Numbers
    BY DEF Scores
  <2>3. scores \in [Members -> Scores \cup {None}]
    BY <2>2 DEF IInv, Agree
  <2>4. /\ list.score \in [Entries -> Scores \cup {None}]
        /\ list.level \in 1..MaxLevel
        /\ list.length \in Nat
        /\ list.tail \in Entries \cup {Nil}
        /\ list.backward \in [Entries -> Entries \cup {Nil}]
        /\ list.forward \in [Nodes -> Seq(Entries \cup {Nil})]
        /\ list.span \in [Nodes -> Seq(Int)]
    BY <2>1, <2>2 DEF Good, Lists
  <2>5. \A n \in Nodes : Len(list.forward[n]) = Len(list.span[n])
    BY <2>1 DEF Good, Rows
  <2> QED
    BY <2>3, <2>4, <2>5 DEF TypeOK
<1> QED
  BY <1>1, InvAlways, PTL

-----------------------------------------------------------------------------
(***************************************************************************)
(* The nodes in order.                                                     *)
(***************************************************************************)
\* ns holds the nodes of l from the position q on
Listing(l, pos, q, ns) ==
    /\ ns \in Seq(Entries)
    /\ Len(ns) = l.length - q + 1
    /\ \A p \in 1..Len(ns) : ns[p] \in Present(l) /\ pos[ns[p]] = q + p - 1

\* walking along the lowest level lists the nodes from n on
LEMMA FromLists ==
    ASSUME NEW l, NEW pos, Numbered(l, pos), Heights(l), Links(l, pos), NEW n \in Present(l)
    PROVE  Listing(l, pos, pos[n], From(l, n))
<1> DEFINE S == Seq(Entries)
           F == [nodes \in Seq(Entries) |->
                    LET next == l.forward[Last(nodes)][1]
                    IN  IF next \in Entries THEN Append(nodes, next) ELSE nodes]
           q == pos[n]
           I == {ns \in S : /\ Len(ns) # 0
                            /\ \A p \in 1..Len(ns) : ns[p] \in Present(l) /\ pos[ns[p]] = q + p - 1}
           left == [ns \in I |-> l.length - (q + Len(ns) - 1)]
           c == Cardinality(Entries)
<1>1. /\ l.length \in Nat /\ l.length <= c /\ c \in Nat
      /\ \A k \in Present(l) : pos[k] \in 1..l.length /\ k \in Stand(l) /\ k \in Entries
      /\ q \in 1..l.length /\ n \in Entries /\ n # Nil
  BY LengthBounded, EntriesFinite, SpotIs, NodeFacts DEF Stand, Present
<1>2. ASSUME NEW ns \in S PROVE F[ns] \in S
  OBVIOUS
<1>3. F \in [S -> S]
  BY <1>2
<1>4. From(l, n) = Loop(S, F, <<n>>, c)
  BY <1>1 DEF From
<1>5. ASSUME NEW ns \in I
      PROVE  /\ Len(ns) \in Nat \ {0} /\ ns \in S
             /\ ns[Len(ns)] \in Present(l) /\ pos[ns[Len(ns)]] = q + Len(ns) - 1
             /\ left[ns] = l.length - (q + Len(ns) - 1) /\ left[ns] \in Nat
             /\ \/ F[ns] = ns /\ q + Len(ns) - 1 = l.length
                \/ /\ F[ns] \in I /\ Len(F[ns]) = Len(ns) + 1
                   /\ left[F[ns]] < left[ns]
  <2> DEFINE last == ns[Len(ns)]
             next == l.forward[last][1]
             v == l.length
  <2>1. /\ Len(ns) \in Nat \ {0} /\ ns \in S
        /\ last \in Present(l) /\ pos[last] = q + Len(ns) - 1
    OBVIOUS
  <2>2. left[ns] = v - (q + Len(ns) - 1) /\ left[ns] \in Nat
    <3>1. left[ns] = v - (q + Len(ns) - 1)
      OBVIOUS
    <3>2. pos[last] \in 1..v
      BY <1>1, <2>1
    <3>3. v \in Nat
      BY <1>1
    <3> HIDE DEF last, v, left
    <3>4. pos[last] = q + Len(ns) - 1
      BY <2>1
    <3> HIDE DEF I, q
    <3> QED
      BY <3>1, <3>2, <3>3, <3>4
  <2>3. F[ns] = IF next \in Entries THEN Append(ns, next) ELSE ns
    BY DEF Last
  <2>4. \/ next = Nil /\ pos[last] = v
        \/ next \in Present(l) /\ pos[next] = pos[last] + 1 /\ pos[last] < v
    <3>1. last \in Stand(l)
      BY <1>1, <2>1
    <3> HIDE DEF last
    <3> QED
      BY <3>1, NextIs
  <2> HIDE DEF F, last, next, v, q
  <2>5. CASE next = Nil /\ pos[last] = v
    <3>1. F[ns] = ns
      BY <2>3, <2>5, NodeFacts
    <3> QED
      BY <2>1, <2>2, <2>5, <3>1 DEF last, v
  <2>6. CASE next \in Present(l) /\ pos[next] = pos[last] + 1 /\ pos[last] < v
    <3> DEFINE ms == Append(ns, next)
    <3>1. next \in Entries /\ F[ns] = ms
      BY <1>1, <2>3, <2>6
    <3>2. /\ ms \in S /\ Len(ms) = Len(ns) + 1
          /\ \A p \in 1..Len(ns) : ms[p] = ns[p]
          /\ ms[Len(ns) + 1] = next
      BY <2>1, <3>1
    <3> HIDE DEF ms
    <3>3. ASSUME NEW p \in 1..Len(ms) PROVE ms[p] \in Present(l) /\ pos[ms[p]] = q + p - 1
      <4>1. CASE p = Len(ns) + 1
        <5>1. q + p - 1 = (q + Len(ns) - 1) + 1
          BY <1>1, <2>1, <4>1
        <5> QED
          BY <2>1, <2>6, <3>2, <4>1, <5>1
      <4>2. CASE p # Len(ns) + 1
        <5>1. p \in 1..Len(ns)
          BY <2>1, <3>2, <4>2
        <5> QED
          BY <3>2, <5>1
      <4> QED
        BY <4>1, <4>2
    <3>4. ms \in I
      BY <2>1, <3>2, <3>3
    <3>5. left[ms] = v - (q + Len(ms) - 1)
      BY <3>4 DEF v
    <3> HIDE DEF I, left
    <3>6. left[ms] < left[ns]
      BY <1>1, <2>1, <2>2, <3>2, <3>5 DEF v
    <3> QED
      BY <2>1, <2>2, <3>1, <3>2, <3>4, <3>6 DEF last, v
  <2> QED
    BY <2>4, <2>5, <2>6
<1>6. <<n>> \in I /\ left[<<n>>] = l.length - q
  <2>1. <<n>> \in S /\ Len(<<n>>) = 1 /\ <<n>>[1] = n
    BY <1>1
  <2>2. <<n>> \in I
    <3>1. ASSUME NEW p \in 1..1 PROVE <<n>>[p] \in Present(l) /\ pos[<<n>>[p]] = q + p - 1
      <4>1. p = 1
        OBVIOUS
      <4> QED
        BY <1>1, <4>1
    <3> QED
      BY <2>1, <3>1
  <2>3. left[<<n>>] = l.length - (q + 1 - 1)
    BY <2>1, <2>2
  <2> HIDE DEF left, I
  <2> QED
    BY <1>1, <2>2, <2>3
<1> DEFINE ns == From(l, n)
<1>7. ns \in I /\ F[ns] = ns
  <2>1. I \in SUBSET S
    OBVIOUS
  <2> HIDE DEF S, F, I, left, q, c
  <2>2. \A y \in I : F[y] \in I
    BY <1>5
  <2>3. \A y \in I : left[y] \in Nat
    BY <1>5
  <2>4. \A y \in I : F[y] # y => left[F[y]] < left[y]
    BY <1>5
  <2>5. left[<<n>>] <= c
    BY <1>1, <1>6
  <2>6. Loop(S, F, <<n>>, c) \in I /\ F[Loop(S, F, <<n>>, c)] = Loop(S, F, <<n>>, c)
    BY <1>1, <1>3, <1>6, <2>1, <2>2, <2>3, <2>4, <2>5, LoopEnds
  <2> QED
    BY <1>4, <2>6
<1> HIDE DEF ns
<1>8. q + Len(ns) - 1 = l.length /\ Len(ns) \in Nat
  <2>1. \/ F[ns] = ns /\ q + Len(ns) - 1 = l.length
        \/ F[ns] \in I /\ Len(F[ns]) = Len(ns) + 1
    BY <1>5, <1>7
  <2>2. Len(ns) \in Nat
    BY <1>7
  <2> HIDE DEF F, q
  <2> QED
    BY <1>7, <2>1, <2>2
<1>9. Len(ns) = l.length - q + 1
  <2> HIDE DEF q
  <2> QED
    BY <1>1, <1>8
<1> QED
  BY <1>7, <1>9 DEF ns, Listing

\* Linked holds the nodes of the list by position
LEMMA LinkedIs ==
    ASSUME NEW pos, Good(list, pos)
    PROVE  /\ Linked \in Seq(Entries) /\ Len(Linked) = list.length
           /\ \A p \in 1..Len(Linked) : Linked[p] \in Present(list) /\ pos[Linked[p]] = p
           /\ \A n \in Present(list) : pos[n] \in 1..Len(Linked) /\ Linked[pos[n]] = n
<1> DEFINE l == list
           first == l.forward[Header][1]
           ns == Linked
           v == l.length
<1>1. /\ Numbered(l, pos) /\ Heights(l) /\ Links(l, pos) /\ Header \in Stand(l)
      /\ pos[Header] = 0 /\ v \in Nat
      /\ \A k \in Present(l) : pos[k] \in 1..v /\ k \in Entries
      /\ \A a, b \in Present(l) : pos[a] = pos[b] => a = b
  BY SpotIs DEF Good, Stand, Numbered, Present
<1>2. \/ first = Nil /\ v = 0
      \/ first \in Present(l) /\ pos[first] = 1
  <2>1. \/ first = Nil /\ pos[Header] = v
        \/ first \in Present(l) /\ pos[first] = pos[Header] + 1
    <3> HIDE DEF l
    <3> QED
      BY <1>1, NextIs
  <2> QED
    BY <1>1, <2>1
<1>3. ns = From(l, first)
  BY DEF Linked
<1>4. /\ ns \in Seq(Entries) /\ Len(ns) = v
      /\ \A p \in 1..Len(ns) : ns[p] \in Present(l) /\ pos[ns[p]] = p
  <2>1. CASE first = Nil /\ v = 0
    <3>1. ns = <<>>
      BY <1>3, <2>1 DEF From
    <3> QED
      BY <2>1, <3>1
  <2>2. CASE first \in Present(l) /\ pos[first] = 1
    <3>1. Listing(l, pos, 1, ns)
      <4>1. Listing(l, pos, pos[first], From(l, first))
        <5> HIDE DEF l, first
        <5> QED
          BY <1>1, <2>2, FromLists
      <4> QED
        BY <1>3, <2>2, <4>1
    <3> HIDE DEF ns, l, v
    <3>2. ns \in Seq(Entries) /\ Len(ns) = v - 1 + 1
      BY <3>1 DEF Listing, v
    <3>3. \A p \in 1..Len(ns) : ns[p] \in Present(l) /\ pos[ns[p]] = 1 + p - 1
      BY <3>1 DEF Listing
    <3>4. ASSUME NEW p \in 1..Len(ns) PROVE 1 + p - 1 = p
      OBVIOUS
    <3>5. v - 1 + 1 = v
      BY <1>1
    <3> QED
      BY <3>2, <3>3, <3>4, <3>5
  <2> QED
    BY <1>2, <2>1, <2>2
<1> HIDE DEF ns, l, v
<1>5. ASSUME NEW n \in Present(l) PROVE pos[n] \in 1..Len(ns) /\ ns[pos[n]] = n
  <2>1. pos[n] \in 1..Len(ns)
    BY <1>1, <1>4
  <2>2. ns[pos[n]] \in Present(l) /\ pos[ns[pos[n]]] = pos[n]
    BY <1>4, <2>1
  <2> QED
    BY <1>1, <2>1, <2>2
<1> QED
  BY <1>4, <1>5 DEF ns, l, v

\* The lowest level is mirrored by the backward links and the tail in every
\* reachable state.
THEOREM BackwardAlways == ASSUME NaNs = {} PROVE Spec => []BackwardMirrorsForward
<1>1. IInv => BackwardMirrorsForward
  <2> SUFFICES ASSUME IInv PROVE BackwardMirrorsForward
    OBVIOUS
  <2> DEFINE ns == Linked
  <2>1. PICK pos : Good(list, pos)
    BY DEF IInv
  <2>2. /\ ns \in Seq(Entries) /\ Len(ns) = list.length /\ Len(ns) \in Nat
        /\ \A p \in 1..Len(ns) : ns[p] \in Present(list) /\ pos[ns[p]] = p
        /\ \A n \in Present(list) : pos[n] \in 1..Len(ns) /\ ns[pos[n]] = n
    BY <2>1, LinkedIs
  <2>3. /\ \A n \in Present(list) :
              \/ pos[n] = 1 /\ list.backward[n] = Nil
              \/ /\ list.backward[n] \in Present(list)
                 /\ pos[list.backward[n]] = pos[n] - 1
        /\ \/ list.length = 0 /\ list.tail = Nil
           \/ list.tail \in Present(list) /\ pos[list.tail] = list.length
    BY <2>1 DEF Good, Backs
  <2> HIDE DEF ns
  <2>4. list.tail = IF ns = <<>> THEN Nil ELSE Last(ns)
    <3>1. CASE list.length = 0 /\ list.tail = Nil
      BY <2>2, <3>1
    <3>2. CASE list.tail \in Present(list) /\ pos[list.tail] = list.length
      <4>1. ns # <<>> /\ ns[Len(ns)] = list.tail
        BY <2>2, <3>2
      <4> QED
        BY <4>1 DEF Last
    <3> QED
      BY <2>3, <3>1, <3>2
  <2>5. ASSUME NEW p \in 1..Len(ns)
        PROVE  list.backward[ns[p]] = IF p = 1 THEN Nil ELSE ns[p - 1]
    <3> DEFINE n == ns[p]
               b == list.backward[n]
    <3>1. n \in Present(list) /\ pos[n] = p
      BY <2>2
    <3>2. CASE pos[n] = 1 /\ b = Nil
      BY <3>1, <3>2
    <3>3. CASE b \in Present(list) /\ pos[b] = pos[n] - 1
      <4>1. pos[b] \in 1..Len(ns) /\ ns[pos[b]] = b /\ pos[b] = p - 1
        BY <2>2, <3>1, <3>3
      <4>2. p # 1
        BY <4>1
      <4> QED
        BY <4>1, <4>2
    <3> QED
      BY <2>3, <3>1, <3>2, <3>3
  <2>6. DOMAIN ns = 1..Len(ns)
    BY <2>2
  <2> QED
    BY <2>4, <2>5, <2>6 DEF ns, BackwardMirrorsForward
<1> QED
  BY <1>1, InvAlways, PTL

\* as many members have a score as the list has nodes
LEMMA HeldAreNodes ==
    ASSUME IInv, NEW pos, Good(list, pos)
    PROVE  /\ Held = {Member(n) : n \in Present(list)}
           /\ IsFiniteSet(Held) /\ Cardinality(Held) = list.length
<1> DEFINE P == Present(list)
           f == [n \in P |-> Member(n)]
<1>1. /\ \A m \in Members : scores[m] # None <=> \E n \in P : Member(n) = m
      /\ \A n \in P : Member(n) \in Members
      /\ \A a, b \in P : Member(a) = Member(b) => a = b
  BY NodeFacts DEF IInv, Agree, Good, Named, Present
<1>2. Held = {Member(n) : n \in P}
  BY <1>1 DEF Held
<1>3. IsFiniteSet(P) /\ Cardinality(P) = list.length
  BY LengthBounded DEF Good
<1> HIDE DEF P
<1>4. f \in Bijection(P, Held)
  <2>1. f \in [P -> Held]
    BY <1>2
  <2>2. \A a, b \in P : f[a] = f[b] => a = b
    BY <1>1
  <2>3. \A m \in Held : \E n \in P : f[n] = m
    BY <1>2
  <2> QED
    BY <2>1, <2>2, <2>3 DEF Bijection, Injection, Surjection, IsInjective
<1>5. IsFiniteSet(Held) /\ Cardinality(Held) = Cardinality(P)
  BY <1>3, <1>4, FS_Bijection DEF ExistsBijection
<1> QED
  BY <1>2, <1>3, <1>5 DEF P

\* The dictionary and the list hold the same members with the same scores in
\* every reachable state.
THEOREM AgreeAlways == ASSUME NaNs = {} PROVE Spec => []DictionaryAndListAgree
<1>1. IInv => DictionaryAndListAgree
  <2> SUFFICES ASSUME IInv PROVE DictionaryAndListAgree
    OBVIOUS
  <2> DEFINE ns == Linked
  <2>1. PICK pos : Good(list, pos)
    BY DEF IInv
  <2>2. /\ ns \in Seq(Entries) /\ Len(ns) = list.length
        /\ \A p \in 1..Len(ns) : ns[p] \in Present(list)
        /\ \A n \in Present(list) : pos[n] \in 1..Len(ns) /\ ns[pos[n]] = n
    BY <2>1, LinkedIs
  <2>3. Held = {Member(n) : n \in Present(list)} /\ Cardinality(Held) = list.length
    BY <2>1, HeldAreNodes
  <2>4. \A n \in Present(list) : list.score[n] = scores[Member(n)]
    BY DEF IInv, Agree
  <2> HIDE DEF ns
  <2>5. DOMAIN ns = 1..Len(ns)
    BY <2>2
  <2>6. {Member(ns[p]) : p \in DOMAIN ns} = Held
    <3>1. ASSUME NEW p \in DOMAIN ns PROVE Member(ns[p]) \in Held
      BY <2>2, <2>3, <2>5
    <3>2. ASSUME NEW m \in Held PROVE \E p \in DOMAIN ns : m = Member(ns[p])
      <4>1. PICK n \in Present(list) : m = Member(n)
        BY <2>3
      <4> QED
        BY <2>2, <2>5, <4>1
    <3> QED
      BY <3>1, <3>2
  <2> QED
    BY <2>2, <2>3, <2>4, <2>5, <2>6 DEF ns, DictionaryAndListAgree
<1> QED
  BY <1>1, InvAlways, PTL

\* Every link leads to the next node that is tall enough, and its span is the
\* distance to it, in every reachable state.
THEOREM SpansAlways == ASSUME NaNs = {} PROVE Spec => []SpansAreDistances
<1>1. IInv => SpansAreDistances
  <2> SUFFICES ASSUME IInv PROVE SpansAreDistances
    OBVIOUS
  <2> DEFINE ns == Linked
             Position == [n \in ToSet(ns) \cup {Header} |->
                             IF n = Header THEN 0 ELSE CHOOSE p \in DOMAIN ns : ns[p] = n]
             v == list.length
  <2>1. PICK pos : Good(list, pos)
    BY DEF IInv
  <2>2. /\ ns \in Seq(Entries) /\ Len(ns) = v
        /\ \A p \in 1..Len(ns) : ns[p] \in Present(list) /\ pos[ns[p]] = p
        /\ \A n \in Present(list) : pos[n] \in 1..Len(ns) /\ ns[pos[n]] = n
    BY <2>1, LinkedIs
  <2>3. /\ Numbered(list, pos) /\ Heights(list) /\ Links(list, pos)
        /\ list.level \in 1..MaxLevel /\ MaxLevel \in Nat /\ pos[Header] = 0
        /\ \A n \in Stand(list) : pos[n] \in 0..v
        /\ v \in Nat
    BY <2>1, SpotIs, BoundsAssumption DEF Good, Heights, Numbered
  <2>4. \A n \in Stand(list) : Height(list, n) \in Nat
    BY <2>3 DEF Heights, Stand
  <2> HIDE DEF ns, v
  <2>5. DOMAIN ns = 1..Len(ns) /\ Header \notin Present(list) /\ Nil \notin Present(list)
    BY <2>2, NodeFacts DEF Present
  <2>6. ToSet(ns) = Present(list)
    BY <2>2, <2>5 DEF ToSet
  <2>7. DOMAIN Position = Stand(list) /\ \A n \in Stand(list) : Position[n] = pos[n]
    <3>1. DOMAIN Position = Stand(list)
      BY <2>6 DEF Stand
    <3>2. Position[Header] = 0 /\ Header \in Stand(list)
      BY DEF Stand
    <3>3. ASSUME NEW n \in Present(list) PROVE Position[n] = pos[n]
      <4>1. Position[n] = CHOOSE p \in DOMAIN ns : ns[p] = n
        BY <2>5, <2>6
      <4>2. \A p \in DOMAIN ns : ns[p] = n => p = pos[n]
        BY <2>2, <2>5
      <4>3. pos[n] \in DOMAIN ns /\ ns[pos[n]] = n
        BY <2>2, <2>5
      <4> QED
        BY <4>1, <4>2, <4>3
    <3> QED
      BY <2>3, <3>1, <3>2, <3>3 DEF Stand
  <2> HIDE DEF Position
  <2>8. ASSUME NEW n \in Stand(list), NEW i \in 1..Min({list.level, Len(list.forward[n])})
        PROVE  LET next == list.forward[n][i]
                   ahead == {p \in (Position[n] + 1)..Len(ns) : Len(list.forward[ns[p]]) >= i}
               IN  IF ahead = {}
                   THEN next = Nil /\ list.span[n][i] = Len(ns) - Position[n]
                   ELSE next = ns[Min(ahead)] /\ list.span[n][i] = Min(ahead) - Position[n]
    <3> DEFINE q == pos[n]
               next == list.forward[n][i]
               span == list.span[n][i]
               ahead == {p \in (q + 1)..v : Height(list, ns[p]) >= i}
    <3>1. i \in 1..list.level /\ i <= Height(list, n)
      <4> DEFINE S == {list.level, Len(list.forward[n])}
      <4>1. S \subseteq Nat /\ S # {}
        BY <2>3, <2>4 DEF Height
      <4>2. Min(S) \in S /\ \A k \in S : Min(S) <= k
        <5> HIDE DEF S
        <5> QED
          BY <4>1, MinIs
      <4>3. Min(S) \in Nat /\ Min(S) <= list.level /\ Min(S) <= Height(list, n)
        BY <4>1, <4>2 DEF Height
      <4> HIDE DEF S
      <4>4. i \in 1..Min(S)
        BY DEF S
      <4> QED
        BY <2>3, <2>4, <4>3, <4>4
    <3>2. LinkRight(list, pos, n, i)
      BY <2>3, <3>1 DEF Links
    <3>3. q \in 0..v /\ Position[n] = q /\ i \in Nat
      BY <2>3, <2>7, <3>1
    <3> HIDE DEF q, next, span
    <3>4. \A k \in Present(list) : /\ pos[k] \in 1..v
                                   /\ q < pos[k] /\ Height(list, k) >= i => pos[k] \in ahead
      BY <2>2, <2>3, <3>3
    <3>5. \A p \in ahead : /\ p \in Nat /\ q < p /\ p \in 1..v
                           /\ ns[p] \in Present(list) /\ Height(list, ns[p]) >= i /\ pos[ns[p]] = p
      BY <2>2, <2>3, <3>3
    <3> HIDE DEF ahead
    <3>6. CASE ahead = {}
      <4>1. ~(next \in Present(list) /\ Height(list, next) >= i /\ q < pos[next])
        BY <3>4, <3>6
      <4>2. next = Nil /\ span = v - q
        BY <3>2, <4>1 DEF LinkRight, next, span, q, v
      <4> QED
        BY <2>2, <3>3, <3>6, <4>2 DEF next, span, ahead, Height
    <3>7. CASE ahead # {}
      <4>1. Min(ahead) \in ahead /\ \A p \in ahead : Min(ahead) <= p
        BY <3>5, <3>7, MinIs
      <4> DEFINE a == Min(ahead)
                 k == ns[a]
      <4>2. /\ a \in Nat /\ q < a /\ a \in 1..v
            /\ k \in Present(list) /\ Height(list, k) >= i /\ pos[k] = a
        BY <3>5, <4>1
      <4> HIDE DEF a, k
      <4>3. ~\A j \in Present(list) : Height(list, j) >= i => pos[j] <= pos[n]
        BY <3>3, <4>2 DEF q
      <4>4. /\ next \in Present(list) /\ Height(list, next) >= i /\ q < pos[next]
            /\ span = pos[next] - q
            /\ \A j \in Present(list) : Height(list, j) >= i /\ q < pos[j] => pos[next] <= pos[j]
        BY <3>2, <4>3 DEF LinkRight, next, span, q
      <4>5. pos[next] <= a
        BY <4>2, <4>4
      <4>6. a <= pos[next]
        BY <3>4, <4>1, <4>4 DEF a
      <4>7. pos[next] = a
        BY <3>4, <4>2, <4>4, <4>5, <4>6
      <4>8. next = ns[a] /\ span = a - q
        BY <2>2, <4>4, <4>7
      <4> QED
        BY <2>2, <3>3, <3>7, <4>8 DEF next, span, ahead, Height, a
    <3> QED
      BY <3>6, <3>7
  <2> QED
    BY <2>7, <2>8 DEF SpansAreDistances, ns, Position
<1> QED
  BY <1>1, InvAlways, PTL

-----------------------------------------------------------------------------
(***************************************************************************)
(* Ranks.                                                                  *)
(***************************************************************************)
\* the nodes stand in the order that the dictionary determines
LEMMA OrderIs ==
    ASSUME NaNs = {}, IInv, NEW pos, Good(list, pos),
           NEW j \in Present(list), NEW n \in Present(list)
    PROVE  /\ pos[j] < pos[n] <=> Precedes(Member(j), Member(n))
           /\ pos[j] < pos[n] <=> LessThan(list, j, list.score[n], Member(n))
           /\ pos[j] \in 1..list.length /\ pos[n] \in 1..list.length
           /\ list.score[j] \in Int /\ list.score[n] \in Int
           /\ Member(j) \in Nat /\ Member(n) \in Nat
<1>1. /\ list \in Lists /\ Named(list) /\ Sorted(list, pos) /\ Numbered(list, pos)
      /\ j \in Entries /\ n \in Entries
  BY DEF Good, Present
<1>2. /\ list.score[j] = scores[Member(j)] /\ list.score[n] = scores[Member(n)]
  BY DEF IInv, Agree
<1>3. list.score[j] \in Numbers /\ list.score[n] \in Numbers
  BY <1>1 DEF Named, Lists
<1>4. /\ list.score[j] \in Int /\ list.score[n] \in Int
      /\ Member(j) \in Nat /\ Member(n) \in Nat
      /\ LessThan(list, j, list.score[n], Member(n))
            <=> list.score[j] < list.score[n]
                \/ (list.score[j] = list.score[n] /\ Member(j) < Member(n))
      /\ LessThan(list, n, list.score[j], Member(j))
            <=> list.score[n] < list.score[j]
                \/ (list.score[n] = list.score[j] /\ Member(n) < Member(j))
  BY <1>1, <1>3, LessThanIs
<1>5. pos[j] \in 1..list.length /\ pos[n] \in 1..list.length
  BY <1>1, SpotIs DEF Stand
<1>6. pos[j] < pos[n] <=> LessThan(list, j, list.score[n], Member(n))
  <2>1. CASE pos[j] < pos[n]
    BY <1>1, <2>1 DEF Sorted
  <2>2. CASE pos[n] < pos[j]
    <3>1. LessThan(list, n, list.score[j], Member(j))
      BY <1>1, <2>2 DEF Sorted
    <3>2. ~LessThan(list, j, list.score[n], Member(n))
      <4> HIDE DEF Member
      <4> QED
        BY <1>4, <3>1
    <3> QED
      BY <1>5, <2>2, <3>2
  <2>3. CASE pos[j] = pos[n]
    <3>1. j = n
      BY <1>1, <2>3 DEF Numbered
    <3> QED
      BY <1>4, <1>5, <3>1
  <2> QED
    BY <1>5, <2>1, <2>2, <2>3
<1>7. Precedes(Member(j), Member(n)) <=> LessThan(list, j, list.score[n], Member(n))
  BY <1>2, <1>4 DEF Precedes, Below, Equal
<1> QED
  BY <1>4, <1>5, <1>6, <1>7

\* a member's place in the dictionary is the position of its node
LEMMA PlaceIs ==
    ASSUME NaNs = {}, IInv, NEW pos, Good(list, pos), NEW n \in Present(list)
    PROVE  Place(Member(n)) = pos[n]
<1> DEFINE m == Member(n)
           before == {k \in Held : Precedes(k, m)}
           q == pos[n]
           ns == Linked
           f == [p \in 1..(q - 1) |-> Member(ns[p])]
<1>1. q \in Nat \ {0}
  BY OrderIs
<1>2. /\ \A p \in 1..Len(ns) : ns[p] \in Present(list) /\ pos[ns[p]] = p
      /\ \A k \in Present(list) : pos[k] \in 1..Len(ns) /\ ns[pos[k]] = k
      /\ q \in 1..Len(ns) /\ Len(ns) \in Nat
  <2>1. /\ ns \in Seq(Entries)
        /\ \A p \in 1..Len(ns) : ns[p] \in Present(list) /\ pos[ns[p]] = p
        /\ \A k \in Present(list) : pos[k] \in 1..Len(ns) /\ ns[pos[k]] = k
    BY LinkedIs
  <2> QED
    BY <2>1
<1>3. Held = {Member(k) : k \in Present(list)}
  BY HeldAreNodes
<1>4. \A a, b \in Present(list) : Member(a) = Member(b) => a = b
  BY DEF Good, Named
<1>5. \A k \in Present(list) : pos[k] \in Int /\ (pos[k] < q <=> Precedes(Member(k), m))
  BY OrderIs
<1> HIDE DEF m, q, ns
<1>6. \A p \in 1..(q - 1) : p \in 1..Len(ns) /\ p < q /\ p \in Nat
  BY <1>1, <1>2
<1>7. f \in Bijection(1..(q - 1), before)
  <2>1. ASSUME NEW p \in 1..(q - 1) PROVE Member(ns[p]) \in before
    <3>1. ns[p] \in Present(list) /\ pos[ns[p]] < q
      BY <1>2, <1>6
    <3> QED
      BY <1>3, <1>5, <3>1
  <2>2. ASSUME NEW a \in 1..(q - 1), NEW b \in 1..(q - 1), Member(ns[a]) = Member(ns[b])
        PROVE  a = b
    <3>1. ns[a] \in Present(list) /\ ns[b] \in Present(list) /\ pos[ns[a]] = a /\ pos[ns[b]] = b
      BY <1>2, <1>6
    <3> QED
      BY <1>4, <2>2, <3>1
  <2>3. ASSUME NEW k \in before PROVE \E p \in 1..(q - 1) : k = Member(ns[p])
    <3>1. PICK c \in Present(list) : k = Member(c)
      BY <1>3
    <3>2. pos[c] < q /\ pos[c] \in 1..Len(ns) /\ ns[pos[c]] = c
      BY <1>2, <1>5, <3>1
    <3>3. pos[c] \in 1..(q - 1)
      BY <1>1, <3>2
    <3> QED
      BY <3>1, <3>2, <3>3
  <2> HIDE DEF before
  <2>4. f \in [1..(q - 1) -> before]
    BY <2>1
  <2>5. \A a, b \in 1..(q - 1) : f[a] = f[b] => a = b
    BY <2>2
  <2>6. \A k \in before : \E p \in 1..(q - 1) : f[p] = k
    BY <2>3
  <2> HIDE DEF f
  <2> QED
    BY <2>4, <2>5, <2>6 DEF Bijection, Injection, Surjection, IsInjective
<1>8. IsFiniteSet(1..(q - 1)) /\ Cardinality(1..(q - 1)) = q - 1
  <2>1. 1 \in Int /\ q - 1 \in Int
    BY <1>1
  <2>2. Cardinality(1..(q - 1)) = IF 1 > q - 1 THEN 0 ELSE (q - 1) - 1 + 1
    BY <2>1, FS_Interval
  <2> QED
    BY <1>1, <2>1, <2>2, FS_Interval
<1>9. Cardinality(before) = q - 1
  <2> HIDE DEF before, f
  <2> QED
    BY <1>7, <1>8, FS_Bijection DEF ExistsBijection
<1>10. Place(m) = Cardinality(before) + 1
  BY DEF Place
<1> HIDE DEF before
<1> QED
  BY <1>1, <1>9, <1>10 DEF m, q

\* the rank of a member is the number of nodes before its own
LEMMA SkipRankIs ==
    ASSUME NaNs = {}, IInv, NEW pos, Good(list, pos), NEW n \in Present(list)
    PROVE  SkipRank(list, list.score[n], Member(n)) = pos[n] - 1
<1> DEFINE l == list
           m == Member(n)
           s == l.score[n]
           passed == {p \in Places : \/ Below(l.score[p.node], s)
                                     \/ Equal(l.score[p.node], s) /\ Member(p.node) <= m}
           at == Descend(l, passed)
           found == {i \in 1..l.level : /\ at[i].node # Header /\ Member(at[i].node) = m
                                        /\ Equal(l.score[at[i].node], s)}
           r == pos[n]
<1>1. SkipRank(l, s, m) = IF found = {} THEN None ELSE at[Max(found)].pos - 1
  BY DEF SkipRank
<1>2. /\ Numbered(l, pos) /\ Heights(l) /\ Links(l, pos) /\ l.level \in 1..MaxLevel
      /\ l.level \in Nat \ {0} /\ MaxLevel \in Nat
      /\ \A k \in Present(l) : Height(l, k) \in 1..l.level
      /\ \A a, b \in Present(l) : Member(a) = Member(b) => a = b
      /\ pos[Header] = 0
      /\ \A a, b \in Present(l) : pos[a] = pos[b] => a = b
  BY BoundsAssumption DEF Good, Heights, Named, Numbered
<1>3. r \in 1..l.length /\ l.length \in Nat
  BY <1>2, OrderIs DEF Numbered
<1>4. Marks(l, pos, passed, r)
  <2>1. ASSUME NEW k \in Present(l) PROVE Spot(pos, k) \in passed <=> pos[k] <= r
    <3>1. Spot(pos, k) \in Places /\ Spot(pos, k).node = k
      BY <1>2, SpotIs DEF Stand
    <3>2. Spot(pos, k) \in passed <=> l.score[k] < s \/ (l.score[k] = s /\ Member(k) <= m)
      BY <3>1 DEF Below, Equal
    <3>3. /\ pos[n] < pos[k] <=> LessThan(l, n, l.score[k], Member(k))
          /\ pos[k] \in Int /\ r \in Int /\ l.score[k] \in Int /\ s \in Int
          /\ Member(k) \in Nat /\ m \in Nat
      BY OrderIs
    <3>4. LessThan(l, n, l.score[k], Member(k))
            <=> s < l.score[k] \/ (s = l.score[k] /\ m < Member(k))
      BY DEF LessThan, Below
    <3> DEFINE a == l.score[k]
               b == Member(k)
    <3> HIDE DEF a, b, s, m, passed, r
    <3>5. (a < s \/ (a = s /\ b <= m)) <=> ~(s < a \/ (s = a /\ m < b))
      BY <3>3 DEF a, b
    <3>6. pos[k] <= r <=> ~(pos[n] < pos[k])
      BY <3>3 DEF r
    <3> QED
      BY <3>2, <3>3, <3>4, <3>5, <3>6 DEF a, b
  <2>2. passed \subseteq Places
    OBVIOUS
  <2> HIDE DEF passed, r
  <2> QED
    BY <1>3, <2>1, <2>2 DEF Marks
<1>5. \A i \in 1..l.level : LastUpTo(l, pos, r, i, at[i])
  <2> HIDE DEF l, passed, r
  <2> QED
    BY <1>2, <1>4, SearchReaches
<1> HIDE DEF at, passed
<1>6. 1 \in found
  <2>1. 1 \in 1..l.level /\ Height(l, n) >= 1
    BY <1>2
  <2>2. LastUpTo(l, pos, r, 1, at[1])
    BY <1>5, <2>1
  <2> DEFINE u == at[1].node
  <2>3. u \in Stand(l) /\ at[1].pos = pos[u] /\ at[1].pos <= r
    BY <2>2 DEF LastUpTo
  <2>4. r <= r /\ (Height(l, n) >= 1 /\ pos[n] <= r => pos[n] <= at[1].pos)
    BY <1>3, <2>2 DEF LastUpTo
  <2>5. pos[u] \in Int
    BY <1>2, <2>3, SpotIs
  <2> HIDE DEF u, r, l
  <2>6. pos[u] = r
    BY <1>3, <2>1, <2>3, <2>4, <2>5 DEF r
  <2>7. u # Header
    BY <1>2, <1>3, <2>6
  <2>8. u = n
    BY <1>2, <2>3, <2>6, <2>7 DEF Stand, r, l
  <2> QED
    BY <2>1, <2>7, <2>8 DEF u, Equal, l
<1>7. Max(found) \in found
  <2>1. found \subseteq 1..l.level /\ found # {}
    BY <1>6
  <2> HIDE DEF found
  <2> QED
    BY <1>2, <2>1, MaxIs
<1> DEFINE x == Max(found)
<1>8. x \in 1..l.level /\ at[x].node # Header /\ Member(at[x].node) = m
  BY <1>7
<1> HIDE DEF x
<1>9. at[x].node = n /\ at[x].pos = r
  <2>1. at[x].node \in Stand(l) /\ at[x].pos = pos[at[x].node]
    BY <1>5, <1>8 DEF LastUpTo
  <2>2. at[x].node \in Present(l)
    BY <1>8, <2>1 DEF Stand
  <2>3. at[x].node = n
    BY <1>2, <1>8, <2>2
  <2> QED
    BY <2>1, <2>3
<1> HIDE DEF r
<1> QED
  BY <1>1, <1>6, <1>9 DEF x, r

\* The rank that the spans add up to is the number of members before, in
\* every reachable state.
THEOREM RanksAlways == ASSUME NaNs = {} PROVE Spec => []RanksAreRight
<1>1. IInv => RanksAreRight
  <2> SUFFICES ASSUME IInv, NEW m \in Held PROVE SkipRank(list, scores[m], m) = Place(m) - 1
    BY DEF RanksAreRight
  <2>1. PICK pos : Good(list, pos)
    BY DEF IInv
  <2>2. PICK n \in Present(list) : m = Member(n)
    BY <2>1, HeldAreNodes
  <2>3. list.score[n] = scores[m]
    BY <2>2 DEF IInv, Agree
  <2>4. SkipRank(list, list.score[n], Member(n)) = pos[n] - 1
    BY <2>1, SkipRankIs
  <2>5. Place(Member(n)) = pos[n]
    BY <2>1, PlaceIs
  <2> QED
    BY <2>2, <2>3, <2>4, <2>5
<1> QED
  BY <1>1, InvAlways, PTL

-----------------------------------------------------------------------------
(***************************************************************************)
(* Ranges.                                                                 *)
(***************************************************************************)
LEMMA MinOfTwo ==
    ASSUME NEW a \in Int, NEW b \in Int
    PROVE  Min({a, b}) = IF a < b THEN a ELSE b
<1>1. \E x \in {a, b} : \A y \in {a, b} : x <= y
  <2>1. CASE a <= b
    BY <2>1
  <2>2. CASE b <= a
    BY <2>2
  <2> QED
    BY <2>1, <2>2
<1>2. Min({a, b}) \in {a, b} /\ \A y \in {a, b} : Min({a, b}) <= y
  BY <1>1 DEF Min
<1> DEFINE x == Min({a, b})
<1>3. x \in {a, b} /\ x <= a /\ x <= b
  BY <1>2
<1> HIDE DEF x
<1> QED
  BY <1>3 DEF x

\* on the lowest level a search stops at the last node it may pass
LEMMA BottomIs ==
    ASSUME NEW l, NEW pos, Numbered(l, pos), Heights(l), NEW r \in 0..l.length,
           NEW s, LastUpTo(l, pos, r, 1, s)
    PROVE  s.pos = r /\ s.node \in Stand(l) /\ pos[s.node] = r
<1>1. s.node \in Stand(l) /\ s.pos = pos[s.node] /\ s.pos <= r
  BY DEF LastUpTo
<1>2. pos[s.node] \in 0..l.length /\ l.length \in Nat
  BY <1>1, SpotIs DEF Numbered
<1>3. r <= s.pos
  <2>1. CASE r = 0
    BY <1>1, <1>2, <2>1
  <2>2. CASE r # 0
    <3>1. PICK j \in Present(l) : pos[j] = r
      BY <1>2, <2>2 DEF Numbered
    <3>2. Height(l, j) >= 1
      BY BoundsAssumption DEF Heights
    <3> QED
      BY <3>1, <3>2 DEF LastUpTo
  <2> QED
    BY <2>1, <2>2
<1>4. s.pos = r
  BY <1>1, <1>2, <1>3
<1> QED
  BY <1>1, <1>4

\* the search by position finds the node of that rank
LEMMA NodeByRankIs ==
    ASSUME NEW l, NEW pos, Good(l, pos), NEW rank \in Nat, rank < l.length
    PROVE  NodeByRank(l, rank) \in Present(l) /\ pos[NodeByRank(l, rank)] = rank + 1
<1> DEFINE passed == {p \in Places : p.pos <= rank + 1}
           at == Descend(l, passed)
           found == {i \in 1..l.level : at[i].pos = rank + 1}
           r == rank + 1
<1>1. /\ Numbered(l, pos) /\ Heights(l) /\ Links(l, pos) /\ l.level \in Nat \ {0}
      /\ l.length \in Nat
  BY BoundsAssumption DEF Good, Heights, Numbered
<1>2. NodeByRank(l, rank) = IF found = {} THEN Nil ELSE at[Max(found)].node
  BY <1>1 DEF NodeByRank
<1>3. r \in 0..l.length /\ r # 0
  BY <1>1
<1>4. Marks(l, pos, passed, r)
  <2>1. ASSUME NEW k \in Present(l) PROVE Spot(pos, k) \in passed <=> pos[k] <= r
    BY <1>1, SpotIs DEF Stand
  <2>2. passed \subseteq Places
    OBVIOUS
  <2> HIDE DEF passed, r
  <2> QED
    BY <1>3, <2>1, <2>2 DEF Marks
<1>5. \A i \in 1..l.level : LastUpTo(l, pos, r, i, at[i])
  <2> HIDE DEF passed, r
  <2> QED
    BY <1>1, <1>4, SearchReaches
<1> HIDE DEF at, passed
<1>6. 1 \in found
  <2>1. 1 \in 1..l.level
    BY <1>1
  <2>2. at[1].pos = r
    <3> HIDE DEF r
    <3> QED
      BY <1>1, <1>3, <1>5, <2>1, BottomIs
  <2> QED
    BY <2>1, <2>2
<1>7. Max(found) \in found
  <2>1. found \subseteq 1..l.level /\ found # {}
    BY <1>6
  <2> HIDE DEF found
  <2> QED
    BY <1>1, <2>1, MaxIs
<1> DEFINE x == Max(found)
<1>8. x \in 1..l.level /\ at[x].pos = r
  BY <1>7
<1> HIDE DEF x
<1>9. at[x].node \in Stand(l) /\ pos[at[x].node] = r
  BY <1>5, <1>8 DEF LastUpTo
<1>10. at[x].node # Header
  BY <1>1, <1>3, <1>9 DEF Numbered
<1> QED
  BY <1>2, <1>6, <1>9, <1>10 DEF x, Stand

Clamped(start, stop, len, a, b) ==
    /\ a \in Nat /\ b \in Int /\ b < len
    /\ a = IF start < 0 THEN (IF start + len < 0 THEN 0 ELSE start + len) ELSE start
    /\ b = IF (IF stop < 0 THEN stop + len ELSE stop) < len - 1
           THEN (IF stop < 0 THEN stop + len ELSE stop) ELSE len - 1

LEMMA ClampIs ==
    ASSUME NEW start \in Int, NEW stop \in Int, NEW len \in Nat
    PROVE  Clamped(start, stop, len, Clamp(start, stop, len).start, Clamp(start, stop, len).stop)
<1> DEFINE i == IF start < 0 THEN start + len ELSE start
           j == IF stop < 0 THEN stop + len ELSE stop
           a == Max({0, i})
           b == Min({len - 1, j})
<1>1. i \in Int /\ j \in Int /\ len - 1 \in Int
  OBVIOUS
<1> HIDE DEF i, j
<1>2. a \in {0, i} /\ a >= 0 /\ a >= i
  BY <1>1, MaxOfTwo
<1>3. b = IF len - 1 < j THEN len - 1 ELSE j
  BY <1>1, MinOfTwo
<1>4. Clamp(start, stop, len).start = a /\ Clamp(start, stop, len).stop = b
  BY DEF Clamp, i, j
<1> HIDE DEF a, b
<1>5. /\ a \in Nat /\ b \in Int /\ b < len
      /\ a = IF i < 0 THEN 0 ELSE i
      /\ b = IF j < len - 1 THEN j ELSE len - 1
  BY <1>1, <1>2, <1>3
<1>6. a = IF start < 0 THEN (IF start + len < 0 THEN 0 ELSE start + len) ELSE start
  BY <1>5 DEF i
<1> QED
  BY <1>4, <1>5, <1>6 DEF Clamped, j

\* ns holds the nodes with the positions a + 1 to b + 1
Ranged(l, pos, a, b, ns) ==
    /\ ns \in Seq(Entries)
    /\ Len(ns) = IF a > b THEN 0 ELSE b - a + 1
    /\ \A p \in 1..Len(ns) : ns[p] \in Present(l) /\ pos[ns[p]] = a + p

LEMMA RangeIs ==
    ASSUME NEW l, NEW pos, Good(l, pos), NEW start \in Int, NEW stop \in Int,
           NEW a, NEW b, Clamped(start, stop, l.length, a, b),
           Clamp(start, stop, l.length).start = a, Clamp(start, stop, l.length).stop = b
    PROVE  Ranged(l, pos, a, b, RangeEntries(l, start, stop))
<1> DEFINE first == NodeByRank(l, a)
           nodes == From(l, first)
           v == l.length
           res == RangeEntries(l, start, stop)
<1>1. a \in Nat /\ b \in Int /\ b < v /\ v \in Nat
  BY DEF Clamped, Good, Numbered
<1>2. res = IF a > b \/ a >= v THEN <<>>
            ELSE SubSeq(nodes, 1, Min({Len(nodes), b - a + 1}))
  BY DEF RangeEntries
<1> HIDE DEF res
<1>3. CASE a > b
  <2>1. res = <<>>
    BY <1>2, <1>3
  <2> QED
    BY <1>3, <2>1 DEF Ranged, res
<1>4. CASE ~(a > b)
  <2>1. a < v /\ ~(a >= v) /\ a <= b
    BY <1>1, <1>4
  <2>2. first \in Present(l) /\ pos[first] = a + 1
    <3> HIDE DEF first
    <3> QED
      BY <1>1, <2>1, NodeByRankIs DEF first
  <2>3. Listing(l, pos, a + 1, nodes)
    <3>1. Numbered(l, pos) /\ Heights(l) /\ Links(l, pos)
      BY DEF Good
    <3>2. Listing(l, pos, pos[first], From(l, first))
      <4> HIDE DEF first
      <4> QED
        BY <2>2, <3>1, FromLists
    <3> QED
      BY <2>2, <3>2
  <2> HIDE DEF first, nodes
  <2>4. /\ nodes \in Seq(Entries) /\ Len(nodes) = v - (a + 1) + 1
        /\ \A p \in 1..Len(nodes) : nodes[p] \in Present(l) /\ pos[nodes[p]] = (a + 1) + p - 1
    BY <2>3 DEF Listing
  <2> DEFINE c == b - a + 1
  <2>5. Min({Len(nodes), c}) = c /\ c \in Nat /\ c <= Len(nodes) /\ Len(nodes) \in Nat
    <3>1. Len(nodes) \in Int /\ c \in Int /\ c <= Len(nodes) /\ c \in Nat /\ Len(nodes) \in Nat
      BY <1>1, <2>1, <2>4
    <3> HIDE DEF c, v
    <3>2. Min({Len(nodes), c}) = IF Len(nodes) < c THEN Len(nodes) ELSE c
      BY <3>1, MinOfTwo
    <3> QED
      BY <3>1, <3>2
  <2>6. res = SubSeq(nodes, 1, c)
    BY <1>2, <1>4, <2>1, <2>5
  <2> HIDE DEF c, v
  <2>7. /\ res \in Seq(Entries) /\ Len(res) = c
        /\ \A p \in 1..c : res[p] = nodes[p]
    BY <2>4, <2>5, <2>6
  <2>8. ASSUME NEW p \in 1..c PROVE res[p] \in Present(l) /\ pos[res[p]] = a + p
    <3>1. p \in 1..Len(nodes) /\ (a + 1) + p - 1 = a + p
      BY <1>1, <2>5
    <3> QED
      BY <2>4, <2>7, <3>1
  <2> QED
    BY <1>4, <2>7, <2>8 DEF Ranged, res, c
<1> QED
  BY <1>3, <1>4

\* res holds the elements a + 1 to b + 1 of order
Sliced(order, a, b, res) ==
    /\ Len(res) = IF a > b THEN 0 ELSE b - a + 1
    /\ res = [p \in 1..Len(res) |-> order[a + p]]

LEMMA SliceIs ==
    ASSUME NEW S, NEW order \in Seq(S), NEW start \in Int, NEW stop \in Int,
           NEW a, NEW b, Clamped(start, stop, Len(order), a, b)
    PROVE  Sliced(order, a, b, Slice(order, start, stop))
<1> DEFINE len == Len(order)
           i == IF start < 0 THEN start + len ELSE start
           j == IF stop < 0 THEN stop + len ELSE stop
           kept == {p \in 1..len : i < p /\ p <= j + 1}
           res == Slice(order, start, stop)
<1>1. len \in Nat /\ DOMAIN order = 1..len
  OBVIOUS
<1>2. res = IF kept = {} THEN <<>> ELSE SubSeq(order, Min(kept), Max(kept))
  BY <1>1 DEF Slice
<1> HIDE DEF res
<1>3. /\ a \in Nat /\ b \in Int /\ b < len /\ i \in Int /\ j \in Int
      /\ a = (IF i < 0 THEN 0 ELSE i)
      /\ b = (IF j < len - 1 THEN j ELSE len - 1)
  <2>1. /\ a \in Nat /\ b \in Int /\ b < len
        /\ b = (IF j < len - 1 THEN j ELSE len - 1)
        /\ a = (IF start < 0 THEN (IF start + len < 0 THEN 0 ELSE start + len) ELSE start)
    BY DEF Clamped
  <2>2. a = (IF i < 0 THEN 0 ELSE i)
    BY <2>1
  <2> HIDE DEF len
  <2>3. i \in Int /\ j \in Int
    BY <1>1
  <2> QED
    BY <2>1, <2>2, <2>3
<1> HIDE DEF i, j, len
<1>4. \A p \in Int : p \in kept <=> a < p /\ p <= b + 1
  <2>1. ASSUME NEW p \in Int PROVE p \in kept <=> a < p /\ p <= b + 1
    <3>1. p \in kept <=> 1 <= p /\ p <= len /\ i < p /\ p <= j + 1
      BY <1>1
    <3>2. a < p <=> 1 <= p /\ i < p
      BY <1>3
    <3>3. p <= b + 1 <=> p <= len /\ p <= j + 1
      <4>1. CASE j < len - 1
        BY <1>1, <1>3, <4>1
      <4>2. CASE ~(j < len - 1)
        BY <1>1, <1>3, <4>2
      <4> QED
        BY <4>1, <4>2
    <3> QED
      BY <3>1, <3>2, <3>3
  <2> QED
    BY <2>1
<1>5. kept \subseteq 1..len /\ kept \subseteq Nat
  BY <1>1
<1> HIDE DEF kept
<1>6. CASE a > b
  <2>1. kept = {}
    <3>1. ASSUME NEW p \in kept PROVE FALSE
      <4>1. p \in Int
        BY <1>5
      <4> QED
        BY <1>3, <1>4, <1>6, <4>1
    <3> QED
      BY <3>1
  <2>2. res = <<>>
    BY <1>2, <2>1
  <2>3. res = [p \in 1..0 |-> order[a + p]] /\ Len(res) = 0
    BY <2>2
  <2> QED
    BY <1>6, <2>3 DEF Sliced, res
<1>7. CASE ~(a > b)
  <2>1. a + 1 \in kept /\ b + 1 \in kept
    BY <1>3, <1>4, <1>7
  <2>2. Min(kept) = a + 1
    <3> DEFINE x == Min(kept)
    <3>1. x \in kept /\ x <= a + 1
      BY <1>5, <2>1, MinIs
    <3> HIDE DEF x
    <3>2. x \in Int
      BY <1>5, <3>1
    <3>3. a < x
      BY <1>4, <3>1, <3>2
    <3> QED
      BY <1>3, <3>1, <3>2, <3>3 DEF x
  <2>3. Max(kept) = b + 1
    <3> DEFINE x == Max(kept)
    <3>1. x \in kept /\ b + 1 <= x
      BY <1>1, <1>5, <2>1, MaxIs
    <3> HIDE DEF x
    <3>2. x \in Int
      BY <1>5, <3>1
    <3>3. x <= b + 1
      BY <1>4, <3>1, <3>2
    <3> QED
      BY <1>3, <3>1, <3>2, <3>3 DEF x
  <2>4. res = SubSeq(order, a + 1, b + 1)
    BY <1>2, <2>1, <2>2, <2>3
  <2> DEFINE c == b - a + 1
  <2>5. c \in Nat /\ a + 1 \in 1..len /\ b + 1 \in 1..len /\ (b + 1) - (a + 1) + 1 = c
    BY <1>3, <1>5, <1>7, <2>1
  <2>6. Len(res) = c /\ \A p \in 1..c : res[p] = order[a + p]
    <3> DEFINE u == a + 1
               w == b + 1
    <3>2. /\ u \in 1..Len(order) /\ w \in 1..Len(order)
          /\ w - u + 1 = c /\ c \in Nat
      BY <2>5 DEF len
    <3>3. res = SubSeq(order, u, w)
      BY ONLY <2>4
    <3> HIDE DEF u, w, c
    <3>4. u \in Nat /\ w \in Nat
      BY <3>2
    <3>5. Len(res) = c
      BY <3>2, <3>3, <3>4
    <3>6. ASSUME NEW p \in 1..c PROVE res[p] = order[u + p - 1]
      BY <3>2, <3>3, <3>4
    <3>1. Len(res) = c /\ \A p \in 1..c : res[p] = order[(a + 1) + p - 1]
      BY <3>5, <3>6 DEF u
    <3>7. ASSUME NEW p \in 1..c PROVE (a + 1) + p - 1 = a + p
      BY <1>3, <2>5
    <3> QED
      BY <3>1, <3>7
  <2>7. res \in Seq(S)
    BY <1>1, <2>4, <2>5 DEF len
  <2>8. res = [p \in 1..Len(res) |-> res[p]]
    BY <2>7
  <2> HIDE DEF c
  <2>9. res = [p \in 1..Len(res) |-> order[a + p]]
    BY <2>6, <2>8
  <2> QED
    BY <1>7, <2>6, <2>9 DEF Sliced, res, c
<1> QED
  BY <1>6, <1>7

\* InOrder holds the members of the nodes by position
LEMMA InOrderIs ==
    ASSUME NaNs = {}, IInv, NEW pos, Good(list, pos)
    PROVE  /\ InOrder \in Seq(Members) /\ Len(InOrder) = list.length
           /\ \A n \in Present(list) : InOrder[pos[n]] = Member(n)
<1> DEFINE v == list.length
           At(p) == CHOOSE m \in Held : Place(m) = p
<1>1. v \in Nat /\ Cardinality(Held) = v /\ Held = {Member(n) : n \in Present(list)}
  BY HeldAreNodes DEF Good, Numbered
<1>2. InOrder = [p \in 1..v |-> At(p)]
  BY <1>1 DEF InOrder
<1>3. ASSUME NEW n \in Present(list)
      PROVE  pos[n] \in 1..v /\ At(pos[n]) = Member(n)
  <2>1. pos[n] \in 1..v
    BY OrderIs
  <2>2. Member(n) \in Held /\ Place(Member(n)) = pos[n]
    BY <1>1, PlaceIs
  <2>3. ASSUME NEW m \in Held, Place(m) = pos[n] PROVE m = Member(n)
    <3>1. PICK k \in Present(list) : m = Member(k)
      BY <1>1
    <3>2. pos[k] = pos[n]
      BY <2>3, <3>1, PlaceIs
    <3>3. k = n
      BY <3>2 DEF Good, Numbered
    <3> QED
      BY <3>1, <3>3
  <2>4. At(pos[n]) \in Held /\ Place(At(pos[n])) = pos[n]
    BY <2>2
  <2> QED
    BY <2>1, <2>3, <2>4
<1>4. ASSUME NEW p \in 1..v PROVE At(p) \in Members
  <2>1. PICK n \in Present(list) : pos[n] = p
    BY DEF Good, Numbered
  <2> QED
    BY <1>3, <2>1, NodeFacts DEF Present
<1> HIDE DEF v, At
<1>5. InOrder \in Seq(Members) /\ Len(InOrder) = v
  <2>1. InOrder \in [1..v -> Members]
    BY <1>2, <1>4
  <2> QED
    BY <1>1, <2>1, RowIs
<1>6. ASSUME NEW n \in Present(list) PROVE InOrder[pos[n]] = Member(n)
  BY <1>2, <1>3
<1> QED
  BY <1>5, <1>6 DEF v

\* the members of the nodes that a range returns are a slice of the order
LEMMA RangeIsSlice ==
    ASSUME NaNs = {}, IInv, NEW pos, Good(list, pos), NEW start \in Int, NEW stop \in Int,
           NEW ns, ns = RangeEntries(list, start, stop)
    PROVE  [p \in DOMAIN ns |-> Member(ns[p])] = Slice(InOrder, start, stop)
<1> DEFINE v == list.length
           a == Clamp(start, stop, v).start
           b == Clamp(start, stop, v).stop
           order == InOrder
           sl == Slice(order, start, stop)
<1>1. /\ order \in Seq(Members) /\ Len(order) = v /\ v \in Nat
      /\ \A n \in Present(list) : order[pos[n]] = Member(n)
  BY InOrderIs DEF Good, Numbered
<1>2. Clamped(start, stop, v, a, b)
  BY <1>1, ClampIs
<1> HIDE DEF order
<1>3. Ranged(list, pos, a, b, ns)
  <2>1. a = Clamp(start, stop, v).start /\ b = Clamp(start, stop, v).stop
    OBVIOUS
  <2> HIDE DEF a, b
  <2> QED
    BY <1>2, <2>1, RangeIs
<1>4. Sliced(order, a, b, sl)
  <2> HIDE DEF a, b, v
  <2> QED
    BY <1>1, <1>2, SliceIs
<1> HIDE DEF sl, a, b, v
<1>5. /\ ns \in Seq(Entries) /\ DOMAIN ns = 1..Len(ns)
      /\ Len(ns) = (IF a > b THEN 0 ELSE b - a + 1)
      /\ \A p \in 1..Len(ns) : ns[p] \in Present(list) /\ pos[ns[p]] = a + p
  BY <1>3 DEF Ranged
<1>6. Len(sl) = (IF a > b THEN 0 ELSE b - a + 1) /\ sl = [p \in 1..Len(sl) |-> order[a + p]]
  BY <1>4 DEF Sliced
<1> DEFINE c == Len(ns)
<1>7. c = Len(sl) /\ DOMAIN ns = 1..c
  BY <1>5, <1>6
<1>8. \A p \in 1..c : Member(ns[p]) = order[a + p]
  BY <1>1, <1>5
<1> HIDE DEF c
<1>9. sl = [p \in 1..c |-> order[a + p]]
  BY <1>6, <1>7
<1>10. [p \in DOMAIN ns |-> Member(ns[p])] = [p \in 1..c |-> order[a + p]]
  BY <1>7, <1>8
<1> QED
  BY <1>9, <1>10 DEF sl, order

\* the members of the nodes that a reversed range returns are a slice of the
\* reversed order
LEMMA RevrangeIsSlice ==
    ASSUME NaNs = {}, IInv, NEW pos, Good(list, pos), NEW start \in Int, NEW stop \in Int,
           NEW ns, ns = RevrangeEntries(list, start, stop, Len(InOrder))
    PROVE  [p \in DOMAIN ns |-> Member(ns[p])] = Slice(Reverse(InOrder), start, stop)
<1> DEFINE v == list.length
           a == Clamp(start, stop, v).start
           b == Clamp(start, stop, v).stop
           order == InOrder
           rev == Reverse(order)
           sl == Slice(rev, start, stop)
           low == v - 1 - b
           high == v - 1 - a
           ms == RangeEntries(list, low, high)
<1>1. /\ order \in Seq(Members) /\ Len(order) = v /\ v \in Nat
      /\ \A n \in Present(list) : order[pos[n]] = Member(n)
  BY InOrderIs DEF Good, Numbered
<1>2. Clamped(start, stop, v, a, b)
  BY <1>1, ClampIs
<1> HIDE DEF order
<1>3. /\ rev \in Seq(Members) /\ Len(rev) = v
      /\ \A p \in 1..v : rev[p] = order[(v - p) + 1]
  <2>1. rev = [p \in 1..v |-> order[(v - p) + 1]]
    BY <1>1 DEF Reverse
  <2>2. \A p \in 1..v : (v - p) + 1 \in 1..Len(order)
    BY <1>1
  <2>3. rev \in [1..v -> Members]
    <3>1. \A p \in 1..v : order[(v - p) + 1] \in Members
      BY <1>1, <2>2
    <3> HIDE DEF rev
    <3> QED
      BY <2>1, <3>1
  <2> HIDE DEF rev, v
  <2> QED
    BY <1>1, <2>1, <2>3, RowIs
<1> HIDE DEF rev
<1>4. Sliced(rev, a, b, sl)
  <2> HIDE DEF a, b, v
  <2> QED
    BY <1>2, <1>3, SliceIs
<1>5. ns = IF a > b \/ a >= v THEN <<>> ELSE Reverse(ms)
  BY <1>1 DEF RevrangeEntries, order
<1> HIDE DEF sl, a, b
<1>6. /\ a \in Nat /\ b \in Int /\ b < v
  BY <1>2 DEF Clamped
<1>7. Len(sl) = (IF a > b THEN 0 ELSE b - a + 1) /\ sl = [p \in 1..Len(sl) |-> rev[a + p]]
  BY <1>4 DEF Sliced
<1>8. CASE a > b
  <2>1. ns = <<>> /\ Len(sl) = 0
    BY <1>5, <1>7, <1>8
  <2>2. DOMAIN ns = {} /\ 1..Len(sl) = {}
    BY <2>1
  <2>3. [p \in DOMAIN ns |-> Member(ns[p])] = [p \in {} |-> rev[a + p]]
    BY <2>2
  <2>4. sl = [p \in {} |-> rev[a + p]]
    BY <1>7, <2>2
  <2> QED
    BY <2>3, <2>4 DEF sl, rev, order
<1>9. CASE ~(a > b)
  <2>1. a <= b /\ a < v /\ b \in Nat /\ ~(a >= v)
    BY <1>1, <1>6, <1>9
  <2>2. low \in Nat /\ high \in Nat /\ low <= high /\ high < v /\ high - low + 1 = b - a + 1
    BY <1>1, <1>6, <2>1
  <2> HIDE DEF v
  <2>3. Clamped(low, high, v, Clamp(low, high, v).start, Clamp(low, high, v).stop)
    <3>1. low \in Int /\ high \in Int
      BY <2>2
    <3> HIDE DEF low, high
    <3> QED
      BY <1>1, <3>1, ClampIs
  <2>4. Clamp(low, high, v).start = low /\ Clamp(low, high, v).stop = high
    <3> DEFINE x == Clamp(low, high, v).start
               y == Clamp(low, high, v).stop
    <3> HIDE DEF x, y, low, high
    <3>1. x = (IF low < 0 THEN (IF low + v < 0 THEN 0 ELSE low + v) ELSE low)
      BY <2>3 DEF Clamped, x
    <3>2. y = IF (IF high < 0 THEN high + v ELSE high) < v - 1
              THEN (IF high < 0 THEN high + v ELSE high) ELSE v - 1
      BY <2>3 DEF Clamped, y
    <3>3. x = low
      BY <2>2, <3>1
    <3>4. y = high
      <4>1. ~(high < 0)
        BY <2>2
      <4>2. y = IF high < v - 1 THEN high ELSE v - 1
        BY <3>2, <4>1
      <4> QED
        BY <1>1, <2>2, <4>2
    <3> QED
      BY <3>3, <3>4 DEF x, y
  <2> DEFINE c == b - a + 1
  <2>5. Ranged(list, pos, low, high, ms)
    <3>1. Clamped(low, high, v, low, high)
      BY <2>3, <2>4
    <3>2. low \in Int /\ high \in Int
      BY <2>2
    <3> HIDE DEF low, high
    <3> QED
      BY <2>4, <3>1, <3>2, RangeIs DEF v
  <2> HIDE DEF ms
  <2>6. /\ ms \in Seq(Entries) /\ Len(ms) = c /\ c \in Nat
        /\ \A p \in 1..c : ms[p] \in Present(list) /\ pos[ms[p]] = low + p
    <3>1. ~(low > high)
      BY <2>2
    <3>2. /\ ms \in Seq(Entries) /\ Len(ms) = high - low + 1
          /\ \A p \in 1..Len(ms) : ms[p] \in Present(list) /\ pos[ms[p]] = low + p
      BY <2>5, <3>1 DEF Ranged
    <3>3. c \in Nat /\ high - low + 1 = c
      BY <1>6, <2>1, <2>2
    <3> HIDE DEF low, high, c
    <3> QED
      BY <3>2, <3>3
  <2>7. ns = Reverse(ms)
    BY <1>5, <1>9, <2>1
  <2> HIDE DEF c
  <2>8. ns = [p \in 1..c |-> ms[(c - p) + 1]]
    BY <2>6, <2>7 DEF Reverse
  <2>9. DOMAIN ns = 1..c
    BY <2>8
  <2>10. ASSUME NEW p \in 1..c PROVE Member(ns[p]) = rev[a + p]
    <3> DEFINE k == ms[(c - p) + 1]
    <3>1. (c - p) + 1 \in 1..c
      BY <2>6
    <3>2. k \in Present(list) /\ pos[k] = low + ((c - p) + 1)
      BY <2>6, <3>1
    <3>3. ns[p] = k
      BY <2>8
    <3>4. a + p \in 1..v /\ low + ((c - p) + 1) = (v - (a + p)) + 1
      BY <1>1, <1>6, <2>1 DEF c
    <3> HIDE DEF k, low
    <3>5. Member(k) = order[(v - (a + p)) + 1]
      BY <1>1, <3>2, <3>4
    <3> QED
      BY <1>3, <3>3, <3>4, <3>5
  <2>11. Len(sl) = c
    BY <1>7, <1>9 DEF c
  <2>12. [p \in DOMAIN ns |-> Member(ns[p])] = [p \in 1..c |-> rev[a + p]]
    BY <2>9, <2>10
  <2>13. sl = [p \in 1..c |-> rev[a + p]]
    BY <1>7, <2>11
  <2> QED
    BY <2>12, <2>13 DEF sl, rev, order
<1> QED
  BY <1>8, <1>9

\* Ranges by rank, from either end, are slices of the sorted members in every
\* reachable state.
THEOREM RangesAlways == ASSUME NaNs = {} PROVE Spec => []RangesAreSlices
<1>1. IInv => RangesAreSlices
  <2> SUFFICES ASSUME IInv PROVE RangesAreSlices
    OBVIOUS
  <2>1. PICK pos : Good(list, pos)
    BY DEF IInv
  <2> DEFINE far == Cardinality(Members) + 1
  <2>2. \A x \in (-far)..far : x \in Int
    OBVIOUS
  <2>3. ASSUME NEW start \in Int, NEW stop \in Int
        PROVE  LET ns == RangeEntries(list, start, stop)
                   ms == RevrangeEntries(list, start, stop, Len(InOrder))
               IN  /\ [p \in DOMAIN ns |-> Member(ns[p])] = Slice(InOrder, start, stop)
                   /\ [p \in DOMAIN ms |-> Member(ms[p])] = Slice(Reverse(InOrder), start, stop)
    <3> DEFINE ns == RangeEntries(list, start, stop)
               ms == RevrangeEntries(list, start, stop, Len(InOrder))
    <3>1. [p \in DOMAIN ns |-> Member(ns[p])] = Slice(InOrder, start, stop)
      <4> DEFINE x == ns
      <4>1. x = RangeEntries(list, start, stop)
        OBVIOUS
      <4> HIDE DEF x, ns
      <4>2. [p \in DOMAIN x |-> Member(x[p])] = Slice(InOrder, start, stop)
        BY ONLY NaNs = {}, IInv, <2>1, <4>1, start \in Int, stop \in Int, RangeIsSlice
      <4> QED
        BY <4>2 DEF x
    <3>2. [p \in DOMAIN ms |-> Member(ms[p])] = Slice(Reverse(InOrder), start, stop)
      <4> DEFINE x == ms
      <4>1. x = RevrangeEntries(list, start, stop, Len(InOrder))
        OBVIOUS
      <4> HIDE DEF x, ms
      <4>2. [p \in DOMAIN x |-> Member(x[p])] = Slice(Reverse(InOrder), start, stop)
        BY ONLY NaNs = {}, IInv, <2>1, <4>1, start \in Int, stop \in Int, RevrangeIsSlice
      <4> QED
        BY <4>2 DEF x
    <3> QED
      BY <3>1, <3>2
  <2> QED
    BY <2>2, <2>3 DEF RangesAreSlices
<1> QED
  BY <1>1, InvAlways, PTL

\* the prefix of nodes with no score above maximum
LEMMA UpToScoreIs ==
    ASSUME NEW S, NEW nodes \in Seq(S), NEW l, NEW maximum
    PROVE  LET Over(n) == ~(Below(l.score[n], maximum) \/ Equal(l.score[n], maximum))
               res == UpToScore(l, nodes, maximum)
           IN  /\ res \in Seq(S) /\ Len(res) <= Len(nodes)
               /\ \A p \in 1..Len(res) : res[p] = nodes[p] /\ ~Over(nodes[p])
               /\ Len(res) < Len(nodes) => Over(nodes[Len(res) + 1])
<1> DEFINE Over(n) == ~(Below(l.score[n], maximum) \/ Equal(l.score[n], maximum))
           res == UpToScore(l, nodes, maximum)
           over == {i \in DOMAIN nodes : Over(nodes[i])}
<1>1. res = IF over = {} THEN nodes ELSE SubSeq(nodes, 1, Min(over) - 1)
  BY DEF UpToScore
<1>2. DOMAIN nodes = 1..Len(nodes) /\ Len(nodes) \in Nat
  OBVIOUS
<1> HIDE DEF res, Over
<1>3. over \subseteq Nat /\ \A p \in 1..Len(nodes) : p \in over <=> Over(nodes[p])
  BY <1>2
<1>4. CASE over = {}
  <2>1. res = nodes
    BY <1>1, <1>4
  <2> QED
    BY <1>2, <1>3, <1>4, <2>1 DEF res, Over
<1>5. CASE over # {}
  <2> DEFINE x == Min(over)
             c == x - 1
  <2>1. x \in over /\ \A p \in over : x <= p
    <3> HIDE DEF over
    <3> QED
      BY <1>3, <1>5, MinIs
  <2>2. x \in 1..Len(nodes) /\ Over(nodes[x])
    BY <1>2, <2>1
  <2>3. res = SubSeq(nodes, 1, c)
    BY <1>1, <1>5
  <2> HIDE DEF x
  <2>4. c \in Nat /\ c < Len(nodes) /\ c + 1 = x
    BY <1>2, <2>2
  <2> HIDE DEF c
  <2>5. res \in Seq(S) /\ Len(res) = c /\ \A p \in 1..c : res[p] = nodes[p]
    BY <2>3, <2>4
  <2>6. ASSUME NEW p \in 1..c PROVE ~Over(nodes[p])
    <3>1. p \in 1..Len(nodes) /\ ~(x <= p)
      BY <1>2, <2>2, <2>4
    <3> QED
      BY <1>3, <2>1, <3>1
  <2> QED
    BY <1>2, <2>2, <2>4, <2>5, <2>6 DEF res, Over
<1> QED
  BY <1>4, <1>5

\* the search for a score and the walk behind it return the nodes between two
\* scores
LEMMA RangeByScoreIs ==
    ASSUME NaNs = {}, IInv, NEW pos, Good(list, pos), NEW low \in Numbers, NEW high \in Numbers,
           NEW ns, ns = RangeByScore(list, low, high)
    PROVE  /\ ns \in Seq(Entries)
           /\ \A p \in 1..Len(ns) : /\ ns[p] \in Present(list)
                                    /\ low <= list.score[ns[p]] /\ list.score[ns[p]] <= high
           /\ \A p, q \in 1..Len(ns) : p < q => pos[ns[p]] < pos[ns[q]]
           /\ \A n \in Present(list) : low <= list.score[n] /\ list.score[n] <= high
                                          => \E p \in 1..Len(ns) : ns[p] = n
<1> DEFINE l == list
           v == l.length
           passed == {p \in Places : Below(l.score[p.node], low)}
           at == Descend(l, passed)
           u == at[1].node
           first == l.forward[u][1]
           nodes == From(l, first)
           Over(n) == ~(Below(l.score[n], high) \/ Equal(l.score[n], high))
           D == {n \in Present(l) : l.score[n] < low}
<1>1. /\ Numbered(l, pos) /\ Heights(l) /\ Links(l, pos) /\ l.level \in Nat \ {0} /\ v \in Nat
      /\ \A a, b \in Present(l) : pos[a] = pos[b] => a = b
      /\ low \in Int /\ high \in Int /\ Nil \notin Present(l)
  BY BoundsAssumption, ScoresAssumption, NodeFacts DEF Good, Heights, Numbered, Present
<1>2. \A k \in Present(l) : l.score[k] \in Int /\ pos[k] \in 1..v
  BY OrderIs
<1>3. \A j, k \in Present(l) : pos[j] < pos[k] => l.score[j] <= l.score[k]
  <2>1. ASSUME NEW j \in Present(l), NEW k \in Present(l), pos[j] < pos[k]
        PROVE  l.score[j] <= l.score[k]
    <3>1. LessThan(l, j, l.score[k], Member(k))
      BY <2>1, OrderIs
    <3> QED
      BY <1>2, <3>1 DEF LessThan, Below
  <2> QED
    BY <2>1
<1>4. PICK r \in 0..v : \A k \in Present(l) : k \in D <=> pos[k] <= r
  <2>1. \A j, k \in Present(l) : k \in D /\ pos[j] < pos[k] => j \in D
    BY <1>1, <1>2, <1>3
  <2> HIDE DEF D, l
  <2> QED
    BY <1>1, <2>1, CutExists
<1>5. Marks(l, pos, passed, r)
  <2>1. ASSUME NEW k \in Present(l) PROVE Spot(pos, k) \in passed <=> pos[k] <= r
    <3>1. Spot(pos, k) \in Places /\ Spot(pos, k).node = k
      BY <1>1, SpotIs DEF Stand
    <3>2. Spot(pos, k) \in passed <=> l.score[k] < low
      BY <3>1 DEF Below
    <3> QED
      BY <1>4, <3>2
  <2>2. passed \subseteq Places
    OBVIOUS
  <2> HIDE DEF passed
  <2> QED
    BY <1>4, <2>1, <2>2 DEF Marks
<1>6. u \in Stand(l) /\ pos[u] = r
  <2>1. 1 \in 1..l.level
    BY <1>1
  <2>2. LastUpTo(l, pos, r, 1, at[1])
    <3> HIDE DEF l, passed
    <3> QED
      BY <1>1, <1>5, <2>1, SearchReaches
  <2> HIDE DEF l, at
  <2> QED
    BY <1>1, <2>2, BottomIs
<1> HIDE DEF at
<1>7. \/ first = Nil /\ r = v
      \/ first \in Present(l) /\ pos[first] = r + 1
  <2> HIDE DEF l, u
  <2> QED
    BY <1>1, <1>6, NextIs
<1>8. Listing(l, pos, r + 1, nodes)
  <2>1. CASE first = Nil /\ r = v
    <3>1. nodes = <<>>
      BY <2>1 DEF From
    <3>2. Len(nodes) = v - (r + 1) + 1 /\ nodes \in Seq(Entries) /\ 1..Len(nodes) = {}
      BY <1>1, <2>1, <3>1
    <3> HIDE DEF nodes
    <3> QED
      BY <3>2 DEF Listing
  <2>2. CASE first \in Present(l) /\ pos[first] = r + 1
    <3>1. Listing(l, pos, pos[first], From(l, first))
      <4> HIDE DEF first, l
      <4> QED
        BY <1>1, <2>2, FromLists
    <3> QED
      BY <2>2, <3>1
  <2> QED
    BY <1>7, <2>1, <2>2
<1>9. ns = UpToScore(l, nodes, high)
  BY DEF RangeByScore, at
<1> HIDE DEF nodes, first, u, D, passed
<1>10. /\ nodes \in Seq(Entries) /\ Len(nodes) = v - r /\ Len(nodes) \in Nat
       /\ \A p \in 1..Len(nodes) : nodes[p] \in Present(l) /\ pos[nodes[p]] = r + p
  <2>1. /\ nodes \in Seq(Entries) /\ Len(nodes) = v - (r + 1) + 1
        /\ \A p \in 1..Len(nodes) : nodes[p] \in Present(l) /\ pos[nodes[p]] = (r + 1) + p - 1
    BY <1>8 DEF Listing
  <2>2. v - (r + 1) + 1 = v - r /\ v - r \in Nat
    BY <1>1
  <2>3. ASSUME NEW p \in 1..Len(nodes) PROVE (r + 1) + p - 1 = r + p
    OBVIOUS
  <2> HIDE DEF v
  <2> QED
    BY <2>1, <2>2, <2>3
<1>11. /\ ns \in Seq(Entries) /\ Len(ns) <= Len(nodes)
       /\ \A p \in 1..Len(ns) : ns[p] = nodes[p] /\ ~Over(nodes[p])
       /\ Len(ns) < Len(nodes) => Over(nodes[Len(ns) + 1])
  BY <1>9, <1>10, UpToScoreIs
<1>12. \A k \in Present(l) : Over(k) <=> ~(l.score[k] <= high)
  BY <1>1, <1>2 DEF Below, Equal
<1>13. \A k \in Present(l) : l.score[k] < low <=> pos[k] <= r
  BY <1>4 DEF D
<1> HIDE DEF Over
<1> DEFINE c == Len(ns)
<1>14. c \in Nat
  BY <1>11
<1> HIDE DEF c
<1>15. ASSUME NEW p \in 1..c
       PROVE  /\ p \in 1..Len(nodes) /\ ns[p] \in Present(l) /\ pos[ns[p]] = r + p
              /\ low <= l.score[ns[p]] /\ l.score[ns[p]] <= high
  <2>1. p \in 1..Len(nodes)
    BY <1>10, <1>11, <1>14 DEF c
  <2>2. ns[p] \in Present(l) /\ pos[ns[p]] = r + p /\ ~Over(ns[p])
    BY <1>10, <1>11, <2>1 DEF c
  <2>3. ~(l.score[ns[p]] < low)
    BY <1>13, <2>2
  <2> QED
    BY <1>1, <1>2, <1>12, <2>1, <2>2, <2>3
<1>16. ASSUME NEW n \in Present(l), low <= l.score[n], l.score[n] <= high
       PROVE  \E p \in 1..c : ns[p] = n
  <2> DEFINE p == pos[n] - r
  <2>1. ~(pos[n] <= r) /\ pos[n] \in 1..v
    BY <1>1, <1>2, <1>13, <1>16
  <2>2. p \in 1..Len(nodes) /\ r + p = pos[n]
    BY <1>1, <1>10, <2>1
  <2> HIDE DEF p
  <2>3. nodes[p] = n
    BY <1>1, <1>10, <2>2
  <2>4. p <= c
    <3>1. ASSUME ~(p <= c) PROVE FALSE
      <4> DEFINE k == nodes[c + 1]
      <4>1. c < Len(nodes) /\ c + 1 \in 1..Len(nodes) /\ c + 1 <= p
        BY <1>10, <1>14, <2>2, <3>1
      <4>2. Over(k) /\ k \in Present(l) /\ pos[k] = r + (c + 1)
        BY <1>10, <1>11, <4>1 DEF c
      <4> HIDE DEF k
      <4>3. ~(l.score[k] <= high)
        BY <1>12, <4>2
      <4>4. CASE pos[k] = pos[n]
        BY <1>1, <1>16, <4>2, <4>3, <4>4
      <4>5. CASE pos[k] # pos[n]
        <5>1. pos[k] < pos[n]
          BY <1>2, <1>14, <2>2, <4>1, <4>2, <4>5
        <5>2. l.score[k] <= l.score[n]
          BY <1>3, <4>2, <5>1
        <5> QED
          BY <1>1, <1>2, <1>16, <4>2, <4>3, <5>2
      <4> QED
        BY <4>4, <4>5
    <3> QED
      BY <3>1
  <2>5. p \in 1..c /\ ns[p] = nodes[p]
    BY <1>10, <1>11, <1>14, <2>2, <2>4 DEF c
  <2> QED
    BY <2>3, <2>5
<1>17. ASSUME NEW p \in 1..c, NEW q \in 1..c, p < q PROVE pos[ns[p]] < pos[ns[q]]
  BY <1>15, <1>17
<1> QED
  BY <1>11, <1>15, <1>16, <1>17 DEF c

\* Ranges by score hold exactly the members between the two scores, in order,
\* in every reachable state.
THEOREM ScoreRangesAlways == ASSUME NaNs = {} PROVE Spec => []ScoreRangesAreExact
<1>1. IInv => ScoreRangesAreExact
  <2> SUFFICES ASSUME IInv, NEW low \in Numbers, NEW high \in Numbers
               PROVE  LET nodes == RangeByScore(list, low, high)
                      IN  /\ {Member(nodes[p]) : p \in DOMAIN nodes}
                                = {m \in Held : low <= scores[m] /\ scores[m] <= high}
                          /\ \A p, q \in DOMAIN nodes :
                               p < q => Precedes(Member(nodes[p]), Member(nodes[q]))
    BY DEF ScoreRangesAreExact
  <2> DEFINE ns == RangeByScore(list, low, high)
  <2>1. PICK pos : Good(list, pos)
    BY DEF IInv
  <2>2. /\ ns \in Seq(Entries)
        /\ \A p \in 1..Len(ns) : /\ ns[p] \in Present(list)
                                 /\ low <= list.score[ns[p]] /\ list.score[ns[p]] <= high
        /\ \A p, q \in 1..Len(ns) : p < q => pos[ns[p]] < pos[ns[q]]
        /\ \A n \in Present(list) : low <= list.score[n] /\ list.score[n] <= high
                                       => \E p \in 1..Len(ns) : ns[p] = n
    <3> DEFINE x == ns
    <3>1. x = RangeByScore(list, low, high)
      OBVIOUS
    <3> HIDE DEF x
    <3> HIDE DEF ns
    <3>2. /\ x \in Seq(Entries)
          /\ \A p \in 1..Len(x) : /\ x[p] \in Present(list)
                                  /\ low <= list.score[x[p]] /\ list.score[x[p]] <= high
          /\ \A p, q \in 1..Len(x) : p < q => pos[x[p]] < pos[x[q]]
          /\ \A n \in Present(list) : low <= list.score[n] /\ list.score[n] <= high
                                         => \E p \in 1..Len(x) : x[p] = n
      BY <2>1, <3>1, RangeByScoreIs
    <3> QED
      BY <3>2 DEF x
  <2> HIDE DEF ns
  <2>3. DOMAIN ns = 1..Len(ns)
    BY <2>2
  <2>4. Held = {Member(n) : n \in Present(list)}
    BY <2>1, HeldAreNodes
  <2>5. \A n \in Present(list) : list.score[n] = scores[Member(n)]
    BY DEF IInv, Agree
  <2>6. {Member(ns[p]) : p \in DOMAIN ns} = {m \in Held : low <= scores[m] /\ scores[m] <= high}
    <3>1. ASSUME NEW p \in DOMAIN ns
          PROVE  Member(ns[p]) \in {m \in Held : low <= scores[m] /\ scores[m] <= high}
      <4>1. ns[p] \in Present(list) /\ low <= list.score[ns[p]] /\ list.score[ns[p]] <= high
        BY <2>2, <2>3
      <4> QED
        BY <2>4, <2>5, <4>1
    <3>2. ASSUME NEW m \in Held, low <= scores[m], scores[m] <= high
          PROVE  \E p \in DOMAIN ns : m = Member(ns[p])
      <4>1. PICK n \in Present(list) : m = Member(n)
        BY <2>4
      <4>2. \E p \in 1..Len(ns) : ns[p] = n
        BY <2>2, <2>5, <3>2, <4>1
      <4> QED
        BY <2>3, <4>1, <4>2
    <3> QED
      BY <3>1, <3>2
  <2>7. ASSUME NEW p \in DOMAIN ns, NEW q \in DOMAIN ns, p < q
        PROVE  Precedes(Member(ns[p]), Member(ns[q]))
    <3>1. ns[p] \in Present(list) /\ ns[q] \in Present(list) /\ pos[ns[p]] < pos[ns[q]]
      BY <2>2, <2>3, <2>7
    <3> QED
      BY <2>1, <3>1, OrderIs
  <2> QED
    BY <2>6, <2>7 DEF ns
<1> QED
  BY <1>1, InvAlways, PTL
=============================================================================

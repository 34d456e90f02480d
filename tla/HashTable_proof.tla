--------------------------- MODULE HashTable_proof ---------------------------
(***************************************************************************)
(* Proofs about HashTable.                                                 *)
(***************************************************************************)
EXTENDS HashTable, Sums, SequenceTheorems

-----------------------------------------------------------------------------
(***************************************************************************)
(* Numbers.  A step that is odd reaches every slot of a table whose        *)
(* capacity is a power of two.                                             *)
(***************************************************************************)
LEMMA ModIs ==
    ASSUME NEW c \in Nat \ {0}, NEW q \in Int, NEW r \in 0..(c - 1)
    PROVE  (c * q + r) % c = r
<1> DEFINE a == c * q + r
           p == a \div c
           s == a % c
<1>1. c * q \in Int
  OBVIOUS
<1>2. a \in Int
  BY <1>1
<1> HIDE DEF a
<1>3. p \in Int /\ s \in 0..(c - 1) /\ a = c * p + s
  BY <1>2
<1> HIDE DEF p, s
<1>4. ASSUME p < q PROVE FALSE
  <2>1. q - p - 1 \in Nat
    BY <1>3, <1>4
  <2>2. c * (q - p - 1) >= 0
    BY <2>1
  <2>3. c * (q - p - 1) = c * q - c * p - c
    BY <1>3
  <2> QED
    BY <1>3, <2>2, <2>3 DEF a
<1>5. ASSUME q < p PROVE FALSE
  <2>1. p - q - 1 \in Nat
    BY <1>3, <1>5
  <2>2. c * (p - q - 1) >= 0
    BY <2>1
  <2>3. c * (p - q - 1) = c * p - c * q - c
    BY <1>3
  <2> QED
    BY <1>3, <2>2, <2>3 DEF a
<1>6. p = q
  BY <1>3, <1>4, <1>5
<1> QED
  BY <1>3, <1>6 DEF a, s

LEMMA EvenTimes ==
    ASSUME NEW a \in Nat, a % 2 = 0, NEW b \in Nat
    PROVE  (a * b) % 2 = 0
<1>1. PICK q \in Int : a = 2 * q
  <2>1. a = 2 * (a \div 2) /\ a \div 2 \in Int
    OBVIOUS
  <2> QED
    BY <2>1
<1>2. a * b = 2 * (q * b) + 0 /\ q * b \in Int
  BY <1>1
<1> DEFINE k == q * b
<1>3. k \in Int /\ (2 * k + 0) % 2 = 0
  <2>1. k \in Int
    BY <1>2
  <2> HIDE DEF k
  <2> QED
    BY <2>1, ModIs
<1> QED
  BY <1>2, <1>3

\* No multiple of an odd step, but for 0, is a multiple of the capacity before
\* the capacity itself is reached.
LEMMA OddStep ==
    ASSUME NEW c, PowerOfTwo(c), NEW s \in Nat, s % 2 = 1, NEW m \in 1..(c - 1), NEW k \in Nat
    PROVE  m * s # c * k
<1> DEFINE Bad == {g \in 1..c : \E j \in Nat : g * s = c * j}
<1>1. c \in Nat \ {0}
  BY DEF PowerOfTwo
<1>2. c \in Bad
  BY <1>1
<1>3. PICK g \in Bad : \A h \in Bad : g <= h
  <2>1. Bad \subseteq Nat /\ Bad # {}
    BY <1>2
  <2> HIDE DEF Bad
  <2> QED
    BY <2>1, SmallestNat
<1>4. PICK j \in Nat : g \in 1..c /\ g * s = c * j
  OBVIOUS
<1> DEFINE r == c % g
<1> DEFINE q == c \div g
<1>5. q \in Int /\ c = g * q + r /\ r \in 0..(g - 1)
  BY <1>1, <1>4
<1> HIDE DEF q, r
<1>6. q \in Nat
  <2>1. ASSUME q < 0 PROVE FALSE
    <3>1. g * (0 - q - 1) >= 0
      <4>1. 0 - q - 1 \in Nat
        BY <1>5, <2>1
      <4> QED
        BY <1>4, <4>1
    <3>2. g * (0 - q - 1) = 0 - g * q - g
      BY <1>4, <1>5
    <3>3. g * q \in Int
      BY <1>4, <1>5
    <3> QED
      BY <1>1, <1>4, <1>5, <3>1, <3>2, <3>3
  <2> QED
    BY <1>5, <2>1
<1>7. r = 0
  <2>1. r * s = c * (s - j * q)
    <3>1. c * s = (g * q + r) * s
      BY <1>5
    <3>2. (g * q + r) * s = (g * s) * q + r * s
      BY <1>4, <1>5, <1>6
    <3>3. c * (s - j * q) = c * s - (c * j) * q
      BY <1>1, <1>4, <1>6
    <3> QED
      BY <1>1, <1>4, <1>5, <1>6, <3>1, <3>2, <3>3
  <2>2. s - j * q \in Nat
    <3> DEFINE d == s - j * q
    <3>1. d \in Int /\ r * s >= 0
      BY <1>4, <1>5, <1>6
    <3>2. c * d >= 0
      BY <2>1, <3>1
    <3> HIDE DEF d
    <3>3. ASSUME d < 0 PROVE FALSE
      <4>1. c * (0 - d - 1) >= 0
        <5>1. 0 - d - 1 \in Nat
          BY <3>1, <3>3
        <5> QED
          BY <1>1, <5>1
      <4>2. c * (0 - d - 1) = 0 - c * d - c
        BY <1>1, <3>1
      <4>3. c * d \in Int
        BY <1>1, <3>1
      <4> QED
        BY <1>1, <3>2, <4>1, <4>2, <4>3
    <3>4. d \in Nat
      BY <3>1, <3>3
    <3> QED
      BY <3>4 DEF d
  <2>3. ASSUME r # 0 PROVE FALSE
    <3>1. r \in 1..c /\ r < g
      BY <1>1, <1>4, <1>5, <2>3
    <3>2. r \in Bad
      BY <2>1, <2>2, <3>1
    <3> QED
      BY <1>3, <1>4, <3>1, <3>2
  <2> QED
    BY <2>3
<1>8. c = g * q
  BY <1>4, <1>5, <1>6, <1>7
<1>9. s = q * j
  <2>1. g * s = g * (q * j)
    BY <1>4, <1>6, <1>8
  <2>2. q * j \in Nat /\ g \in Nat \ {0}
    BY <1>4, <1>6
  <2> DEFINE x == q * j
  <2>3. x \in Nat /\ g * s = g * x
    BY <2>1, <2>2
  <2> HIDE DEF x
  <2>4. s = x
    BY <2>2, <2>3
  <2> QED
    BY <2>4 DEF x
<1>10. q \in 1..c
  <2>1. q # 0
    BY <1>1, <1>4, <1>8
  <2>2. (g - 1) * q >= 0
    BY <1>4, <1>6
  <2>3. (g - 1) * q = g * q - q
    BY <1>4, <1>6
  <2> QED
    BY <1>1, <1>6, <1>8, <2>1, <2>2, <2>3
<1>11. q = 1
  <2>1. ASSUME q # 1 PROVE FALSE
    <3>1. q \in 2..c
      BY <1>10, <2>1
    <3>2. c % q = 0
      <4>1. c = q * g + 0 /\ q \in Nat \ {0} /\ g \in Int /\ 0 \in 0..(q - 1)
        BY <1>4, <1>8, <1>10
      <4>2. (q * g + 0) % q = 0
        BY <4>1, ModIs
      <4> QED
        BY <4>1, <4>2
    <3>3. q % 2 = 0
      BY <3>1, <3>2 DEF PowerOfTwo
    <3>4. (q * j) % 2 = 0
      BY <1>6, <3>3, EvenTimes
    <3> QED
      BY <1>9, <3>4
  <2> QED
    BY <2>1
<1>12. g = c
  BY <1>4, <1>8, <1>11
<1>13. ASSUME m * s = c * k PROVE FALSE
  <2>1. m \in Bad /\ m < g
    BY <1>1, <1>12, <1>13
  <2> QED
    BY <1>3, <1>4, <2>1
<1> QED
  BY <1>13

LEMMA PowerEven ==
    ASSUME NEW c, PowerOfTwo(c), c # 1
    PROVE  c \in Nat /\ c >= 2 /\ c % 2 = 0 /\ c = 2 * (c \div 2)
<1>1. c \in Nat \ {0} /\ c >= 2
  BY DEF PowerOfTwo
<1>2. c % c = 0
  <2>1. c = c * 1 + 0 /\ 1 \in Int /\ 0 \in 0..(c - 1)
    BY <1>1
  <2>2. (c * 1 + 0) % c = 0
    BY <1>1, <2>1, ModIs
  <2> QED
    BY <2>1, <2>2
<1>3. c \in 2..c
  BY <1>1
<1>4. c % 2 = 0
  BY <1>2, <1>3 DEF PowerOfTwo
<1> QED
  BY <1>1, <1>4

LEMMA PowerDoubled ==
    ASSUME NEW c, PowerOfTwo(c)
    PROVE  PowerOfTwo(2 * c)
<1>1. c \in Nat \ {0} /\ 2 * c \in Nat \ {0}
  BY DEF PowerOfTwo
<1>2. ASSUME NEW d \in 2..(2 * c), (2 * c) % d = 0, d % 2 # 0 PROVE FALSE
  <2>1. PICK q \in Int : 2 * c = d * q
    <3> DEFINE q == (2 * c) \div d
    <3>1. q \in Int /\ 2 * c = d * q + ((2 * c) % d)
      BY <1>1
    <3> HIDE DEF q
    <3>2. d * q \in Int
      BY <1>1, <3>1
    <3>3. 2 * c = d * q
      BY <1>2, <3>1, <3>2
    <3> QED
      BY <3>1, <3>3
  <2>2. PICK e \in Int : d = 2 * e + 1
    <3>1. d % 2 = 1 /\ d = 2 * (d \div 2) + (d % 2) /\ d \div 2 \in Int
      BY <1>1, <1>2
    <3> QED
      BY <3>1
  <2>3. q = 2 * (c - e * q)
    <3>1. d * q = 2 * (e * q) + q
      BY <2>1, <2>2
    <3>2. e * q \in Int
      BY <2>1, <2>2
    <3> QED
      BY <1>1, <2>1, <3>1, <3>2
  <2> DEFINE h == c - e * q
  <2>4. h \in Int /\ q = 2 * h
    BY <1>1, <2>1, <2>2, <2>3
  <2> HIDE DEF h
  <2>5. c = d * h
    <3>1. d * (2 * h) = 2 * (d * h)
      BY <1>1, <2>4
    <3>2. d * h \in Int
      BY <1>1, <2>4
    <3> QED
      BY <1>1, <2>1, <2>4, <3>1, <3>2
  <2>6. c % d = 0
    <3>1. d \in Nat \ {0} /\ 0 \in 0..(d - 1)
      BY <1>1
    <3>2. (d * h + 0) % d = 0
      BY <2>4, <3>1, ModIs
    <3>3. d * h + 0 = c
      BY <1>1, <2>5
    <3> QED
      BY <3>2, <3>3
  <2>7. d <= c
    <3>1. ASSUME h <= 0 PROVE FALSE
      <4>1. d * (0 - h) >= 0
        <5>1. 0 - h \in Nat
          BY <2>4, <3>1
        <5> QED
          BY <1>1, <5>1
      <4>2. d * (0 - h) = 0 - d * h
        BY <1>1, <2>4
      <4> QED
        BY <1>1, <2>4, <2>5, <4>1, <4>2
    <3>2. h - 1 \in Nat
      BY <2>4, <3>1
    <3> DEFINE i == h - 1
    <3>3. i \in Nat /\ h = i + 1 /\ d \in Nat
      BY <1>1, <2>4, <3>2
    <3> HIDE DEF i
    <3>4. d * i >= 0 /\ d * h = d * i + d
      BY <2>4, <3>3
    <3> QED
      BY <1>1, <2>4, <2>5, <3>3, <3>4
  <2>8. d \in 2..c
    BY <1>1, <2>7
  <2> QED
    BY <1>2, <2>6, <2>8 DEF PowerOfTwo
<1> QED
  BY <1>1, <1>2 DEF PowerOfTwo

LEMMA PowerHalved ==
    ASSUME NEW c, PowerOfTwo(c), c # 1
    PROVE  PowerOfTwo(c \div 2)
<1> DEFINE h == c \div 2
<1>1. c \in Nat /\ c = 2 * h /\ h \in Nat \ {0}
  BY PowerEven
<1> HIDE DEF h
<1>2. ASSUME NEW d \in 2..h, h % d = 0 PROVE d % 2 = 0
  <2>1. PICK q \in Int : h = d * q
    <3> DEFINE q == h \div d
    <3>1. q \in Int /\ h = d * q + (h % d)
      BY <1>1
    <3> HIDE DEF q
    <3>2. d * q \in Int
      BY <1>1, <3>1
    <3>3. h = d * q
      BY <1>2, <3>1, <3>2
    <3> QED
      BY <3>1, <3>3
  <2>2. c = d * (2 * q) + 0
    BY <1>1, <2>1
  <2> DEFINE p == 2 * q
  <2>3. p \in Int /\ d \in Nat \ {0} /\ 0 \in 0..(d - 1)
    BY <1>1, <2>1
  <2> HIDE DEF p
  <2>4. (d * p + 0) % d = 0
    BY <2>3, ModIs
  <2>5. c % d = 0
    BY <2>2, <2>4 DEF p
  <2>6. d \in 2..c
    BY <1>1
  <2> QED
    BY <2>5, <2>6 DEF PowerOfTwo
<1>3. PowerOfTwo(h)
  BY <1>1, <1>2 DEF PowerOfTwo
<1> QED
  BY <1>3 DEF h

-----------------------------------------------------------------------------
(***************************************************************************)
(* Probes.                                                                 *)
(***************************************************************************)
LEMMA PowersOfTwo == \A i \in 0..30 : 2 ^ i \in Nat
<1>1. /\ 2 ^ 0 \in Nat /\ 2 ^ 1 \in Nat /\ 2 ^ 2 \in Nat /\ 2 ^ 3 \in Nat /\ 2 ^ 4 \in Nat
      /\ 2 ^ 5 \in Nat /\ 2 ^ 6 \in Nat /\ 2 ^ 7 \in Nat /\ 2 ^ 8 \in Nat /\ 2 ^ 9 \in Nat
      /\ 2 ^ 10 \in Nat /\ 2 ^ 11 \in Nat /\ 2 ^ 12 \in Nat /\ 2 ^ 13 \in Nat /\ 2 ^ 14 \in Nat
      /\ 2 ^ 15 \in Nat /\ 2 ^ 16 \in Nat /\ 2 ^ 17 \in Nat /\ 2 ^ 18 \in Nat /\ 2 ^ 19 \in Nat
      /\ 2 ^ 20 \in Nat /\ 2 ^ 21 \in Nat /\ 2 ^ 22 \in Nat /\ 2 ^ 23 \in Nat /\ 2 ^ 24 \in Nat
      /\ 2 ^ 25 \in Nat /\ 2 ^ 26 \in Nat /\ 2 ^ 27 \in Nat /\ 2 ^ 28 \in Nat /\ 2 ^ 29 \in Nat
      /\ 2 ^ 30 \in Nat
  OBVIOUS
<1>2. ASSUME NEW i \in 0..30 PROVE i \in {0, 1, 2, 3, 4, 5, 6, 7, 8, 9, 10, 11, 12, 13, 14, 15, 16,
         17, 18, 19, 20, 21, 22, 23, 24, 25, 26, 27, 28, 29, 30}
  OBVIOUS
<1> QED
  BY <1>1, <1>2, Zenon

LEMMA DerivedType == \A f \in Fields : Derived[f] \in Nat
<1> DEFINE w == [i \in 0..30 |-> 2 ^ i]
<1>1. ASSUME NEW S \in SUBSET (0..30) PROVE SumFunctionOnSet(w, S) \in Nat
  <2>1. IsFiniteSet(0..30)
    <3> DEFINE z == 0
               m == 30
    <3>1. z \in Int /\ m \in Int
      OBVIOUS
    <3> HIDE DEF z, m
    <3>2. IsFiniteSet(z..m)
      BY <3>1, FS_Interval
    <3> QED
      BY <3>2 DEF z, m
  <2>2. IsFiniteSet(S)
    BY <2>1, FS_Subset
  <2>3. AreNats(w, S)
    BY PowersOfTwo DEF AreNats
  <2> HIDE DEF w
  <2> QED
    BY <2>2, <2>3, SumType
<1>2. ASSUME NEW a, NEW b PROVE Xor(a, b) \in Nat
  <2> DEFINE S == {i \in 0..30 : (a \div 2 ^ i) % 2 # (b \div 2 ^ i) % 2}
  <2>1. S \in SUBSET (0..30)
    OBVIOUS
  <2>2. Xor(a, b) = SumFunctionOnSet(w, S)
    BY DEF Xor
  <2> HIDE DEF S, w
  <2> QED
    BY <1>1, <2>1, <2>2
<1> QED
  BY <1>2 DEF Derived

\* the n-th index of the search for a field in a table of this capacity
Probe(f, c, n) == (Home(f, c) + n * ProbeStep(f, c)) % c

LEMMA StepIsOdd ==
    ASSUME NEW c, PowerOfTwo(c), c # 1, NEW f \in Fields
    PROVE  ProbeStep(f, c) \in Nat /\ ProbeStep(f, c) % 2 = 1
<1> DEFINE d == Derived[f] \div 2
           h == c \div 2
           s == ProbeStep(f, c)
           q == (2 * d + 1) \div c
<1>1. c \in Nat \ {0} /\ c = 2 * h /\ h \in Nat
  BY PowerEven
<1>2. d \in Nat
  BY DerivedType
<1>3. s = (2 * d + 1) % c
  BY DEF ProbeStep
<1> HIDE DEF d, h, s
<1>4. s \in Nat /\ q \in Int /\ 2 * d + 1 = c * q + s
  BY <1>1, <1>2, <1>3
<1> HIDE DEF q
<1>5. c * q = 2 * (h * q) /\ h * q \in Int
  BY <1>1, <1>4
<1> DEFINE k == h * q
<1>6. k \in Int /\ s = 2 * (d - k) + 1
  BY <1>2, <1>4, <1>5
<1> HIDE DEF k
<1>7. s % 2 = 1
  BY <1>2, <1>4, <1>6
<1> QED
  BY <1>4, <1>7 DEF s

LEMMA HomeType ==
    ASSUME NEW c \in Nat \ {0}, NEW f \in Fields
    PROVE  Home(f, c) \in 0..(c - 1)
<1>1. HashCode[f] \in Nat
  BY HashTableAssumption
<1> QED
  BY <1>1 DEF Home

\* The search looks at every slot, at each once.
LEMMA ProbesCover ==
    ASSUME NEW c, PowerOfTwo(c), c # 1, NEW f \in Fields
    PROVE  /\ \A n \in Nat : Probe(f, c, n) \in 0..(c - 1)
           /\ \A i \in 0..(c - 1) : \E n \in 0..(c - 1) : Probe(f, c, n) = i
<1> DEFINE h == Home(f, c)
           s == ProbeStep(f, c)
           P(n) == (h + n * s) % c
           I == 0..(c - 1)
           p == [n \in I |-> P(n)]
<1>1. c \in Nat \ {0} /\ h \in Nat /\ s \in Nat /\ s % 2 = 1
  BY PowerEven, HomeType, StepIsOdd
<1>2. \A n : Probe(f, c, n) = P(n)
  BY DEF Probe
<1> HIDE DEF h, s
<1>3. ASSUME NEW n \in Nat PROVE P(n) \in I
  <2> DEFINE a == h + n * s
  <2>1. a \in Nat
    BY <1>1
  <2> HIDE DEF a
  <2>2. a % c \in I
    BY <1>1, <2>1
  <2> QED
    BY <2>2 DEF a
<1>4. ASSUME NEW n \in I, NEW m \in I, n < m, P(n) = P(m) PROVE FALSE
  <2> DEFINE a == h + n * s
             b == h + m * s
             q == a \div c
             r == b \div c
             d == m - n
  <2>1. a \in Nat /\ b \in Nat /\ d \in 1..(c - 1)
    BY <1>1, <1>4
  <2>2. a % c = b % c
    BY <1>4
  <2>3. d * s = b - a
    BY <1>1, <1>4
  <2> HIDE DEF a, b
  <2>4. q \in Int /\ r \in Int /\ a = c * q + (a % c) /\ b = c * r + (b % c) /\ a % c \in Nat
    BY <1>1, <2>1
  <2> HIDE DEF q, r, d
  <2> DEFINE k == r - q
  <2>5. k \in Int /\ d * s = c * k
    <3>1. c * (r - q) = c * r - c * q
      BY <1>1, <2>4
    <3>2. c * r \in Int /\ c * q \in Int
      BY <1>1, <2>4
    <3> QED
      BY <2>2, <2>3, <2>4, <3>1, <3>2
  <2>6. d * s >= 0
    BY <1>1, <2>1
  <2> HIDE DEF k
  <2>7. k \in Nat
    <3>1. ASSUME k < 0 PROVE FALSE
      <4> DEFINE e == 0 - k - 1
      <4>1. e \in Nat /\ k = 0 - e - 1
        BY <2>5, <3>1
      <4> HIDE DEF e
      <4>2. c * k = 0 - c * e - c /\ c * e >= 0 /\ c * e \in Int
        BY <1>1, <4>1
      <4> QED
        BY <1>1, <2>5, <2>6, <4>2
    <3> QED
      BY <2>5, <3>1
  <2> QED
    BY <1>1, <2>1, <2>5, <2>7, OddStep
<1>5. p \in Injection(I, I)
  <2>1. p \in [I -> I]
    BY <1>1, <1>3
  <2>2. ASSUME NEW n \in I, NEW m \in I, p[n] = p[m] PROVE n = m
    <3>1. P(n) = P(m)
      BY <2>2
    <3>2. ~(n < m) /\ ~(m < n)
      BY <1>4, <3>1
    <3> QED
      BY <1>1, <3>2
  <2> QED
    BY <2>1, <2>2 DEF Injection, IsInjective
<1>6. p \in Surjection(I, I)
  <2>1. IsFiniteSet(I)
    BY <1>1, FS_Interval
  <2> HIDE DEF p, I
  <2> QED
    BY <1>5, <2>1, FS_Injection
<1>7. \A i \in I : \E n \in I : p[n] = i
  BY <1>6, Zenon DEF Surjection
<1> QED
  BY <1>2, <1>3, <1>7

-----------------------------------------------------------------------------
(***************************************************************************)
(* Sequences of entries: a chain, the compact list, the items of a table.  *)
(***************************************************************************)
Pairs == (Fields \ BadFields) \X Values

\* no field occurs twice
Distinct(s) == \A i, j \in 1..Len(s) : s[i][1] = s[j][1] => i = j

\* the entries of a sequence, and a set of entries without a field and with one
EntriesOf(s) == {s[i] : i \in 1..Len(s)}
Without(E, f) == {e \in E : e[1] # f}
With(E, f, v) == Without(E, f) \cup {<<f, v>>}

Knows(E, f) == \E e \in E : e[1] = f

Written(S, i, x) == [S EXCEPT ![i] = x]

\* Position finds the entry of the field if there is one.
LEMMA PositionIs ==
    ASSUME NEW s \in Seq(Pairs), NEW f
    PROVE  /\ Position(s, f) = 0 /\ ~Knows(EntriesOf(s), f)
           \/ /\ Position(s, f) \in 1..Len(s)
              /\ s[Position(s, f)][1] = f
<1> DEFINE I == {i \in 1..Len(s) : s[i][1] = f}
<1>1. Position(s, f) = IF I # {} THEN Min(I) ELSE 0
  BY DEF Position, SelectInSeq
<1>2. Len(s) \in Nat
  BY LenProperties
<1>3. CASE I = {}
  <2>1. Position(s, f) = 0
    BY <1>1, <1>3
  <2>2. ~Knows(EntriesOf(s), f)
    BY <1>3 DEF Knows, EntriesOf
  <2> QED
    BY <2>1, <2>2
<1>4. CASE I # {}
  <2>1. I \subseteq Nat
    BY <1>2
  <2> HIDE DEF I
  <2>2. PICK n \in I : \A m \in I : n <= m
    BY <1>4, <2>1, SmallestNat
  <2>3. Min(I) \in I
    BY <2>2 DEF Min
  <2>4. Position(s, f) \in I
    BY <1>1, <1>4, <2>3
  <2> QED
    BY <2>4 DEF I
<1> QED
  BY <1>3, <1>4

LEMMA EntriesConcat ==
    ASSUME NEW s \in Seq(Pairs), NEW t \in Seq(Pairs)
    PROVE  EntriesOf(s \o t) = EntriesOf(s) \cup EntriesOf(t)
<1> DEFINE w == s \o t
           n == Len(s)
           m == Len(t)
<1>1. /\ n \in Nat /\ m \in Nat /\ Len(w) = n + m
      /\ \A i \in 1..(n + m) : w[i] = IF i <= n THEN s[i] ELSE t[i - n]
  BY ConcatProperties, LenProperties
<1> HIDE DEF w, n, m
<1>2. ASSUME NEW i \in 1..Len(w) PROVE w[i] \in EntriesOf(s) \cup EntriesOf(t)
  <2>1. CASE i <= n
    <3>1. i \in 1..n /\ w[i] = s[i]
      BY <1>1, <1>2, <2>1
    <3> QED
      BY <3>1 DEF EntriesOf, n
  <2>2. CASE ~(i <= n)
    <3>1. i - n \in 1..m /\ w[i] = t[i - n]
      BY <1>1, <1>2, <2>2
    <3> QED
      BY <3>1 DEF EntriesOf, m
  <2> QED
    BY <2>1, <2>2
<1>3. ASSUME NEW i \in 1..n PROVE s[i] \in EntriesOf(w)
  <2>1. i \in 1..Len(w) /\ w[i] = s[i]
    BY <1>1
  <2> QED
    BY <2>1 DEF EntriesOf
<1>4. ASSUME NEW i \in 1..m PROVE t[i] \in EntriesOf(w)
  <2>1. n + i \in 1..Len(w) /\ ~(n + i <= n) /\ (n + i) - n = i
    BY <1>1
  <2>2. w[n + i] = t[i]
    BY <1>1, <2>1
  <2> QED
    BY <2>1, <2>2 DEF EntriesOf
<1>5. EntriesOf(w) \subseteq EntriesOf(s) \cup EntriesOf(t)
  BY <1>2 DEF EntriesOf
<1>6. EntriesOf(s) \subseteq EntriesOf(w) /\ EntriesOf(t) \subseteq EntriesOf(w)
  BY <1>3, <1>4 DEF EntriesOf, n, m
<1> QED
  BY <1>5, <1>6 DEF w

LEMMA DistinctConcat ==
    ASSUME NEW s \in Seq(Pairs), NEW t \in Seq(Pairs), Distinct(s), Distinct(t),
           \A e \in EntriesOf(s), d \in EntriesOf(t) : e[1] # d[1]
    PROVE  s \o t \in Seq(Pairs) /\ Distinct(s \o t)
<1> DEFINE w == s \o t
           n == Len(s)
           m == Len(t)
<1>1. /\ n \in Nat /\ m \in Nat /\ Len(w) = n + m /\ w \in Seq(Pairs)
      /\ \A i \in 1..(n + m) : w[i] = IF i <= n THEN s[i] ELSE t[i - n]
  BY ConcatProperties, LenProperties
<1> HIDE DEF w, n, m
<1>2. ASSUME NEW i \in 1..n, NEW j \in 1..m PROVE s[i][1] # t[j][1]
  BY <1>2 DEF EntriesOf, n, m
<1>3. ASSUME NEW i \in 1..Len(w), NEW j \in 1..Len(w), w[i][1] = w[j][1] PROVE i = j
  <2>1. CASE i <= n /\ j <= n
    <3>1. i \in 1..n /\ j \in 1..n /\ w[i] = s[i] /\ w[j] = s[j]
      BY <1>1, <2>1
    <3> QED
      BY <1>3, <3>1 DEF Distinct, n
  <2>2. CASE i <= n /\ ~(j <= n)
    <3>1. i \in 1..n /\ j - n \in 1..m /\ w[i] = s[i] /\ w[j] = t[j - n]
      BY <1>1, <2>2
    <3> QED
      BY <1>2, <1>3, <3>1
  <2>3. CASE ~(i <= n) /\ j <= n
    <3>1. j \in 1..n /\ i - n \in 1..m /\ w[j] = s[j] /\ w[i] = t[i - n]
      BY <1>1, <2>3
    <3> QED
      BY <1>2, <1>3, <3>1
  <2>4. CASE ~(i <= n) /\ ~(j <= n)
    <3>1. i - n \in 1..m /\ j - n \in 1..m /\ w[i] = t[i - n] /\ w[j] = t[j - n]
      BY <1>1, <2>4
    <3>2. i - n = j - n
      BY <1>3, <3>1 DEF Distinct, m
    <3> QED
      BY <1>1, <3>2
  <2> QED
    BY <2>1, <2>2, <2>3, <2>4
<1>4. Distinct(w)
  BY <1>3 DEF Distinct
<1> QED
  BY <1>1, <1>4 DEF w

LEMMA OneEntry ==
    ASSUME NEW e \in Pairs
    PROVE  <<e>> \in Seq(Pairs) /\ Len(<<e>>) = 1 /\ Distinct(<<e>>) /\ EntriesOf(<<e>>) = {e}
<1> DEFINE s == <<e>>
<1>1. Len(s) = 1 /\ s[1] = e
  OBVIOUS
<1>2. s \in Seq(Pairs)
  <2> DEFINE P == Pairs
  <2> HIDE DEF P
  <2>1. e \in P => <<e>> \in Seq(P)
    OBVIOUS
  <2> QED
    BY <2>1 DEF P
<1> HIDE DEF s
<1>3. 1..1 = {1}
  OBVIOUS
<1>4. Distinct(s) /\ EntriesOf(s) = {e}
  BY <1>1, <1>3 DEF Distinct, EntriesOf
<1> QED
  BY <1>1, <1>2, <1>4 DEF s

LEMMA PairIs ==
    ASSUME NEW f \in Fields \ BadFields, NEW v \in Values
    PROVE  Entry(f, v) = <<f, v>> /\ <<f, v>> \in Pairs /\ <<f, v>>[1] = f /\ <<f, v>>[2] = v
  BY DEF Entry, Pairs

LEMMA PushIs ==
    ASSUME NEW s \in Seq(Pairs), Distinct(s), NEW e \in Pairs, ~Knows(EntriesOf(s), e[1])
    PROVE  /\ <<e>> \o s \in Seq(Pairs) /\ Distinct(<<e>> \o s)
           /\ EntriesOf(<<e>> \o s) = EntriesOf(s) \cup {e}
<1> DEFINE d == <<e>>
<1>1. d \in Seq(Pairs) /\ Distinct(d) /\ EntriesOf(d) = {e}
  BY OneEntry
<1> HIDE DEF d
<1>2. \A x \in EntriesOf(d), y \in EntriesOf(s) : x[1] # y[1]
  BY <1>1 DEF Knows
<1>3. d \o s \in Seq(Pairs) /\ Distinct(d \o s)
  BY <1>1, <1>2, DistinctConcat
<1>4. EntriesOf(d \o s) = EntriesOf(d) \cup EntriesOf(s)
  BY <1>1, EntriesConcat
<1> QED
  BY <1>1, <1>3, <1>4 DEF d

LEMMA AppendIs ==
    ASSUME NEW s \in Seq(Pairs), Distinct(s), NEW e \in Pairs, ~Knows(EntriesOf(s), e[1])
    PROVE  /\ Append(s, e) \in Seq(Pairs) /\ Distinct(Append(s, e))
           /\ EntriesOf(Append(s, e)) = EntriesOf(s) \cup {e}
<1> DEFINE d == <<e>>
<1>1. d \in Seq(Pairs) /\ Distinct(d) /\ EntriesOf(d) = {e}
  BY OneEntry
<1>2. Append(s, e) = s \o d
  BY AppendIsConcat
<1> HIDE DEF d
<1>3. \A y \in EntriesOf(s), x \in EntriesOf(d) : y[1] # x[1]
  BY <1>1 DEF Knows
<1>4. s \o d \in Seq(Pairs) /\ Distinct(s \o d)
  BY <1>1, <1>3, DistinctConcat
<1>5. EntriesOf(s \o d) = EntriesOf(s) \cup EntriesOf(d)
  BY <1>1, EntriesConcat
<1> QED
  BY <1>1, <1>2, <1>4, <1>5

\* an entry changes its value
LEMMA ReplaceIs ==
    ASSUME NEW s \in Seq(Pairs), Distinct(s), NEW i \in 1..Len(s),
           NEW e \in Pairs, e[1] = s[i][1],
           NEW t, t = Written(s, i, e)
    PROVE  /\ t \in Seq(Pairs) /\ Distinct(t) /\ Len(t) = Len(s)
           /\ EntriesOf(t) = Without(EntriesOf(s), e[1]) \cup {e}
<1>1. /\ t \in Seq(Pairs) /\ Len(t) = Len(s)
      /\ \A j \in 1..Len(s) : t[j] = IF j = i THEN e ELSE s[j]
  BY ExceptSeq DEF Written
<1>2. \A j \in 1..Len(s) : t[j][1] = s[j][1]
  BY <1>1
<1>3. Distinct(t)
  BY <1>1, <1>2 DEF Distinct
<1>4. \A j \in 1..Len(s) : s[j][1] = e[1] <=> j = i
  BY DEF Distinct
<1>5. ASSUME NEW j \in 1..Len(t) PROVE t[j] \in Without(EntriesOf(s), e[1]) \cup {e}
  <2>1. CASE j = i
    BY <1>1, <2>1
  <2>2. CASE j # i
    <3>1. t[j] = s[j] /\ s[j][1] # e[1] /\ s[j] \in EntriesOf(s)
      BY <1>1, <1>4, <2>2 DEF EntriesOf
    <3> QED
      BY <3>1 DEF Without
  <2> QED
    BY <2>1, <2>2
<1>6. ASSUME NEW j \in 1..Len(s), s[j][1] # e[1] PROVE s[j] \in EntriesOf(t)
  <2>1. j # i /\ t[j] = s[j] /\ j \in 1..Len(t)
    BY <1>1, <1>4, <1>6
  <2> QED
    BY <2>1 DEF EntriesOf
<1>7. e \in EntriesOf(t)
  BY <1>1 DEF EntriesOf
<1>8. EntriesOf(t) \subseteq Without(EntriesOf(s), e[1]) \cup {e}
  BY <1>5 DEF EntriesOf
<1>9. Without(EntriesOf(s), e[1]) \cup {e} \subseteq EntriesOf(t)
  BY <1>6, <1>7 DEF EntriesOf, Without
<1> QED
  BY <1>1, <1>3, <1>8, <1>9

LEMMA RemoveIs ==
    ASSUME NEW s \in Seq(Pairs), Distinct(s), NEW i \in 1..Len(s)
    PROVE  /\ RemoveAt(s, i) \in Seq(Pairs) /\ Distinct(RemoveAt(s, i))
           /\ EntriesOf(RemoveAt(s, i)) = Without(EntriesOf(s), s[i][1])
<1> DEFINE n == Len(s)
           a == SubSeq(s, 1, i - 1)
           b == SubSeq(s, i + 1, n)
<1>1. n \in Nat /\ i \in 1..n /\ \A j \in 1..n : s[j] \in Pairs
  BY LenProperties, ElementOfSeq
<1>2. /\ a \in Seq(Pairs) /\ Len(a) = i - 1
      /\ \A j \in 1..(i - 1) : a[j] = s[j]
  <2>1. 1 \in Int /\ i - 1 \in Int /\ \A j \in 1..(i - 1) : s[j] \in Pairs
    BY <1>1
  <2> DEFINE m == 1
             k == i - 1
  <2>2. m \in Int /\ k \in Int /\ \A j \in m..k : s[j] \in Pairs
    BY <2>1
  <2> HIDE DEF m, k, n
  <2>3. /\ SubSeq(s, m, k) \in Seq(Pairs)
        /\ Len(SubSeq(s, m, k)) = IF m <= k THEN k - m + 1 ELSE 0
        /\ \A j \in 1..(k - m + 1) : SubSeq(s, m, k)[j] = s[m + j - 1]
    BY <2>2, SubSeqProperties
  <2>4. \A j \in 1..(i - 1) : m + j - 1 = j /\ j \in 1..(k - m + 1)
    BY <1>1 DEF m, k
  <2>5. (IF m <= k THEN k - m + 1 ELSE 0) = i - 1
    BY <1>1 DEF m, k
  <2>6. Len(SubSeq(s, m, k)) = i - 1
    BY <2>3, <2>5
  <2>7. \A j \in 1..(i - 1) : SubSeq(s, m, k)[j] = s[j]
    BY <2>3, <2>4
  <2> QED
    BY <2>3, <2>6, <2>7 DEF m, k
<1>3. /\ b \in Seq(Pairs) /\ Len(b) = n - i
      /\ \A j \in 1..(n - i) : b[j] = s[i + j]
  <2> DEFINE m == i + 1
  <2>1. m \in Int /\ n \in Int /\ \A j \in m..n : s[j] \in Pairs
    BY <1>1
  <2>2. m = i + 1
    OBVIOUS
  <2> HIDE DEF m, n
  <2>3. /\ SubSeq(s, m, n) \in Seq(Pairs)
        /\ Len(SubSeq(s, m, n)) = IF m <= n THEN n - m + 1 ELSE 0
        /\ \A j \in 1..(n - m + 1) : SubSeq(s, m, n)[j] = s[m + j - 1]
    BY <2>1, SubSeqProperties
  <2>4. \A j \in 1..(n - i) : m + j - 1 = i + j /\ j \in 1..(n - m + 1)
    BY <1>1, <2>2
  <2>5. (IF m <= n THEN n - m + 1 ELSE 0) = n - i
    BY <1>1, <2>2
  <2>6. Len(SubSeq(s, m, n)) = n - i
    BY <2>3, <2>5
  <2>7. \A j \in 1..(n - i) : SubSeq(s, m, n)[j] = s[i + j]
    BY <2>3, <2>4
  <2> QED
    BY <2>3, <2>6, <2>7 DEF m
<1>4. RemoveAt(s, i) = a \o b
  BY DEF RemoveAt
<1> HIDE DEF a, b, n
<1>5. Distinct(a) /\ Distinct(b)
  <2>1. ASSUME NEW j \in 1..Len(a), NEW k \in 1..Len(a), a[j][1] = a[k][1] PROVE j = k
    <3>1. j \in 1..n /\ k \in 1..n /\ s[j][1] = s[k][1]
      BY <1>1, <1>2, <2>1
    <3> QED
      BY <3>1 DEF Distinct, n
  <2>2. ASSUME NEW j \in 1..Len(b), NEW k \in 1..Len(b), b[j][1] = b[k][1] PROVE j = k
    <3>1. i + j \in 1..n /\ i + k \in 1..n /\ s[i + j][1] = s[i + k][1]
      BY <1>1, <1>3, <2>2
    <3>2. i + j = i + k
      BY <3>1 DEF Distinct, n
    <3> QED
      BY <1>1, <1>3, <3>2
  <2> QED
    BY <2>1, <2>2 DEF Distinct
<1>6. EntriesOf(a) = {s[j] : j \in 1..(i - 1)}
  BY <1>2 DEF EntriesOf
<1>7. EntriesOf(b) = {s[j] : j \in (i + 1)..n}
  <2>1. ASSUME NEW j \in (i + 1)..n PROVE s[j] \in EntriesOf(b)
    <3>1. j - i \in 1..(n - i) /\ i + (j - i) = j
      BY <1>1
    <3>2. b[j - i] = s[j]
      BY <1>3, <3>1
    <3> QED
      BY <1>3, <3>1, <3>2 DEF EntriesOf
  <2>2. ASSUME NEW j \in 1..Len(b) PROVE b[j] \in {s[k] : k \in (i + 1)..n}
    <3>1. b[j] = s[i + j] /\ i + j \in (i + 1)..n
      BY <1>1, <1>3
    <3> QED
      BY <3>1
  <2> QED
    BY <2>1, <2>2 DEF EntriesOf
<1>8. \A j \in 1..n, k \in 1..n : j # k => s[j][1] # s[k][1]
  BY DEF Distinct, n
<1>9. \A e \in EntriesOf(a), d \in EntriesOf(b) : e[1] # d[1]
  <2>1. ASSUME NEW j \in 1..(i - 1), NEW k \in (i + 1)..n PROVE s[j][1] # s[k][1]
    <3>1. j \in 1..n /\ k \in 1..n /\ j # k
      BY <1>1
    <3> QED
      BY <1>8, <3>1
  <2> QED
    BY <1>6, <1>7, <2>1
<1>10. a \o b \in Seq(Pairs) /\ Distinct(a \o b) /\ EntriesOf(a \o b) = EntriesOf(a) \cup EntriesOf(b)
  BY <1>2, <1>3, <1>5, <1>9, DistinctConcat, EntriesConcat
<1>11. EntriesOf(a) \cup EntriesOf(b) = Without(EntriesOf(s), s[i][1])
  <2>1. ASSUME NEW j \in 1..n PROVE s[j][1] # s[i][1] <=> j \in 1..(i - 1) \/ j \in (i + 1)..n
    <3>1. j # i <=> j \in 1..(i - 1) \/ j \in (i + 1)..n
      BY <1>1
    <3>2. j # i => s[j][1] # s[i][1]
      BY <1>1, <1>8
    <3> QED
      BY <3>1, <3>2
  <2>2. EntriesOf(s) = {s[j] : j \in 1..n}
    BY DEF EntriesOf, n
  <2>3. \A j : j \in 1..(i - 1) \/ j \in (i + 1)..n => j \in 1..n
    BY <1>1
  <2> QED
    BY <1>6, <1>7, <2>1, <2>2, <2>3 DEF Without
<1> QED
  BY <1>4, <1>10, <1>11

-----------------------------------------------------------------------------
(***************************************************************************)
(* Loops.  Rehashing, promotion and HDEL are folds over a sequence, which  *)
(* the library defines as a function on sets of positions.  A fold is      *)
(* shown to be a sequence of states, one per element.                      *)
(***************************************************************************)
Does(loop, t, e) ==
    CASE loop = "rehash open" -> InsertRehashedOpen(t, e)
      [] loop = "rehash chained" -> PushEntry(t, e)
      [] loop = "promote" -> SetChained(t, e[1], e[2]).table
      [] loop = "hdel" -> HdelField(t, e)

Runs(g, loop, base, s, n) ==
    g = [p \in SUBSET (1..n) |->
            IF p = {} THEN base ELSE Does(loop, g[p \ {Max(p)}], s[Max(p)])]

Final(loop, base, s) == (CHOOSE g : Runs(g, loop, base, s, Len(s)))[1..Len(s)]

LEMMA MaxIs ==
    ASSUME NEW n \in Nat \ {0}, NEW p \in SUBSET (1..n), n \in p
    PROVE  Max(p) = n
<1>1. \A y \in p : y \in Int /\ n >= y
  OBVIOUS
<1>2. \A x \in p : (\A y \in p : x >= y) => x = n
  BY <1>1
<1>3. \A y \in p : n >= y
  BY <1>1
<1> QED
  BY <1>2, <1>3 DEF Max

LEMMA RunsAt ==
    ASSUME NEW loop, NEW n \in Nat, NEW s, NEW base, NEW g, Runs(g, loop, base, s, n)
    PROVE  /\ g[{}] = base
           /\ \A k \in 1..n : g[1..k] = Does(loop, g[1..(k - 1)], s[k])
<1>1. g[{}] = base
  BY DEF Runs
<1>2. ASSUME NEW k \in 1..n PROVE g[1..k] = Does(loop, g[1..(k - 1)], s[k])
  <2> DEFINE p == 1..k
  <2>1. p \in SUBSET (1..n) /\ p # {}
    BY SMT
  <2>2. Max(p) = k
    <3>1. k \in Nat \ {0} /\ p \in SUBSET (1..k) /\ k \in p
      OBVIOUS
    <3> HIDE DEF p
    <3> QED
      BY <3>1, MaxIs
  <2>3. p \ {k} = 1..(k - 1)
    BY SMT
  <2> HIDE DEF p
  <2>4. g[p] = Does(loop, g[p \ {Max(p)}], s[Max(p)])
    BY <2>1 DEF Runs
  <2> QED
    BY <2>2, <2>3, <2>4 DEF p
<1> QED
  BY <1>1, <1>2

LEMMA RunsExist ==
    ASSUME NEW loop, NEW s, NEW base, NEW n \in Nat
    PROVE  \E g : Runs(g, loop, base, s, n)
<1> DEFINE Bad == {m \in 0..n : ~\E g : Runs(g, loop, base, s, m)}
<1>1. 0 \notin Bad
  <2> DEFINE g == [p \in SUBSET (1..0) |-> base]
  <2>1. \A p \in SUBSET (1..0) : p = {}
    OBVIOUS
  <2>2. Runs(g, loop, base, s, 0)
    BY <2>1 DEF Runs
  <2> QED
    BY <2>2
<1>2. ASSUME NEW m \in Nat, NEW g, Runs(g, loop, base, s, m)
      PROVE  \E h : Runs(h, loop, base, s, m + 1)
  <2> DEFINE k == m + 1
             h == [p \in SUBSET (1..k) |->
                      IF k \in p THEN Does(loop, g[p \ {k}], s[k]) ELSE g[p]]
  <2>1. k \in Nat \ {0}
    OBVIOUS
  <2>2. ASSUME NEW p \in SUBSET (1..k), k \in p
        PROVE  h[p] = Does(loop, h[p \ {Max(p)}], s[Max(p)])
    <3>1. Max(p) = k
      BY <2>1, <2>2, MaxIs
    <3>2. h[p \ {k}] = g[p \ {k}]
      OBVIOUS
    <3>3. h[p] = Does(loop, g[p \ {k}], s[k])
      BY <2>2
    <3> QED
      BY <3>1, <3>2, <3>3
  <2>3. ASSUME NEW p \in SUBSET (1..k), k \notin p, p # {}
        PROVE  h[p] = Does(loop, h[p \ {Max(p)}], s[Max(p)])
    <3>1. p \in SUBSET (1..m)
      BY <2>3
    <3>2. g[p] = Does(loop, g[p \ {Max(p)}], s[Max(p)])
      BY <2>3, <3>1, <1>2 DEF Runs
    <3>3. h[p] = g[p] /\ h[p \ {Max(p)}] = g[p \ {Max(p)}]
      BY <2>3
    <3> QED
      BY <3>2, <3>3
  <2>4. h[{}] = base
    BY <1>2 DEF Runs
  <2>5. h = [p \in SUBSET (1..k) |-> h[p]]
    OBVIOUS
  <2> HIDE DEF h
  <2>6. \A p \in SUBSET (1..k) :
          h[p] = IF p = {} THEN base ELSE Does(loop, h[p \ {Max(p)}], s[Max(p)])
    BY <2>2, <2>3, <2>4
  <2>7. Runs(h, loop, base, s, k)
    BY <2>5, <2>6 DEF Runs
  <2> QED
    BY <2>7
<1>3. ASSUME NEW m \in 1..n, m \in Bad PROVE m - 1 \in Bad
  <2>1. m - 1 \in Nat /\ (m - 1) + 1 = m /\ m - 1 \in 0..n
    OBVIOUS
  <2>2. ~\E g : Runs(g, loop, base, s, m)
    BY <1>3
  <2>3. ~\E g : Runs(g, loop, base, s, m - 1)
    BY <1>2, <2>1, <2>2
  <2> QED
    BY <2>1, <2>3
<1>4. Bad \subseteq 0..n
  OBVIOUS
<1>5. Bad = {}
  <2> HIDE DEF Bad
  <2> QED
    BY <1>1, <1>3, <1>4, NoneBad
<1> QED
  BY <1>5

\* the states of a loop
States(st, loop, base, s) ==
    /\ st[0] = base
    /\ \A n \in 1..Len(s) : st[n] = Does(loop, st[n - 1], s[n])

LEMMA FinalIs ==
    ASSUME NEW loop, NEW base, NEW s, Len(s) \in Nat
    PROVE  \E st : States(st, loop, base, s) /\ Final(loop, base, s) = st[Len(s)]
<1> DEFINE L == Len(s)
           g == CHOOSE h : Runs(h, loop, base, s, L)
           st == [n \in 0..L |-> g[1..n]]
<1>1. L \in Nat
  OBVIOUS
<1>2. Runs(g, loop, base, s, L)
  BY <1>1, RunsExist
<1>3. Final(loop, base, s) = g[1..L]
  BY DEF Final
<1> HIDE DEF g, L
<1>4. /\ g[{}] = base
      /\ \A k \in 1..L : g[1..k] = Does(loop, g[1..(k - 1)], s[k])
  <2> HIDE DEF st
  <2>1. g[{}] = base
    BY <1>2 DEF Runs
  <2>2. \A k \in 1..L : g[1..k] = Does(loop, g[1..(k - 1)], s[k])
    BY ONLY <1>1, <1>2, RunsAt
  <2> QED
    BY <2>1, <2>2
<1>5. st[0] = base /\ st[L] = g[1..L]
  <2>1. 1..0 = {} /\ 0 \in 0..L /\ L \in 0..L
    BY <1>1
  <2> QED
    BY <1>4, <2>1
<1>6. \A n \in 1..L : st[n] = Does(loop, st[n - 1], s[n])
  <2>1. ASSUME NEW n \in 1..L PROVE st[n] = g[1..n] /\ st[n - 1] = g[1..(n - 1)]
    <3>1. n \in 0..L /\ n - 1 \in 0..L
      BY <1>1
    <3> QED
      BY <3>1
  <2> HIDE DEF st
  <2> QED
    BY <1>4, <2>1
<1> HIDE DEF st
<1>7. States(st, loop, base, s) /\ Final(loop, base, s) = st[L]
  BY <1>3, <1>5, <1>6 DEF States, L
<1> QED
  BY <1>7 DEF L

LEMMA ResizeOpenIs ==
    ASSUME NEW t, NEW capacity, DOMAIN ItemsOpen(t) = 1..Len(ItemsOpen(t))
    PROVE  ResizeOpen(t, capacity) = Final("rehash open", NewOpen(capacity), ItemsOpen(t))
<1> DEFINE base == NewOpen(capacity)
           s == ItemsOpen(t)
           n == Len(s)
<1>1. \A x, e : Does("rehash open", x, e) = InsertRehashedOpen(x, e)
  BY DEF Does
<1>2. ResizeOpen(t, capacity) =
        (CHOOSE g : g = [p \in SUBSET (DOMAIN s) |->
                            IF p = {} THEN base ELSE InsertRehashedOpen(g[p \ {Max(p)}], s[Max(p)])])[DOMAIN s]
  BY DEF ResizeOpen, FoldLeft, MapThenFoldSet
<1>3. DOMAIN s = 1..n
  OBVIOUS
<1>4. Final("rehash open", base, s) = (CHOOSE g : Runs(g, "rehash open", base, s, n))[1..n]
  BY DEF Final
<1> HIDE DEF base, s, n
<1>5. (CHOOSE g : g = [p \in SUBSET (1..n) |->
                          IF p = {} THEN base ELSE InsertRehashedOpen(g[p \ {Max(p)}], s[Max(p)])])
        = (CHOOSE g : Runs(g, "rehash open", base, s, n))
  <2>1. ASSUME NEW g
        PROVE  [p \in SUBSET (1..n) |->
                   IF p = {} THEN base ELSE InsertRehashedOpen(g[p \ {Max(p)}], s[Max(p)])]
                 = [p \in SUBSET (1..n) |->
                      IF p = {} THEN base ELSE Does("rehash open", g[p \ {Max(p)}], s[Max(p)])]
    BY <1>1
  <2> QED
    BY <2>1 DEF Runs
<1> QED
  BY <1>2, <1>3, <1>4, <1>5 DEF base, s

LEMMA ResizeChainedIs ==
    ASSUME NEW t, NEW capacity, DOMAIN ItemsChained(t) = 1..Len(ItemsChained(t))
    PROVE  ResizeChained(t, capacity) = Final("rehash chained", NewChained(capacity), ItemsChained(t))
<1> DEFINE base == NewChained(capacity)
           s == ItemsChained(t)
           n == Len(s)
<1>1. \A x, e : Does("rehash chained", x, e) = PushEntry(x, e)
  BY DEF Does
<1>2. ResizeChained(t, capacity) =
        (CHOOSE g : g = [p \in SUBSET (DOMAIN s) |->
                            IF p = {} THEN base ELSE PushEntry(g[p \ {Max(p)}], s[Max(p)])])[DOMAIN s]
  BY DEF ResizeChained, FoldLeft, MapThenFoldSet
<1>3. DOMAIN s = 1..n
  OBVIOUS
<1>4. Final("rehash chained", base, s) = (CHOOSE g : Runs(g, "rehash chained", base, s, n))[1..n]
  BY DEF Final
<1> HIDE DEF base, s, n
<1>5. (CHOOSE g : g = [p \in SUBSET (1..n) |->
                          IF p = {} THEN base ELSE PushEntry(g[p \ {Max(p)}], s[Max(p)])])
        = (CHOOSE g : Runs(g, "rehash chained", base, s, n))
  <2>1. ASSUME NEW g
        PROVE  [p \in SUBSET (1..n) |->
                   IF p = {} THEN base ELSE PushEntry(g[p \ {Max(p)}], s[Max(p)])]
                 = [p \in SUBSET (1..n) |->
                      IF p = {} THEN base ELSE Does("rehash chained", g[p \ {Max(p)}], s[Max(p)])]
    BY <1>1
  <2> QED
    BY <2>1 DEF Runs
<1> QED
  BY <1>2, <1>3, <1>4, <1>5 DEF base, s

LEMMA PromoteIs ==
    ASSUME NEW t, DOMAIN t.entries = 1..Len(t.entries)
    PROVE  Promote(t) = Final("promote", NewChained(INITIAL_CAPACITY), t.entries)
<1> DEFINE base == NewChained(INITIAL_CAPACITY)
           s == t.entries
           n == Len(s)
<1>1. \A x, e : Does("promote", x, e) = SetChained(x, e[1], e[2]).table
  BY DEF Does
<1>2. Promote(t) =
        (CHOOSE g : g = [p \in SUBSET (DOMAIN s) |->
                            IF p = {} THEN base ELSE SetChained(g[p \ {Max(p)}], s[Max(p)][1], s[Max(p)][2]).table])[DOMAIN s]
  BY DEF Promote, FoldLeft, MapThenFoldSet
<1>3. DOMAIN s = 1..n
  OBVIOUS
<1>4. Final("promote", base, s) = (CHOOSE g : Runs(g, "promote", base, s, n))[1..n]
  BY DEF Final
<1> HIDE DEF base, s, n
<1>5. (CHOOSE g : g = [p \in SUBSET (1..n) |->
                          IF p = {} THEN base ELSE SetChained(g[p \ {Max(p)}], s[Max(p)][1], s[Max(p)][2]).table])
        = (CHOOSE g : Runs(g, "promote", base, s, n))
  <2>1. ASSUME NEW g
        PROVE  [p \in SUBSET (1..n) |->
                   IF p = {} THEN base ELSE SetChained(g[p \ {Max(p)}], s[Max(p)][1], s[Max(p)][2]).table]
                 = [p \in SUBSET (1..n) |->
                      IF p = {} THEN base ELSE Does("promote", g[p \ {Max(p)}], s[Max(p)])]
    BY <1>1
  <2> QED
    BY <2>1 DEF Runs
<1> QED
  BY <1>2, <1>3, <1>4, <1>5 DEF base, s

LEMMA HdelIs ==
    ASSUME NEW t, NEW fs, DOMAIN fs = 1..Len(fs)
    PROVE  HdelFields(t, fs) = Final("hdel", Result(t, 0), fs)
<1> DEFINE base == Result(t, 0)
           s == fs
           n == Len(s)
<1>1. \A x, e : Does("hdel", x, e) = HdelField(x, e)
  BY DEF Does
<1>2. HdelFields(t, fs) =
        (CHOOSE g : g = [p \in SUBSET (DOMAIN s) |->
                            IF p = {} THEN base ELSE HdelField(g[p \ {Max(p)}], s[Max(p)])])[DOMAIN s]
  BY DEF HdelFields, FoldLeft, MapThenFoldSet
<1>3. DOMAIN s = 1..n
  OBVIOUS
<1>4. Final("hdel", base, s) = (CHOOSE g : Runs(g, "hdel", base, s, n))[1..n]
  BY DEF Final
<1> HIDE DEF base, s, n
<1>5. (CHOOSE g : g = [p \in SUBSET (1..n) |->
                          IF p = {} THEN base ELSE HdelField(g[p \ {Max(p)}], s[Max(p)])])
        = (CHOOSE g : Runs(g, "hdel", base, s, n))
  <2>1. ASSUME NEW g
        PROVE  [p \in SUBSET (1..n) |->
                   IF p = {} THEN base ELSE HdelField(g[p \ {Max(p)}], s[Max(p)])]
                 = [p \in SUBSET (1..n) |->
                      IF p = {} THEN base ELSE Does("hdel", g[p \ {Max(p)}], s[Max(p)])]
    BY <1>1
  <2> QED
    BY <2>1 DEF Runs
<1> QED
  BY <1>2, <1>3, <1>4, <1>5 DEF base, s

-----------------------------------------------------------------------------
(***************************************************************************)
(* Items.  Both tables list their entries bucket by bucket, slot by slot.  *)
(***************************************************************************)
Joined(g, q, n) == g = [i \in 1..n |-> IF i = 1 THEN q[i] ELSE g[i - 1] \o q[i]]

LEMMA JoinedExists ==
    ASSUME NEW q, NEW n \in Nat
    PROVE  \E g : Joined(g, q, n)
<1> DEFINE Bad == {m \in 0..n : ~\E g : Joined(g, q, m)}
<1>1. 0 \notin Bad
  <2> DEFINE g == [i \in 1..0 |-> q[1]]
  <2>1. g = [i \in 1..0 |-> IF i = 1 THEN q[i] ELSE g[i - 1] \o q[i]]
    OBVIOUS
  <2> HIDE DEF g
  <2>2. Joined(g, q, 0)
    BY <2>1 DEF Joined
  <2> QED
    BY <2>2
<1>2. ASSUME NEW m \in Nat, NEW g, Joined(g, q, m)
      PROVE  \E h : Joined(h, q, m + 1)
  <2> DEFINE k == m + 1
             h == [i \in 1..k |-> IF i = 1 THEN q[i] ELSE g[i - 1] \o q[i]]
  <2>1. \A i \in 1..m : g[i] = IF i = 1 THEN q[i] ELSE g[i - 1] \o q[i]
    BY <1>2 DEF Joined
  <2>2. \A i \in 1..m : i \in 1..k /\ h[i] = g[i]
    BY <2>1
  <2>3. ASSUME NEW i \in 1..k PROVE h[i] = IF i = 1 THEN q[i] ELSE h[i - 1] \o q[i]
    <3>1. CASE i = 1
      BY <3>1
    <3>2. CASE i # 1
      <4>1. i - 1 \in 1..m
        BY <3>2
      <4>2. h[i - 1] = g[i - 1] /\ h[i] = g[i - 1] \o q[i]
        BY <2>2, <3>2, <4>1
      <4> QED
        BY <3>2, <4>2
    <3> QED
      BY <3>1, <3>2
  <2>4. h = [i \in 1..k |-> h[i]]
    OBVIOUS
  <2> HIDE DEF h
  <2>5. Joined(h, q, k)
    BY <2>3, <2>4 DEF Joined
  <2> QED
    BY <2>5
<1>3. ASSUME NEW m \in 1..n, m \in Bad PROVE m - 1 \in Bad
  <2>1. m - 1 \in Nat /\ (m - 1) + 1 = m /\ m - 1 \in 0..n
    OBVIOUS
  <2>2. ~\E g : Joined(g, q, m)
    BY <1>3
  <2>3. ~\E g : Joined(g, q, m - 1)
    BY <1>2, <2>1, <2>2
  <2> QED
    BY <2>1, <2>3
<1>4. Bad \subseteq 0..n
  OBVIOUS
<1>5. Bad = {}
  <2> HIDE DEF Bad
  <2> QED
    BY <1>1, <1>3, <1>4, NoneBad
<1> QED
  BY <1>5

\* no field occurs in two of the sequences
Apart(q, n) ==
    \A i, j \in 1..n : \A e \in EntriesOf(q[i]), d \in EntriesOf(q[j]) : i # j => e[1] # d[1]

UpTo(q, n) == UNION {EntriesOf(q[i]) : i \in 1..n}

LEMMA FlattenIs ==
    ASSUME NEW n \in Nat \ {0}, NEW q, q \in [1..n -> Seq(Pairs)],
           \A i \in 1..n : Distinct(q[i]), Apart(q, n)
    PROVE  /\ FlattenSeq(q) \in Seq(Pairs) /\ Distinct(FlattenSeq(q))
           /\ EntriesOf(FlattenSeq(q)) = UpTo(q, n)
<1> DEFINE g == CHOOSE h : Joined(h, q, n)
<1>1. Len(q) = n
  <2>1. q \in Seq(Seq(Pairs))
    BY SeqDef
  <2>2. DOMAIN q = 1..n /\ DOMAIN q = 1..Len(q) /\ Len(q) \in Nat
    BY <2>1, LenProperties
  <2> QED
    BY <2>2
<1>2. Joined(g, q, n)
  BY JoinedExists
<1>3. FlattenSeq(q) = g[n]
  BY <1>1 DEF FlattenSeq, Joined
<1> HIDE DEF g
<1>4. \A i \in 1..n : g[i] = IF i = 1 THEN q[i] ELSE g[i - 1] \o q[i]
  BY <1>2 DEF Joined
<1> DEFINE Good(k) ==
             g[k] \in Seq(Pairs) /\ Distinct(g[k]) /\ EntriesOf(g[k]) = UpTo(q, k)
           Bad == {k \in 0..n : k # 0 /\ ~Good(k)}
<1>5. ASSUME NEW k \in 1..n, k \in Bad PROVE k - 1 \in Bad
  <2>1. CASE k = 1
    <3>1. g[k] = q[k]
      BY <1>4, <2>1
    <3>2. UpTo(q, k) = EntriesOf(q[k])
      <4>1. 1..1 = {1}
        OBVIOUS
      <4> QED
        BY <2>1, <4>1 DEF UpTo
    <3>3. Good(k)
      BY <3>1, <3>2
    <3> QED
      BY <1>5, <3>3
  <2>2. CASE k # 1
    <3> DEFINE m == k - 1
    <3>1. m \in 1..n /\ m \in 0..n /\ m # 0 /\ m < k
      BY <2>2
    <3>2. ASSUME Good(m) PROVE FALSE
      <4>1. g[k] = g[m] \o q[k]
        BY <1>4, <2>2
      <4>2. ASSUME NEW e \in EntriesOf(g[m]), NEW d \in EntriesOf(q[k]) PROVE e[1] # d[1]
        <5>1. PICK i \in 1..m : e \in EntriesOf(q[i])
          BY <3>2 DEF UpTo
        <5>2. i \in 1..n /\ i # k
          BY <3>1
        <5> QED
          BY <5>1, <5>2 DEF Apart
      <4>3. g[m] \in Seq(Pairs) /\ q[k] \in Seq(Pairs) /\ Distinct(g[m]) /\ Distinct(q[k])
        BY <3>2
      <4>4. g[m] \o q[k] \in Seq(Pairs) /\ Distinct(g[m] \o q[k])
        BY <4>2, <4>3, DistinctConcat
      <4>5. EntriesOf(g[m] \o q[k]) = EntriesOf(g[m]) \cup EntriesOf(q[k])
        BY <4>3, EntriesConcat
      <4>6. UpTo(q, k) = UpTo(q, m) \cup EntriesOf(q[k])
        <5>1. 1..k = (1..m) \cup {k}
          OBVIOUS
        <5> QED
          BY <5>1 DEF UpTo
      <4>7. Good(k)
        BY <3>2, <4>1, <4>4, <4>5, <4>6
      <4> QED
        BY <1>5, <4>7
    <3> QED
      BY <3>1, <3>2
  <2> QED
    BY <2>1, <2>2
<1>6. Bad \subseteq 0..n /\ 0 \notin Bad
  OBVIOUS
<1>7. Bad = {}
  <2> HIDE DEF Bad
  <2> QED
    BY <1>5, <1>6, NoneBad
<1>8. Good(n)
  <2>1. n \in 0..n /\ n # 0
    OBVIOUS
  <2> HIDE DEF Good
  <2> QED
    BY <1>7, <2>1
<1> QED
  BY <1>3, <1>8

\* As many items as there are entries.
LEMMA DistinctCount ==
    ASSUME NEW s \in Seq(Pairs), Distinct(s)
    PROVE  IsFiniteSet(EntriesOf(s)) /\ Cardinality(EntriesOf(s)) = Len(s)
<1> DEFINE I == 1..Len(s)
           p == [i \in I |-> s[i]]
<1>1. Len(s) \in Nat
  BY LenProperties
<1>2. IsFiniteSet(I) /\ Cardinality(I) = Len(s)
  <2> DEFINE a == 1
             b == Len(s)
  <2>1. a \in Int /\ b \in Int
    BY <1>1
  <2> HIDE DEF a, b
  <2>2. IsFiniteSet(a..b) /\ Cardinality(a..b) = IF a > b THEN 0 ELSE b - a + 1
    BY <2>1, FS_Interval
  <2>3. (IF a > b THEN 0 ELSE b - a + 1) = b
    BY <1>1 DEF a, b
  <2> QED
    BY <2>2, <2>3 DEF a, b
<1>3. p \in Surjection(I, EntriesOf(s))
  BY DEF Surjection, EntriesOf
<1>4. p \in Injection(I, EntriesOf(s))
  <2>1. p \in [I -> EntriesOf(s)]
    BY DEF EntriesOf
  <2>2. \A i, j \in I : p[i] = p[j] => i = j
    BY DEF Distinct
  <2> QED
    BY <2>1, <2>2 DEF Injection, IsInjective
<1> HIDE DEF p, I
<1> QED
  BY <1>2, <1>3, <1>4, FS_Surjection

-----------------------------------------------------------------------------
(***************************************************************************)
(* The slots S of an open table with capacity c.                           *)
(***************************************************************************)
Slots == {SLOT_EMPTY, SLOT_TOMBSTONE} \cup Pairs

Occ(S) == {i \in DOMAIN S : Occupied(S[i])}
NonEmpty(S) == {i \in DOMAIN S : S[i] # SLOT_EMPTY}
SlotEntries(S) == {S[i] : i \in Occ(S)}

\* The search for f passes no empty slot before it comes to slot i.
Reach(S, c, f, i) ==
    \E n \in 0..(c - 1) :
        Probe(f, c, n) = i /\ \A m \in 0..(n - 1) : S[Probe(f, c, m)] # SLOT_EMPTY

OneEach(S) == \A i, j \in Occ(S) : S[i][1] = S[j][1] => i = j
Placed(S, c) == \A i \in Occ(S) : Reach(S, c, S[i][1], i)

Shape(S, c) == S \in [0..(c - 1) -> Slots] /\ OneEach(S) /\ Placed(S, c)

\* An entry is no marker.
LEMMA SlotKinds ==
    /\ SLOT_EMPTY # SLOT_TOMBSTONE /\ ~Occupied(SLOT_EMPTY) /\ ~Occupied(SLOT_TOMBSTONE)
    /\ \A e \in Pairs : Occupied(e) /\ e # SLOT_EMPTY /\ e # SLOT_TOMBSTONE
    /\ \A e \in Slots : Occupied(e) <=> e \in Pairs
<1>1. SLOT_EMPTY # SLOT_TOMBSTONE
  BY DEF SLOT_EMPTY, SLOT_TOMBSTONE
<1>2. ASSUME NEW e \in Pairs PROVE e # SLOT_EMPTY /\ e # SLOT_TOMBSTONE
  <2>1. PICK f, v : e = <<f, v>>
    BY DEF Pairs
  <2>2. Len(e) = 2 /\ Len(SLOT_EMPTY) = 0 /\ Len(SLOT_TOMBSTONE) = 1
    BY <2>1 DEF SLOT_EMPTY, SLOT_TOMBSTONE
  <2> QED
    BY <2>2
<1> QED
  BY <1>1, <1>2 DEF Occupied, Slots

\* What is known of an occupied slot.
LEMMA OccIs ==
    ASSUME NEW c \in Nat \ {0}, NEW S, Shape(S, c)
    PROVE  /\ DOMAIN S = 0..(c - 1)
           /\ Occ(S) \subseteq 0..(c - 1) /\ NonEmpty(S) \subseteq 0..(c - 1)
           /\ Occ(S) \subseteq NonEmpty(S)
           /\ \A i \in Occ(S) : S[i] \in Pairs /\ S[i] \in SlotEntries(S)
           /\ SlotEntries(S) \subseteq Pairs
           /\ \A f : Knows(SlotEntries(S), f) <=> \E i \in Occ(S) : S[i][1] = f
<1>1. DOMAIN S = 0..(c - 1) /\ \A i \in 0..(c - 1) : S[i] \in Slots
  BY DEF Shape
<1>2. \A i \in Occ(S) : i \in 0..(c - 1) /\ S[i] \in Pairs /\ S[i] # SLOT_EMPTY
  BY <1>1, SlotKinds DEF Occ
<1> QED
  BY <1>1, <1>2 DEF SlotEntries, Knows, NonEmpty, Occ

\* The last probe of a search: the field, an empty slot, or none of both.
LEMMA LastIs ==
    ASSUME NEW t, t.capacity \in Nat, NEW f
    PROVE  /\ LastProbe(t, f) \in 0..t.capacity
           /\ \/ LastProbe(t, f) = t.capacity
              \/ Slot(t, f, LastProbe(t, f)) = SLOT_EMPTY
              \/ Holds(Slot(t, f, LastProbe(t, f)), f)
           /\ \A m \in 0..(LastProbe(t, f) - 1) :
                 Slot(t, f, m) # SLOT_EMPTY /\ ~Holds(Slot(t, f, m), f)
<1> DEFINE c == t.capacity
           Ends(n) == n = c \/ Slot(t, f, n) = SLOT_EMPTY \/ Holds(Slot(t, f, n), f)
           Bad == {n \in 0..c : Ends(n)}
<1>1. Bad \subseteq Nat /\ Bad # {}
  <2>1. c \in 0..c /\ Ends(c)
    OBVIOUS
  <2> QED
    BY <2>1
<1>2. PICK n \in Bad : \A m \in Bad : n <= m
  BY <1>1, SmallestNat
<1>3. \A m \in 0..(n - 1) : m \in 0..c /\ m < n
  BY <1>2
<1>4. \A m \in 0..(n - 1) : Slot(t, f, m) # SLOT_EMPTY /\ ~Holds(Slot(t, f, m), f)
  <2> TAKE m \in 0..(n - 1)
  <2>1. m \notin Bad
    BY <1>2, <1>3
  <2> QED
    BY <1>3, <2>1
<1>5. \E k \in 0..t.capacity :
        /\ k = t.capacity \/ Slot(t, f, k) = SLOT_EMPTY \/ Holds(Slot(t, f, k), f)
        /\ \A m \in 0..k - 1 : Slot(t, f, m) # SLOT_EMPTY /\ ~Holds(Slot(t, f, m), f)
  <2>1. n \in 0..t.capacity /\ Ends(n)
    OBVIOUS
  <2> QED
    BY <1>4, <2>1
<1> QED
  BY <1>5 DEF LastProbe

\* The first tombstone on the way, if any.
LEMMA TombstoneIs ==
    ASSUME NEW t, t.capacity \in Nat, NEW f
    PROVE  /\ FirstTombstone(t, f) \in 0..t.capacity
           /\ FirstTombstone(t, f) = t.capacity \/ Slot(t, f, FirstTombstone(t, f)) = SLOT_TOMBSTONE
<1> DEFINE c == t.capacity
           Ends(n) == n = c \/ Slot(t, f, n) = SLOT_TOMBSTONE
           Bad == {n \in 0..c : Ends(n)}
<1>1. Bad \subseteq Nat /\ Bad # {}
  <2>1. c \in 0..c /\ Ends(c)
    OBVIOUS
  <2> QED
    BY <2>1
<1>2. PICK n \in Bad : \A m \in Bad : n <= m
  BY <1>1, SmallestNat
<1>3. \A m \in 0..(n - 1) : m \in 0..c /\ m < n
  BY <1>2
<1>4. \A m \in 0..(n - 1) : Slot(t, f, m) # SLOT_TOMBSTONE
  <2> TAKE m \in 0..(n - 1)
  <2>1. m \notin Bad
    BY <1>2, <1>3
  <2> QED
    BY <1>3, <2>1
<1>5. \E k \in 0..t.capacity :
        /\ k = t.capacity \/ Slot(t, f, k) = SLOT_TOMBSTONE
        /\ \A m \in 0..k - 1 : Slot(t, f, m) # SLOT_TOMBSTONE
  <2>1. n \in 0..t.capacity /\ Ends(n)
    OBVIOUS
  <2> QED
    BY <1>4, <2>1
<1> QED
  BY <1>5 DEF FirstTombstone

\* Every probe of a search is a slot.
LEMMA SlotIs ==
    ASSUME NEW t, NEW f
    PROVE  /\ \A n : Index(t, f, n) = Probe(f, t.capacity, n)
           /\ \A n : Slot(t, f, n) = t.slots[Probe(f, t.capacity, n)]
BY DEF Index, Slot, Probe

\* The search for a stored field ends at it.
LEMMA FindStored ==
    ASSUME NEW t, PowerOfTwo(t.capacity), t.capacity # 1, Shape(t.slots, t.capacity),
           NEW f \in Fields, Knows(SlotEntries(t.slots), f)
    PROVE  /\ FindSlot(t, f).existing # Missing
           /\ FindSlot(t, f).existing \in Occ(t.slots)
           /\ t.slots[FindSlot(t, f).existing][1] = f
<1> DEFINE c == t.capacity
           S == t.slots
           last == LastProbe(t, f)
<1>1. c \in Nat \ {0} /\ Shape(S, c)
  BY PowerEven
<1>2. \A n \in Nat : Probe(f, c, n) \in 0..(c - 1)
  BY ProbesCover
<1>3. \A n : Index(t, f, n) = Probe(f, c, n) /\ Slot(t, f, n) = S[Probe(f, c, n)]
  BY SlotIs
<1>4. /\ last \in 0..c
      /\ last = c \/ Slot(t, f, last) = SLOT_EMPTY \/ Holds(Slot(t, f, last), f)
      /\ \A m \in 0..(last - 1) : Slot(t, f, m) # SLOT_EMPTY /\ ~Holds(Slot(t, f, m), f)
  BY <1>1, LastIs
<1>5. PICK i \in Occ(S) : S[i][1] = f
  BY <1>1, OccIs
<1>6. Reach(S, c, f, i)
  BY <1>1, <1>5 DEF Shape, Placed
<1>7. PICK n \in 0..(c - 1) :
          Probe(f, c, n) = i /\ \A m \in 0..(n - 1) : S[Probe(f, c, m)] # SLOT_EMPTY
  BY <1>6 DEF Reach
<1>8. Occupied(S[i]) /\ Holds(S[i], f) /\ S[i] # SLOT_EMPTY
  BY <1>5, SlotKinds DEF Occ, Holds
<1> HIDE DEF c, S, last
<1>9. last \in 0..(c - 1) /\ Holds(Slot(t, f, last), f)
  <2>1. ASSUME n < last PROVE FALSE
    <3>1. n \in 0..(last - 1)
      BY <1>1, <1>4, <2>1
    <3> QED
      BY <1>3, <1>4, <1>7, <1>8, <3>1
  <2>2. CASE last < n
    <3>1. last \in 0..(n - 1) /\ last # c /\ last \in 0..(c - 1)
      BY <1>1, <1>4, <2>2
    <3> QED
      BY <1>3, <1>4, <1>7, <3>1
  <2>3. CASE last = n
    BY <1>3, <1>7, <1>8, <2>3
  <2> QED
    BY <1>1, <1>4, <2>1, <2>2, <2>3
<1> DEFINE j == Probe(f, c, last)
<1>10. j \in 0..(c - 1) /\ Occupied(S[j]) /\ S[j][1] = f
  BY <1>2, <1>3, <1>9 DEF Holds
<1>11. j \in Occ(S)
  BY <1>1, <1>10, OccIs DEF Occ
<1>12. j # Missing
  BY <1>1, <1>10, HashTableAssumption
<1>13. last < t.capacity /\ Holds(Slot(t, f, LastProbe(t, f)), f) /\ Index(t, f, LastProbe(t, f)) = j
  BY <1>1, <1>3, <1>9 DEF c, last
<1> HIDE DEF j
<1>14. FindSlot(t, f).existing = j
  BY <1>13 DEF FindSlot, last
<1> QED
  BY <1>10, <1>11, <1>12, <1>14 DEF S

\* The search for a field that is not stored finds where to put it.
LEMMA FindAbsent ==
    ASSUME NEW t, PowerOfTwo(t.capacity), t.capacity # 1, Shape(t.slots, t.capacity),
           NEW f \in Fields, ~Knows(SlotEntries(t.slots), f),
           \E i \in 0..(t.capacity - 1) : t.slots[i] = SLOT_EMPTY
    PROVE  /\ FindSlot(t, f).existing = Missing
           /\ FindSlot(t, f).insert # Missing
           /\ FindSlot(t, f).insert \in 0..(t.capacity - 1)
           /\ FindSlot(t, f).insert \notin Occ(t.slots)
           /\ Reach(t.slots, t.capacity, f, FindSlot(t, f).insert)
           /\ Index(t, f, LastProbe(t, f)) \in 0..(t.capacity - 1)
           /\ t.slots[Index(t, f, LastProbe(t, f))] = SLOT_EMPTY
           /\ Reach(t.slots, t.capacity, f, Index(t, f, LastProbe(t, f)))
<1> DEFINE c == t.capacity
           S == t.slots
           last == LastProbe(t, f)
           first == FirstTombstone(t, f)
<1>1. c \in Nat \ {0} /\ Shape(S, c)
  BY PowerEven
<1>2. /\ \A n \in Nat : Probe(f, c, n) \in 0..(c - 1)
      /\ \A i \in 0..(c - 1) : \E n \in 0..(c - 1) : Probe(f, c, n) = i
  BY ProbesCover
<1>3. \A n : Index(t, f, n) = Probe(f, c, n) /\ Slot(t, f, n) = S[Probe(f, c, n)]
  BY SlotIs
<1>4. /\ last \in 0..c
      /\ last = c \/ Slot(t, f, last) = SLOT_EMPTY \/ Holds(Slot(t, f, last), f)
      /\ \A m \in 0..(last - 1) : Slot(t, f, m) # SLOT_EMPTY /\ ~Holds(Slot(t, f, m), f)
  BY <1>1, LastIs
<1>5. first \in 0..c /\ (first = c \/ Slot(t, f, first) = SLOT_TOMBSTONE)
  BY <1>1, TombstoneIs
<1>6. PICK i \in 0..(c - 1) : S[i] = SLOT_EMPTY
  OBVIOUS
<1>7. ~Knows(SlotEntries(S), f)
  OBVIOUS
<1> HIDE DEF c, S, last, first
<1>8. \A n \in Nat : ~Holds(Slot(t, f, n), f)
  <2>1. ASSUME NEW n \in Nat, Holds(Slot(t, f, n), f) PROVE FALSE
    <3> DEFINE j == Probe(f, c, n)
    <3>1. j \in 0..(c - 1) /\ Occupied(S[j]) /\ S[j][1] = f
      BY <1>2, <1>3, <2>1 DEF Holds
    <3>2. j \in Occ(S)
      BY <1>1, <3>1, OccIs DEF Occ
    <3> QED
      BY <1>1, <1>7, <3>1, <3>2, OccIs
  <2> QED
    BY <2>1
<1>9. last \in 0..(c - 1) /\ Slot(t, f, last) = SLOT_EMPTY
  <2>1. PICK n \in 0..(c - 1) : Probe(f, c, n) = i
    BY <1>2, <1>6
  <2>2. ASSUME last = c PROVE FALSE
    <3>1. n \in 0..(last - 1)
      BY <2>1, <2>2
    <3> QED
      BY <1>3, <1>4, <1>6, <2>1, <3>1
  <2>3. last \in 0..(c - 1) /\ last \in Nat
    BY <1>1, <1>4, <2>2
  <2> QED
    BY <1>4, <1>8, <2>3
<1>10. ASSUME NEW n \in 0..(c - 1), n <= last
       PROVE  Reach(S, c, f, Probe(f, c, n))
  <2>1. \A m \in 0..(n - 1) : m \in 0..(last - 1)
    BY <1>9, <1>10
  <2>2. \A m \in 0..(n - 1) : S[Probe(f, c, m)] # SLOT_EMPTY
    BY <1>3, <1>4, <2>1
  <2> QED
    BY <2>2 DEF Reach
<1> DEFINE j == Probe(f, c, last)
           k == Probe(f, c, first)
<1>11. j \in 0..(c - 1) /\ S[j] = SLOT_EMPTY /\ j \notin Occ(S) /\ j # Missing /\ Reach(S, c, f, j)
  <2>1. j \in 0..(c - 1) /\ S[j] = SLOT_EMPTY
    BY <1>1, <1>2, <1>3, <1>9
  <2>2. Reach(S, c, f, j)
    BY <1>9, <1>10
  <2> QED
    BY <1>1, <2>1, <2>2, SlotKinds, HashTableAssumption DEF Occ
<1>12. ASSUME first < last
       PROVE  k \in 0..(c - 1) /\ k \notin Occ(S) /\ k # Missing /\ Reach(S, c, f, k)
  <2>1. first \in 0..(c - 1) /\ first # c /\ first <= last
    BY <1>1, <1>5, <1>9, <1>12
  <2>2. k \in 0..(c - 1) /\ S[k] = SLOT_TOMBSTONE
    BY <1>1, <1>2, <1>3, <1>5, <2>1
  <2>3. Reach(S, c, f, k)
    BY <1>10, <2>1
  <2> QED
    BY <1>1, <2>2, <2>3, SlotKinds, HashTableAssumption DEF Occ
<1>13. Index(t, f, LastProbe(t, f)) = j /\ Index(t, f, FirstTombstone(t, f)) = k
  BY <1>3 DEF last, first
<1>14. LastProbe(t, f) < t.capacity /\ ~Holds(Slot(t, f, LastProbe(t, f)), f)
  BY <1>1, <1>8, <1>9 DEF last, c
<1> HIDE DEF j, k
<1>15. /\ FindSlot(t, f).existing = Missing
       /\ FindSlot(t, f).insert = IF first < last THEN k ELSE j
  BY <1>13, <1>14 DEF FindSlot, last, first
<1>16. CASE first < last
  BY <1>11, <1>12, <1>13, <1>15, <1>16 DEF c, S
<1>17. CASE ~(first < last)
  BY <1>11, <1>13, <1>15, <1>17 DEF c, S
<1> QED
  BY <1>16, <1>17

\* A probe path is cut only by a slot that becomes empty.
LEMMA ReachStays ==
    ASSUME NEW c, PowerOfTwo(c), c # 1, NEW S, NEW T,
           \A j \in 0..(c - 1) : S[j] # SLOT_EMPTY => T[j] # SLOT_EMPTY,
           NEW f \in Fields, NEW i, Reach(S, c, f, i)
    PROVE  Reach(T, c, f, i)
<1>1. PICK n \in 0..(c - 1) :
          Probe(f, c, n) = i /\ \A m \in 0..(n - 1) : S[Probe(f, c, m)] # SLOT_EMPTY
  BY DEF Reach
<1>2. \A m \in Nat : Probe(f, c, m) \in 0..(c - 1)
  BY ProbesCover
<1>3. \A m \in 0..(n - 1) : T[Probe(f, c, m)] # SLOT_EMPTY
  BY <1>1, <1>2
<1> QED
  BY <1>1, <1>3 DEF Reach

\* How many slots have an entry, and how many are not empty.
LEMMA CountsAre ==
    ASSUME NEW c \in Nat \ {0}, NEW S, Shape(S, c)
    PROVE  /\ IsFiniteSet(Occ(S)) /\ IsFiniteSet(NonEmpty(S))
           /\ Cardinality(Occ(S)) \in Nat /\ Cardinality(NonEmpty(S)) \in Nat
           /\ Cardinality(Occ(S)) <= Cardinality(NonEmpty(S))
           /\ Cardinality(NonEmpty(S)) <= c
           /\ Cardinality(NonEmpty(S)) < c => \E i \in 0..(c - 1) : S[i] = SLOT_EMPTY
           /\ IsFiniteSet(SlotEntries(S)) /\ Cardinality(SlotEntries(S)) = Cardinality(Occ(S))
<1> DEFINE I == 0..(c - 1)
<1>1. IsFiniteSet(I) /\ Cardinality(I) = c
  <2> DEFINE a == 0
             b == c - 1
  <2>1. a \in Int /\ b \in Int
    OBVIOUS
  <2> HIDE DEF a, b
  <2>2. IsFiniteSet(a..b) /\ Cardinality(a..b) = IF a > b THEN 0 ELSE b - a + 1
    BY <2>1, FS_Interval
  <2>3. (IF a > b THEN 0 ELSE b - a + 1) = c
    BY DEF a, b
  <2> QED
    BY <2>2, <2>3 DEF a, b
<1>2. Occ(S) \subseteq NonEmpty(S) /\ NonEmpty(S) \subseteq I /\ DOMAIN S = I
  BY OccIs
<1> HIDE DEF I
<1>3. IsFiniteSet(NonEmpty(S)) /\ Cardinality(NonEmpty(S)) <= c
      /\ (Cardinality(NonEmpty(S)) = c => NonEmpty(S) = I)
  BY <1>1, <1>2, FS_Subset
<1>4. IsFiniteSet(Occ(S)) /\ Cardinality(Occ(S)) <= Cardinality(NonEmpty(S))
  BY <1>2, <1>3, FS_Subset
<1>5. Cardinality(Occ(S)) \in Nat /\ Cardinality(NonEmpty(S)) \in Nat
  BY <1>3, <1>4, FS_CardinalityType
<1>6. ASSUME Cardinality(NonEmpty(S)) < c PROVE \E i \in 0..(c - 1) : S[i] = SLOT_EMPTY
  <2>1. NonEmpty(S) # I
    BY <1>1, <1>5, <1>6
  <2>2. PICK i \in I : i \notin NonEmpty(S)
    BY <1>2, <2>1
  <2> QED
    BY <1>2, <2>2 DEF NonEmpty, I
<1>7. IsFiniteSet(SlotEntries(S)) /\ Cardinality(SlotEntries(S)) = Cardinality(Occ(S))
  <2> DEFINE p == [i \in Occ(S) |-> S[i]]
  <2>1. p \in [Occ(S) -> SlotEntries(S)]
    BY DEF SlotEntries
  <2>2. \A i, j \in Occ(S) : p[i] = p[j] => i = j
    BY DEF Shape, OneEach
  <2>3. \A e \in SlotEntries(S) : \E i \in Occ(S) : p[i] = e
    BY DEF SlotEntries
  <2>4. p \in Bijection(Occ(S), SlotEntries(S))
    BY <2>1, <2>2, <2>3 DEF Bijection, Injection, Surjection, IsInjective
  <2> DEFINE A == Occ(S)
             B == SlotEntries(S)
  <2>5. IsFiniteSet(A) /\ p \in Bijection(A, B)
    BY <1>4, <2>4
  <2> HIDE DEF p, A, B
  <2>6. IsFiniteSet(B) /\ Cardinality(B) = Cardinality(A)
    BY <2>5, FS_Bijection DEF ExistsBijection
  <2> QED
    BY <2>6 DEF A, B
<1> QED
  BY <1>3, <1>4, <1>5, <1>6, <1>7

\* Writing an entry into a slot that the search for it has found.
LEMMA PutIs ==
    ASSUME NEW c, PowerOfTwo(c), c # 1, NEW S, Shape(S, c),
           NEW e \in Pairs, ~Knows(SlotEntries(S), e[1]),
           NEW i \in 0..(c - 1), i \notin Occ(S), Reach(S, c, e[1], i),
           NEW T, T = Written(S, i, e)
    PROVE  /\ Shape(T, c) /\ SlotEntries(T) = SlotEntries(S) \cup {e}
           /\ Cardinality(Occ(T)) = Cardinality(Occ(S)) + 1
           /\ S[i] = SLOT_EMPTY => Cardinality(NonEmpty(T)) = Cardinality(NonEmpty(S)) + 1
           /\ S[i] # SLOT_EMPTY => Cardinality(NonEmpty(T)) = Cardinality(NonEmpty(S))
<1>1. c \in Nat \ {0} /\ DOMAIN S = 0..(c - 1) /\ DOMAIN T = 0..(c - 1)
  BY PowerEven, OccIs DEF Written
<1>2. T[i] = e /\ \A j \in 0..(c - 1) : j # i => T[j] = S[j]
  BY <1>1 DEF Written
<1>3. T \in [0..(c - 1) -> Slots]
  BY <1>1 DEF Shape, Slots, Written
<1>4. Occupied(e) /\ e # SLOT_EMPTY
  BY SlotKinds
<1>5. Occ(T) = Occ(S) \cup {i}
  BY <1>1, <1>2, <1>4 DEF Occ
<1>6. NonEmpty(T) = NonEmpty(S) \cup {i}
  BY <1>1, <1>2, <1>4 DEF NonEmpty
<1>7. \A j \in Occ(S) : j # i /\ T[j] = S[j] /\ S[j] \in Pairs /\ S[j][1] # e[1]
  BY <1>1, <1>2, OccIs
<1>8. OneEach(T)
  BY <1>2, <1>5, <1>7 DEF Shape, OneEach
<1>9. Placed(T, c)
  <2>1. \A j \in 0..(c - 1) : S[j] # SLOT_EMPTY => T[j] # SLOT_EMPTY
    BY <1>2, <1>4
  <2>2. ASSUME NEW j \in Occ(T) PROVE Reach(T, c, T[j][1], j)
    <3>1. CASE j = i
      <4>1. T[j][1] = e[1] /\ e[1] \in Fields
        BY <1>2, <3>1 DEF Pairs
      <4>2. Reach(T, c, e[1], i)
        BY <2>1, <4>1, ReachStays
      <4> QED
        BY <3>1, <4>1, <4>2
    <3>2. CASE j # i
      <4>1. j \in Occ(S) /\ T[j][1] = S[j][1] /\ S[j][1] \in Fields
        BY <1>5, <1>7, <3>2 DEF Pairs
      <4>2. Reach(S, c, S[j][1], j)
        BY <4>1 DEF Shape, Placed
      <4> QED
        BY <2>1, <4>1, <4>2, ReachStays
    <3> QED
      BY <3>1, <3>2
  <2> QED
    BY <2>2 DEF Placed
<1>10. SlotEntries(T) = SlotEntries(S) \cup {e}
  <2>1. ASSUME NEW x \in SlotEntries(T) PROVE x \in SlotEntries(S) \cup {e}
    <3>1. PICK j \in Occ(T) : x = T[j]
      BY DEF SlotEntries
    <3> QED
      BY <1>2, <1>5, <1>7, <3>1 DEF SlotEntries
  <2>2. ASSUME NEW x \in SlotEntries(S) PROVE x \in SlotEntries(T)
    <3>1. PICK j \in Occ(S) : x = S[j]
      BY DEF SlotEntries
    <3> QED
      BY <1>5, <1>7, <3>1 DEF SlotEntries
  <2>3. e \in SlotEntries(T)
    BY <1>2, <1>5 DEF SlotEntries
  <2> QED
    BY <2>1, <2>2, <2>3
<1>11. Cardinality(Occ(T)) = Cardinality(Occ(S)) + 1
  <2>1. IsFiniteSet(Occ(S))
    BY <1>1, CountsAre
  <2> QED
    BY <1>5, <2>1, FS_AddElement
<1>12. /\ S[i] = SLOT_EMPTY => Cardinality(NonEmpty(T)) = Cardinality(NonEmpty(S)) + 1
       /\ S[i] # SLOT_EMPTY => Cardinality(NonEmpty(T)) = Cardinality(NonEmpty(S))
  <2>1. IsFiniteSet(NonEmpty(S)) /\ Cardinality(NonEmpty(S)) \in Nat
    BY <1>1, CountsAre
  <2>2. i \in NonEmpty(S) <=> S[i] # SLOT_EMPTY
    BY <1>1 DEF NonEmpty
  <2>3. CASE S[i] = SLOT_EMPTY
    BY <1>6, <2>1, <2>2, <2>3, FS_AddElement
  <2>4. CASE S[i] # SLOT_EMPTY
    <3>1. NonEmpty(T) = NonEmpty(S)
      BY <1>6, <2>2, <2>4
    <3> QED
      BY <2>1, <2>4, <3>1
  <2> QED
    BY <2>3, <2>4
<1>13. Shape(T, c)
  BY <1>3, <1>8, <1>9 DEF Shape
<1> QED
  BY <1>10, <1>11, <1>12, <1>13

\* Another value for a stored field.
LEMMA RewriteIs ==
    ASSUME NEW c, PowerOfTwo(c), c # 1, NEW S, Shape(S, c),
           NEW e \in Pairs, NEW i \in Occ(S), S[i][1] = e[1],
           NEW T, T = Written(S, i, e)
    PROVE  /\ Shape(T, c) /\ SlotEntries(T) = Without(SlotEntries(S), e[1]) \cup {e}
           /\ Occ(T) = Occ(S) /\ NonEmpty(T) = NonEmpty(S)
<1>1. /\ c \in Nat \ {0} /\ DOMAIN S = 0..(c - 1) /\ DOMAIN T = 0..(c - 1)
      /\ i \in 0..(c - 1) /\ i \in NonEmpty(S)
  BY PowerEven, OccIs DEF Written
<1>2. T[i] = e /\ \A j \in 0..(c - 1) : j # i => T[j] = S[j]
  BY <1>1 DEF Written
<1>3. T \in [0..(c - 1) -> Slots]
  BY <1>1 DEF Shape, Slots, Written
<1>4. Occupied(e) /\ e # SLOT_EMPTY
  BY SlotKinds
<1>5. Occ(T) = Occ(S)
  BY <1>1, <1>2, <1>4 DEF Occ
<1>6. NonEmpty(T) = NonEmpty(S)
  BY <1>1, <1>2, <1>4 DEF NonEmpty
<1>7. \A j \in Occ(S) : S[j] \in Pairs /\ T[j][1] = S[j][1] /\ (j # i => T[j] = S[j] /\ S[j][1] # e[1])
  <2> TAKE j \in Occ(S)
  <2>1. j \in 0..(c - 1) /\ S[j] \in Pairs
    BY <1>1, OccIs
  <2>2. j # i => S[j][1] # S[i][1]
    BY DEF Shape, OneEach
  <2> QED
    BY <1>2, <2>1, <2>2
<1>8. OneEach(T)
  BY <1>5, <1>7 DEF Shape, OneEach
<1>9. Placed(T, c)
  <2>1. \A j \in 0..(c - 1) : S[j] # SLOT_EMPTY => T[j] # SLOT_EMPTY
    BY <1>2, <1>4
  <2>2. ASSUME NEW j \in Occ(T) PROVE Reach(T, c, T[j][1], j)
    <3>1. j \in Occ(S) /\ T[j][1] = S[j][1] /\ S[j][1] \in Fields
      BY <1>5, <1>7 DEF Pairs
    <3>2. Reach(S, c, S[j][1], j)
      BY <3>1 DEF Shape, Placed
    <3> QED
      BY <2>1, <3>1, <3>2, ReachStays
  <2> QED
    BY <2>2 DEF Placed
<1>10. SlotEntries(T) = Without(SlotEntries(S), e[1]) \cup {e}
  <2>1. ASSUME NEW x \in SlotEntries(T) PROVE x \in Without(SlotEntries(S), e[1]) \cup {e}
    <3>1. PICK j \in Occ(S) : x = T[j]
      BY <1>5 DEF SlotEntries
    <3> QED
      BY <1>2, <1>7, <3>1 DEF SlotEntries, Without
  <2>2. ASSUME NEW x \in Without(SlotEntries(S), e[1]) PROVE x \in SlotEntries(T)
    <3>1. PICK j \in Occ(S) : x = S[j] /\ S[j][1] # e[1]
      BY DEF SlotEntries, Without
    <3>2. j # i
      BY <3>1
    <3> QED
      BY <1>5, <1>7, <3>1, <3>2 DEF SlotEntries
  <2>3. e \in SlotEntries(T)
    BY <1>2, <1>5 DEF SlotEntries
  <2> QED
    BY <2>1, <2>2, <2>3
<1> QED
  BY <1>3, <1>5, <1>6, <1>8, <1>9, <1>10 DEF Shape

\* A tombstone for a stored field.
LEMMA TombIs ==
    ASSUME NEW c, PowerOfTwo(c), c # 1, NEW S, Shape(S, c), NEW i \in Occ(S),
           NEW T, T = Written(S, i, SLOT_TOMBSTONE)
    PROVE  /\ Shape(T, c) /\ SlotEntries(T) = Without(SlotEntries(S), S[i][1])
           /\ Cardinality(Occ(T)) = Cardinality(Occ(S)) - 1 /\ NonEmpty(T) = NonEmpty(S)
<1>1. /\ c \in Nat \ {0} /\ DOMAIN S = 0..(c - 1) /\ DOMAIN T = 0..(c - 1)
      /\ i \in 0..(c - 1) /\ i \in NonEmpty(S)
  BY PowerEven, OccIs DEF Written
<1>2. T[i] = SLOT_TOMBSTONE /\ \A j \in 0..(c - 1) : j # i => T[j] = S[j]
  BY <1>1 DEF Written
<1>3. T \in [0..(c - 1) -> Slots]
  BY <1>1 DEF Shape, Slots, Written
<1>4. ~Occupied(SLOT_TOMBSTONE) /\ SLOT_TOMBSTONE # SLOT_EMPTY
  BY SlotKinds
<1>5. Occ(T) = Occ(S) \ {i}
  BY <1>1, <1>2, <1>4 DEF Occ
<1>6. NonEmpty(T) = NonEmpty(S)
  BY <1>1, <1>2, <1>4 DEF NonEmpty
<1>7. \A j \in Occ(T) : j \in Occ(S) /\ S[j] \in Pairs /\ T[j] = S[j] /\ S[j][1] # S[i][1]
  <2> TAKE j \in Occ(T)
  <2>1. j \in Occ(S) /\ j # i
    BY <1>5
  <2>2. j \in 0..(c - 1) /\ S[j] \in Pairs
    BY <1>1, <2>1, OccIs
  <2>3. S[j][1] # S[i][1]
    BY <2>1 DEF Shape, OneEach
  <2> QED
    BY <1>2, <2>1, <2>2, <2>3
<1>8. OneEach(T)
  BY <1>7 DEF Shape, OneEach
<1>9. Placed(T, c)
  <2>1. \A j \in 0..(c - 1) : S[j] # SLOT_EMPTY => T[j] # SLOT_EMPTY
    BY <1>2, <1>4
  <2>2. ASSUME NEW j \in Occ(T) PROVE Reach(T, c, T[j][1], j)
    <3>1. j \in Occ(S) /\ T[j][1] = S[j][1] /\ S[j][1] \in Fields
      BY <1>7 DEF Pairs
    <3>2. Reach(S, c, S[j][1], j)
      BY <3>1 DEF Shape, Placed
    <3> QED
      BY <2>1, <3>1, <3>2, ReachStays
  <2> QED
    BY <2>2 DEF Placed
<1>10. SlotEntries(T) = Without(SlotEntries(S), S[i][1])
  <2>1. ASSUME NEW x \in SlotEntries(T) PROVE x \in Without(SlotEntries(S), S[i][1])
    <3>1. PICK j \in Occ(T) : x = T[j]
      BY DEF SlotEntries
    <3> QED
      BY <1>7, <3>1 DEF SlotEntries, Without
  <2>2. ASSUME NEW x \in Without(SlotEntries(S), S[i][1]) PROVE x \in SlotEntries(T)
    <3>1. PICK j \in Occ(S) : x = S[j] /\ S[j][1] # S[i][1]
      BY DEF SlotEntries, Without
    <3>2. j \in Occ(T)
      BY <1>5, <3>1
    <3> QED
      BY <1>7, <3>1, <3>2 DEF SlotEntries
  <2> QED
    BY <2>1, <2>2
<1>11. Cardinality(Occ(T)) = Cardinality(Occ(S)) - 1
  <2>1. IsFiniteSet(Occ(S))
    BY <1>1, CountsAre
  <2> QED
    BY <1>5, <2>1, FS_RemoveElement
<1> QED
  BY <1>3, <1>6, <1>8, <1>9, <1>10, <1>11 DEF Shape

-----------------------------------------------------------------------------
(***************************************************************************)
(* The open table: its slots have the shape above and its counters are     *)
(* theirs.                                                                 *)
(***************************************************************************)
IsOpen(t) ==
    /\ DOMAIN t = {"form", "capacity", "liveCount", "used", "slots"} /\ t.form = "open"
    /\ PowerOfTwo(t.capacity) /\ t.capacity >= INITIAL_CAPACITY
    /\ Shape(t.slots, t.capacity)
    /\ t.liveCount = Cardinality(Occ(t.slots)) /\ t.used = Cardinality(NonEmpty(t.slots))

\* What IsOpen says of the counters.
LEMMA OpenIs ==
    ASSUME NEW t, IsOpen(t)
    PROVE  /\ t.capacity \in Nat /\ t.capacity >= 4 /\ t.capacity # 1
           /\ t.liveCount \in Nat /\ t.used \in Nat
           /\ t.liveCount <= t.used /\ t.used <= t.capacity
           /\ t.used < t.capacity => \E i \in 0..(t.capacity - 1) : t.slots[i] = SLOT_EMPTY
           /\ IsFiniteSet(SlotEntries(t.slots)) /\ Cardinality(SlotEntries(t.slots)) = t.liveCount
           /\ SlotEntries(t.slots) \subseteq Pairs
<1>1. t.capacity \in Nat /\ t.capacity >= 4 /\ t.capacity # 1
  BY HashTableAssumption DEF IsOpen, PowerOfTwo
<1> DEFINE c == t.capacity
           S == t.slots
<1>2. c \in Nat \ {0} /\ Shape(S, c)
  BY <1>1 DEF IsOpen
<1>3. t.liveCount = Cardinality(Occ(S)) /\ t.used = Cardinality(NonEmpty(S))
  BY DEF IsOpen
<1> HIDE DEF c, S
<1>4. /\ Cardinality(Occ(S)) \in Nat /\ Cardinality(NonEmpty(S)) \in Nat
      /\ Cardinality(Occ(S)) <= Cardinality(NonEmpty(S))
      /\ Cardinality(NonEmpty(S)) <= c
      /\ Cardinality(NonEmpty(S)) < c => \E i \in 0..(c - 1) : S[i] = SLOT_EMPTY
      /\ IsFiniteSet(SlotEntries(S)) /\ Cardinality(SlotEntries(S)) = Cardinality(Occ(S))
  BY <1>2, CountsAre
<1>5. SlotEntries(S) \subseteq Pairs
  BY <1>2, OccIs
<1> QED
  BY <1>1, <1>3, <1>4, <1>5 DEF c, S

\* items() lists the occupied slots.
LEMMA ItemsOpenIs ==
    ASSUME NEW t, IsOpen(t)
    PROVE  /\ ItemsOpen(t) \in Seq(Pairs) /\ Distinct(ItemsOpen(t))
           /\ EntriesOf(ItemsOpen(t)) = SlotEntries(t.slots)
           /\ Len(ItemsOpen(t)) = t.liveCount
<1> DEFINE c == t.capacity
           S == t.slots
           q == [n \in 1..c |-> IF Occupied(S[n - 1]) THEN <<S[n - 1]>> ELSE <<>>]
<1>1. c \in Nat \ {0} /\ Shape(S, c)
  BY OpenIs DEF IsOpen
<1>2. /\ DOMAIN S = 0..(c - 1)
      /\ \A i \in Occ(S) : S[i] \in Pairs
  BY <1>1, OccIs
<1>3. ItemsOpen(t) = FlattenSeq(q)
  BY DEF ItemsOpen
<1>4. /\ Cardinality(SlotEntries(S)) = t.liveCount
  BY OpenIs
<1>5. ASSUME NEW n \in 1..c
      PROVE  /\ q[n] \in Seq(Pairs) /\ Distinct(q[n])
             /\ EntriesOf(q[n]) = {e \in {S[n - 1]} : n - 1 \in Occ(S)}
  <2>1. n - 1 \in DOMAIN S
    BY <1>1, <1>2
  <2>2. CASE Occupied(S[n - 1])
    <3>1. n - 1 \in Occ(S) /\ S[n - 1] \in Pairs
      BY <1>2, <2>1, <2>2 DEF Occ
    <3>2. q[n] = <<S[n - 1]>>
      BY <2>2
    <3>3. <<S[n - 1]>> \in Seq(Pairs) /\ Distinct(<<S[n - 1]>>) /\ EntriesOf(<<S[n - 1]>>) = {S[n - 1]}
      BY <3>1, OneEntry
    <3> QED
      BY <3>1, <3>2, <3>3
  <2>3. CASE ~Occupied(S[n - 1])
    <3>1. n - 1 \notin Occ(S) /\ q[n] = <<>>
      BY <2>3 DEF Occ
    <3> QED
      BY <3>1 DEF Distinct, EntriesOf
  <2> QED
    BY <2>2, <2>3
<1>6. q \in [1..c -> Seq(Pairs)]
  BY <1>5
<1>7. Apart(q, c)
  <2>1. ASSUME NEW i \in 1..c, NEW j \in 1..c, NEW e \in EntriesOf(q[i]), NEW d \in EntriesOf(q[j]),
               i # j
        PROVE  e[1] # d[1]
    <3>1. e = S[i - 1] /\ d = S[j - 1] /\ i - 1 \in Occ(S) /\ j - 1 \in Occ(S)
      BY <1>5, <2>1
    <3>2. i - 1 # j - 1
      BY <1>1, <2>1
    <3> QED
      BY <1>1, <3>1, <3>2 DEF Shape, OneEach
  <2> HIDE DEF q
  <2> QED
    BY <2>1 DEF Apart
<1>8. UpTo(q, c) = SlotEntries(S)
  <2>1. ASSUME NEW e \in UpTo(q, c) PROVE e \in SlotEntries(S)
    <3> HIDE DEF q
    <3>1. PICK n \in 1..c : e \in EntriesOf(q[n])
      BY DEF UpTo
    <3>2. e = S[n - 1] /\ n - 1 \in Occ(S)
      BY <1>5, <3>1
    <3> QED
      BY <3>2 DEF SlotEntries
  <2>2. ASSUME NEW e \in SlotEntries(S) PROVE e \in UpTo(q, c)
    <3>1. PICK i \in Occ(S) : e = S[i]
      BY DEF SlotEntries
    <3>2. i \in 0..(c - 1)
      BY <1>2 DEF Occ
    <3> DEFINE n == i + 1
    <3>3. n \in 1..c /\ n - 1 = i
      BY <1>1, <3>2
    <3> HIDE DEF n
    <3>4. e \in EntriesOf(q[n])
      BY <1>5, <3>1, <3>3
    <3> HIDE DEF q
    <3> QED
      BY <3>3, <3>4 DEF UpTo
  <2> QED
    BY <2>1, <2>2
<1> DEFINE items == FlattenSeq(q)
<1>9. items \in Seq(Pairs) /\ Distinct(items) /\ EntriesOf(items) = UpTo(q, c)
  <2> HIDE DEF q
  <2>1. \A n \in 1..c : Distinct(q[n])
    BY <1>5
  <2> QED
    BY <1>1, <1>6, <1>7, <2>1, FlattenIs
<1> HIDE DEF items
<1>10. Cardinality(EntriesOf(items)) = Len(items)
  BY <1>9, DistinctCount
<1> QED
  BY <1>3, <1>4, <1>8, <1>9, <1>10 DEF items

\* A new table.
LEMMA NewOpenIs ==
    ASSUME NEW c, PowerOfTwo(c), c >= INITIAL_CAPACITY
    PROVE  /\ IsOpen(NewOpen(c)) /\ NewOpen(c).capacity = c
           /\ NewOpen(c).liveCount = 0 /\ NewOpen(c).used = 0
           /\ SlotEntries(NewOpen(c).slots) = {}
<1> DEFINE t == NewOpen(c)
           S == t.slots
<1>1. /\ DOMAIN t = {"form", "capacity", "liveCount", "used", "slots"} /\ t.form = "open"
      /\ t.capacity = c /\ t.liveCount = 0 /\ t.used = 0
      /\ S = [i \in 0..(c - 1) |-> SLOT_EMPTY]
  BY DEF NewOpen
<1> HIDE DEF t
<1>2. S \in [0..(c - 1) -> Slots] /\ \A i \in DOMAIN S : S[i] = SLOT_EMPTY
  BY <1>1 DEF Slots
<1>3. Occ(S) = {} /\ NonEmpty(S) = {}
  BY <1>2, SlotKinds DEF Occ, NonEmpty
<1>4. Shape(S, c) /\ SlotEntries(S) = {}
  BY <1>2, <1>3 DEF Shape, OneEach, Placed, SlotEntries
<1>5. Cardinality({}) = 0
  BY FS_EmptySet
<1> QED
  BY <1>1, <1>3, <1>4, <1>5 DEF IsOpen, t

\* A rehashed entry.
LEMMA InsertRehashedIs ==
    ASSUME NEW t, IsOpen(t), t.used < t.capacity, NEW e \in Pairs, ~Knows(SlotEntries(t.slots), e[1]),
           NEW r, r = InsertRehashedOpen(t, e)
    PROVE  /\ IsOpen(r) /\ r.capacity = t.capacity
           /\ r.liveCount = t.liveCount + 1 /\ r.used = t.used + 1
           /\ SlotEntries(r.slots) = SlotEntries(t.slots) \cup {e}
<1> DEFINE c == t.capacity
           S == t.slots
           i == Index(t, e[1], LastProbe(t, e[1]))
<1>1. /\ PowerOfTwo(c) /\ c # 1 /\ Shape(S, c) /\ c \in Nat
      /\ t.liveCount = Cardinality(Occ(S)) /\ t.used = Cardinality(NonEmpty(S))
      /\ \E j \in 0..(c - 1) : S[j] = SLOT_EMPTY
  BY OpenIs DEF IsOpen
<1>2. i \in 0..(c - 1) /\ S[i] = SLOT_EMPTY /\ Reach(S, c, e[1], i)
  <2>1. e[1] \in Fields
    BY DEF Pairs
  <2> QED
    BY <1>1, <2>1, FindAbsent
<1> DEFINE T == Written(S, i, e)
<1>3. /\ DOMAIN r = DOMAIN t /\ r.form = t.form /\ r.capacity = c
      /\ r.liveCount = t.liveCount + 1 /\ r.used = t.used + 1 /\ r.slots = T
  BY DEF InsertRehashedOpen, IsOpen, Written
<1>4. i \notin Occ(S)
  BY <1>2, SlotKinds DEF Occ
<1> HIDE DEF c, S, i
<1>5. /\ Shape(T, c) /\ SlotEntries(T) = SlotEntries(S) \cup {e}
      /\ Cardinality(Occ(T)) = Cardinality(Occ(S)) + 1
      /\ Cardinality(NonEmpty(T)) = Cardinality(NonEmpty(S)) + 1
  <2>1. ~Knows(SlotEntries(S), e[1])
    BY DEF S
  <2> HIDE DEF T
  <2> QED
    BY <1>1, <1>2, <1>4, <2>1, PutIs DEF T
<1> HIDE DEF T
<1>6. IsOpen(r)
  BY <1>1, <1>2, <1>3, <1>5 DEF IsOpen, c, S
<1> QED
  BY <1>3, <1>5, <1>6 DEF c, S

\* A rehash into slots that are enough keeps the entries and drops the tombstones.
LEMMA ResizeOpenOf ==
    ASSUME NEW t, IsOpen(t), NEW c, PowerOfTwo(c), c >= INITIAL_CAPACITY, t.liveCount <= c,
           NEW r, r = ResizeOpen(t, c)
    PROVE  /\ IsOpen(r) /\ r.capacity = c /\ r.liveCount = t.liveCount /\ r.used = t.liveCount
           /\ SlotEntries(r.slots) = SlotEntries(t.slots)
<1> DEFINE s == ItemsOpen(t)
           L == Len(s)
           Part(n) == {s[i] : i \in 1..n}
<1>1. /\ s \in Seq(Pairs) /\ Distinct(s) /\ EntriesOf(s) = SlotEntries(t.slots)
      /\ L = t.liveCount /\ L \in Nat /\ DOMAIN s = 1..L
  BY ItemsOpenIs, OpenIs
<1>2. r = Final("rehash open", NewOpen(c), s)
  BY <1>1, ResizeOpenIs
<1> HIDE DEF s, L
<1>3. PICK st : States(st, "rehash open", NewOpen(c), s) /\ Final("rehash open", NewOpen(c), s) = st[L]
  BY <1>1, FinalIs DEF L
<1>4. /\ st[0] = NewOpen(c)
      /\ \A n \in 1..L : st[n] = InsertRehashedOpen(st[n - 1], s[n])
  BY <1>3 DEF States, L, Does
<1> DEFINE Good(n) == /\ IsOpen(st[n]) /\ st[n].capacity = c
                      /\ st[n].liveCount = n /\ st[n].used = n
                      /\ SlotEntries(st[n].slots) = Part(n)
           Bad == {n \in 0..L : ~Good(n)}
<1>5. Good(0)
  BY <1>4, NewOpenIs
<1>6. ASSUME NEW n \in 1..L, Good(n - 1) PROVE Good(n)
  <2> DEFINE m == n - 1
             u == st[m]
             e == s[n]
  <2>1. /\ m \in Nat /\ m < c /\ m + 1 = n /\ IsOpen(u) /\ u.capacity = c /\ u.liveCount = m /\ u.used = m
        /\ SlotEntries(u.slots) = Part(m)
    <3>1. c \in Nat /\ m \in Nat /\ m < c /\ m + 1 = n
      BY <1>1 DEF PowerOfTwo
    <3> QED
      BY <1>6, <3>1
  <2>2. e \in Pairs
    BY <1>1
  <2>3. ~Knows(Part(m), e[1])
    <3>1. ASSUME NEW i \in 1..m, s[i][1] = s[n][1] PROVE FALSE
      <4>1. i \in 1..L /\ i # n
        BY <1>1
      <4> QED
        BY <1>1, <3>1, <4>1 DEF Distinct, L
    <3> QED
      BY <3>1 DEF Knows
  <2>4. st[n] = InsertRehashedOpen(u, e)
    BY <1>4
  <2>5. Part(n) = Part(m) \cup {e}
    <3>1. 1..n = (1..m) \cup {n}
      BY <1>1
    <3> QED
      BY <3>1
  <2> HIDE DEF u, e, m, Part
  <2> DEFINE x == st[n]
  <2>6. x = InsertRehashedOpen(u, e)
    BY <2>4
  <2> HIDE DEF x
  <2>7. /\ IsOpen(x) /\ x.capacity = u.capacity
        /\ x.liveCount = u.liveCount + 1 /\ x.used = u.used + 1
        /\ SlotEntries(x.slots) = SlotEntries(u.slots) \cup {e}
    BY <2>1, <2>2, <2>3, <2>6, InsertRehashedIs
  <2> QED
    BY <2>1, <2>5, <2>7 DEF x
<1>7. Bad = {}
  <2>1. Bad \subseteq 0..L /\ 0 \notin Bad
    BY <1>5
  <2>2. \A n \in 1..L : n \in Bad => n - 1 \in Bad
    <3> TAKE n \in 1..L
    <3>1. n - 1 \in 0..L
      BY <1>1
    <3> HIDE DEF Good
    <3> QED
      BY <1>6, <3>1
  <2> HIDE DEF Bad
  <2> QED
    BY <1>1, <2>1, <2>2, NoneBad
<1>8. Good(L)
  <2>1. L \in 0..L
    BY <1>1
  <2> HIDE DEF Good
  <2> QED
    BY <1>7, <2>1
<1>9. Part(L) = EntriesOf(s)
  BY DEF EntriesOf, L
<1> QED
  BY <1>1, <1>2, <1>3, <1>8, <1>9

\* A load factor of a tombstone-free table, and the slots a live entry answers for.
Load(t) ==
    /\ ~Crowded(t.used, t.capacity)
    /\ t.used > t.liveCount => t.capacity = INITIAL_CAPACITY \/ t.capacity <= 5 * t.liveCount
    /\ \/ t.capacity = INITIAL_CAPACITY
       \/ t.capacity = 2 * INITIAL_CAPACITY /\ t.liveCount > 0
       \/ t.capacity <= 10 * t.liveCount

\* A load of at most 0.7 leaves an empty slot.
LEMMA RoomIs ==
    ASSUME NEW t, IsOpen(t), Load(t)
    PROVE  /\ t.used < t.capacity
           /\ \E i \in 0..(t.capacity - 1) : t.slots[i] = SLOT_EMPTY
<1>1. t.capacity \in Nat /\ t.capacity >= 4 /\ t.used \in Nat
  BY OpenIs
<1>2. t.used < t.capacity
  BY <1>1 DEF Load, Crowded
<1> QED
  BY <1>2, OpenIs

\* An insertion into the slot that the search has found, with the growth after it.
LEMMA SetOpenAtIs ==
    ASSUME NEW t, IsOpen(t), Load(t),
           NEW f \in Fields \ BadFields, NEW v \in Values, ~Knows(SlotEntries(t.slots), f),
           NEW i \in 0..(t.capacity - 1), i \notin Occ(t.slots), Reach(t.slots, t.capacity, f, i),
           NEW r, r = SetOpenAt(t, i, f, v)
    PROVE  IsOpen(r) /\ Load(r) /\ SlotEntries(r.slots) = SlotEntries(t.slots) \cup {<<f, v>>}
<1> DEFINE c == t.capacity
           S == t.slots
           e == Entry(f, v)
           T == Written(S, i, e)
           u == [t EXCEPT !.slots[i] = e, !.liveCount = @ + 1,
                          !.used = IF t.slots[i] = SLOT_EMPTY THEN @ + 1 ELSE @]
<1>1. /\ PowerOfTwo(c) /\ c # 1 /\ Shape(S, c) /\ c \in Nat /\ c >= 4
      /\ t.liveCount = Cardinality(Occ(S)) /\ t.used = Cardinality(NonEmpty(S))
      /\ t.liveCount \in Nat /\ t.used \in Nat /\ t.liveCount <= t.used
  BY OpenIs DEF IsOpen
<1>2. e = <<f, v>> /\ e \in Pairs /\ e[1] = f
  BY DEF Entry, Pairs
<1>3. /\ DOMAIN u = DOMAIN t /\ u.form = t.form /\ u.capacity = c
      /\ u.liveCount = t.liveCount + 1
      /\ S[i] = SLOT_EMPTY => u.used = t.used + 1
      /\ S[i] # SLOT_EMPTY => u.used = t.used
      /\ u.slots = T
  BY DEF IsOpen, Written
<1>4. ~Knows(SlotEntries(S), e[1]) /\ Reach(S, c, e[1], i) /\ i \in 0..(c - 1) /\ i \notin Occ(S)
  BY <1>2
<1>5. r = IF Crowded(u.used, u.capacity) THEN ResizeOpen(u, 2 * u.capacity) ELSE u
  BY DEF SetOpenAt, GrowOpen
<1>6. /\ DOMAIN t = {"form", "capacity", "liveCount", "used", "slots"} /\ t.form = "open"
      /\ t.capacity = c /\ t.slots = S /\ c >= INITIAL_CAPACITY
  BY DEF IsOpen
<1> HIDE DEF c, S, e, T, u
<1>7. /\ Shape(T, c) /\ SlotEntries(T) = SlotEntries(S) \cup {e}
      /\ Cardinality(Occ(T)) = Cardinality(Occ(S)) + 1
      /\ S[i] = SLOT_EMPTY => Cardinality(NonEmpty(T)) = Cardinality(NonEmpty(S)) + 1
      /\ S[i] # SLOT_EMPTY => Cardinality(NonEmpty(T)) = Cardinality(NonEmpty(S))
  BY <1>1, <1>2, <1>4, PutIs DEF T
<1>8. IsOpen(u)
  BY <1>1, <1>3, <1>6, <1>7 DEF IsOpen
<1>9. u.liveCount = t.liveCount + 1 /\ (u.used = t.used \/ u.used = t.used + 1)
      /\ u.capacity = c /\ SlotEntries(u.slots) = SlotEntries(S) \cup {<<f, v>>}
  BY <1>2, <1>3, <1>7
<1>10. /\ ~Crowded(t.used, c)
       /\ t.used > t.liveCount => c = INITIAL_CAPACITY \/ c <= 5 * t.liveCount
       /\ \/ c = INITIAL_CAPACITY
          \/ c = 2 * INITIAL_CAPACITY /\ t.liveCount > 0
          \/ c <= 10 * t.liveCount
  BY <1>6 DEF Load
<1>11. CASE Crowded(u.used, c)
  <2> DEFINE d == 2 * c
  <2>1. PowerOfTwo(d) /\ d >= INITIAL_CAPACITY /\ u.liveCount <= d /\ d \in Nat
    <3>1. PowerOfTwo(d)
      BY <1>1, PowerDoubled
    <3>2. t.liveCount < c
      BY <1>1, <1>10 DEF Crowded
    <3> QED
      BY <1>1, <1>6, <1>9, <3>1, <3>2, HashTableAssumption DEF PowerOfTwo
  <2>2. r = ResizeOpen(u, d)
    BY <1>5, <1>9, <1>11
  <2> HIDE DEF d
  <2>3. /\ IsOpen(r) /\ r.capacity = d /\ r.liveCount = u.liveCount /\ r.used = u.liveCount
        /\ SlotEntries(r.slots) = SlotEntries(u.slots)
    BY <1>8, <2>1, <2>2, ResizeOpenOf
  <2>4. ~Crowded(r.used, r.capacity)
    BY <1>1, <1>9, <1>10, <2>1, <2>3 DEF Crowded, d
  <2>5. /\ r.used = r.liveCount /\ r.used \in Nat
    BY <1>1, <1>9, <2>3
  <2>6. \/ r.capacity = 2 * INITIAL_CAPACITY /\ r.liveCount > 0
        \/ r.capacity <= 10 * r.liveCount
    <3>1. CASE c = INITIAL_CAPACITY
      BY <1>1, <1>9, <2>3, <3>1 DEF d
    <3>2. CASE c # INITIAL_CAPACITY /\ t.used > t.liveCount
      BY <1>1, <1>9, <1>10, <2>3, <3>2 DEF d
    <3>3. CASE t.used = t.liveCount
      BY <1>1, <1>9, <1>11, <2>3, <3>3 DEF d, Crowded
    <3> QED
      BY <1>1, <3>1, <3>2, <3>3
  <2>7. Load(r)
    BY <2>4, <2>5, <2>6 DEF Load
  <2> QED
    BY <1>9, <2>3, <2>7 DEF S
<1>12. CASE ~Crowded(u.used, c)
  <2>1. r = u
    BY <1>5, <1>9, <1>12
  <2>2. Load(u)
    <3>1. u.used > u.liveCount => c = INITIAL_CAPACITY \/ c <= 5 * u.liveCount
      BY <1>1, <1>9, <1>10
    <3>2. \/ c = INITIAL_CAPACITY
          \/ c = 2 * INITIAL_CAPACITY /\ u.liveCount > 0
          \/ c <= 10 * u.liveCount
      BY <1>1, <1>9, <1>10
    <3> QED
      BY <1>9, <1>12, <3>1, <3>2 DEF Load
  <2> QED
    BY <1>8, <1>9, <2>1, <2>2 DEF S
<1> QED
  BY <1>11, <1>12

\* Nothing to leave out.
LEMMA WithoutNone ==
    ASSUME NEW E, NEW f, ~Knows(E, f)
    PROVE  Without(E, f) = E
BY DEF Without, Knows

\* OpenAddressHashTable.set.
LEMMA SetOpenIs ==
    ASSUME NEW t, IsOpen(t), Load(t), NEW f \in Fields \ BadFields, NEW v \in Values,
           NEW r, r = SetOpen(t, f, v)
    PROVE  /\ IsOpen(r.table) /\ Load(r.table)
           /\ SlotEntries(r.table.slots) = With(SlotEntries(t.slots), f, v)
           /\ Knows(SlotEntries(t.slots), f) => r.reply = 0
           /\ ~Knows(SlotEntries(t.slots), f) => r.reply = 1
<1> DEFINE c == t.capacity
           S == t.slots
           found == FindSlot(t, f)
<1>1. PowerOfTwo(c) /\ c # 1 /\ Shape(S, c) /\ c \in Nat
  BY OpenIs DEF IsOpen
<1>2. CASE Knows(SlotEntries(S), f)
  <2> DEFINE i == found.existing
             e == Entry(f, v)
             T == Written(S, i, e)
             u == [t EXCEPT !.slots[found.existing] = Entry(f, v)]
  <2>1. i # Missing /\ i \in Occ(S) /\ S[i][1] = f
    BY <1>1, <1>2, FindStored
  <2>2. r = Result(u, 0)
    BY <2>1 DEF SetOpen
  <2>3. /\ DOMAIN u = DOMAIN t /\ u.form = t.form /\ u.capacity = c
        /\ u.liveCount = t.liveCount /\ u.used = t.used /\ u.slots = T
    BY DEF IsOpen, Written
  <2>4. e = <<f, v>> /\ e \in Pairs /\ e[1] = f
    BY DEF Entry, Pairs
  <2>5. /\ DOMAIN t = {"form", "capacity", "liveCount", "used", "slots"} /\ t.form = "open"
        /\ t.capacity = c /\ t.slots = S /\ c >= INITIAL_CAPACITY
        /\ t.liveCount = Cardinality(Occ(S)) /\ t.used = Cardinality(NonEmpty(S))
    BY DEF IsOpen
  <2> HIDE DEF c, S, found, i, e, T, u
  <2>6. /\ Shape(T, c) /\ SlotEntries(T) = Without(SlotEntries(S), e[1]) \cup {e}
        /\ Occ(T) = Occ(S) /\ NonEmpty(T) = NonEmpty(S)
    BY <1>1, <2>1, <2>4, RewriteIs DEF T
  <2>7. IsOpen(u)
    BY <1>1, <2>3, <2>5, <2>6 DEF IsOpen
  <2>8. Load(u)
    BY <2>3, <2>5 DEF Load
  <2>9. SlotEntries(u.slots) = With(SlotEntries(S), f, v)
    BY <2>3, <2>4, <2>6 DEF With
  <2>10. r.table = u /\ r.reply = 0
    BY <2>2 DEF Result
  <2> QED
    BY <1>2, <2>7, <2>8, <2>9, <2>10 DEF S
<1>3. CASE ~Knows(SlotEntries(S), f)
  <2> DEFINE i == found.insert
             u == SetOpenAt(t, i, f, v)
  <2>1. \E j \in 0..(c - 1) : S[j] = SLOT_EMPTY
    BY RoomIs
  <2>2. /\ found.existing = Missing /\ i # Missing
        /\ i \in 0..(c - 1) /\ i \notin Occ(S) /\ Reach(S, c, f, i)
    BY <1>1, <1>3, <2>1, FindAbsent
  <2>3. r = Result(u, 1)
    BY <2>2 DEF SetOpen
  <2> HIDE DEF i, u
  <2>4. IsOpen(u) /\ Load(u) /\ SlotEntries(u.slots) = SlotEntries(S) \cup {<<f, v>>}
    BY <1>3, <2>2, SetOpenAtIs DEF u
  <2>5. r.table = u /\ r.reply = 1
    BY <2>3 DEF Result
  <2>6. SlotEntries(u.slots) = With(SlotEntries(S), f, v)
    <3>1. Without(SlotEntries(S), f) = SlotEntries(S)
      BY <1>3, WithoutNone
    <3> QED
      BY <2>4, <3>1 DEF With
  <2> QED
    BY <1>3, <2>4, <2>5, <2>6
<1> QED
  BY <1>2, <1>3

\* Halving a capacity above the initial one.
LEMMA HalvedIs ==
    ASSUME NEW t, PowerOfTwo(t.capacity), t.capacity > INITIAL_CAPACITY, NEW d, d = Halved(t)
    PROVE  /\ PowerOfTwo(d) /\ d >= INITIAL_CAPACITY /\ d \in Nat /\ t.capacity <= 2 * d
           /\ d = INITIAL_CAPACITY \/ t.capacity = 2 * d
<1> DEFINE c == t.capacity
           h == c \div 2
<1>1. c \in Nat /\ c >= 4 /\ c # 1 /\ INITIAL_CAPACITY \in Nat
  BY HashTableAssumption DEF PowerOfTwo
<1>2. c = 2 * h /\ h \in Nat
  BY <1>1, PowerEven
<1>3. PowerOfTwo(h)
  BY <1>1, PowerHalved
<1>4. d = IF h < INITIAL_CAPACITY THEN INITIAL_CAPACITY ELSE h
  BY DEF Halved
<1>5. PowerOfTwo(INITIAL_CAPACITY)
  BY HashTableAssumption
<1> HIDE DEF c, h
<1>6. CASE h < INITIAL_CAPACITY
  BY <1>1, <1>2, <1>4, <1>5, <1>6 DEF c
<1>7. CASE ~(h < INITIAL_CAPACITY)
  BY <1>1, <1>2, <1>3, <1>4, <1>7 DEF c
<1> QED
  BY <1>6, <1>7

\* What shrinking to half leaves of the load: a table of 8 slots with no entry
\* left is the smallest.
LEMMA ShrinkLoad ==
    ASSUME NEW c \in Nat, NEW d \in Nat, NEW n \in Nat, PowerOfTwo(c),
           c > INITIAL_CAPACITY, d >= INITIAL_CAPACITY, c <= 2 * d,
           d = INITIAL_CAPACITY \/ c = 2 * d,
           10 * n < 2 * c,
           c = 2 * INITIAL_CAPACITY \/ c <= 10 * (n + 1)
    PROVE  /\ ~Crowded(n, d) /\ n <= d
           /\ d = INITIAL_CAPACITY \/ d <= 10 * n
<1>1. INITIAL_CAPACITY \in Nat /\ INITIAL_CAPACITY >= 4
  BY HashTableAssumption DEF PowerOfTwo
<1>2. ~Crowded(n, d) /\ n <= d
  BY <1>1 DEF Crowded
<1>3. ASSUME d # INITIAL_CAPACITY, ~(d <= 10 * n) PROVE FALSE
  <2>1. c = 2 * d /\ c <= 10 * (n + 1) /\ n = 0
    BY <1>1, <1>3
  <2>2. c = 10
    BY <1>1, <1>3, <2>1
  <2>3. 5 \in 2..c /\ c % 5 = 0 /\ 5 % 2 # 0
    BY <2>2
  <2> QED
    BY <2>3 DEF PowerOfTwo
<1> QED
  BY <1>2, <1>3

\* OpenAddressHashTable.delete.
LEMMA DeleteOpenIs ==
    ASSUME NEW t, IsOpen(t), Load(t), NEW f \in Fields \ BadFields,
           NEW r, r = DeleteOpen(t, f)
    PROVE  /\ IsOpen(r.table) /\ Load(r.table)
           /\ SlotEntries(r.table.slots) = Without(SlotEntries(t.slots), f)
           /\ Knows(SlotEntries(t.slots), f) => r.reply = 1
           /\ ~Knows(SlotEntries(t.slots), f) => r.reply = 0
<1> DEFINE c == t.capacity
           S == t.slots
           i == FindSlot(t, f).existing
<1>1. /\ PowerOfTwo(c) /\ c # 1 /\ Shape(S, c) /\ c \in Nat
      /\ t.liveCount \in Nat /\ t.used \in Nat /\ t.liveCount <= t.used
  BY OpenIs DEF IsOpen
<1>2. CASE Knows(SlotEntries(S), f)
  <2> DEFINE T == Written(S, i, SLOT_TOMBSTONE)
             u == [t EXCEPT !.slots[i] = SLOT_TOMBSTONE, !.liveCount = @ - 1]
             w == IF Sparse(u) THEN ResizeOpen(u, Halved(u)) ELSE u
  <2>1. i # Missing /\ i \in Occ(S) /\ S[i][1] = f
    BY <1>1, <1>2, FindStored
  <2>2. r = Result(w, 1)
    BY <2>1 DEF DeleteOpen
  <2>3. /\ DOMAIN u = DOMAIN t /\ u.form = t.form /\ u.capacity = c
        /\ u.liveCount = t.liveCount - 1 /\ u.used = t.used /\ u.slots = T
    BY DEF IsOpen, Written
  <2>4. /\ DOMAIN t = {"form", "capacity", "liveCount", "used", "slots"} /\ t.form = "open"
        /\ t.capacity = c /\ t.slots = S /\ c >= INITIAL_CAPACITY
        /\ t.liveCount = Cardinality(Occ(S)) /\ t.used = Cardinality(NonEmpty(S))
    BY DEF IsOpen
  <2>5. r.table = w /\ r.reply = 1
    BY <2>2 DEF Result
  <2> HIDE DEF c, S, i, T, u
  <2>6. /\ Shape(T, c) /\ SlotEntries(T) = Without(SlotEntries(S), S[i][1])
        /\ Cardinality(Occ(T)) = Cardinality(Occ(S)) - 1 /\ NonEmpty(T) = NonEmpty(S)
    BY <1>1, <2>1, TombIs DEF T
  <2>7. IsOpen(u)
    BY <1>1, <2>3, <2>4, <2>6 DEF IsOpen
  <2>8. SlotEntries(u.slots) = Without(SlotEntries(S), f)
    BY <2>1, <2>3, <2>6
  <2>9. u.liveCount \in Nat
    BY <2>7, OpenIs
  <2>10. /\ ~Crowded(t.used, c)
         /\ t.used > t.liveCount => c = INITIAL_CAPACITY \/ c <= 5 * t.liveCount
         /\ \/ c = INITIAL_CAPACITY
            \/ c = 2 * INITIAL_CAPACITY /\ t.liveCount > 0
            \/ c <= 10 * t.liveCount
    BY <2>4 DEF Load
  <2>11. INITIAL_CAPACITY \in Nat /\ INITIAL_CAPACITY >= 4
    BY HashTableAssumption DEF PowerOfTwo
  <2>12. CASE Sparse(u)
    <3> DEFINE d == Halved(u)
               n == u.liveCount
    <3>1. c > INITIAL_CAPACITY /\ 10 * n < 2 * c
      BY <2>3, <2>12 DEF Sparse
    <3>2. /\ PowerOfTwo(d) /\ d >= INITIAL_CAPACITY /\ d \in Nat /\ c <= 2 * d
          /\ d = INITIAL_CAPACITY \/ c = 2 * d
      BY <1>1, <2>3, <3>1, HalvedIs
    <3>3. w = ResizeOpen(u, d)
      BY <2>12
    <3> HIDE DEF d, w
    <3>4. c = 2 * INITIAL_CAPACITY \/ c <= 10 * (n + 1)
      BY <1>1, <2>3, <2>10, <2>11, <3>1
    <3> HIDE DEF n
    <3>5. /\ ~Crowded(n, d) /\ n <= d
          /\ d = INITIAL_CAPACITY \/ d <= 10 * n
      BY <1>1, <2>9, <3>1, <3>2, <3>4, ShrinkLoad DEF n
    <3>6. /\ IsOpen(w) /\ w.capacity = d /\ w.liveCount = n /\ w.used = n
          /\ SlotEntries(w.slots) = SlotEntries(u.slots)
      BY <2>7, <3>2, <3>3, <3>5, ResizeOpenOf DEF n
    <3>7. Load(w)
      BY <2>9, <3>5, <3>6 DEF Load, n
    <3> QED
      BY <1>2, <2>5, <2>8, <3>6, <3>7 DEF S
  <2>13. CASE ~Sparse(u)
    <3>1. w = u
      BY <2>13
    <3> HIDE DEF w
    <3>2. c = INITIAL_CAPACITY \/ c <= 5 * u.liveCount
      BY <1>1, <2>3, <2>4, <2>9, <2>11, <2>13 DEF Sparse
    <3>3. c \in Nat /\ (c = INITIAL_CAPACITY \/ c <= 10 * u.liveCount)
      BY <1>1, <2>9, <3>2
    <3>4. Load(u)
      BY <2>3, <2>10, <3>2, <3>3 DEF Load
    <3> QED
      BY <1>2, <2>5, <2>7, <2>8, <3>1, <3>4 DEF S
  <2> QED
    BY <2>12, <2>13
<1>3. CASE ~Knows(SlotEntries(S), f)
  <2>1. \E j \in 0..(c - 1) : S[j] = SLOT_EMPTY
    BY RoomIs
  <2>2. i = Missing
    BY <1>1, <1>3, <2>1, FindAbsent
  <2>3. r = Result(t, 0)
    BY <2>2 DEF DeleteOpen
  <2>4. r.table = t /\ r.reply = 0
    BY <2>3 DEF Result
  <2>5. Without(SlotEntries(S), f) = SlotEntries(S)
    BY <1>3, WithoutNone
  <2> QED
    BY <1>3, <2>4, <2>5
<1> QED
  BY <1>2, <1>3

\* OpenAddressHashTable.get.
LEMMA GetOpenIs ==
    ASSUME NEW t, IsOpen(t), Load(t), NEW f \in Fields \ BadFields
    PROVE  /\ Knows(SlotEntries(t.slots), f) => <<f, GetOpen(t, f)>> \in SlotEntries(t.slots)
           /\ ~Knows(SlotEntries(t.slots), f) => GetOpen(t, f) = Missing
<1> DEFINE c == t.capacity
           S == t.slots
           i == FindSlot(t, f).existing
<1>1. PowerOfTwo(c) /\ c # 1 /\ Shape(S, c) /\ c \in Nat \ {0}
  BY OpenIs DEF IsOpen
<1>2. ASSUME Knows(SlotEntries(S), f) PROVE <<f, GetOpen(t, f)>> \in SlotEntries(S)
  <2>1. i # Missing /\ i \in Occ(S) /\ S[i][1] = f
    BY <1>1, <1>2, FindStored
  <2>2. S[i] \in Pairs /\ S[i] \in SlotEntries(S)
    BY <1>1, <2>1, OccIs
  <2>3. GetOpen(t, f) = S[i][2]
    BY <2>1 DEF GetOpen
  <2>4. S[i] = <<S[i][1], S[i][2]>>
    BY <2>2 DEF Pairs
  <2> QED
    BY <2>1, <2>2, <2>3, <2>4
<1>3. ASSUME ~Knows(SlotEntries(S), f) PROVE GetOpen(t, f) = Missing
  <2>1. \E j \in 0..(c - 1) : S[j] = SLOT_EMPTY
    BY RoomIs
  <2>2. i = Missing
    BY <1>1, <1>3, <2>1, FindAbsent
  <2> QED
    BY <2>2 DEF GetOpen
<1> QED
  BY <1>2, <1>3

-----------------------------------------------------------------------------
(***************************************************************************)
(* The chained table: B are its buckets.                                   *)
(***************************************************************************)
Chains(B, c) ==
    /\ B \in [0..(c - 1) -> Seq(Pairs)]
    /\ \A b \in 0..(c - 1) : Distinct(B[b]) /\ \A e \in EntriesOf(B[b]) : Home(e[1], c) = b

ChainEntries(B) == UNION {EntriesOf(B[b]) : b \in DOMAIN B}

OnePerField(E) == \A d, e \in E : d[1] = e[1] => d = e

\* The entries of a sequence of pairs are pairs.
LEMMA EntriesArePairs ==
    ASSUME NEW s \in Seq(Pairs)
    PROVE  EntriesOf(s) \subseteq Pairs
<1>1. \A i \in 1..Len(s) : s[i] \in Pairs
  OBVIOUS
<1> QED
  BY <1>1 DEF EntriesOf

\* An entry is in the bucket of its field or nowhere.
LEMMA BucketIs ==
    ASSUME NEW c \in Nat \ {0}, NEW B, Chains(B, c)
    PROVE  /\ DOMAIN B = 0..(c - 1) /\ ChainEntries(B) \subseteq Pairs
           /\ \A f \in Fields :
                 /\ Home(f, c) \in 0..(c - 1)
                 /\ B[Home(f, c)] \in Seq(Pairs) /\ Distinct(B[Home(f, c)])
           /\ \A e \in Pairs : e \in ChainEntries(B) <=> e \in EntriesOf(B[Home(e[1], c)])
           /\ \A f \in Fields : Knows(ChainEntries(B), f) <=> Knows(EntriesOf(B[Home(f, c)]), f)
<1>1. /\ DOMAIN B = 0..(c - 1) /\ \A b \in 0..(c - 1) : B[b] \in Seq(Pairs) /\ Distinct(B[b])
      /\ \A b \in 0..(c - 1) : \A e \in EntriesOf(B[b]) : Home(e[1], c) = b
  BY DEF Chains
<1>2. \A f \in Fields : Home(f, c) \in 0..(c - 1)
  BY HomeType
<1>3. \A b \in 0..(c - 1) : EntriesOf(B[b]) \subseteq Pairs
  BY <1>1, EntriesArePairs
<1>4. \A e : e \in ChainEntries(B) <=> \E b \in 0..(c - 1) : e \in EntriesOf(B[b])
  BY <1>1 DEF ChainEntries
<1>5. \A e \in Pairs : e \in ChainEntries(B) <=> e \in EntriesOf(B[Home(e[1], c)])
  <2> TAKE e \in Pairs
  <2>1. Home(e[1], c) \in 0..(c - 1)
    BY <1>2 DEF Pairs
  <2> QED
    BY <1>1, <1>4, <2>1
<1>6. ChainEntries(B) \subseteq Pairs
  BY <1>3, <1>4
<1>7. \A f \in Fields : Knows(ChainEntries(B), f) <=> Knows(EntriesOf(B[Home(f, c)]), f)
  <2> TAKE f \in Fields
  <2>1. ASSUME NEW e \in ChainEntries(B), e[1] = f PROVE e \in EntriesOf(B[Home(f, c)])
    BY <1>5, <1>6, <2>1
  <2>2. ASSUME NEW e \in EntriesOf(B[Home(f, c)]) PROVE e \in ChainEntries(B)
    BY <1>2, <1>4
  <2> QED
    BY <2>1, <2>2 DEF Knows
<1> QED
  BY <1>1, <1>2, <1>5, <1>6, <1>7

\* Another chain for one bucket.
LEMMA RechainIs ==
    ASSUME NEW c \in Nat \ {0}, NEW B, Chains(B, c), NEW b \in 0..(c - 1),
           NEW s \in Seq(Pairs), Distinct(s), \A e \in EntriesOf(s) : Home(e[1], c) = b,
           NEW T, T = Written(B, b, s)
    PROVE  /\ Chains(T, c)
           /\ \A e \in Pairs : Home(e[1], c) = b => (e \in ChainEntries(T) <=> e \in EntriesOf(s))
           /\ \A e \in Pairs : Home(e[1], c) # b => (e \in ChainEntries(T) <=> e \in ChainEntries(B))
<1>1. /\ DOMAIN B = 0..(c - 1) /\ \A d \in 0..(c - 1) : B[d] \in Seq(Pairs) /\ Distinct(B[d])
      /\ \A d \in 0..(c - 1) : \A e \in EntriesOf(B[d]) : Home(e[1], c) = d
  BY DEF Chains
<1>2. /\ DOMAIN T = 0..(c - 1) /\ T[b] = s /\ \A d \in 0..(c - 1) : d # b => T[d] = B[d]
      /\ T \in [0..(c - 1) -> Seq(Pairs)]
  BY <1>1 DEF Written, Chains
<1>3. Chains(T, c)
  BY <1>1, <1>2 DEF Chains
<1>4. /\ \A e \in Pairs : e \in ChainEntries(B) <=> e \in EntriesOf(B[Home(e[1], c)])
      /\ \A e \in Pairs : e \in ChainEntries(T) <=> e \in EntriesOf(T[Home(e[1], c)])
  BY <1>3, BucketIs
<1>5. \A e \in Pairs : Home(e[1], c) \in 0..(c - 1)
  BY HomeType DEF Pairs
<1> QED
  BY <1>2, <1>3, <1>4, <1>5

\* The table: its counter is the number of its entries.
IsChained(t) ==
    /\ DOMAIN t = {"form", "capacity", "liveCount", "buckets"} /\ t.form = "chained"
    /\ PowerOfTwo(t.capacity) /\ t.capacity >= INITIAL_CAPACITY
    /\ Chains(t.buckets, t.capacity)
    /\ t.liveCount = Cardinality(ChainEntries(t.buckets))

ChainLoad(t) ==
    \/ t.capacity = INITIAL_CAPACITY
    \/ t.capacity = 2 * INITIAL_CAPACITY /\ t.liveCount > 0
    \/ t.capacity <= 10 * t.liveCount

\* items() lists the chains.
LEMMA ItemsChainedIs ==
    ASSUME NEW t, IsChained(t)
    PROVE  /\ t.capacity \in Nat /\ t.capacity >= 4
           /\ ItemsChained(t) \in Seq(Pairs) /\ Distinct(ItemsChained(t))
           /\ EntriesOf(ItemsChained(t)) = ChainEntries(t.buckets)
           /\ Len(ItemsChained(t)) = t.liveCount /\ t.liveCount \in Nat
           /\ IsFiniteSet(ChainEntries(t.buckets)) /\ OnePerField(ChainEntries(t.buckets))
<1> DEFINE c == t.capacity
           B == t.buckets
           q == [n \in 1..c |-> B[n - 1]]
<1>1. c \in Nat \ {0} /\ c >= 4 /\ Chains(B, c)
  BY HashTableAssumption DEF IsChained, PowerOfTwo
<1>2. /\ DOMAIN B = 0..(c - 1) /\ \A d \in 0..(c - 1) : B[d] \in Seq(Pairs) /\ Distinct(B[d])
      /\ \A d \in 0..(c - 1) : \A e \in EntriesOf(B[d]) : Home(e[1], c) = d
  BY <1>1 DEF Chains
<1>3. ItemsChained(t) = FlattenSeq(q)
  BY DEF ItemsChained
<1>4. Cardinality(ChainEntries(B)) = t.liveCount
  BY DEF IsChained
<1> HIDE DEF c, B
<1>5. \A n \in 1..c : n - 1 \in 0..(c - 1) /\ q[n] = B[n - 1]
  BY <1>1
<1>6. q \in [1..c -> Seq(Pairs)] /\ \A n \in 1..c : Distinct(q[n])
  BY <1>2, <1>5
<1> HIDE DEF q
<1>7. Apart(q, c)
  <2>1. ASSUME NEW i \in 1..c, NEW j \in 1..c, NEW e \in EntriesOf(q[i]), NEW d \in EntriesOf(q[j]),
               i # j
        PROVE  e[1] # d[1]
    <3>1. Home(e[1], c) = i - 1 /\ Home(d[1], c) = j - 1
      BY <1>2, <1>5
    <3>2. i - 1 # j - 1
      BY <1>1, <2>1
    <3> QED
      BY <3>1, <3>2
  <2> QED
    BY <2>1 DEF Apart
<1>8. UpTo(q, c) = ChainEntries(B)
  <2>1. ASSUME NEW e \in UpTo(q, c) PROVE e \in ChainEntries(B)
    <3>1. PICK n \in 1..c : e \in EntriesOf(q[n])
      BY DEF UpTo
    <3> QED
      BY <1>2, <1>5, <3>1 DEF ChainEntries
  <2>2. ASSUME NEW e \in ChainEntries(B) PROVE e \in UpTo(q, c)
    <3>1. PICK d \in 0..(c - 1) : e \in EntriesOf(B[d])
      BY <1>2 DEF ChainEntries
    <3> DEFINE n == d + 1
    <3>2. n \in 1..c /\ n - 1 = d
      BY <1>1
    <3> HIDE DEF n
    <3>3. e \in EntriesOf(q[n])
      BY <1>5, <3>1, <3>2
    <3> QED
      BY <3>2, <3>3 DEF UpTo
  <2> QED
    BY <2>1, <2>2
<1> DEFINE items == FlattenSeq(q)
<1>9. items \in Seq(Pairs) /\ Distinct(items) /\ EntriesOf(items) = UpTo(q, c)
  BY <1>1, <1>6, <1>7, FlattenIs
<1> HIDE DEF items
<1>10. IsFiniteSet(EntriesOf(items)) /\ Cardinality(EntriesOf(items)) = Len(items) /\ Len(items) \in Nat
  BY <1>9, DistinctCount, LenProperties
<1>11. OnePerField(EntriesOf(items))
  BY <1>9 DEF OnePerField, EntriesOf, Distinct
<1> QED
  BY <1>1, <1>3, <1>4, <1>8, <1>9, <1>10, <1>11 DEF items, c, B

\* A new table.
LEMMA NewChainedIs ==
    ASSUME NEW c, PowerOfTwo(c), c >= INITIAL_CAPACITY
    PROVE  /\ IsChained(NewChained(c)) /\ NewChained(c).capacity = c
           /\ NewChained(c).liveCount = 0
           /\ ChainEntries(NewChained(c).buckets) = {}
<1> DEFINE t == NewChained(c)
           B == t.buckets
<1>1. /\ DOMAIN t = {"form", "capacity", "liveCount", "buckets"} /\ t.form = "chained"
      /\ t.capacity = c /\ t.liveCount = 0
      /\ B = [i \in 0..(c - 1) |-> <<>>]
  BY DEF NewChained
<1> HIDE DEF t
<1>2. DOMAIN B = 0..(c - 1) /\ \A b \in 0..(c - 1) : B[b] = <<>> /\ B[b] \in Seq(Pairs)
  BY <1>1
<1>3. \A b \in 0..(c - 1) : EntriesOf(B[b]) = {} /\ Distinct(B[b])
  BY <1>2 DEF EntriesOf, Distinct
<1>4. B \in [0..(c - 1) -> Seq(Pairs)]
  BY <1>1, <1>2
<1>5. Chains(B, c) /\ ChainEntries(B) = {}
  BY <1>2, <1>3, <1>4 DEF Chains, ChainEntries
<1>6. Cardinality({}) = 0
  BY FS_EmptySet
<1> QED
  BY <1>1, <1>5, <1>6 DEF IsChained, t

\* An entry put at the head of its chain.
LEMMA PushEntryIs ==
    ASSUME NEW t, IsChained(t), NEW e \in Pairs, ~Knows(ChainEntries(t.buckets), e[1]),
           NEW r, r = PushEntry(t, e)
    PROVE  /\ IsChained(r) /\ r.capacity = t.capacity
           /\ r.liveCount = t.liveCount + 1
           /\ ChainEntries(r.buckets) = ChainEntries(t.buckets) \cup {e}
<1> DEFINE c == t.capacity
           B == t.buckets
           b == Home(e[1], c)
           s == <<e>> \o B[b]
           T == Written(B, b, s)
<1>1. c \in Nat \ {0} /\ Chains(B, c) /\ t.liveCount = Cardinality(ChainEntries(B))
      /\ IsFiniteSet(ChainEntries(B))
  BY ItemsChainedIs DEF IsChained
<1>2. e[1] \in Fields
  BY DEF Pairs
<1>3. /\ b \in 0..(c - 1) /\ B[b] \in Seq(Pairs) /\ Distinct(B[b])
      /\ ~Knows(EntriesOf(B[b]), e[1])
      /\ ChainEntries(B) \subseteq Pairs
      /\ \A d \in Pairs : d \in ChainEntries(B) <=> d \in EntriesOf(B[Home(d[1], c)])
  BY <1>1, <1>2, BucketIs
<1>4. /\ DOMAIN r = DOMAIN t /\ r.form = t.form /\ r.capacity = c
      /\ r.liveCount = t.liveCount + 1 /\ r.buckets = T
  BY DEF PushEntry, IsChained, Written
<1>5. /\ s \in Seq(Pairs) /\ Distinct(s) /\ EntriesOf(s) = EntriesOf(B[b]) \cup {e}
  <2> DEFINE x == B[b]
  <2>1. x \in Seq(Pairs) /\ Distinct(x) /\ ~Knows(EntriesOf(x), e[1])
    BY <1>3
  <2> HIDE DEF x
  <2>2. <<e>> \o x \in Seq(Pairs) /\ Distinct(<<e>> \o x) /\ EntriesOf(<<e>> \o x) = EntriesOf(x) \cup {e}
    BY <2>1, PushIs
  <2> QED
    BY <2>2 DEF x
<1>6. \A d \in EntriesOf(B[b]) : Home(d[1], c) = b
  BY <1>1, <1>3 DEF Chains
<1>7. PowerOfTwo(c) /\ c >= INITIAL_CAPACITY /\ e \notin ChainEntries(B)
      /\ DOMAIN t = {"form", "capacity", "liveCount", "buckets"} /\ t.form = "chained"
  BY DEF IsChained, Knows
<1> HIDE DEF c, B, s, T
<1>8. \A d \in EntriesOf(s) : Home(d[1], c) = b
  BY <1>5, <1>6
<1>9. b = Home(e[1], c)
  OBVIOUS
<1> HIDE DEF b
<1>10. /\ Chains(T, c)
       /\ \A d \in Pairs : Home(d[1], c) = b => (d \in ChainEntries(T) <=> d \in EntriesOf(s))
       /\ \A d \in Pairs : Home(d[1], c) # b => (d \in ChainEntries(T) <=> d \in ChainEntries(B))
  BY <1>1, <1>3, <1>5, <1>8, RechainIs DEF T
<1>11. ChainEntries(T) = ChainEntries(B) \cup {e}
  <2>1. ChainEntries(T) \subseteq Pairs
    BY <1>1, <1>10, BucketIs
  <2>2. \A d \in Pairs : d \in ChainEntries(T) <=> d \in ChainEntries(B) \cup {e}
    BY <1>3, <1>5, <1>9, <1>10
  <2> QED
    BY <1>3, <2>1, <2>2
<1>12. Cardinality(ChainEntries(T)) = Cardinality(ChainEntries(B)) + 1
  BY <1>1, <1>7, <1>11, FS_AddElement
<1>13. IsChained(r)
  BY <1>1, <1>4, <1>7, <1>10, <1>12 DEF IsChained
<1> QED
  BY <1>4, <1>11, <1>13 DEF c, B

\* A resize keeps the entries.
LEMMA ResizeChainedOf ==
    ASSUME NEW t, IsChained(t), NEW c, PowerOfTwo(c), c >= INITIAL_CAPACITY,
           NEW r, r = ResizeChained(t, c)
    PROVE  /\ IsChained(r) /\ r.capacity = c /\ r.liveCount = t.liveCount
           /\ ChainEntries(r.buckets) = ChainEntries(t.buckets)
<1> DEFINE s == ItemsChained(t)
           L == Len(s)
           Part(n) == {s[i] : i \in 1..n}
<1>1. /\ s \in Seq(Pairs) /\ Distinct(s) /\ EntriesOf(s) = ChainEntries(t.buckets)
      /\ L = t.liveCount /\ L \in Nat /\ DOMAIN s = 1..L
  BY ItemsChainedIs
<1>2. r = Final("rehash chained", NewChained(c), s)
  BY <1>1, ResizeChainedIs
<1> HIDE DEF s, L
<1>3. PICK st : States(st, "rehash chained", NewChained(c), s)
                /\ Final("rehash chained", NewChained(c), s) = st[L]
  BY <1>1, FinalIs DEF L
<1>4. /\ st[0] = NewChained(c)
      /\ \A n \in 1..L : st[n] = PushEntry(st[n - 1], s[n])
  BY <1>3 DEF States, L, Does
<1> DEFINE Good(n) == /\ IsChained(st[n]) /\ st[n].capacity = c /\ st[n].liveCount = n
                      /\ ChainEntries(st[n].buckets) = Part(n)
           Bad == {n \in 0..L : ~Good(n)}
<1>5. Good(0)
  BY <1>4, NewChainedIs
<1>6. ASSUME NEW n \in 1..L, Good(n - 1) PROVE Good(n)
  <2> DEFINE m == n - 1
             u == st[m]
             e == s[n]
  <2>1. /\ m \in Nat /\ m + 1 = n /\ IsChained(u) /\ u.capacity = c /\ u.liveCount = m
        /\ ChainEntries(u.buckets) = Part(m)
    <3>1. m \in Nat /\ m + 1 = n
      BY <1>1
    <3> QED
      BY <1>6, <3>1
  <2>2. e \in Pairs
    BY <1>1
  <2>3. ~Knows(Part(m), e[1])
    <3>1. ASSUME NEW i \in 1..m, s[i][1] = s[n][1] PROVE FALSE
      <4>1. i \in 1..L /\ i # n
        BY <1>1
      <4> QED
        BY <1>1, <3>1, <4>1 DEF Distinct, L
    <3> QED
      BY <3>1 DEF Knows
  <2>4. st[n] = PushEntry(u, e)
    BY <1>4
  <2>5. Part(n) = Part(m) \cup {e}
    <3>1. 1..n = (1..m) \cup {n}
      BY <1>1
    <3> QED
      BY <3>1
  <2> HIDE DEF u, e, m, Part
  <2> DEFINE x == st[n]
  <2>6. x = PushEntry(u, e)
    BY <2>4
  <2> HIDE DEF x
  <2>7. /\ IsChained(x) /\ x.capacity = u.capacity
        /\ x.liveCount = u.liveCount + 1
        /\ ChainEntries(x.buckets) = ChainEntries(u.buckets) \cup {e}
    BY <2>1, <2>2, <2>3, <2>6, PushEntryIs
  <2> QED
    BY <2>1, <2>5, <2>7 DEF x
<1>7. Bad = {}
  <2>1. Bad \subseteq 0..L /\ 0 \notin Bad
    BY <1>5
  <2>2. \A n \in 1..L : n \in Bad => n - 1 \in Bad
    <3> TAKE n \in 1..L
    <3>1. n - 1 \in 0..L
      BY <1>1
    <3> HIDE DEF Good
    <3> QED
      BY <1>6, <3>1
  <2> HIDE DEF Bad
  <2> QED
    BY <1>1, <2>1, <2>2, NoneBad
<1>8. Good(L)
  <2>1. L \in 0..L
    BY <1>1
  <2> HIDE DEF Good
  <2> QED
    BY <1>7, <2>1
<1>9. Part(L) = EntriesOf(s)
  BY DEF EntriesOf, L
<1> QED
  BY <1>1, <1>2, <1>3, <1>8, <1>9

\* One entry for another of the same field.
LEMMA WithCount ==
    ASSUME NEW E, IsFiniteSet(E), OnePerField(E), NEW f, NEW v, Knows(E, f)
    PROVE  /\ Cardinality(Without(E, f)) = Cardinality(E) - 1
           /\ Cardinality(With(E, f, v)) = Cardinality(E)
<1>1. PICK e \in E : e[1] = f
  BY DEF Knows
<1>2. Without(E, f) = E \ {e}
  BY <1>1 DEF Without, OnePerField
<1>3. IsFiniteSet(E \ {e}) /\ Cardinality(E \ {e}) = Cardinality(E) - 1 /\ Cardinality(E) \in Nat
  BY FS_RemoveElement, FS_CardinalityType
<1> DEFINE W == Without(E, f)
           x == <<f, v>>
<1>4. x \notin W
  BY DEF Without
<1>5. With(E, f, v) = W \cup {x} /\ IsFiniteSet(W)
  BY <1>2, <1>3 DEF With
<1> HIDE DEF W, x
<1>6. Cardinality(W \cup {x}) = Cardinality(W) + 1
  BY <1>4, <1>5, FS_AddElement
<1> QED
  BY <1>2, <1>3, <1>5, <1>6 DEF W

\* ChainedHashTable.set.
LEMMA SetChainedIs ==
    ASSUME NEW t, IsChained(t), ChainLoad(t), NEW f \in Fields \ BadFields, NEW v \in Values,
           NEW r, r = SetChained(t, f, v)
    PROVE  /\ IsChained(r.table) /\ ChainLoad(r.table)
           /\ ChainEntries(r.table.buckets) = With(ChainEntries(t.buckets), f, v)
           /\ Knows(ChainEntries(t.buckets), f) => r.reply = 0
           /\ ~Knows(ChainEntries(t.buckets), f) => r.reply = 1
<1> DEFINE c == t.capacity
           B == t.buckets
           b == Home(f, c)
           x == B[b]
           i == Position(x, f)
           e == Entry(f, v)
<1>1. /\ c \in Nat \ {0} /\ Chains(B, c) /\ t.liveCount = Cardinality(ChainEntries(B))
      /\ IsFiniteSet(ChainEntries(B)) /\ OnePerField(ChainEntries(B))
      /\ PowerOfTwo(c) /\ c >= INITIAL_CAPACITY
      /\ t.liveCount \in Nat
      /\ DOMAIN t = {"form", "capacity", "liveCount", "buckets"} /\ t.form = "chained"
  BY ItemsChainedIs DEF IsChained
<1>2. /\ b \in 0..(c - 1) /\ x \in Seq(Pairs) /\ Distinct(x)
      /\ Knows(ChainEntries(B), f) <=> Knows(EntriesOf(x), f)
      /\ ChainEntries(B) \subseteq Pairs
      /\ \A d \in Pairs : d \in ChainEntries(B) <=> d \in EntriesOf(B[Home(d[1], c)])
  BY <1>1, BucketIs
<1>3. e = <<f, v>> /\ e \in Pairs /\ e[1] = f
  BY DEF Entry, Pairs
<1>4. \A d \in EntriesOf(x) : Home(d[1], c) = b
  BY <1>1, <1>2 DEF Chains
<1>5. CASE i # 0
  <2> DEFINE s == Written(x, i, e)
             T == Written(B, b, s)
             u == [t EXCEPT !.buckets[b][i] = e]
  <2>1. r = Result(u, 0)
    BY <1>5 DEF SetChained
  <2>2. /\ DOMAIN u = DOMAIN t /\ u.form = t.form /\ u.capacity = c
        /\ u.liveCount = t.liveCount /\ u.buckets = T
    BY <1>1 DEF Written
  <2>3. i \in 1..Len(x) /\ x[i][1] = f
    <3> HIDE DEF x
    <3> QED
      BY <1>2, <1>5, PositionIs
  <2>4. r.table = u /\ r.reply = 0
    BY <2>1 DEF Result
  <2>5. s \in Seq(Pairs) /\ Distinct(s) /\ EntriesOf(s) = Without(EntriesOf(x), e[1]) \cup {e}
    <3>1. e[1] = x[i][1]
      BY <1>3, <2>3
    <3>2. s = Written(x, i, e)
      OBVIOUS
    <3>3. x \in Seq(Pairs) /\ Distinct(x) /\ i \in 1..Len(x) /\ e \in Pairs
      BY <1>2, <1>3, <2>3
    <3> HIDE DEF x, i, s, e
    <3> QED
      BY ONLY <3>1, <3>2, <3>3, ReplaceIs
  <2>6. Knows(ChainEntries(B), f)
    <3>1. x[i] \in EntriesOf(x)
      BY <2>3 DEF EntriesOf
    <3> QED
      BY <1>2, <2>3, <3>1 DEF Knows
  <2> HIDE DEF s, T, u, x, i, e
  <2>7. \A d \in EntriesOf(s) : Home(d[1], c) = b
    BY <1>3, <1>4, <2>5 DEF Without
  <2>8. b = Home(f, c)
    OBVIOUS
  <2>9. x = B[Home(f, c)]
    BY DEF x
  <2> HIDE DEF b, c, B
  <2>10. /\ Chains(T, c)
         /\ \A d \in Pairs : Home(d[1], c) = b => (d \in ChainEntries(T) <=> d \in EntriesOf(s))
         /\ \A d \in Pairs : Home(d[1], c) # b => (d \in ChainEntries(T) <=> d \in ChainEntries(B))
    BY <1>1, <1>2, <2>5, <2>7, RechainIs DEF T
  <2>11. ChainEntries(T) = With(ChainEntries(B), f, v)
    <3>1. ChainEntries(T) \subseteq Pairs
      BY <1>1, <2>10, BucketIs
    <3>2. With(ChainEntries(B), f, v) \subseteq Pairs
      BY <1>2, <1>3 DEF With, Without
    <3>3. \A d \in Pairs : d \in With(ChainEntries(B), f, v) <=> (d \in ChainEntries(B) /\ d[1] # f) \/ d = e
      BY <1>3 DEF With, Without
    <3>4. \A d \in Pairs : d \in EntriesOf(s) <=> (d \in EntriesOf(x) /\ d[1] # f) \/ d = e
      BY <1>3, <2>5 DEF Without
    <3>5. ASSUME NEW d \in Pairs PROVE d \in ChainEntries(T) <=> d \in With(ChainEntries(B), f, v)
      <4>1. CASE Home(d[1], c) = b
        <5>1. d \in ChainEntries(B) <=> d \in EntriesOf(x)
          BY <1>2, <2>8, <2>9, <4>1
        <5> QED
          BY <2>10, <3>3, <3>4, <4>1, <5>1
      <4>2. CASE Home(d[1], c) # b
        <5>1. d[1] # f /\ d # e
          BY <1>3, <2>8, <4>2
        <5> QED
          BY <2>10, <3>3, <4>2, <5>1
      <4> QED
        BY <4>1, <4>2
    <3> QED
      BY <3>1, <3>2, <3>5
  <2>12. Cardinality(ChainEntries(T)) = Cardinality(ChainEntries(B))
    BY <1>1, <2>6, <2>11, WithCount
  <2>13. IsChained(u)
    BY <1>1, <2>2, <2>10, <2>12 DEF IsChained
  <2>14. ChainLoad(u)
    BY <2>2 DEF ChainLoad, c
  <2> QED
    BY <2>2, <2>4, <2>6, <2>11, <2>13, <2>14 DEF B
<1>6. CASE i = 0
  <2> DEFINE u == PushEntry(t, e)
             w == IF Crowded(u.liveCount, c) THEN ResizeChained(u, 2 * c) ELSE u
  <2>1. r = Result(w, 1)
    BY <1>6 DEF SetChained
  <2>2. r.table = w /\ r.reply = 1
    BY <2>1 DEF Result
  <2>3. ~Knows(ChainEntries(B), f)
    <3> HIDE DEF x
    <3> QED
      BY <1>2, <1>6, PositionIs
  <2> HIDE DEF u, e, w
  <2>4. /\ IsChained(u) /\ u.capacity = c /\ u.liveCount = t.liveCount + 1
        /\ ChainEntries(u.buckets) = ChainEntries(B) \cup {e}
    BY <1>3, <2>3, PushEntryIs DEF u
  <2>5. ChainEntries(u.buckets) = With(ChainEntries(B), f, v)
    <3>1. Without(ChainEntries(B), f) = ChainEntries(B)
      BY <2>3, WithoutNone
    <3> QED
      BY <1>3, <2>4, <3>1 DEF With
  <2>6. /\ \/ c = INITIAL_CAPACITY
           \/ c = 2 * INITIAL_CAPACITY /\ t.liveCount > 0
           \/ c <= 10 * t.liveCount
    BY DEF ChainLoad
  <2>7. CASE Crowded(u.liveCount, c)
    <3> DEFINE d == 2 * c
    <3>1. PowerOfTwo(d) /\ d >= INITIAL_CAPACITY
      <4>1. PowerOfTwo(d)
        BY <1>1, PowerDoubled
      <4> QED
        BY <1>1, <4>1, HashTableAssumption DEF PowerOfTwo
    <3>2. w = ResizeChained(u, d)
      BY <2>7 DEF w
    <3> HIDE DEF d
    <3>3. /\ IsChained(w) /\ w.capacity = d /\ w.liveCount = u.liveCount
          /\ ChainEntries(w.buckets) = ChainEntries(u.buckets)
      BY <2>4, <3>1, <3>2, ResizeChainedOf
    <3>4. d <= 10 * w.liveCount
      BY <1>1, <2>4, <2>7, <3>3 DEF Crowded, d
    <3>5. ChainLoad(w)
      BY <3>3, <3>4 DEF ChainLoad
    <3> QED
      BY <2>2, <2>3, <2>5, <3>3, <3>5
  <2>8. CASE ~Crowded(u.liveCount, c)
    <3>1. w = u
      BY <2>8 DEF w
    <3>2. ChainLoad(u)
      BY <1>1, <2>4, <2>6 DEF ChainLoad
    <3> QED
      BY <2>2, <2>3, <2>4, <2>5, <3>1, <3>2
  <2> QED
    BY <2>7, <2>8
<1> QED
  BY <1>5, <1>6

\* ChainedHashTable.delete.
LEMMA DeleteChainedIs ==
    ASSUME NEW t, IsChained(t), ChainLoad(t), NEW f \in Fields \ BadFields,
           NEW r, r = DeleteChained(t, f)
    PROVE  /\ IsChained(r.table) /\ ChainLoad(r.table)
           /\ ChainEntries(r.table.buckets) = Without(ChainEntries(t.buckets), f)
           /\ Knows(ChainEntries(t.buckets), f) => r.reply = 1
           /\ ~Knows(ChainEntries(t.buckets), f) => r.reply = 0
<1> DEFINE c == t.capacity
           B == t.buckets
           b == Home(f, c)
           x == B[b]
           i == Position(x, f)
<1>1. /\ c \in Nat \ {0} /\ Chains(B, c) /\ t.liveCount = Cardinality(ChainEntries(B))
      /\ IsFiniteSet(ChainEntries(B)) /\ OnePerField(ChainEntries(B))
      /\ PowerOfTwo(c) /\ c >= INITIAL_CAPACITY
      /\ t.liveCount \in Nat
      /\ DOMAIN t = {"form", "capacity", "liveCount", "buckets"} /\ t.form = "chained"
  BY ItemsChainedIs DEF IsChained
<1>2. /\ b \in 0..(c - 1) /\ x \in Seq(Pairs) /\ Distinct(x)
      /\ Knows(ChainEntries(B), f) <=> Knows(EntriesOf(x), f)
      /\ ChainEntries(B) \subseteq Pairs
      /\ \A d \in Pairs : d \in ChainEntries(B) <=> d \in EntriesOf(B[Home(d[1], c)])
  BY <1>1, BucketIs
<1>3. \A d \in EntriesOf(x) : Home(d[1], c) = b
  BY <1>1, <1>2 DEF Chains
<1>4. CASE i # 0
  <2> DEFINE s == RemoveAt(x, i)
             T == Written(B, b, s)
             u == [t EXCEPT !.buckets[b] = RemoveAt(@, i), !.liveCount = @ - 1]
             w == IF Sparse(u) THEN ResizeChained(u, Halved(u)) ELSE u
  <2>1. r = Result(w, 1)
    BY <1>4 DEF DeleteChained
  <2>2. r.table = w /\ r.reply = 1
    BY <2>1 DEF Result
  <2>3. i \in 1..Len(x) /\ x[i][1] = f
    <3> HIDE DEF x
    <3> QED
      BY <1>2, <1>4, PositionIs
  <2> HIDE DEF w
  <2>4. /\ DOMAIN u = DOMAIN t /\ u.form = t.form /\ u.capacity = c
        /\ u.liveCount = t.liveCount - 1 /\ u.buckets = T
    BY <1>1 DEF Written
  <2>5. s \in Seq(Pairs) /\ Distinct(s) /\ EntriesOf(s) = Without(EntriesOf(x), f)
    <3>1. x \in Seq(Pairs) /\ Distinct(x) /\ i \in 1..Len(x) /\ x[i][1] = f
      BY <1>2, <2>3
    <3> HIDE DEF x, i
    <3>2. RemoveAt(x, i) \in Seq(Pairs) /\ Distinct(RemoveAt(x, i))
          /\ EntriesOf(RemoveAt(x, i)) = Without(EntriesOf(x), x[i][1])
      BY ONLY <3>1, RemoveIs
    <3> QED
      BY <3>1, <3>2
  <2>6. Knows(ChainEntries(B), f)
    <3>1. x[i] \in EntriesOf(x)
      BY <2>3 DEF EntriesOf
    <3> QED
      BY <1>2, <2>3, <3>1 DEF Knows
  <2> HIDE DEF s, T, u, x, i
  <2>7. \A d \in EntriesOf(s) : Home(d[1], c) = b
    BY <1>3, <2>5 DEF Without
  <2>8. b = Home(f, c)
    OBVIOUS
  <2>9. x = B[Home(f, c)]
    BY DEF x
  <2> HIDE DEF b, c, B
  <2>10. /\ Chains(T, c)
         /\ \A d \in Pairs : Home(d[1], c) = b => (d \in ChainEntries(T) <=> d \in EntriesOf(s))
         /\ \A d \in Pairs : Home(d[1], c) # b => (d \in ChainEntries(T) <=> d \in ChainEntries(B))
    BY <1>1, <1>2, <2>5, <2>7, RechainIs DEF T
  <2>11. ChainEntries(T) = Without(ChainEntries(B), f)
    <3>1. ChainEntries(T) \subseteq Pairs
      BY <1>1, <2>10, BucketIs
    <3>2. Without(ChainEntries(B), f) \subseteq Pairs
      BY <1>2 DEF Without
    <3>3. \A d \in Pairs : d \in Without(ChainEntries(B), f) <=> d \in ChainEntries(B) /\ d[1] # f
      BY DEF Without
    <3>4. \A d \in Pairs : d \in EntriesOf(s) <=> d \in EntriesOf(x) /\ d[1] # f
      BY <2>5 DEF Without
    <3>5. ASSUME NEW d \in Pairs PROVE d \in ChainEntries(T) <=> d \in Without(ChainEntries(B), f)
      <4>1. CASE Home(d[1], c) = b
        <5>1. d \in ChainEntries(B) <=> d \in EntriesOf(x)
          BY <1>2, <2>8, <2>9, <4>1
        <5> QED
          BY <2>10, <3>3, <3>4, <4>1, <5>1
      <4>2. CASE Home(d[1], c) # b
        <5>1. d[1] # f
          BY <2>8, <4>2
        <5> QED
          BY <2>10, <3>3, <4>2, <5>1
      <4> QED
        BY <4>1, <4>2
    <3> QED
      BY <3>1, <3>2, <3>5
  <2>12. Cardinality(ChainEntries(T)) = Cardinality(ChainEntries(B)) - 1
    BY <1>1, <2>6, <2>11, WithCount
  <2>13. IsChained(u)
    BY <1>1, <2>4, <2>10, <2>12 DEF IsChained
  <2>14. u.liveCount \in Nat
    BY <2>13, ItemsChainedIs
  <2>15. /\ \/ c = INITIAL_CAPACITY
            \/ c = 2 * INITIAL_CAPACITY /\ t.liveCount > 0
            \/ c <= 10 * t.liveCount
    BY DEF ChainLoad, c
  <2>16. INITIAL_CAPACITY \in Nat /\ INITIAL_CAPACITY >= 4
    BY HashTableAssumption DEF PowerOfTwo
  <2>17. ChainEntries(u.buckets) = Without(ChainEntries(B), f)
    BY <2>4, <2>11
  <2>18. CASE Sparse(u)
    <3> DEFINE d == Halved(u)
               n == u.liveCount
    <3>1. c > INITIAL_CAPACITY /\ 10 * n < 2 * c
      BY <2>4, <2>18 DEF Sparse
    <3>2. /\ PowerOfTwo(d) /\ d >= INITIAL_CAPACITY /\ d \in Nat /\ c <= 2 * d
          /\ d = INITIAL_CAPACITY \/ c = 2 * d
      BY <1>1, <2>4, <3>1, HalvedIs
    <3>3. w = ResizeChained(u, d)
      BY <2>18 DEF w, u
    <3> HIDE DEF d
    <3>4. c = 2 * INITIAL_CAPACITY \/ c <= 10 * (n + 1)
      BY <1>1, <2>4, <2>15, <2>16, <3>1
    <3> HIDE DEF n
    <3>5. d = INITIAL_CAPACITY \/ d <= 10 * n
      BY <1>1, <2>14, <3>1, <3>2, <3>4, ShrinkLoad DEF n
    <3>6. /\ IsChained(w) /\ w.capacity = d /\ w.liveCount = n
          /\ ChainEntries(w.buckets) = ChainEntries(u.buckets)
      BY <2>13, <3>2, <3>3, ResizeChainedOf DEF n
    <3>7. ChainLoad(w)
      BY <3>5, <3>6 DEF ChainLoad
    <3> QED
      BY <2>2, <2>6, <2>17, <3>6, <3>7 DEF B
  <2>19. CASE ~Sparse(u)
    <3>1. w = u
      BY <2>19 DEF w, u
    <3>2. c = INITIAL_CAPACITY \/ c <= 5 * u.liveCount
      BY <1>1, <2>4, <2>14, <2>16, <2>19 DEF Sparse
    <3>3. c \in Nat /\ (c = INITIAL_CAPACITY \/ c <= 10 * u.liveCount)
      BY <1>1, <2>14, <3>2
    <3>4. ChainLoad(u)
      BY <2>4, <3>3 DEF ChainLoad
    <3> QED
      BY <2>2, <2>6, <2>13, <2>17, <3>1, <3>4 DEF B
  <2> QED
    BY <2>18, <2>19
<1>5. CASE i = 0
  <2>1. r = Result(t, 0)
    BY <1>5 DEF DeleteChained
  <2>2. r.table = t /\ r.reply = 0
    BY <2>1 DEF Result
  <2>3. ~Knows(ChainEntries(B), f)
    <3> HIDE DEF x
    <3> QED
      BY <1>2, <1>5, PositionIs
  <2>4. Without(ChainEntries(B), f) = ChainEntries(B)
    BY <2>3, WithoutNone
  <2> QED
    BY <2>2, <2>3, <2>4
<1> QED
  BY <1>4, <1>5

\* ChainedHashTable.get.
LEMMA GetChainedIs ==
    ASSUME NEW t, IsChained(t), NEW f \in Fields \ BadFields
    PROVE  /\ Knows(ChainEntries(t.buckets), f) => <<f, GetChained(t, f)>> \in ChainEntries(t.buckets)
           /\ ~Knows(ChainEntries(t.buckets), f) => GetChained(t, f) = Missing
<1> DEFINE c == t.capacity
           B == t.buckets
           b == Home(f, c)
           x == B[b]
           i == Position(x, f)
<1>1. c \in Nat \ {0} /\ Chains(B, c)
  BY ItemsChainedIs DEF IsChained
<1>2. /\ b \in 0..(c - 1) /\ x \in Seq(Pairs) /\ Distinct(x) /\ DOMAIN B = 0..(c - 1)
      /\ Knows(ChainEntries(B), f) <=> Knows(EntriesOf(x), f)
  BY <1>1, BucketIs
<1>3. GetChained(t, f) = IF i = 0 THEN Missing ELSE x[i][2]
  BY DEF GetChained
<1>4. \/ i = 0 /\ ~Knows(EntriesOf(x), f)
      \/ i \in 1..Len(x) /\ x[i][1] = f
  <2> HIDE DEF x
  <2> QED
    BY <1>2, PositionIs
<1>5. CASE i # 0
  <2>1. i \in 1..Len(x) /\ x[i][1] = f
    BY <1>4, <1>5
  <2>2. x[i] \in Pairs /\ x[i] \in EntriesOf(x)
    BY <1>2, <2>1 DEF EntriesOf
  <2>3. x[i] \in ChainEntries(B)
    BY <1>2, <2>2 DEF ChainEntries
  <2>4. x[i] = <<f, x[i][2]>>
    BY <2>1, <2>2 DEF Pairs
  <2>5. Knows(ChainEntries(B), f)
    BY <2>1, <2>3 DEF Knows
  <2> QED
    BY <1>3, <1>5, <2>3, <2>4, <2>5
<1>6. CASE i = 0
  <2>1. ~Knows(ChainEntries(B), f)
    BY <1>2, <1>4, <1>6
  <2> QED
    BY <1>3, <1>6, <2>1
<1> QED
  BY <1>5, <1>6

-----------------------------------------------------------------------------
(***************************************************************************)
(* The compact hash, and its promotion.                                    *)
(***************************************************************************)
IsCompact(t) ==
    /\ DOMAIN t = {"form", "entries"} /\ t.form = "compact"
    /\ t.entries \in Seq(Pairs) /\ Distinct(t.entries)

\* Promotion keeps the entries.
LEMMA PromoteOf ==
    ASSUME NEW t, IsCompact(t), NEW r, r = Promote(t)
    PROVE  IsChained(r) /\ ChainLoad(r) /\ ChainEntries(r.buckets) = EntriesOf(t.entries)
<1> DEFINE s == t.entries
           L == Len(s)
           Part(n) == {s[i] : i \in 1..n}
<1>1. s \in Seq(Pairs) /\ Distinct(s) /\ L \in Nat /\ DOMAIN s = 1..L
  BY DEF IsCompact
<1>2. r = Final("promote", NewChained(INITIAL_CAPACITY), s)
  BY <1>1, PromoteIs
<1> HIDE DEF s, L
<1>3. PICK st : States(st, "promote", NewChained(INITIAL_CAPACITY), s)
                /\ Final("promote", NewChained(INITIAL_CAPACITY), s) = st[L]
  BY <1>1, FinalIs DEF L
<1>4. /\ st[0] = NewChained(INITIAL_CAPACITY)
      /\ \A n \in 1..L : st[n] = SetChained(st[n - 1], s[n][1], s[n][2]).table
  BY <1>3 DEF States, L, Does
<1> DEFINE Good(n) == IsChained(st[n]) /\ ChainLoad(st[n]) /\ ChainEntries(st[n].buckets) = Part(n)
           Bad == {n \in 0..L : ~Good(n)}
<1>5. Good(0)
  <2> DEFINE c == INITIAL_CAPACITY
             u == NewChained(c)
  <2>1. PowerOfTwo(c) /\ c >= INITIAL_CAPACITY
    BY HashTableAssumption DEF PowerOfTwo
  <2>2. IsChained(u) /\ u.capacity = c /\ ChainEntries(u.buckets) = {}
    BY <2>1, NewChainedIs
  <2>3. ChainLoad(u)
    BY <2>2 DEF ChainLoad
  <2>4. Part(0) = {}
    OBVIOUS
  <2> QED
    BY <1>4, <2>2, <2>3, <2>4
<1>6. ASSUME NEW n \in 1..L, Good(n - 1) PROVE Good(n)
  <2> DEFINE m == n - 1
             u == st[m]
             e == s[n]
             f == e[1]
             v == e[2]
             x == SetChained(u, f, v)
  <2>1. /\ m \in Nat /\ m + 1 = n /\ IsChained(u) /\ ChainLoad(u)
        /\ ChainEntries(u.buckets) = Part(m)
    <3>1. m \in Nat /\ m + 1 = n
      BY <1>1
    <3> QED
      BY <1>6, <3>1
  <2>2. e \in Pairs
    BY <1>1
  <2>3. f \in Fields \ BadFields /\ v \in Values /\ e = <<f, v>>
    BY <2>2 DEF Pairs
  <2>4. ~Knows(Part(m), f)
    <3>1. ASSUME NEW i \in 1..m, s[i][1] = s[n][1] PROVE FALSE
      <4>1. i \in 1..L /\ i # n
        BY <1>1
      <4> QED
        BY <1>1, <3>1, <4>1 DEF Distinct, L
    <3> QED
      BY <3>1 DEF Knows
  <2>5. st[n] = x.table
    BY <1>4
  <2>6. Part(n) = Part(m) \cup {e}
    <3>1. 1..n = (1..m) \cup {n}
      BY <1>1
    <3> QED
      BY <3>1
  <2> HIDE DEF u, e, m, Part, f, v, x
  <2>7. /\ IsChained(x.table) /\ ChainLoad(x.table)
        /\ ChainEntries(x.table.buckets) = With(ChainEntries(u.buckets), f, v)
    BY <2>1, <2>3, SetChainedIs DEF x
  <2>8. With(Part(m), f, v) = Part(m) \cup {e}
    <3>1. Without(Part(m), f) = Part(m)
      BY <2>4, WithoutNone
    <3> QED
      BY <2>3, <3>1 DEF With
  <2> QED
    BY <2>1, <2>5, <2>6, <2>7, <2>8
<1>7. Bad = {}
  <2>1. Bad \subseteq 0..L /\ 0 \notin Bad
    BY <1>5
  <2>2. \A n \in 1..L : n \in Bad => n - 1 \in Bad
    <3> TAKE n \in 1..L
    <3>1. n - 1 \in 0..L
      BY <1>1
    <3> HIDE DEF Good
    <3> QED
      BY <1>6, <3>1
  <2> HIDE DEF Bad
  <2> QED
    BY <1>1, <2>1, <2>2, NoneBad
<1>8. Good(L)
  <2>1. L \in 0..L
    BY <1>1
  <2> HIDE DEF Good
  <2> QED
    BY <1>7, <2>1
<1>9. Part(L) = EntriesOf(s)
  BY DEF EntriesOf, L
<1> QED
  BY <1>1, <1>2, <1>3, <1>8, <1>9 DEF s

-----------------------------------------------------------------------------
(***************************************************************************)
(* Whatever the form: Sound is the inductive invariant, EntriesIn the      *)
(* entries that the structure holds.                                       *)
(***************************************************************************)
Sound(t) == IsCompact(t) \/ (IsChained(t) /\ ChainLoad(t)) \/ (IsOpen(t) /\ Load(t))

EntriesIn(t) ==
    IF t.form = "compact" THEN EntriesOf(t.entries)
    ELSE IF t.form = "chained" THEN ChainEntries(t.buckets) ELSE SlotEntries(t.slots)

\* The entries of each form.
LEMMA EntriesInIs ==
    ASSUME NEW t
    PROVE  /\ IsCompact(t) => t.form = "compact" /\ EntriesIn(t) = EntriesOf(t.entries)
           /\ IsChained(t) => t.form = "chained" /\ EntriesIn(t) = ChainEntries(t.buckets)
           /\ IsOpen(t) => t.form = "open" /\ EntriesIn(t) = SlotEntries(t.slots)
BY DEF EntriesIn, IsCompact, IsChained, IsOpen

\* items() and the size.
LEMMA ItemsIs ==
    ASSUME NEW t, Sound(t)
    PROVE  /\ Items(t) \in Seq(Pairs) /\ Distinct(Items(t)) /\ EntriesOf(Items(t)) = EntriesIn(t)
           /\ Size(t) = Len(Items(t))
<1>1. CASE IsCompact(t)
  <2>1. Items(t) = t.entries /\ Size(t) = Len(t.entries)
    BY <1>1 DEF Items, Size, IsCompact
  <2> QED
    BY <1>1, <2>1, EntriesInIs DEF IsCompact
<1>2. CASE IsChained(t)
  <2>1. Items(t) = ItemsChained(t) /\ Size(t) = t.liveCount
    BY <1>2 DEF Items, Size, IsChained
  <2> QED
    BY <1>2, <2>1, EntriesInIs, ItemsChainedIs
<1>3. CASE IsOpen(t)
  <2>1. Items(t) = ItemsOpen(t) /\ Size(t) = t.liveCount
    BY <1>3 DEF Items, Size, IsOpen
  <2> QED
    BY <1>3, <2>1, EntriesInIs, ItemsOpenIs
<1> QED
  BY <1>1, <1>2, <1>3 DEF Sound

\* There is one entry of a field at most.
LEMMA EntriesAre ==
    ASSUME NEW t, Sound(t)
    PROVE  /\ EntriesIn(t) \subseteq Pairs /\ OnePerField(EntriesIn(t))
           /\ Size(t) = 0 => EntriesIn(t) = {}
<1> DEFINE s == Items(t)
<1>1. s \in Seq(Pairs) /\ Distinct(s) /\ EntriesOf(s) = EntriesIn(t) /\ Size(t) = Len(s)
  BY ItemsIs
<1> HIDE DEF s
<1>2. EntriesOf(s) \subseteq Pairs
  BY <1>1, EntriesArePairs
<1>3. OnePerField(EntriesOf(s))
  BY <1>1 DEF OnePerField, EntriesOf, Distinct
<1>4. Len(s) = 0 => EntriesOf(s) = {}
  BY DEF EntriesOf
<1> QED
  BY <1>1, <1>2, <1>3, <1>4

\* get() finds what is stored.
LEMMA GetIs ==
    ASSUME NEW t, Sound(t), NEW f \in Fields \ BadFields
    PROVE  /\ Knows(EntriesIn(t), f) => <<f, Get(t, f)>> \in EntriesIn(t)
           /\ ~Knows(EntriesIn(t), f) => Get(t, f) = Missing
<1>1. CASE IsCompact(t)
  <2> DEFINE s == t.entries
             i == Position(s, f)
  <2>1. s \in Seq(Pairs)
    BY <1>1 DEF IsCompact
  <2>2. Get(t, f) = IF i = 0 THEN Missing ELSE s[i][2]
    BY <1>1 DEF Get, GetCompact, IsCompact
  <2>3. EntriesIn(t) = EntriesOf(s)
    BY <1>1, EntriesInIs
  <2> HIDE DEF s
  <2>4. \/ i = 0 /\ ~Knows(EntriesOf(s), f)
        \/ i \in 1..Len(s) /\ s[i][1] = f
    BY <2>1, PositionIs
  <2>5. CASE i # 0
    <3>1. i \in 1..Len(s) /\ s[i][1] = f
      BY <2>4, <2>5
    <3>2. s[i] \in Pairs /\ s[i] \in EntriesOf(s)
      BY <2>1, <3>1 DEF EntriesOf
    <3>3. s[i] = <<f, s[i][2]>>
      BY <3>1, <3>2 DEF Pairs
    <3>4. Knows(EntriesOf(s), f)
      BY <3>1, <3>2 DEF Knows
    <3> QED
      BY <2>2, <2>3, <2>5, <3>2, <3>3, <3>4
  <2>6. CASE i = 0
    BY <2>2, <2>3, <2>4, <2>6
  <2> QED
    BY <2>5, <2>6
<1>2. CASE IsChained(t)
  <2>1. Get(t, f) = GetChained(t, f)
    BY <1>2 DEF Get, IsChained
  <2> QED
    BY <1>2, <2>1, EntriesInIs, GetChainedIs
<1>3. CASE IsOpen(t) /\ Load(t)
  <2>1. Get(t, f) = GetOpen(t, f)
    BY <1>3 DEF Get, IsOpen
  <2> QED
    BY <1>3, <2>1, EntriesInIs, GetOpenIs
<1> QED
  BY <1>1, <1>2, <1>3 DEF Sound

\* set() in every form.
LEMMA SetIs ==
    ASSUME NEW t, Sound(t), NEW f \in Fields, NEW v \in Values, NEW r, r = SetField(t, f, v)
    PROVE  /\ f \in BadFields => r.table = t /\ r.reply = Raised
           /\ f \notin BadFields =>
                 /\ Sound(r.table) /\ EntriesIn(r.table) = With(EntriesIn(t), f, v)
                 /\ Knows(EntriesIn(t), f) => r.reply = 0
                 /\ ~Knows(EntriesIn(t), f) => r.reply = 1
<1>1. CASE f \in BadFields
  <2>1. r = Result(t, Raised)
    BY <1>1 DEF SetField, SetCompact
  <2> QED
    BY <1>1, <2>1 DEF Result
<1>2. CASE f \notin BadFields /\ IsCompact(t)
  <2> DEFINE s == t.entries
             i == Position(s, f)
             e == Entry(f, v)
  <2>1. s \in Seq(Pairs) /\ Distinct(s) /\ t.form = "compact" /\ DOMAIN t = {"form", "entries"}
    BY <1>2 DEF IsCompact
  <2>2. r = SetCompact(t, f, v)
    BY <2>1 DEF SetField
  <2>3. f \in Fields \ BadFields /\ EntriesIn(t) = EntriesOf(s)
    BY <1>2, EntriesInIs
  <2>4. e = <<f, v>> /\ e \in Pairs /\ e[1] = f
    BY <2>3 DEF Entry, Pairs
  <2>5. \/ i = 0 /\ ~Knows(EntriesOf(s), f)
        \/ i \in 1..Len(s) /\ s[i][1] = f
    <3> HIDE DEF s
    <3> QED
      BY <2>1, PositionIs
  <2>6. CASE ShouldPromote(t, f, v, i)
    <3> DEFINE p == Promote(t)
    <3>1. r = SetChained(p, f, v)
      BY <1>2, <2>2, <2>6 DEF SetCompact
    <3> HIDE DEF p
    <3>2. IsChained(p) /\ ChainLoad(p) /\ ChainEntries(p.buckets) = EntriesOf(s)
      BY <1>2, PromoteOf DEF p
    <3>3. /\ IsChained(r.table) /\ ChainLoad(r.table)
          /\ ChainEntries(r.table.buckets) = With(ChainEntries(p.buckets), f, v)
          /\ Knows(ChainEntries(p.buckets), f) => r.reply = 0
          /\ ~Knows(ChainEntries(p.buckets), f) => r.reply = 1
      BY <2>3, <3>1, <3>2, SetChainedIs
    <3>4. EntriesIn(r.table) = ChainEntries(r.table.buckets)
      BY <3>3, EntriesInIs
    <3> QED
      BY <1>2, <2>3, <3>2, <3>3, <3>4 DEF Sound
  <2>7. CASE ~ShouldPromote(t, f, v, i) /\ i # 0
    <3> DEFINE x == Written(s, i, e)
               u == [t EXCEPT !.entries[i] = e]
    <3>1. r = Result(u, 0)
      BY <1>2, <2>2, <2>7 DEF SetCompact
    <3>2. r.table = u /\ r.reply = 0
      BY <3>1 DEF Result
    <3>3. DOMAIN u = {"form", "entries"} /\ u.form = "compact" /\ u.entries = x
      BY <2>1 DEF Written
    <3>4. i \in 1..Len(s) /\ s[i][1] = f /\ e[1] = s[i][1]
      BY <2>4, <2>5, <2>7
    <3>5. x = Written(s, i, e)
      OBVIOUS
    <3> HIDE DEF s, i, e, x, u
    <3>6. x \in Seq(Pairs) /\ Distinct(x) /\ EntriesOf(x) = Without(EntriesOf(s), e[1]) \cup {e}
      <4>1. s \in Seq(Pairs) /\ Distinct(s) /\ i \in 1..Len(s) /\ e \in Pairs
        BY <2>1, <2>4, <3>4
      <4> QED
        BY ONLY <3>4, <3>5, <4>1, ReplaceIs
    <3>7. EntriesOf(x) = With(EntriesOf(s), f, v)
      BY <2>4, <3>6 DEF With
    <3>8. IsCompact(u)
      BY <3>3, <3>6 DEF IsCompact
    <3>9. EntriesIn(u) = EntriesOf(x)
      BY <3>3, <3>8, EntriesInIs
    <3>10. Knows(EntriesOf(s), f)
      <4>1. s[i] \in EntriesOf(s)
        BY <3>4 DEF EntriesOf
      <4> QED
        BY <3>4, <4>1 DEF Knows
    <3> QED
      BY <1>2, <2>3, <3>2, <3>7, <3>8, <3>9, <3>10 DEF Sound
  <2>8. CASE ~ShouldPromote(t, f, v, i) /\ i = 0
    <3> DEFINE x == Append(s, e)
               u == [t EXCEPT !.entries = Append(@, e)]
    <3>1. r = Result(u, 1)
      BY <1>2, <2>2, <2>8 DEF SetCompact
    <3>2. r.table = u /\ r.reply = 1
      BY <3>1 DEF Result
    <3>3. DOMAIN u = {"form", "entries"} /\ u.form = "compact" /\ u.entries = x
      BY <2>1
    <3>4. ~Knows(EntriesOf(s), f)
      BY <2>5, <2>8
    <3> HIDE DEF s, i, e, u
    <3>5. x \in Seq(Pairs) /\ Distinct(x) /\ EntriesOf(x) = EntriesOf(s) \cup {e}
      BY <2>1, <2>4, <3>4, AppendIs
    <3> HIDE DEF x
    <3>6. EntriesOf(x) = With(EntriesOf(s), f, v)
      <4>1. Without(EntriesOf(s), f) = EntriesOf(s)
        BY <3>4, WithoutNone
      <4> QED
        BY <2>4, <3>5, <4>1 DEF With
    <3>7. IsCompact(u)
      BY <3>3, <3>5 DEF IsCompact
    <3>8. EntriesIn(u) = EntriesOf(x)
      BY <3>3, <3>7, EntriesInIs
    <3> QED
      BY <1>2, <2>3, <3>2, <3>4, <3>6, <3>7, <3>8 DEF Sound
  <2> QED
    BY <2>6, <2>7, <2>8
<1>3. CASE f \notin BadFields /\ IsChained(t) /\ ChainLoad(t)
  <2>1. r = SetChained(t, f, v)
    BY <1>3 DEF SetField, IsChained
  <2>2. f \in Fields \ BadFields
    BY <1>3
  <2>3. /\ IsChained(r.table) /\ ChainLoad(r.table)
        /\ ChainEntries(r.table.buckets) = With(ChainEntries(t.buckets), f, v)
        /\ Knows(ChainEntries(t.buckets), f) => r.reply = 0
        /\ ~Knows(ChainEntries(t.buckets), f) => r.reply = 1
    BY <1>3, <2>1, <2>2, SetChainedIs
  <2>4. EntriesIn(t) = ChainEntries(t.buckets) /\ EntriesIn(r.table) = ChainEntries(r.table.buckets)
    BY <1>3, <2>3, EntriesInIs
  <2> QED
    BY <1>3, <2>3, <2>4 DEF Sound
<1>4. CASE f \notin BadFields /\ IsOpen(t) /\ Load(t)
  <2>1. r = SetOpen(t, f, v)
    BY <1>4 DEF SetField, IsOpen
  <2>2. f \in Fields \ BadFields
    BY <1>4
  <2>3. /\ IsOpen(r.table) /\ Load(r.table)
        /\ SlotEntries(r.table.slots) = With(SlotEntries(t.slots), f, v)
        /\ Knows(SlotEntries(t.slots), f) => r.reply = 0
        /\ ~Knows(SlotEntries(t.slots), f) => r.reply = 1
    BY <1>4, <2>1, <2>2, SetOpenIs
  <2>4. EntriesIn(t) = SlotEntries(t.slots) /\ EntriesIn(r.table) = SlotEntries(r.table.slots)
    BY <1>4, <2>3, EntriesInIs
  <2> QED
    BY <1>4, <2>3, <2>4 DEF Sound
<1> QED
  BY <1>1, <1>2, <1>3, <1>4 DEF Sound

\* delete() in every form; a compact hash does not encode the field it looks for.
LEMMA DeleteIs ==
    ASSUME NEW t, Sound(t), NEW f \in Fields, NEW r, r = DeleteField(t, f)
    PROVE  /\ Sound(r.table)
           /\ \/ f \in BadFields /\ r.table = t /\ r.reply = Raised
              \/ /\ EntriesIn(r.table) = Without(EntriesIn(t), f)
                 /\ Knows(EntriesIn(t), f) => r.reply = 1
                 /\ ~Knows(EntriesIn(t), f) => r.reply = 0
<1>1. CASE IsCompact(t)
  <2> DEFINE s == t.entries
             i == Position(s, f)
  <2>1. s \in Seq(Pairs) /\ Distinct(s) /\ t.form = "compact" /\ DOMAIN t = {"form", "entries"}
    BY <1>1 DEF IsCompact
  <2>2. r = DeleteCompact(t, f)
    BY <2>1 DEF DeleteField
  <2>3. EntriesIn(t) = EntriesOf(s)
    BY <1>1, EntriesInIs
  <2>4. \/ i = 0 /\ ~Knows(EntriesOf(s), f)
        \/ i \in 1..Len(s) /\ s[i][1] = f
    <3> HIDE DEF s
    <3> QED
      BY <2>1, PositionIs
  <2>5. CASE i = 0
    <3>1. r = Result(t, 0)
      BY <2>2, <2>5 DEF DeleteCompact
    <3>2. r.table = t /\ r.reply = 0
      BY <3>1 DEF Result
    <3>3. ~Knows(EntriesIn(t), f)
      BY <2>3, <2>4, <2>5
    <3> QED
      BY <3>2, <3>3, WithoutNone
  <2>6. CASE i # 0
    <3> DEFINE x == RemoveAt(s, i)
               u == [t EXCEPT !.entries = RemoveAt(@, i)]
    <3>1. r = Result(u, 1)
      BY <2>2, <2>6 DEF DeleteCompact
    <3>2. r.table = u /\ r.reply = 1
      BY <3>1 DEF Result
    <3>3. DOMAIN u = {"form", "entries"} /\ u.form = "compact" /\ u.entries = x
      BY <2>1
    <3>4. i \in 1..Len(s) /\ s[i][1] = f
      BY <2>4, <2>6
    <3> HIDE DEF s, i, u
    <3>5. x \in Seq(Pairs) /\ Distinct(x) /\ EntriesOf(x) = Without(EntriesOf(s), f)
      BY <2>1, <3>4, RemoveIs
    <3> HIDE DEF x
    <3>6. IsCompact(u)
      BY <3>3, <3>5 DEF IsCompact
    <3>7. EntriesIn(u) = EntriesOf(x)
      BY <3>3, <3>6, EntriesInIs
    <3>8. Knows(EntriesOf(s), f)
      <4>1. s[i] \in EntriesOf(s)
        BY <3>4 DEF EntriesOf
      <4> QED
        BY <3>4, <4>1 DEF Knows
    <3> QED
      BY <2>3, <3>2, <3>5, <3>6, <3>7, <3>8 DEF Sound
  <2> QED
    BY <2>5, <2>6
<1>2. CASE f \in BadFields /\ ~IsCompact(t)
  <2>1. t.form # "compact"
    BY <1>2 DEF Sound, IsChained, IsOpen
  <2>2. r = Result(t, Raised)
    BY <1>2, <2>1 DEF DeleteField
  <2> QED
    BY <1>2, <2>2 DEF Result
<1>3. CASE f \notin BadFields /\ IsChained(t) /\ ChainLoad(t)
  <2>1. r = DeleteChained(t, f)
    BY <1>3 DEF DeleteField, IsChained
  <2>2. f \in Fields \ BadFields
    BY <1>3
  <2>3. /\ IsChained(r.table) /\ ChainLoad(r.table)
        /\ ChainEntries(r.table.buckets) = Without(ChainEntries(t.buckets), f)
        /\ Knows(ChainEntries(t.buckets), f) => r.reply = 1
        /\ ~Knows(ChainEntries(t.buckets), f) => r.reply = 0
    BY <1>3, <2>1, <2>2, DeleteChainedIs
  <2>4. EntriesIn(t) = ChainEntries(t.buckets) /\ EntriesIn(r.table) = ChainEntries(r.table.buckets)
    BY <1>3, <2>3, EntriesInIs
  <2> QED
    BY <2>3, <2>4 DEF Sound
<1>4. CASE f \notin BadFields /\ IsOpen(t) /\ Load(t)
  <2>1. r = DeleteOpen(t, f)
    BY <1>4 DEF DeleteField, IsOpen
  <2>2. f \in Fields \ BadFields
    BY <1>4
  <2>3. /\ IsOpen(r.table) /\ Load(r.table)
        /\ SlotEntries(r.table.slots) = Without(SlotEntries(t.slots), f)
        /\ Knows(SlotEntries(t.slots), f) => r.reply = 1
        /\ ~Knows(SlotEntries(t.slots), f) => r.reply = 0
    BY <1>4, <2>1, <2>2, DeleteOpenIs
  <2>4. EntriesIn(t) = SlotEntries(t.slots) /\ EntriesIn(r.table) = SlotEntries(r.table.slots)
    BY <1>4, <2>3, EntriesInIs
  <2> QED
    BY <2>3, <2>4 DEF Sound
<1> QED
  BY <1>1, <1>2, <1>3, <1>4 DEF Sound

-----------------------------------------------------------------------------
(***************************************************************************)
(* DataStore.hdel: after the fields fs[1..k], n of them gone from the      *)
(* entries E, all k unless the next one raised.                            *)
(***************************************************************************)
Gone(E, fs, n) == {e \in E : \A i \in 1..n : e[1] # fs[i]}
Dropped(E, fs, n) == {f \in {fs[i] : i \in 1..n} : Knows(E, f)}

HdelState(E, fs, k, r) ==
    /\ Sound(r.table)
    /\ \E n \in 0..k :
          /\ EntriesIn(r.table) = Gone(E, fs, n)
          /\ n < k => fs[n + 1] \in BadFields /\ r.reply = Raised
          /\ n = k => r.reply = Cardinality(Dropped(E, fs, n))

\* One field more.
LEMMA HdelStepIs ==
    ASSUME NEW E, NEW fs, NEW m \in Nat, NEW r, HdelState(E, fs, m, r),
           \A i \in 1..(m + 1) : fs[i] \in Fields,
           NEW k, k = m + 1, NEW s, s = HdelField(r, fs[k])
    PROVE  HdelState(E, fs, k, s)
<1>1. PICK n \in 0..m :
          /\ EntriesIn(r.table) = Gone(E, fs, n)
          /\ n < m => fs[n + 1] \in BadFields /\ r.reply = Raised
          /\ n = m => r.reply = Cardinality(Dropped(E, fs, n))
  BY DEF HdelState
<1>2. Sound(r.table)
  BY DEF HdelState
<1> DEFINE f == fs[k]
           d == DeleteField(r.table, f)
<1>3. f \in Fields /\ k \in Nat
  OBVIOUS
<1>4. IsFiniteSet(Dropped(E, fs, m)) /\ Cardinality(Dropped(E, fs, m)) \in Nat
  <2>1. Dropped(E, fs, m) \subseteq Fields
    BY DEF Dropped
  <2>2. IsFiniteSet(Dropped(E, fs, m))
    BY <2>1, FS_Subset, HashTableAssumption
  <2> QED
    BY <2>2, FS_CardinalityType
<1>5. CASE n < m
  <2>1. s = r
    BY <1>1, <1>5 DEF HdelField
  <2>2. n \in 0..k /\ n < k /\ n # k
    BY <1>5
  <2> QED
    BY <1>1, <1>2, <1>5, <2>1, <2>2 DEF HdelState
<1>6. CASE n = m
  <2>1. r.reply # Raised /\ r.reply \in Nat
    BY <1>1, <1>4, <1>6 DEF Raised
  <2>2. s = Result(d.table, IF d.reply = Raised THEN Raised ELSE r.reply + d.reply)
    BY <2>1 DEF HdelField
  <2>3. s.table = d.table /\ s.reply = IF d.reply = Raised THEN Raised ELSE r.reply + d.reply
    BY <2>2 DEF Result
  <2> HIDE DEF d
  <2>4. /\ Sound(d.table)
        /\ \/ f \in BadFields /\ d.table = r.table /\ d.reply = Raised
           \/ /\ EntriesIn(d.table) = Without(EntriesIn(r.table), f)
              /\ Knows(EntriesIn(r.table), f) => d.reply = 1
              /\ ~Knows(EntriesIn(r.table), f) => d.reply = 0
    BY <1>2, <1>3, DeleteIs DEF d
  <2>5. CASE f \in BadFields /\ d.table = r.table /\ d.reply = Raised
    <3>1. m \in 0..k /\ m < k /\ m # k /\ fs[m + 1] = f /\ s.reply = Raised /\ s.table = r.table
      BY <2>3, <2>5
    <3> QED
      BY <1>1, <1>2, <1>6, <2>5, <3>1 DEF HdelState
  <2>6. CASE /\ EntriesIn(d.table) = Without(EntriesIn(r.table), f)
             /\ Knows(EntriesIn(r.table), f) => d.reply = 1
             /\ ~Knows(EntriesIn(r.table), f) => d.reply = 0
    <3>1. EntriesIn(r.table) = Gone(E, fs, m)
      BY <1>1, <1>6
    <3>2. 1..k = (1..m) \cup {k}
      OBVIOUS
    <3>3. Without(Gone(E, fs, m), f) = Gone(E, fs, k)
      BY <3>2 DEF Without, Gone
    <3>4. d.reply \in {0, 1} /\ s.reply = r.reply + d.reply
      BY <2>3, <2>6 DEF Raised
    <3>5. Cardinality(Dropped(E, fs, k)) = r.reply + d.reply
      <4>1. CASE Knows(Gone(E, fs, m), f)
        <5>1. PICK e \in E : e[1] = f /\ \A i \in 1..m : e[1] # fs[i]
          BY <4>1 DEF Knows, Gone
        <5>2. Knows(E, f) /\ f \notin Dropped(E, fs, m)
          BY <5>1 DEF Knows, Dropped
        <5>3. Dropped(E, fs, k) = Dropped(E, fs, m) \cup {f}
          BY <3>2, <5>2 DEF Dropped
        <5>4. Cardinality(Dropped(E, fs, k)) = Cardinality(Dropped(E, fs, m)) + 1
          BY <1>4, <5>2, <5>3, FS_AddElement
        <5> QED
          BY <1>1, <1>6, <2>6, <3>1, <4>1, <5>4
      <4>2. CASE ~Knows(Gone(E, fs, m), f)
        <5>1. Knows(E, f) => f \in {fs[i] : i \in 1..m}
          BY <4>2 DEF Knows, Gone
        <5>2. Dropped(E, fs, k) = Dropped(E, fs, m)
          BY <3>2, <5>1 DEF Dropped
        <5>3. d.reply = 0 /\ r.reply = Cardinality(Dropped(E, fs, m))
          BY <1>1, <1>6, <2>6, <3>1, <4>2
        <5> QED
          BY <1>4, <5>2, <5>3
      <4> QED
        BY <4>1, <4>2
    <3>6. k \in 0..k /\ ~(k < k)
      OBVIOUS
    <3> QED
      BY <2>3, <2>4, <2>6, <3>1, <3>3, <3>4, <3>5, <3>6 DEF HdelState
  <2> QED
    BY <2>4, <2>5, <2>6
<1> QED
  BY <1>1, <1>5, <1>6

\* The whole list.
LEMMA HdelFieldsIs ==
    ASSUME NEW t, Sound(t), NEW fs \in Seq(Fields), NEW r, r = HdelFields(t, fs)
    PROVE  HdelState(EntriesIn(t), fs, Len(fs), r)
<1> DEFINE L == Len(fs)
           E == EntriesIn(t)
<1>1. L \in Nat /\ DOMAIN fs = 1..L /\ \A i \in 1..L : fs[i] \in Fields
  OBVIOUS
<1>2. r = Final("hdel", Result(t, 0), fs)
  BY <1>1, HdelIs
<1> HIDE DEF L, E
<1>3. PICK st : States(st, "hdel", Result(t, 0), fs) /\ Final("hdel", Result(t, 0), fs) = st[L]
  BY <1>1, FinalIs DEF L
<1>4. /\ st[0] = Result(t, 0)
      /\ \A n \in 1..L : st[n] = HdelField(st[n - 1], fs[n])
  BY <1>3 DEF States, L, Does
<1> DEFINE Good(n) == HdelState(E, fs, n, st[n])
           Bad == {n \in 0..L : ~Good(n)}
<1>5. Good(0)
  <2> DEFINE s == st[0]
  <2>1. s.table = t /\ s.reply = 0
    BY <1>4 DEF Result
  <2>2. Gone(E, fs, 0) = E /\ Dropped(E, fs, 0) = {}
    BY DEF Gone, Dropped
  <2>3. Cardinality({}) = 0
    BY FS_EmptySet
  <2> HIDE DEF s
  <2>4. EntriesIn(s.table) = Gone(E, fs, 0) /\ s.reply = Cardinality(Dropped(E, fs, 0)) /\ Sound(s.table)
    BY <2>1, <2>2, <2>3 DEF E
  <2>5. 0 \in 0..0 /\ ~(0 < 0)
    OBVIOUS
  <2>6. HdelState(E, fs, 0, s)
    BY <2>4, <2>5 DEF HdelState
  <2> QED
    BY <2>6 DEF s
<1>6. ASSUME NEW n \in 1..L, Good(n - 1) PROVE Good(n)
  <2> DEFINE m == n - 1
             u == st[m]
             x == st[n]
  <2>1. m \in Nat /\ n = m + 1 /\ HdelState(E, fs, m, u)
    <3>1. m \in Nat /\ n = m + 1
      BY <1>1
    <3> QED
      BY <1>6, <3>1
  <2>2. x = HdelField(u, fs[n])
    BY <1>4
  <2>3. \A i \in 1..(m + 1) : fs[i] \in Fields
    BY <1>1, <2>1
  <2> HIDE DEF m, u, x
  <2>4. HdelState(E, fs, n, x)
    BY <2>1, <2>2, <2>3, HdelStepIs
  <2> QED
    BY <2>4 DEF x
<1>7. Bad = {}
  <2>1. Bad \subseteq 0..L /\ 0 \notin Bad
    BY <1>5
  <2>2. \A n \in 1..L : n \in Bad => n - 1 \in Bad
    <3> TAKE n \in 1..L
    <3>1. n - 1 \in 0..L
      BY <1>1
    <3> HIDE DEF Good
    <3> QED
      BY <1>6, <3>1
  <2> HIDE DEF Bad
  <2> QED
    BY <1>1, <2>1, <2>2, NoneBad
<1>8. Good(L)
  <2>1. L \in 0..L
    BY <1>1
  <2> HIDE DEF Good
  <2> QED
    BY <1>7, <2>1
<1> QED
  BY <1>2, <1>3, <1>8 DEF E, L

-----------------------------------------------------------------------------
(***************************************************************************)
(* The contents as a function.                                             *)
(***************************************************************************)
Found(t) == [f \in Fields |-> IF f \in BadFields THEN Missing ELSE Get(t, f)]

\* The value found for a field is the one stored.
LEMMA FoundIs ==
    ASSUME NEW t, Sound(t), NEW f \in Fields
    PROVE  /\ Knows(EntriesIn(t), f) => <<f, Found(t)[f]>> \in EntriesIn(t)
           /\ Found(t)[f] = Missing <=> ~Knows(EntriesIn(t), f)
           /\ \A v : <<f, v>> \in EntriesIn(t) => Found(t)[f] = v
<1>1. EntriesIn(t) \subseteq Pairs /\ OnePerField(EntriesIn(t))
  BY EntriesAre
<1>2. ASSUME f \in BadFields PROVE ~Knows(EntriesIn(t), f) /\ Found(t)[f] = Missing
  <2>1. \A e \in EntriesIn(t) : e[1] \notin BadFields
    BY <1>1 DEF Pairs
  <2> QED
    BY <1>2, <2>1 DEF Knows, Found
<1>3. ASSUME f \notin BadFields
      PROVE  /\ Knows(EntriesIn(t), f) => <<f, Found(t)[f]>> \in EntriesIn(t)
             /\ ~Knows(EntriesIn(t), f) => Found(t)[f] = Missing
  <2>1. Found(t)[f] = Get(t, f) /\ f \in Fields \ BadFields
    BY <1>3 DEF Found
  <2> QED
    BY <2>1, GetIs
<1>4. Knows(EntriesIn(t), f) => <<f, Found(t)[f]>> \in EntriesIn(t)
  BY <1>2, <1>3
<1>5. ASSUME Knows(EntriesIn(t), f) PROVE Found(t)[f] # Missing
  <2> DEFINE v == Found(t)[f]
  <2>1. <<f, v>> \in Pairs
    BY <1>1, <1>4, <1>5
  <2> HIDE DEF v
  <2>2. v \in Values
    BY <2>1 DEF Pairs
  <2> QED
    BY <2>2, HashTableAssumption DEF v
<1>6. ASSUME NEW v, <<f, v>> \in EntriesIn(t) PROVE Found(t)[f] = v
  <2> DEFINE d == <<f, v>>
             w == Found(t)[f]
             e == <<f, w>>
  <2>1. d[1] = f /\ e[1] = f /\ d[2] = v /\ e[2] = w /\ d \in EntriesIn(t)
    BY <1>6
  <2> HIDE DEF d
  <2>2. Knows(EntriesIn(t), f)
    BY <2>1 DEF Knows
  <2>3. e \in EntriesIn(t)
    BY <1>4, <2>2
  <2> HIDE DEF e, w
  <2>4. d = e
    BY <1>1, <2>1, <2>3 DEF OnePerField
  <2> QED
    BY <2>1, <2>4 DEF w
<1> QED
  BY <1>2, <1>3, <1>4, <1>5, <1>6

\* An entry for f replaced.
LEMMA FoundSet ==
    ASSUME NEW t, Sound(t), NEW u, Sound(u), NEW f \in Fields, NEW v,
           EntriesIn(u) = With(EntriesIn(t), f, v), NEW g \in Fields
    PROVE  Found(u)[g] = IF g = f THEN v ELSE Found(t)[g]
<1> DEFINE w == Found(t)[g]
           D == EntriesIn(t)
           E == EntriesIn(u)
<1>1. /\ Knows(D, g) => <<g, w>> \in D
      /\ w = Missing <=> ~Knows(D, g)
  BY FoundIs
<1>2. /\ Found(u)[g] = Missing <=> ~Knows(E, g)
      /\ \A x : <<g, x>> \in E => Found(u)[g] = x
  BY FoundIs
<1>3. E = Without(D, f) \cup {<<f, v>>}
  BY DEF With
<1> HIDE DEF w, D, E
<1>4. CASE g = f
  <2>1. <<g, v>> \in E
    BY <1>3, <1>4
  <2> QED
    BY <1>2, <1>4, <2>1
<1>5. CASE g # f /\ Knows(D, g)
  <2> DEFINE x == <<g, w>>
  <2>1. x \in D /\ x[1] = g
    BY <1>1, <1>5
  <2>2. x \in E
    <3> HIDE DEF x
    <3> QED
      BY <1>3, <1>5, <2>1 DEF Without
  <2>3. Found(u)[g] = w
    BY <1>2, <2>2
  <2> QED
    BY <1>5, <2>3 DEF w
<1>6. CASE g # f /\ ~Knows(D, g)
  <2>1. \A e \in D : e[1] # g
    BY <1>6 DEF Knows
  <2>2. <<f, v>>[1] # g
    BY <1>6
  <2>3. \A e \in E : e[1] # g
    BY <1>3, <2>1, <2>2 DEF Without
  <2>4. ~Knows(E, g)
    BY <2>3 DEF Knows
  <2>5. Found(u)[g] = Missing /\ w = Missing
    BY <1>1, <1>2, <1>6, <2>4
  <2> QED
    BY <1>6, <2>5 DEF w
<1> QED
  BY <1>4, <1>5, <1>6

\* The first n fields of a list deleted.
LEMMA FoundGone ==
    ASSUME NEW t, Sound(t), NEW u, Sound(u), NEW fs, NEW n,
           EntriesIn(u) = Gone(EntriesIn(t), fs, n), NEW g \in Fields
    PROVE  Found(u)[g] = IF g \in Dropped(EntriesIn(t), fs, n) THEN Missing ELSE Found(t)[g]
<1> DEFINE w == Found(t)[g]
           D == EntriesIn(t)
           E == EntriesIn(u)
<1>1. /\ Knows(D, g) => <<g, w>> \in D
      /\ w = Missing <=> ~Knows(D, g)
  BY FoundIs
<1>2. /\ Found(u)[g] = Missing <=> ~Knows(E, g)
      /\ \A x : <<g, x>> \in E => Found(u)[g] = x
  BY FoundIs
<1>3. E = Gone(D, fs, n)
  OBVIOUS
<1> HIDE DEF w, D, E
<1>4. CASE g \in Dropped(D, fs, n)
  <2>1. \A e \in E : e[1] # g
    BY <1>3, <1>4 DEF Gone, Dropped
  <2>2. ~Knows(E, g)
    BY <2>1 DEF Knows
  <2> QED
    BY <1>2, <1>4, <2>2 DEF D
<1>5. CASE g \notin Dropped(D, fs, n) /\ Knows(D, g)
  <2> DEFINE x == <<g, w>>
  <2>1. x \in D /\ x[1] = g
    BY <1>1, <1>5
  <2>2. \A i \in 1..n : fs[i] # g
    BY <1>5 DEF Dropped
  <2>3. x \in E
    <3> HIDE DEF x
    <3> QED
      BY <1>3, <2>1, <2>2 DEF Gone
  <2>4. Found(u)[g] = w
    BY <1>2, <2>3
  <2> QED
    BY <1>5, <2>4 DEF w, D
<1>6. CASE g \notin Dropped(D, fs, n) /\ ~Knows(D, g)
  <2>1. \A e \in E : e[1] # g
    BY <1>3, <1>6 DEF Knows, Gone
  <2>2. ~Knows(E, g)
    BY <2>1 DEF Knows
  <2>3. Found(u)[g] = Missing /\ w = Missing
    BY <1>1, <1>2, <1>6, <2>2
  <2> QED
    BY <1>6, <2>3 DEF w, D
<1> QED
  BY <1>4, <1>5, <1>6

-----------------------------------------------------------------------------
(***************************************************************************)
(* The steps.                                                              *)
(***************************************************************************)
Inv == kind \in Kinds /\ Sound(table)

\* The emptied hash.
LEMMA NewCompactIs == Sound(NewCompact) /\ EntriesIn(NewCompact) = {}
<1>1. /\ DOMAIN NewCompact = {"form", "entries"} /\ NewCompact.form = "compact"
      /\ NewCompact.entries = <<>>
  BY DEF NewCompact
<1>2. <<>> \in Seq(Pairs) /\ Distinct(<<>>) /\ EntriesOf(<<>>) = {}
  BY DEF Distinct, EntriesOf
<1>3. IsCompact(NewCompact)
  BY <1>1, <1>2 DEF IsCompact
<1> QED
  BY <1>1, <1>2, <1>3, EntriesInIs DEF Sound

\* The new structure of each kind.
LEMMA NewTableIs ==
    ASSUME kind \in Kinds
    PROVE  Sound(NewTable) /\ EntriesIn(NewTable) = {}
<1> DEFINE c == INITIAL_CAPACITY
<1>1. PowerOfTwo(c) /\ c >= INITIAL_CAPACITY /\ c >= 4 /\ c \in Nat
  BY HashTableAssumption DEF PowerOfTwo
<1>2. kind \in {"open", "chained", "hash"}
  BY HashTableAssumption
<1>3. CASE kind = "open"
  <2> DEFINE u == NewOpen(c)
  <2>1. /\ IsOpen(u) /\ u.capacity = c /\ u.liveCount = 0 /\ u.used = 0 /\ SlotEntries(u.slots) = {}
    BY <1>1, NewOpenIs
  <2>2. Load(u)
    BY <1>1, <2>1 DEF Load, Crowded
  <2>3. EntriesIn(u) = {} /\ Sound(u)
    BY <2>1, <2>2, EntriesInIs DEF Sound
  <2>4. NewTable = u
    BY <1>3 DEF NewTable
  <2> QED
    BY <2>3, <2>4
<1>4. CASE kind = "chained"
  <2> DEFINE u == NewChained(c)
  <2>1. IsChained(u) /\ u.capacity = c /\ ChainEntries(u.buckets) = {}
    BY <1>1, NewChainedIs
  <2>2. ChainLoad(u)
    BY <2>1 DEF ChainLoad
  <2>3. EntriesIn(u) = {} /\ Sound(u)
    BY <2>1, <2>2, EntriesInIs DEF Sound
  <2>4. NewTable = u
    BY <1>4 DEF NewTable
  <2> QED
    BY <2>3, <2>4
<1>5. CASE kind = "hash"
  <2>1. NewTable = NewCompact
    BY <1>5 DEF NewTable
  <2> QED
    BY <2>1, NewCompactIs
<1> QED
  BY <1>2, <1>3, <1>4, <1>5

\* What the calls find is what get() answers.
LEMMA ContentsFound == Contents = Found(table) /\ Contents' = Found(table')
BY DEF Contents, Found

\* A set() is the map's.
LEMMA SetStep ==
    ASSUME Inv, Set
    PROVE  Sound(table)' /\ Abstract!MapNext
<1>1. PICK f \in Fields, v \in Values : Return({SetField(table, f, v)}, "set", <<f>>, v)
  BY DEF Set
<1> DEFINE r == SetField(table, f, v)
<1>2. /\ table' = r.table /\ reply' = r.reply
      /\ call' = [op |-> "set", fields |-> <<f>>, value |-> v]
  BY <1>1 DEF Return
<1>3. /\ f \in BadFields => r.table = table /\ r.reply = Raised
      /\ f \notin BadFields =>
            /\ Sound(r.table) /\ EntriesIn(r.table) = With(EntriesIn(table), f, v)
            /\ Knows(EntriesIn(table), f) => r.reply = 0
            /\ ~Knows(EntriesIn(table), f) => r.reply = 1
  BY SetIs DEF Inv
<1> HIDE DEF r
<1>4. Sound(table')
  BY <1>2, <1>3 DEF Inv
<1>5. reply' = IF f \in BadFields THEN Raised ELSE IF Contents[f] = Missing THEN 1 ELSE 0
  <2>1. Contents[f] = Missing <=> ~Knows(EntriesIn(table), f)
    BY ContentsFound, FoundIs DEF Inv
  <2> QED
    BY <1>2, <1>3, <2>1
<1>6. Contents' = IF f \in BadFields THEN Contents ELSE [Contents EXCEPT ![f] = v]
  <2>1. CASE f \in BadFields
    <3>1. table' = table
      BY <1>2, <1>3, <2>1
    <3> QED
      BY <2>1, <3>1, ContentsFound
  <2>2. CASE f \notin BadFields
    <3>1. EntriesIn(table') = With(EntriesIn(table), f, v)
      BY <1>2, <1>3, <2>2
    <3>2. \A g \in Fields : Found(table')[g] = IF g = f THEN v ELSE Found(table)[g]
      BY <1>4, <3>1, FoundSet DEF Inv
    <3>3. \A t : DOMAIN Found(t) = Fields /\ Found(t) = [g \in Fields |-> Found(t)[g]]
      BY DEF Found
    <3>4. Found(table') = [Found(table) EXCEPT ![f] = v]
      BY <3>2, <3>3
    <3> QED
      BY <2>2, <3>4, ContentsFound
  <2> QED
    BY <2>1, <2>2
<1>7. Abstract!MapSet(f, v)
  BY <1>2, <1>5, <1>6 DEF Abstract!MapSet, Abstract!Raised, Raised
<1>8. Abstract!MapNext
  BY <1>7 DEF Abstract!MapNext
<1> QED
  BY <1>4, <1>8

\* HashMap counts as this module does.
LEMMA SameCount ==
    ASSUME NEW S
    PROVE  Abstract!Cardinality(S) = Cardinality(S)
BY DEF Abstract!Cardinality, Cardinality

\* A deletion of a list of fields is the map's.
LEMMA DeletedList ==
    ASSUME Inv, NEW fs \in Abstract!FieldLists,
           NEW r, HdelState(EntriesIn(table), fs, Len(fs), r),
           Sound(table'), EntriesIn(table') = EntriesIn(r.table), reply' = r.reply,
           call' = [op |-> "delete", fields |-> fs, value |-> Missing]
    PROVE  Abstract!MapNext
<1> DEFINE E == EntriesIn(table)
<1>1. PICK n \in 0..Len(fs) :
          /\ EntriesIn(table') = Gone(E, fs, n)
          /\ n < Len(fs) => fs[n + 1] \in BadFields /\ r.reply = Raised
          /\ n = Len(fs) => r.reply = Cardinality(Dropped(E, fs, n))
  BY DEF HdelState
<1>2. Len(fs) \in Nat /\ \A i \in 1..Len(fs) : fs[i] \in Fields
  BY DEF Abstract!FieldLists
<1> DEFINE Removed(k) == {f \in {fs[i] : i \in 1..k} : Contents[f] # Missing}
<1>3. Removed(n) = Dropped(E, fs, n)
  <2>1. \A f \in {fs[i] : i \in 1..n} : f \in Fields
    BY <1>2
  <2>2. \A f \in Fields : Contents[f] # Missing <=> Knows(E, f)
    BY ContentsFound, FoundIs DEF Inv
  <2> HIDE DEF E
  <2> QED
    BY <2>1, <2>2 DEF Dropped
<1>4. Contents' = [f \in Fields |-> IF f \in Removed(n) THEN Missing ELSE Contents[f]]
  <2>1. \A g \in Fields :
            Found(table')[g] = IF g \in Dropped(E, fs, n) THEN Missing ELSE Found(table)[g]
    BY <1>1, FoundGone DEF Inv
  <2>2. \A t : Found(t) = [g \in Fields |-> Found(t)[g]]
    BY DEF Found
  <2> HIDE DEF Removed, E
  <2>3. Found(table') = [g \in Fields |-> IF g \in Removed(n) THEN Missing ELSE Found(table)[g]]
    BY <1>3, <2>1, <2>2
  <2> QED
    BY <2>3, ContentsFound
<1>5. IF n < Len(fs) THEN fs[n + 1] \in BadFields /\ reply' = Raised
      ELSE reply' = Cardinality(Removed(n))
  <2> HIDE DEF Removed, E
  <2>1. CASE n < Len(fs)
    BY <1>1, <2>1
  <2>2. CASE ~(n < Len(fs))
    <3>1. n = Len(fs)
      BY <1>2, <2>2
    <3> QED
      BY <1>1, <1>3, <2>2, <3>1
  <2> QED
    BY <2>1, <2>2
<1>6. \E k \in 0..Len(fs) :
         /\ IF k < Len(fs) THEN fs[k + 1] \in BadFields /\ reply' = Abstract!Raised
            ELSE reply' = Abstract!Cardinality(Removed(k))
         /\ Contents' = [f \in Fields |-> IF f \in Removed(k) THEN Missing ELSE Contents[f]]
  <2> HIDE DEF Removed
  <2>1. Abstract!Cardinality(Removed(n)) = Cardinality(Removed(n)) /\ Abstract!Raised = Raised
    BY SameCount DEF Abstract!Raised, Raised
  <2> QED
    BY <1>4, <1>5, <2>1
<1>7. Abstract!MapDelete(fs)
  BY <1>6, Zenon DEF Abstract!MapDelete
<1> QED
  BY <1>7 DEF Abstract!MapNext

\* A list of one field, or of two.
LEMMA ListsAre ==
    ASSUME NEW fs \in [1..1 -> Fields] \cup [1..2 -> Fields]
    PROVE  fs \in Seq(Fields) /\ fs \in Abstract!FieldLists
<1>1. fs \in Seq(Fields)
  BY SeqDef
<1> QED
  BY <1>1 DEF Abstract!FieldLists

\* A delete() of a table is the map's.
LEMMA DeleteStep ==
    ASSUME Inv, Delete
    PROVE  Sound(table)' /\ Abstract!MapNext
<1>1. PICK f \in Fields : Return({DeleteField(table, f)}, "delete", <<f>>, Missing)
  BY DEF Delete
<1> DEFINE d == DeleteField(table, f)
           fs == <<f>>
           q == Result(table, 0)
           s == HdelField(q, f)
           E == EntriesIn(table)
<1>2. /\ table' = d.table /\ reply' = d.reply
      /\ call' = [op |-> "delete", fields |-> fs, value |-> Missing]
  BY <1>1 DEF Return
<1>3. /\ Sound(d.table)
      /\ d.reply \in {Raised, 0, 1}
  BY DeleteIs DEF Inv
<1>4. q.table = table /\ q.reply = 0
  BY DEF Result
<1>5. s = Result(d.table, IF d.reply = Raised THEN Raised ELSE q.reply + d.reply)
  BY <1>4 DEF HdelField, Raised
<1>6. s.table = d.table /\ s.reply = d.reply
  BY <1>3, <1>4, <1>5 DEF Result
<1>7. fs[1] = f /\ Len(fs) = 1 /\ fs \in [1..1 -> Fields]
  OBVIOUS
<1> HIDE DEF d, fs, q, E
<1>8. HdelState(E, fs, 0, q)
  <2>1. Gone(E, fs, 0) = E /\ Dropped(E, fs, 0) = {} /\ Cardinality({}) = 0
    BY FS_EmptySet DEF Gone, Dropped
  <2>2. EntriesIn(q.table) = Gone(E, fs, 0) /\ q.reply = Cardinality(Dropped(E, fs, 0))
    BY <1>4, <2>1 DEF E
  <2>3. 0 \in 0..0 /\ ~(0 < 0)
    OBVIOUS
  <2> QED
    BY <1>4, <2>2, <2>3 DEF HdelState, Inv
<1>9. HdelState(E, fs, 1, s)
  <2> DEFINE m == 0
             k == 1
  <2>1. m \in Nat /\ k = m + 1 /\ HdelState(E, fs, m, q) /\ \A i \in 1..(m + 1) : fs[i] \in Fields
    BY <1>7, <1>8
  <2>2. s = HdelField(q, fs[k])
    BY <1>7
  <2> HIDE DEF m, k, s
  <2>3. HdelState(E, fs, k, s)
    BY <2>1, <2>2, HdelStepIs
  <2> QED
    BY <2>3 DEF k
<1> HIDE DEF s
<1>10. fs \in Abstract!FieldLists
  BY <1>7, ListsAre
<1>11. HdelState(EntriesIn(table), fs, Len(fs), s)
  BY <1>7, <1>9 DEF E
<1>12. Sound(table') /\ EntriesIn(table') = EntriesIn(s.table) /\ reply' = s.reply
  BY <1>2, <1>3, <1>6
<1>13. Abstract!MapNext
  BY <1>2, <1>10, <1>11, <1>12, DeletedList
<1> QED
  BY <1>12, <1>13

\* An HDEL is the map's; a hash that it empties starts again as a compact one.
LEMMA HdelStep ==
    ASSUME Inv, Hdel
    PROVE  Sound(table)' /\ Abstract!MapNext
<1>1. PICK fs \in [1..1 -> Fields] \cup [1..2 -> Fields] :
          Return({IF r.reply # Raised /\ Size(r.table) = 0 THEN Result(NewCompact, r.reply) ELSE r :
                     r \in {HdelFields(table, fs)}}, "delete", fs, Missing)
  BY DEF Hdel
<1> DEFINE r == HdelFields(table, fs)
           u == IF r.reply # Raised /\ Size(r.table) = 0 THEN Result(NewCompact, r.reply) ELSE r
<1>2. /\ table' = u.table /\ reply' = u.reply
      /\ call' = [op |-> "delete", fields |-> fs, value |-> Missing]
  BY <1>1 DEF Return
<1>3. fs \in Seq(Fields) /\ fs \in Abstract!FieldLists
  BY ListsAre
<1>4. HdelState(EntriesIn(table), fs, Len(fs), r)
  BY <1>3, HdelFieldsIs DEF Inv
<1> HIDE DEF r
<1>5. Sound(r.table)
  BY <1>4 DEF HdelState
<1>6. u.reply = r.reply /\ Sound(u.table) /\ EntriesIn(u.table) = EntriesIn(r.table)
  <2>1. CASE r.reply # Raised /\ Size(r.table) = 0
    <3>1. u.table = NewCompact /\ u.reply = r.reply
      BY <2>1 DEF Result
    <3>2. EntriesIn(r.table) = {}
      BY <1>5, <2>1, EntriesAre
    <3> QED
      BY <3>1, <3>2, NewCompactIs
  <2>2. CASE ~(r.reply # Raised /\ Size(r.table) = 0)
    BY <1>5, <2>2
  <2> QED
    BY <2>1, <2>2
<1> HIDE DEF u
<1>7. Sound(table') /\ EntriesIn(table') = EntriesIn(r.table) /\ reply' = r.reply
  BY <1>2, <1>6
<1>8. Abstract!MapNext
  BY <1>2, <1>3, <1>4, <1>7, DeletedList
<1> QED
  BY <1>7, <1>8

-----------------------------------------------------------------------------
(***************************************************************************)
(* The theorems.                                                           *)
(***************************************************************************)

\* Inv holds at the start and stays.
LEMMA InvInit ==
    ASSUME Init
    PROVE  Inv /\ EntriesIn(table) = {}
<1>1. kind \in Kinds /\ table = NewTable
  BY DEF Init
<1> QED
  BY <1>1, NewTableIs DEF Inv

LEMMA InvNext ==
    ASSUME Inv, [Next]_vars
    PROVE  Inv' /\ [Abstract!MapNext]_(Abstract!mapVars)
<1>1. CASE Set /\ UNCHANGED kind
  BY <1>1, SetStep DEF Inv
<1>2. CASE Delete /\ UNCHANGED kind
  BY <1>2, DeleteStep DEF Inv
<1>3. CASE Hdel /\ UNCHANGED kind
  BY <1>3, HdelStep DEF Inv
<1>4. CASE UNCHANGED vars
  <2>1. kind' = kind /\ table' = table /\ call' = call /\ reply' = reply
    BY <1>4 DEF vars
  <2>2. Contents' = Contents
    BY <2>1, ContentsFound
  <2> QED
    BY <2>1, <2>2 DEF Inv, Abstract!mapVars
<1> QED
  BY <1>1, <1>2, <1>3, <1>4 DEF Next

\* Inductive: whatever the form, its shape, its counters and its load.
THEOREM InvAlways == Spec => []Inv
<1>1. Init => Inv
  BY InvInit
<1>2. Inv /\ [Next]_vars => Inv'
  BY InvNext
<1> QED
  BY <1>1, <1>2, PTL DEF Spec

\* The counters are those of the slots and chains.
THEOREM CountersMatchAlways == Spec => []CountersMatch
<1>1. ASSUME Inv PROVE CountersMatch
  <2>1. CASE IsCompact(table)
    BY <2>1 DEF IsCompact, CountersMatch
  <2>2. CASE IsChained(table)
    <3>1. table.form = "chained" /\ table.liveCount = Len(ItemsChained(table))
      BY <2>2, ItemsChainedIs DEF IsChained
    <3> QED
      BY <3>1 DEF CountersMatch
  <2>3. CASE IsOpen(table)
    <3>1. table.form = "open" /\ table.liveCount = Len(ItemsOpen(table))
      BY <2>3, ItemsOpenIs DEF IsOpen
    <3>2. table.used = Cardinality({i \in DOMAIN table.slots : table.slots[i] # SLOT_EMPTY})
      BY <2>3 DEF IsOpen, NonEmpty
    <3> QED
      BY <3>1, <3>2 DEF CountersMatch
  <2> QED
    BY <1>1, <2>1, <2>2, <2>3 DEF Inv, Sound
<1> QED
  BY <1>1, InvAlways, PTL

\* items() lists what get() finds, each field once.
THEOREM ItemsAreContentsAlways == Spec => []ItemsAreContents
<1>1. ASSUME Inv PROVE ItemsAreContents
  <2> DEFINE s == Items(table)
             E == EntriesIn(table)
  <2>1. s \in Seq(Pairs) /\ Distinct(s) /\ EntriesOf(s) = E
    BY <1>1, ItemsIs DEF Inv
  <2>2. DOMAIN s = 1..Len(s)
    BY <2>1
  <2>3. \A f \in Fields :
           /\ Knows(E, f) => <<f, Contents[f]>> \in E
           /\ Contents[f] = Missing <=> ~Knows(E, f)
    BY <1>1, ContentsFound, FoundIs DEF Inv
  <2> HIDE DEF s, E
  <2>4. \A e : e \in E <=> \E i \in DOMAIN s : s[i] = e
    BY <2>1, <2>2 DEF EntriesOf
  <2>5. \A i, j \in DOMAIN s : s[i][1] = s[j][1] => i = j
    BY <2>1, <2>2 DEF Distinct
  <2>6. ASSUME NEW f \in Fields \ BadFields
        PROVE  IF Contents[f] = Missing THEN \A i \in DOMAIN s : s[i][1] # f
               ELSE \E i \in DOMAIN s : s[i] = <<f, Contents[f]>>
    <3>1. CASE Contents[f] = Missing
      <4>1. \A e \in E : e[1] # f
        BY <2>3, <3>1 DEF Knows
      <4>2. \A i \in DOMAIN s : s[i] \in E
        BY <2>4
      <4> QED
        BY <3>1, <4>1, <4>2
    <3>2. CASE Contents[f] # Missing
      <4> DEFINE e == <<f, Contents[f]>>
      <4>1. e \in E
        BY <2>3, <3>2
      <4> HIDE DEF e
      <4>2. \E i \in DOMAIN s : s[i] = e
        BY <2>4, <4>1
      <4> QED
        BY <3>2, <4>2 DEF e
    <3> QED
      BY <3>1, <3>2
  <2> QED
    BY <2>5, <2>6 DEF ItemsAreContents, s
<1> QED
  BY <1>1, InvAlways, PTL

\* A search in the open table meets an empty slot before it has seen the whole table.
THEOREM LookupsEndEarlyAlways == Spec => []LookupsEndEarly
<1>1. ASSUME Inv, table.form = "open" PROVE LookupsEndEarly
  <2>1. IsOpen(table) /\ Load(table)
    BY <1>1 DEF Inv, Sound, IsCompact, IsChained
  <2> DEFINE c == table.capacity
  <2>2. PowerOfTwo(c) /\ c # 1
    BY <2>1, OpenIs DEF IsOpen
  <2>3. PICK i \in 0..(c - 1) : table.slots[i] = SLOT_EMPTY
    BY <2>1, RoomIs
  <2>4. ASSUME NEW f \in Fields \ BadFields
        PROVE  \E n \in 0..(c - 1) : Slot(table, f, n) = SLOT_EMPTY
    <3>1. PICK n \in 0..(c - 1) : Probe(f, c, n) = i
      BY <2>2, ProbesCover
    <3>2. Slot(table, f, n) = SLOT_EMPTY
      BY <2>3, <3>1, SlotIs
    <3> QED
      BY <3>2
  <2> QED
    BY <2>1, <2>4 DEF LookupsEndEarly, Load
<1>2. Inv => LookupsEndEarly
  BY <1>1 DEF LookupsEndEarly
<1> QED
  BY <1>2, InvAlways, PTL

\* The capacity follows the number of live entries.
THEOREM CapacityFollowsSizeAlways == Spec => []CapacityFollowsSize
<1>1. Inv => CapacityFollowsSize
  BY DEF Inv, Sound, IsCompact, CapacityFollowsSize, ChainLoad, Load
<1> QED
  BY <1>1, InvAlways, PTL

\* Each form of a hash implements the map: the initial states map to its initial
\* state, every call to a call of it.
THEOREM IsMapHolds == Spec => IsMap
<1>1. ASSUME Init PROVE Abstract!MapInit
  <2>1. Sound(table) /\ EntriesIn(table) = {}
    BY <1>1, InvInit DEF Inv
  <2>2. \A f \in Fields : Contents[f] = Missing
    <3> TAKE f \in Fields
    <3>1. ~Knows(EntriesIn(table), f)
      BY <2>1 DEF Knows
    <3> QED
      BY <2>1, <3>1, ContentsFound, FoundIs
  <2>3. Contents = [f \in Fields |-> Contents[f]]
    BY DEF Contents
  <2>4. Contents = [f \in Fields |-> Missing]
    BY <2>2, <2>3
  <2> QED
    BY <1>1, <2>4 DEF Abstract!MapInit, Init
<1>2. Inv /\ [Next]_vars => [Abstract!MapNext]_(Abstract!mapVars)
  BY InvNext
<1>3. Spec => Abstract!MapInit /\ [][Abstract!MapNext]_(Abstract!mapVars)
  BY <1>1, <1>2, InvAlways, PTL DEF Spec
<1> QED
  BY <1>3 DEF IsMap, Abstract!MapSpec
=============================================================================

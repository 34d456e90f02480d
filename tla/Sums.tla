-------------------------------- MODULE Sums --------------------------------
(***************************************************************************)
(* Facts about SumFunctionOnSet, the sum of a function over a finite set,  *)
(* that the proofs about the memory counter and the output buffer need.    *)
(*                                                                         *)
(* The sum is a recursive function over the subsets of the set.  It is     *)
(* shown to be the number of units of which the values consist, after      *)
(* which the facts follow from those about cardinalities.  Induction is by *)
(* a smallest counterexample (WFMin, with strict inclusion).               *)
(***************************************************************************)
EXTENDS Functions, FiniteSetTheorems, TLAPS

Units(f, S) == UNION {{x} \X (1..f[x]) : x \in S}

\* the values that are summed
AreNats(f, S) == \A x \in S : f[x] \in Nat

LEMMA UnitsOf ==
    ASSUME NEW f, NEW S, NEW u
    PROVE  u \in Units(f, S) <=> \E x \in S : \E i \in 1..f[x] : u = <<x, i>>
  BY DEF Units

LEMMA UnitsFinite ==
    ASSUME NEW S, IsFiniteSet(S), NEW f, AreNats(f, S)
    PROVE  IsFiniteSet(Units(f, S))
<1>1. PICK n \in Nat : ExistsSurjection(1..n, S)
  BY FS_NatSurjection
<1>2. PICK e \in Surjection(1..n, S) : TRUE
  BY <1>1 DEF ExistsSurjection
<1> DEFINE T == {{x} \X (1..f[x]) : x \in S}
           g == [x \in S |-> {x} \X (1..f[x])]
<1>3. g \in Surjection(S, T)
  BY DEF Surjection
<1>4. IsFiniteSet(T)
  BY <1>3, FS_Surjection
<1>5. ASSUME NEW x \in S PROVE IsFiniteSet({x} \X (1..f[x]))
  <2>1. IsFiniteSet({x})
    BY FS_Singleton
  <2>2. f[x] \in Int
    BY DEF AreNats
  <2>3. IsFiniteSet(1..f[x])
    BY <2>2, FS_Interval
  <2> QED
    BY <2>1, <2>3, FS_Product
<1>6. \A U \in T : IsFiniteSet(U)
  BY <1>5
<1> HIDE DEF T
<1>7. IsFiniteSet(UNION T)
  BY <1>4, <1>6, FS_UNION
<1> QED
  BY <1>7 DEF T, Units

LEMMA UnitsCard ==
    ASSUME NEW S, IsFiniteSet(S), NEW f, AreNats(f, S), NEW T \in SUBSET S
    PROVE  /\ Cardinality(Units(f, S)) \in Nat
           /\ Cardinality(Units(f, S)) = Cardinality(Units(f, T)) + Cardinality(Units(f, S \ T))
<1>1. IsFiniteSet(T) /\ IsFiniteSet(S \ T)
  BY FS_Subset, FS_Difference
<1>2. /\ IsFiniteSet(Units(f, S)) /\ IsFiniteSet(Units(f, T)) /\ IsFiniteSet(Units(f, S \ T))
  BY <1>1, UnitsFinite DEF AreNats
<1>3. Units(f, S) = Units(f, T) \cup Units(f, S \ T)
  BY DEF Units
<1>4. Units(f, T) \cap Units(f, S \ T) = {}
  <2>1. ASSUME NEW u, u \in Units(f, T), u \in Units(f, S \ T) PROVE FALSE
    <3>1. PICK x \in T : \E i \in 1..f[x] : u = <<x, i>>
      BY <2>1, UnitsOf
    <3>2. PICK y \in S \ T : \E i \in 1..f[y] : u = <<y, i>>
      BY <2>1, UnitsOf
    <3> QED
      BY <3>1, <3>2
  <2> QED
    BY <2>1
<1>5. Cardinality(Units(f, T) \cap Units(f, S \ T)) = 0
  BY <1>4, FS_EmptySet
<1>6. /\ Cardinality(Units(f, S)) \in Nat
      /\ Cardinality(Units(f, T)) \in Nat /\ Cardinality(Units(f, S \ T)) \in Nat
  BY <1>2, FS_CardinalityType
<1>7. Cardinality(Units(f, T) \cup Units(f, S \ T)) =
        Cardinality(Units(f, T)) + Cardinality(Units(f, S \ T))
          - Cardinality(Units(f, T) \cap Units(f, S \ T))
  BY <1>2, FS_Union
<1> QED
  BY <1>3, <1>5, <1>6, <1>7

LEMMA UnitsOne ==
    ASSUME NEW f, NEW x, f[x] \in Nat
    PROVE  Cardinality(Units(f, {x})) = f[x]
<1>1. Units(f, {x}) = {x} \X (1..f[x])
  BY DEF Units
<1>2. Cardinality(1..f[x]) = f[x] /\ IsFiniteSet(1..f[x])
  BY FS_Interval
<1>3. IsFiniteSet({x}) /\ Cardinality({x}) = 1
  BY FS_Singleton
<1>4. Cardinality({x} \X (1..f[x])) = 1 * f[x]
  BY <1>2, <1>3, FS_Product
<1>5. 1 * f[x] = f[x]
  OBVIOUS
<1> QED
  BY <1>1, <1>4, <1>5, Zenon

-----------------------------------------------------------------------------
\* the equation that defines the sum, in the order that CHOOSE takes
Unfolds(g, f, S) ==
    g = [s \in SUBSET S |->
            IF s = {} THEN 0 ELSE f[CHOOSE x \in s : TRUE] + g[s \ {CHOOSE x \in s : TRUE}]]

LEMMA SumUnfolds ==
    ASSUME NEW f, NEW S
    PROVE  SumFunctionOnSet(f, S) = (CHOOSE g : Unfolds(g, f, S))[S]
  BY DEF SumFunctionOnSet, FoldFunctionOnSet, MapThenFoldSet, Unfolds

LEMMA UnitsUnfold ==
    ASSUME NEW S, IsFiniteSet(S), NEW f, AreNats(f, S)
    PROVE  Unfolds([s \in SUBSET S |-> Cardinality(Units(f, s))], f, S)
<1> DEFINE g == [s \in SUBSET S |-> Cardinality(Units(f, s))]
<1>1. ASSUME NEW s \in SUBSET S, s = {} PROVE g[s] = 0
  <2>1. Units(f, s) = {}
    BY <1>1 DEF Units
  <2> QED
    BY <2>1, FS_EmptySet
<1>2. ASSUME NEW s \in SUBSET S, NEW x \in s PROVE g[s] = f[x] + g[s \ {x}]
  <2>1. IsFiniteSet(s) /\ AreNats(f, s) /\ f[x] \in Nat
    BY FS_Subset DEF AreNats
  <2>2. /\ Cardinality(Units(f, s)) =
             Cardinality(Units(f, {x})) + Cardinality(Units(f, s \ {x}))
    BY <2>1, UnitsCard
  <2> QED
    BY <2>1, <2>2, UnitsOne
<1> HIDE DEF g
<1>3. \A s \in SUBSET S : s # {} => (CHOOSE x \in s : TRUE) \in s
  OBVIOUS
<1>4. g = [s \in SUBSET S |-> g[s]]
  BY DEF g
<1>5. \A s \in SUBSET S : 
        g[s] = IF s = {} THEN 0 ELSE f[CHOOSE x \in s : TRUE] + g[s \ {CHOOSE x \in s : TRUE}]
  BY <1>1, <1>2, <1>3
<1>6. Unfolds(g, f, S)
  BY <1>4, <1>5 DEF Unfolds
<1> QED
  BY <1>6 DEF g

\* a set of finite sets that is not empty has a member without smaller ones
LEMMA SmallestSet ==
    ASSUME NEW S, IsFiniteSet(S), NEW Bad, Bad \subseteq SUBSET S, Bad # {}
    PROVE  \E s \in Bad : \A t \in Bad : t \subseteq s => t = s
<1>1. FiniteSubsetsOf(S) = SUBSET S
  BY FS_FiniteSubsetsOfFinite
<1>2. IsWellFoundedOn(StrictSubsetOrdering(S), SUBSET S)
  BY <1>1, FS_StrictSubsetOrderingWellFounded
<1>3. PICK s \in Bad : \A t \in Bad : ~(<<t, s>> \in StrictSubsetOrdering(S))
  BY <1>2, WFMin
<1>4. ASSUME NEW t \in Bad, t \subseteq s, t # s PROVE FALSE
  <2>1. <<t, s>> \in (SUBSET S) \X (SUBSET S)
    OBVIOUS
  <2>2. <<t, s>> \in StrictSubsetOrdering(S)
    BY <1>4, <2>1 DEF StrictSubsetOrdering
  <2> QED
    BY <1>3, <2>2
<1> QED
  BY <1>4

LEMMA UnfoldsOnce ==
    ASSUME NEW S, IsFiniteSet(S), NEW f, NEW g, NEW h, Unfolds(g, f, S), Unfolds(h, f, S)
    PROVE  g[S] = h[S]
<1> DEFINE Bad == {s \in SUBSET S : g[s] # h[s]}
<1>1. SUFFICES ASSUME Bad # {} PROVE FALSE
  OBVIOUS
<1>2. PICK s \in Bad : \A t \in Bad : t \subseteq s => t = s
  <2>1. Bad \subseteq SUBSET S
    OBVIOUS
  <2> HIDE DEF Bad
  <2> QED
    BY <1>1, <2>1, SmallestSet
<1>3. ASSUME NEW k, Unfolds(k, f, S)
      PROVE  k[s] = IF s = {} THEN 0
                    ELSE f[CHOOSE x \in s : TRUE] + k[s \ {CHOOSE x \in s : TRUE}]
  BY <1>3 DEF Unfolds
<1>4. CASE s = {}
  BY <1>3, <1>4
<1>5. CASE s # {}
  <2> DEFINE x == CHOOSE x \in s : TRUE
  <2>1. x \in s
    BY <1>5
  <2>2. g[s \ {x}] = h[s \ {x}]
    <3>1. s \ {x} \subseteq s /\ s \ {x} # s /\ s \ {x} \in SUBSET S
      BY <2>1
    <3> QED
      BY <1>2, <3>1
  <2>3. g[s] = f[x] + g[s \ {x}] /\ h[s] = f[x] + h[s \ {x}]
    BY <1>3, <1>5
  <2> QED
    BY <2>2, <2>3
<1> QED
  BY <1>4, <1>5

LEMMA SumIsUnits ==
    ASSUME NEW S, IsFiniteSet(S), NEW f, AreNats(f, S)
    PROVE  SumFunctionOnSet(f, S) = Cardinality(Units(f, S))
<1> DEFINE g == [s \in SUBSET S |-> Cardinality(Units(f, s))]
           h == CHOOSE g1 : Unfolds(g1, f, S)
<1>1. Unfolds(g, f, S)
  BY UnitsUnfold
<1>2. Unfolds(h, f, S)
  BY <1>1
<1>3. g[S] = h[S]
  BY <1>1, <1>2, UnfoldsOnce
<1> QED
  BY <1>3, SumUnfolds

-----------------------------------------------------------------------------
(***************************************************************************)
(* What the proofs use.                                                    *)
(***************************************************************************)
\* The sum over a set is made of the sums over a part and over the rest.
LEMMA SumSplit ==
    ASSUME NEW S, IsFiniteSet(S), NEW f, AreNats(f, S), NEW T \in SUBSET S
    PROVE  /\ SumFunctionOnSet(f, T) \in Nat
           /\ SumFunctionOnSet(f, S \ T) \in Nat
           /\ SumFunctionOnSet(f, S) = SumFunctionOnSet(f, T) + SumFunctionOnSet(f, S \ T)
<1>1. IsFiniteSet(T) /\ IsFiniteSet(S \ T) /\ AreNats(f, T) /\ AreNats(f, S \ T)
  BY FS_Subset, FS_Difference DEF AreNats
<1>2. /\ SumFunctionOnSet(f, S) = Cardinality(Units(f, S))
      /\ SumFunctionOnSet(f, T) = Cardinality(Units(f, T))
      /\ SumFunctionOnSet(f, S \ T) = Cardinality(Units(f, S \ T))
  BY <1>1, SumIsUnits
<1>3. Cardinality(Units(f, T)) \in Nat /\ Cardinality(Units(f, S \ T)) \in Nat
  BY <1>1, UnitsFinite, FS_CardinalityType
<1> QED
  BY <1>2, <1>3, UnitsCard

LEMMA SumOfNone ==
    ASSUME NEW f
    PROVE  SumFunctionOnSet(f, {}) = 0
<1>1. Units(f, {}) = {}
  BY DEF Units
<1> QED
  BY <1>1, SumIsUnits, FS_EmptySet DEF AreNats

LEMMA SumOfOne ==
    ASSUME NEW f, NEW x, f[x] \in Nat
    PROVE  SumFunctionOnSet(f, {x}) = f[x]
<1>1. IsFiniteSet({x}) /\ AreNats(f, {x})
  BY FS_Singleton DEF AreNats
<1> QED
  BY <1>1, SumIsUnits, UnitsOne

LEMMA SumType ==
    ASSUME NEW S, IsFiniteSet(S), NEW f, AreNats(f, S)
    PROVE  SumFunctionOnSet(f, S) \in Nat
  BY SumSplit

\* One summand is the sum without the others.
LEMMA SumTake ==
    ASSUME NEW S, IsFiniteSet(S), NEW f, AreNats(f, S), NEW x \in S
    PROVE  /\ SumFunctionOnSet(f, S \ {x}) \in Nat
           /\ SumFunctionOnSet(f, S) = f[x] + SumFunctionOnSet(f, S \ {x})
<1>1. f[x] \in Nat /\ {x} \in SUBSET S
  BY DEF AreNats
<1>2. SumFunctionOnSet(f, {x}) = f[x]
  BY <1>1, SumOfOne
<1> QED
  BY <1>1, <1>2, SumSplit

\* The sum is monotone in the function.
LEMMA SumMonotone ==
    ASSUME NEW S, IsFiniteSet(S), NEW f, AreNats(f, S), NEW g, AreNats(g, S),
           \A x \in S : f[x] <= g[x]
    PROVE  SumFunctionOnSet(f, S) <= SumFunctionOnSet(g, S)
<1>1. ASSUME NEW x \in S PROVE 1..f[x] \subseteq 1..g[x]
  BY DEF AreNats
<1>2. Units(f, S) \subseteq Units(g, S)
  BY <1>1 DEF Units
<1>3. Cardinality(Units(f, S)) <= Cardinality(Units(g, S))
  BY <1>2, UnitsFinite, FS_Subset
<1> QED
  BY <1>3, SumIsUnits

LEMMA SumSame ==
    ASSUME NEW S, IsFiniteSet(S), NEW f, AreNats(f, S), NEW g, \A x \in S : f[x] = g[x]
    PROVE  SumFunctionOnSet(f, S) = SumFunctionOnSet(g, S)
<1>1. Units(f, S) = Units(g, S)
  BY DEF Units
<1> QED
  BY <1>1, SumIsUnits DEF AreNats

\* Where the function has one value, the sum is a product.
LEMMA SumConstant ==
    ASSUME NEW S, IsFiniteSet(S), NEW f, NEW c \in Nat, \A x \in S : f[x] = c
    PROVE  SumFunctionOnSet(f, S) = c * Cardinality(S)
<1>1. Units(f, S) = S \X (1..c)
  <2>1. \A x \in S : 1..f[x] = 1..c
    OBVIOUS
  <2> QED
    BY <2>1 DEF Units
<1>2. IsFiniteSet(1..c) /\ Cardinality(1..c) = c
  BY FS_Interval
<1>3. Cardinality(S) \in Nat
  BY FS_CardinalityType
<1>4. Cardinality(S \X (1..c)) = Cardinality(S) * c
  BY <1>2, FS_Product
<1>5. SumFunctionOnSet(f, S) = Cardinality(S \X (1..c))
  BY <1>1, SumIsUnits DEF AreNats
<1> QED
  BY <1>3, <1>4, <1>5

\* The sum of two functions.
LEMMA SumPlus ==
    ASSUME NEW S, IsFiniteSet(S), NEW f, AreNats(f, S), NEW g, AreNats(g, S),
           NEW h, \A x \in S : h[x] = f[x] + g[x]
    PROVE  SumFunctionOnSet(h, S) = SumFunctionOnSet(f, S) + SumFunctionOnSet(g, S)
<1> DEFINE Bad == {s \in SUBSET S :
                     SumFunctionOnSet(h, s) # SumFunctionOnSet(f, s) + SumFunctionOnSet(g, s)}
<1>1. SUFFICES ASSUME Bad # {} PROVE FALSE
  OBVIOUS
<1>2. PICK s \in Bad : \A t \in Bad : t \subseteq s => t = s
  <2>1. Bad \subseteq SUBSET S
    OBVIOUS
  <2> HIDE DEF Bad
  <2> QED
    BY <1>1, <2>1, SmallestSet
<1>3. s # {}
  BY SumOfNone
<1>4. PICK x \in s : TRUE
  BY <1>3
<1>5. IsFiniteSet(s) /\ AreNats(f, s) /\ AreNats(g, s) /\ AreNats(h, s)
  BY FS_Subset DEF AreNats
<1>6. s \ {x} \notin Bad
  BY <1>2, <1>4
<1>7. SumFunctionOnSet(h, s \ {x}) = SumFunctionOnSet(f, s \ {x}) + SumFunctionOnSet(g, s \ {x})
  BY <1>6
<1>8. f[x] \in Nat /\ g[x] \in Nat /\ h[x] = f[x] + g[x]
  BY DEF AreNats
<1> QED
  BY <1>5, <1>7, <1>8, SumTake
-----------------------------------------------------------------------------
(***************************************************************************)
(* Numbers and intervals.                                                  *)
(***************************************************************************)
\* a set of naturals that is not empty has a least member
LEMMA SmallestNat ==
    ASSUME NEW Bad, Bad \subseteq Nat, Bad # {}
    PROVE  \E n \in Bad : \A m \in Bad : n <= m
<1>1. PICK N \in Bad : TRUE
  OBVIOUS
<1> DEFINE Intervals == {1..n : n \in {m \in Bad : m <= N}}
<1>2. N \in Nat /\ IsFiniteSet(1..N)
  BY FS_Interval
<1>3. Intervals \subseteq SUBSET (1..N) /\ Intervals # {}
  BY <1>2
<1>4. PICK I \in Intervals : \A J \in Intervals : J \subseteq I => J = I
  <2> DEFINE S == 1..N
  <2>1. IsFiniteSet(S) /\ Intervals \subseteq SUBSET S /\ Intervals # {}
    BY <1>2, <1>3
  <2> HIDE DEF Intervals, S
  <2> QED
    BY <2>1, SmallestSet
<1>5. PICK n \in Bad : n <= N /\ I = 1..n
  OBVIOUS
<1>6. ASSUME NEW m \in Bad, m < n PROVE FALSE
  <2>1. m \in Nat /\ n \in Nat
    OBVIOUS
  <2>2. 1..m \in Intervals
    BY <1>2, <1>5, <1>6, <2>1
  <2>3. 1..m \subseteq 1..n /\ n \in 1..n /\ n \notin 1..m
    BY <1>6, <2>1
  <2> QED
    BY <1>4, <1>5, <2>2, <2>3
<1> QED
  BY <1>5, <1>6

\* what holds of 0 and goes from each number to the next holds up to n
LEMMA NoneBad ==
    ASSUME NEW n \in Nat, NEW Bad, Bad \subseteq 0..n, 0 \notin Bad,
           \A m \in 1..n : m \in Bad => m - 1 \in Bad
    PROVE  Bad = {}
<1>1. ASSUME Bad # {} PROVE FALSE
  <2>1. Bad \subseteq Nat
    OBVIOUS
  <2>2. PICK b \in Bad : \A c \in Bad : b <= c
    BY <1>1, <2>1, SmallestNat
  <2>3. b \in 1..n
    BY <2>1
  <2>4. b - 1 \in Bad
    BY <2>3
  <2>5. b <= b - 1
    BY <2>2, <2>4
  <2> QED
    BY <2>3, <2>5
<1> QED
  BY <1>1

\* A sum over an interval does not change when both are shifted.
LEMMA SumShift ==
    ASSUME NEW n \in Nat, NEW f, AreNats(f, 2..(n + 1)), NEW g, \A i \in 1..n : g[i] = f[i + 1]
    PROVE  SumFunctionOnSet(g, 1..n) = SumFunctionOnSet(f, 2..(n + 1))
<1> DEFINE Bad == {k \in 0..n : SumFunctionOnSet(g, 1..k) # SumFunctionOnSet(f, 2..(k + 1))}
<1>1. SUFFICES ASSUME Bad # {} PROVE FALSE
  OBVIOUS
<1>2. PICK k \in Bad : \A m \in Bad : k <= m
  <2>1. Bad \subseteq Nat
    OBVIOUS
  <2> HIDE DEF Bad
  <2> QED
    BY <1>1, <2>1, SmallestNat
<1>3. k \in 0..n
  OBVIOUS
<1>4. k # 0
  <2>1. 1..0 = {} /\ 2..(0 + 1) = {}
    OBVIOUS
  <2>2. SumFunctionOnSet(g, 1..0) = SumFunctionOnSet(f, 2..(0 + 1))
    BY <2>1, SumOfNone
  <2> QED
    BY <2>2
<1>5. k - 1 \notin Bad /\ k - 1 \in 0..n
  BY <1>2, <1>3, <1>4
<1>6. SumFunctionOnSet(g, 1..(k - 1)) = SumFunctionOnSet(f, 2..((k - 1) + 1))
  BY <1>5
<1>7. /\ (1..k) \ {k} = 1..(k - 1) /\ k \in 1..k
      /\ (2..(k + 1)) \ {k + 1} = 2..((k - 1) + 1) /\ k + 1 \in 2..(k + 1)
  BY <1>3, <1>4
<1>8. AreNats(g, 1..k) /\ AreNats(f, 2..(k + 1)) /\ g[k] = f[k + 1]
  BY <1>3, <1>4 DEF AreNats
<1>9. IsFiniteSet(1..k) /\ IsFiniteSet(2..(k + 1))
  BY <1>3, FS_Interval
<1>10. SumFunctionOnSet(g, 1..k) = g[k] + SumFunctionOnSet(g, (1..k) \ {k})
  BY <1>7, <1>8, <1>9, SumTake
<1>11. SumFunctionOnSet(f, 2..(k + 1)) = f[k + 1] + SumFunctionOnSet(f, (2..(k + 1)) \ {k + 1})
  BY <1>7, <1>8, <1>9, SumTake
<1> QED
  BY <1>6, <1>7, <1>8, <1>10, <1>11
=============================================================================

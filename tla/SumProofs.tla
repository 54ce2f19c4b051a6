------------------------------ MODULE SumProofs ------------------------------
(***************************************************************************)
(* What the prover has to know of a sum over a finite set.  MapThenSumSet   *)
(* adds the numbers up in the order CHOOSE picks the elements, so that it  *)
(* says nothing by itself of two different sets.  Laid out as coins, f[x]  *)
(* of them for x, a sum is a cardinality, and of those the library's       *)
(* theorems speak.                                                         *)
(***************************************************************************)
EXTENDS Integers, FiniteSetsExt, FiniteSetTheorems, WellFoundedInduction, TLAPS

Sum(f, S) == MapThenSumSet(LAMBDA x : f[x], S)

Coin(f, x)  == {x} \X (1 .. f[x])
Coins(f, S) == UNION {Coin(f, x) : x \in S}

\* A property a finite set has if taking any element away leaves a set that has
\* it, is a property of every subset, the empty one to begin with.
LEMMA SubsetInduction ==
  ASSUME NEW U, IsFiniteSet(U), NEW P \in SUBSET (SUBSET U),
         \A s \in SUBSET U : (\A x \in s : s \ {x} \in P) => s \in P
  PROVE  P = SUBSET U
<1> DEFINE R == StrictSubsetOrdering(U)
           Q == (SUBSET U) \ P
<1>1. IsWellFoundedOn(R, SUBSET U)
  BY FS_StrictSubsetOrderingWellFounded, FS_FiniteSubsetsOfFinite
<1>2. SUFFICES ASSUME Q # {} PROVE FALSE
  OBVIOUS
<1>3. PICK s \in Q : \A r \in Q : ~ (<<r, s>> \in R)
  <2> HIDE DEF R, Q
  <2>1. Q \subseteq SUBSET U
    BY DEF Q
  <2>2. QED
    BY <1>1, <1>2, <2>1, WFMin
<1>4. PICK x \in s : s \ {x} \notin P
  OBVIOUS
<1>5. s \ {x} \in Q /\ s \ {x} \subseteq s /\ s \ {x} # s
  BY <1>4
<1>6. <<s \ {x}, s>> \in R
  BY <1>5 DEF StrictSubsetOrdering
<1>7. QED
  BY <1>3, <1>5, <1>6

\* A set of naturals that is not empty has a least one.
LEMMA MinIs ==
  ASSUME NEW S \in SUBSET Nat, S # {}
  PROVE  Min(S) \in S /\ \A i \in S : Min(S) <= i
<1> DEFINE R == {ss \in Nat \X Nat : ss[1] < ss[2]}
<1>1. IsWellFoundedOn(R, Nat)
  BY NatLessThanWellFounded DEF OpToRel
<1>2. PICK m \in S : \A i \in S : ~(<<i, m>> \in R)
  <2> HIDE DEF R
  <2>1. QED
    BY <1>1, WFMin
<1>3. ASSUME NEW i \in S PROVE m <= i
  <2>1. i \in Nat /\ m \in Nat /\ <<i, m>> \in Nat \X Nat
    OBVIOUS
  <2>2. ~(i < m)
    BY <1>2, <2>1
  <2>3. QED
    BY <2>1, <2>2
<1>4. QED
  BY <1>3 DEF Min

\* f[x] coins for x.
LEMMA CoinCount ==
  ASSUME NEW f, NEW x, f[x] \in Nat
  PROVE  IsFiniteSet(Coin(f, x)) /\ Cardinality(Coin(f, x)) = f[x]
<1>1. IsFiniteSet({x}) /\ Cardinality({x}) = 1
  BY FS_Singleton
<1>2. IsFiniteSet(1 .. f[x]) /\ Cardinality(1 .. f[x]) = f[x]
  BY FS_Interval
<1>3. IsFiniteSet({x} \X (1 .. f[x]))
      /\ Cardinality({x} \X (1 .. f[x])) = Cardinality({x}) * Cardinality(1 .. f[x])
  BY <1>1, <1>2, FS_Product
<1>4. QED
  BY <1>1, <1>2, <1>3 DEF Coin

\* One more element lays out its own coins beside the others'.
LEMMA CoinsAdd ==
  ASSUME NEW f, NEW S, IsFiniteSet(Coins(f, S)), NEW x, x \notin S, f[x] \in Nat
  PROVE  /\ IsFiniteSet(Coins(f, S \cup {x}))
         /\ Cardinality(Coins(f, S \cup {x})) = f[x] + Cardinality(Coins(f, S))
<1>1. Coins(f, S \cup {x}) = Coins(f, S) \cup Coin(f, x)
  BY DEF Coins
<1>2. Coins(f, S) \cap Coin(f, x) = {}
  BY DEF Coins, Coin
<1>3. IsFiniteSet(Coin(f, x)) /\ Cardinality(Coin(f, x)) = f[x]
  BY CoinCount
<1>4. /\ IsFiniteSet(Coins(f, S) \cup Coin(f, x))
      /\ Cardinality(Coins(f, S) \cup Coin(f, x))
           = Cardinality(Coins(f, S)) + Cardinality(Coin(f, x))
             - Cardinality(Coins(f, S) \cap Coin(f, x))
  BY <1>3, FS_Union
<1>5. Cardinality(Coins(f, S)) \in Nat /\ Cardinality(Coins(f, S) \cap Coin(f, x)) = 0
  BY <1>2, FS_CardinalityType, FS_EmptySet
<1>6. Cardinality(Coins(f, S) \cup Coin(f, x)) = f[x] + Cardinality(Coins(f, S))
  BY <1>3, <1>4, <1>5
<1>7. QED
  BY <1>1, <1>4, <1>6

\* Finitely many elements lay out finitely many coins.
LEMMA CoinsFinite ==
  ASSUME NEW S, IsFiniteSet(S), NEW f, \A x \in S : f[x] \in Nat
  PROVE  \A s \in SUBSET S : IsFiniteSet(Coins(f, s))
<1> DEFINE P == {s \in SUBSET S : IsFiniteSet(Coins(f, s))}
<1>1. {} \in P
  <2>1. Coins(f, {}) = {}
    BY DEF Coins
  <2>2. QED
    BY <2>1, FS_EmptySet
<1>2. ASSUME NEW s \in SUBSET S, \A x \in s : s \ {x} \in P
      PROVE  s \in P
  <2>1. CASE s = {}
    BY <1>1, <2>1
  <2>2. ASSUME NEW x \in s PROVE s \in P
    <3>1. (s \ {x}) \cup {x} = s
      OBVIOUS
    <3>2. IsFiniteSet(Coins(f, (s \ {x}) \cup {x}))
      BY <1>2, CoinsAdd
    <3>3. QED
      BY <3>1, <3>2
  <2>3. QED
    BY <2>1, <2>2
<1>3. P = SUBSET S
  <2>1. P \in SUBSET (SUBSET S)
    OBVIOUS
  <2> HIDE DEF P
  <2>2. QED
    BY <1>2, <2>1, SubsetInduction
<1>4. QED
  BY <1>3

\* The sum is the number of the coins.
LEMMA SumIsCount ==
  ASSUME NEW S, IsFiniteSet(S), NEW f, \A x \in S : f[x] \in Nat
  PROVE  Sum(f, S) = Cardinality(Coins(f, S))
<1> DEFINE Any(s) == CHOOSE x \in s : TRUE
           Adds(g) == g = [s \in SUBSET S |-> IF s = {} THEN 0
                                              ELSE f[Any(s)] + g[s \ {Any(s)}]]
           count == [s \in SUBSET S |-> Cardinality(Coins(f, s))]
           iter == CHOOSE g : Adds(g)
<1>1. Sum(f, S) = iter[S]
  BY DEF Sum, MapThenSumSet, MapThenFoldSet
<1>2. \A s \in SUBSET S : s # {} =>
        /\ Any(s) \in s /\ s \ {Any(s)} \in SUBSET S
        /\ Cardinality(Coins(f, s)) = f[Any(s)] + Cardinality(Coins(f, s \ {Any(s)}))
  <2> SUFFICES ASSUME NEW s \in SUBSET S, s # {}
               PROVE  /\ Any(s) \in s /\ s \ {Any(s)} \in SUBSET S
                      /\ Cardinality(Coins(f, s))
                           = f[Any(s)] + Cardinality(Coins(f, s \ {Any(s)}))
    OBVIOUS
  <2>1. Any(s) \in s
    OBVIOUS
  <2> DEFINE x == Any(s)
             r == s \ {x}
  <2>2. r \in SUBSET S /\ x \notin r /\ r \cup {x} = s /\ f[x] \in Nat
    BY <2>1
  <2>3. IsFiniteSet(Coins(f, r))
    BY <2>2, CoinsFinite
  <2> HIDE DEF r, x
  <2>4. Cardinality(Coins(f, r \cup {x})) = f[x] + Cardinality(Coins(f, r))
    BY <2>2, <2>3, CoinsAdd
  <2>5. QED
    BY <2>1, <2>2, <2>4 DEF r, x
<1>3. Cardinality(Coins(f, {})) = 0
  <2>1. Coins(f, {}) = {}
    BY DEF Coins
  <2>2. QED
    BY <2>1, FS_EmptySet
<1>4. Adds(count)
  <2> HIDE DEF Any
  <2>1. \A s \in SUBSET S : count[s] = IF s = {} THEN 0
                                       ELSE f[Any(s)] + count[s \ {Any(s)}]
    BY <1>2, <1>3
  <2>2. QED
    BY <2>1
<1>5. Adds(iter)
  <2> HIDE DEF Adds, count
  <2>1. QED
    BY <1>4
<1> DEFINE P == {s \in SUBSET S : iter[s] = Cardinality(Coins(f, s))}
<1>6. \A s \in SUBSET S : iter[s] = IF s = {} THEN 0
                                    ELSE f[Any(s)] + iter[s \ {Any(s)}]
  <2> HIDE DEF iter, Any
  <2>1. QED
    BY <1>5
<1> HIDE DEF iter, Any
<1>7. ASSUME NEW s \in SUBSET S, \A x \in s : s \ {x} \in P
      PROVE  s \in P
  <2>1. CASE s = {}
    BY <1>3, <1>6, <2>1
  <2>2. CASE s # {}
    BY <1>2, <1>6, <1>7, <2>2
  <2>3. QED
    BY <2>1, <2>2
<1>8. P = SUBSET S
  <2>1. P \in SUBSET (SUBSET S)
    OBVIOUS
  <2> HIDE DEF P
  <2>2. QED
    BY <1>7, <2>1, SubsetInduction
<1>9. QED
  BY <1>1, <1>8

-----------------------------------------------------------------------------
(* What the other modules cite *)

\* A sum of natural numbers is one.
LEMMA SumType ==
  ASSUME NEW S, IsFiniteSet(S), NEW f, \A x \in S : f[x] \in Nat
  PROVE  Sum(f, S) \in Nat
BY SumIsCount, CoinsFinite, FS_CardinalityType

\* A new element adds its number, whatever order the sum is taken in.
LEMMA SumAdd ==
  ASSUME NEW S, IsFiniteSet(S), NEW f, \A y \in S : f[y] \in Nat,
         NEW x, x \notin S, f[x] \in Nat
  PROVE  Sum(f, S \cup {x}) = f[x] + Sum(f, S)
<1>1. IsFiniteSet(Coins(f, S)) /\ IsFiniteSet(S \cup {x})
      /\ \A y \in S \cup {x} : f[y] \in Nat
  BY CoinsFinite, FS_AddElement
<1>2. Sum(f, S \cup {x}) = Cardinality(Coins(f, S \cup {x}))
      /\ Sum(f, S) = Cardinality(Coins(f, S))
  BY <1>1, SumIsCount
<1>3. QED
  BY <1>1, <1>2, CoinsAdd

\* A sum depends on the numbers of its elements alone.
LEMMA SumSame ==
  ASSUME NEW S, IsFiniteSet(S), NEW f, \A x \in S : f[x] \in Nat,
         NEW g, \A x \in S : g[x] = f[x]
  PROVE  Sum(g, S) = Sum(f, S)
<1>1. Coins(g, S) = Coins(f, S)
  BY DEF Coins, Coin
<1>2. QED
  BY <1>1, SumIsCount

\* Elements without a number add nothing.
LEMMA SumZero ==
  ASSUME NEW S, IsFiniteSet(S), NEW f, \A x \in S : f[x] = 0
  PROVE  Sum(f, S) = 0
<1>1. Coins(f, S) = {}
  BY DEF Coins, Coin
<1>2. QED
  BY <1>1, SumIsCount, FS_EmptySet
=============================================================================

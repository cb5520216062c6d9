------------------------------ MODULE SumProofs -----------------------------
(***************************************************************************)
(* What is true of the sums of module Sums.  The fold takes the elements   *)
(* in the order of a CHOOSE; the lemmas say that the order does not        *)
(* matter, and how sums combine.                                           *)
(***************************************************************************)
EXTENDS Sums, TLAPS, FiniteSetTheorems, WellFoundedInduction

-----------------------------------------------------------------------------
(* The fold is well defined. *)

\* g follows the fold's recursion on the subsets in D.
First(T) == CHOOSE x \in T : TRUE
Follows(g, f, D) ==
    g = [T \in D |-> IF T = {} THEN 0 ELSE f[First(T)] + g[T \ {First(T)}]]

\* Small finite sets come first: a property of all smaller ones that passes on
\* holds of all.
LEMMA SmallestSubset ==
    ASSUME NEW S, IsFiniteSet(S), NEW Bad, Bad \subseteq SUBSET S, Bad # {}
    PROVE  \E T \in Bad : \A U \in SUBSET T : U # T => U \notin Bad
<1>1. IsWellFoundedOn(StrictSubsetOrdering(S), SUBSET S)
  BY FS_StrictSubsetOrderingWellFounded, FS_FiniteSubsetsOfFinite
<1>2. PICK T \in Bad : \A U \in Bad : ~(<<U, T>> \in StrictSubsetOrdering(S))
  BY <1>1, WFMin
<1>3. ASSUME NEW U \in SUBSET T, U # T PROVE U \notin Bad
  <2>1. <<U, T>> \in StrictSubsetOrdering(S)
    BY <1>3 DEF StrictSubsetOrdering
  <2> QED BY <1>2, <2>1
<1> QED BY <1>2, <1>3

LEMMA SmallestNumber ==
    ASSUME NEW Bad, Bad \subseteq Nat, Bad # {}
    PROVE  \E m \in Bad : \A n \in Nat : n < m => n \notin Bad
<1> DEFINE R == OpToRel(<, Nat)
<1>1. IsWellFoundedOn(R, Nat)
  BY NatLessThanWellFounded
<1>2. \A m, n \in Nat : n < m => <<n, m>> \in R
  BY DEF OpToRel
<1> HIDE DEF R
<1>3. PICK m \in Bad : \A n \in Bad : ~(<<n, m>> \in R)
  BY <1>1, WFMin
<1> QED BY <1>2, <1>3

LEMMA FirstIn ==
    ASSUME NEW S, IsFiniteSet(S), S # {}
    PROVE  /\ First(S) \in S /\ IsFiniteSet(S \ {First(S)})
           /\ Cardinality(S) \in Nat /\ Cardinality(S \ {First(S)}) = Cardinality(S) - 1
<1>1. First(S) \in S
  BY DEF First
<1> QED BY <1>1, FS_RemoveElement, FS_CardinalityType

LEMMA FoldExists ==
    ASSUME NEW S, IsFiniteSet(S), NEW f
    PROVE  \E g : Follows(g, f, SUBSET S)
<1> DEFINE Level(n) == {T \in SUBSET S : Cardinality(T) <= n}
           Bad == {n \in Nat : ~\E g : Follows(g, f, Level(n))}
<1>1. ASSUME Bad # {} PROVE FALSE
  <2>1. PICK m \in Bad : \A n \in Nat : n < m => n \notin Bad
    <3>1. Bad \subseteq Nat
      OBVIOUS
    <3> HIDE DEF Bad
    <3> QED BY <1>1, <3>1, SmallestNumber
  <2>2. m \in Nat /\ ~\E g : Follows(g, f, Level(m))
    OBVIOUS
  <2>3. \A T \in SUBSET S : IsFiniteSet(T) /\ Cardinality(T) \in Nat
    BY FS_Subset, FS_CardinalityType
  <2>4. CASE m = 0
    <3> DEFINE g == [T \in Level(0) |-> 0]
    <3>1. \A T \in Level(0) : T = {}
      BY <2>3, FS_EmptySet
    <3>2. g = [T \in Level(0) |-> IF T = {} THEN 0 ELSE f[First(T)] + g[T \ {First(T)}]]
      BY <3>1
    <3>3. Follows(g, f, Level(0))
      BY <3>2 DEF Follows
    <3> QED BY <2>2, <2>4, <3>3
  <2>5. CASE m # 0
    <3>1. m - 1 \in Nat /\ m - 1 < m
      BY <2>2, <2>5
    <3>2. PICK p : Follows(p, f, Level(m - 1))
      <4>1. m - 1 \notin Bad
        BY <2>1, <3>1
      <4> QED BY <3>1, <4>1
    <3> DEFINE g == [T \in Level(m) |->
                        IF T = {} THEN 0 ELSE f[First(T)] + p[T \ {First(T)}]]
    <3>3. \A T \in Level(m - 1) : T \in Level(m)
      BY <2>2, <2>3, <3>1
    <3>4. \A T \in Level(m - 1) : g[T] = p[T]
      <4> SUFFICES ASSUME NEW T \in Level(m - 1) PROVE g[T] = p[T]
        OBVIOUS
      <4>1. p[T] = IF T = {} THEN 0 ELSE f[First(T)] + p[T \ {First(T)}]
        <5> HIDE DEF Level
        <5> QED BY <3>2 DEF Follows
      <4>2. T \in Level(m)
        BY <3>3
      <4> HIDE DEF Level
      <4> QED BY <4>1, <4>2
    <3>5. \A T \in Level(m) : T # {} => T \ {First(T)} \in Level(m - 1)
      <4> SUFFICES ASSUME NEW T \in Level(m), T # {} PROVE T \ {First(T)} \in Level(m - 1)
        OBVIOUS
      <4>1. Cardinality(T) \in Nat /\ Cardinality(T) <= m /\ T \in SUBSET S
        BY <2>3
      <4>2. Cardinality(T \ {First(T)}) = Cardinality(T) - 1
        BY <2>3, FirstIn
      <4> QED BY <2>2, <4>1, <4>2
    <3>6. \A T \in Level(m) :
             g[T] = IF T = {} THEN 0 ELSE f[First(T)] + g[T \ {First(T)}]
      <4> SUFFICES ASSUME NEW T \in Level(m)
                   PROVE  g[T] = IF T = {} THEN 0 ELSE f[First(T)] + g[T \ {First(T)}]
        OBVIOUS
      <4>1. g[T] = IF T = {} THEN 0 ELSE f[First(T)] + p[T \ {First(T)}]
        <5> HIDE DEF Level
        <5> QED OBVIOUS
      <4>2. T # {} => g[T \ {First(T)}] = p[T \ {First(T)}]
        BY <3>4, <3>5
      <4> HIDE DEF g, Level
      <4> QED BY <4>1, <4>2
    <3>7. g = [T \in Level(m) |-> g[T]]
      <4> HIDE DEF Level
      <4> QED OBVIOUS
    <3> HIDE DEF g, Level
    <3>8. Follows(g, f, Level(m))
      BY <3>6, <3>7 DEF Follows
    <3> QED BY <2>2, <3>8
  <2> QED BY <2>4, <2>5
<1>2. Cardinality(S) \in Nat /\ Level(Cardinality(S)) = SUBSET S
  BY FS_Subset, FS_CardinalityType
<1>3. \E g : Follows(g, f, Level(Cardinality(S)))
  BY <1>1, <1>2
<1> QED BY <1>2, <1>3

\* The function that the fold over S computes.
Fold(f, S) == CHOOSE g : Follows(g, f, SUBSET S)

LEMMA SumIsFold ==
    ASSUME NEW S, NEW f
    PROVE  SumOver(f, S) = Fold(f, S)[S]
BY DEF SumOver, MapThenSumSet, MapThenFoldSet, Fold, Follows, First

LEMMA FoldFollows ==
    ASSUME NEW S, IsFiniteSet(S), NEW f, NEW T \in SUBSET S
    PROVE  Fold(f, S)[T] = IF T = {} THEN 0 ELSE f[First(T)] + Fold(f, S)[T \ {First(T)}]
<1>1. Follows(Fold(f, S), f, SUBSET S)
  BY FoldExists DEF Fold
<1> QED BY <1>1 DEF Follows

\* The fold over S passes through the sums of the subsets it meets.
LEMMA FoldOfSubset ==
    ASSUME NEW W, IsFiniteSet(W), NEW f
    PROVE  \A T \in SUBSET W : \A S \in SUBSET W : T \subseteq S => Fold(f, S)[T] = SumOver(f, T)
<1> DEFINE Holds(T) == \A S \in SUBSET W : T \subseteq S => Fold(f, S)[T] = SumOver(f, T)
           Bad == {T \in SUBSET W : ~Holds(T)}
<1> SUFFICES ASSUME Bad # {} PROVE FALSE
  OBVIOUS
<1>1. PICK T \in Bad : \A U \in SUBSET T : U # T => U \notin Bad
  <2>1. Bad \subseteq SUBSET W
    OBVIOUS
  <2> HIDE DEF Bad
  <2> QED BY <2>1, SmallestSubset
<1>2. PICK S \in SUBSET W : T \subseteq S /\ Fold(f, S)[T] # SumOver(f, T)
  OBVIOUS
<1>3. T \in SUBSET W /\ IsFiniteSet(S) /\ IsFiniteSet(T)
  BY <1>2, FS_Subset
<1>4. SumOver(f, T) = Fold(f, T)[T]
  BY SumIsFold
<1>5. Fold(f, S)[T] = IF T = {} THEN 0 ELSE f[First(T)] + Fold(f, S)[T \ {First(T)}]
  BY <1>2, <1>3, FoldFollows
<1>6. Fold(f, T)[T] = IF T = {} THEN 0 ELSE f[First(T)] + Fold(f, T)[T \ {First(T)}]
  BY <1>3, FoldFollows
<1>7. T # {}
  BY <1>2, <1>4, <1>5, <1>6
<1>8. Holds(T \ {First(T)})
  <2>1. First(T) \in T
    BY <1>7, <1>3, FirstIn
  <2>2. T \ {First(T)} \in SUBSET T /\ T \ {First(T)} # T
    BY <2>1
  <2>3. T \ {First(T)} \notin Bad
    BY <1>1, <2>2
  <2> QED BY <1>3, <2>2, <2>3
<1>9. Fold(f, S)[T \ {First(T)}] = Fold(f, T)[T \ {First(T)}]
  BY <1>2, <1>3, <1>8
<1> QED BY <1>2, <1>4, <1>5, <1>6, <1>9

-----------------------------------------------------------------------------
(* The laws. *)

LEMMA SumStep ==
    ASSUME NEW S, IsFiniteSet(S), NEW f
    PROVE  SumOver(f, S) = IF S = {} THEN 0 ELSE f[First(S)] + SumOver(f, S \ {First(S)})
<1>1. Fold(f, S)[S] = IF S = {} THEN 0 ELSE f[First(S)] + Fold(f, S)[S \ {First(S)}]
  BY FoldFollows
<1>2. Fold(f, S)[S \ {First(S)}] = SumOver(f, S \ {First(S)})
  BY FoldOfSubset
<1> QED BY <1>1, <1>2, SumIsFold

LEMMA SumOfNone ==
    ASSUME NEW f
    PROVE  SumOver(f, {}) = 0
BY SumStep, FS_EmptySet

LEMMA SumType ==
    ASSUME NEW W, IsFiniteSet(W), NEW f, \A x \in W : f[x] \in Int
    PROVE  \A S \in SUBSET W : SumOver(f, S) \in Int
<1> DEFINE Bad == {S \in SUBSET W : SumOver(f, S) \notin Int}
<1> SUFFICES ASSUME Bad # {} PROVE FALSE
  OBVIOUS
<1>1. PICK S \in Bad : \A U \in SUBSET S : U # S => U \notin Bad
  <2>1. Bad \subseteq SUBSET W
    OBVIOUS
  <2> HIDE DEF Bad
  <2> QED BY <2>1, SmallestSubset
<1>2. S \in SUBSET W /\ SumOver(f, S) \notin Int /\ IsFiniteSet(S)
  BY FS_Subset
<1>3. SumOver(f, S) = IF S = {} THEN 0 ELSE f[First(S)] + SumOver(f, S \ {First(S)})
  BY <1>2, SumStep
<1>4. S # {}
  BY <1>2, <1>3
<1>5. First(S) \in S
  BY <1>2, <1>4, FirstIn
<1>6. SumOver(f, S \ {First(S)}) \in Int
  <2>1. S \ {First(S)} \notin Bad
    BY <1>1, <1>5
  <2> QED BY <1>2, <2>1
<1> QED BY <1>2, <1>3, <1>5, <1>6

\* The order does not matter: any element may come first.
LEMMA SumTake ==
    ASSUME NEW W, IsFiniteSet(W), NEW f, \A x \in W : f[x] \in Int
    PROVE  \A S \in SUBSET W : \A a \in S : SumOver(f, S) = f[a] + SumOver(f, S \ {a})
<1> DEFINE Holds(S) == \A a \in S : SumOver(f, S) = f[a] + SumOver(f, S \ {a})
           Bad == {S \in SUBSET W : ~Holds(S)}
<1> SUFFICES ASSUME Bad # {} PROVE FALSE
  OBVIOUS
<1>1. PICK S \in Bad : \A U \in SUBSET S : U # S => U \notin Bad
  <2>1. Bad \subseteq SUBSET W
    OBVIOUS
  <2> HIDE DEF Bad
  <2> QED BY <2>1, SmallestSubset
<1>2. PICK a \in S : SumOver(f, S) # f[a] + SumOver(f, S \ {a})
  OBVIOUS
<1> DEFINE c == First(S)
<1>3. S \in SUBSET W /\ IsFiniteSet(S) /\ c \in S
  BY <1>2, FS_Subset, FirstIn
<1>4. SumOver(f, S) = f[c] + SumOver(f, S \ {c})
  BY <1>2, <1>3, SumStep
<1>5. c # a
  BY <1>2, <1>4
<1> HIDE DEF c
<1>6. SumOver(f, S \ {c}) = f[a] + SumOver(f, (S \ {c}) \ {a})
  <2>1. S \ {c} \notin Bad
    BY <1>1, <1>3
  <2>2. S \ {c} \in SUBSET W /\ a \in S \ {c}
    BY <1>3, <1>5
  <2> QED BY <2>1, <2>2
<1>7. SumOver(f, S \ {a}) = f[c] + SumOver(f, (S \ {a}) \ {c})
  <2>1. S \ {a} \notin Bad
    BY <1>1, <1>2
  <2>2. S \ {a} \in SUBSET W /\ c \in S \ {a}
    BY <1>3, <1>5
  <2> QED BY <2>1, <2>2
<1>8. (S \ {a}) \ {c} = (S \ {c}) \ {a}
  OBVIOUS
<1>9. SumOver(f, (S \ {c}) \ {a}) \in Int
  BY <1>3, SumType
<1>10. f[a] \in Int /\ f[c] \in Int
  BY <1>3
<1>11. \A p, q, r \in Int : p + (q + r) = q + (p + r)
  OBVIOUS
<1> DEFINE v == SumOver(f, (S \ {c}) \ {a})
<1>12. SumOver(f, S \ {c}) = f[a] + v /\ SumOver(f, S \ {a}) = f[c] + v /\ v \in Int
  BY <1>6, <1>7, <1>8, <1>9
<1> HIDE DEF v
<1>13. f[c] + (f[a] + v) = f[a] + (f[c] + v)
  BY <1>10, <1>11, <1>12
<1> QED BY <1>2, <1>4, <1>12, <1>13

\* The sum of a sum; equal and smaller terms; terms that are not negative.
LEMMA SumPlus ==
    ASSUME NEW W, IsFiniteSet(W), NEW f, NEW g, NEW h,
           \A x \in W : f[x] \in Int /\ g[x] \in Int /\ h[x] = f[x] + g[x]
    PROVE  \A S \in SUBSET W : SumOver(h, S) = SumOver(f, S) + SumOver(g, S)
<1> DEFINE Bad == {S \in SUBSET W : SumOver(h, S) # SumOver(f, S) + SumOver(g, S)}
<1> SUFFICES ASSUME Bad # {} PROVE FALSE
  OBVIOUS
<1>1. PICK S \in Bad : \A U \in SUBSET S : U # S => U \notin Bad
  <2>1. Bad \subseteq SUBSET W
    OBVIOUS
  <2> HIDE DEF Bad
  <2> QED BY <2>1, SmallestSubset
<1>2. /\ S \in SUBSET W /\ IsFiniteSet(S)
      /\ SumOver(h, S) # SumOver(f, S) + SumOver(g, S)
  BY FS_Subset
<1> DEFINE c == First(S)
           R == S \ {c}
<1>3. S # {}
  <2>1. SumOver(f, {}) = 0 /\ SumOver(g, {}) = 0 /\ SumOver(h, {}) = 0
    BY SumOfNone
  <2>2. ASSUME S = {} PROVE FALSE
    <3>1. SumOver(f, S) = 0 /\ SumOver(g, S) = 0 /\ SumOver(h, S) = 0
      BY <2>1, <2>2
    <3> QED BY <1>2, <3>1
  <2> QED BY <2>2
<1>4. c \in S
  BY <1>2, <1>3, FirstIn
<1>5. /\ SumOver(f, S) = f[c] + SumOver(f, R) /\ SumOver(g, S) = g[c] + SumOver(g, R)
      /\ SumOver(h, S) = h[c] + SumOver(h, R)
  BY <1>2, <1>3, SumStep
<1>6. SumOver(h, R) = SumOver(f, R) + SumOver(g, R)
  <2>1. R \notin Bad
    BY <1>1, <1>4
  <2> QED BY <1>2, <2>1
<1>7. SumOver(f, R) \in Int /\ SumOver(g, R) \in Int
  BY <1>2, SumType
<1>8. f[c] \in Int /\ g[c] \in Int /\ h[c] = f[c] + g[c]
  BY <1>2, <1>4
<1> HIDE DEF c, R
<1>9. \A p, q, r, s \in Int : (p + q) + (r + s) = (p + r) + (q + s)
  OBVIOUS
<1>10. SumOver(h, S) = (f[c] + SumOver(f, R)) + (g[c] + SumOver(g, R))
  BY <1>5, <1>6, <1>7, <1>8, <1>9
<1> QED BY <1>2, <1>5, <1>10

LEMMA SumAtMost ==
    ASSUME NEW W, IsFiniteSet(W), NEW f, NEW g,
           \A x \in W : f[x] \in Int /\ g[x] \in Int /\ f[x] <= g[x]
    PROVE  \A S \in SUBSET W : SumOver(f, S) <= SumOver(g, S)
<1> DEFINE Bad == {S \in SUBSET W : ~(SumOver(f, S) <= SumOver(g, S))}
<1> SUFFICES ASSUME Bad # {} PROVE FALSE
  OBVIOUS
<1>1. PICK S \in Bad : \A U \in SUBSET S : U # S => U \notin Bad
  <2>1. Bad \subseteq SUBSET W
    OBVIOUS
  <2> HIDE DEF Bad
  <2> QED BY <2>1, SmallestSubset
<1>2. S \in SUBSET W /\ IsFiniteSet(S) /\ ~(SumOver(f, S) <= SumOver(g, S))
  BY FS_Subset
<1> DEFINE c == First(S)
           R == S \ {c}
<1>3. S # {}
  <2>1. SumOver(f, {}) = 0 /\ SumOver(g, {}) = 0
    BY SumOfNone
  <2>2. ASSUME S = {} PROVE FALSE
    <3>1. SumOver(f, S) = 0 /\ SumOver(g, S) = 0
      BY <2>1, <2>2
    <3> QED BY <1>2, <3>1
  <2> QED BY <2>2
<1>4. c \in S
  BY <1>2, <1>3, FirstIn
<1>5. SumOver(f, S) = f[c] + SumOver(f, R) /\ SumOver(g, S) = g[c] + SumOver(g, R)
  BY <1>2, <1>3, SumStep
<1>6. SumOver(f, R) <= SumOver(g, R)
  <2>1. R \notin Bad
    BY <1>1, <1>4
  <2> QED BY <1>2, <2>1
<1>7. SumOver(f, R) \in Int /\ SumOver(g, R) \in Int
  BY <1>2, SumType
<1>8. f[c] \in Int /\ g[c] \in Int /\ f[c] <= g[c]
  BY <1>2, <1>4
<1> HIDE DEF c, R
<1> QED BY <1>2, <1>5, <1>6, <1>7, <1>8

LEMMA SumSame ==
    ASSUME NEW S, IsFiniteSet(S), NEW f, NEW g, \A x \in S : f[x] \in Int /\ f[x] = g[x]
    PROVE  SumOver(f, S) = SumOver(g, S)
<1>1. SumOver(f, S) <= SumOver(g, S) /\ SumOver(g, S) <= SumOver(f, S)
  BY SumAtMost
<1>2. SumOver(f, S) \in Int /\ SumOver(g, S) \in Int
  BY SumType
<1> QED BY <1>1, <1>2

LEMMA SumNat ==
    ASSUME NEW S, IsFiniteSet(S), NEW f, \A x \in S : f[x] \in Nat
    PROVE  SumOver(f, S) \in Nat
<1> DEFINE z == [x \in S |-> 0]
           n == SumOver(z, S)
<1>1. SumOver(f, S) \in Int /\ n \in Int
  BY SumType
<1>2. n = n + n
  BY SumPlus
<1>3. n <= SumOver(f, S)
  BY SumAtMost
<1> HIDE DEF n
<1> QED BY <1>1, <1>2, <1>3

LEMMA SumTimes ==
    ASSUME NEW W, IsFiniteSet(W), NEW f, NEW g, NEW k \in Int,
           \A x \in W : f[x] \in Int /\ g[x] = f[x] * k
    PROVE  \A S \in SUBSET W : SumOver(g, S) = SumOver(f, S) * k
<1> DEFINE Bad == {S \in SUBSET W : SumOver(g, S) # SumOver(f, S) * k}
<1> SUFFICES ASSUME Bad # {} PROVE FALSE
  OBVIOUS
<1>1. PICK S \in Bad : \A U \in SUBSET S : U # S => U \notin Bad
  <2>1. Bad \subseteq SUBSET W
    OBVIOUS
  <2> HIDE DEF Bad
  <2> QED BY <2>1, SmallestSubset
<1>2. S \in SUBSET W /\ IsFiniteSet(S) /\ SumOver(g, S) # SumOver(f, S) * k
  BY FS_Subset
<1> DEFINE c == First(S)
           R == S \ {c}
<1>3. S # {}
  <2>1. SumOver(f, {}) = 0 /\ SumOver(g, {}) = 0
    BY SumOfNone
  <2>2. ASSUME S = {} PROVE FALSE
    <3>1. SumOver(f, S) = 0 /\ SumOver(g, S) = 0
      BY <2>1, <2>2
    <3> QED BY <1>2, <3>1
  <2> QED BY <2>2
<1>4. c \in S
  BY <1>2, <1>3, FirstIn
<1>5. SumOver(f, S) = f[c] + SumOver(f, R) /\ SumOver(g, S) = g[c] + SumOver(g, R)
  BY <1>2, <1>3, SumStep
<1>6. SumOver(g, R) = SumOver(f, R) * k
  <2>1. R \notin Bad
    BY <1>1, <1>4
  <2> QED BY <1>2, <2>1
<1>7. SumOver(f, R) \in Int
  BY <1>2, SumType
<1>8. f[c] \in Int /\ g[c] = f[c] * k
  BY <1>2, <1>4
<1> HIDE DEF c, R
<1>9. \A p, q \in Int : p * k + q * k = (p + q) * k
  OBVIOUS
<1> QED BY <1>2, <1>5, <1>6, <1>7, <1>8, <1>9

\* Terms that are zero do not count.
LEMMA SumOfZeros ==
    ASSUME NEW S, IsFiniteSet(S), NEW f, \A x \in S : f[x] = 0
    PROVE  SumOver(f, S) = 0
<1>1. SumOver(f, S) = SumOver(f, S) + SumOver(f, S)
  <2>1. \A x \in S : f[x] \in Int /\ f[x] = f[x] + f[x]
    OBVIOUS
  <2> QED BY <2>1, SumPlus
<1>2. SumOver(f, S) \in Int
  <2>1. \A x \in S : f[x] \in Int
    OBVIOUS
  <2> QED BY <2>1, SumType
<1>3. \A n \in Int : n = n + n => n = 0
  OBVIOUS
<1> QED BY <1>1, <1>2, <1>3

LEMMA SumOfNonzero ==
    ASSUME NEW W, IsFiniteSet(W), NEW f, \A x \in W : f[x] \in Int
    PROVE  \A S \in SUBSET W : SumOver(f, S) = SumOver(f, {x \in S : f[x] # 0})
<1> DEFINE Filter(S) == {x \in S : f[x] # 0}
           Bad == {S \in SUBSET W : SumOver(f, S) # SumOver(f, Filter(S))}
<1> SUFFICES ASSUME Bad # {} PROVE FALSE
  OBVIOUS
<1>1. PICK S \in Bad : \A U \in SUBSET S : U # S => U \notin Bad
  <2>1. Bad \subseteq SUBSET W
    OBVIOUS
  <2> HIDE DEF Bad
  <2> QED BY <2>1, SmallestSubset
<1>2. S \in SUBSET W /\ IsFiniteSet(S) /\ SumOver(f, S) # SumOver(f, Filter(S))
  BY FS_Subset
<1> DEFINE c == First(S)
           R == S \ {c}
<1>3. S # {}
  <2>1. S = {} => Filter(S) = S
    OBVIOUS
  <2> QED BY <1>2, <2>1
<1>4. c \in S
  BY <1>2, <1>3, FirstIn
<1>5. SumOver(f, S) = f[c] + SumOver(f, R)
  BY <1>2, <1>3, SumStep
<1>6. SumOver(f, R) = SumOver(f, Filter(R))
  <2>1. R \notin Bad
    BY <1>1, <1>4
  <2> QED BY <1>2, <2>1
<1>7. f[c] \in Int /\ SumOver(f, R) \in Int
  BY <1>2, <1>4, SumType
<1>8. CASE f[c] = 0
  <2>1. Filter(S) = Filter(R)
    BY <1>4, <1>8
  <2>2. SumOver(f, S) = SumOver(f, R)
    <3> HIDE DEF R, c
    <3> QED BY <1>5, <1>7, <1>8
  <2> QED BY <1>2, <1>6, <2>1, <2>2
<1>9. CASE f[c] # 0
  <2>1. Filter(S) \in SUBSET W /\ c \in Filter(S) /\ Filter(S) \ {c} = Filter(R)
    BY <1>2, <1>4, <1>9
  <2> HIDE DEF Filter, c, R
  <2>2. SumOver(f, Filter(S)) = f[c] + SumOver(f, Filter(S) \ {c})
    BY <2>1, SumTake
  <2> QED BY <1>2, <1>5, <1>6, <2>1, <2>2
<1> QED BY <1>8, <1>9

\* The sum after one entry is changed.
LEMMA SumAfterChange ==
    ASSUME NEW S, IsFiniteSet(S), NEW f \in [S -> Int], NEW a \in S, NEW x \in Int
    PROVE  SumOver([f EXCEPT ![a] = x], S) = SumOver(f, S) + (x - f[a])
<1> DEFINE g == [f EXCEPT ![a] = x]
           rest == SumOver(f, S \ {a})
<1>1. g \in [S -> Int] /\ g[a] = x /\ \A y \in S \ {a} : g[y] = f[y]
  OBVIOUS
<1>2. \A y \in S : f[y] \in Int /\ g[y] \in Int
  BY <1>1
<1>3. IsFiniteSet(S \ {a})
  BY FS_RemoveElement
<1> HIDE DEF g
<1>4. SumOver(f, S) = f[a] + rest
  BY <1>2, SumTake
<1>5. SumOver(g, S) = g[a] + SumOver(g, S \ {a})
  BY <1>2, SumTake
<1>6. SumOver(g, S \ {a}) = rest
  BY <1>1, <1>2, <1>3, SumSame
<1>7. rest \in Int
  BY <1>2, SumType
<1> HIDE DEF rest
<1>8. f[a] \in Int
  OBVIOUS
<1>9. SumOver(g, S) = SumOver(f, S) + (x - f[a])
  BY <1>1, <1>4, <1>5, <1>6, <1>7, <1>8
<1> QED BY <1>9 DEF g


\* Summing within classes first: every element of V is in the class key[x].
LEMMA SumByClass ==
    ASSUME NEW A, IsFiniteSet(A), NEW V, IsFiniteSet(V), NEW g, NEW key,
           \A x \in V : g[x] \in Int /\ key[x] \in A
    PROVE  \A U \in SUBSET V :
             SumOver([a \in A |-> SumOver(g, {x \in U : key[x] = a})], A) = SumOver(g, U)
<1> DEFINE Class(U, a) == {x \in U : key[x] = a}
           inner(U) == [a \in A |-> SumOver(g, Class(U, a))]
           Bad == {U \in SUBSET V : SumOver(inner(U), A) # SumOver(g, U)}
<1> SUFFICES ASSUME Bad # {} PROVE FALSE
  OBVIOUS
<1>1. PICK U \in Bad : \A T \in SUBSET U : T # U => T \notin Bad
  <2>1. Bad \subseteq SUBSET V
    OBVIOUS
  <2> HIDE DEF Bad
  <2> QED BY <2>1, SmallestSubset
<1>2. U \in SUBSET V /\ IsFiniteSet(U) /\ SumOver(inner(U), A) # SumOver(g, U)
  BY FS_Subset
<1> DEFINE c == First(U)
           R == U \ {c}
           k == key[c]
<1>3. U # {}
  <2>1. ASSUME U = {} PROVE FALSE
    <3>1. \A a \in A : Class(U, a) = {}
      BY <2>1
    <3>2. \A a \in A : inner(U)[a] = 0
      BY <3>1, SumOfNone
    <3>3. SumOver(inner(U), A) = 0
      <4> HIDE DEF inner
      <4> QED BY <3>2, SumOfZeros
    <3>4. SumOver(g, U) = 0
      BY <2>1, SumOfNone
    <3> QED BY <1>2, <3>3, <3>4
  <2> QED BY <2>1
<1>4. c \in U /\ g[c] \in Int /\ k \in A
  BY <1>2, <1>3, FirstIn
<1>5. SumOver(g, U) = g[c] + SumOver(g, R)
  BY <1>2, <1>3, SumStep
<1>6. SumOver(inner(R), A) = SumOver(g, R)
  <2>1. R \notin Bad
    BY <1>1, <1>4
  <2> QED BY <1>2, <2>1
<1>7. \A T \in SUBSET V : SumOver(g, T) \in Int
  BY SumType
<1>8. inner(R) \in [A -> Int]
  BY <1>2, <1>7
<1>9. inner(U) = [inner(R) EXCEPT ![k] = g[c] + inner(R)[k]]
  <2>1. ASSUME NEW a \in A, a # k PROVE Class(U, a) = Class(R, a)
    BY <2>1
  <2>2. Class(U, k) \ {c} = Class(R, k) /\ c \in Class(U, k) /\ Class(U, k) \in SUBSET V
    BY <1>2, <1>4
  <2>3. SumOver(g, Class(U, k)) = g[c] + SumOver(g, Class(R, k))
    <3> HIDE DEF Class, c, R, k
    <3>1. SumOver(g, Class(U, k)) = g[c] + SumOver(g, Class(U, k) \ {c})
      BY <2>2, SumTake
    <3> QED BY <2>2, <3>1
  <2> HIDE DEF Class, c, R, k
  <2> QED BY <1>4, <2>1, <2>3
<1>10. SumOver(inner(U), A) = SumOver(inner(R), A) + ((g[c] + inner(R)[k]) - inner(R)[k])
  <2>1. inner(R)[k] \in Int /\ g[c] + inner(R)[k] \in Int
    BY <1>4, <1>8
  <2> DEFINE f == inner(R)
             y == g[c] + f[k]
  <2>2. f \in [A -> Int] /\ y \in Int /\ k \in A
    BY <1>4, <1>8, <2>1
  <2> HIDE DEF f, y
  <2>3. SumOver([f EXCEPT ![k] = y], A) = SumOver(f, A) + (y - f[k])
    <3> HIDE DEF k
    <3> QED BY <2>2, SumAfterChange
  <2>4. inner(U) = [f EXCEPT ![k] = y]
    <3> HIDE DEF inner, c, R, k
    <3> QED BY <1>9 DEF f, y
  <2>5. SumOver(inner(U), A) = SumOver(f, A) + (y - f[k])
    BY <2>3, <2>4, Zenon
  <2> HIDE DEF inner, c, R, k
  <2> QED BY <2>5 DEF f, y
<1>11. inner(R)[k] \in Int /\ SumOver(inner(R), A) \in Int
  <2>1. SumOver(g, R) \in Int
    BY <1>2, <1>7
  <2> QED BY <1>4, <1>6, <1>8, <2>1
<1> HIDE DEF inner, c, R, k
<1>12. SumOver(inner(U), A) = g[c] + SumOver(inner(R), A)
  BY <1>4, <1>10, <1>11
<1> QED BY <1>2, <1>5, <1>6, <1>12

\* Sums over the positions of a sequence that grows by one.
LEMMA SumAppend ==
    ASSUME NEW n \in Nat, NEW f, NEW g,
           \A k \in 1..(n + 1) : g[k] \in Int, \A k \in 1..n : f[k] = g[k]
    PROVE  /\ SumOver(f, 1..n) \in Int
           /\ SumOver(g, 1..(n + 1)) = SumOver(f, 1..n) + g[n + 1]
<1>1. /\ IsFiniteSet(1..(n + 1)) /\ IsFiniteSet(1..n)
      /\ n + 1 \in 1..(n + 1) /\ (1..(n + 1)) \ {n + 1} = 1..n
      /\ \A k \in 1..n : k \in 1..(n + 1)
  BY FS_Interval
<1>2. SumOver(g, 1..(n + 1)) = g[n + 1] + SumOver(g, 1..n)
  BY <1>1, SumTake
<1>3. SumOver(f, 1..n) = SumOver(g, 1..n) /\ SumOver(f, 1..n) \in Int
  BY <1>1, SumSame, SumType
<1>4. g[n + 1] \in Int
  BY <1>1
<1> QED BY <1>2, <1>3, <1>4
=============================================================================

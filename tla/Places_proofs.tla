--------------------------- MODULE Places_proofs ---------------------------
(***************************************************************************)
(* What Place, Nth and At give for every finite set of numbers, and what   *)
(* the proofs of several components need of numbers, sums, orders and      *)
(* sequences.  What is shown by induction is shown for a set P of numbers  *)
(* or of sequences: were it not all of them, a least one would be missing. *)
(***************************************************************************)
EXTENDS Places, SequencesExt, FiniteSetTheorems, SequenceTheorems, TLAPS

\* A place is a number from 1 to the size of the set.
LEMMA PlaceType ==
    ASSUME NEW S \in SUBSET Int, IsFiniteSet(S), NEW i \in S
    PROVE  Place(S, i) \in 1 .. Cardinality(S)
<1> DEFINE below == {j \in S : j <= i}
<1>1. below \in SUBSET S /\ i \in below
  OBVIOUS
<1>2. IsFiniteSet(below) /\ Cardinality(below) <= Cardinality(S)
  BY <1>1, FS_Subset
<1>3. Cardinality(below) \in Nat /\ Cardinality(S) \in Nat
  BY <1>2, FS_CardinalityType
<1>4. Cardinality(below) # 0
  BY <1>1, <1>2, FS_EmptySet
<1> QED
  BY <1>2, <1>3, <1>4 DEF Place

\* A larger number has a larger place.
LEMMA PlaceIncreases ==
    ASSUME NEW S \in SUBSET Int, IsFiniteSet(S),
           NEW i \in S, NEW j \in S, i < j
    PROVE  Place(S, i) < Place(S, j)
<1> DEFINE lower == {k \in S : k <= i}
           upper == {k \in S : k <= j}
<1> i \in Int /\ j \in Int
  OBVIOUS
<1>1. upper \in SUBSET S /\ lower \in SUBSET upper
  <2>1. \A k \in S : k \in Int
    OBVIOUS
  <2>2. \A k \in S : k <= i => k <= j
    BY <2>1
  <2> QED
    BY <2>2
<1>2. j \in upper /\ j \notin lower
  OBVIOUS
<1>3. IsFiniteSet(upper)
  BY <1>1, FS_Subset
<1>4. /\ IsFiniteSet(lower)
      /\ Cardinality(lower) <= Cardinality(upper)
      /\ Cardinality(upper) = Cardinality(lower) => upper = lower
  BY <1>1, <1>3, FS_Subset
<1>5. Cardinality(lower) \in Nat /\ Cardinality(upper) \in Nat
  BY <1>3, <1>4, FS_CardinalityType
<1>6. Cardinality(lower) < Cardinality(upper)
  BY <1>2, <1>4, <1>5
<1> QED
  BY <1>6 DEF Place

\* Different numbers have different places.
LEMMA PlaceInjective ==
    ASSUME NEW S \in SUBSET Int, IsFiniteSet(S),
           NEW i \in S, NEW j \in S, Place(S, i) = Place(S, j)
    PROVE  i = j
<1>1. CASE i < j
  <2>1. Place(S, i) < Place(S, j)
    BY <1>1, PlaceIncreases
  <2> QED
    BY <2>1, PlaceType
<1>2. CASE j < i
  <2>1. Place(S, j) < Place(S, i)
    BY <1>2, PlaceIncreases
  <2> QED
    BY <2>1, PlaceType
<1> QED
  BY <1>1, <1>2

\* Every place up to the size of the set is taken.
LEMMA PlaceTaken ==
    ASSUME NEW S \in SUBSET Int, IsFiniteSet(S), NEW k \in 1 .. Cardinality(S)
    PROVE  \E i \in S : Place(S, i) = k
<1> SUFFICES ASSUME \A i \in S : Place(S, i) # k
             PROVE  FALSE
  OBVIOUS
<1> DEFINE n == Cardinality(S)
           T == (1 .. n) \ {k}
           f == [i \in S |-> Place(S, i)]
<1>1. n \in Nat
  BY FS_CardinalityType
<1>2. IsFiniteSet(1 .. n) /\ Cardinality(1 .. n) = n
  BY <1>1, FS_Interval
<1>3. IsFiniteSet(T) /\ Cardinality(T) = n - 1
  BY <1>2, FS_RemoveElement
<1>4. f \in [S -> T]
  BY PlaceType
<1>5. Cardinality(T) < Cardinality(S)
  BY <1>1, <1>3
<1>6. \E x, y \in S : x # y /\ f[x] = f[y]
  <2> HIDE DEF f, T
  <2> QED
    BY <1>3, <1>4, <1>5, FS_PigeonHole
<1> QED
  BY <1>6, PlaceInjective

\* Nth finds the number whose place is k.
LEMMA NthIsThere ==
    ASSUME NEW S \in SUBSET Int, IsFiniteSet(S), NEW k \in 1 .. Cardinality(S)
    PROVE  Nth(S, k) \in S /\ Place(S, Nth(S, k)) = k
  BY PlaceTaken DEF Nth

\* It is the only one.
LEMMA NthOfPlace ==
    ASSUME NEW S \in SUBSET Int, IsFiniteSet(S), NEW i \in S
    PROVE  Nth(S, Place(S, i)) = i
<1>1. Place(S, i) \in 1 .. Cardinality(S)
  BY PlaceType
<1> DEFINE m == Nth(S, Place(S, i))
<1>2. m \in S /\ Place(S, m) = Place(S, i)
  BY <1>1, NthIsThere
<1>3. m = i
  <2> HIDE DEF m
  <2> QED
    BY <1>2, PlaceInjective
<1> QED
  BY <1>3

\* The numbers from 1 to n are in their places.
LEMMA NthOfInterval ==
    ASSUME NEW n \in Nat, NEW k \in 1 .. n
    PROVE  Nth(1 .. n, k) = k
<1>1. IsFiniteSet(1 .. n) /\ 1 .. n \in SUBSET Int
  BY FS_Interval
<1>2. {j \in 1 .. n : j <= k} = 1 .. k
  OBVIOUS
<1>3. Cardinality(1 .. k) = k
  BY FS_Interval
<1>4. Place(1 .. n, k) = k
  BY <1>2, <1>3 DEF Place
<1> QED
  BY <1>1, <1>4, NthOfPlace

\* A selection is a sequence of as many elements as there are positions, each
\* of which is the one at a selected position; every selected position is hit.
LEMMA AtIsSelection ==
    ASSUME NEW R, NEW s \in Seq(R), NEW S \in SUBSET (1 .. Len(s))
    PROVE  /\ At(s, S) \in Seq(R)
           /\ Len(At(s, S)) = Cardinality(S)
           /\ Cardinality(S) <= Len(s)
           /\ \A k \in 1 .. Len(At(s, S)) : \E i \in S : At(s, S)[k] = s[i]
           /\ \A i \in S : \E k \in 1 .. Len(At(s, S)) : At(s, S)[k] = s[i]
<1> Len(s) \in Nat /\ \A i \in 1 .. Len(s) : s[i] \in R
  OBVIOUS
<1>1. IsFiniteSet(1 .. Len(s)) /\ Cardinality(1 .. Len(s)) = Len(s)
  <2>1. \A n \in Nat : IsFiniteSet(1 .. n) /\ Cardinality(1 .. n) = n
    BY SMTT(30), FS_Interval
  <2> QED
    BY <2>1
<1>2. IsFiniteSet(S) /\ Cardinality(S) <= Len(s)
  BY <1>1, FS_Subset
<1>3. S \in SUBSET Int
  OBVIOUS
<1>4. Cardinality(S) \in Nat
  BY <1>2, FS_CardinalityType
<1>5. \A k \in 1 .. Cardinality(S) : Nth(S, k) \in S
  BY <1>2, <1>3, NthIsThere
<1>6. \A k \in 1 .. Cardinality(S) : s[Nth(S, k)] \in R
  BY <1>5
<1>7. At(s, S) \in Seq(R) /\ Len(At(s, S)) = Cardinality(S)
  BY <1>4, <1>6 DEF At
<1>8. \A k \in 1 .. Cardinality(S) : At(s, S)[k] = s[Nth(S, k)]
  BY DEF At
<1>9. ASSUME NEW i \in S
      PROVE  \E k \in 1 .. Cardinality(S) : At(s, S)[k] = s[i]
  <2>1. Place(S, i) \in 1 .. Cardinality(S)
    BY <1>2, <1>3, PlaceType
  <2>2. Nth(S, Place(S, i)) = i
    BY <1>2, <1>3, NthOfPlace
  <2> QED
    BY <2>1, <2>2, <1>8
<1> QED
  BY <1>2, <1>5, <1>7, <1>8, <1>9


\* Induction over the natural numbers, P being the set of those it is shown for.
LEMMA Induction ==
    ASSUME NEW P, 0 \in P, \A n \in Nat : n \in P => n + 1 \in P
    PROVE  Nat \subseteq P
<1> SUFFICES ASSUME NEW n \in Nat, n \notin P
             PROVE  FALSE
  OBVIOUS
<1> DEFINE S == {i \in 0 .. n : i \notin P}
           m == Nth(S, 1)
<1>1. IsFiniteSet(0 .. n)
  BY FS_Interval
<1>2. IsFiniteSet(S) /\ S \in SUBSET Int
  BY <1>1, FS_Subset
<1>3. n \in S
  OBVIOUS
<1>4. Cardinality(S) \in Nat /\ Cardinality(S) # 0
  BY <1>2, <1>3, FS_CardinalityType, FS_EmptySet
<1>5. m \in S /\ Place(S, m) = 1
  BY <1>2, <1>4, NthIsThere
<1>6. m # 0
  BY <1>5
<1>7. m - 1 \notin S
  <2> SUFFICES ASSUME m - 1 \in S
               PROVE  FALSE
    OBVIOUS
  <2>1. Place(S, m - 1) < Place(S, m) /\ Place(S, m - 1) \in 1 .. Cardinality(S)
    BY <1>2, <1>5, PlaceIncreases, PlaceType
  <2> QED
    BY <1>5, <2>1
<1>8. m - 1 \in Nat /\ m - 1 \in P
  BY <1>5, <1>6, <1>7
<1> QED
  BY <1>5, <1>8

LEMMA LeastAndGreatest ==
    ASSUME NEW S \in SUBSET Int, IsFiniteSet(S), S # {}
    PROVE  /\ \E m \in S : \A i \in S : m <= i
           /\ \E m \in S : \A i \in S : i <= m
<1>1. Cardinality(S) \in Nat \ {0}
  BY FS_CardinalityType, FS_EmptySet
<1> DEFINE low == Nth(S, 1)
           high == Nth(S, Cardinality(S))
<1>2. low \in S /\ Place(S, low) = 1
  BY <1>1, NthIsThere
<1>3. high \in S /\ Place(S, high) = Cardinality(S)
  BY <1>1, NthIsThere
<1> HIDE DEF low, high
<1>4. ASSUME NEW i \in S
      PROVE  low <= i /\ i <= high
  <2>1. Place(S, i) \in 1 .. Cardinality(S)
    BY PlaceType
  <2>2. ~ i < low
    BY <1>2, <2>1, PlaceIncreases
  <2>3. ~ high < i
    BY <1>1, <1>3, <2>1, PlaceIncreases
  <2> QED
    BY <1>2, <1>3, <2>2, <2>3
<1> QED
  BY <1>2, <1>3, <1>4

\* Sums over a finite set, by their recursion.
SumStep(f, g, s) == IF s = {} THEN 0 ELSE f[CHOOSE x \in s : TRUE] + g[s \ {CHOOSE x \in s : TRUE}]

\* g holds the sums of the sets in D.
Sums(f, g, D) == g = [s \in D |-> SumStep(f, g, s)]

\* g holds the sums of all subsets of S.
AllSums(f, g, S) == Sums(f, g, SUBSET S)

\* What is left of a set when the element the sum takes first is taken out.
Remainder(s) == s \ {CHOOSE x \in s : TRUE}

LEMMA RemainderIsLess ==
    ASSUME NEW s, IsFiniteSet(s), s # {}
    PROVE  /\ (CHOOSE x \in s : TRUE) \in s
           /\ IsFiniteSet(Remainder(s)) /\ Remainder(s) \in SUBSET s
           /\ Cardinality(Remainder(s)) = Cardinality(s) - 1
           /\ Cardinality(s) \in Nat
  BY FS_RemoveElement, FS_CardinalityType DEF Remainder

LEMMA SumsExist ==
    ASSUME NEW f, NEW S, IsFiniteSet(S)
    PROVE  \E g : AllSums(f, g, S)
<1> DEFINE small(n) == {s \in SUBSET S : Cardinality(s) <= n}
           P == {n \in Nat : \E g : Sums(f, g, small(n))}
<1>1. \A s \in SUBSET S : IsFiniteSet(s) /\ Cardinality(s) \in Nat
  BY FS_Subset, FS_CardinalityType
<1>2. 0 \in P
  <2> DEFINE g == [s \in small(0) |-> 0]
  <2>1. \A s \in small(0) : s = {}
    BY <1>1, FS_EmptySet
  <2>2. Sums(f, g, small(0))
    BY <2>1 DEF Sums, SumStep
  <2> QED
    BY <2>2
<1>3. ASSUME NEW n \in Nat, n \in P
      PROVE  n + 1 \in P
  <2>1. PICK g : Sums(f, g, small(n))
    BY <1>3
  <2> DEFINE h == [s \in small(n + 1) |-> SumStep(f, g, s)]
  <2>2. ASSUME NEW s \in small(n + 1)
        PROVE  SumStep(f, h, s) = SumStep(f, g, s)
    <3>1. CASE s = {}
      BY <3>1 DEF SumStep
    <3>2. CASE s # {}
      <4>1. Remainder(s) \in small(n) /\ Remainder(s) \in small(n + 1)
        BY <1>1, <3>2, RemainderIsLess
      <4>2. h[Remainder(s)] = SumStep(f, g, Remainder(s))
        BY <4>1
      <4>3. g[Remainder(s)] = SumStep(f, g, Remainder(s))
        BY <2>1, <4>1 DEF Sums
      <4> QED
        BY <3>2, <4>2, <4>3 DEF SumStep, Remainder
    <3> QED
      BY <3>1, <3>2
  <2>3. Sums(f, h, small(n + 1))
    BY <2>2 DEF Sums
  <2> HIDE DEF h, small
  <2>4. \E k : Sums(f, k, small(n + 1))
    BY <2>3
  <2> QED
    BY <2>4
<1>4. Cardinality(S) \in P
  <2> HIDE DEF P
  <2>1. Nat \subseteq P
    BY <1>2, <1>3, Induction
  <2> QED
    BY <1>1, <2>1
<1>5. small(Cardinality(S)) = SUBSET S
  BY FS_Subset
<1> QED
  BY <1>4, <1>5 DEF AllSums

\* The sums of a set do not depend on the set they are computed within.
LEMMA SumsAgree ==
    ASSUME NEW f, NEW S, IsFiniteSet(S), NEW T, T \subseteq S,
           NEW g, AllSums(f, g, S), NEW h, AllSums(f, h, T)
    PROVE  g[T] = h[T]
<1> DEFINE P == {n \in Nat : \A s \in SUBSET T : Cardinality(s) = n => g[s] = h[s]}
<1>1. \A s \in SUBSET S : IsFiniteSet(s) /\ Cardinality(s) \in Nat
  BY FS_Subset, FS_CardinalityType
<1>2. \A s \in SUBSET T : g[s] = SumStep(f, g, s) /\ h[s] = SumStep(f, h, s)
  BY DEF AllSums, Sums
<1>3. 0 \in P
  <2>1. \A s \in SUBSET T : Cardinality(s) = 0 => s = {}
    BY <1>1, FS_EmptySet
  <2> QED
    BY <1>2, <2>1 DEF SumStep
<1>4. ASSUME NEW n \in Nat, n \in P
      PROVE  n + 1 \in P
  <2> SUFFICES ASSUME NEW s \in SUBSET T, Cardinality(s) = n + 1
               PROVE  g[s] = h[s]
    OBVIOUS
  <2>1. s # {}
    BY <1>1, FS_EmptySet
  <2>2. Remainder(s) \in SUBSET T /\ Cardinality(Remainder(s)) = n
    BY <1>1, <2>1, RemainderIsLess
  <2>3. g[Remainder(s)] = h[Remainder(s)]
    BY <1>4, <2>2
  <2> QED
    BY <1>2, <2>1, <2>3 DEF SumStep, Remainder
<1>5. Cardinality(T) \in P
  <2> HIDE DEF P
  <2>1. Nat \subseteq P
    BY <1>3, <1>4, Induction
  <2> QED
    BY <1>1, <2>1
<1> QED
  BY <1>5

LEMMA SumIsChosen ==
    ASSUME NEW f, NEW S, IsFiniteSet(S)
    PROVE  \E g : AllSums(f, g, S) /\ SumFunctionOnSet(f, S) = g[S]
<1> DEFINE g == CHOOSE g : AllSums(f, g, S)
<1>1. SumFunctionOnSet(f, S) = g[S]
  BY DEF SumFunctionOnSet, FoldFunctionOnSet, MapThenFoldSet, SumStep, Sums, AllSums
<1>2. AllSums(f, g, S)
  BY SumsExist
<1> QED
  BY <1>1, <1>2

LEMMA SumOfNothing ==
    ASSUME NEW f
    PROVE  SumFunctionOnSet(f, {}) = 0
<1>1. IsFiniteSet({})
  BY FS_EmptySet
<1>2. PICK g : AllSums(f, g, {}) /\ SumFunctionOnSet(f, {}) = g[{}]
  BY <1>1, SumIsChosen
<1> QED
  BY <1>2 DEF AllSums, Sums, SumStep

LEMMA SumUnfolds ==
    ASSUME NEW f, NEW S, IsFiniteSet(S), S # {}
    PROVE  SumFunctionOnSet(f, S)
             = f[CHOOSE x \in S : TRUE] + SumFunctionOnSet(f, Remainder(S))
<1>1. PICK g : AllSums(f, g, S) /\ SumFunctionOnSet(f, S) = g[S]
  BY SumIsChosen
<1>2. IsFiniteSet(Remainder(S)) /\ Remainder(S) \in SUBSET S
  BY RemainderIsLess
<1>3. PICK h : /\ AllSums(f, h, Remainder(S))
               /\ SumFunctionOnSet(f, Remainder(S)) = h[Remainder(S)]
  BY <1>2, SumIsChosen
<1>4. g[Remainder(S)] = h[Remainder(S)]
  <2> DEFINE T == Remainder(S)
  <2>1. T \subseteq S /\ AllSums(f, h, T) /\ AllSums(f, g, S)
    BY <1>1, <1>2, <1>3
  <2> HIDE DEF T
  <2>2. g[T] = h[T]
    BY <2>1, SumsAgree
  <2> QED
    BY <2>2 DEF T
<1>5. g[S] = SumStep(f, g, S)
  BY <1>1 DEF AllSums, Sums
<1> QED
  BY <1>1, <1>3, <1>4, <1>5 DEF SumStep, Remainder

\* A sum does not depend on the order in which it is taken.
LEMMA SumTakesOut ==
    ASSUME NEW S, IsFiniteSet(S), NEW f, \A x \in S : f[x] \in Int
    PROVE  /\ SumFunctionOnSet(f, S) \in Int
           /\ \A x \in S :
                /\ SumFunctionOnSet(f, S \ {x}) \in Int
                /\ SumFunctionOnSet(f, S) = f[x] + SumFunctionOnSet(f, S \ {x})
<1> DEFINE sum(T) == SumFunctionOnSet(f, T)
           right(T) == /\ sum(T) \in Int
                       /\ \A x \in T : /\ sum(T \ {x}) \in Int
                                        /\ sum(T) = f[x] + sum(T \ {x})
           P == {n \in Nat : \A T \in SUBSET S : Cardinality(T) = n => right(T)}
<1>1. \A T \in SUBSET S : IsFiniteSet(T) /\ Cardinality(T) \in Nat
  BY FS_Subset, FS_CardinalityType
<1>2. 0 \in P
  <2>1. \A T \in SUBSET S : Cardinality(T) = 0 => T = {}
    BY <1>1, FS_EmptySet
  <2>2. sum({}) = 0
    BY SumOfNothing
  <2>3. right({})
    BY <2>2
  <2> HIDE DEF right
  <2> QED
    BY <2>1, <2>3
<1>3. ASSUME NEW n \in Nat, n \in P
      PROVE  n + 1 \in P
  <2> HIDE DEF right
  <2> SUFFICES ASSUME NEW T \in SUBSET S, Cardinality(T) = n + 1
               PROVE  right(T)
    OBVIOUS
  <2> DEFINE c == CHOOSE x \in T : TRUE
  <2>1. IsFiniteSet(T) /\ T # {}
    BY <1>1, FS_EmptySet
  <2>2. c \in T /\ f[c] \in Int
    BY <2>1
  <2>3. ASSUME NEW x \in T
        PROVE  T \ {x} \in SUBSET S /\ Cardinality(T \ {x}) = n
    <3>1. Cardinality(T \ {x}) = Cardinality(T) - 1
      BY <2>1, FS_RemoveElement
    <3> QED
      BY <3>1
  <2>4. \A x \in T : right(T \ {x})
    BY <1>3, <2>3
  <2>5. sum(T) = f[c] + sum(T \ {c})
    BY <2>1, SumUnfolds DEF Remainder
  <2> HIDE DEF c, sum
  <2>6. ASSUME NEW x \in T, x # c
        PROVE  sum(T) = f[x] + sum(T \ {x})
    <3>1. (T \ {c}) \ {x} = (T \ {x}) \ {c}
      OBVIOUS
    <3>2. sum(T \ {c}) = f[x] + sum((T \ {c}) \ {x})
      BY <2>2, <2>4, <2>6 DEF right
    <3>3. sum(T \ {x}) = f[c] + sum((T \ {x}) \ {c})
      BY <2>2, <2>4, <2>6 DEF right
    <3>4. /\ sum((T \ {c}) \ {x}) \in Int /\ f[x] \in Int
      BY <2>2, <2>4, <2>6 DEF right
    <3>5. sum((T \ {x}) \ {c}) = sum((T \ {c}) \ {x})
      BY <3>1
    <3> DEFINE a == sum((T \ {c}) \ {x})
               b == sum(T \ {x})
               d == sum(T \ {c})
               e == sum(T)
    <3>6. e = f[c] + d /\ d = f[x] + a /\ b = f[c] + a /\ a \in Int
      BY <2>5, <3>2, <3>3, <3>4, <3>5
    <3> HIDE DEF a, b, d, e
    <3>7. e = f[x] + b
      BY <2>2, <3>4, <3>6
    <3> QED
      BY <3>7 DEF b, e
  <2>7. \A x \in T : sum(T \ {x}) \in Int
    BY <2>4 DEF right
  <2>8. \A x \in T : sum(T) = f[x] + sum(T \ {x})
    BY <2>5, <2>6
  <2>9. sum(T) \in Int
    BY <2>2, <2>5, <2>7
  <2> QED
    BY <2>7, <2>8, <2>9 DEF right
<1>4. Cardinality(S) \in P
  <2> HIDE DEF P
  <2>1. Nat \subseteq P
    BY <1>2, <1>3, Induction
  <2> QED
    BY <1>1, <2>1
<1>5. right(S)
  <2> HIDE DEF right
  <2> QED
    BY <1>4
<1> QED
  BY <1>5
\* A sum is at most another one whose terms are at least as large.
LEMMA SumIsMonotone ==
    ASSUME NEW S, IsFiniteSet(S),
           NEW f, \A x \in S : f[x] \in Int,
           NEW g, \A x \in S : g[x] \in Int /\ f[x] <= g[x]
    PROVE  SumFunctionOnSet(f, S) <= SumFunctionOnSet(g, S)
<1> DEFINE P == {n \in Nat : \A T \in SUBSET S : Cardinality(T) = n =>
                    SumFunctionOnSet(f, T) <= SumFunctionOnSet(g, T)}
<1>1. \A T \in SUBSET S : IsFiniteSet(T) /\ Cardinality(T) \in Nat
  BY FS_Subset, FS_CardinalityType
<1>2. 0 \in P
  <2>1. \A T \in SUBSET S : Cardinality(T) = 0 => T = {}
    BY <1>1, FS_EmptySet
  <2> QED
    BY <2>1, SumOfNothing
<1>3. ASSUME NEW n \in Nat, n \in P
      PROVE  n + 1 \in P
  <2> SUFFICES ASSUME NEW T \in SUBSET S, Cardinality(T) = n + 1
               PROVE  SumFunctionOnSet(f, T) <= SumFunctionOnSet(g, T)
    OBVIOUS
  <2>1. IsFiniteSet(T) /\ T # {}
    BY <1>1, FS_EmptySet
  <2>2. PICK x \in T : TRUE
    BY <2>1
  <2>3. Cardinality(T \ {x}) = n
    <3>1. Cardinality(T \ {x}) = Cardinality(T) - 1
      BY <2>1, <2>2, FS_RemoveElement
    <3> QED
      BY <3>1
  <2>4. SumFunctionOnSet(f, T \ {x}) <= SumFunctionOnSet(g, T \ {x})
    BY <1>3, <2>3
  <2>5. /\ SumFunctionOnSet(f, T) = f[x] + SumFunctionOnSet(f, T \ {x})
        /\ SumFunctionOnSet(f, T \ {x}) \in Int
    BY <2>1, SumTakesOut
  <2>6. /\ SumFunctionOnSet(g, T) = g[x] + SumFunctionOnSet(g, T \ {x})
        /\ SumFunctionOnSet(g, T \ {x}) \in Int
    BY <2>1, SumTakesOut
  <2> QED
    BY <2>4, <2>5, <2>6
<1>4. Cardinality(S) \in P
  <2> HIDE DEF P
  <2>1. Nat \subseteq P
    BY <1>2, <1>3, Induction
  <2> QED
    BY <1>1, <2>1
<1> QED
  BY <1>4

\* Sorting by any order: lower[x] are the elements in front of x.
RankIn(lower, x) == 1 + Cardinality(lower[x])

IsOrder(S, lower) ==
    /\ lower \in [S -> SUBSET S]
    /\ \A x \in S : x \notin lower[x]
    /\ \A x, y \in S : x # y => x \in lower[y] \/ y \in lower[x]
    /\ \A x, y \in S : y \in lower[x] => lower[y] \subseteq lower[x]

LEMMA RankType ==
    ASSUME NEW S, IsFiniteSet(S), NEW lower, IsOrder(S, lower), NEW x \in S
    PROVE  RankIn(lower, x) \in 1 .. Cardinality(S)
<1>1. lower[x] \in SUBSET S /\ x \notin lower[x]
  BY DEF IsOrder
<1>2. IsFiniteSet(lower[x]) /\ Cardinality(lower[x]) <= Cardinality(S)
      /\ (Cardinality(lower[x]) = Cardinality(S) => lower[x] = S)
  BY <1>1, FS_Subset
<1>3. Cardinality(lower[x]) \in Nat /\ Cardinality(S) \in Nat
  BY <1>2, FS_CardinalityType
<1> QED
  BY <1>1, <1>2, <1>3 DEF RankIn

LEMMA RankIncreases ==
    ASSUME NEW S, IsFiniteSet(S), NEW lower, IsOrder(S, lower),
           NEW x \in S, NEW y \in lower[x]
    PROVE  RankIn(lower, y) < RankIn(lower, x)
<1>1. lower[x] \in SUBSET S /\ lower[y] \in SUBSET lower[x] /\ y \notin lower[y]
  BY DEF IsOrder
<1>2. IsFiniteSet(lower[x])
  BY <1>1, FS_Subset
<1>3. IsFiniteSet(lower[y]) /\ Cardinality(lower[y]) <= Cardinality(lower[x])
      /\ Cardinality(lower[x]) # Cardinality(lower[y])
  BY <1>1, <1>2, FS_Subset
<1>4. Cardinality(lower[x]) \in Nat /\ Cardinality(lower[y]) \in Nat
  BY <1>2, <1>3, FS_CardinalityType
<1> QED
  BY <1>3, <1>4 DEF RankIn

LEMMA RankInjective ==
    ASSUME NEW S, IsFiniteSet(S), NEW lower, IsOrder(S, lower),
           NEW x \in S, NEW y \in S, RankIn(lower, x) = RankIn(lower, y)
    PROVE  x = y
<1> SUFFICES ASSUME x # y PROVE FALSE
  OBVIOUS
<1>1. x \in lower[y] \/ y \in lower[x]
  BY DEF IsOrder
<1>2. RankIn(lower, x) \in Int /\ RankIn(lower, y) \in Int
  BY RankType
<1> QED
  BY <1>1, <1>2, RankIncreases

LEMMA RankTaken ==
    ASSUME NEW S, IsFiniteSet(S), NEW lower, IsOrder(S, lower),
           NEW k \in 1 .. Cardinality(S)
    PROVE  \E x \in S : RankIn(lower, x) = k
<1> SUFFICES ASSUME \A x \in S : RankIn(lower, x) # k
             PROVE  FALSE
  OBVIOUS
<1> DEFINE n == Cardinality(S)
           T == (1 .. n) \ {k}
           f == [x \in S |-> RankIn(lower, x)]
<1>1. n \in Nat
  BY FS_CardinalityType
<1>2. IsFiniteSet(1 .. n) /\ Cardinality(1 .. n) = n
  BY <1>1, FS_Interval
<1>3. IsFiniteSet(T) /\ Cardinality(T) = n - 1
  BY <1>2, FS_RemoveElement
<1>4. f \in [S -> T]
  BY RankType
<1>5. Cardinality(T) < Cardinality(S)
  BY <1>1, <1>3
<1>6. \E x, y \in S : x # y /\ f[x] = f[y]
  <2> HIDE DEF f, T
  <2> QED
    BY <1>3, <1>4, <1>5, FS_PigeonHole
<1> QED
  BY <1>6, RankInjective

----------------------------------------------------------------------------
(* Sequences                                                               *)

\* Induction over sequences, P being the set of those it is shown for.
LEMMA SequenceInduction ==
    ASSUME NEW S, NEW P, <<>> \in P,
           \A s \in Seq(S) : \A e \in S : s \in P => Append(s, e) \in P
    PROVE  Seq(S) \subseteq P
<1> DEFINE Q == {n \in Nat : \A s \in Seq(S) : Len(s) = n => s \in P}
<1>1. 0 \in Q
  <2>1. \A s \in Seq(S) : Len(s) = 0 => s = <<>>
    BY EmptySeq
  <2> QED
    BY <2>1
<1>2. ASSUME NEW n \in Nat, n \in Q
      PROVE  n + 1 \in Q
  <2> SUFFICES ASSUME NEW s \in Seq(S), Len(s) = n + 1
               PROVE  s \in P
    OBVIOUS
  <2>1. s # <<>>
    BY EmptySeq
  <2>2. PICK t \in Seq(S), e \in S : s = Append(t, e)
    BY <2>1, SequenceEmptyOrAppend
  <2>3. Len(t) = n
    BY <2>2, AppendProperties, LenProperties
  <2> QED
    BY <1>2, <2>2, <2>3
<1>3. Nat \subseteq Q
  <2> HIDE DEF Q
  <2> QED
    BY <1>1, <1>2, Induction
<1> QED
  BY <1>3, LenProperties

----------------------------------------------------------------------------
(* Sequences of sequences, put together *)

FlattenStep(ss, g, i) == IF i = 1 THEN ss[i] ELSE g[i - 1] \o ss[i]

\* g holds the first n sequences of ss put together, and all of their prefixes.
Flattens(ss, n, g) == g = [i \in 1 .. n |-> FlattenStep(ss, g, i)]

\* Any number of sequences has one.
LEMMA FlattensExist ==
    ASSUME NEW ss, NEW N \in Nat
    PROVE  \E g : Flattens(ss, N, g)
<1> DEFINE P == {n \in Nat : \E g : Flattens(ss, n, g)}
<1>1. 0 \in P
  <2>1. Flattens(ss, 0, [i \in 1 .. 0 |-> <<>>])
    BY DEF Flattens
  <2> QED
    BY <2>1
<1>2. ASSUME NEW n \in Nat, n \in P
      PROVE  n + 1 \in P
  <2>1. PICK g : Flattens(ss, n, g)
    BY <1>2
  <2> DEFINE h == [i \in 1 .. n + 1 |-> FlattenStep(ss, g, i)]
  <2>2. \A i \in 1 .. n : g[i] = FlattenStep(ss, g, i)
    BY <2>1 DEF Flattens
  <2>3. \A i \in 1 .. n : h[i] = g[i]
    BY <2>2
  <2>4. ASSUME NEW i \in 1 .. n + 1
        PROVE  FlattenStep(ss, h, i) = FlattenStep(ss, g, i)
    <3>1. CASE i = 1
      BY <3>1 DEF FlattenStep
    <3>2. CASE i # 1
      <4>1. i - 1 \in 1 .. n
        BY <3>2
      <4>2. h[i - 1] = g[i - 1]
        BY <2>3, <4>1
      <4> HIDE DEF h
      <4> QED
        BY <4>2 DEF FlattenStep
    <3> QED
      BY <3>1, <3>2
  <2>5. Flattens(ss, n + 1, h)
    BY <2>4 DEF Flattens
  <2> HIDE DEF h
  <2> QED
    BY <2>5
<1>3. Nat \subseteq P
  <2> HIDE DEF P
  <2> QED
    BY <1>1, <1>2, Induction
<1> QED
  BY <1>3

\* What is put together of the first n does not depend on what follows them.
LEMMA FlattensAgree ==
    ASSUME NEW N \in Nat, NEW M \in Nat,
           NEW ss, NEW g, Flattens(ss, N, g),
           NEW tt, NEW h, Flattens(tt, M, h),
           NEW m \in 1 .. N, m <= M,
           \A i \in 1 .. m : ss[i] = tt[i]
    PROVE  g[m] = h[m]
<1> DEFINE P == {n \in Nat : n + 1 <= m => g[n + 1] = h[n + 1]}
<1>1. /\ \A i \in 1 .. N : g[i] = FlattenStep(ss, g, i)
      /\ \A i \in 1 .. M : h[i] = FlattenStep(tt, h, i)
  BY DEF Flattens
<1>2. 0 \in P
  <2>1. 1 \in 1 .. N /\ 1 \in 1 .. M /\ 1 \in 1 .. m
    OBVIOUS
  <2>2. g[1] = FlattenStep(ss, g, 1) /\ h[1] = FlattenStep(tt, h, 1)
    BY <1>1, <2>1
  <2>3. g[1] = h[1]
    BY <2>1, <2>2 DEF FlattenStep
  <2> QED
    BY <2>3
<1>3. ASSUME NEW n \in Nat, n \in P
      PROVE  n + 1 \in P
  <2> SUFFICES ASSUME n + 2 <= m
               PROVE  g[n + 2] = h[n + 2]
    OBVIOUS
  <2>1. n + 2 \in 1 .. N /\ n + 2 \in 1 .. M /\ n + 2 \in 1 .. m /\ n + 2 # 1
        /\ (n + 2) - 1 = n + 1
    OBVIOUS
  <2>2. g[n + 1] = h[n + 1]
    BY <1>3
  <2>3. g[n + 2] = FlattenStep(ss, g, n + 2) /\ h[n + 2] = FlattenStep(tt, h, n + 2)
    BY <1>1, <2>1
  <2>4. ss[n + 2] = tt[n + 2]
    BY <2>1
  <2> QED
    BY <2>1, <2>2, <2>3, <2>4 DEF FlattenStep
<1>4. Nat \subseteq P
  <2> HIDE DEF P
  <2> QED
    BY <1>2, <1>3, Induction
<1>5. m - 1 \in Nat /\ (m - 1) + 1 = m
  OBVIOUS
<1> QED
  BY <1>4, <1>5

\* FlattenSeq is the last prefix of one.
LEMMA FlattenIsChosen ==
    ASSUME NEW ss, Len(ss) \in Nat, Len(ss) # 0
    PROVE  \E g : Flattens(ss, Len(ss), g) /\ FlattenSeq(ss) = g[Len(ss)]
<1> DEFINE g == CHOOSE g : Flattens(ss, Len(ss), g)
<1>1. FlattenSeq(ss) = g[Len(ss)]
  BY DEF FlattenSeq, Flattens, FlattenStep
<1>2. Flattens(ss, Len(ss), g)
  BY FlattensExist
<1> QED
  BY <1>1, <1>2

\* One sequence more is put behind those before it.
LEMMA FlattenUnfolds ==
    ASSUME NEW S, NEW ss \in Seq(Seq(S)), NEW s \in Seq(S)
    PROVE  FlattenSeq(Append(ss, s))
             = IF ss = <<>> THEN s ELSE FlattenSeq(ss) \o s
<1> DEFINE tt == Append(ss, s)
           n == Len(ss)
<1>1. /\ tt \in Seq(Seq(S)) /\ Len(tt) = n + 1 /\ n \in Nat
      /\ \A i \in 1 .. n : tt[i] = ss[i]
      /\ tt[n + 1] = s
      /\ n = 0 <=> ss = <<>>
  BY AppendProperties, LenProperties, EmptySeq
<1> HIDE DEF tt
<1>2. PICK h : Flattens(tt, n + 1, h) /\ FlattenSeq(tt) = h[n + 1]
  BY <1>1, FlattenIsChosen
<1>3. h[n + 1] = FlattenStep(tt, h, n + 1)
  <2>1. \A i \in 1 .. n + 1 : h[i] = FlattenStep(tt, h, i)
    BY <1>2 DEF Flattens
  <2> QED
    BY <1>1, <2>1
<1>4. CASE n = 0
  BY <1>1, <1>2, <1>3, <1>4 DEF tt, FlattenStep
<1>5. CASE n # 0
  <2>1. PICK g : Flattens(ss, n, g) /\ FlattenSeq(ss) = g[n]
    BY <1>1, <1>5, FlattenIsChosen
  <2>2. g[n] = h[n]
    <3>1. n \in 1 .. n /\ n <= n + 1 /\ n + 1 \in Nat /\ \A i \in 1 .. n : ss[i] = tt[i]
      BY <1>1, <1>5
    <3> HIDE DEF n
    <3> QED
      BY <1>1, <1>2, <2>1, <3>1, FlattensAgree
  <2>3. FlattenStep(tt, h, n + 1) = h[n] \o s
    BY <1>1, <1>5 DEF FlattenStep
  <2> QED
    BY <1>1, <1>2, <1>3, <1>5, <2>1, <2>2, <2>3 DEF tt
<1> QED
  BY <1>4, <1>5

\* Sequences over S put together are a sequence over S.
LEMMA FlattenType ==
    ASSUME NEW S, NEW ss \in Seq(Seq(S))
    PROVE  FlattenSeq(ss) \in Seq(S)
<1> DEFINE P == {tt \in Seq(Seq(S)) : FlattenSeq(tt) \in Seq(S)}
<1>1. <<>> \in P
  BY EmptySeq DEF FlattenSeq
<1>2. \A tt \in Seq(Seq(S)) : \A s \in Seq(S) : tt \in P => Append(tt, s) \in P
  BY FlattenUnfolds, AppendProperties, ConcatProperties
<1>3. Seq(Seq(S)) \subseteq P
  <2> HIDE DEF P
  <2> QED
    BY <1>1, <1>2, SequenceInduction
<1> QED
  BY <1>3

\* FlattenSeq begins with nothing and takes one sequence after the other.
LEMMA FlattenAppend ==
    ASSUME NEW S, NEW ss \in Seq(Seq(S)), NEW s \in Seq(S)
    PROVE  /\ FlattenSeq(<<>>) = <<>>
           /\ FlattenSeq(Append(ss, s)) = FlattenSeq(ss) \o s
<1>1. FlattenSeq(<<>>) = <<>>
  BY DEF FlattenSeq
<1>2. <<>> \o s = s
  BY ConcatEmptySeq
<1> QED
  BY <1>1, <1>2, FlattenUnfolds

\* Where the k-th sequence begins in the whole.
LEMMA FlattenPlaces ==
    ASSUME NEW S, NEW ss \in Seq(Seq(S)), NEW k \in 1 .. Len(ss)
    PROVE  \E o \in Nat : \A j \in 1 .. Len(ss[k]) :
             /\ o + j \in 1 .. Len(FlattenSeq(ss))
             /\ FlattenSeq(ss)[o + j] = ss[k][j]
<1> DEFINE placed(tt, i) == \E o \in Nat : \A j \in 1 .. Len(tt[i]) :
                /\ o + j \in 1 .. Len(FlattenSeq(tt))
                /\ FlattenSeq(tt)[o + j] = tt[i][j]
           P == {tt \in Seq(Seq(S)) : \A i \in 1 .. Len(tt) : placed(tt, i)}
<1>1. <<>> \in P
  BY EmptySeq
<1>2. ASSUME NEW tt \in Seq(Seq(S)), NEW s \in Seq(S), tt \in P
      PROVE  Append(tt, s) \in P
  <2> DEFINE uu == Append(tt, s)
             f == FlattenSeq(tt)
             g == FlattenSeq(uu)
  <2>1. /\ uu \in Seq(Seq(S)) /\ Len(tt) \in Nat /\ Len(uu) = Len(tt) + 1
        /\ uu[Len(tt) + 1] = s /\ \A i \in 1 .. Len(tt) : uu[i] = tt[i]
    BY AppendProperties, LenProperties
  <2>2. f \in Seq(S) /\ g = f \o s /\ Len(f) \in Nat /\ Len(s) \in Nat
    BY FlattenType, FlattenAppend, LenProperties
  <2>3. /\ Len(g) = Len(f) + Len(s)
        /\ \A i \in 1 .. Len(f) : g[i] = f[i]
        /\ \A i \in 1 .. Len(s) : g[Len(f) + i] = s[i]
    BY <2>2, ConcatProperties
  <2> HIDE DEF uu, f, g
  <2>4. ASSUME NEW i \in 1 .. Len(tt)
        PROVE  placed(uu, i)
    <3>1. PICK o \in Nat : \A j \in 1 .. Len(tt[i]) : o + j \in 1 .. Len(f) /\ f[o + j] = tt[i][j]
      BY <1>2 DEF f
    <3>2. uu[i] = tt[i]
      BY <2>1
    <3>3. \A p \in 1 .. Len(f) : p \in 1 .. Len(g) /\ g[p] = f[p]
      BY <2>2, <2>3
    <3>4. \A j \in 1 .. Len(uu[i]) : o + j \in 1 .. Len(g) /\ g[o + j] = uu[i][j]
      BY <3>1, <3>2, <3>3
    <3> QED
      BY <3>4 DEF g
  <2>5. placed(uu, Len(tt) + 1)
    <3>1. \A j \in 1 .. Len(uu[Len(tt) + 1]) :
            /\ Len(f) + j \in 1 .. Len(g)
            /\ g[Len(f) + j] = uu[Len(tt) + 1][j]
      BY <2>1, <2>2, <2>3
    <3> QED
      BY <2>2, <3>1 DEF g
  <2> HIDE DEF placed
  <2>6. \A i \in 1 .. Len(uu) : placed(uu, i)
    BY <2>1, <2>4, <2>5
  <2> QED
    BY <2>1, <2>6 DEF uu
<1>3. Seq(Seq(S)) \subseteq P
  <2> HIDE DEF P
  <2> QED
    BY <1>1, <1>2, SequenceInduction
<1> QED
  BY <1>3

\* What is at a place of the whole comes from one of the sequences.
LEMMA FlattenOrigin ==
    ASSUME NEW S, NEW ss \in Seq(Seq(S)), NEW q \in 1 .. Len(FlattenSeq(ss))
    PROVE  \E k \in 1 .. Len(ss) : \E j \in 1 .. Len(ss[k]) :
             FlattenSeq(ss)[q] = ss[k][j]
<1> DEFINE from(tt, p) == \E k \in 1 .. Len(tt) : \E j \in 1 .. Len(tt[k]) :
                             FlattenSeq(tt)[p] = tt[k][j]
           P == {tt \in Seq(Seq(S)) : \A p \in 1 .. Len(FlattenSeq(tt)) : from(tt, p)}
<1>1. <<>> \in P
  BY EmptySeq, FlattenAppend
<1>2. ASSUME NEW tt \in Seq(Seq(S)), NEW s \in Seq(S), tt \in P
      PROVE  Append(tt, s) \in P
  <2> DEFINE uu == Append(tt, s)
             f == FlattenSeq(tt)
             g == FlattenSeq(uu)
  <2>1. /\ uu \in Seq(Seq(S)) /\ Len(tt) \in Nat /\ Len(uu) = Len(tt) + 1
        /\ uu[Len(tt) + 1] = s /\ \A i \in 1 .. Len(tt) : uu[i] = tt[i]
    BY AppendProperties, LenProperties
  <2>2. f \in Seq(S) /\ g = f \o s /\ Len(f) \in Nat /\ Len(s) \in Nat
    BY FlattenType, FlattenAppend, LenProperties
  <2>3. /\ Len(g) = Len(f) + Len(s)
        /\ \A i \in 1 .. Len(f) : g[i] = f[i]
        /\ \A i \in Len(f) + 1 .. Len(g) : i - Len(f) \in 1 .. Len(s) /\ g[i] = s[i - Len(f)]
    BY <2>2, ConcatProperties
  <2> HIDE DEF uu, f, g
  <2>4. ASSUME NEW p \in 1 .. Len(f)
        PROVE  from(uu, p)
    <3>1. PICK k \in 1 .. Len(tt) : \E j \in 1 .. Len(tt[k]) : f[p] = tt[k][j]
      BY <1>2 DEF f
    <3>2. k \in 1 .. Len(uu) /\ uu[k] = tt[k] /\ g[p] = f[p]
      BY <2>1, <2>3
    <3> QED
      BY <3>1, <3>2 DEF g
  <2>5. ASSUME NEW p \in Len(f) + 1 .. Len(g)
        PROVE  from(uu, p)
    <3>1. Len(tt) + 1 \in 1 .. Len(uu)
      BY <2>1
    <3> QED
      BY <2>1, <2>3, <3>1 DEF g
  <2> HIDE DEF from
  <2>6. \A p \in 1 .. Len(g) : from(uu, p)
    BY <2>2, <2>4, <2>5
  <2> QED
    BY <2>1, <2>6 DEF uu, g
<1>3. Seq(Seq(S)) \subseteq P
  <2> HIDE DEF P
  <2> QED
    BY <1>1, <1>2, SequenceInduction
<1> QED
  BY <1>3

\* s ascends in the order R.
Ascends(s, R) == \A a, b \in 1 .. Len(s) : a < b => <<s[a], s[b]>> \in R

\* Sequences that ascend, each before the next, ascend when put together.
LEMMA FlattenAscends ==
    ASSUME NEW S, NEW R, NEW ss \in Seq(Seq(S)),
           \A k \in 1 .. Len(ss) : Ascends(ss[k], R),
           \A k, l \in 1 .. Len(ss) : k < l =>
             \A i \in 1 .. Len(ss[k]) : \A j \in 1 .. Len(ss[l]) : <<ss[k][i], ss[l][j]>> \in R
    PROVE  Ascends(FlattenSeq(ss), R)
<1> DEFINE apart(tt, k, l) ==
             \A i \in 1 .. Len(tt[k]) : \A j \in 1 .. Len(tt[l]) : <<tt[k][i], tt[l][j]>> \in R
           good(tt) == /\ \A k \in 1 .. Len(tt) : Ascends(tt[k], R)
                       /\ \A k, l \in 1 .. Len(tt) : k < l => apart(tt, k, l)
           P == {tt \in Seq(Seq(S)) : good(tt) => Ascends(FlattenSeq(tt), R)}
<1>1. <<>> \in P
  BY EmptySeq, FlattenAppend DEF Ascends
<1>2. ASSUME NEW tt \in Seq(Seq(S)), NEW s \in Seq(S), tt \in P
      PROVE  Append(tt, s) \in P
  <2> DEFINE uu == Append(tt, s)
             f == FlattenSeq(tt)
             g == FlattenSeq(uu)
  <2>1. /\ uu \in Seq(Seq(S)) /\ Len(tt) \in Nat /\ Len(uu) = Len(tt) + 1
        /\ uu[Len(tt) + 1] = s /\ \A i \in 1 .. Len(tt) : uu[i] = tt[i]
    BY AppendProperties, LenProperties
  <2>2. f \in Seq(S) /\ g = f \o s /\ Len(f) \in Nat /\ Len(s) \in Nat
    BY FlattenType, FlattenAppend, LenProperties
  <2>3. /\ Len(g) = Len(f) + Len(s)
        /\ \A i \in 1 .. Len(f) : g[i] = f[i]
        /\ \A i \in Len(f) + 1 .. Len(g) : i - Len(f) \in 1 .. Len(s) /\ g[i] = s[i - Len(f)]
    BY <2>2, ConcatProperties
  <2>4. \A a \in 1 .. Len(f) : \E k \in 1 .. Len(tt) : \E j \in 1 .. Len(tt[k]) : f[a] = tt[k][j]
    BY FlattenOrigin
  <2> HIDE DEF uu, f, g
  <2> SUFFICES ASSUME good(uu)
               PROVE  Ascends(g, R)
    BY <2>1 DEF uu, g
  <2>5. good(tt)
    <3>1. \A k \in 1 .. Len(tt) : k \in 1 .. Len(uu) /\ uu[k] = tt[k]
      BY <2>1
    <3>2. \A k, l \in 1 .. Len(tt) : k < l => apart(uu, k, l)
      BY <3>1
    <3> QED
      BY <3>1, <3>2
  <2>6. Ascends(f, R)
    BY <1>2, <2>5 DEF f
  <2>7. Ascends(s, R)
    <3>1. Len(tt) + 1 \in 1 .. Len(uu)
      BY <2>1
    <3> QED
      BY <2>1, <3>1
  <2>8. ASSUME NEW a \in 1 .. Len(f), NEW j \in 1 .. Len(s)
        PROVE  <<f[a], s[j]>> \in R
    <3>1. PICK k \in 1 .. Len(tt) : \E i \in 1 .. Len(tt[k]) : f[a] = tt[k][i]
      BY <2>4
    <3>2. /\ k \in 1 .. Len(uu) /\ Len(tt) + 1 \in 1 .. Len(uu) /\ k < Len(tt) + 1
          /\ uu[k] = tt[k]
      BY <2>1
    <3>3. apart(uu, k, Len(tt) + 1)
      BY <3>2
    <3> QED
      BY <2>1, <3>1, <3>2, <3>3
  <2>9. ASSUME NEW a \in 1 .. Len(g), NEW b \in 1 .. Len(g), a < b
        PROVE  <<g[a], g[b]>> \in R
    <3>1. CASE b <= Len(f)
      <4>1. a \in 1 .. Len(f) /\ b \in 1 .. Len(f)
        BY <2>9, <2>2, <2>3, <3>1
      <4> QED
        BY <2>3, <2>6, <2>9, <4>1 DEF Ascends
    <3>2. CASE a <= Len(f) /\ b > Len(f)
      <4>1. a \in 1 .. Len(f) /\ b \in Len(f) + 1 .. Len(g)
        BY <2>2, <2>3, <3>2
      <4> QED
        BY <2>3, <2>8, <4>1
    <3>3. CASE a > Len(f)
      <4>1. a \in Len(f) + 1 .. Len(g) /\ b \in Len(f) + 1 .. Len(g)
        BY <2>9, <2>2, <2>3, <3>3
      <4>2. a - Len(f) < b - Len(f)
        BY <2>2, <2>9
      <4> QED
        BY <2>3, <2>7, <4>1, <4>2 DEF Ascends
    <3>4. a \in Int /\ b \in Int /\ Len(f) \in Int
      BY <2>2, <2>9
    <3>5. b <= Len(f) \/ (a <= Len(f) /\ b > Len(f)) \/ a > Len(f)
      BY <3>4
    <3> QED
      BY <3>1, <3>2, <3>3, <3>5
  <2> QED
    BY <2>9 DEF Ascends
<1>3. Seq(Seq(S)) \subseteq P
  <2> HIDE DEF P
  <2> QED
    BY <1>1, <1>2, SequenceInduction
<1>4. good(ss)
  OBVIOUS
<1> QED
  BY <1>3, <1>4

\* The whole begins with the first sequence.
LEMMA FlattenBegins ==
    ASSUME NEW S, NEW ss \in Seq(Seq(S)), ss # <<>>, ss[1] # <<>>
    PROVE  FlattenSeq(ss) # <<>> /\ FlattenSeq(ss)[1] = ss[1][1]
<1> DEFINE good(tt) == (tt # <<>> /\ tt[1] # <<>>)
                         => /\ FlattenSeq(tt) # <<>>
                            /\ FlattenSeq(tt)[1] = tt[1][1]
           P == {tt \in Seq(Seq(S)) : good(tt)}
<1>1. <<>> \in P
  BY EmptySeq
<1>2. ASSUME NEW tt \in Seq(Seq(S)), NEW s \in Seq(S), tt \in P
      PROVE  Append(tt, s) \in P
  <2> DEFINE uu == Append(tt, s)
             f == FlattenSeq(tt)
             g == FlattenSeq(uu)
  <2>1. /\ uu \in Seq(Seq(S)) /\ Len(tt) \in Nat /\ Len(uu) = Len(tt) + 1
        /\ uu[Len(tt) + 1] = s /\ \A i \in 1 .. Len(tt) : uu[i] = tt[i]
    BY AppendProperties, LenProperties
  <2>2. f \in Seq(S) /\ g = f \o s /\ Len(f) \in Nat /\ Len(s) \in Nat
    BY FlattenType, FlattenAppend, LenProperties
  <2>3. /\ Len(g) = Len(f) + Len(s)
        /\ g \in Seq(S)
        /\ \A i \in 1 .. Len(f) + Len(s) : g[i] = IF i <= Len(f) THEN f[i] ELSE s[i - Len(f)]
    BY <2>2, ConcatProperties
  <2>4. tt = <<>> => g = s
    BY FlattenUnfolds
  <2>5. (tt = <<>> <=> Len(tt) = 0) /\ (f = <<>> <=> Len(f) = 0) /\ (g = <<>> <=> Len(g) = 0)
    BY <2>2, <2>3, EmptySeq
  <2> HIDE DEF uu, f, g
  <2> SUFFICES ASSUME uu[1] # <<>>
               PROVE  g # <<>> /\ g[1] = uu[1][1]
    BY <2>1 DEF uu, g
  <2>6. CASE tt = <<>>
    BY <2>1, <2>4, <2>5, <2>6
  <2>7. CASE tt # <<>>
    <3>1. uu[1] = tt[1]
      BY <2>1, <2>5, <2>7
    <3>2. f # <<>> /\ f[1] = tt[1][1]
      BY <1>2, <2>7, <3>1 DEF f
    <3>3. Len(g) # 0
      BY <2>2, <2>3, <2>5, <3>2
    <3>4. g[1] = f[1]
      BY <2>2, <2>3, <2>5, <3>2
    <3> QED
      BY <2>5, <3>1, <3>2, <3>3, <3>4
  <2> QED
    BY <2>6, <2>7
<1>3. Seq(Seq(S)) \subseteq P
  <2> HIDE DEF P
  <2> QED
    BY <1>1, <1>2, SequenceInduction
<1> QED
  BY <1>3

\* Putting together is putting together the halves.
LEMMA FlattenConcat ==
    ASSUME NEW S, NEW ss \in Seq(Seq(S)), NEW tt \in Seq(Seq(S))
    PROVE  FlattenSeq(ss \o tt) = FlattenSeq(ss) \o FlattenSeq(tt)
<1> DEFINE P == {uu \in Seq(Seq(S)) : FlattenSeq(ss \o uu) = FlattenSeq(ss) \o FlattenSeq(uu)}
<1>1. <<>> \in P
  BY EmptySeq, ConcatEmptySeq, FlattenType, FlattenAppend
<1>2. ASSUME NEW uu \in Seq(Seq(S)), NEW s \in Seq(S), uu \in P
      PROVE  Append(uu, s) \in P
  <2>1. ss \o Append(uu, s) = Append(ss \o uu, s)
    <3>1. Append(uu, s) = uu \o <<s>> /\ Append(ss \o uu, s) = (ss \o uu) \o <<s>>
      BY AppendIsConcat, ConcatProperties
    <3>2. <<s>> \in Seq(Seq(S))
      OBVIOUS
    <3> QED
      BY <3>1, <3>2, ConcatAssociative
  <2>2. FlattenSeq(Append(ss \o uu, s)) = FlattenSeq(ss \o uu) \o s
    BY ConcatProperties, FlattenAppend
  <2>3. FlattenSeq(ss \o uu) = FlattenSeq(ss) \o FlattenSeq(uu)
    BY <1>2
  <2>4. (FlattenSeq(ss) \o FlattenSeq(uu)) \o s = FlattenSeq(ss) \o (FlattenSeq(uu) \o s)
    <3>1. FlattenSeq(ss) \in Seq(S) /\ FlattenSeq(uu) \in Seq(S)
      BY FlattenType
    <3> QED
      BY SMTT(30), <3>1, ConcatAssociative
  <2>5. FlattenSeq(Append(uu, s)) = FlattenSeq(uu) \o s
    BY FlattenAppend
  <2>6. FlattenSeq(ss \o Append(uu, s)) = FlattenSeq(ss) \o FlattenSeq(Append(uu, s))
    BY <2>1, <2>2, <2>3, <2>4, <2>5
  <2>7. Append(uu, s) \in Seq(Seq(S))
    BY AppendProperties
  <2> QED
    BY <2>6, <2>7
<1>3. Seq(Seq(S)) \subseteq P
  <2> HIDE DEF P
  <2> QED
    BY <1>1, <1>2, SequenceInduction
<1> QED
  BY <1>3

\* The elements of a sequence, each for itself, put together are the sequence.
LEMMA FlattenSingles ==
    ASSUME NEW S, NEW s \in Seq(S)
    PROVE  /\ [k \in DOMAIN s |-> <<s[k]>>] \in Seq(Seq(S))
           /\ FlattenSeq([k \in DOMAIN s |-> <<s[k]>>]) = s
<1> DEFINE single(t) == [k \in DOMAIN t |-> <<t[k]>>]
           P == {t \in Seq(S) : FlattenSeq(single(t)) = t}
<1>1. ASSUME NEW t \in Seq(S)
      PROVE  single(t) \in Seq(Seq(S)) /\ Len(single(t)) = Len(t)
  <2>1. DOMAIN t = 1 .. Len(t) /\ Len(t) \in Nat /\ \A k \in 1 .. Len(t) : t[k] \in S
    BY LenProperties, ElementOfSeq
  <2>2. \A k \in 1 .. Len(t) : <<t[k]>> \in Seq(S)
    BY <2>1
  <2> QED
    BY <2>1, <2>2
<1>2. <<>> \in P
  <2>1. single(<<>>) = <<>>
    BY <1>1, EmptySeq
  <2> QED
    BY <2>1, EmptySeq, FlattenAppend
<1>3. ASSUME NEW t \in Seq(S), NEW e \in S, t \in P
      PROVE  Append(t, e) \in P
  <2> DEFINE u == Append(t, e)
  <2>1. /\ u \in Seq(S) /\ Len(u) = Len(t) + 1 /\ Len(t) \in Nat
        /\ \A i \in 1 .. Len(t) : u[i] = t[i]
        /\ u[Len(t) + 1] = e
        /\ DOMAIN u = 1 .. Len(u) /\ DOMAIN t = 1 .. Len(t)
    BY AppendProperties, LenProperties
  <2> HIDE DEF u
  <2>2. <<e>> \in Seq(S)
    OBVIOUS
  <2>3. /\ single(t) \in Seq(Seq(S)) /\ Len(single(t)) = Len(t)
        /\ single(u) \in Seq(Seq(S)) /\ Len(single(u)) = Len(t) + 1
    BY <1>1, <2>1
  <2>4. /\ \A i \in 1 .. Len(t) : single(u)[i] = single(t)[i]
        /\ single(u)[Len(t) + 1] = <<e>>
    BY <2>1
  <2> HIDE DEF single
  <2>5. /\ Append(single(t), <<e>>) \in Seq(Seq(S))
        /\ Len(Append(single(t), <<e>>)) = Len(t) + 1
        /\ \A i \in 1 .. Len(t) : Append(single(t), <<e>>)[i] = single(t)[i]
        /\ Append(single(t), <<e>>)[Len(t) + 1] = <<e>>
    BY <2>2, <2>3, AppendProperties
  <2>6. \A i \in 1 .. Len(t) + 1 : single(u)[i] = Append(single(t), <<e>>)[i]
    <3>1. \A i \in 1 .. Len(t) : single(u)[i] = Append(single(t), <<e>>)[i]
      BY <2>4, <2>5, Zenon
    <3>2. single(u)[Len(t) + 1] = Append(single(t), <<e>>)[Len(t) + 1]
      BY <2>4, <2>5, Zenon
    <3>3. \A i \in 1 .. Len(t) + 1 : i \in 1 .. Len(t) \/ i = Len(t) + 1
      BY <2>1
    <3> QED
      BY <3>1, <3>2, <3>3, Zenon
  <2>7. single(u) = Append(single(t), <<e>>)
    BY <2>3, <2>5, <2>6, SeqEqual
  <2>8. FlattenSeq(single(u)) = FlattenSeq(single(t)) \o <<e>>
    BY <2>2, <2>3, <2>7, FlattenAppend
  <2>9. t \o <<e>> = u
    BY AppendIsConcat DEF u
  <2> QED
    BY <1>3, <2>1, <2>8, <2>9 DEF u
<1>4. Seq(S) \subseteq P
  <2> HIDE DEF P
  <2> QED
    BY <1>2, <1>3, SequenceInduction
<1> QED
  BY <1>1, <1>4

\* Sums of functions that agree are equal.
LEMMA SumsOfEquals ==
    ASSUME NEW S, IsFiniteSet(S), NEW f, \A x \in S : f[x] \in Int,
           NEW g, \A x \in S : g[x] = f[x]
    PROVE  SumFunctionOnSet(f, S) = SumFunctionOnSet(g, S)
<1>1. SumFunctionOnSet(f, S) \in Int /\ SumFunctionOnSet(g, S) \in Int
  BY SumTakesOut
<1>2. \A x \in S : f[x] <= g[x] /\ g[x] <= f[x] /\ g[x] \in Int
  OBVIOUS
<1>3. SumFunctionOnSet(f, S) <= SumFunctionOnSet(g, S)
  BY <1>2, SumIsMonotone
<1>4. SumFunctionOnSet(g, S) <= SumFunctionOnSet(f, S)
  BY <1>2, SumIsMonotone
<1> QED
  BY <1>1, <1>3, <1>4

\* What is put behind the last sequence is behind all of them.
LEMMA Lengthened ==
    ASSUME NEW S, NEW ps \in Seq(Seq(S)), NEW u \in Seq(S), NEW v \in Seq(S)
    PROVE  (FlattenSeq(ps) \o u) \o v = FlattenSeq(ps) \o (u \o v)
  BY FlattenType, ConcatAssociative

\* One more sequence at the end of a prefix.
LEMMA PrefixGrows ==
    ASSUME NEW S, NEW s \in Seq(S), NEW n \in 0 .. Len(s) - 1
    PROVE  /\ SubSeq(s, 1, n) \in Seq(S) /\ Len(SubSeq(s, 1, n)) = n
           /\ s[n + 1] \in S
           /\ SubSeq(s, 1, n + 1) = Append(SubSeq(s, 1, n), s[n + 1])
<1>1. Len(s) \in Nat /\ \A i \in 1 .. Len(s) : s[i] \in S
  BY LenProperties, ElementOfSeq
<1>2. n \in Int /\ 1 \in Int /\ n + 1 \in 1 .. Len(s) /\ \A i \in 1 .. n : i \in 1 .. Len(s)
  BY <1>1
<1>3. SubSeq(s, 1, n) \in Seq(S) /\ Len(SubSeq(s, 1, n)) = IF 1 <= n THEN n - 1 + 1 ELSE 0
  BY <1>1, <1>2, SubSeqProperties
<1>4. 1 \in 1 .. Len(s) /\ n + 1 \in 1 .. Len(s) /\ (n + 1) - 1 = n
  BY <1>1
<1>5. SubSeq(s, 1, n + 1) = SubSeq(s, 1, (n + 1) - 1) \o <<s[n + 1]>>
  BY <1>4, SubSeqRecursiveSecond
<1>6. s[n + 1] \in S
  BY <1>1, <1>2
<1>7. Append(SubSeq(s, 1, n), s[n + 1]) = SubSeq(s, 1, n) \o <<s[n + 1]>>
  BY <1>3, <1>6, AppendIsConcat
<1>8. Len(SubSeq(s, 1, n)) = n
  BY <1>1, <1>3
<1> QED
  BY <1>3, <1>4, <1>5, <1>6, <1>7, <1>8

============================================================================

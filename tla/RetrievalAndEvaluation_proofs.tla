------------------- MODULE RetrievalAndEvaluation_proofs -------------------
(***************************************************************************)
(* Theorems of Retrieval, what a query retrieves, and of EvaluationRun,    *)
(* what a benchmark reports of it.  RetrievalInv says what each variant    *)
(* has been found so far, BenchmarkInv what each case and the one under    *)
(* way have come to.                                                       *)
(***************************************************************************)
EXTENDS Retrieval, EvaluationRun, Places_proofs, SequenceTheorems

(* Greatest elements *)

LEMMA MaxIsGreatest ==
    ASSUME NEW S \in SUBSET Int, IsFiniteSet(S), S # {}
    PROVE  Max(S) \in S /\ \A i \in S : i <= Max(S)
<1>1. \E m \in S : \A i \in S : i <= m
  BY LeastAndGreatest
<1>2. \E m \in S : \A i \in S : m >= i
  BY <1>1
<1> DEFINE m == CHOOSE m \in S : \A i \in S : m >= i
<1>3. m \in S /\ \A i \in S : m >= i
  BY <1>2
<1>4. Max(S) = m
  BY DEF Max
<1> QED
  BY <1>3, <1>4

LEMMA ValuesAreFinite ==
    ASSUME NEW f, IsFiniteSet(DOMAIN f)
    PROVE  IsFiniteSet({f[x] : x \in DOMAIN f})
<1> DEFINE T == {f[x] : x \in DOMAIN f}
           g == [x \in DOMAIN f |-> f[x]]
<1>1. g \in Surjection(DOMAIN f, T)
  BY DEF Surjection
<1> QED
  BY <1>1, FS_Surjection

LEMMA SeqGrows ==
    ASSUME NEW S, NEW T, S \subseteq T
    PROVE  Seq(S) \subseteq Seq(T)
  OBVIOUS

(* Scores *)

LEMMA UnitIsNatural == Unit \in Nat
<1> DEFINE N == Cardinality(Chunks)
           Step(g, n) == IF n = 0 THEN 1 ELSE g[n - 1] * (RrfK + n)
           Products(g, m) == g = [n \in 0 .. m |-> Step(g, n)]
           P == {m \in Nat : \E g : Products(g, m)}
<1>1. N \in Nat /\ RrfK \in Nat
  BY WantedAreChunks, RrfKIsPositive, FS_CardinalityType
<1>2. 0 \in P
  <2> DEFINE g == [n \in 0 .. 0 |-> 1]
  <2>1. Products(g, 0)
    OBVIOUS
  <2> QED
    BY <2>1
<1>3. ASSUME NEW m \in Nat, m \in P
      PROVE  m + 1 \in P
  <2>1. PICK g : Products(g, m)
    BY <1>3
  <2> DEFINE h == [n \in 0 .. m + 1 |-> IF n <= m THEN g[n] ELSE g[m] * (RrfK + (m + 1))]
  <2>2. \A n \in 0 .. m : g[n] = Step(g, n)
    BY <2>1
  <2>3. ASSUME NEW n \in 0 .. m + 1
        PROVE  h[n] = Step(h, n)
    <3>1. CASE n <= m
      <4>1. n = 0 \/ (n - 1 \in 0 .. m /\ n - 1 \in 0 .. m + 1 /\ n - 1 <= m)
        BY <3>1
      <4>2. h[n] = g[n] /\ g[n] = Step(g, n)
        BY <2>1, <2>2, <3>1
      <4> QED
        BY <4>1, <4>2
    <3>2. CASE n = m + 1
      <4>1. m \in 0 .. m + 1 /\ h[m] = g[m]
        BY <2>1
      <4>2. h[n] = g[m] * (RrfK + (m + 1))
        BY <3>2
      <4> QED
        BY <3>2, <4>1, <4>2
    <3> QED
      BY <3>1, <3>2
  <2>4. Products(h, m + 1)
    BY <2>3
  <2> HIDE DEF h, Products
  <2> QED
    BY <2>3, <2>4
<1>4. \E g : Products(g, N)
  <2> HIDE DEF P
  <2>1. Nat \subseteq P
    BY <1>2, <1>3, Induction
  <2> QED
    BY <1>1, <2>1 DEF P
<1> DEFINE h == CHOOSE h : Products(h, N)
           Q == {m \in Nat : m <= N => h[m] \in Nat}
<1>5. Unit = h[N]
  BY DEF Unit
<1>6. Products(h, N)
  BY <1>4
<1> HIDE DEF h
<1>7. 0 \in Q
  BY <1>1, <1>6
<1>8. ASSUME NEW m \in Nat, m \in Q
      PROVE  m + 1 \in Q
  <2> SUFFICES ASSUME m + 1 <= N
               PROVE  h[m + 1] \in Nat
    OBVIOUS
  <2>1. h[m] \in Nat
    BY <1>1, <1>8
  <2>2. h[m + 1] = h[m] * (RrfK + (m + 1))
    BY <1>1, <1>6
  <2> QED
    BY <1>1, <2>1, <2>2
<1>9. N \in Q
  <2> HIDE DEF Q
  <2>1. Nat \subseteq Q
    BY <1>7, <1>8, Induction
  <2> QED
    BY <1>1, <2>1
<1> QED
  BY <1>5, <1>9

\* Dividing by more gives less.
LEMMA QuotientFalls ==
    ASSUME NEW u \in Nat, NEW a \in Nat \ {0}, NEW b \in Nat \ {0}, a <= b
    PROVE  u \div b <= u \div a /\ u \div a \in Nat
<1> DEFINE q == u \div a
           p == u \div b
<1>1. q \in Nat /\ p \in Nat
  OBVIOUS
<1>2. u < a * (q + 1)
  OBVIOUS
<1>3. b * p <= u
  OBVIOUS
<1> HIDE DEF p, q
<1>4. a * p <= b * p
  BY <1>1
<1>5. a * p < a * (q + 1)
  BY <1>1, <1>2, <1>3, <1>4
<1>6. p < q + 1
  BY <1>1, <1>5
<1> QED
  BY <1>1, <1>6 DEF p, q

(* Rankings: sequences of items without repetition *)

IsRankings(rankings, S) ==
    /\ rankings \in Seq(Seq(S))
    /\ \A i \in DOMAIN rankings : IsInjective(rankings[i])

LEMMA RankingsAreLists ==
    ASSUME NEW S, NEW rankings, IsRankings(rankings, S)
    PROVE  /\ Len(rankings) \in Nat
           /\ DOMAIN rankings = 1 .. Len(rankings)
           /\ IsFiniteSet(DOMAIN rankings)
           /\ \A i \in DOMAIN rankings :
                /\ rankings[i] \in Seq(S)
                /\ Len(rankings[i]) \in Nat
                /\ DOMAIN rankings[i] = 1 .. Len(rankings[i])
                /\ \A p \in DOMAIN rankings[i] : rankings[i][p] \in S
<1>1. /\ Len(rankings) \in Nat
      /\ DOMAIN rankings = 1 .. Len(rankings)
      /\ \A i \in DOMAIN rankings : rankings[i] \in Seq(S)
  BY DEF IsRankings
<1>2. IsFiniteSet(1 .. Len(rankings))
  BY <1>1, FS_Interval
<1> QED
  BY <1>1, <1>2

\* The place of x in a ranking is the only one.
LEMMA TermOfPlace ==
    ASSUME NEW S, NEW rankings, IsRankings(rankings, S), NEW i \in DOMAIN rankings,
           NEW x, NEW p \in Positions(rankings[i], x)
    PROVE  Term(rankings, x, i) = Unit \div (RrfK + p)
<1> DEFINE ps == Positions(rankings[i], x)
<1>1. \A q \in ps : q = p
  BY DEF IsRankings, Positions, IsInjective
<1>2. (CHOOSE r \in ps : TRUE) = p
  BY <1>1
<1> QED
  BY <1>2 DEF Term

LEMMA TermType ==
    ASSUME NEW S, NEW rankings, IsRankings(rankings, S), NEW i \in DOMAIN rankings, NEW x
    PROVE  Term(rankings, x, i) \in Nat
<1>1. CASE Positions(rankings[i], x) = {}
  BY <1>1 DEF Term
<1>2. ASSUME NEW p \in Positions(rankings[i], x)
      PROVE  Term(rankings, x, i) \in Nat
  <2>1. p \in Nat \ {0} /\ RrfK + p \in Nat \ {0}
    BY RankingsAreLists, RrfKIsPositive DEF Positions
  <2>2. Unit \div (RrfK + p) \in Nat
    BY <2>1, UnitIsNatural, QuotientFalls
  <2> QED
    BY <2>2, TermOfPlace
<1> QED
  BY <1>1, <1>2

\* An item that is in front gets no less.
LEMMA TermOfAhead ==
    ASSUME NEW S, NEW rankings, IsRankings(rankings, S), NEW i \in DOMAIN rankings,
           NEW x, NEW y, Ahead(rankings[i], x, y)
    PROVE  Term(rankings, y, i) <= Term(rankings, x, i)
<1>1. CASE Positions(rankings[i], y) = {}
  BY <1>1, TermType DEF Term
<1>2. ASSUME NEW q \in Positions(rankings[i], y)
      PROVE  Term(rankings, y, i) <= Term(rankings, x, i)
  <2>1. PICK p \in Positions(rankings[i], x) : p < q
    BY <1>2 DEF Ahead
  <2>2. p \in Nat \ {0} /\ q \in Nat \ {0} /\ RrfK \in Nat
    BY <1>2, RankingsAreLists, RrfKIsPositive DEF Positions
  <2>3. RrfK + p \in Nat \ {0} /\ RrfK + q \in Nat \ {0} /\ RrfK + p <= RrfK + q
    BY <2>1, <2>2
  <2>4. Unit \div (RrfK + q) <= Unit \div (RrfK + p)
    BY <2>3, UnitIsNatural, QuotientFalls
  <2> QED
    BY <1>2, <2>1, <2>4, TermOfPlace
<1> QED
  BY <1>1, <1>2

LEMMA ScoreType ==
    ASSUME NEW S, NEW rankings, IsRankings(rankings, S), NEW x
    PROVE  FusedScore(rankings, x) \in Int
<1> DEFINE f == [i \in DOMAIN rankings |-> Term(rankings, x, i)]
<1>1. \A i \in DOMAIN rankings : f[i] \in Int
  BY TermType
<1>2. IsFiniteSet(DOMAIN rankings)
  BY RankingsAreLists
<1>3. FusedScore(rankings, x) = SumFunctionOnSet(f, DOMAIN rankings)
  BY DEF FusedScore, SumFunction
<1> HIDE DEF f
<1> QED
  BY <1>1, <1>2, <1>3, SumTakesOut

\* What is in front in every ranking has no lower score.
LEMMA ScoreOfAhead ==
    ASSUME NEW S, NEW rankings, IsRankings(rankings, S), NEW x, NEW y,
           \A i \in DOMAIN rankings : Ahead(rankings[i], x, y)
    PROVE  FusedScore(rankings, y) <= FusedScore(rankings, x)
<1> DEFINE f == [i \in DOMAIN rankings |-> Term(rankings, y, i)]
           g == [i \in DOMAIN rankings |-> Term(rankings, x, i)]
<1>1. \A i \in DOMAIN rankings : f[i] \in Int /\ g[i] \in Int /\ f[i] <= g[i]
  BY TermType, TermOfAhead
<1>2. IsFiniteSet(DOMAIN rankings)
  BY RankingsAreLists
<1>3. /\ FusedScore(rankings, y) = SumFunctionOnSet(f, DOMAIN rankings)
      /\ FusedScore(rankings, x) = SumFunctionOnSet(g, DOMAIN rankings)
  BY DEF FusedScore, SumFunction
<1> HIDE DEF f, g
<1> QED
  BY <1>1, <1>2, <1>3, SumIsMonotone

\* The order of first appearance: one of two items is seen first.
LEMMA SeenIsTotal ==
    ASSUME NEW S, NEW rankings, IsRankings(rankings, S),
           NEW x \in Items(rankings), NEW y \in Items(rankings), x # y
    PROVE  SeenBefore(rankings, x, y) \/ SeenBefore(rankings, y, x)
<1> DEFINE D == {i \in DOMAIN rankings : x \in ToSet(rankings[i]) \/ y \in ToSet(rankings[i])}
<1>1. IsFiniteSet(D) /\ D \in SUBSET Int /\ D # {}
  <2>1. D # {}
    BY DEF Items
  <2>2. IsFiniteSet(D)
    BY RankingsAreLists, FS_Subset
  <2> QED
    BY <2>1, <2>2, RankingsAreLists
<1>2. PICK i \in D : \A j \in D : i <= j
  BY <1>1, LeastAndGreatest
<1>3. i \in 1 .. Len(rankings) /\ Len(rankings) \in Nat
  BY <1>2, RankingsAreLists
<1>4. \A j \in 1 .. i - 1 : x \notin ToSet(rankings[j]) /\ y \notin ToSet(rankings[j])
  <2> SUFFICES ASSUME NEW j \in 1 .. i - 1
               PROVE  j \notin D
    BY <1>3, RankingsAreLists
  <2> QED
    BY <1>2, <1>3
<1> DEFINE r == rankings[i]
<1>5. \A z : (z \in ToSet(r) <=> Positions(r, z) # {})
  BY DEF ToSet, Positions
<1>6. /\ \A z : \A p, q \in Positions(r, z) : p = q
      /\ \A z : Positions(r, z) \subseteq Nat
  BY <1>2, RankingsAreLists DEF IsRankings, Positions, IsInjective
<1>7. \A p \in Positions(r, x) : \A q \in Positions(r, y) : p # q
  BY DEF Positions
<1>8. CASE Positions(r, x) = {}
  BY <1>2, <1>4, <1>5, <1>8 DEF SeenBefore
<1>9. CASE Positions(r, y) = {}
  BY <1>2, <1>4, <1>5, <1>9 DEF SeenBefore
<1>10. ASSUME NEW p \in Positions(r, x), NEW q \in Positions(r, y)
       PROVE  SeenBefore(rankings, x, y) \/ SeenBefore(rankings, y, x)
  <2>1. p < q \/ q < p
    BY <1>6, <1>7, <1>10
  <2>2. CASE p < q
    <3>1. \A u \in Positions(r, y) : p < u
      BY <1>6, <1>10, <2>2
    <3> QED
      BY <1>2, <1>4, <1>10, <3>1 DEF SeenBefore
  <2>3. CASE q < p
    <3>1. \A u \in Positions(r, x) : q < u
      BY <1>6, <1>10, <2>3
    <3> QED
      BY <1>2, <1>4, <1>10, <3>1 DEF SeenBefore
  <2> QED
    BY <2>1, <2>2, <2>3
<1> QED
  BY <1>8, <1>9, <1>10

LEMMA SeenIsOrder ==
    ASSUME NEW S, NEW rankings, IsRankings(rankings, S)
    PROVE  /\ \A x : ~ SeenBefore(rankings, x, x)
           /\ \A x, y, z : SeenBefore(rankings, x, y) /\ SeenBefore(rankings, y, z)
                            => SeenBefore(rankings, x, z)
<1>1. \A x : ~ SeenBefore(rankings, x, x)
  BY RankingsAreLists DEF SeenBefore, Positions
<1>2. ASSUME NEW x, NEW y, NEW z, SeenBefore(rankings, x, y), SeenBefore(rankings, y, z)
      PROVE  SeenBefore(rankings, x, z)
  <2>1. PICK i \in DOMAIN rankings :
          /\ \A j \in 1 .. i - 1 : y \notin ToSet(rankings[j])
          /\ \E p \in Positions(rankings[i], x) : \A q \in Positions(rankings[i], y) : p < q
    BY <1>2 DEF SeenBefore
  <2>2. PICK k \in DOMAIN rankings :
          /\ \A j \in 1 .. k - 1 : z \notin ToSet(rankings[j])
          /\ \E p \in Positions(rankings[k], y) : \A q \in Positions(rankings[k], z) : p < q
    BY <1>2 DEF SeenBefore
  <2>3. i \in Nat \ {0} /\ k \in Nat \ {0}
    BY RankingsAreLists
  <2>4. y \in ToSet(rankings[k])
    BY <2>2 DEF ToSet, Positions
  <2>5. i <= k
    BY <2>1, <2>3, <2>4
  <2>6. \A j \in 1 .. i - 1 : z \notin ToSet(rankings[j])
    BY <2>2, <2>3, <2>5
  <2>7. PICK p \in Positions(rankings[i], x) : \A q \in Positions(rankings[i], y) : p < q
    BY <2>1
  <2>8. \A q \in Positions(rankings[i], z) : p < q
    <3>1. CASE i < k
      <4>1. z \notin ToSet(rankings[i])
        BY <2>2, <2>3, <3>1
      <4> QED
        BY <4>1 DEF ToSet, Positions
    <3>2. CASE i = k
      <4>1. PICK u \in Positions(rankings[i], y) : \A q \in Positions(rankings[i], z) : u < q
        BY <2>2, <3>2
      <4>2. p < u
        BY <2>7
      <4>3. \A v : Positions(rankings[i], v) \subseteq Int
        BY RankingsAreLists DEF Positions
      <4> QED
        BY <4>1, <4>2, <4>3
    <3> QED
      BY <2>3, <2>5, <3>1, <3>2
  <2> QED
    BY <2>6, <2>7, <2>8 DEF SeenBefore
<1> QED
  BY <1>1, <1>2

\* The items that are sorted in front of each.
InFront(rankings) ==
    [x \in Items(rankings) |-> {y \in Items(rankings) : SortedBefore(rankings, y, x)}]

LEMMA ItemsAreFinite ==
    ASSUME NEW S, IsFiniteSet(S), NEW rankings, IsRankings(rankings, S)
    PROVE  Items(rankings) \in SUBSET S /\ IsFiniteSet(Items(rankings))
<1>1. Items(rankings) \in SUBSET S
  BY RankingsAreLists DEF Items, ToSet
<1> QED
  BY <1>1, FS_Subset

LEMMA SortIsOrder ==
    ASSUME NEW S, IsFiniteSet(S), NEW rankings, IsRankings(rankings, S)
    PROVE  IsOrder(Items(rankings), InFront(rankings))
<1> DEFINE I == Items(rankings)
           score(x) == FusedScore(rankings, x)
           before(x, y) == SortedBefore(rankings, x, y)
<1>1. \A x : score(x) \in Int
  BY ScoreType
<1>2. \A x, y : before(x, y) <=> \/ score(x) > score(y)
                                \/ (score(x) = score(y) /\ SeenBefore(rankings, x, y))
  BY DEF SortedBefore
<1> HIDE DEF score, before
<1>3. \A x \in I : ~ before(x, x)
  BY <1>1, <1>2, SeenIsOrder
<1>4. \A x, y \in I : x # y => before(x, y) \/ before(y, x)
  BY <1>1, <1>2, SeenIsTotal
<1>5. \A x, y, z \in I : before(x, y) /\ before(y, z) => before(x, z)
  BY <1>1, <1>2, SeenIsOrder
<1>6. InFront(rankings) = [x \in I |-> {y \in I : before(y, x)}]
  BY DEF InFront, before
<1> HIDE DEF I
<1>7. IsOrder(I, InFront(rankings))
  BY <1>3, <1>4, <1>5, <1>6 DEF IsOrder
<1> QED
  BY <1>7 DEF I

\* Fused returns every item once, in the order they are sorted in.
LEMMA FusedIsSorted ==
    ASSUME NEW S, IsFiniteSet(S), NEW rankings, IsRankings(rankings, S)
    PROVE  /\ Fused(rankings) \in Seq(S)
           /\ IsInjective(Fused(rankings))
           /\ ToSet(Fused(rankings)) = Items(rankings)
           /\ \A x, y \in Items(rankings) :
                SortedBefore(rankings, x, y) => Ahead(Fused(rankings), x, y)
<1> DEFINE I == Items(rankings)
           lower == InFront(rankings)
           F == Fused(rankings)
           N == Cardinality(I)
<1>1. IsFiniteSet(I) /\ I \in SUBSET S /\ N \in Nat
  BY ItemsAreFinite, FS_CardinalityType
<1>2. IsOrder(I, lower)
  BY SortIsOrder
<1> DEFINE place == [x \in I |-> 1 + Cardinality({y \in I : SortedBefore(rankings, y, x)})]
<1>3. /\ F = [n \in 1 .. N |-> CHOOSE x \in I : place[x] = n]
      /\ \A x \in I : place[x] = RankIn(lower, x)
  <2>1. F = [n \in 1 .. N |-> CHOOSE x \in I : place[x] = n]
    BY DEF Fused
  <2>2. \A x \in I : place[x] = RankIn(lower, x)
    BY DEF RankIn, InFront
  <2> QED
    BY <2>1, <2>2
<1> HIDE DEF I, lower, F, N, place
<1>4. \A n \in 1 .. N : F[n] \in I /\ RankIn(lower, F[n]) = n
  <2> SUFFICES ASSUME NEW n \in 1 .. N
               PROVE  F[n] \in I /\ RankIn(lower, F[n]) = n
    OBVIOUS
  <2>1. \E x \in I : RankIn(lower, x) = n
    BY <1>1, <1>2, RankTaken DEF N
  <2> QED
    BY <1>3, <2>1
<1>5. \A x \in I : RankIn(lower, x) \in 1 .. N /\ F[RankIn(lower, x)] = x
  <2> SUFFICES ASSUME NEW x \in I
               PROVE  RankIn(lower, x) \in 1 .. N /\ F[RankIn(lower, x)] = x
    OBVIOUS
  <2>1. RankIn(lower, x) \in 1 .. N
    BY <1>1, <1>2, RankType DEF N
  <2>2. /\ F[RankIn(lower, x)] \in I
        /\ RankIn(lower, F[RankIn(lower, x)]) = RankIn(lower, x)
    BY <1>4, <2>1
  <2> QED
    BY <1>1, <1>2, <2>1, <2>2, RankInjective
<1>6. DOMAIN F = 1 .. N
  BY <1>3
<1>7. F \in Seq(S)
  BY <1>1, <1>3, <1>4
<1>8. IsInjective(F)
  BY <1>4, <1>6 DEF IsInjective
<1>9. ToSet(F) = I
  BY <1>4, <1>5, <1>6 DEF ToSet
<1>10. ASSUME NEW x \in I, NEW y \in I, SortedBefore(rankings, x, y)
       PROVE  Ahead(F, x, y)
  <2>1. x \in lower[y]
    BY <1>10 DEF lower, InFront, I
  <2>2. RankIn(lower, x) < RankIn(lower, y)
    BY <1>1, <1>2, <2>1, RankIncreases
  <2>3. RankIn(lower, x) \in Positions(F, x)
    BY <1>5, <1>6 DEF Positions
  <2>4. \A j \in Positions(F, y) : j = RankIn(lower, y)
    BY <1>4, <1>6 DEF Positions
  <2> QED
    BY <2>2, <2>3, <2>4 DEF Ahead
<1> QED
  BY <1>7, <1>8, <1>9, <1>10 DEF F, I

\* What is in front in every ranking is in front of what is fused of them.
LEMMA FusedRespects ==
    ASSUME NEW S, IsFiniteSet(S), NEW rankings, IsRankings(rankings, S),
           NEW x, NEW y, x # y,
           \A i \in DOMAIN rankings : Ahead(rankings[i], x, y)
    PROVE  Ahead(Fused(rankings), x, y)
<1>1. CASE y \notin Items(rankings)
  <2>1. Positions(Fused(rankings), y) = {}
    BY <1>1, FusedIsSorted DEF Positions, ToSet
  <2> QED
    BY <2>1 DEF Ahead
<1>2. CASE y \in Items(rankings)
  <2>1. x \in Items(rankings)
    <3>1. PICK i \in DOMAIN rankings : y \in ToSet(rankings[i])
      BY <1>2 DEF Items
    <3>2. PICK p : p \in Positions(rankings[i], x)
      BY <3>1 DEF Ahead, ToSet, Positions
    <3> QED
      BY <3>2 DEF Items, ToSet, Positions
  <2>2. FusedScore(rankings, y) <= FusedScore(rankings, x)
    BY ScoreOfAhead
  <2>3. ~ SeenBefore(rankings, y, x)
    <3> SUFFICES ASSUME SeenBefore(rankings, y, x)
                 PROVE  FALSE
      OBVIOUS
    <3>1. PICK i \in DOMAIN rankings :
            \E q \in Positions(rankings[i], y) : \A p \in Positions(rankings[i], x) : q < p
      BY DEF SeenBefore
    <3>2. PICK q \in Positions(rankings[i], y) : \A p \in Positions(rankings[i], x) : q < p
      BY <3>1
    <3>3. PICK p \in Positions(rankings[i], x) : p < q
      BY DEF Ahead
    <3>4. p \in Int /\ q \in Int
      BY RankingsAreLists DEF Positions
    <3> QED
      BY <3>2, <3>3, <3>4
  <2>4. SeenBefore(rankings, x, y)
    BY <1>2, <2>1, <2>3, SeenIsTotal
  <2>5. SortedBefore(rankings, x, y)
    BY <2>2, <2>4, ScoreType DEF SortedBefore
  <2> QED
    BY <1>2, <2>1, <2>5, FusedIsSorted
<1> QED
  BY <1>1, <1>2

(* What one search and one variant return *)

Hit == [chunk : Found, score : Nat \ {0}]

Candidate == [chunk : Found, dense : Nat, sparse : Nat]

\* A search returns found chunks, each once and with a score.
HitLists(S) == {l \in Seq([chunk : S, score : Nat \ {0}]) : IsInjective(ChunksOf(l))}

LEMMA HitsAreRanked ==
    ASSUME NEW S, NEW list \in HitLists(S)
    PROVE  /\ ChunksOf(list) \in Seq(S)
           /\ IsInjective(ChunksOf(list))
           /\ \A x : ScoreIn(list, x) \in Nat
           /\ \A x \in ToSet(ChunksOf(list)) : ScoreIn(list, x) # 0
<1>1. list \in Seq([chunk : S, score : Nat \ {0}]) /\ IsInjective(ChunksOf(list))
  BY DEF HitLists
<1>2. /\ Len(list) \in Nat /\ DOMAIN list = 1 .. Len(list)
      /\ \A i \in DOMAIN list : list[i].chunk \in S /\ list[i].score \in Nat \ {0}
  <2> DEFINE H == [chunk : S, score : Nat \ {0}]
  <2>1. \A x \in H : x.chunk \in S /\ x.score \in Nat \ {0}
    OBVIOUS
  <2>2. list \in Seq(H)
    BY <1>1
  <2> HIDE DEF H
  <2>3. Len(list) \in Nat /\ DOMAIN list = 1 .. Len(list) /\ \A i \in DOMAIN list : list[i] \in H
    BY <2>2
  <2> QED
    BY <2>1, <2>3
<1>3. ChunksOf(list) \in Seq(S) /\ DOMAIN ChunksOf(list) = DOMAIN list
  BY <1>2 DEF ChunksOf
<1>4. ASSUME NEW x, Positions(ChunksOf(list), x) # {}
      PROVE  ScoreIn(list, x) \in Nat \ {0}
  <2> DEFINE p == CHOOSE i \in Positions(ChunksOf(list), x) : TRUE
  <2>1. p \in DOMAIN list
    BY <1>3, <1>4 DEF Positions
  <2>2. ScoreIn(list, x) = list[p].score
    BY <1>4 DEF ScoreIn
  <2> HIDE DEF p
  <2> QED
    BY <1>2, <2>1, <2>2
<1>5. ASSUME NEW x, Positions(ChunksOf(list), x) = {}
      PROVE  ScoreIn(list, x) = 0
  BY <1>5 DEF ScoreIn
<1>6. \A x \in ToSet(ChunksOf(list)) : Positions(ChunksOf(list), x) # {}
  BY DEF ToSet, Positions
<1> QED
  BY <1>1, <1>3, <1>4, <1>5, <1>6

LEMMA CutKeeps ==
    ASSUME NEW S, NEW s \in Seq(S), IsInjective(s), NEW n \in Nat
    PROVE  /\ Cut(s, n) \in Seq(S)
           /\ IsInjective(Cut(s, n))
           /\ DOMAIN Cut(s, n) \subseteq DOMAIN s
           /\ \A i \in DOMAIN Cut(s, n) : Cut(s, n)[i] = s[i]
           /\ \A x, y : Ahead(s, x, y) => Ahead(Cut(s, n), x, y)
<1>1. Len(s) \in Nat /\ DOMAIN s = 1 .. Len(s) /\ \A i \in DOMAIN s : s[i] \in S
  OBVIOUS
<1>2. PICK m \in Nat : /\ m <= Len(s)
                       /\ Cut(s, n) \in Seq(S)
                       /\ DOMAIN Cut(s, n) = 1 .. m
                       /\ \A i \in 1 .. m : Cut(s, n)[i] = s[i]
  <2>1. CASE Len(s) > n
    BY <1>1, <2>1 DEF Cut
  <2>2. CASE ~ (Len(s) > n)
    <3>1. Cut(s, n) = s
      BY <2>2 DEF Cut
    <3> DEFINE m == Len(s)
    <3>2. m \in Nat /\ m <= Len(s) /\ DOMAIN Cut(s, n) = 1 .. m /\ Cut(s, n) \in Seq(S)
      BY <1>1, <3>1
    <3>3. \A i \in 1 .. m : Cut(s, n)[i] = s[i]
      BY <3>1
    <3> HIDE DEF m
    <3> QED
      BY <3>2, <3>3
  <2> QED
    BY <2>1, <2>2
<1>3. IsInjective(Cut(s, n))
  BY <1>1, <1>2 DEF IsInjective
<1>4. ASSUME NEW x, NEW y, Ahead(s, x, y)
      PROVE  Ahead(Cut(s, n), x, y)
  <2> SUFFICES ASSUME NEW j \in Positions(Cut(s, n), y)
               PROVE  \E i \in Positions(Cut(s, n), x) : i < j
    BY DEF Ahead
  <2>1. j \in 1 .. m /\ j \in Positions(s, y)
    BY <1>1, <1>2 DEF Positions
  <2>2. PICK i \in Positions(s, x) : i < j
    BY <1>4, <2>1 DEF Ahead
  <2>3. i \in 1 .. m
    BY <1>1, <2>1, <2>2 DEF Positions
  <2> QED
    BY <1>2, <2>2, <2>3 DEF Positions
<1> QED
  BY <1>1, <1>2, <1>3, <1>4

\* The candidates of a variant with hits h: chunks that its searches returned,
\* each once, with their scores and in an order both agree with.
Keeps(list, h) ==
    /\ IsInjective(ChunksOf(list))
    /\ \A i \in DOMAIN list :
         /\ list[i].dense = ScoreIn(h.dense, list[i].chunk)
         /\ list[i].sparse = ScoreIn(h.sparse, list[i].chunk)
         /\ list[i].dense # 0 \/ list[i].sparse # 0
    /\ \A x, y : /\ x # y
                 /\ Ahead(ChunksOf(h.dense), x, y)
                 /\ Ahead(ChunksOf(h.sparse), x, y)
                 => Ahead(ChunksOf(list), x, y)

LEMMA FoundIsFinite == ASSUME visible \in SUBSET Chunks PROVE IsFiniteSet(Found)
<1>1. Found \in SUBSET Chunks
  BY WantedAreChunks DEF Found
<1> QED
  BY <1>1, WantedAreChunks, FS_Subset

LEMMA CandidatesAreRight ==
    ASSUME visible \in SUBSET Chunks, strategy \in Strategies, limits.top \in Nat,
           NEW h, h.dense \in HitLists(Found), h.sparse \in HitLists(Found)
    PROVE  Candidates(h) \in Seq(Candidate) /\ Keeps(Candidates(h), h)
<1> DEFINE d == ChunksOf(h.dense)
           s == ChunksOf(h.sparse)
           both == <<d, s>>
           order == CASE strategy = "dense" -> d
                      [] strategy = "sparse" -> s
                      [] strategy = "hybrid" -> Cut(Fused(both), limits.top)
           right(o) == /\ o \in Seq(Found)
                       /\ IsInjective(o)
                       /\ \A i \in DOMAIN o : o[i] \in ToSet(d) \union ToSet(s)
                       /\ \A x, y : x # y /\ Ahead(d, x, y) /\ Ahead(s, x, y)
                                     => Ahead(o, x, y)
<1>1. Candidates(h) = [i \in DOMAIN order |-> [chunk |-> order[i],
                                               dense |-> ScoreIn(h.dense, order[i]),
                                               sparse |-> ScoreIn(h.sparse, order[i])]]
  BY DEF Candidates
<1>2. d \in Seq(Found) /\ IsInjective(d) /\ s \in Seq(Found) /\ IsInjective(s)
  BY HitsAreRanked
<1> HIDE DEF d, s
<1>3. right(d) /\ right(s)
  BY <1>2 DEF ToSet
<1>4. right(Cut(Fused(both), limits.top))
  <2>1. IsRankings(both, Found) /\ DOMAIN both = 1 .. 2 /\ both[1] = d /\ both[2] = s
    BY <1>2 DEF IsRankings
  <2> HIDE DEF both
  <2> DEFINE F == Fused(both)
  <2>2. F \in Seq(Found) /\ IsInjective(F) /\ ToSet(F) = Items(both)
    BY <2>1, FoundIsFinite, FusedIsSorted
  <2>3. \A x, y : x # y /\ Ahead(d, x, y) /\ Ahead(s, x, y) => Ahead(F, x, y)
    BY <2>1, FoundIsFinite, FusedRespects
  <2>4. Items(both) \subseteq ToSet(d) \union ToSet(s)
    BY <2>1 DEF Items
  <2> HIDE DEF F
  <2>5. \A i \in DOMAIN F : F[i] \in ToSet(F)
    BY DEF ToSet
  <2>6. /\ Cut(F, limits.top) \in Seq(Found)
        /\ IsInjective(Cut(F, limits.top))
        /\ \A i \in DOMAIN Cut(F, limits.top) : i \in DOMAIN F /\ Cut(F, limits.top)[i] = F[i]
        /\ \A x, y : Ahead(F, x, y) => Ahead(Cut(F, limits.top), x, y)
    BY <2>2, CutKeeps
  <2>7. right(Cut(F, limits.top))
    BY <2>2, <2>3, <2>4, <2>5, <2>6
  <2> QED
    BY <2>7 DEF F
<1>5. right(order)
  <2> HIDE DEF right, both
  <2> QED
    BY <1>3, <1>4 DEF Strategies
<1> HIDE DEF order
<1>6. /\ DOMAIN order = 1 .. Len(order) /\ Len(order) \in Nat
      /\ \A i \in DOMAIN order : order[i] \in Found
  BY <1>5
<1>7. ChunksOf(Candidates(h)) = order
  BY <1>1, <1>6, <1>5 DEF ChunksOf
<1>8. \A x : ScoreIn(h.dense, x) \in Nat /\ ScoreIn(h.sparse, x) \in Nat
  BY HitsAreRanked
<1>9. \A i \in DOMAIN order : ScoreIn(h.dense, order[i]) # 0 \/ ScoreIn(h.sparse, order[i]) # 0
  BY <1>5, HitsAreRanked DEF d, s
<1>10. Candidates(h) \in Seq(Candidate)
  BY <1>1, <1>6, <1>8 DEF Candidate
<1>11. Keeps(Candidates(h), h)
  BY <1>1, <1>5, <1>7, <1>9 DEF Keeps, d, s
<1> QED
  BY <1>10, <1>11

(* What the variants are fused to *)

\* A candidate comes from a search and has the best score that each method
\* gave its chunk in the variants that kept it.
Provenance(c, hs, rs) ==
    LET of == {v \in DOMAIN rs : c.chunk \in ToSet(ChunksOf(rs[v]))}
    IN  /\ c.dense # 0 \/ c.sparse # 0
        /\ c.dense \in {ScoreIn(hs[v].dense, c.chunk) : v \in of}
        /\ c.sparse \in {ScoreIn(hs[v].sparse, c.chunk) : v \in of}
        /\ \A v \in of : /\ ScoreIn(hs[v].dense, c.chunk) <= c.dense
                         /\ ScoreIn(hs[v].sparse, c.chunk) <= c.sparse

IsMerged(list, hs, rs) ==
    /\ IsInjective(ChunksOf(list))
    /\ \A i \in DOMAIN list : Provenance(list[i], hs, rs)
    /\ \A x, y : (/\ x # y
                  /\ \A v \in DOMAIN hs : /\ Ahead(ChunksOf(hs[v].dense), x, y)
                                          /\ Ahead(ChunksOf(hs[v].sparse), x, y))
                 => Ahead(ChunksOf(list), x, y)

CandidateOf(S) == [chunk : S, dense : Nat, sparse : Nat]

\* The scores that the variants have for a chunk, and the best of them.
LEMMA BestIsBest ==
    ASSUME NEW S, NEW hs, NEW rs \in Seq(Seq(CandidateOf(S))),
           \A v \in DOMAIN rs : Keeps(rs[v], hs[v]),
           NEW c, \E v \in DOMAIN rs : c \in ToSet(ChunksOf(rs[v]))
    PROVE  Provenance(Best(rs, c), hs, rs) /\ Best(rs, c).dense \in Nat
             /\ Best(rs, c).sparse \in Nat /\ Best(rs, c).chunk = c
<1> DEFINE of == {v \in DOMAIN rs : c \in ToSet(ChunksOf(rs[v]))}
           dense(v) == ScoreIn(hs[v].dense, c)
           sparse(v) == ScoreIn(hs[v].sparse, c)
           offers == Offers(rs, c)
<1>1. /\ Len(rs) \in Nat /\ DOMAIN rs = 1 .. Len(rs)
      /\ \A v \in DOMAIN rs : \A j \in DOMAIN rs[v] : rs[v][j] \in CandidateOf(S)
  OBVIOUS
<1>2. IsFiniteSet(of) /\ of # {}
  <2>1. IsFiniteSet(1 .. Len(rs))
    BY <1>1, FS_Interval
  <2> QED
    BY <1>1, <2>1, FS_Subset
<1>3. \A v \in of : \E j \in DOMAIN rs[v] : rs[v][j].chunk = c
  BY DEF ToSet, ChunksOf
<1>4. \A v \in DOMAIN rs : \A j \in DOMAIN rs[v] :
        rs[v][j].chunk = c => /\ v \in of
                              /\ rs[v][j].dense = dense(v)
                              /\ rs[v][j].sparse = sparse(v)
                              /\ dense(v) \in Nat /\ sparse(v) \in Nat
                              /\ dense(v) # 0 \/ sparse(v) # 0
  <2> SUFFICES ASSUME NEW v \in DOMAIN rs, NEW j \in DOMAIN rs[v], rs[v][j].chunk = c
               PROVE  /\ v \in of
                      /\ rs[v][j].dense = dense(v)
                      /\ rs[v][j].sparse = sparse(v)
                      /\ dense(v) \in Nat /\ sparse(v) \in Nat
                      /\ dense(v) # 0 \/ sparse(v) # 0
    OBVIOUS
  <2>1. v \in of
    BY DEF ToSet, ChunksOf
  <2>2. rs[v][j].dense \in Nat /\ rs[v][j].sparse \in Nat
    BY <1>1 DEF CandidateOf
  <2> QED
    BY <2>1, <2>2 DEF Keeps
<1>5. \A d \in offers : \E v \in of : d.dense = dense(v) /\ d.sparse = sparse(v)
  <2> SUFFICES ASSUME NEW d \in offers
               PROVE  \E v \in of : d.dense = dense(v) /\ d.sparse = sparse(v)
    OBVIOUS
  <2>1. PICK v \in DOMAIN rs : d \in ToSet(rs[v]) /\ d.chunk = c
    BY DEF Offers
  <2>2. PICK j \in DOMAIN rs[v] : d = rs[v][j]
    BY <2>1 DEF ToSet
  <2> QED
    BY <1>4, <2>1, <2>2
<1>6. \A v \in of : /\ \E d \in offers : d.dense = dense(v) /\ d.sparse = sparse(v)
                    /\ dense(v) \in Nat /\ sparse(v) \in Nat
                    /\ dense(v) # 0 \/ sparse(v) # 0
  <2> SUFFICES ASSUME NEW v \in of
               PROVE  /\ \E d \in offers : d.dense = dense(v) /\ d.sparse = sparse(v)
                      /\ dense(v) \in Nat /\ sparse(v) \in Nat
                      /\ dense(v) # 0 \/ sparse(v) # 0
    OBVIOUS
  <2>1. PICK j \in DOMAIN rs[v] : rs[v][j].chunk = c
    BY <1>3
  <2>2. rs[v][j] \in offers
    BY <2>1 DEF Offers, ToSet
  <2> QED
    BY <1>4, <2>1, <2>2
<1> HIDE DEF of, dense, sparse, offers
<1>7. /\ {d.dense : d \in offers} = {dense(v) : v \in of}
      /\ {d.sparse : d \in offers} = {sparse(v) : v \in of}
  BY SMTT(30), <1>5, <1>6
<1>8. /\ IsFiniteSet({dense(v) : v \in of}) /\ {dense(v) : v \in of} \in SUBSET Int
      /\ IsFiniteSet({sparse(v) : v \in of}) /\ {sparse(v) : v \in of} \in SUBSET Int
  <2> DEFINE f == [v \in of |-> dense(v)]
             g == [v \in of |-> sparse(v)]
  <2>1. IsFiniteSet({f[v] : v \in DOMAIN f}) /\ IsFiniteSet({g[v] : v \in DOMAIN g})
    BY <1>2, ValuesAreFinite
  <2>2. {f[v] : v \in DOMAIN f} = {dense(v) : v \in of}
    OBVIOUS
  <2>3. {g[v] : v \in DOMAIN g} = {sparse(v) : v \in of}
    OBVIOUS
  <2>4. {dense(v) : v \in of} \in SUBSET Int /\ {sparse(v) : v \in of} \in SUBSET Int
    BY <1>6
  <2> HIDE DEF f, g
  <2> QED
    BY <2>1, <2>2, <2>3, <2>4
<1>9. /\ {dense(v) : v \in of} # {} /\ {sparse(v) : v \in of} # {}
  BY <1>2
<1> DEFINE b == Best(rs, c)
<1>10. /\ b.chunk = c
       /\ b.dense = Max({dense(v) : v \in of})
       /\ b.sparse = Max({sparse(v) : v \in of})
  BY <1>7 DEF Best, offers
<1>11. b.dense \in {dense(v) : v \in of} /\ \A n \in {dense(v) : v \in of} : n <= b.dense
  BY <1>8, <1>9, <1>10, MaxIsGreatest
<1>12. b.sparse \in {sparse(v) : v \in of} /\ \A n \in {sparse(v) : v \in of} : n <= b.sparse
  BY <1>8, <1>9, <1>10, MaxIsGreatest
<1> HIDE DEF b
<1>13. b.dense \in Nat /\ b.sparse \in Nat
  BY <1>6, <1>11, <1>12
<1>14. b.dense # 0 \/ b.sparse # 0
  <2>1. PICK v \in of : TRUE
    BY <1>2
  <2>2. dense(v) <= b.dense /\ sparse(v) <= b.sparse
    BY <1>11, <1>12
  <2> QED
    BY <1>6, <1>13, <2>2
<1>15. Provenance(b, hs, rs)
  BY <1>10, <1>11, <1>12, <1>14 DEF Provenance, of, dense, sparse
<1> QED
  BY <1>10, <1>13, <1>15 DEF b

\* _fuse_variants loses no provenance and no agreement.
LEMMA FuseVariantsKeeps ==
    ASSUME NEW S, IsFiniteSet(S), NEW hs, NEW rs \in Seq(Seq(CandidateOf(S))),
           Len(rs) # 0, DOMAIN hs = DOMAIN rs,
           \A v \in DOMAIN rs : Keeps(rs[v], hs[v])
    PROVE  FuseVariants(rs) \in Seq(CandidateOf(S)) /\ IsMerged(FuseVariants(rs), hs, rs)
<1>1. /\ Len(rs) \in Nat /\ DOMAIN rs = 1 .. Len(rs)
      /\ \A v \in DOMAIN rs : /\ rs[v] \in Seq(CandidateOf(S))
                              /\ \A j \in DOMAIN rs[v] : rs[v][j] \in CandidateOf(S)
  OBVIOUS
<1>2. \A v \in DOMAIN rs : ChunksOf(rs[v]) \in Seq(S) /\ DOMAIN ChunksOf(rs[v]) = DOMAIN rs[v]
  <2> SUFFICES ASSUME NEW v \in DOMAIN rs
               PROVE  ChunksOf(rs[v]) \in Seq(S) /\ DOMAIN ChunksOf(rs[v]) = DOMAIN rs[v]
    OBVIOUS
  <2>1. /\ Len(rs[v]) \in Nat /\ DOMAIN rs[v] = 1 .. Len(rs[v])
        /\ \A j \in DOMAIN rs[v] : rs[v][j].chunk \in S
    BY <1>1 DEF CandidateOf
  <2> QED
    BY <2>1 DEF ChunksOf
<1>3. CASE Len(rs) = 1
  <2>1. DOMAIN rs = {1} /\ FuseVariants(rs) = rs[1]
    BY <1>1, <1>3 DEF FuseVariants
  <2>2. Keeps(rs[1], hs[1])
    BY <2>1
  <2>3. ASSUME NEW i \in DOMAIN rs[1]
        PROVE  Provenance(rs[1][i], hs, rs)
    <3> DEFINE c == rs[1][i]
    <3>1. c.chunk \in ToSet(ChunksOf(rs[1]))
      BY DEF ToSet, ChunksOf
    <3>2. {v \in DOMAIN rs : c.chunk \in ToSet(ChunksOf(rs[v]))} = {1}
      BY <2>1, <3>1
    <3>3. /\ c.dense = ScoreIn(hs[1].dense, c.chunk)
          /\ c.sparse = ScoreIn(hs[1].sparse, c.chunk)
          /\ c.dense # 0 \/ c.sparse # 0
      BY <2>2 DEF Keeps
    <3>4. c.dense \in Nat /\ c.sparse \in Nat
      BY <1>1, <2>1 DEF CandidateOf
    <3> DEFINE of == {v \in DOMAIN rs : c.chunk \in ToSet(ChunksOf(rs[v]))}
    <3> HIDE DEF c
    <3>5. /\ c.dense \in {ScoreIn(hs[v].dense, c.chunk) : v \in of}
          /\ c.sparse \in {ScoreIn(hs[v].sparse, c.chunk) : v \in of}
          /\ \A v \in of : /\ ScoreIn(hs[v].dense, c.chunk) <= c.dense
                           /\ ScoreIn(hs[v].sparse, c.chunk) <= c.sparse
      <4>1. of = {1}
        BY <3>2
      <4> HIDE DEF of
      <4> QED
        BY <3>3, <3>4, <4>1
    <3>6. Provenance(c, hs, rs)
      BY <3>3, <3>5 DEF Provenance
    <3> QED
      BY <3>6 DEF c
  <2>4. IsMerged(rs[1], hs, rs)
    BY <2>1, <2>2, <2>3 DEF IsMerged, Keeps
  <2> QED
    BY <1>1, <2>1, <2>4
<1>4. CASE Len(rs) # 1
  <2> DEFINE lists == [v \in DOMAIN rs |-> ChunksOf(rs[v])]
             order == Fused(lists)
             list == [i \in DOMAIN order |-> Best(rs, order[i])]
  <2>1. FuseVariants(rs) = list
    BY <1>4 DEF FuseVariants
  <2>2. IsRankings(lists, S) /\ DOMAIN lists = DOMAIN rs
    <3>1. \A v \in DOMAIN rs : IsInjective(ChunksOf(rs[v]))
      BY DEF Keeps
    <3>2. lists \in Seq(Seq(S))
      BY <1>1, <1>2
    <3> QED
      BY <3>1, <3>2 DEF IsRankings
  <2>3. \A v \in DOMAIN rs : lists[v] = ChunksOf(rs[v])
    OBVIOUS
  <2> HIDE DEF lists
  <2>4. order \in Seq(S) /\ IsInjective(order) /\ ToSet(order) = Items(lists)
    BY <2>2, FusedIsSorted
  <2>5. \A x, y : x # y /\ (\A v \in DOMAIN rs : Ahead(ChunksOf(rs[v]), x, y))
                    => Ahead(order, x, y)
    BY <2>2, <2>3, FusedRespects
  <2> HIDE DEF order
  <2>6. Len(order) \in Nat /\ DOMAIN order = 1 .. Len(order) /\ \A i \in DOMAIN order : order[i] \in S
    BY <2>4
  <2>7. ASSUME NEW i \in DOMAIN order
        PROVE  /\ list[i] = Best(rs, order[i]) /\ list[i].chunk = order[i]
               /\ list[i].dense \in Nat /\ list[i].sparse \in Nat
               /\ Provenance(list[i], hs, rs)
    <3>1. order[i] \in Items(lists)
      BY <2>4 DEF ToSet
    <3>2. \E v \in DOMAIN rs : order[i] \in ToSet(ChunksOf(rs[v]))
      BY <2>2, <2>3, <3>1 DEF Items
    <3>3. list[i] = Best(rs, order[i])
      OBVIOUS
    <3> QED
      BY <3>2, <3>3, BestIsBest
  <2>8. DOMAIN list = DOMAIN order
    OBVIOUS
  <2>9. ChunksOf(list) = order
    <3> HIDE DEF list
    <3>1. ChunksOf(list) = [i \in DOMAIN order |-> order[i]]
      BY <2>7, <2>8 DEF ChunksOf
    <3> QED
      BY <2>4, <2>6, <3>1
  <2>10. list \in Seq(CandidateOf(S))
    <3>1. \A i \in DOMAIN order : Best(rs, order[i]) \in CandidateOf(S)
      BY <2>6, <2>7 DEF CandidateOf, Best
    <3> QED
      BY <2>4, <2>6, <3>1
  <2> HIDE DEF list
  <2>11. IsMerged(list, hs, rs)
    <3>1. ASSUME NEW x, NEW y, x # y,
                 \A v \in DOMAIN hs : /\ Ahead(ChunksOf(hs[v].dense), x, y)
                                      /\ Ahead(ChunksOf(hs[v].sparse), x, y)
          PROVE  Ahead(ChunksOf(list), x, y)
      <4>1. \A v \in DOMAIN rs : Ahead(ChunksOf(rs[v]), x, y)
        BY <3>1 DEF Keeps
      <4> QED
        BY <2>5, <2>9, <3>1, <4>1
    <3> QED
      BY <2>4, <2>7, <2>8, <2>9, <3>1 DEF IsMerged
  <2> QED
    BY <2>1, <2>10, <2>11
<1> QED
  BY <1>3, <1>4

(* The state *)

\* Of two chunks whose order in `from` is fixed, `list` has not just the worse.
KeepsOrder(list, from) ==
    \A x, y : Ahead(ChunksOf(from), x, y) => Ahead(ChunksOf(list), x, y)

\* What holds between two awaits of a retrieval.
RetrievalInv ==
    /\ visible \in SUBSET Chunks
    /\ strategy \in Strategies
    /\ limits \in Limits
    /\ pc \in {"dense", "sparse", "rerank", "reranked", "unranked"}
    /\ ranking \in HitLists(Found)
    /\ hits \in Seq([dense : HitLists(Found), sparse : HitLists(Found)])
    /\ results \in Seq(Seq(CandidateOf(Found)))
    /\ DOMAIN results = DOMAIN hits
    /\ \A v \in DOMAIN hits : Keeps(results[v], hits[v])
    /\ pc \in {"rerank", "reranked", "unranked"} =>
         merged \in Seq(CandidateOf(Found)) /\ IsMerged(merged, hits, results)
    /\ pc \notin {"reranked", "unranked"} => final = <<>>
    /\ pc = "unranked" => KeepsOrder(final, merged)
    /\ ProvenanceKept

LEMMA RetrievalInit == Init => RetrievalInv
<1> SUFFICES ASSUME Init
             PROVE  RetrievalInv
  OBVIOUS
<1>1. <<>> \in HitLists(Found)
  BY DEF HitLists, ChunksOf, IsInjective
<1>2. pc \in {"dense", "sparse"}
  BY DEF Init, FirstSearch
<1> QED
  BY <1>1, <1>2 DEF Init, RetrievalInv, ProvenanceKept

\* A chunk committed meanwhile takes nothing from what was found.
LEMMA CommitKeeps ==
    ASSUME RetrievalInv, CommitChunk
    PROVE  RetrievalInv'
<1>1. PICK c \in Chunks \ visible : visible' = visible \union {c}
  BY DEF CommitChunk
<1>2. Found \subseteq Found'
  BY <1>1 DEF Found
<1>3. /\ pc \in {"dense", "sparse"} /\ pc' = pc
      /\ UNCHANGED <<strategy, limits, ranking, hits, results, merged, final>>
  BY DEF CommitChunk, request
<1>4. /\ ranking \in HitLists(Found)
      /\ hits \in Seq([dense : HitLists(Found), sparse : HitLists(Found)])
      /\ results \in Seq(Seq(CandidateOf(Found)))
  BY DEF RetrievalInv
<1> DEFINE S == Found
           T == Found'
<1>5. HitLists(S) \subseteq HitLists(T)
  <2>1. Seq([chunk : S, score : Nat \ {0}]) \subseteq Seq([chunk : T, score : Nat \ {0}])
    BY <1>2, SeqGrows
  <2> QED
    BY <2>1 DEF HitLists
<1>6. Seq([dense : HitLists(S), sparse : HitLists(S)])
        \subseteq Seq([dense : HitLists(T), sparse : HitLists(T)])
  BY <1>5, SeqGrows
<1>7. Seq(CandidateOf(S)) \subseteq Seq(CandidateOf(T))
  BY <1>2, SeqGrows DEF CandidateOf
<1>8. Seq(Seq(CandidateOf(S))) \subseteq Seq(Seq(CandidateOf(T)))
  BY <1>7, SeqGrows
<1>9. visible' \in SUBSET Chunks /\ strategy' \in Strategies /\ limits' \in Limits
  BY <1>1, <1>3 DEF RetrievalInv
<1>10. /\ ranking' \in HitLists(T)
       /\ hits' \in Seq([dense : HitLists(T), sparse : HitLists(T)])
       /\ results' \in Seq(Seq(CandidateOf(T)))
  BY <1>3, <1>4, <1>5, <1>6, <1>8
<1>11. /\ DOMAIN results' = DOMAIN hits'
       /\ \A v \in DOMAIN hits' : Keeps(results'[v], hits'[v])
       /\ final' = <<>>
  BY <1>3 DEF RetrievalInv
<1>12. ProvenanceKept'
  BY <1>11 DEF ProvenanceKept
<1> QED
  BY <1>3, <1>9, <1>10, <1>11, <1>12 DEF RetrievalInv

\* The next variant's hits are collected.
LEMMA CollectKeeps ==
    ASSUME RetrievalInv, pc \in {"dense", "sparse"}, NEW h,
           h \in [dense : HitLists(Found), sparse : HitLists(Found)], Collect(h)
    PROVE  RetrievalInv'
<1>1. /\ visible' = visible /\ strategy' = strategy /\ limits' = limits /\ final' = final
      /\ hits' = Append(hits, h)
      /\ results' = Append(results, Candidates(h))
      /\ ranking' = <<>>
      /\ \/ pc' = FirstSearch(strategy) /\ merged' = merged
         \/ pc' = "rerank" /\ merged' = FuseVariants(results')
  BY DEF Collect, request
<1>2. Found' = Found /\ IsFiniteSet(Found)
  BY <1>1, FoundIsFinite DEF Found, RetrievalInv
<1>3. /\ hits \in Seq([dense : HitLists(Found), sparse : HitLists(Found)])
      /\ results \in Seq(Seq(CandidateOf(Found)))
      /\ DOMAIN results = DOMAIN hits
      /\ \A v \in DOMAIN hits : Keeps(results[v], hits[v])
  BY DEF RetrievalInv
<1>4. Candidates(h) \in Seq(CandidateOf(Found)) /\ Keeps(Candidates(h), h)
  <2>1. visible \in SUBSET Chunks /\ strategy \in Strategies /\ limits.top \in Nat
    BY LimitsArePositive DEF RetrievalInv
  <2>2. h.dense \in HitLists(Found) /\ h.sparse \in HitLists(Found)
    OBVIOUS
  <2> QED
    BY <2>1, <2>2, CandidatesAreRight DEF Candidate, CandidateOf
<1> DEFINE H == [dense : HitLists(Found), sparse : HitLists(Found)]
           C == Seq(CandidateOf(Found))
           c == Candidates(h)
<1>5. h \in H /\ hits \in Seq(H) /\ results \in Seq(C) /\ c \in C
  BY <1>3, <1>4
<1> HIDE DEF H, C, c
<1>6. hits' \in Seq(H) /\ results' \in Seq(C)
  BY <1>1, <1>5 DEF c
<1>7. /\ DOMAIN results' = DOMAIN hits' /\ Len(results') # 0
      /\ \A v \in DOMAIN hits' : Keeps(results'[v], hits'[v])
  <2>1. Len(hits) \in Nat /\ DOMAIN hits = 1 .. Len(hits)
         /\ Len(results) = Len(hits) /\ DOMAIN results = 1 .. Len(hits)
    BY <1>3, <1>5
  <2>2. /\ Len(results') = Len(hits) + 1
        /\ DOMAIN hits' = 1 .. Len(hits) + 1 /\ DOMAIN results' = 1 .. Len(hits) + 1
        /\ \A v \in 1 .. Len(hits) : hits'[v] = hits[v] /\ results'[v] = results[v]
        /\ hits'[Len(hits) + 1] = h /\ results'[Len(hits) + 1] = c
    BY <1>1, <1>5, <2>1 DEF c
  <2>3. Keeps(c, h)
    BY <1>4 DEF c
  <2>4. ASSUME NEW v \in DOMAIN hits'
        PROVE  Keeps(results'[v], hits'[v])
    <3>1. v \in DOMAIN hits \/ v = Len(hits) + 1
      BY <2>1, <2>2
    <3> QED
      BY <1>3, <2>1, <2>2, <2>3, <3>1
  <2> QED
    BY <2>1, <2>2, <2>4
<1>8. merged' = FuseVariants(results') =>
        merged' \in Seq(CandidateOf(Found)) /\ IsMerged(merged', hits', results')
  BY <1>2, <1>6, <1>7, FuseVariantsKeeps DEF C
<1>9. ranking' \in HitLists(Found)
  BY <1>1 DEF HitLists, ChunksOf, IsInjective
<1>10. pc' \in {"dense", "sparse", "rerank"}
  BY <1>1 DEF FirstSearch
<1>11. final' = <<>>
  BY <1>1 DEF RetrievalInv
<1>12. ProvenanceKept'
  BY <1>11 DEF ProvenanceKept
<1>13. visible' \in SUBSET Chunks /\ strategy' \in Strategies /\ limits' \in Limits
  BY <1>1 DEF RetrievalInv
<1>14. pc' = "rerank" => merged' = FuseVariants(results')
  BY <1>1 DEF FirstSearch
<1> QED
  BY <1>2, <1>6, <1>7, <1>8, <1>9, <1>10, <1>11, <1>12, <1>13, <1>14 DEF RetrievalInv, H, C

LEMMA RankingsAreHits ==
    ASSUME visible \in SUBSET Chunks, NEW n \in Nat, NEW r \in Rankings(Found, n)
    PROVE  r \in HitLists(Found)
<1> DEFINE top == IF Cardinality(Found) < n THEN Cardinality(Found) ELSE n
<1>1. top \in Nat
  BY FoundIsFinite, FS_CardinalityType
<1>2. PICK m \in 0 .. top : r \in [1 .. m -> [chunk : Found, score : 1 .. MaxScore]]
  BY DEF Rankings
<1> DEFINE G == [chunk : Found, score : 1 .. MaxScore]
           H == [chunk : Found, score : Nat \ {0}]
<1>3. G \subseteq H
  OBVIOUS
<1> HIDE DEF G, H
<1>4. r \in Seq(H)
  <2>1. m \in Nat /\ r \in [1 .. m -> G]
    BY <1>1, <1>2 DEF G
  <2>2. r \in Seq(G)
    BY <2>1
  <2> QED
    BY <1>3, <2>2, SeqGrows
<1>5. \A i, j \in DOMAIN r : i < j => r[i].chunk # r[j].chunk
  BY DEF Rankings
<1>6. IsInjective(ChunksOf(r))
  <2>1. DOMAIN r \subseteq Int
    BY <1>4
  <2>2. \A i, j \in DOMAIN r : r[i].chunk = r[j].chunk => i = j
    BY <1>5, <2>1
  <2> QED
    BY <2>2 DEF ChunksOf, IsInjective
<1> QED
  BY <1>4, <1>6 DEF HitLists, H

\* A threshold drops hits and keeps the order of the others.
LEMMA SomeHits ==
    ASSUME NEW S, NEW r \in HitLists(S), NEW T \in SUBSET (DOMAIN r)
    PROVE  At(r, T) \in HitLists(S)
<1> DEFINE H == [chunk : S, score : Nat \ {0}]
           s == At(r, T)
<1>1. r \in Seq(H) /\ IsInjective(ChunksOf(r))
  BY DEF HitLists
<1> HIDE DEF H
<1>2. Len(r) \in Nat /\ DOMAIN r = 1 .. Len(r) /\ T \in SUBSET (1 .. Len(r))
  BY <1>1
<1>3. IsFiniteSet(T) /\ T \in SUBSET Int
  <2>1. IsFiniteSet(1 .. Len(r))
    BY <1>2, FS_Interval
  <2> QED
    BY <1>2, <2>1, FS_Subset
<1>4. s \in Seq(H)
  BY <1>1, <1>2, AtIsSelection
<1>5. s = [k \in 1 .. Cardinality(T) |-> r[Nth(T, k)]]
  BY DEF At
<1>6. \A k \in 1 .. Cardinality(T) : Nth(T, k) \in T /\ Place(T, Nth(T, k)) = k
  BY <1>3, NthIsThere
<1>7. ASSUME NEW j \in DOMAIN s, NEW k \in DOMAIN s, s[j].chunk = s[k].chunk
      PROVE  j = k
  <2>1. r[Nth(T, j)].chunk = r[Nth(T, k)].chunk
    BY <1>5, <1>7
  <2>2. Nth(T, j) \in DOMAIN r /\ Nth(T, k) \in DOMAIN r
    BY <1>5, <1>6
  <2>3. Nth(T, j) = Nth(T, k)
    BY <1>1, <2>1, <2>2 DEF IsInjective, ChunksOf
  <2> QED
    BY <1>5, <1>6, <2>3
<1>8. IsInjective(ChunksOf(s))
  BY <1>7 DEF IsInjective, ChunksOf
<1> QED
  BY <1>4, <1>8 DEF HitLists, H

LEMMA SearchLimitIsNatural == RetrievalInv => SearchLimit \in Nat
  BY LimitsArePositive DEF RetrievalInv, SearchLimit

LEMMA DenseSearchKeeps ==
    ASSUME RetrievalInv, DenseSearch
    PROVE  RetrievalInv'
<1>1. pc = "dense" /\ visible \in SUBSET Chunks
  BY DEF DenseSearch, RetrievalInv
<1>2. PICK r \in DenseRankings(SearchLimit) :
        IF strategy = "dense"
        THEN Collect([dense |-> At(r, {i \in DOMAIN r : r[i].score >= limits.threshold}),
                      sparse |-> <<>>])
        ELSE /\ ranking' = r
             /\ pc' = "sparse"
             /\ UNCHANGED <<visible, request, hits, results, merged, final>>
  BY DEF DenseSearch
<1>3. r \in HitLists(Found)
  BY <1>1, SearchLimitIsNatural, RankingsAreHits DEF DenseRankings
<1>4. CASE strategy = "dense"
  <2> DEFINE kept == At(r, {i \in DOMAIN r : r[i].score >= limits.threshold})
             h == [dense |-> kept, sparse |-> <<>>]
  <2>1. kept \in HitLists(Found)
    BY <1>3, SomeHits
  <2>2. <<>> \in HitLists(Found)
    BY DEF HitLists, ChunksOf, IsInjective
  <2>3. h \in [dense : HitLists(Found), sparse : HitLists(Found)]
    BY <2>1, <2>2
  <2>4. Collect(h)
    BY <1>2, <1>4
  <2> HIDE DEF h
  <2> QED
    BY <1>1, <2>3, <2>4, CollectKeeps
<1>5. CASE strategy # "dense"
  <2>1. /\ ranking' = r /\ pc' = "sparse"
        /\ UNCHANGED <<visible, strategy, limits, hits, results, merged, final>>
    BY <1>2, <1>5 DEF request
  <2>2. Found' = Found
    BY <2>1 DEF Found
  <2>3. final' = <<>>
    BY <1>1, <2>1 DEF RetrievalInv
  <2>4. ProvenanceKept'
    BY <2>3 DEF ProvenanceKept
  <2> QED
    BY <1>1, <1>3, <2>1, <2>2, <2>3, <2>4 DEF RetrievalInv
<1> QED
  BY <1>4, <1>5

LEMMA SparseSearchKeeps ==
    ASSUME RetrievalInv, SparseSearch
    PROVE  RetrievalInv'
<1>1. pc = "sparse" /\ visible \in SUBSET Chunks /\ ranking \in HitLists(Found)
  BY DEF SparseSearch, RetrievalInv
<1>2. PICK r \in Rankings(Found, SearchLimit) : Collect([dense |-> ranking, sparse |-> r])
  BY DEF SparseSearch
<1>3. r \in HitLists(Found)
  BY <1>1, SearchLimitIsNatural, RankingsAreHits
<1>4. [dense |-> ranking, sparse |-> r] \in [dense : HitLists(Found), sparse : HitLists(Found)]
  BY <1>1, <1>3
<1> QED
  BY <1>1, <1>2, <1>4, CollectKeeps

\* Reranking returns candidates it was given, none of them twice.
LEMMA RerankedAreMerged ==
    ASSUME NEW S, merged \in Seq(S), IsInjective(ChunksOf(merged)), limits.keep \in Nat,
           NEW list,
           \/ \E order \in Orders : list = Cut(order, limits.keep)
           \/ list = Cut(merged, limits.keep)
           \/ list = merged
    PROVE  /\ \A i \in DOMAIN list : \E k \in DOMAIN merged : list[i] = merged[k]
           /\ \A i, j \in DOMAIN list : list[i].chunk = list[j].chunk => i = j
<1> DEFINE D == DOMAIN merged
           all(f) == [i \in D |-> merged[f[i]]]
<1>1. Len(merged) \in Nat /\ D = 1 .. Len(merged)
  OBVIOUS
<1>2. \A i, k \in D : merged[i].chunk = merged[k].chunk => i = k
  BY DEF IsInjective, ChunksOf
<1>3. PICK f \in [D -> D] : /\ \A i, j \in D : i # j => f[i] # f[j]
                            /\ list = all(f) \/ list = Cut(all(f), limits.keep)
  <2> DEFINE id == [i \in D |-> i]
  <2>1. all(id) = merged
    BY <1>1
  <2>2. id \in [D -> D] /\ \A i, j \in D : i # j => id[i] # id[j]
    OBVIOUS
  <2>3. \/ list = merged
        \/ list = Cut(merged, limits.keep)
        \/ \E f \in [D -> D] : /\ \A i, j \in D : i # j => f[i] # f[j]
                               /\ list = Cut(all(f), limits.keep)
    BY DEF Orders
  <2> HIDE DEF id, all
  <2> QED
    BY <2>1, <2>2, <2>3
<1> DEFINE s == all(f)
<1>4. /\ DOMAIN s = D
      /\ s \in Seq(S)
      /\ \A i \in D : s[i] = merged[f[i]] /\ f[i] \in D
  BY <1>1, <1>3
<1>5. \A i, j \in D : s[i].chunk = s[j].chunk => i = j
  BY <1>2, <1>3, <1>4
<1> HIDE DEF s
<1>6. IsInjective(s)
  BY <1>4, <1>5 DEF IsInjective
<1>7. DOMAIN list \subseteq D /\ \A i \in DOMAIN list : list[i] = s[i]
  <2>1. CASE list = s
    BY <1>4, <2>1
  <2>2. CASE list = Cut(s, limits.keep)
    <3>1. /\ DOMAIN Cut(s, limits.keep) \subseteq DOMAIN s
          /\ \A i \in DOMAIN Cut(s, limits.keep) : Cut(s, limits.keep)[i] = s[i]
      BY <1>4, <1>6, CutKeeps
    <3> QED
      BY <1>4, <2>2, <3>1
  <2> QED
    BY <1>3, <2>1, <2>2 DEF s
<1> QED
  BY <1>4, <1>5, <1>7

LEMMA RerankKeeps ==
    ASSUME RetrievalInv, Rerank
    PROVE  RetrievalInv'
<1>1. /\ pc = "rerank"
      /\ \/ /\ pc' = "reranked"
            /\ \E order \in Orders : final' = Cut(order, limits.keep)
         \/ /\ pc' = "unranked"
            /\ final' = Cut(merged, limits.keep) \/ final' = merged
      /\ UNCHANGED <<visible, strategy, limits, ranking, hits, results, merged>>
  BY DEF Rerank, request
<1>2. /\ merged \in Seq(CandidateOf(Found)) /\ IsMerged(merged, hits, results)
      /\ DOMAIN results = DOMAIN hits
      /\ limits.keep \in Nat
  BY <1>1, LimitsArePositive DEF RetrievalInv
<1>3. Found' = Found
  BY <1>1 DEF Found
<1>4. /\ \A i \in DOMAIN final' : \E k \in DOMAIN merged : final'[i] = merged[k]
      /\ \A i, j \in DOMAIN final' : final'[i].chunk = final'[j].chunk => i = j
  BY <1>1, <1>2, RerankedAreMerged DEF IsMerged
<1>5. \A k \in DOMAIN merged : Provenance(merged[k], hits, results) /\ merged[k].chunk \in Found
  <2>1. \A c \in CandidateOf(Found) : c.chunk \in Found
    BY DEF CandidateOf
  <2>2. \A k \in DOMAIN merged : merged[k] \in CandidateOf(Found)
    BY <1>2
  <2> QED
    BY <1>2, <2>1, <2>2 DEF IsMerged
<1>6. \A i \in DOMAIN final' : Provenance(final'[i], hits, results) /\ final'[i].chunk \in Found
  BY <1>4, <1>5
<1>7. ProvenanceKept'
  <2>1. ASSUME NEW i \in DOMAIN final'
        PROVE  /\ \A j \in DOMAIN final' : final'[j].chunk = final'[i].chunk => i = j
               /\ final'[i].chunk \in Found'
               /\ Provenance(final'[i], hits', results')
    BY <1>1, <1>3, <1>4, <1>6
  <2> QED
    BY <2>1 DEF ProvenanceKept, Provenance, Found
<1>8. final' = Cut(merged, limits.keep) \/ final' = merged => KeepsOrder(final', merged)
  <2>1. CASE final' = merged
    BY <2>1 DEF KeepsOrder
  <2>2. CASE final' = Cut(merged, limits.keep)
    <3> DEFINE s == ChunksOf(merged)
    <3>1. s \in Seq(Found) /\ IsInjective(s) /\ DOMAIN s = DOMAIN merged /\ Len(s) = Len(merged)
      <4>1. \A i \in DOMAIN merged : merged[i].chunk \in Found
        BY <1>5
      <4> QED
        BY <1>2, <4>1 DEF ChunksOf, IsMerged
    <3>2. ChunksOf(Cut(merged, limits.keep)) = Cut(s, limits.keep)
      <4> DEFINE n == limits.keep
      <4>1. n \in Nat /\ Len(merged) \in Nat /\ DOMAIN merged = 1 .. Len(merged)
        BY <1>2
      <4>2. CASE Len(merged) > n
        <5>1. Cut(merged, n) = SubSeq(merged, 1, n) /\ Cut(s, n) = SubSeq(s, 1, n)
          BY <3>1, <4>2 DEF Cut
        <5>2. SubSeq(merged, 1, n) = [i \in 1 .. n |-> merged[i]]
          BY <1>2, <4>1
        <5>3. SubSeq(s, 1, n) = [i \in 1 .. n |-> s[i]]
          BY <3>1, <4>1
        <5>4. \A i \in 1 .. n : s[i] = merged[i].chunk
          BY <4>1, <4>2 DEF ChunksOf
        <5> DEFINE front == [i \in 1 .. n |-> merged[i]]
        <5>5. ChunksOf(front) = [i \in 1 .. n |-> merged[i].chunk]
          BY DEF ChunksOf
        <5>6. [i \in 1 .. n |-> merged[i].chunk] = [i \in 1 .. n |-> s[i]]
          <6> HIDE DEF s
          <6> QED
            BY <5>4
        <5> HIDE DEF front, s
        <5>7. Cut(merged, n) = front /\ Cut(s, n) = [i \in 1 .. n |-> s[i]]
          BY <5>1, <5>2, <5>3 DEF front
        <5> QED
          BY <5>5, <5>6, <5>7
      <4>3. CASE ~ (Len(merged) > n)
        BY <3>1, <4>3 DEF Cut
      <4> QED
        BY <4>2, <4>3
    <3>3. \A x, y : Ahead(s, x, y) => Ahead(Cut(s, limits.keep), x, y)
      BY <1>2, <3>1, CutKeeps
    <3> QED
      BY <2>2, <3>2, <3>3 DEF KeepsOrder
  <2> QED
    BY <2>1, <2>2
<1>9. pc' = "unranked" => KeepsOrder(final', merged')
  BY <1>1, <1>8
<1>10. /\ visible' \in SUBSET Chunks /\ strategy' \in Strategies /\ limits' \in Limits
       /\ pc' \in {"reranked", "unranked"}
       /\ ranking' \in HitLists(Found')
       /\ hits' \in Seq([dense : HitLists(Found'), sparse : HitLists(Found')])
       /\ results' \in Seq(Seq(CandidateOf(Found')))
       /\ DOMAIN results' = DOMAIN hits'
       /\ \A v \in DOMAIN hits' : Keeps(results'[v], hits'[v])
       /\ merged' \in Seq(CandidateOf(Found')) /\ IsMerged(merged', hits', results')
  BY <1>1, <1>2, <1>3 DEF RetrievalInv
<1> QED
  BY <1>7, <1>9, <1>10 DEF RetrievalInv

LEMMA RetrievalStep == RetrievalInv /\ [Next]_vars => RetrievalInv'
<1> SUFFICES ASSUME RetrievalInv, [Next]_vars
             PROVE  RetrievalInv'
  OBVIOUS
<1>1. CASE CommitChunk
  BY <1>1, CommitKeeps
<1>2. CASE DenseSearch
  BY <1>2, DenseSearchKeeps
<1>3. CASE SparseSearch
  BY <1>3, SparseSearchKeeps
<1>4. CASE Rerank
  BY <1>4, RerankKeeps
<1>5. CASE UNCHANGED vars
  <2>1. /\ UNCHANGED <<visible, strategy, limits, pc>>
        /\ UNCHANGED <<ranking, hits, results, merged, final>>
    BY <1>5 DEF vars
  <2>2. Found' = Found
    BY <2>1 DEF Found
  <2>3. ProvenanceKept'
    BY <2>1, ZenonT(40) DEF RetrievalInv, ProvenanceKept
  <2>4. /\ visible' \in SUBSET Chunks /\ strategy' \in Strategies /\ limits' \in Limits
        /\ pc' \in {"dense", "sparse", "rerank", "reranked", "unranked"}
    BY <2>1, Zenon DEF RetrievalInv
  <2>5. /\ ranking' \in HitLists(Found')
        /\ hits' \in Seq([dense : HitLists(Found'), sparse : HitLists(Found')])
        /\ results' \in Seq(Seq(CandidateOf(Found')))
        /\ DOMAIN results' = DOMAIN hits'
    BY <2>1, <2>2, Zenon DEF RetrievalInv
  <2>6. \A v \in DOMAIN hits' : Keeps(results'[v], hits'[v])
    BY <2>1, Zenon DEF RetrievalInv
  <2>7. /\ pc' \in {"rerank", "reranked", "unranked"} =>
             merged' \in Seq(CandidateOf(Found')) /\ IsMerged(merged', hits', results')
        /\ pc' \notin {"reranked", "unranked"} => final' = <<>>
        /\ pc' = "unranked" => KeepsOrder(final', merged')
    BY <2>1, <2>2, Zenon DEF RetrievalInv
  <2> QED
    BY <2>3, <2>4, <2>5, <2>6, <2>7, Zenon DEF RetrievalInv
<1> QED
  BY <1>1, <1>2, <1>3, <1>4, <1>5 DEF Next

LEMMA RetrievalSound == RetrievalInv => DominanceRespected /\ ProvenanceKept
<1> SUFFICES ASSUME RetrievalInv, pc \in {"rerank", "unranked"}
             PROVE  DominanceRespected
  BY DEF RetrievalInv, DominanceRespected
<1>1. \A x, y : Preferred(x, y) => Ahead(ChunksOf(merged), x, y)
  BY DEF RetrievalInv, IsMerged, Preferred
<1>2. pc = "unranked" => \A x, y : Preferred(x, y) => Ahead(ChunksOf(final), x, y)
  BY <1>1 DEF RetrievalInv, KeepsOrder
<1> QED
  BY <1>1, <1>2 DEF DominanceRespected

\* Whatever the searches return, and whatever is committed between them, a
\* chunk that each of them ranks above another one is above it in the merged
\* list, and in what is returned if there is no reranking or it fails
\* (retrieval.fusion, RetrievalAgent._fuse_variants, rerank_with_fallback).
THEOREM AgreementIsKept == Spec => []DominanceRespected
<1> QED
  BY RetrievalInit, RetrievalStep, RetrievalSound, PTL DEF Spec

\* No candidate that is returned was invented, doubled, or given a score that
\* no search gave it (RetrievalAgent._merge and _fuse_variants, and reranking).
THEOREM CandidatesHaveProvenance == Spec => []ProvenanceKept
<1> QED
  BY RetrievalInit, RetrievalStep, RetrievalSound, PTL DEF Spec

----------------------------------------------------------------------------
(* The benchmark *)

(* Sums of discounts *)

LEMMA DiscountType ==
    /\ K \in Nat \ {0}
    /\ IsFiniteSet(1 .. K)
    /\ \A i \in 1 .. K : Discount[i] \in Nat \ {0}
<1>1. K \in Nat \ {0}
  BY KIsPositive
<1>2. \A i \in 1 .. K : \A j \in 1 .. K : Discount[i] \in Nat \ {0}
  BY DiscountsDecrease
<1>3. IsFiniteSet(1 .. K)
  BY <1>1, FS_Interval
<1>4. 1 \in 1 .. K
  BY <1>1
<1> QED
  BY <1>1, <1>2, <1>3, <1>4

LEMMA GainTakesOut ==
    ASSUME NEW S \in SUBSET (1 .. K)
    PROVE  /\ IsFiniteSet(S)
           /\ Gain(S) \in Int
           /\ \A x \in S : /\ Gain(S \ {x}) \in Int
                           /\ Gain(S) = Discount[x] + Gain(S \ {x})
<1>1. IsFiniteSet(S)
  BY DiscountType, FS_Subset
<1>2. \A x \in S : Discount[x] \in Int
  BY DiscountType
<1> QED
  BY <1>1, <1>2, SumTakesOut DEF Gain

\* A gain is positive when there is something to be gained.
LEMMA GainIsPositive ==
    ASSUME NEW S \in SUBSET (1 .. K)
    PROVE  Gain(S) \in Nat /\ (Gain(S) > 0 <=> S # {})
<1> DEFINE good(T) == Gain(T) \in Nat /\ (Gain(T) > 0 <=> T # {})
           P == {n \in Nat : \A T \in SUBSET (1 .. K) : Cardinality(T) = n => good(T)}
<1>1. 0 \in P
  <2> SUFFICES ASSUME NEW T \in SUBSET (1 .. K), Cardinality(T) = 0
               PROVE  good(T)
    OBVIOUS
  <2>1. T = {}
    BY GainTakesOut, FS_EmptySet
  <2> QED
    BY <2>1, SumOfNothing DEF Gain
<1>2. ASSUME NEW n \in Nat, n \in P
      PROVE  n + 1 \in P
  <2> SUFFICES ASSUME NEW T \in SUBSET (1 .. K), Cardinality(T) = n + 1
               PROVE  good(T)
    OBVIOUS
  <2>1. IsFiniteSet(T)
    BY GainTakesOut
  <2>2. T # {}
    BY <2>1, FS_EmptySet
  <2>3. PICK x \in T : TRUE
    BY <2>2
  <2>4. Cardinality(T \ {x}) = n
    BY <2>1, FS_RemoveElement
  <2>5. Gain(T \ {x}) \in Nat
    BY <1>2, <2>4
  <2>6. Gain(T) = Discount[x] + Gain(T \ {x}) /\ Discount[x] \in Nat \ {0}
    BY GainTakesOut, DiscountType
  <2> QED
    BY <2>2, <2>5, <2>6
<1>3. Cardinality(S) \in Nat
  BY GainTakesOut, FS_CardinalityType
<1>4. Cardinality(S) \in P
  <2> HIDE DEF P
  <2> QED
    BY <1>1, <1>2, <1>3, Induction
<1> QED
  BY <1>4

\* No ranks are worth more than the first ones.
LEMMA GainIsGreatestInFront ==
    ASSUME NEW m \in 0 .. K, NEW S \in SUBSET (1 .. K), Cardinality(S) <= m
    PROVE  Gain(S) <= Gain(1 .. m)
<1> DEFINE good(n) == \A T \in SUBSET (1 .. K) : Cardinality(T) <= n => Gain(T) <= Gain(1 .. n)
           P == {n \in Nat : n <= K => good(n)}
<1>0. K \in Nat
  BY DiscountType
<1>1. 0 \in P
  <2> SUFFICES ASSUME NEW T \in SUBSET (1 .. K), Cardinality(T) <= 0
               PROVE  Gain(T) <= Gain(1 .. 0)
    OBVIOUS
  <2>1. IsFiniteSet(T) /\ Cardinality(T) \in Nat
    BY GainTakesOut, FS_CardinalityType
  <2>2. T = {}
    BY <2>1, FS_EmptySet
  <2>3. 1 .. 0 = {}
    OBVIOUS
  <2>4. Gain(T) \in Nat
    BY GainIsPositive
  <2> QED
    BY <2>2, <2>3, <2>4
<1>2. ASSUME NEW n \in Nat, n \in P
      PROVE  n + 1 \in P
  <2> SUFFICES ASSUME n + 1 <= K, NEW T \in SUBSET (1 .. K), Cardinality(T) <= n + 1
               PROVE  Gain(T) <= Gain(1 .. n + 1)
    OBVIOUS
  <2>1. good(n)
    BY <1>0, <1>2
  <2>2. /\ 1 .. n + 1 \in SUBSET (1 .. K) /\ n + 1 \in 1 .. n + 1
        /\ (1 .. n + 1) \ {n + 1} = 1 .. n /\ 1 .. n \in SUBSET (1 .. K)
    BY <1>0
  <2>3. /\ Gain(1 .. n + 1) = Discount[n + 1] + Gain(1 .. n)
        /\ Gain(1 .. n) \in Nat /\ Discount[n + 1] \in Nat
    <3> DEFINE W == 1 .. n + 1
               x == n + 1
               R == 1 .. n
    <3>1. W \in SUBSET (1 .. K) /\ x \in W /\ W \ {x} = R /\ R \in SUBSET (1 .. K)
      BY <2>2
    <3> HIDE DEF W, x, R
    <3>2. Gain(W) = Discount[x] + Gain(W \ {x})
      BY <3>1, GainTakesOut
    <3>3. Gain(R) \in Nat
      BY <3>1, GainIsPositive
    <3>4. Discount[x] \in Nat
      BY <3>1, DiscountType
    <3>5. Gain(W) = Discount[x] + Gain(R)
      BY <3>1, <3>2
    <3> QED
      BY <3>3, <3>4, <3>5 DEF W, x, R
  <2>4. IsFiniteSet(T) /\ Cardinality(T) \in Nat /\ Gain(T) \in Nat
    BY GainTakesOut, GainIsPositive, FS_CardinalityType
  <2>5. CASE Cardinality(T) <= n
    <3>1. Gain(T) <= Gain(1 .. n)
      BY <2>1, <2>5
    <3> QED
      BY <2>3, <2>4, <3>1
  <2>6. CASE Cardinality(T) = n + 1
    <3>1. T # {} /\ T \in SUBSET Int
      BY <2>4, <2>6, FS_EmptySet
    <3>2. PICK g \in T : \A i \in T : i <= g
      BY <2>4, <3>1, LeastAndGreatest
    <3>3. g \in 1 .. K
      OBVIOUS
    <3>4. n + 1 <= g
      <4>1. T \subseteq 1 .. g
        BY <3>2, <3>3
      <4>2. IsFiniteSet(1 .. g) /\ Cardinality(1 .. g) = g
        BY <3>3, FS_Interval
      <4>3. Cardinality(T) <= Cardinality(1 .. g)
        BY <4>1, <4>2, FS_Subset
      <4> QED
        BY <2>6, <4>2, <4>3
    <3>5. Discount[g] <= Discount[n + 1] /\ Discount[g] \in Nat
      <4>1. n + 1 \in 1 .. K /\ g \in 1 .. K
        BY <1>0, <3>3
      <4>2. n + 1 < g => Discount[n + 1] > Discount[g]
        BY <4>1, DiscountsDecrease
      <4>3. Discount[g] \in Nat /\ Discount[n + 1] \in Nat
        BY <4>1, DiscountType
      <4> QED
        BY <3>4, <4>1, <4>2, <4>3
    <3>6. Cardinality(T \ {g}) <= n
      <4>1. Cardinality(T \ {g}) = Cardinality(T) - 1
        BY <2>4, FS_RemoveElement
      <4> QED
        BY <2>6, <4>1
    <3>7. Gain(T \ {g}) <= Gain(1 .. n)
      BY <2>1, <3>6
    <3>8. Gain(T) = Discount[g] + Gain(T \ {g}) /\ Gain(T \ {g}) \in Int
      BY GainTakesOut
    <3> QED
      BY <2>3, <3>5, <3>7, <3>8
  <2> QED
    BY <2>4, <2>5, <2>6
<1>3. m \in Nat /\ m <= K
  BY <1>0
<1>4. m \in P
  <2> HIDE DEF P
  <2> QED
    BY <1>1, <1>2, <1>3, Induction
<1> QED
  BY <1>3, <1>4

(* The metrics of one ranking *)

\* The first K of a ranking.
LEMMA TopOfRanking ==
    ASSUME NEW list \in Seq(Documents)
    PROVE  /\ Len(list) \in Nat /\ DOMAIN list = 1 .. Len(list)
           /\ Len(Top(list)) = IF Len(list) < K THEN Len(list) ELSE K
           /\ DOMAIN Top(list) = 1 .. Len(Top(list))
           /\ DOMAIN Top(list) \subseteq 1 .. K
           /\ DOMAIN Top(list) \subseteq DOMAIN list
           /\ \A i \in DOMAIN Top(list) : Top(list)[i] = list[i]
           /\ \A i \in DOMAIN list : i <= K => i \in DOMAIN Top(list)
<1> DEFINE n == IF Len(list) < K THEN Len(list) ELSE K
<1>1. K \in Nat \ {0} /\ Len(list) \in Nat /\ DOMAIN list = 1 .. Len(list)
  BY DiscountType
<1>2. n \in Nat /\ n <= Len(list) /\ n <= K
  BY <1>1
<1>3. Top(list) = SubSeq(list, 1, n)
  BY DEF Top
<1> HIDE DEF n
<1>4. /\ Len(Top(list)) = n /\ DOMAIN Top(list) = 1 .. n
      /\ \A i \in 1 .. n : Top(list)[i] = list[i]
  BY <1>1, <1>2, <1>3
<1> QED
  BY <1>1, <1>2, <1>4 DEF n

LEMMA HitsAreRelevant ==
    ASSUME NEW list \in Seq(Documents), NEW relevant \in SUBSET Documents
    PROVE  /\ IsFiniteSet(relevant) /\ Cardinality(relevant) \in Nat
           /\ IsFiniteSet(Hits(list, relevant))
           /\ Cardinality(Hits(list, relevant)) \in Nat
           /\ Cardinality(Hits(list, relevant)) <= Cardinality(relevant)
           /\ Cardinality(Hits(list, relevant)) <= Len(Top(list))
           /\ Cardinality(Hits(list, relevant)) > 0 <=> Hits(list, relevant) # {}
<1> DEFINE H == Hits(list, relevant)
           R == Range(Top(list))
           D == DOMAIN Top(list)
<1>1. IsFiniteSet(relevant) /\ Cardinality(relevant) \in Nat
  BY RetrievalsAreOfDocuments, FS_Subset, FS_CardinalityType
<1>2. /\ IsFiniteSet(H) /\ Cardinality(H) \in Nat
      /\ Cardinality(H) <= Cardinality(relevant)
  BY <1>1, FS_Subset, FS_CardinalityType DEF Hits
<1>3. IsFiniteSet(D) /\ Cardinality(D) = Len(Top(list)) /\ Len(Top(list)) \in Nat
  <2>1. Len(Top(list)) \in Nat
    BY TopOfRanking, DiscountType
  <2> DEFINE n == Len(Top(list))
  <2>2. D = 1 .. n
    BY TopOfRanking
  <2> HIDE DEF n, D
  <2>3. n \in Nat
    BY <2>1 DEF n
  <2>4. IsFiniteSet(1 .. n) /\ Cardinality(1 .. n) = n
    BY <2>3, FS_Interval
  <2> QED
    BY <2>2, <2>3, <2>4 DEF n
<1>4. IsFiniteSet(R) /\ Cardinality(R) <= Cardinality(D)
  <2> DEFINE f == [i \in D |-> Top(list)[i]]
  <2>1. f \in Surjection(D, R)
    BY DEF Surjection, Range
  <2> QED
    BY <1>3, <2>1, FS_Surjection
<1>5. Cardinality(H) <= Cardinality(R) /\ Cardinality(R) \in Nat
  BY <1>4, FS_Subset, FS_CardinalityType DEF Hits
<1>6. Cardinality(H) > 0 <=> H # {}
  BY <1>2, FS_EmptySet
<1> QED
  BY <1>1, <1>2, <1>3, <1>4, <1>5, <1>6

LEMMA RanksOfHits ==
    ASSUME NEW list \in Seq(Documents), NEW relevant \in SUBSET Documents
    PROVE  /\ RelevantRanks(list, relevant) \in SUBSET (1 .. K)
           /\ RelevantRanks(list, relevant) # {} <=> Hits(list, relevant) # {}
           /\ Cardinality(RelevantRanks(list, relevant)) \in 0 .. K
<1> DEFINE T == RelevantRanks(list, relevant)
<1>1. T \in SUBSET (1 .. K)
  BY TopOfRanking DEF RelevantRanks
<1>2. T # {} <=> Hits(list, relevant) # {}
  BY TopOfRanking DEF RelevantRanks, Hits, Range
<1>3. Cardinality(1 .. K) = K /\ IsFiniteSet(1 .. K) /\ K \in Nat
  BY DiscountType, FS_Interval
<1>4. Cardinality(T) \in Nat /\ Cardinality(T) <= Cardinality(1 .. K)
  BY <1>1, <1>3, FS_Subset, FS_CardinalityType
<1> QED
  BY <1>1, <1>2, <1>3, <1>4

\* NDCG is positive with a hit, at most 1 if no more chunks than documents are
\* relevant, and gains no more than its relevant chunks would in front.
LEMMA NdcgIsRight ==
    ASSUME NEW list \in Seq(Documents), NEW relevant \in SUBSET Documents
    PROVE  LET ndcg == Ndcg(list, relevant)
               chunks == Cardinality(RelevantRanks(list, relevant))
           IN  /\ Positive(ndcg) <=> Hits(list, relevant) # {}
               /\ chunks <= Cardinality(relevant) => AtMostOne(ndcg)
               /\ ndcg[1] <= Gain(1 .. chunks)
<1> DEFINE T == RelevantRanks(list, relevant)
           h == Cardinality(T)
           n == Cardinality(relevant)
           m == IF n < K THEN n ELSE K
<1>1. /\ T \in SUBSET (1 .. K) /\ h \in 0 .. K
      /\ T # {} <=> Hits(list, relevant) # {}
  BY RanksOfHits
<1>2. n \in Nat /\ K \in Nat /\ m \in 0 .. K
  <2>1. n \in Nat /\ K \in Nat
    BY HitsAreRelevant, DiscountType
  <2> QED
    BY <2>1
<1>3. Gain(T) \in Nat /\ (Gain(T) > 0 <=> T # {})
  BY <1>1, GainIsPositive
<1>4. Gain(T) <= Gain(1 .. h)
  <2>1. Cardinality(T) <= h
    BY <1>1
  <2> QED
    BY <1>1, <2>1, GainIsGreatestInFront
<1>5. h <= n => Gain(T) <= Gain(1 .. m)
  <2> SUFFICES ASSUME h <= n
               PROVE  Gain(T) <= Gain(1 .. m)
    OBVIOUS
  <2>1. Cardinality(T) <= m
    BY <1>1, <1>2
  <2> QED
    BY <1>1, <1>2, <2>1, GainIsGreatestInFront
<1>6. CASE relevant = {}
  <2>1. Ndcg(list, relevant) = <<0, 1>> /\ T = {}
    BY <1>6 DEF Ndcg, Zero, RelevantRanks
  <2>2. Gain(T) = 0
    BY <1>3, <2>1
  <2> QED
    BY <1>1, <1>4, <2>1, <2>2 DEF Positive, AtMostOne
<1>7. CASE relevant # {}
  <2>1. Ndcg(list, relevant) = <<Gain(T), Gain(1 .. m)>>
    BY <1>7 DEF Ndcg
  <2> HIDE DEF T, h, n, m
  <2>2. /\ Ndcg(list, relevant)[1] = Gain(T)
        /\ Ndcg(list, relevant)[2] = Gain(1 .. m)
    BY <2>1
  <2> QED
    BY <1>1, <1>3, <1>4, <1>5, <2>2 DEF Positive, AtMostOne, T, h, n
<1> QED
  BY <1>6, <1>7

LEMMA ReciprocalRankIsRight ==
    ASSUME NEW list \in Seq(Documents), NEW relevant \in SUBSET Documents
    PROVE  LET rank == ReciprocalRank(list, relevant)
           IN  Hits(list, relevant) # {} <=> Positive(rank) /\ rank[2] <= K
<1> DEFINE ranks == {i \in DOMAIN list : list[i] \in relevant}
           rank == ReciprocalRank(list, relevant)
<1>1. ranks \in SUBSET Int /\ IsFiniteSet(ranks)
  <2>1. IsFiniteSet(1 .. Len(list)) /\ DOMAIN list = 1 .. Len(list)
    BY TopOfRanking, FS_Interval
  <2> QED
    BY <2>1, FS_Subset
<1>2. CASE ranks = {}
  <2>1. rank = <<0, 1>>
    BY <1>2 DEF ReciprocalRank, Zero
  <2>2. Hits(list, relevant) = {}
    <3>1. RelevantRanks(list, relevant) = {}
      BY <1>2, TopOfRanking DEF RelevantRanks
    <3> QED
      BY <3>1, RanksOfHits
  <2> QED
    BY <2>1, <2>2 DEF Positive
<1>3. CASE ranks # {}
  <2>1. \E k \in ranks : \A i \in ranks : k <= i
    BY <1>1, <1>3, LeastAndGreatest
  <2>2. Min(ranks) \in ranks /\ \A i \in ranks : Min(ranks) <= i
    <3> HIDE DEF ranks
    <3> QED
      BY <2>1 DEF Min
  <2>3. rank = <<1, Min(ranks)>>
    BY <1>3 DEF ReciprocalRank
  <2>4. Min(ranks) <= K <=> RelevantRanks(list, relevant) # {}
    <3>1. ASSUME Min(ranks) <= K
          PROVE  Min(ranks) \in RelevantRanks(list, relevant)
      BY <2>2, <3>1, TopOfRanking DEF RelevantRanks
    <3>2. ASSUME NEW i \in RelevantRanks(list, relevant)
          PROVE  Min(ranks) <= K
      <4>1. i \in ranks /\ i \in 1 .. K
        BY TopOfRanking DEF RelevantRanks
      <4>2. Min(ranks) <= i /\ Min(ranks) \in Int
        BY <1>1, <2>2, <4>1
      <4> QED
        BY <4>1, <4>2, DiscountType
    <3> QED
      BY <3>1, <3>2
  <2> HIDE DEF ranks
  <2> QED
    BY <2>3, <2>4, RanksOfHits DEF Positive
<1> QED
  BY <1>2, <1>3

\* What MetricsAgree says of one ranking.
LEMMA MetricsOfRanking ==
    ASSUME NEW list \in Seq(Documents), NEW relevant \in SUBSET Documents
    PROVE  LET recall == Recall(list, relevant)
               precision == Precision(list, relevant)
               ndcg == Ndcg(list, relevant)
               rank == ReciprocalRank(list, relevant)
               hit == HitRate(list, relevant)
               chunks == Cardinality(RelevantRanks(list, relevant))
           IN  /\ Positive(hit) <=> Positive(recall)
               /\ Positive(hit) <=> Positive(precision)
               /\ Positive(hit) <=> Positive(ndcg)
               /\ Positive(hit) <=> Positive(rank) /\ rank[2] <= K
               /\ AtMostOne(recall) /\ AtMostOne(precision)
               /\ chunks <= Cardinality(relevant) => AtMostOne(ndcg)
               /\ ndcg[1] <= Gain(1 .. chunks)
<1> DEFINE H == Hits(list, relevant)
<1>1. Positive(HitRate(list, relevant)) <=> H # {}
  BY DEF Positive, HitRate, Zero
<1>2. /\ Positive(Recall(list, relevant)) <=> H # {}
      /\ AtMostOne(Recall(list, relevant))
  <2>1. CASE relevant = {}
    <3>1. Recall(list, relevant) = <<0, 1>> /\ H = {}
      BY <2>1 DEF Recall, Zero, Hits
    <3> QED
      BY <3>1 DEF Positive, AtMostOne
  <2>2. CASE relevant # {}
    <3>1. Recall(list, relevant) = <<Cardinality(H), Cardinality(relevant)>>
      BY <2>2 DEF Recall
    <3> QED
      BY <3>1, HitsAreRelevant DEF Positive, AtMostOne
  <2> QED
    BY <2>1, <2>2
<1>3. /\ Positive(Precision(list, relevant)) <=> H # {}
      /\ AtMostOne(Precision(list, relevant))
  <2>1. CASE relevant = {} \/ list = <<>>
    <3>1. H = {}
      BY <2>1, TopOfRanking DEF Hits, Range
    <3>2. Precision(list, relevant) = <<0, 1>>
      BY <2>1 DEF Precision, Zero
    <3> QED
      BY <3>1, <3>2 DEF Positive, AtMostOne
  <2>2. CASE ~ (relevant = {} \/ list = <<>>)
    <3>1. Precision(list, relevant) = <<Cardinality(H), Len(Top(list))>>
      BY <2>2 DEF Precision
    <3> QED
      BY <3>1, HitsAreRelevant DEF Positive, AtMostOne
  <2> QED
    BY <2>1, <2>2
<1>4. LET ndcg == Ndcg(list, relevant)
          chunks == Cardinality(RelevantRanks(list, relevant))
      IN  /\ Positive(ndcg) <=> H # {}
          /\ chunks <= Cardinality(relevant) => AtMostOne(ndcg)
          /\ ndcg[1] <= Gain(1 .. chunks)
  BY NdcgIsRight
<1>5. H # {} <=> /\ Positive(ReciprocalRank(list, relevant))
                 /\ ReciprocalRank(list, relevant)[2] <= K
  BY ReciprocalRankIsRight
<1> HIDE DEF H
<1> QED
  BY <1>1, <1>2, <1>3, <1>4, <1>5

(* The state *)

CitationCounts == [claims_total : Int, claims_supported : Int,
                   citations_total : Int, citations_entailed : Int]

Reasons == {"none", "sufficient_evidence", "max_iterations_reached",
            "max_retrieval_calls_reached"} \union Overrides

Statuses == {"grounded", "insufficient_evidence"} \union Overrides

Comparisons ==
    [baseline : [documents : Seq(Documents), relevance : Int],
     agentic : [documents : Seq(Documents), relevance : Int, status : Statuses,
                reason : Reasons, answered : BOOLEAN, metrics : CitationCounts]]

\* What a case's result says of itself.
IsConsistent(result) ==
    /\ result.answered => result.documents # <<>>
    /\ result.relevance = None => ~ result.answered
    /\ result.reason = "conflicting_evidence" =>
         result.relevance = None /\ result.documents # <<>>
    /\ result.reason = "no_evidence_found" =>
         result.relevance = None /\ result.documents = <<>>
    /\ result.answered <=> result.metrics # Verifier!NoMetrics

\* The cases, what is done of them, and where the one at hand is.
CasesInv ==
    /\ cases \in Seq(SUBSET Documents)
    /\ documents \in Seq(Documents)
    /\ evidence \in Seq(Documents)
    /\ relevance \in Int
    /\ comparisons \in Seq(Comparisons)
    /\ \A i \in DOMAIN comparisons : IsConsistent(comparisons[i].agentic)
    /\ awaited \in {"retrieve", "complete", "judge", "loop", "generate", "failed", "done"}
    /\ Len(comparisons) <= Len(cases)
    /\ awaited \in {"complete", "judge", "loop", "generate"} => Len(comparisons) < Len(cases)
    /\ awaited = "done" => Len(comparisons) = Len(cases)

\* The loop's reason fits its evidence (LoopContract).
LoopInv ==
    /\ outcome \in Reasons
    /\ usable \in BOOLEAN
    /\ phase \in {"running", "returned", "failed", "cancelled"}
    /\ phase = "returned" =>
         /\ outcome \in Loop!NeedEvidence => usable
         /\ outcome = "no_evidence_found" => ~ usable

\* An answer is made of what was offered, and counted (AnswerContract).
VerifierInv ==
    /\ status \in {"pending", "grounded", "insufficient_evidence", "abandoned"}
    /\ metrics \in CitationCounts
    /\ awaited = "generate" => /\ outcome \notin Overrides
                               /\ offered = Len(evidence)
                               /\ status = "grounded" =>
                                    offered > 0 /\ metrics # Verifier!NoMetrics

BenchmarkInv == CasesInv /\ LoopInv /\ VerifierInv

LEMMA BenchmarkInitInv == BenchmarkInit => BenchmarkInv
<1> SUFFICES ASSUME BenchmarkInit
             PROVE  BenchmarkInv
  OBVIOUS
<1>1. cases \in Seq(SUBSET Documents)
  <2>1. PICK n \in 1 .. MaxCases : cases \in [1 .. n -> SUBSET Documents]
    BY DEF BenchmarkInit
  <2>2. n \in Nat
    OBVIOUS
  <2> QED
    BY <2>1, <2>2
<1>2. CasesInv
  <2>1. Len(cases) \in Nat
    BY <1>1
  <2> QED
    BY <1>1, <2>1 DEF BenchmarkInit, CasesInv
<1>3. LoopInv
  BY DEF BenchmarkInit, Loop!Init, LoopInv, Reasons
<1>4. VerifierInv
  BY DEF BenchmarkInit, Verifier!Init, Verifier!NoMetrics, VerifierInv, CitationCounts
<1> QED
  BY <1>2, <1>3, <1>4 DEF BenchmarkInv

\* A case is added to the comparisons.
LEMMA CompareKeeps ==
    ASSUME BenchmarkInv, Len(comparisons) < Len(cases), cases' = cases,
           NEW found \in Seq(Documents), NEW score \in Int, NEW how \in Statuses,
           Compare(found, score, how),
           how = "grounded" => /\ found # <<>> /\ score # None
                               /\ metrics # Verifier!NoMetrics,
           outcome = "conflicting_evidence" => score = None /\ found # <<>>,
           outcome = "no_evidence_found" => score = None /\ found = <<>>,
           Renew, awaited' = "retrieve"
    PROVE  CasesInv'
<1> DEFINE new == [documents |-> found, relevance |-> score, status |-> how,
                   reason |-> outcome,
                   answered |-> how = "grounded",
                   metrics |-> IF how = "grounded" THEN metrics ELSE Verifier!NoMetrics]
           old == [documents |-> documents, relevance |-> relevance]
           c == [baseline |-> old, agentic |-> new]
           n == Len(comparisons)
<1>1. comparisons \in Seq(Comparisons) /\ n \in Nat /\ Len(cases) \in Nat /\ DOMAIN comparisons = 1 .. n
  BY DEF BenchmarkInv, CasesInv
<1>2. c \in Comparisons
  <2>1. old \in [documents : Seq(Documents), relevance : Int]
    BY DEF BenchmarkInv, CasesInv
  <2>2. new \in [documents : Seq(Documents), relevance : Int, status : Statuses,
                 reason : Reasons, answered : BOOLEAN, metrics : CitationCounts]
    <3>1. Verifier!NoMetrics \in CitationCounts
      BY DEF Verifier!NoMetrics, CitationCounts
    <3>2. metrics \in CitationCounts /\ outcome \in Reasons
      BY DEF BenchmarkInv, VerifierInv, LoopInv
    <3>3. (how = "grounded") \in BOOLEAN
      OBVIOUS
    <3> QED
      BY <3>1, <3>2, <3>3
  <2> HIDE DEF old, new
  <2> QED
    BY <2>1, <2>2 DEF Comparisons
<1>3. IsConsistent(c.agentic)
  BY DEF IsConsistent
<1>4. comparisons' = Append(comparisons, c)
  BY DEF Compare
<1> HIDE DEF c
<1>5. /\ comparisons' \in Seq(Comparisons) /\ Len(comparisons') = n + 1
      /\ DOMAIN comparisons' = 1 .. n + 1
      /\ \A i \in 1 .. n : comparisons'[i] = comparisons[i]
      /\ comparisons'[n + 1] = c
  BY <1>1, <1>2, <1>4
<1>6. \A i \in DOMAIN comparisons' : IsConsistent(comparisons'[i].agentic)
  <2> SUFFICES ASSUME NEW i \in DOMAIN comparisons'
               PROVE  IsConsistent(comparisons'[i].agentic)
    OBVIOUS
  <2>1. i \in 1 .. n \/ i = n + 1
    BY <1>1, <1>5
  <2> QED
    BY <1>1, <1>3, <1>5, <2>1 DEF BenchmarkInv, CasesInv
<1>7. /\ documents' \in Seq(Documents) /\ evidence' \in Seq(Documents) /\ relevance' \in Int
  BY DEF Renew
<1>8. Len(comparisons') <= Len(cases')
  BY <1>1, <1>5
<1>9. cases' \in Seq(SUBSET Documents)
  BY DEF BenchmarkInv, CasesInv
<1> QED
  BY <1>5, <1>6, <1>7, <1>8, <1>9 DEF CasesInv

LEMMA RetrieveKeeps == ASSUME BenchmarkInv, Retrieve PROVE BenchmarkInv'
<1>1. CasesInv'
  <2>1. documents' \in Seq(Documents)
    BY RetrievalsAreOfDocuments DEF Retrieve
  <2>2. awaited' \in {"judge", "complete"}
    BY DEF Retrieve
  <2> QED
    BY <2>1, <2>2 DEF Retrieve, BenchmarkInv, CasesInv
<1>2. LoopInv'
  BY DEF Retrieve, BenchmarkInv, LoopInv, loopVars
<1>3. VerifierInv'
  BY DEF Retrieve, BenchmarkInv, VerifierInv, answerVars
<1> QED
  BY <1>1, <1>2, <1>3 DEF BenchmarkInv

LEMMA CompleteKeeps == ASSUME BenchmarkInv, Complete PROVE BenchmarkInv'
<1>1. CasesInv'
  BY DEF Complete, BenchmarkInv, CasesInv
<1>2. LoopInv'
  BY DEF Complete, BenchmarkInv, LoopInv, loopVars
<1>3. VerifierInv'
  BY DEF Complete, BenchmarkInv, VerifierInv, answerVars
<1> QED
  BY <1>1, <1>2, <1>3 DEF BenchmarkInv

LEMMA JudgeBaselineKeeps == ASSUME BenchmarkInv, JudgeBaseline PROVE BenchmarkInv'
<1>1. CasesInv'
  <2>1. relevance' \in Int
    BY DEF JudgeBaseline, Judgements
  <2> QED
    BY <2>1 DEF JudgeBaseline, BenchmarkInv, CasesInv
<1>2. LoopInv'
  BY DEF JudgeBaseline, StartLoop, BenchmarkInv, LoopInv, Reasons
<1>3. VerifierInv'
  BY DEF JudgeBaseline, BenchmarkInv, VerifierInv, answerVars
<1> QED
  BY <1>1, <1>2, <1>3 DEF BenchmarkInv

LEMMA RunLoopKeeps == ASSUME BenchmarkInv, RunLoop PROVE BenchmarkInv'
<1>1. CasesInv'
  BY DEF RunLoop, BenchmarkInv, CasesInv, caseVars
<1>2. LoopInv'
  <2>1. LoopInv
    BY DEF BenchmarkInv
  <2>2. CASE Loop!Retrieve
    BY <2>1, <2>2 DEF LoopInv, Loop!Retrieve
  <2>3. CASE Loop!Gather
    BY <2>1, <2>3 DEF LoopInv, Loop!Gather
  <2>4. CASE Loop!Return
    BY <2>1, <2>4 DEF LoopInv, Loop!Return, Loop!NeedEvidence, Reasons, Overrides
  <2>5. CASE Loop!Abort
    BY <2>1, <2>5 DEF LoopInv, Loop!Abort
  <2> QED
    BY <2>2, <2>3, <2>4, <2>5 DEF RunLoop, Loop!Next
<1>3. VerifierInv'
  BY DEF RunLoop, BenchmarkInv, VerifierInv, answerVars
<1> QED
  BY <1>1, <1>2, <1>3 DEF BenchmarkInv

LEMMA TakeEvidenceKeeps == ASSUME BenchmarkInv, TakeEvidence PROVE BenchmarkInv'
<1>1. awaited = "loop" /\ phase = "returned" /\ cases' = cases
  BY DEF TakeEvidence
<1>2. PICK found \in {r \in Retrievals : (r # <<>>) = usable} :
        IF outcome \in Overrides
        THEN /\ Compare(found, None, outcome)
             /\ Renew /\ StartLoop
             /\ awaited' = "retrieve"
             /\ UNCHANGED answerVars
        ELSE /\ evidence' = found
             /\ awaited' = "generate"
             /\ StartVerifier(Len(found))
             /\ UNCHANGED <<documents, text, relevance, comparisons, loopVars>>
  BY DEF TakeEvidence
<1>3. found \in Seq(Documents) /\ (found # <<>>) = usable /\ Len(comparisons) < Len(cases)
  BY <1>1, RetrievalsAreOfDocuments DEF BenchmarkInv, CasesInv
<1>4. /\ outcome = "conflicting_evidence" => found # <<>>
      /\ outcome = "no_evidence_found" => found = <<>>
      /\ outcome \in Reasons
  BY <1>1, <1>3 DEF BenchmarkInv, LoopInv, Loop!NeedEvidence
<1>5. CASE outcome \in Overrides
  <2>1. /\ Compare(found, None, outcome) /\ Renew /\ StartLoop /\ awaited' = "retrieve"
        /\ UNCHANGED answerVars
    BY <1>2, <1>5
  <2>2. None \in Int /\ outcome # "grounded"
    BY <1>5 DEF None, Overrides
  <2>3. CasesInv'
    BY <1>1, <1>3, <1>4, <1>5, <2>1, <2>2, CompareKeeps DEF Statuses
  <2>4. LoopInv'
    BY <2>1 DEF StartLoop, LoopInv, Reasons
  <2>5. VerifierInv'
    BY <2>1 DEF BenchmarkInv, VerifierInv, answerVars
  <2> QED
    BY <2>3, <2>4, <2>5 DEF BenchmarkInv
<1>6. CASE outcome \notin Overrides
  <2>1. /\ evidence' = found /\ awaited' = "generate" /\ StartVerifier(Len(found))
        /\ UNCHANGED <<documents, text, relevance, comparisons, loopVars>>
    BY <1>2, <1>6
  <2>2. CasesInv'
    BY <1>1, <1>3, <2>1 DEF BenchmarkInv, CasesInv
  <2>3. LoopInv'
    BY <2>1 DEF BenchmarkInv, LoopInv, loopVars
  <2>4. VerifierInv'
    BY <1>6, <2>1 DEF StartVerifier, VerifierInv, loopVars, Overrides, CitationCounts,
                      Verifier!NoMetrics
  <2> QED
    BY <2>2, <2>3, <2>4 DEF BenchmarkInv
<1> QED
  BY <1>5, <1>6

LEMMA RunVerifierKeeps == ASSUME BenchmarkInv, RunVerifier PROVE BenchmarkInv'
<1>1. CasesInv'
  BY DEF RunVerifier, BenchmarkInv, CasesInv, caseVars
<1>2. LoopInv'
  BY DEF RunVerifier, BenchmarkInv, LoopInv, loopVars
<1>3. VerifierInv'
  <2>1. /\ awaited = "generate" /\ awaited' = awaited /\ evidence' = evidence
        /\ outcome' = outcome
    BY DEF RunVerifier, caseVars, loopVars
  <2>2. /\ metrics \in CitationCounts /\ outcome \notin Overrides /\ offered = Len(evidence)
    BY <2>1 DEF BenchmarkInv, VerifierInv
  <2>3. CASE Verifier!Ground
    <3>1. offered > 0 /\ offered' = offered /\ status' = "grounded"
      BY <2>3 DEF Verifier!Ground
    <3>2. PICK total \in 1 .. Claims, proposed \in 1 .. Citations :
            \E supported \in 1 .. total, entailed \in 1 .. proposed :
               metrics' = [claims_total |-> total, claims_supported |-> supported,
                           citations_total |-> proposed, citations_entailed |-> entailed]
      BY <2>3 DEF Verifier!Ground
    <3>3. metrics' \in CitationCounts /\ metrics' # Verifier!NoMetrics
      BY <3>2 DEF CitationCounts, Verifier!NoMetrics
    <3> QED
      BY <2>1, <2>2, <3>1, <3>3 DEF VerifierInv, Overrides
  <2>4. CASE Verifier!Abstain
    BY <2>1, <2>2, <2>4 DEF Verifier!Abstain, VerifierInv, Overrides
  <2>5. CASE Verifier!Abandon
    BY <2>1, <2>2, <2>5 DEF Verifier!Abandon, VerifierInv, Overrides
  <2> QED
    BY <2>3, <2>4, <2>5 DEF RunVerifier, Verifier!Next
<1> QED
  BY <1>1, <1>2, <1>3 DEF BenchmarkInv

LEMMA JudgeAgenticKeeps == ASSUME BenchmarkInv, JudgeAgentic PROVE BenchmarkInv'
<1>1. /\ awaited = "generate" /\ awaited' = "retrieve" /\ cases' = cases
      /\ status \in {"grounded", "insufficient_evidence"}
      /\ Renew /\ StartLoop /\ StartVerifier(0)
  BY DEF JudgeAgentic
<1>2. PICK score \in Judgements(status = "grounded") : Compare(evidence, score, status)
  BY DEF JudgeAgentic
<1>3. score \in Int /\ score # None
  BY DEF Judgements, None
<1>4. /\ evidence \in Seq(Documents) /\ Len(comparisons) < Len(cases)
      /\ outcome \notin Overrides
      /\ status = "grounded" => evidence # <<>> /\ metrics # Verifier!NoMetrics
  BY <1>1 DEF BenchmarkInv, CasesInv, VerifierInv
<1>5. outcome # "conflicting_evidence" /\ outcome # "no_evidence_found" /\ status \in Statuses
  BY <1>1, <1>4 DEF Overrides, Statuses
<1>6. CasesInv'
  BY <1>1, <1>2, <1>3, <1>4, <1>5, CompareKeeps
<1>7. LoopInv'
  BY <1>1 DEF StartLoop, LoopInv, Reasons
<1>8. VerifierInv'
  BY <1>1 DEF StartVerifier, VerifierInv, CitationCounts, Verifier!NoMetrics
<1> QED
  BY <1>6, <1>7, <1>8 DEF BenchmarkInv

LEMMA FailAndReportKeep == ASSUME BenchmarkInv, Fail \/ Report PROVE BenchmarkInv'
<1>1. /\ UNCHANGED <<cases, caseVars, comparisons, loopVars, answerVars>>
      /\ awaited' \in {"failed", "done"}
      /\ awaited' = "done" => Len(comparisons) = Len(cases)
  BY DEF Fail, Report
<1>2. CasesInv'
  BY <1>1 DEF BenchmarkInv, CasesInv, caseVars
<1>3. LoopInv'
  BY <1>1 DEF BenchmarkInv, LoopInv, loopVars
<1>4. VerifierInv'
  BY <1>1 DEF BenchmarkInv, VerifierInv, answerVars
<1> QED
  BY <1>2, <1>3, <1>4 DEF BenchmarkInv

LEMMA BenchmarkStep == BenchmarkInv /\ [BenchmarkNext]_benchmarkVars => BenchmarkInv'
<1> SUFFICES ASSUME BenchmarkInv, [BenchmarkNext]_benchmarkVars
             PROVE  BenchmarkInv'
  OBVIOUS
<1>1. CASE BenchmarkNext
  BY <1>1, RetrieveKeeps, CompleteKeeps, JudgeBaselineKeeps, RunLoopKeeps,
     TakeEvidenceKeeps, RunVerifierKeeps, JudgeAgenticKeeps, FailAndReportKeep
     DEF BenchmarkNext
<1>2. CASE UNCHANGED benchmarkVars
  <2>1. CasesInv'
    BY <1>2 DEF BenchmarkInv, CasesInv, benchmarkVars, caseVars
  <2>2. LoopInv'
    BY <1>2 DEF BenchmarkInv, LoopInv, benchmarkVars, loopVars
  <2>3. VerifierInv'
    BY <1>2 DEF BenchmarkInv, VerifierInv, benchmarkVars, caseVars, loopVars, answerVars
  <2> QED
    BY <2>1, <2>2, <2>3 DEF BenchmarkInv
<1> QED
  BY <1>1, <1>2

LEMMA MetricsAreSound == BenchmarkInv => MetricsAgree
<1> SUFFICES ASSUME BenchmarkInv
             PROVE  MetricsAgree
  OBVIOUS
<1>1. /\ DOMAIN comparisons \subseteq DOMAIN cases
      /\ cases \in Seq(SUBSET Documents) /\ comparisons \in Seq(Comparisons)
  <2>1. /\ Len(cases) \in Nat /\ DOMAIN cases = 1 .. Len(cases)
        /\ Len(comparisons) \in Nat /\ DOMAIN comparisons = 1 .. Len(comparisons)
        /\ Len(comparisons) <= Len(cases)
    BY DEF BenchmarkInv, CasesInv
  <2>2. DOMAIN comparisons \subseteq DOMAIN cases
    <3> DEFINE m == Len(comparisons)
               n == Len(cases)
    <3>1. m \in Nat /\ n \in Nat /\ m <= n /\ DOMAIN comparisons = 1 .. m /\ DOMAIN cases = 1 .. n
      BY <2>1
    <3> HIDE DEF m, n
    <3> QED
      BY <3>1
  <2> QED
    BY <2>2 DEF BenchmarkInv, CasesInv
<1>2. ASSUME NEW i \in DOMAIN comparisons
      PROVE  /\ Baseline[i].documents \in Seq(Documents)
             /\ Agentic[i].documents \in Seq(Documents)
             /\ cases[i] \in SUBSET Documents
  <2>1. comparisons[i] \in Comparisons
    BY <1>1
  <2>2. Baseline[i] = comparisons[i].baseline /\ Agentic[i] = comparisons[i].agentic
    BY DEF Baseline, Agentic
  <2>3. cases[i] \in SUBSET Documents
    BY <1>1
  <2> QED
    BY <2>1, <2>2, <2>3 DEF Comparisons
<1> QED
  BY <1>2, MetricsOfRanking DEF MetricsAgree

LEMMA ReportIsSound == BenchmarkInv => ReportIsConsistent
<1> SUFFICES ASSUME BenchmarkInv, awaited = "done"
             PROVE  ReportIsConsistent
  BY DEF ReportIsConsistent
<1>1. DOMAIN comparisons = DOMAIN cases /\ IsFiniteSet(DOMAIN cases)
  <2>1. /\ Len(cases) \in Nat /\ DOMAIN cases = 1 .. Len(cases)
        /\ DOMAIN comparisons = 1 .. Len(comparisons)
        /\ Len(comparisons) = Len(cases)
    BY DEF BenchmarkInv, CasesInv
  <2> QED
    BY <2>1, FS_Interval
<1>2. \A i \in DOMAIN cases : IsConsistent(Agentic[i])
  BY <1>1 DEF BenchmarkInv, CasesInv, Agentic
<1>3. CasesWithCitations(Agentic) = Cardinality({i \in DOMAIN cases : Agentic[i].answered})
  <2>1. DOMAIN Agentic = DOMAIN cases
    BY <1>1 DEF Agentic
  <2>2. {i \in DOMAIN Agentic : Agentic[i].metrics # Verifier!NoMetrics}
          = {i \in DOMAIN cases : Agentic[i].answered}
    BY <1>2, <2>1 DEF IsConsistent
  <2> QED
    BY <2>2 DEF CasesWithCitations
<1>4. ASSUME NEW side
      PROVE  LET mean == MeanHitRate(side)
             IN  mean[1] = mean[2] <=>
                   /\ \E i \in DOMAIN cases : cases[i] # {}
                   /\ \A i \in DOMAIN cases : cases[i] # {} =>
                        HitRate(side[i].documents, cases[i]) = <<1, 1>>
  <2> DEFINE good == {i \in Scored : HitRate(side[i].documents, cases[i]) # Zero}
             mean == MeanHitRate(side)
  <2>1. \A i : HitRate(side[i].documents, cases[i]) # Zero
                <=> HitRate(side[i].documents, cases[i]) = <<1, 1>>
    BY DEF HitRate, Zero
  <2>2. CASE Scored = {}
    <3>1. mean = <<0, 1>>
      BY <2>2 DEF MeanHitRate, Zero
    <3>2. ~ \E i \in DOMAIN cases : cases[i] # {}
      BY <2>2 DEF Scored
    <3> QED
      BY <3>1, <3>2
  <2>3. CASE Scored # {}
    <3>1. mean = <<Cardinality(good), Cardinality(Scored)>>
      BY <2>3 DEF MeanHitRate
    <3>2. IsFiniteSet(Scored)
      BY <1>1, FS_Subset DEF Scored
    <3>3. Cardinality(good) = Cardinality(Scored) <=> good = Scored
      BY <3>2, FS_Subset
    <3>4. good = Scored <=> \A i \in DOMAIN cases : cases[i] # {} =>
                              HitRate(side[i].documents, cases[i]) = <<1, 1>>
      BY <2>1 DEF Scored
    <3>5. \E i \in DOMAIN cases : cases[i] # {}
      BY <2>3 DEF Scored
    <3> HIDE DEF good, mean
    <3> QED
      BY <3>1, <3>3, <3>4, <3>5 DEF mean
  <2> QED
    BY <2>2, <2>3
<1> QED
  BY <1>1, <1>2, <1>3, <1>4 DEF ReportIsConsistent, IsConsistent

\* Whatever the rankings, K and decreasing discounts are, the metrics of a
\* ranking tell one story.  Recall and precision are at most 1; NDCG is, unless
\* the cut has more chunks of relevant documents than there are such documents,
\* and then it gains at most what so many would in front (evaluation.retrieval).
THEOREM MetricsAlwaysAgree == BenchmarkSpec => []MetricsAgree
<1> QED
  BY BenchmarkInitInv, BenchmarkStep, MetricsAreSound, PTL DEF BenchmarkSpec

\* A report of any number of cases says of each what its loop and its
\* verification, as their contracts have it, came to (run_benchmark).
THEOREM ReportAlwaysConsistent == BenchmarkSpec => []ReportIsConsistent
<1> QED
  BY BenchmarkInitInv, BenchmarkStep, ReportIsSound, PTL DEF BenchmarkSpec

============================================================================

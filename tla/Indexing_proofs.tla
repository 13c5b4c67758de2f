-------------------------- MODULE Indexing_proofs --------------------------
(***************************************************************************)
(* Proofs about what an indexing is made of: EmbeddingCache, for any       *)
(* number of calls, texts and models, and Indexing, which is Parsing and   *)
(* Chunking, for any files, all strategies and any valid configurations.   *)
(***************************************************************************)
EXTENDS EmbeddingCache, Indexing, Places_proofs, SequenceTheorems

(* EmbeddingCache: every vector in the store, among a call's values and    *)
(* among its fresh vectors is of the right model, and as long as no answer *)
(* was short it is of the right text, too.                                 *)

\* v is what call c may have for its i-th text.
Right(c, i, v) ==
    /\ v \in Vectors
    /\ v[1] = model[c]
    /\ ~ omitted => v = <<model[c], texts[c][i]>>

StoreInv ==
    \A k \in Vectors :
        \/ store[k] = NoVector
        \/ /\ store[k] \in Vectors
           /\ store[k][1] = k[1]
           /\ ~ omitted => store[k] = k

CallInv(c) ==
    /\ Len(values[c]) <= Len(texts[c])
    /\ \A i \in 1 .. Len(values[c]) :
          values[c][i] = NoVector \/ Right(c, i, values[c][i])
    /\ misses[c] \subseteq 1 .. Len(texts[c])
    /\ pc[c] = "get" => Len(values[c]) < Len(texts[c])
    /\ pc[c] \in {"ask", "set", "returned"} => Len(values[c]) = Len(texts[c])
    /\ pc[c] \in {"ask", "set"} =>
          \A i \in 1 .. Len(texts[c]) : values[c][i] = NoVector => i \in misses[c]
    /\ pc[c] = "set" =>
          \A k \in 1 .. Len(fresh[c]) :
             k <= Cardinality(misses[c]) /\ Right(c, Nth(misses[c], k), fresh[c][k])
    /\ pc[c] = "returned" =>
          \A i \in 1 .. Len(texts[c]) : values[c][i] # NoVector

IInv == TypeOK /\ StoreInv /\ \A c \in Callers : CallInv(c)

----------------------------------------------------------------------------
(* Lemmas *)

LEMMA NoVectorIsNone == NoVector \notin Vectors
  BY DEF NoVector, Vectors

\* The misses of a call are finitely many numbers.
LEMMA MissesAreFinite ==
    ASSUME IInv, NEW c \in Callers
    PROVE  /\ misses[c] \in SUBSET Int
           /\ IsFiniteSet(misses[c])
           /\ Cardinality(misses[c]) \in Nat
<1>1. texts[c] \in Seq(Texts) /\ misses[c] \subseteq 1 .. Len(texts[c])
  BY DEF IInv, TypeOK, CallInv
<1>2. Len(texts[c]) \in Nat
  BY <1>1
<1>3. IsFiniteSet(1 .. Len(texts[c]))
  <2>1. \A n \in Nat : IsFiniteSet(1 .. n)
    BY FS_Interval
  <2> QED
    BY <1>2, <2>1
<1>4. IsFiniteSet(misses[c])
  BY <1>1, <1>3, FS_Subset
<1> QED
  BY <1>1, <1>4, FS_CardinalityType

\* Sorting an answer gives indexes that were asked for, and all of them in
\* their order if none is missing.
LEMMA SortedAnswer ==
    ASSUME NEW n \in Nat, NEW answer \in Answers(n)
    PROVE  /\ Len(answer) \in 0 .. n
           /\ answer \in [1 .. Len(answer) -> 1 .. n]
           /\ \A k \in 1 .. Len(answer) : Sorted(answer)[k] \in 1 .. n
           /\ Len(answer) = n => \A k \in 1 .. n : Sorted(answer)[k] = k
<1>1. PICK l \in 0 .. n : answer \in [1 .. l -> 1 .. n]
  BY DEF Answers
<1>2. answer \in Seq(1 .. n) /\ Len(answer) = l /\ DOMAIN answer = 1 .. l
  BY <1>1
<1>3. \A a, b \in 1 .. l : answer[a] = answer[b] => a = b
  BY <1>2 DEF Answers, IsInjective
<1> DEFINE R == Range(answer)
<1>4. R = {answer[k] : k \in 1 .. l} /\ R \in SUBSET (1 .. n)
  BY <1>1, <1>2 DEF Range
<1>5. IsFiniteSet(1 .. l) /\ Cardinality(1 .. l) = l
  BY FS_Interval
<1>6. IsFiniteSet(1 .. n) /\ Cardinality(1 .. n) = n
  BY FS_Interval
<1>7. IsFiniteSet(R)
  BY <1>4, <1>6, FS_Subset
<1>8. answer \in Bijection(1 .. l, R)
  BY <1>1, <1>2, <1>3, <1>4 DEF Bijection, Injection, Surjection, IsInjective
<1>9. Cardinality(R) = l
  BY <1>5, <1>8, FS_Surjection DEF Bijection
<1>10. \A k \in 1 .. l : Nth(R, k) \in R
  <2>1. R \in SUBSET Int
    BY <1>4
  <2> HIDE DEF R
  <2> QED
    BY <2>1, <1>7, <1>9, NthIsThere
<1>11. ASSUME l = n, NEW k \in 1 .. n
       PROVE  Nth(R, k) = k
  <2>1. R = 1 .. n
    BY <1>4, <1>6, <1>9, <1>11, FS_Subset
  <2> QED
    BY <2>1, NthOfInterval
<1> QED
  BY <1>1, <1>2, <1>4, <1>10, <1>11 DEF Sorted

\* A call that is not touched keeps its invariant; that an answer was short
\* only takes from what is claimed.
LEMMA UntouchedCall ==
    ASSUME NEW c \in Callers, CallInv(c), omitted => omitted',
           pc'[c] = pc[c], model'[c] = model[c], texts'[c] = texts[c],
           values'[c] = values[c], misses'[c] = misses[c], fresh'[c] = fresh[c]
    PROVE  CallInv(c)'
  BY DEF CallInv, Right

\* Without texts there is nothing to be right.
LEMMA EmptyCall ==
    ASSUME NEW c \in Callers, texts'[c] = <<>>, values'[c] = <<>>,
           misses'[c] = {}, fresh'[c] = <<>>, pc'[c] # "get"
    PROVE  CallInv(c)'
  BY DEF CallInv

----------------------------------------------------------------------------
(* The steps *)

LEMMA InitIsRight == Init => IInv
<1> SUFFICES ASSUME Init PROVE IInv
  OBVIOUS
<1>1. TypeOK
  <2>1. /\ store \in [Vectors -> Vectors \cup {NoVector}]
        /\ omitted \in BOOLEAN
        /\ model \in [Callers -> Models]
    BY DEF Init
  <2>2. pc \in [Callers -> {"idle", "get", "ask", "set", "returned", "raised"}]
    BY DEF Init
  <2>3. misses \in [Callers -> SUBSET (Nat \ {0})]
    BY DEF Init
  <2>4. /\ texts \in [Callers -> Seq(Texts)]
        /\ values \in [Callers -> Seq(Vectors \cup {NoVector})]
        /\ fresh \in [Callers -> Seq(Vectors)]
    BY DEF Init
  <2> QED
    BY <2>1, <2>2, <2>3, <2>4 DEF TypeOK
<1>2. StoreInv
  BY DEF Init, StoreInv
<1>3. \A c \in Callers : CallInv(c)
  BY DEF Init, CallInv
<1> QED
  BY <1>1, <1>2, <1>3 DEF IInv

LEMMA CallStep ==
    ASSUME IInv, NEW c \in Callers, Call(c)
    PROVE  IInv'
<1>1. PICK list \in Lists :
         /\ texts' = [texts EXCEPT ![c] = list]
         /\ pc' = [pc EXCEPT ![c] = IF list = <<>> THEN "returned" ELSE "get"]
  BY DEF Call
<1>2. list \in Seq(Texts)
  BY <1>1, BoundIsNatural DEF Lists
<1>3. TypeOK'
  BY <1>1, <1>2 DEF Call, IInv, TypeOK
<1>4. StoreInv'
  BY DEF Call, IInv, StoreInv
<1>5. ASSUME NEW d \in Callers
      PROVE  CallInv(d)'
  <2>1. CASE d = c
    <3>1. /\ texts'[c] = list /\ values'[c] = <<>> /\ misses'[c] = {}
          /\ pc'[c] = IF list = <<>> THEN "returned" ELSE "get"
      BY <1>1 DEF Call, IInv, TypeOK
    <3>2. list # <<>> => Len(list) > 0
      BY <1>2
    <3> QED
      BY <2>1, <3>1, <3>2, <1>2 DEF CallInv
  <2>2. CASE d # c
    BY <1>1, <2>2, UntouchedCall DEF Call, IInv, TypeOK
  <2> QED
    BY <2>1, <2>2
<1> QED
  BY <1>3, <1>4, <1>5 DEF IInv

LEMMA GetStep ==
    ASSUME IInv, NEW c \in Callers, Get(c)
    PROVE  IInv'
<1> DEFINE i == Len(values[c]) + 1
           v == store[<<model[c], texts[c][i]>>]
           found == Append(values[c], v)
           missed == {k \in DOMAIN found : found[k] = NoVector}
<1>1. /\ pc[c] = "get"
      /\ values' = [values EXCEPT ![c] = found]
      /\ IF i < Len(texts[c])
         THEN UNCHANGED <<pc, misses>>
         ELSE /\ misses' = [misses EXCEPT ![c] = missed]
              /\ pc' = [pc EXCEPT ![c] =
                           IF missed = {} THEN "returned" ELSE "ask"]
      /\ UNCHANGED <<store, omitted, model, texts, fresh>>
  BY DEF Get, Key
<1>2. /\ texts[c] \in Seq(Texts) /\ model[c] \in Models
      /\ values[c] \in Seq(Vectors \cup {NoVector})
      /\ Len(values[c]) < Len(texts[c])
      /\ misses[c] \subseteq 1 .. Len(texts[c])
  BY <1>1 DEF IInv, TypeOK, CallInv
<1>3. i \in 1 .. Len(texts[c]) /\ <<model[c], texts[c][i]>> \in Vectors
  BY <1>2 DEF Vectors
<1>4. v = NoVector \/ Right(c, i, v)
  BY <1>3 DEF IInv, StoreInv, Right
<1>5. v \in Vectors \cup {NoVector}
  BY <1>4 DEF Right
<1> HIDE DEF v
<1>6. /\ found \in Seq(Vectors \cup {NoVector})
      /\ Len(found) = i /\ DOMAIN found = 1 .. i
      /\ found[i] = v /\ \A k \in 1 .. Len(values[c]) : found[k] = values[c][k]
  BY <1>2, <1>5
<1> HIDE DEF found
<1>7. missed \subseteq Nat \ {0}
  BY <1>2, <1>6
<1>8. TypeOK'
  BY ZenonT(60), <1>1, <1>6, <1>7 DEF IInv, TypeOK
<1>9. StoreInv'
  BY <1>1 DEF IInv, StoreInv
<1>10. ASSUME NEW d \in Callers
       PROVE  CallInv(d)'
  <2>1. CASE d = c
    <3>1. /\ values'[c] = found /\ texts'[c] = texts[c] /\ model'[c] = model[c]
          /\ omitted' = omitted
      BY <1>1 DEF IInv, TypeOK
    <3>2. \A k \in 1 .. Len(found) : found[k] = NoVector \/ Right(c, k, found[k])
      <4>1. \A k \in 1 .. Len(values[c]) :
               values[c][k] = NoVector \/ Right(c, k, values[c][k])
        BY DEF IInv, CallInv
      <4> QED
        BY <4>1, <1>2, <1>4, <1>6
    <3>3. \A k \in 1 .. Len(values'[c]) :
             \/ values'[c][k] = NoVector
             \/ /\ values'[c][k] \in Vectors
                /\ values'[c][k][1] = model'[c]
                /\ ~ omitted' => values'[c][k] = <<model'[c], texts'[c][k]>>
      BY <3>1, <3>2 DEF Right
    <3>4. CASE i < Len(texts[c])
      <4>1. pc'[c] = "get" /\ misses'[c] = misses[c]
        BY <1>1, <3>4
      <4> QED
        BY <2>1, <3>1, <3>3, <3>4, <4>1, <1>2, <1>6 DEF CallInv, Right
    <3>5. CASE ~ (i < Len(texts[c]))
      <4>1. /\ misses'[c] = missed
            /\ pc'[c] = IF missed = {} THEN "returned" ELSE "ask"
        BY <1>1, <3>5 DEF IInv, TypeOK
      <4>2. i = Len(texts[c])
        BY <1>2, <3>5
      <4>3. missed \subseteq 1 .. Len(texts[c])
        BY <1>6, <4>2
      <4>4. \A k \in 1 .. Len(texts[c]) :
               values'[c][k] = NoVector => k \in missed
        BY <3>1, <1>6, <4>2
      <4>5. missed = {} => \A k \in 1 .. Len(texts[c]) : values'[c][k] # NoVector
        BY <4>4
      <4>6. Len(values'[c]) = Len(texts'[c]) /\ Len(values'[c]) <= Len(texts'[c])
        BY <1>2, <1>6, <3>1, <4>2
      <4> HIDE DEF missed
      <4> QED
        BY <2>1, <3>1, <3>3, <4>1, <4>3, <4>4, <4>5, <4>6 DEF CallInv, Right
    <3> QED
      BY <3>4, <3>5
  <2>2. CASE d # c
    <3>1. pc'[d] = pc[d] /\ misses'[d] = misses[d] /\ values'[d] = values[d]
      BY <1>1, <2>2 DEF IInv, TypeOK
    <3> QED
      BY <1>1, <3>1, UntouchedCall DEF IInv
  <2> QED
    BY <2>1, <2>2
<1> QED
  BY <1>8, <1>9, <1>10 DEF IInv

LEMMA AnswerStep ==
    ASSUME IInv, NEW c \in Callers, Answer(c)
    PROVE  IInv'
<1> DEFINE n == Cardinality(misses[c])
<1>1. PICK answer \in Answers(n) :
         /\ fresh' = [fresh EXCEPT ![c] =
               [k \in DOMAIN answer |->
                   <<model[c], texts[c][Nth(misses[c], Sorted(answer)[k])]>>]]
         /\ omitted' = (omitted \/ Len(answer) < n)
  BY DEF Answer, Asked
<1>2. /\ pc[c] = "ask" /\ pc' = [pc EXCEPT ![c] = "set"]
      /\ UNCHANGED <<store, model, texts, values, misses>>
  BY DEF Answer
<1>3. /\ misses[c] \in SUBSET Int /\ IsFiniteSet(misses[c]) /\ n \in Nat
  BY MissesAreFinite
<1>4. /\ texts[c] \in Seq(Texts) /\ model[c] \in Models
      /\ misses[c] \subseteq 1 .. Len(texts[c])
  BY DEF IInv, TypeOK, CallInv
<1> HIDE DEF n
<1>5. /\ Len(answer) \in 0 .. n
      /\ DOMAIN answer = 1 .. Len(answer)
      /\ \A k \in 1 .. Len(answer) : Sorted(answer)[k] \in 1 .. n
      /\ Len(answer) = n => \A k \in 1 .. n : Sorted(answer)[k] = k
  BY <1>3, SortedAnswer
<1> DEFINE new == [k \in 1 .. Len(answer) |->
                      <<model[c], texts[c][Nth(misses[c], Sorted(answer)[k])]>>]
<1>6. \A k \in 1 .. Len(answer) : Nth(misses[c], Sorted(answer)[k]) \in misses[c]
  BY <1>3, <1>5, NthIsThere DEF n
<1>7. \A k \in 1 .. Len(answer) : new[k] \in Vectors /\ new[k][1] = model[c]
  BY <1>4, <1>6 DEF Vectors
<1>8. new \in Seq(Vectors) /\ Len(new) = Len(answer)
  BY <1>5, <1>7
<1>9. fresh' = [fresh EXCEPT ![c] = new]
  BY <1>1, <1>5
<1>10. \A k \in 1 .. Len(new) :
          /\ k <= n
          /\ ~ omitted' => new[k] = <<model[c], texts[c][Nth(misses[c], k)]>>
  <2> TAKE k \in 1 .. Len(new)
  <2>1. k \in 1 .. Len(answer) /\ k <= n
    <3>1. Len(new) = Len(answer)
      BY <1>8
    <3> HIDE DEF new
    <3>2. k \in 1 .. Len(answer)
      BY <3>1
    <3>3. Len(answer) \in 0 .. n
      BY <1>5
    <3> QED
      BY <1>3, <3>2, <3>3
  <2>2. new[k] = <<model[c], texts[c][Nth(misses[c], Sorted(answer)[k])]>>
    BY <2>1
  <2>3. ~ omitted' => Len(answer) = n
    <3>1. ~ omitted' => ~ (Len(answer) < n)
      BY <1>1, Zenon
    <3>2. \A b \in Nat : \A a \in 0 .. b : ~ (a < b) => a = b
      OBVIOUS
    <3>3. n \in Nat /\ Len(answer) \in 0 .. n
      BY <1>3, <1>5, Zenon
    <3> QED
      BY <3>1, <3>2, <3>3, Zenon
  <2>4. ~ omitted' => Sorted(answer)[k] = k
    BY <1>3, <1>5, <2>1, <2>3
  <2> QED
    BY <2>1, <2>2, <2>4
<1>11. \A k \in 1 .. Len(new) : new[k] \in Vectors /\ new[k][1] = model[c]
  BY <1>7, <1>8
<1> HIDE DEF new
<1>12. TypeOK'
  BY <1>1, <1>2, <1>8, <1>9 DEF IInv, TypeOK
<1>13. StoreInv'
  BY <1>1, <1>2 DEF IInv, StoreInv
<1>14. ASSUME NEW d \in Callers
       PROVE  CallInv(d)'
  <2>1. CASE d = c
    <3>1. fresh'[c] = new /\ pc'[c] = "set"
      BY <1>2, <1>9 DEF IInv, TypeOK
    <3>2. \A k \in 1 .. Len(fresh'[c]) :
             /\ k <= Cardinality(misses'[c])
             /\ fresh'[c][k] \in Vectors
             /\ fresh'[c][k][1] = model'[c]
             /\ ~ omitted' =>
                  fresh'[c][k] = <<model'[c], texts'[c][Nth(misses'[c], k)]>>
      BY <1>2, <1>10, <1>11, <3>1 DEF n
    <3>3. \A k \in 1 .. Len(values'[c]) :
             \/ values'[c][k] = NoVector
             \/ /\ values'[c][k] \in Vectors
                /\ values'[c][k][1] = model'[c]
                /\ ~ omitted' => values'[c][k] = <<model'[c], texts'[c][k]>>
      BY <1>1, <1>2 DEF IInv, CallInv, Right
    <3>4. /\ Len(values'[c]) = Len(texts'[c])
          /\ misses'[c] \subseteq 1 .. Len(texts'[c])
          /\ \A i \in 1 .. Len(texts'[c]) :
                values'[c][i] = NoVector => i \in misses'[c]
      BY <1>2 DEF IInv, CallInv
    <3>5. Len(values'[c]) <= Len(texts'[c])
      BY <1>2, <1>4, <3>4
    <3> QED
      BY <2>1, <3>1, <3>2, <3>3, <3>4, <3>5 DEF CallInv, Right
  <2>2. CASE d # c
    <3>1. pc'[d] = pc[d] /\ fresh'[d] = fresh[d]
      BY <1>2, <1>9, <2>2 DEF IInv, TypeOK
    <3> QED
      BY <1>1, <1>2, <3>1, UntouchedCall DEF IInv
  <2> QED
    BY <2>1, <2>2
<1> QED
  BY <1>12, <1>13, <1>14 DEF IInv

LEMMA SetStep ==
    ASSUME IInv, NEW c \in Callers, Set(c)
    PROVE  IInv'
<1>1. PICK i \in Missing(c) :
         LET k == Place(misses[c], i)
         IN  /\ k <= Len(fresh[c])
             /\ store' = [store EXCEPT ![<<model[c], texts[c][i]>>] = fresh[c][k]]
             /\ values' = [values EXCEPT ![c][i] = fresh[c][k]]
  BY DEF Set, Key
<1>2. pc[c] = "set" /\ UNCHANGED <<omitted, model, pc, texts, misses, fresh>>
  BY DEF Set
<1> DEFINE k == Place(misses[c], i)
           v == fresh[c][k]
           key == <<model[c], texts[c][i]>>
<1>3. /\ misses[c] \in SUBSET Int /\ IsFiniteSet(misses[c])
      /\ i \in misses[c]
  BY MissesAreFinite DEF Missing
<1>4. /\ texts[c] \in Seq(Texts) /\ model[c] \in Models
      /\ values[c] \in Seq(Vectors \cup {NoVector})
      /\ misses[c] \subseteq 1 .. Len(texts[c])
      /\ Len(values[c]) = Len(texts[c])
      /\ fresh[c] \in Seq(Vectors)
  BY <1>2 DEF IInv, TypeOK, CallInv
<1>5. k \in 1 .. Cardinality(misses[c]) /\ Nth(misses[c], k) = i
  BY <1>3, PlaceType, NthOfPlace
<1>6. k \in 1 .. Len(fresh[c])
  BY <1>1, <1>4, <1>5
<1>7. Right(c, i, v)
  <2>1. Right(c, Nth(misses[c], k), v)
    BY <1>2, <1>6 DEF IInv, CallInv
  <2> QED
    BY <1>5, <2>1
<1>8. key \in Vectors /\ v \in Vectors
  BY <1>3, <1>4, <1>7 DEF Vectors, Right
<1>9. /\ store' = [store EXCEPT ![key] = v]
      /\ values' = [values EXCEPT ![c][i] = v]
  BY <1>1
<1>10. v[1] = key[1] /\ (~ omitted => v = key)
  BY <1>7 DEF Right
<1> HIDE DEF v, key, k
<1>11. TypeOK'
  <2>1. store' \in [Vectors -> Vectors \cup {NoVector}]
    BY <1>8, <1>9 DEF IInv, TypeOK
  <2>2. values' \in [Callers -> Seq(Vectors \cup {NoVector})]
    <3>1. [values[c] EXCEPT ![i] = v] \in Seq(Vectors \cup {NoVector})
      <4>1. i \in 1 .. Len(values[c])
        BY <1>3, <1>4
      <4> QED
        BY <1>4, <1>8, <4>1
    <3>2. values' = [values EXCEPT ![c] = [values[c] EXCEPT ![i] = v]]
      BY <1>9
    <3> QED
      BY <3>1, <3>2 DEF IInv, TypeOK
  <2> QED
    BY <1>2, <2>1, <2>2 DEF IInv, TypeOK
<1>12. StoreInv'
  <2> SUFFICES ASSUME NEW q \in Vectors
               PROVE  \/ store'[q] = NoVector
                      \/ /\ store'[q] \in Vectors /\ store'[q][1] = q[1]
                         /\ ~ omitted' => store'[q] = q
    BY DEF StoreInv
  <2>1. CASE q = key
    <3>1. store'[q] = v
      BY <1>8, <1>9, <2>1 DEF IInv, TypeOK
    <3> QED
      BY <1>2, <1>8, <1>10, <2>1, <3>1
  <2>2. CASE q # key
    <3>1. store'[q] = store[q]
      BY <1>9, <2>2 DEF IInv, TypeOK
    <3> QED
      BY <1>2, <3>1 DEF IInv, StoreInv
  <2> QED
    BY <2>1, <2>2
<1>13. ASSUME NEW d \in Callers
       PROVE  CallInv(d)'
  <2>1. CASE d = c
    <3>1. values'[c] = [values[c] EXCEPT ![i] = v]
      BY <1>9 DEF IInv, TypeOK
    <3>2. /\ Len(values'[c]) = Len(values[c])
          /\ \A j \in 1 .. Len(values[c]) :
                values'[c][j] = IF j = i THEN v ELSE values[c][j]
      BY <1>4, <3>1
    <3>3. \A j \in 1 .. Len(values'[c]) :
             values'[c][j] = NoVector \/ Right(c, j, values'[c][j])
      BY <1>7, <3>2 DEF IInv, CallInv
    <3>4. \A j \in 1 .. Len(texts[c]) : values'[c][j] = NoVector => j \in misses[c]
      BY <1>2, <1>3, <1>4, <3>2 DEF IInv, CallInv
    <3>5. /\ pc'[c] = "set" /\ texts'[c] = texts[c] /\ misses'[c] = misses[c]
          /\ fresh'[c] = fresh[c] /\ model'[c] = model[c] /\ omitted' = omitted
      BY <1>2
    <3>6. \A j \in 1 .. Len(fresh[c]) :
             j <= Cardinality(misses[c]) /\ Right(c, Nth(misses[c], j), fresh[c][j])
      BY <1>2 DEF IInv, CallInv
    <3>7. Len(values'[c]) = Len(texts'[c]) /\ Len(values'[c]) <= Len(texts'[c])
      BY <1>4, <3>2, <3>5
    <3>8. misses'[c] \subseteq 1 .. Len(texts'[c])
      BY <1>4, <3>5
    <3> QED
      BY <2>1, <3>3, <3>4, <3>5, <3>6, <3>7, <3>8 DEF CallInv, Right
  <2>2. CASE d # c
    <3>1. values'[d] = values[d]
      BY <1>9, <2>2 DEF IInv, TypeOK
    <3> QED
      BY <1>2, <3>1, UntouchedCall DEF IInv
  <2> QED
    BY <2>1, <2>2
<1> QED
  BY <1>11, <1>12, <1>13 DEF IInv

LEMMA ReturnStep ==
    ASSUME IInv, NEW c \in Callers, Return(c)
    PROVE  IInv'
<1>1. pc[c] = "set" /\ UNCHANGED <<store, omitted, model>>
  BY DEF Return
<1>2. StoreInv'
  BY <1>1 DEF IInv, StoreInv
<1> DEFINE wrong == \/ Len(fresh[c]) # Cardinality(misses[c])
                    \/ \E i \in DOMAIN values[c] : values[c][i] = NoVector
<1>3. CASE ~ wrong
  <2>1. /\ pc' = [pc EXCEPT ![c] = "returned"]
        /\ misses' = [misses EXCEPT ![c] = {}]
        /\ fresh' = [fresh EXCEPT ![c] = <<>>]
        /\ UNCHANGED <<texts, values>>
    BY <1>3 DEF Return
  <2>2. TypeOK'
    BY <1>1, <2>1 DEF IInv, TypeOK
  <2>3. ASSUME NEW d \in Callers
        PROVE  CallInv(d)'
    <3>1. CASE d = c
      <4>1. pc'[c] = "returned" /\ misses'[c] = {}
        BY <2>1 DEF IInv, TypeOK
      <4>2. \A i \in 1 .. Len(texts[c]) : values[c][i] # NoVector
        <5>1. Len(values[c]) = Len(texts[c]) /\ values[c] \in Seq(Vectors \cup {NoVector})
          BY <1>1 DEF IInv, CallInv, TypeOK
        <5>2. DOMAIN values[c] = 1 .. Len(texts[c])
          BY <5>1
        <5> QED
          BY <1>3, <5>2
      <4>3. /\ Len(values[c]) = Len(texts[c])
            /\ \A i \in 1 .. Len(values[c]) :
                 values[c][i] = NoVector \/ Right(c, i, values[c][i])'
        BY <1>1, <2>1 DEF IInv, CallInv, Right
      <4>4. texts[c] \in Seq(Texts)
        BY DEF IInv, TypeOK
      <4> QED
        BY <2>1, <3>1, <4>1, <4>2, <4>3, <4>4 DEF CallInv
    <3>2. CASE d # c
      <4>1. pc'[d] = pc[d] /\ misses'[d] = misses[d] /\ fresh'[d] = fresh[d]
        BY <2>1, <3>2 DEF IInv, TypeOK
      <4> QED
        BY <1>1, <2>1, <4>1, UntouchedCall DEF IInv
    <3> QED
      BY <3>1, <3>2
  <2> QED
    BY <1>2, <2>2, <2>3 DEF IInv
<1>4. CASE wrong
  <2>1. pc' = [pc EXCEPT ![c] = "raised"] /\ Forget(c)
    BY <1>4 DEF Return
  <2>2. TypeOK'
    BY <1>1, <2>1 DEF IInv, TypeOK, Forget
  <2>3. ASSUME NEW d \in Callers
        PROVE  CallInv(d)'
    <3>1. CASE d = c
      BY <2>1, <3>1, EmptyCall DEF IInv, TypeOK, Forget
    <3>2. CASE d # c
      BY <1>1, <2>1, <3>2, UntouchedCall DEF IInv, TypeOK, Forget
    <3> QED
      BY <3>1, <3>2
  <2> QED
    BY <1>2, <2>2, <2>3 DEF IInv
<1> QED
  BY <1>3, <1>4

\* A call that fails or is restarted leaves what it stored, and nothing else.
LEMMA EndStep ==
    ASSUME IInv, NEW c \in Callers, Forget(c), UNCHANGED <<store, omitted>>,
           NEW end \in {"idle", "raised"}, pc' = [pc EXCEPT ![c] = end],
           NEW m \in Models, model' = [model EXCEPT ![c] = m]
    PROVE  IInv'
<1>1. TypeOK'
  BY DEF IInv, TypeOK, Forget
<1>2. StoreInv'
  BY DEF IInv, StoreInv
<1>3. ASSUME NEW d \in Callers
      PROVE  CallInv(d)'
  <2>1. CASE d = c
    BY <2>1, EmptyCall DEF IInv, TypeOK, Forget
  <2>2. CASE d # c
    BY <2>2, UntouchedCall DEF IInv, TypeOK, Forget
  <2> QED
    BY <2>1, <2>2
<1> QED
  BY <1>1, <1>2, <1>3 DEF IInv

LEMMA EvictStep ==
    ASSUME IInv, Evict
    PROVE  IInv'
<1>1. PICK k \in Vectors : store' = [store EXCEPT ![k] = NoVector]
  BY DEF Evict
<1>2. UNCHANGED <<omitted, model, pc, texts, values, misses, fresh>>
  BY DEF Evict, callVars
<1>3. TypeOK'
  BY <1>1, <1>2 DEF IInv, TypeOK
<1>4. StoreInv'
  BY <1>1, <1>2 DEF IInv, TypeOK, StoreInv
<1>5. \A d \in Callers : CallInv(d)'
  BY <1>2, UntouchedCall DEF IInv
<1> QED
  BY <1>3, <1>4, <1>5 DEF IInv

LEMMA Invariance == Spec => []IInv
<1>1. IInv /\ [Next]_vars => IInv'
  <2> SUFFICES ASSUME IInv, [Next]_vars PROVE IInv'
    OBVIOUS
  <2>1. CASE Evict
    BY <2>1, EvictStep
  <2>2. ASSUME NEW c \in Callers, Call(c) \/ Get(c) \/ Answer(c) \/ Set(c) \/ Return(c)
        PROVE  IInv'
    BY <2>2, CallStep, GetStep, AnswerStep, SetStep, ReturnStep
  <2>3. ASSUME NEW c \in Callers, Fail(c)
        PROVE  IInv'
    <3>1. /\ pc' = [pc EXCEPT ![c] = "raised"]
          /\ Forget(c) /\ UNCHANGED <<store, omitted, model>>
      BY <2>3 DEF Fail
    <3>2. model[c] \in Models /\ model' = [model EXCEPT ![c] = model[c]]
      BY <3>1 DEF IInv, TypeOK
    <3> QED
      BY <3>1, <3>2, EndStep
  <2>4. ASSUME NEW c \in Callers, Restart(c)
        PROVE  IInv'
    <3>1. /\ pc' = [pc EXCEPT ![c] = "idle"]
          /\ Forget(c) /\ UNCHANGED <<store, omitted>>
      BY <2>4 DEF Restart
    <3>2. PICK m \in Models : model' = [model EXCEPT ![c] = m]
      BY <2>4 DEF Restart
    <3> QED
      BY <3>1, <3>2, EndStep
  <2>5. CASE UNCHANGED vars
    <3>1. UNCHANGED <<store, omitted, model, pc, texts, values, misses, fresh>>
      BY <2>5 DEF vars, callVars
    <3>2. TypeOK' /\ StoreInv'
      BY <3>1 DEF IInv, TypeOK, StoreInv
    <3>3. \A d \in Callers : CallInv(d)'
      BY <3>1, UntouchedCall DEF IInv
    <3> QED
      BY <3>2, <3>3 DEF IInv
  <2> QED
    BY <2>1, <2>2, <2>3, <2>4, <2>5 DEF Next
<1> QED
  BY <1>1, InitIsRight, PTL DEF Spec

----------------------------------------------------------------------------
(* Theorems *)

\* A returned list has one vector per text, of the calling model, whatever
\* overlapping calls of this or another model stored, and whatever was evicted,
\* failed, restarted or left out; unless something was left out, they are the
\* vectors of the texts in their order.
THEOREM VectorsMatchAlways == Spec => []VectorsMatch
<1>1. IInv => VectorsMatch
  <2> SUFFICES ASSUME IInv, NEW c \in Callers, pc[c] = "returned"
               PROVE  /\ Len(values[c]) = Len(texts[c])
                      /\ \A i \in DOMAIN texts[c] :
                            /\ values[c][i] # NoVector
                            /\ values[c][i][1] = model[c]
                            /\ ~ omitted => values[c][i] = <<model[c], texts[c][i]>>
    BY DEF VectorsMatch
  <2>1. texts[c] \in Seq(Texts) /\ Len(values[c]) = Len(texts[c])
    BY DEF IInv, TypeOK, CallInv
  <2>2. DOMAIN texts[c] = 1 .. Len(texts[c])
    BY <2>1
  <2>3. \A i \in 1 .. Len(texts[c]) :
           values[c][i] # NoVector /\ Right(c, i, values[c][i])
    BY <2>1 DEF IInv, CallInv
  <2> QED
    BY <2>1, <2>2, <2>3 DEF Right
<1> QED
  BY <1>1, Invariance, PTL

----------------------------------------------------------------------------
(* Parsing *)

\* The places of the file in the order they are read.
LEMMA AfterBlock ==
    ASSUME NEW p \in Int, NEW k \in Int, NEW q \in Int, NEW l \in Int
    PROVE  Parser!Before(p, k, q, l + 1)
              <=> Parser!Before(p, k, q, l) \/ (p = q /\ k = l)
  BY DEF Parser!Before

\* What a library makes of a file of Files.
LEMMA PagesAreSequences ==
    ASSUME file \in Files
    PROVE  /\ file.pages \in Seq(Seq(Parser!Blocks))
           /\ DOMAIN file.pages = 1 .. Len(file.pages)
           /\ Len(file.pages) \in Nat
           /\ \A p \in DOMAIN file.pages :
                /\ Len(file.pages[p]) \in Nat
                /\ DOMAIN file.pages[p] = 1 .. Len(file.pages[p])
<1>1. file.pages \in Seq(Seq(Parser!Blocks))
  BY FilesAssumption DEF Parser!FilesAreFiles
<1>2. \A p \in 1 .. Len(file.pages) : file.pages[p] \in Seq(Parser!Blocks)
  BY <1>1
<1> QED
  BY <1>1, <1>2

\* A heading is only ever taken in the pass over the blocks.
LEMMA HeadingsAreTaken ==
    ASSUME NEW p, NEW k, Parser!Has(p, k), file.pages[p][k].kind = "heading"
    PROVE  Parser!IsHeading(p, k)
              <=> /\ Parser!Taken(file.pages[p][k], "blocks", Parser!IsPdf)
                  /\ Parser!HasText(file.pages[p][k])
  BY DEF Parser!IsHeading, Parser!Kept, Parser!Taken

\* The pass over the tables takes nothing else.
LEMMA TablesAreTaken ==
    ASSUME NEW b, NEW pdf, Parser!Taken(b, "tables", pdf)
    PROVE  b.kind = "table"
  BY DEF Parser!Taken

\* A block that is no heading does not change which one is the last.
LEMMA HeadingStays ==
    ASSUME file \in Files, NEW q \in Nat, NEW l \in Nat, NEW h,
           ~ Parser!IsHeading(q, l),
           Parser!LastHeadingBefore(q, l, h)
    PROVE  Parser!LastHeadingBefore(q, l + 1, h)
<1>1. \A p \in DOMAIN file.pages : \A k \in DOMAIN file.pages[p] :
        Parser!IsHeading(p, k) =>
          (Parser!Before(p, k, q, l + 1) <=> Parser!Before(p, k, q, l))
  <2> SUFFICES ASSUME NEW p \in DOMAIN file.pages, NEW k \in DOMAIN file.pages[p],
                      Parser!IsHeading(p, k)
               PROVE  Parser!Before(p, k, q, l + 1) <=> Parser!Before(p, k, q, l)
    OBVIOUS
  <2>1. p \in Int /\ k \in Int /\ q \in Int /\ l \in Int
    BY PagesAreSequences
  <2>2. Parser!Before(p, k, q, l + 1) <=> Parser!Before(p, k, q, l) \/ (p = q /\ k = l)
    BY <2>1, AfterBlock
  <2> QED
    BY <2>2
<1> QED
  BY <1>1 DEF Parser!LastHeadingBefore

\* A heading is the last one before the block that follows it.
LEMMA HeadingIsLast ==
    ASSUME file \in Files, NEW q \in Nat, NEW l \in Nat,
           Parser!IsHeading(q, l)
    PROVE  Parser!LastHeadingBefore(q, l + 1, file.pages[q][l].title)
<1>1. q \in DOMAIN file.pages /\ l \in DOMAIN file.pages[q]
  BY DEF Parser!IsHeading, Parser!Kept, Parser!Has
<1>2. Parser!Before(q, l, q, l + 1)
  BY DEF Parser!Before
<1>3. \A r \in DOMAIN file.pages : \A m \in DOMAIN file.pages[r] :
        Parser!Before(r, m, q, l + 1) => ~ Parser!Before(q, l, r, m)
  BY PagesAreSequences DEF Parser!Before
<1> QED
  BY <1>1, <1>2, <1>3 DEF Parser!LastHeadingBefore

\* Past the end of a page the next page begins.
LEMMA PageEnds ==
    ASSUME file \in Files, NEW q \in Nat, NEW l \in Nat, NEW h,
           q \in DOMAIN file.pages, l > Len(file.pages[q]),
           Parser!LastHeadingBefore(q, l, h)
    PROVE  Parser!LastHeadingBefore(q + 1, 1, h)
<1>1. \A p \in DOMAIN file.pages : \A k \in DOMAIN file.pages[p] :
        Parser!Before(p, k, q + 1, 1) <=> Parser!Before(p, k, q, l)
  BY PagesAreSequences DEF Parser!Before
<1> QED
  BY <1>1 DEF Parser!LastHeadingBefore

Headings == STRING \union {Parser!NoHeading}

Elements == [page : Nat, at : Nat, sizes : Seq(Nat \ {0}), heading : Headings]

\* The state of a parser: no heading and no element before it reads, tables are
\* looked for in a PDF alone, and the heading carried along is the last one
\* before the block it is at, or before the page while that page's tables are
\* taken.
ParserInv ==
    /\ file \in Files
    /\ phase \in {"upload", "refused", "tables", "blocks", "parsed"}
    /\ page \in Nat \ {0}
    /\ at \in Nat \ {0}
    /\ elements \in Seq(Elements)
    /\ heading \in Headings
    /\ phase = "tables" => Parser!IsPdf
    /\ phase = "upload" => page = 1 /\ at = 1 /\ heading = Parser!NoHeading
    /\ phase = "tables" => Parser!LastHeadingBefore(page, 1, heading)
    /\ phase = "blocks" => Parser!LastHeadingBefore(page, at, heading)
    /\ HeadingsInForce

\* What is said of a file stays true while the file is the same.
LEMMA FileStays ==
    ASSUME file' = file
    PROVE  /\ \A q, l : Parser!IsHeading(q, l)' <=> Parser!IsHeading(q, l)
           /\ \A q, l : Parser!Kept(q, l)' <=> Parser!Kept(q, l)
           /\ \A q, l, h : Parser!LastHeadingBefore(q, l, h)'
                              <=> Parser!LastHeadingBefore(q, l, h)
           /\ \A e, h : Parser!InForce(e, h)' <=> Parser!InForce(e, h)
           /\ Parser!IsPdf' <=> Parser!IsPdf
<1>1. \A q, l : Parser!Kept(q, l)' <=> Parser!Kept(q, l)
  BY DEF Parser!Kept, Parser!Has, Parser!HasText, Parser!Taken, Parser!IsPdf
<1>2. \A q, l : Parser!IsHeading(q, l)' <=> Parser!IsHeading(q, l)
  BY <1>1 DEF Parser!IsHeading
<1>3. \A q, l, h : Parser!LastHeadingBefore(q, l, h)' <=> Parser!LastHeadingBefore(q, l, h)
  BY <1>2 DEF Parser!LastHeadingBefore, Parser!Before
<1>4. Parser!IsPdf' <=> Parser!IsPdf
  BY DEF Parser!IsPdf
<1>5. \A e, h : Parser!InForce(e, h)' <=> Parser!InForce(e, h)
  BY <1>3, <1>4 DEF Parser!InForce, Parser!Nearest, Parser!TableOfPdf
<1> QED
  BY <1>1, <1>2, <1>3, <1>4, <1>5

\* An element that is appended for the block at hand.
LEMMA ElementAppended ==
    ASSUME ParserInv, NEW h \in Headings,
           Parser!Has(page, at),
           elements' = Append(elements, Parser!Element(h)),
           file' = file,
           Parser!Kept(page, at),
           Parser!InForce(Parser!Element(h), h)
    PROVE  /\ HeadingsInForce'
           /\ (elements \in Seq(Elements))'
<1> DEFINE e == Parser!Element(h)
<1>1. elements \in Seq(Elements) /\ file \in Files /\ page \in Nat /\ at \in Nat
  BY DEF ParserInv
<1>2. file.pages[page][at] \in Parser!Blocks
  BY <1>1, PagesAreSequences DEF Parser!Has
<1>3. e \in Elements /\ e.page = page /\ e.at = at /\ e.heading = h
  BY <1>1, <1>2 DEF Parser!Element, Parser!Block, Parser!Blocks, Elements
<1> HIDE DEF e
<1>4. /\ elements' \in Seq(Elements)
      /\ Len(elements') = Len(elements) + 1
      /\ \A i \in 1 .. Len(elements) : elements'[i] = elements[i]
      /\ elements'[Len(elements) + 1] = e
  BY <1>1, <1>3 DEF e
<1>5. \A i \in DOMAIN elements' :
        \/ i \in DOMAIN elements /\ elements'[i] = elements[i]
        \/ elements'[i] = e
  <2>1. DOMAIN elements' = 1 .. Len(elements) + 1 /\ DOMAIN elements = 1 .. Len(elements)
    BY <1>1, <1>4
  <2>2. Len(elements) \in Nat
    BY <1>1
  <2> QED
    BY <1>4, <2>1, <2>2
<1>6. \A i \in DOMAIN elements' :
        /\ Parser!Kept(elements'[i].page, elements'[i].at)
        /\ Parser!InForce(elements'[i], elements'[i].heading)
  BY <1>5, <1>3 DEF ParserInv, HeadingsInForce, Parser!HeadingsInForce, e
<1>7. HeadingsInForce'
  <2> SUFFICES ASSUME NEW i \in DOMAIN elements'
               PROVE  /\ (Parser!Kept(elements[i].page, elements[i].at))'
                      /\ (Parser!InForce(elements[i], elements[i].heading))'
    BY DEF HeadingsInForce, Parser!HeadingsInForce
  <2> QED
    BY <1>6, FileStays
<1> QED
  BY <1>4, <1>7

LEMMA ParserInit == Parser!Init => ParserInv
<1> SUFFICES ASSUME Parser!Init PROVE ParserInv
  OBVIOUS
<1>1. elements = <<>> /\ heading = Parser!NoHeading /\ heading \in Headings
  BY DEF Parser!Init, Headings
<1>2. HeadingsInForce
  BY <1>1 DEF HeadingsInForce, Parser!HeadingsInForce
<1>3. elements \in Seq(Elements)
  BY <1>1
<1> QED
  BY <1>1, <1>2, <1>3 DEF Parser!Init, ParserInv

LEMMA ParserStep == ParserInv /\ Parser!Next => ParserInv'
<1> SUFFICES ASSUME ParserInv, Parser!Next PROVE ParserInv'
  OBVIOUS
<1>1. file' = file
  BY DEF Parser!Next, Parser!Accept, Parser!Refuse, Parser!Skip, Parser!TakeHeading,
     Parser!TakeBlock, Parser!TurnToBlocks, Parser!TurnPage, Parser!Finish
<1>2. elements' = elements => HeadingsInForce'
  BY <1>1, FileStays DEF HeadingsInForce, Parser!HeadingsInForce, ParserInv
<1>3. CASE Parser!Accept
  <2>1. Parser!LastHeadingBefore(1, 1, Parser!NoHeading)
    <3>1. \A p \in DOMAIN file.pages : \A k \in DOMAIN file.pages[p] :
            ~ Parser!Before(p, k, 1, 1)
      BY PagesAreSequences DEF Parser!Before, ParserInv
    <3> QED
      BY <3>1 DEF Parser!LastHeadingBefore
  <2> QED
    BY <1>1, <1>2, <1>3, <2>1, FileStays DEF Parser!Accept, ParserInv, Parser!FirstPass
<1>4. CASE Parser!Refuse
  BY <1>1, <1>2, <1>4, FileStays DEF Parser!Refuse, ParserInv
<1>5. CASE Parser!Skip
  <2>1. CASE phase = "tables"
    BY <1>1, <1>2, <1>5, <2>1, FileStays DEF Parser!Skip, ParserInv
  <2>2. CASE phase = "blocks"
    <3>1. ~ Parser!IsHeading(page, at)
      BY <1>5, <2>2, HeadingsAreTaken
         DEF Parser!Skip, Parser!IsHeading, Parser!Kept, Parser!Block
    <3>2. Parser!LastHeadingBefore(page, at + 1, heading)
      BY <2>2, <3>1, HeadingStays DEF ParserInv
    <3> QED
      BY <1>1, <1>2, <1>5, <2>2, <3>2, FileStays DEF Parser!Skip, ParserInv
  <2> QED
    BY <1>5, <2>1, <2>2 DEF Parser!Skip, Parser!Reading
<1>6. ASSUME Parser!Reading, Parser!InPage PROVE Parser!Has(page, at)
  BY <1>6, PagesAreSequences DEF Parser!InPage, Parser!Has, ParserInv
<1>7. CASE Parser!TakeHeading
  <2>1. Parser!Has(page, at) /\ Parser!Block.kind = "heading" /\ phase = "blocks"
    <3>1. Parser!Reading /\ Parser!InPage /\ Parser!Block.kind = "heading"
      BY <1>7 DEF Parser!TakeHeading
    <3>2. phase # "tables"
      BY <1>7, <3>1, TablesAreTaken DEF Parser!TakeHeading
    <3> QED
      BY <1>6, <3>1, <3>2 DEF Parser!Reading
  <2>2. Parser!IsHeading(page, at)
    BY <1>7, <2>1, HeadingsAreTaken DEF Parser!TakeHeading, Parser!Block
  <2>3. Parser!Block.title \in Headings
    <3>1. Parser!Block \in Parser!Blocks
      BY <2>1, PagesAreSequences DEF Parser!Has, Parser!Block, ParserInv
    <3> QED
      BY <3>1 DEF Parser!Blocks, Headings
  <2>4. Parser!InForce(Parser!Element(Parser!Block.title), Parser!Block.title)
    BY <2>1 DEF Parser!InForce, Parser!Nearest, Parser!TableOfPdf, Parser!Element, Parser!Block
  <2>5. /\ HeadingsInForce'
        /\ (elements \in Seq(Elements))'
    BY <1>1, <1>7, <2>1, <2>2, <2>3, <2>4, ElementAppended
       DEF Parser!TakeHeading, Parser!IsHeading
  <2>6. Parser!LastHeadingBefore(page, at + 1, Parser!Block.title)
    BY <2>2, HeadingIsLast DEF ParserInv, Parser!Block
  <2> QED
    BY <1>1, <1>7, <2>1, <2>3, <2>5, <2>6, FileStays DEF Parser!TakeHeading, ParserInv
<1>8. CASE Parser!TakeBlock
  <2>1. /\ Parser!Has(page, at) /\ Parser!Block.kind # "heading"
        /\ Parser!HasText(Parser!Block) /\ Parser!Taken(Parser!Block, phase, Parser!IsPdf)
        /\ phase \in {"tables", "blocks"}
    BY <1>6, <1>8 DEF Parser!TakeBlock, Parser!Reading
  <2>2. Parser!Kept(page, at)
    BY <2>1 DEF Parser!Kept, Parser!Block, ParserInv
  <2>3. Parser!InForce(Parser!Element(heading), heading)
    <3> DEFINE e == Parser!Element(heading)
    <3>1. e.page = page /\ e.at = at /\ file.pages[e.page][e.at] = Parser!Block
      BY DEF Parser!Element, Parser!Block
    <3>2. CASE phase = "tables"
      <4>1. Parser!IsPdf /\ Parser!Block.kind = "table"
        BY <2>1, <3>2, TablesAreTaken DEF ParserInv
      <4>2. Parser!LastHeadingBefore(page, 1, heading)
        BY <3>2 DEF ParserInv
      <4> QED
        BY <3>1, <4>1, <4>2 DEF Parser!InForce, Parser!Nearest, Parser!TableOfPdf
    <3>3. CASE phase = "blocks"
      <4>1. Parser!IsPdf => Parser!Block.kind # "table"
        BY <2>1, <3>3 DEF Parser!Taken
      <4>2. Parser!LastHeadingBefore(page, at, heading)
        BY <3>3 DEF ParserInv
      <4> QED
        BY <2>1, <3>1, <4>1, <4>2 DEF Parser!InForce, Parser!Nearest, Parser!TableOfPdf
    <3> QED
      BY <2>1, <3>2, <3>3
  <2>4. /\ HeadingsInForce'
        /\ (elements \in Seq(Elements))'
    BY <1>1, <1>8, <2>1, <2>2, <2>3, ElementAppended DEF Parser!TakeBlock, ParserInv
  <2>5. ~ Parser!IsHeading(page, at)
    BY <2>1 DEF Parser!IsHeading, Parser!Block
  <2>6. phase = "blocks" => Parser!LastHeadingBefore(page, at + 1, heading)
    BY <2>5, HeadingStays DEF ParserInv
  <2>7. /\ page' = page /\ phase' = phase /\ heading' = heading /\ at' = at + 1
        /\ phase \in {"tables", "blocks"}
    BY <1>8, <2>1 DEF Parser!TakeBlock
  <2>8. /\ phase = "tables" => Parser!LastHeadingBefore(page, 1, heading)'
        /\ phase = "blocks" => Parser!LastHeadingBefore(page, at, heading)'
    BY <1>1, <2>6, <2>7, FileStays DEF ParserInv
  <2> QED
    BY <1>1, <2>4, <2>7, <2>8, FileStays DEF ParserInv
<1>9. CASE Parser!TurnToBlocks
  BY <1>1, <1>2, <1>9, FileStays DEF Parser!TurnToBlocks, ParserInv
<1>10. CASE Parser!TurnPage
  <2>1. page \in DOMAIN file.pages /\ at > Len(file.pages[page])
    BY <1>10, PagesAreSequences DEF Parser!TurnPage, Parser!InPage, ParserInv
  <2>2. Parser!LastHeadingBefore(page + 1, 1, heading)
    BY <1>10, <2>1, PageEnds DEF Parser!TurnPage, ParserInv
  <2> QED
    BY <1>1, <1>2, <1>10, <2>2, FileStays DEF Parser!TurnPage, Parser!FirstPass, ParserInv
<1>11. CASE Parser!Finish
  BY <1>1, <1>2, <1>11, FileStays DEF Parser!Finish, ParserInv
<1> QED
  BY <1>3, <1>4, <1>5, <1>7, <1>8, <1>9, <1>10, <1>11 DEF Parser!Next

\* Whatever is skipped, covered or blank in between, and however many passes and
\* pages it takes, the elements a parser makes of a file are blocks it is to
\* keep, each under the heading nearest to it, but for the tables of a PDF: those
\* have the last heading of the pages before.
THEOREM HeadingsAlwaysInForce == IndexSpec => []HeadingsInForce
<1>1. IndexInit => ParserInv
  BY ParserInit DEF IndexInit
<1>2. ParserInv /\ [IndexNext]_<<chunkerVars, parserVars>> => ParserInv'
  <2> SUFFICES ASSUME ParserInv, [IndexNext]_<<chunkerVars, parserVars>>
               PROVE  ParserInv'
    OBVIOUS
  <2>1. CASE Parse
    BY <2>1, ParserStep DEF Parse
  <2>2. CASE UNCHANGED parserVars
    BY <2>2, FileStays DEF parserVars, ParserInv, HeadingsInForce,
       Parser!HeadingsInForce
  <2> QED
    BY <2>1, <2>2 DEF IndexNext, Chunk
<1>3. ParserInv => HeadingsInForce
  BY DEF ParserInv
<1> QED
  BY <1>1, <1>2, <1>3, PTL DEF IndexSpec

----------------------------------------------------------------------------
(* Chunking: texts and lists of elements *)

\* A word is its place in the document.
Word == Nat \X Nat \X Nat

InOrder == {p \in Word \X Word : Before(p[1], p[2])}

Listable == [heading : Headings, sentences : Seq(Seq(Word))]

\* All words of an element come before all those of another.
ElementOrder ==
    {p \in Listable \X Listable :
        \A i \in 1 .. Len(Text(p[1])) : \A j \in 1 .. Len(Text(p[2])) :
            <<Text(p[1])[i], Text(p[2])[j]>> \in InOrder}

\* Elements as they follow each other in a document.
Listed(es) ==
    /\ es \in Seq(Listable)
    /\ \A k \in 1 .. Len(es) : Text(es[k]) # <<>> /\ Ascends(Text(es[k]), InOrder)
    /\ Ascends(es, ElementOrder)

\* w is a word of one of the elements.
Has(es, w) == \E k \in 1 .. Len(es) : w \in WordsIn(Text(es[k]))

\* The text of an element is a sequence of words.
LEMMA TextType == ASSUME NEW e \in Listable PROVE Text(e) \in Seq(Word)
  BY FlattenType DEF Listable, Text

\* WordsIn are the elements of a text.
LEMMA WordsAre ==
    ASSUME NEW t \in Seq(Word)
    PROVE  /\ WordsIn(t) = {t[k] : k \in 1 .. Len(t)}
           /\ WordsIn(t) \subseteq Word
           /\ Len(t) \in Nat
           /\ t = <<>> <=> Len(t) = 0
  BY LenProperties, EmptySeq, ElementOfSeq DEF WordsIn

\* Two texts put together have the words of both.
LEMMA WordsOfConcat ==
    ASSUME NEW s \in Seq(Word), NEW t \in Seq(Word)
    PROVE  WordsIn(s \o t) = WordsIn(s) \union WordsIn(t)
<1>1. /\ s \o t \in Seq(Word) /\ Len(s \o t) = Len(s) + Len(t)
      /\ \A i \in 1 .. Len(s) + Len(t) : (s \o t)[i] = IF i <= Len(s) THEN s[i] ELSE t[i - Len(s)]
  BY ConcatProperties
<1>2. /\ WordsIn(s) = {s[k] : k \in 1 .. Len(s)} /\ WordsIn(t) = {t[k] : k \in 1 .. Len(t)}
      /\ WordsIn(s \o t) = {(s \o t)[k] : k \in 1 .. Len(s) + Len(t)}
      /\ Len(s) \in Nat /\ Len(t) \in Nat
  BY <1>1, WordsAre
<1>3. ASSUME NEW k \in 1 .. Len(s)
      PROVE  s[k] \in WordsIn(s \o t)
  <2>1. k \in 1 .. Len(s) + Len(t) /\ (s \o t)[k] = s[k]
    BY <1>1, <1>2
  <2> QED
    BY <1>2, <2>1
<1>4. ASSUME NEW k \in 1 .. Len(t)
      PROVE  t[k] \in WordsIn(s \o t)
  <2>1. Len(s) + k \in 1 .. Len(s) + Len(t) /\ (s \o t)[Len(s) + k] = t[k]
    BY <1>1, <1>2
  <2> QED
    BY <1>2, <2>1
<1>5. ASSUME NEW k \in 1 .. Len(s) + Len(t)
      PROVE  (s \o t)[k] \in WordsIn(s) \union WordsIn(t)
  <2>1. CASE k <= Len(s)
    BY <1>1, <1>2, <2>1
  <2>2. CASE k > Len(s)
    <3>1. k - Len(s) \in 1 .. Len(t) /\ (s \o t)[k] = t[k - Len(s)]
      BY <1>1, <1>2, <2>2
    <3> QED
      BY <1>2, <3>1
  <2> QED
    BY <1>2, <2>1, <2>2
<1> QED
  BY <1>2, <1>3, <1>4, <1>5

\* The texts of a list, as Joined has them.
TextsOf(es) == [k \in DOMAIN es |-> Text(es[k])]

\* Joined puts the texts of a list together.
LEMMA TextsType ==
    ASSUME NEW es \in Seq(Listable)
    PROVE  /\ TextsOf(es) \in Seq(Seq(Word))
           /\ Len(TextsOf(es)) = Len(es)
           /\ \A k \in 1 .. Len(es) : TextsOf(es)[k] = Text(es[k]) /\ es[k] \in Listable
           /\ Joined(es) = FlattenSeq(TextsOf(es))
           /\ Len(es) \in Nat /\ DOMAIN es = 1 .. Len(es)
<1>1. Len(es) \in Nat /\ DOMAIN es = 1 .. Len(es) /\ \A k \in 1 .. Len(es) : es[k] \in Listable
  BY LenProperties, ElementOfSeq
<1>2. \A k \in 1 .. Len(es) : Text(es[k]) \in Seq(Word)
  BY <1>1, TextType
<1>3. TextsOf(es) \in Seq(Seq(Word)) /\ Len(TextsOf(es)) = Len(es)
  BY <1>1, <1>2 DEF TextsOf
<1> QED
  BY <1>1, <1>3 DEF TextsOf, Joined

\* One element more brings its text.
LEMMA JoinedAppend ==
    ASSUME NEW es \in Seq(Listable), NEW e \in Listable
    PROVE  Joined(Append(es, e)) = Joined(es) \o Text(e)
<1> DEFINE fs == Append(es, e)
<1>1. /\ fs \in Seq(Listable) /\ Len(fs) = Len(es) + 1
      /\ \A i \in 1 .. Len(es) : fs[i] = es[i]
      /\ fs[Len(es) + 1] = e
  BY AppendProperties
<1> HIDE DEF fs
<1>2. /\ TextsOf(fs) \in Seq(Seq(Word)) /\ Len(TextsOf(fs)) = Len(es) + 1
      /\ \A k \in 1 .. Len(es) + 1 : TextsOf(fs)[k] = Text(fs[k])
      /\ Joined(fs) = FlattenSeq(TextsOf(fs))
  BY <1>1, TextsType
<1>3. /\ TextsOf(es) \in Seq(Seq(Word)) /\ Len(TextsOf(es)) = Len(es)
      /\ \A k \in 1 .. Len(es) : TextsOf(es)[k] = Text(es[k])
      /\ Joined(es) = FlattenSeq(TextsOf(es))
      /\ Len(es) \in Nat
  BY TextsType
<1>4. Text(e) \in Seq(Word)
  BY TextType
<1>5. /\ Append(TextsOf(es), Text(e)) \in Seq(Seq(Word))
      /\ Len(Append(TextsOf(es), Text(e))) = Len(es) + 1
      /\ \A k \in 1 .. Len(es) : Append(TextsOf(es), Text(e))[k] = Text(es[k])
      /\ Append(TextsOf(es), Text(e))[Len(es) + 1] = Text(e)
  BY <1>3, <1>4, AppendProperties
<1>6. \A k \in 1 .. Len(es) + 1 : TextsOf(fs)[k] = Append(TextsOf(es), Text(e))[k]
  BY <1>1, <1>2, <1>3, <1>5
<1>7. TextsOf(fs) = Append(TextsOf(es), Text(e))
  BY <1>2, <1>5, <1>6, SeqEqual
<1> QED
  BY <1>2, <1>3, <1>4, <1>7, FlattenAppend DEF fs

\* Joined texts ascend and have the words of the elements.
LEMMA JoinedList ==
    ASSUME NEW es, Listed(es)
    PROVE  /\ Joined(es) \in Seq(Word)
           /\ Ascends(Joined(es), InOrder)
           /\ \A w : w \in WordsIn(Joined(es)) <=> Has(es, w)
           /\ es # <<>> => /\ Joined(es) # <<>>
                           /\ Joined(es)[1] = Text(es[1])[1]
<1> DEFINE ts == TextsOf(es)
<1>1. /\ ts \in Seq(Seq(Word)) /\ Len(ts) = Len(es)
      /\ \A k \in 1 .. Len(es) : ts[k] = Text(es[k]) /\ es[k] \in Listable
      /\ Joined(es) = FlattenSeq(ts)
      /\ Len(es) \in Nat
  BY TextsType DEF Listed
<1> HIDE DEF ts
<1>2. Joined(es) \in Seq(Word)
  BY <1>1, FlattenType
<1>3. Ascends(Joined(es), InOrder)
  <2>1. \A k \in 1 .. Len(ts) : Ascends(ts[k], InOrder)
    BY <1>1 DEF Listed
  <2>2. ASSUME NEW k \in 1 .. Len(ts), NEW l \in 1 .. Len(ts), k < l
        PROVE  \A i \in 1 .. Len(ts[k]) : \A j \in 1 .. Len(ts[l]) : <<ts[k][i], ts[l][j]>> \in InOrder
    <3>1. <<es[k], es[l]>> \in ElementOrder
      BY <1>1, <2>2 DEF Listed, Ascends
    <3>2. \A i \in 1 .. Len(Text(es[k])) : \A j \in 1 .. Len(Text(es[l])) :
             <<Text(es[k])[i], Text(es[l])[j]>> \in InOrder
      BY <3>1 DEF ElementOrder
    <3> QED
      BY <1>1, <3>2
  <2> QED
    BY <1>1, <2>1, <2>2, FlattenAscends
<1>4. ASSUME NEW w
      PROVE  w \in WordsIn(Joined(es)) <=> Has(es, w)
  <2>1. WordsIn(Joined(es)) = {Joined(es)[q] : q \in 1 .. Len(Joined(es))}
    BY <1>2, WordsAre
  <2>2. \A k \in 1 .. Len(es) : WordsIn(Text(es[k])) = {ts[k][j] : j \in 1 .. Len(ts[k])}
    BY <1>1, TextType, WordsAre
  <2>3. ASSUME NEW q \in 1 .. Len(Joined(es)), w = Joined(es)[q]
        PROVE  Has(es, w)
    <3>0. PICK k \in 1 .. Len(ts) : \E j \in 1 .. Len(ts[k]) : w = ts[k][j]
      BY SMTT(30), <1>1, <2>3, FlattenOrigin
    <3>1. PICK j \in 1 .. Len(ts[k]) : w = ts[k][j]
      BY <3>0
    <3>2. k \in 1 .. Len(es)
      BY <1>1
    <3>3. w \in WordsIn(Text(es[k]))
      BY <2>2, <3>1, <3>2
    <3> QED
      BY <3>2, <3>3 DEF Has
  <2>4. ASSUME NEW k \in 1 .. Len(es), NEW j \in 1 .. Len(ts[k]), w = ts[k][j]
        PROVE  w \in WordsIn(Joined(es))
    <3>0. k \in 1 .. Len(ts)
      BY <1>1
    <3>1. PICK o \in Nat : \A i \in 1 .. Len(ts[k]) :
             /\ o + i \in 1 .. Len(FlattenSeq(ts))
             /\ FlattenSeq(ts)[o + i] = ts[k][i]
      BY <1>1, <3>0, FlattenPlaces
    <3>2. o + j \in 1 .. Len(Joined(es)) /\ Joined(es)[o + j] = w
      BY <1>1, <2>4, <3>1
    <3> QED
      BY <2>1, <3>2
  <2>5. w \in WordsIn(Joined(es)) => Has(es, w)
    BY <2>1, <2>3
  <2>6. ASSUME Has(es, w)
        PROVE  w \in WordsIn(Joined(es))
    <3>1. PICK k \in 1 .. Len(es) : w \in WordsIn(Text(es[k]))
      BY <2>6 DEF Has
    <3>2. PICK j \in 1 .. Len(ts[k]) : w = ts[k][j]
      BY <2>2, <3>1
    <3> QED
      BY <2>4, <3>2
  <2> QED
    BY <2>5, <2>6
<1>5. ASSUME es # <<>>
      PROVE  Joined(es) # <<>> /\ Joined(es)[1] = Text(es[1])[1]
  <2>1. 1 \in 1 .. Len(es)
    <3>1. Len(es) # 0
      BY <1>5, EmptySeq DEF Listed
    <3> QED
      BY <1>1, <3>1
  <2>2. ts # <<>> /\ ts[1] # <<>>
    BY <1>1, <2>1, EmptySeq DEF Listed
  <2> QED
    BY <1>1, <2>1, <2>2, FlattenBegins
<1> QED
  BY <1>2, <1>3, <1>4, <1>5

\* What Listed says, element by element.
LEMMA ListedAre ==
    ASSUME NEW es, Listed(es)
    PROVE  /\ es \in Seq(Listable) /\ Len(es) \in Nat /\ DOMAIN es = 1 .. Len(es)
           /\ es = <<>> <=> Len(es) = 0
           /\ \A k \in 1 .. Len(es) :
                /\ es[k] \in Listable
                /\ Text(es[k]) # <<>> /\ Ascends(Text(es[k]), InOrder)
                /\ \A l \in 1 .. Len(es) : k < l => <<es[k], es[l]>> \in ElementOrder
  BY LenProperties, ElementOfSeq, EmptySeq DEF Listed, Ascends

\* The empty list is in order.
LEMMA NothingListed == Listed(<<>>)
  BY EmptySeq DEF Listed, Ascends

\* A part of a list is in order.
LEMMA ListedPart ==
    ASSUME NEW es, Listed(es), NEW m \in 1 .. Len(es) + 1, NEW n \in m - 1 .. Len(es)
    PROVE  /\ Listed(SubSeq(es, m, n))
           /\ Len(SubSeq(es, m, n)) = n - m + 1
           /\ \A k \in 1 .. n - m + 1 : /\ SubSeq(es, m, n)[k] = es[m + k - 1]
                                        /\ m + k - 1 \in 1 .. Len(es)
<1>1. /\ es \in Seq(Listable) /\ Len(es) \in Nat
      /\ \A k \in 1 .. Len(es) :
                /\ es[k] \in Listable
                /\ Text(es[k]) # <<>> /\ Ascends(Text(es[k]), InOrder)
                /\ \A l \in 1 .. Len(es) : k < l => <<es[k], es[l]>> \in ElementOrder
  BY ListedAre
<1> DEFINE s == SubSeq(es, m, n)
<1>2. m \in Int /\ n \in Int /\ \A i \in m .. n : es[i] \in Listable
  BY <1>1
<1>3. /\ s \in Seq(Listable) /\ Len(s) = n - m + 1
      /\ \A k \in 1 .. n - m + 1 : s[k] = es[m + k - 1]
  BY <1>1, <1>2, SubSeqProperties
<1> HIDE DEF s
<1>4. \A k \in 1 .. n - m + 1 : m + k - 1 \in 1 .. Len(es)
  BY <1>1
<1>5. \A k \in 1 .. Len(s) : Text(s[k]) # <<>> /\ Ascends(Text(s[k]), InOrder)
  BY <1>1, <1>3, <1>4
<1>6. ASSUME NEW a \in 1 .. Len(s), NEW b \in 1 .. Len(s), a < b
      PROVE  <<s[a], s[b]>> \in ElementOrder
  <2>1. m + a - 1 \in 1 .. Len(es) /\ m + b - 1 \in 1 .. Len(es) /\ m + a - 1 < m + b - 1
    BY <1>3, <1>4, <1>6
  <2> QED
    BY <1>1, <1>3, <2>1
<1>7. Listed(s)
  BY <1>3, <1>5, <1>6 DEF Listed, Ascends
<1> QED
  BY <1>3, <1>4, <1>7 DEF s

\* An element that comes after all of a list keeps it in order.
LEMMA ListedAppend ==
    ASSUME NEW es, Listed(es), NEW e \in Listable,
           Text(e) # <<>>, Ascends(Text(e), InOrder),
           \A k \in 1 .. Len(es) : <<es[k], e>> \in ElementOrder
    PROVE  Listed(Append(es, e))
<1> DEFINE fs == Append(es, e)
<1>1. /\ es \in Seq(Listable) /\ Len(es) \in Nat
      /\ \A k \in 1 .. Len(es) :
                /\ Text(es[k]) # <<>> /\ Ascends(Text(es[k]), InOrder)
                /\ \A l \in 1 .. Len(es) : k < l => <<es[k], es[l]>> \in ElementOrder
  BY ListedAre
<1>2. /\ fs \in Seq(Listable) /\ Len(fs) = Len(es) + 1
      /\ \A i \in 1 .. Len(es) : fs[i] = es[i]
      /\ fs[Len(es) + 1] = e
  BY <1>1, AppendProperties
<1> HIDE DEF fs
<1>3. \A k \in 1 .. Len(fs) : k \in 1 .. Len(es) \/ k = Len(es) + 1
  BY <1>1, <1>2
<1>4. \A k \in 1 .. Len(fs) : Text(fs[k]) # <<>> /\ Ascends(Text(fs[k]), InOrder)
  BY <1>1, <1>2, <1>3
<1>5. ASSUME NEW a \in 1 .. Len(fs), NEW b \in 1 .. Len(fs), a < b
      PROVE  <<fs[a], fs[b]>> \in ElementOrder
  <2>1. a \in 1 .. Len(es)
    BY <1>1, <1>2, <1>5
  <2>2. CASE b \in 1 .. Len(es)
    BY <1>1, <1>2, <1>5, <2>1, <2>2
  <2>3. CASE b = Len(es) + 1
    BY <1>2, <2>1, <2>3
  <2> QED
    BY <1>3, <2>2, <2>3
<1>6. Listed(fs)
  BY <1>2, <1>4, <1>5 DEF Listed, Ascends
<1> QED
  BY <1>6 DEF fs

\* The head of a list, and the list without it.
LEMMA ListedTail ==
    ASSUME NEW es, Listed(es), es # <<>>
    PROVE  /\ Listed(Tail(es))
           /\ Head(es) = es[1] /\ es[1] \in Listable
           /\ Text(es[1]) # <<>> /\ Ascends(Text(es[1]), InOrder)
           /\ Len(Tail(es)) = Len(es) - 1
           /\ \A k \in 1 .. Len(Tail(es)) : Tail(es)[k] = es[k + 1] /\ k + 1 \in 1 .. Len(es)
           /\ \A k \in 1 .. Len(Tail(es)) : <<es[1], Tail(es)[k]>> \in ElementOrder
           /\ \A k \in 1 .. Len(es) : k = 1 \/ (k - 1 \in 1 .. Len(Tail(es)) /\ Tail(es)[k - 1] = es[k])
<1>1. /\ es \in Seq(Listable) /\ Len(es) \in Nat /\ Len(es) # 0
      /\ \A k \in 1 .. Len(es) :
                /\ es[k] \in Listable
                /\ Text(es[k]) # <<>> /\ Ascends(Text(es[k]), InOrder)
                /\ \A l \in 1 .. Len(es) : k < l => <<es[k], es[l]>> \in ElementOrder
  BY ListedAre
<1>2. Tail(es) = SubSeq(es, 2, Len(es)) /\ Head(es) = es[1]
  BY <1>1, TailIsSubSeq
<1>3. 2 \in 1 .. Len(es) + 1 /\ Len(es) \in 2 - 1 .. Len(es)
  BY <1>1
<1>4. /\ Listed(Tail(es)) /\ Len(Tail(es)) = Len(es) - 2 + 1
      /\ \A k \in 1 .. Len(es) - 2 + 1 : Tail(es)[k] = es[2 + k - 1]
  <2> DEFINE n == Len(es)
  <2>1. 2 \in 1 .. Len(es) + 1 /\ n \in 2 - 1 .. Len(es)
    BY <1>3
  <2> HIDE DEF n
  <2>2. /\ Listed(SubSeq(es, 2, n)) /\ Len(SubSeq(es, 2, n)) = n - 2 + 1
        /\ \A k \in 1 .. n - 2 + 1 : SubSeq(es, 2, n)[k] = es[2 + k - 1]
    BY <2>1, ListedPart
  <2> QED
    BY <1>2, <2>2 DEF n
<1>5. \A k \in 1 .. Len(Tail(es)) : Tail(es)[k] = es[k + 1] /\ k + 1 \in 1 .. Len(es)
  BY <1>1, <1>4
<1>6. \A k \in 1 .. Len(es) : k = 1 \/ (k - 1 \in 1 .. Len(Tail(es)) /\ Tail(es)[k - 1] = es[k])
  <2> TAKE k \in 1 .. Len(es)
  <2>1. k = 1 \/ (k - 1 \in 1 .. Len(Tail(es)) /\ (k - 1) + 1 = k)
    BY <1>1, <1>4
  <2> QED
    BY <1>5, <2>1
<1>7. 1 \in 1 .. Len(es)
  BY <1>1
<1>8. \A k \in 1 .. Len(Tail(es)) : <<es[1], Tail(es)[k]>> \in ElementOrder
  <2> TAKE k \in 1 .. Len(Tail(es))
  <2>1. k + 1 \in 1 .. Len(es) /\ 1 < k + 1 /\ Tail(es)[k] = es[k + 1]
    BY <1>5
  <2> QED
    BY <1>1, <1>7, <2>1
<1>9. Len(Tail(es)) = Len(es) - 1
  BY <1>1, <1>4
<1> QED
  BY <1>1, <1>2, <1>4, <1>5, <1>6, <1>7, <1>8, <1>9

----------------------------------------------------------------------------

\* A text of n words is n words and the n - 1 blanks between them.
LEMMA TokensAre ==
    ASSUME NEW S, NEW t \in Seq(S)
    PROVE  Tokens(t) \in Nat /\ Len(t) \in Nat /\ Len(t) <= Tokens(t)
           /\ (t # <<>> => Tokens(t) = 2 * Len(t) - 1 /\ Len(t) # 0)
           /\ (t = <<>> => Tokens(t) = 0)
  BY LenProperties, EmptySeq DEF Tokens

Sizes(es) == [k \in DOMAIN es |-> Tokens(Text(es[k]))]

\* An empty list weighs nothing.
LEMMA NoWeight == Weight(<<>>) = 0
<1>1. DOMAIN Sizes(<<>>) = {}
  BY DEF Sizes
<1>2. Weight(<<>>) = SumFunctionOnSet(Sizes(<<>>), DOMAIN Sizes(<<>>))
  BY DEF Weight, SumFunction, Sizes
<1> QED
  BY <1>1, <1>2, SumOfNothing

\* One element more weighs what its text does.
LEMMA WeightAppend ==
    ASSUME NEW es \in Seq(Listable), NEW e \in Listable
    PROVE  /\ Weight(es) \in Int
           /\ Weight(Append(es, e)) = Weight(es) + Tokens(Text(e))
<1> DEFINE fs == Append(es, e)
           n == Len(es)
           f == Sizes(fs)
           g == Sizes(es)
<1>1. /\ fs \in Seq(Listable) /\ Len(fs) = n + 1
      /\ \A i \in 1 .. n : fs[i] = es[i]
      /\ fs[n + 1] = e
      /\ n \in Nat
      /\ DOMAIN fs = 1 .. n + 1 /\ DOMAIN es = 1 .. n
  BY AppendProperties, LenProperties
<1>2. /\ \A i \in 1 .. n : es[i] \in Listable /\ Tokens(Text(es[i])) \in Int
      /\ Tokens(Text(e)) \in Int
  BY ElementOfSeq, TextType, TokensAre
<1> HIDE DEF fs, n
<1>3. /\ DOMAIN f = 1 .. n + 1 /\ DOMAIN g = 1 .. n
      /\ \A i \in 1 .. n : f[i] = g[i] /\ g[i] \in Int
      /\ f[n + 1] = Tokens(Text(e))
      /\ \A i \in 1 .. n + 1 : f[i] \in Int
  <2>1. /\ \A i \in 1 .. n + 1 : f[i] = Tokens(Text(fs[i])) /\ (i \in 1 .. n \/ i = n + 1)
        /\ \A i \in 1 .. n : g[i] = Tokens(Text(es[i])) /\ i \in 1 .. n + 1
        /\ n + 1 \in 1 .. n + 1
    BY <1>1 DEF Sizes
  <2>2. DOMAIN f = 1 .. n + 1 /\ DOMAIN g = 1 .. n
    BY <1>1 DEF Sizes
  <2> HIDE DEF f, g
  <2> QED
    BY <1>1, <1>2, <2>1, <2>2
<1>4. /\ Weight(fs) = SumFunctionOnSet(f, DOMAIN f)
      /\ Weight(es) = SumFunctionOnSet(g, DOMAIN g)
  BY DEF Weight, SumFunction, Sizes
<1> HIDE DEF f, g
<1>6. IsFiniteSet(1 .. n) /\ IsFiniteSet(1 .. n + 1)
  BY <1>1, FS_Interval
<1>7. n + 1 \in 1 .. n + 1 /\ (1 .. n + 1) \ {n + 1} = 1 .. n
  BY <1>1
<1>8. SumFunctionOnSet(f, 1 .. n + 1) = f[n + 1] + SumFunctionOnSet(f, 1 .. n)
  <2> DEFINE S == 1 .. n + 1
  <2>1. IsFiniteSet(S) /\ (\A x \in S : f[x] \in Int) /\ n + 1 \in S /\ S \ {n + 1} = 1 .. n
    BY <1>3, <1>6, <1>7
  <2> HIDE DEF S
  <2>2. SumFunctionOnSet(f, S) = f[n + 1] + SumFunctionOnSet(f, S \ {n + 1})
    BY <2>1, SumTakesOut
  <2> QED
    BY <2>1, <2>2 DEF S
<1>9. SumFunctionOnSet(f, 1 .. n) = SumFunctionOnSet(g, 1 .. n)
  BY <1>3, <1>6, SumsOfEquals
<1>10. SumFunctionOnSet(g, 1 .. n) \in Int
  BY <1>3, <1>6, SumTakesOut
<1> QED
  BY <1>2, <1>3, <1>4, <1>8, <1>9, <1>10 DEF fs

\* The separators a text is joined with are at most as many as its words.
LEMMA JoinedWeighs ==
    ASSUME NEW es \in Seq(Listable)
    PROVE  Weight(es) \in Nat /\ Len(Joined(es)) <= Weight(es) /\ Joined(es) \in Seq(Word)
<1> DEFINE good(fs) == Weight(fs) \in Nat /\ Len(Joined(fs)) <= Weight(fs) /\ Joined(fs) \in Seq(Word)
           P == {fs \in Seq(Listable) : good(fs)}
<1>1. <<>> \in P
  <2>1. <<>> \in Seq(Listable) /\ Len(<<>>) = 0
    BY EmptySeq
  <2>2. TextsOf(<<>>) = <<>>
    BY <2>1, TextsType, EmptySeq
  <2>3. Joined(<<>>) = <<>> /\ <<>> \in Seq(Word)
    BY <2>1, <2>2, TextsType, FlattenAppend, EmptySeq
  <2>4. Weight(<<>>) = 0
    BY NoWeight
  <2>5. Len(Joined(<<>>)) = 0
    BY <2>1, <2>3
  <2>6. good(<<>>)
    <3>1. Joined(<<>>) \in Seq(Word)
      BY <2>3, Zenon
    <3>2. Weight(<<>>) \in Nat /\ Len(Joined(<<>>)) <= Weight(<<>>)
      BY <2>4, <2>5
    <3> QED
      BY <3>1, <3>2, Zenon
  <2> QED
    BY <2>1, <2>6
<1>2. ASSUME NEW fs \in Seq(Listable), NEW e \in Listable, fs \in P
      PROVE  Append(fs, e) \in P
  <2>1. Text(e) \in Seq(Word) /\ Tokens(Text(e)) \in Nat /\ Len(Text(e)) \in Nat /\ Len(Text(e)) <= Tokens(Text(e))
    BY TextType, TokensAre
  <2>2. Weight(Append(fs, e)) = Weight(fs) + Tokens(Text(e))
    BY WeightAppend
  <2>3. Joined(Append(fs, e)) = Joined(fs) \o Text(e)
    BY JoinedAppend
  <2>4. /\ Joined(fs) \in Seq(Word) /\ Weight(fs) \in Nat /\ Len(Joined(fs)) <= Weight(fs)
        /\ Len(Joined(fs)) \in Nat
    BY <1>2, LenProperties
  <2>5. /\ Joined(fs) \o Text(e) \in Seq(Word)
        /\ Len(Joined(fs) \o Text(e)) = Len(Joined(fs)) + Len(Text(e))
    BY <2>1, <2>4, ConcatProperties
  <2>6. Append(fs, e) \in Seq(Listable)
    BY AppendProperties
  <2>7. good(Append(fs, e))
    BY <2>1, <2>2, <2>3, <2>4, <2>5
  <2> QED
    BY <2>6, <2>7
<1>3. Seq(Listable) \subseteq P
  <2> HIDE DEF P
  <2> QED
    BY <1>1, <1>2, SequenceInduction
<1> QED
  BY <1>3

\* A list of one element is that element.
LEMMA JustOne ==
    ASSUME NEW e \in Listable
    PROVE  /\ <<e>> = Append(<<>>, e) /\ <<e>> \in Seq(Listable) /\ Len(<<e>>) = 1
           /\ Weight(<<e>>) = Tokens(Text(e))
           /\ Joined(<<e>>) = Text(e)
<1>1. <<>> \in Seq(Listable) /\ Len(<<>>) = 0
  BY EmptySeq
<1>2. <<e>> = Append(<<>>, e) /\ <<e>> \in Seq(Listable) /\ Len(<<e>>) = 1
  OBVIOUS
<1>3. Weight(<<e>>) = Weight(<<>>) + Tokens(Text(e)) /\ Weight(<<>>) = 0
  BY <1>1, <1>2, WeightAppend, NoWeight
<1>4. Text(e) \in Seq(Word) /\ Tokens(Text(e)) \in Nat
  BY TextType, TokensAre
<1>5. Joined(<<e>>) = Joined(<<>>) \o Text(e)
  BY <1>1, <1>2, JoinedAppend
<1>6. TextsOf(<<>>) = <<>>
  BY <1>1, TextsType, EmptySeq
<1>7. Joined(<<>>) = <<>>
  BY <1>1, <1>6, TextsType, FlattenAppend, EmptySeq
<1>8. <<>> \o Text(e) = Text(e)
  BY <1>4, ConcatEmptySeq
<1> QED
  BY <1>2, <1>3, <1>4, <1>5, <1>7, <1>8

----------------------------------------------------------------------------
(* Packed: what it makes of the parts is all of them, in pieces that fit.  *)

\* Pieces of a text over S that are not empty and fit.
FitPieces(S, max) == {p \in Seq(S) : p # <<>> /\ Tokens(p) <= max}

\* acc is what Take may have made of t.
Holds(S, acc, t, max) ==
    /\ acc.pieces \in Seq(FitPieces(S, max))
    /\ acc.text \in Seq(S)
    /\ Tokens(acc.text) <= max
    /\ FlattenSeq(acc.pieces) \o acc.text = t

\* Pieces that fit are pieces.
LEMMA PiecesAreSequences ==
    ASSUME NEW S, NEW max, NEW ps \in Seq(FitPieces(S, max))
    PROVE  ps \in Seq(Seq(S)) /\ FlattenSeq(ps) \in Seq(S)
<1>1. FitPieces(S, max) \subseteq Seq(S)
  BY DEF FitPieces
<1>2. ps \in Seq(Seq(S))
  BY <1>1, SeqMonotonic
<1> QED
  BY <1>2, FlattenType

\* Closing a piece loses nothing.
LEMMA ClosedHolds ==
    ASSUME NEW S, NEW acc, NEW t, NEW max, Holds(S, acc, t, max)
    PROVE  Closed(acc) \in Seq(FitPieces(S, max)) /\ FlattenSeq(Closed(acc)) = t
<1>1. acc.pieces \in Seq(Seq(S)) /\ FlattenSeq(acc.pieces) \in Seq(S)
  BY PiecesAreSequences DEF Holds
<1>2. CASE acc.text = <<>>
  <2>1. FlattenSeq(acc.pieces) \o <<>> = FlattenSeq(acc.pieces)
    BY <1>1, ConcatEmptySeq
  <2> QED
    BY <1>2, <2>1 DEF Closed, Holds
<1>3. CASE acc.text # <<>>
  <2>1. acc.text \in FitPieces(S, max)
    BY <1>3 DEF Holds, FitPieces
  <2>2. Append(acc.pieces, acc.text) \in Seq(FitPieces(S, max))
    BY <2>1, AppendProperties DEF Holds
  <2>3. FlattenSeq(Append(acc.pieces, acc.text)) = FlattenSeq(acc.pieces) \o acc.text
    BY <1>1, FlattenAppend DEF Holds
  <2> QED
    BY <1>3, <2>2, <2>3 DEF Closed, Holds
<1> QED
  BY <1>2, <1>3

\* Taking the next part loses nothing, and leaves pieces that fit.
LEMMA TakeHolds ==
    ASSUME NEW S, NEW max \in Nat, NEW acc \in [pieces : Seq(Seq(S)), text : Seq(S)],
           NEW t \in Seq(S), Holds(S, acc, t, max), NEW part \in Seq(S), NEW cut,
           Tokens(part) > max => /\ cut \in Seq(FitPieces(S, max))
                                 /\ FlattenSeq(cut) = part
    PROVE  /\ Take(acc, part, cut, max) \in [pieces : Seq(Seq(S)), text : Seq(S)]
           /\ Holds(S, Take(acc, part, cut, max), t \o part, max)
<1> DEFINE new == Take(acc, part, cut, max)
<1>0. acc.pieces \in Seq(Seq(S)) /\ acc.text \in Seq(S)
  BY PiecesAreSequences DEF Holds
<1>1. /\ acc.pieces \in Seq(Seq(S)) /\ FlattenSeq(acc.pieces) \in Seq(S)
      /\ acc.text \in Seq(S)
      /\ FlattenSeq(acc.pieces) \o acc.text = t
  BY PiecesAreSequences DEF Holds
<1>2. Closed(acc) \in Seq(FitPieces(S, max)) /\ FlattenSeq(Closed(acc)) = t
  BY ClosedHolds
<1>3. Closed(acc) \in Seq(Seq(S))
  BY <1>2, PiecesAreSequences
<1>4. CASE Tokens(acc.text \o part) <= max
  <2>1. new = [acc EXCEPT !.text = @ \o part]
    BY <1>4 DEF Take
  <2>2. new.pieces = acc.pieces /\ new.text = acc.text \o part
    BY <2>1
  <2>3. acc.text \o part \in Seq(S)
    BY <1>1, ConcatProperties
  <2>4. new \in [pieces : Seq(Seq(S)), text : Seq(S)]
    BY <2>1, <2>3
  <2>5. (FlattenSeq(acc.pieces) \o acc.text) \o part = FlattenSeq(acc.pieces) \o (acc.text \o part)
    BY SMTT(30), <1>0, Lengthened
  <2> HIDE DEF new
  <2>6. Holds(S, new, t \o part, max)
    BY <1>1, <1>4, <2>2, <2>3, <2>5 DEF Holds
  <2> QED
    BY <2>4, <2>6 DEF new
<1>5. CASE ~ (Tokens(acc.text \o part) <= max) /\ Tokens(part) <= max
  <2>1. new = [pieces |-> Closed(acc), text |-> part]
    BY <1>5 DEF Take
  <2>2. new.pieces = Closed(acc) /\ new.text = part
    BY <2>1
  <2>3. new \in [pieces : Seq(Seq(S)), text : Seq(S)]
    BY <1>3, <2>1
  <2> HIDE DEF new
  <2>4. Holds(S, new, t \o part, max)
    BY <1>2, <1>5, <2>2 DEF Holds
  <2> QED
    BY <2>3, <2>4 DEF new
<1>6. CASE ~ (Tokens(acc.text \o part) <= max) /\ ~ (Tokens(part) <= max)
  <2>1. new = [pieces |-> Closed(acc) \o cut, text |-> <<>>]
    BY <1>6 DEF Take
  <2>2. new.pieces = Closed(acc) \o cut /\ new.text = <<>>
    BY <2>1
  <2>3. cut \in Seq(FitPieces(S, max)) /\ FlattenSeq(cut) = part
    BY <1>6, TokensAre
  <2>4. cut \in Seq(Seq(S))
    BY <2>3, PiecesAreSequences
  <2>5. Closed(acc) \o cut \in Seq(FitPieces(S, max))
    BY <1>2, <2>3, ConcatProperties
  <2>6. Closed(acc) \o cut \in Seq(Seq(S))
    BY <1>3, <2>4, ConcatProperties
  <2>7. <<>> \in Seq(S) /\ Tokens(<<>>) <= max
    <3>1. <<>> \in Seq(S)
      BY EmptySeq
    <3>2. Tokens(<<>>) <= max
      BY DEF Tokens
    <3> QED
      BY <3>1, <3>2
  <2>8. new \in [pieces : Seq(Seq(S)), text : Seq(S)]
    BY <2>1, <2>6, <2>7
  <2>9. FlattenSeq(Closed(acc) \o cut) = t \o part
    BY <1>2, <1>3, <2>3, <2>4, FlattenConcat
  <2>10. (t \o part) \o <<>> = t \o part
    BY ConcatProperties, ConcatEmptySeq
  <2> HIDE DEF new
  <2>11. Holds(S, new, t \o part, max)
    BY <2>2, <2>5, <2>7, <2>9, <2>10, Zenon DEF Holds
  <2> QED
    BY <2>8, <2>11 DEF new
<1> QED
  BY <1>4, <1>5, <1>6

----------------------------------------------------------------------------

PackStep(parts, cuts, max, g, n) ==
    IF n = 0 THEN [pieces |-> <<>>, text |-> <<>>]
    ELSE Take(g[n - 1], parts[n], cuts[n], max)

\* g is what Packed computes of the first N parts.
Packs(parts, cuts, max, N, g) == g = [n \in 0 .. N |-> PackStep(parts, cuts, max, g, n)]

\* Any number of parts can be packed, so Packed is the function that says so.
LEMMA PacksExist ==
    ASSUME NEW parts, NEW cuts, NEW max, NEW N \in Nat
    PROVE  \E g : Packs(parts, cuts, max, N, g)
<1> DEFINE P == {n \in Nat : \E g : Packs(parts, cuts, max, n, g)}
           step(g, n) == PackStep(parts, cuts, max, g, n)
<1>1. 0 \in P
  <2> DEFINE g == [n \in 0 .. 0 |-> [pieces |-> <<>>, text |-> <<>>]]
  <2>1. \A n \in 0 .. 0 : step(g, n) = [pieces |-> <<>>, text |-> <<>>]
    BY DEF PackStep
  <2>2. Packs(parts, cuts, max, 0, g)
    BY <2>1 DEF Packs
  <2> QED
    BY <2>2
<1>2. ASSUME NEW n \in Nat, n \in P
      PROVE  n + 1 \in P
  <2>1. PICK g : Packs(parts, cuts, max, n, g)
    BY <1>2
  <2> DEFINE h == [i \in 0 .. n + 1 |-> step(g, i)]
  <2>2. \A i \in 0 .. n : g[i] = step(g, i)
    BY <2>1 DEF Packs
  <2>3. \A i \in 0 .. n : h[i] = g[i]
    BY <2>2
  <2>4. ASSUME NEW i \in 0 .. n + 1
        PROVE  step(h, i) = step(g, i)
    <3>1. CASE i = 0
      BY <3>1 DEF PackStep
    <3>2. CASE i # 0
      <4>1. i - 1 \in 0 .. n
        BY <3>2
      <4>2. h[i - 1] = g[i - 1]
        BY <2>3, <4>1
      <4> HIDE DEF h
      <4> QED
        BY <4>2 DEF PackStep
    <3> QED
      BY <3>1, <3>2
  <2>5. Packs(parts, cuts, max, n + 1, h)
    BY <2>4 DEF Packs
  <2> HIDE DEF h
  <2> QED
    BY <2>5
<1>3. Nat \subseteq P
  <2> HIDE DEF P
  <2> QED
    BY <1>1, <1>2, Induction
<1> QED
  BY <1>3

\* Whatever the parts are, the pieces are the parts put together again, none is
\* empty and all of them fit, given that a part which does not fit comes cut.
LEMMA PackedIsWhole ==
    ASSUME NEW S, NEW max \in Nat, NEW parts \in Seq(Seq(S)), NEW cuts,
           \A k \in 1 .. Len(parts) : Tokens(parts[k]) > max =>
               cuts[k] \in Seq(FitPieces(S, max)) /\ FlattenSeq(cuts[k]) = parts[k]
    PROVE  /\ Packed(parts, cuts, max) \in Seq(FitPieces(S, max))
           /\ FlattenSeq(Packed(parts, cuts, max)) = FlattenSeq(parts)
<1> DEFINE g == CHOOSE h : Packs(parts, cuts, max, Len(parts), h)
           N == Len(parts)
           prefix(n) == FlattenSeq(SubSeq(parts, 1, n))
           good(n) == /\ g[n] \in [pieces : Seq(Seq(S)), text : Seq(S)]
                      /\ prefix(n) \in Seq(S)
                      /\ Holds(S, g[n], prefix(n), max)
           P == {n \in Nat : n <= N => good(n)}
<1>1. N \in Nat
  BY LenProperties
<1>2. Packed(parts, cuts, max) = Closed(g[N])
  BY DEF Packed, Packs, PackStep
<1>3. Packs(parts, cuts, max, N, g)
  BY <1>1, PacksExist
<1> HIDE DEF g
<1>4. \A n \in 0 .. N : g[n] = PackStep(parts, cuts, max, g, n)
  BY <1>3 DEF Packs
<1>5. 0 \in P
  <2>1. g[0] = [pieces |-> <<>>, text |-> <<>>]
    BY <1>1, <1>4 DEF PackStep
  <2>2. prefix(0) = <<>>
    <3>1. SubSeq(parts, 1, 0) = <<>>
      BY SubSeqEmpty
    <3> QED
      BY <3>1 DEF FlattenSeq
  <2>3. <<>> \in Seq(S) /\ <<>> \in Seq(Seq(S)) /\ <<>> \in Seq(FitPieces(S, max))
    BY EmptySeq
  <2>4. g[0].pieces = <<>> /\ g[0].text = <<>>
    BY <2>1
  <2>5. FlattenSeq(<<>>) = <<>> /\ <<>> \o <<>> = <<>>
    BY <2>3, ConcatEmptySeq DEF FlattenSeq
  <2>6. Tokens(<<>>) <= max
    BY DEF Tokens
  <2>7. Holds(S, g[0], prefix(0), max)
    BY <2>2, <2>3, <2>4, <2>5, <2>6, Zenon DEF Holds
  <2>8. g[0] \in [pieces : Seq(Seq(S)), text : Seq(S)]
    BY <2>1, <2>3
  <2>9. prefix(0) \in Seq(S)
    BY <2>2, <2>3, Zenon
  <2>10. good(0)
    BY <2>7, <2>8, <2>9
  <2> HIDE DEF good
  <2> QED
    BY <2>10
<1>6. ASSUME NEW n \in Nat, n \in P
      PROVE  n + 1 \in P
  <2> SUFFICES ASSUME n + 1 <= N
               PROVE  good(n + 1)
    BY <1>1
  <2>1. n <= N /\ n \in 0 .. N - 1 /\ n + 1 \in 0 .. N /\ n + 1 \in 1 .. N /\ n + 1 # 0 /\ (n + 1) - 1 = n
    BY <1>1
  <2>2. good(n)
    BY <1>6, <2>1
  <2>3. /\ SubSeq(parts, 1, n) \in Seq(Seq(S))
        /\ parts[n + 1] \in Seq(S)
        /\ SubSeq(parts, 1, n + 1) = Append(SubSeq(parts, 1, n), parts[n + 1])
    BY <2>1, PrefixGrows
  <2>4. prefix(n + 1) = prefix(n) \o parts[n + 1]
    BY <2>3, FlattenAppend
  <2>5. g[n + 1] = Take(g[n], parts[n + 1], cuts[n + 1], max)
    BY <1>4, <2>1 DEF PackStep
  <2> DEFINE part == parts[n + 1]
             cut == cuts[n + 1]
             t == prefix(n)
             acc == g[n]
  <2>6. /\ part \in Seq(S) /\ t \in Seq(S)
        /\ acc \in [pieces : Seq(Seq(S)), text : Seq(S)]
        /\ Holds(S, acc, t, max)
        /\ Tokens(part) > max => cut \in Seq(FitPieces(S, max)) /\ FlattenSeq(cut) = part
    BY <2>1, <2>2, <2>3
  <2>7. g[n + 1] = Take(acc, part, cut, max) /\ prefix(n + 1) = t \o part
    BY <2>4, <2>5
  <2> HIDE DEF part, cut, t, acc
  <2>8. /\ Take(acc, part, cut, max) \in [pieces : Seq(Seq(S)), text : Seq(S)]
        /\ Holds(S, Take(acc, part, cut, max), t \o part, max)
        /\ t \o part \in Seq(S)
    BY <2>6, TakeHolds, ConcatProperties
  <2> HIDE DEF prefix
  <2> QED
    BY <2>7, <2>8
<1>7. good(N)
  <2>1. Nat \subseteq P
    <3> HIDE DEF P
    <3> QED
      BY <1>5, <1>6, Induction
  <2> QED
    BY <1>1, <2>1
<1>8. prefix(N) = FlattenSeq(parts)
  BY SubSeqFull
<1>9. Holds(S, g[N], FlattenSeq(parts), max)
  BY <1>7, <1>8
<1> QED
  BY <1>2, <1>9, ClosedHolds

\* The words of a text that is cut by words.
LEMMA WordsAreWhole ==
    ASSUME NEW S, NEW max \in Nat \ {0}, NEW t \in Seq(S)
    PROVE  /\ Words(t, max) \in Seq(FitPieces(S, max))
           /\ FlattenSeq(Words(t, max)) = t
<1> DEFINE words == [k \in DOMAIN t |-> <<t[k]>>]
           cuts == [k \in DOMAIN t |-> <<words[k]>>]
<1>1. words \in Seq(Seq(S)) /\ FlattenSeq(words) = t
  BY FlattenSingles
<1>2. Words(t, max) = Packed(words, cuts, max)
  BY DEF Words
<1>3. DOMAIN words = DOMAIN t /\ DOMAIN words = 1 .. Len(words)
  BY <1>1, LenProperties
<1>4. ASSUME NEW k \in 1 .. Len(words)
      PROVE  ~ (Tokens(words[k]) > max)
  <2>1. words[k] = <<t[k]>>
    BY <1>3
  <2>2. Tokens(<<t[k]>>) = 1
    BY DEF Tokens
  <2> QED
    BY <2>1, <2>2
<1> HIDE DEF words, cuts
<1>5. max \in Nat
  OBVIOUS
<1> QED
  BY <1>1, <1>2, <1>4, <1>5, PackedIsWhole

\* The pieces of an element are all of its text, and each fits.
LEMMA PiecesAreWhole ==
    ASSUME NEW max \in Nat \ {0}, NEW e \in Listable
    PROVE  /\ Pieces(e, max) \in Seq(FitPieces(Word, max))
           /\ FlattenSeq(Pieces(e, max)) = Text(e)
<1> DEFINE parts == e.sentences
           cuts == [k \in DOMAIN e.sentences |-> Words(e.sentences[k], max)]
<1>1. parts \in Seq(Seq(Word)) /\ DOMAIN parts = 1 .. Len(parts)
      /\ \A k \in 1 .. Len(parts) : parts[k] \in Seq(Word)
  BY LenProperties, ElementOfSeq DEF Listable
<1>2. Pieces(e, max) = Packed(parts, cuts, max) /\ Text(e) = FlattenSeq(parts)
  BY DEF Pieces, Text
<1>3. \A k \in 1 .. Len(parts) : cuts[k] = Words(parts[k], max)
  BY <1>1
<1> HIDE DEF parts, cuts
<1>4. \A k \in 1 .. Len(parts) : /\ cuts[k] \in Seq(FitPieces(Word, max))
                                 /\ FlattenSeq(cuts[k]) = parts[k]
  <2> TAKE k \in 1 .. Len(parts)
  <2>1. parts[k] \in Seq(Word) /\ cuts[k] = Words(parts[k], max)
    BY <1>1, <1>3
  <2>2. /\ Words(parts[k], max) \in Seq(FitPieces(Word, max))
        /\ FlattenSeq(Words(parts[k], max)) = parts[k]
    BY <2>1, WordsAreWhole
  <2> QED
    BY <2>1, <2>2
<1>5. max \in Nat
  OBVIOUS
<1> QED
  BY <1>1, <1>2, <1>4, <1>5, PackedIsWhole

\* The pieces of a text that ascends ascend, and have its words.
LEMMA PiecesOfText ==
    ASSUME NEW t, Ascends(t, InOrder), NEW ps \in Seq(Seq(Word)), FlattenSeq(ps) = t
    PROVE  /\ \A k \in 1 .. Len(ps) : /\ Ascends(ps[k], InOrder)
                                      /\ WordsIn(ps[k]) \subseteq WordsIn(t)
           /\ \A w \in WordsIn(t) : \E k \in 1 .. Len(ps) : w \in WordsIn(ps[k])
<1>1. t \in Seq(Word) /\ \A k \in 1 .. Len(ps) : ps[k] \in Seq(Word)
  BY FlattenType, ElementOfSeq
<1>2. /\ WordsIn(t) = {t[q] : q \in 1 .. Len(t)}
      /\ \A k \in 1 .. Len(ps) : /\ WordsIn(ps[k]) = {ps[k][q] : q \in 1 .. Len(ps[k])}
                                 /\ Len(ps[k]) \in Nat
  BY <1>1, WordsAre
<1>3. ASSUME NEW k \in 1 .. Len(ps)
      PROVE  Ascends(ps[k], InOrder) /\ WordsIn(ps[k]) \subseteq WordsIn(t)
  <2>1. PICK o \in Nat : \A j \in 1 .. Len(ps[k]) :
             /\ o + j \in 1 .. Len(t)
             /\ t[o + j] = ps[k][j]
    BY FlattenPlaces
  <2>2. WordsIn(ps[k]) \subseteq WordsIn(t)
    <3> SUFFICES ASSUME NEW w \in WordsIn(ps[k])
                 PROVE  w \in WordsIn(t)
      OBVIOUS
    <3>0. WordsIn(ps[k]) = {ps[k][q] : q \in 1 .. Len(ps[k])}
      BY <1>2, Zenon
    <3>1. PICK j \in 1 .. Len(ps[k]) : w = ps[k][j]
      BY <3>0
    <3>2. o + j \in 1 .. Len(t) /\ t[o + j] = w
      BY <2>1, <3>1
    <3> QED
      BY <1>2, <3>2
  <2>3. ASSUME NEW i \in 1 .. Len(ps[k]), NEW j \in 1 .. Len(ps[k]), i < j
        PROVE  <<ps[k][i], ps[k][j]>> \in InOrder
    <3>1. o + i \in 1 .. Len(t) /\ o + j \in 1 .. Len(t) /\ o + i < o + j
      BY <1>2, <2>1, <2>3
    <3> QED
      BY <2>1, <3>1 DEF Ascends
  <2> QED
    BY <2>2, <2>3 DEF Ascends
<1>4. ASSUME NEW w \in WordsIn(t)
      PROVE  \E k \in 1 .. Len(ps) : w \in WordsIn(ps[k])
  <2>1. PICK q \in 1 .. Len(t) : w = t[q]
    BY <1>2
  <2>2. PICK k \in 1 .. Len(ps) : \E j \in 1 .. Len(ps[k]) : t[q] = ps[k][j]
    BY <2>1, FlattenOrigin
  <2> QED
    BY <1>2, <2>1, <2>2
<1> QED
  BY <1>3, <1>4

----------------------------------------------------------------------------
(* The document a chunker is called on                                     *)

\* A word of the i-th element, and of its s-th sentence, begins with i, s.
Document(d) ==
    /\ Listed(d)
    /\ \A i \in 1 .. Len(d) :
         /\ \A w \in WordsIn(Text(d[i])) : w[1] = i
         /\ Text(d[i])[1] = <<i, 1, 1>>
         /\ \A s \in 1 .. Len(d[i].sentences) :
              /\ d[i].sentences[s] # <<>>
              /\ \A w \in WordsIn(d[i].sentences[s]) : w[1] = i /\ w[2] = s

\* Elements have the headings under which d has their words.
Titled(es, d) ==
    \A k \in 1 .. Len(es) : \A w \in WordsIn(Text(es[k])) :
        w[1] \in 1 .. Len(d) /\ d[w[1]].heading = es[k].heading

IsSentence(e, d) ==
    \E i \in DOMAIN d : \E s \in DOMAIN d[i].sentences : Text(e) = d[i].sentences[s]

\* The words of one sentence.
LEMMA SentenceIs ==
    ASSUME NEW i \in Nat, NEW k \in Nat, NEW n \in Nat
    PROVE  LET t == [w \in 1 .. n |-> <<i, k, w>>]
           IN  /\ t \in Seq(Word) /\ Len(t) = n /\ DOMAIN t = 1 .. n
               /\ \A w \in 1 .. n : t[w] = <<i, k, w>>
               /\ Ascends(t, InOrder)
               /\ WordsIn(t) = {<<i, k, w>> : w \in 1 .. n}
<1> DEFINE t == [w \in 1 .. n |-> <<i, k, w>>]
<1>1. \A w \in 1 .. n : <<i, k, w>> \in Word
  BY DEF Word
<1>2. t \in Seq(Word) /\ Len(t) = n /\ DOMAIN t = 1 .. n /\ \A w \in 1 .. n : t[w] = <<i, k, w>>
  BY <1>1
<1> HIDE DEF t
<1>3. Ascends(t, InOrder)
  <2> SUFFICES ASSUME NEW a \in 1 .. n, NEW b \in 1 .. n, a < b
               PROVE  <<t[a], t[b]>> \in InOrder
    BY <1>2 DEF Ascends
  <2>1. t[a] = <<i, k, a>> /\ t[b] = <<i, k, b>>
    BY <1>2
  <2>2. <<<<i, k, a>>, <<i, k, b>>>> \in Word \X Word /\ Before(<<i, k, a>>, <<i, k, b>>)
    BY <1>1 DEF Before
  <2> QED
    BY <2>1, <2>2 DEF InOrder
<1>4. WordsIn(t) = {<<i, k, w>> : w \in 1 .. n}
  BY <1>2 DEF WordsIn
<1> QED
  BY <1>2, <1>3, <1>4 DEF t

\* The words of one element, in their order.
LEMMA ElementIs ==
    ASSUME NEW els, NEW i \in Nat, els[i].sizes \in Seq(Nat \ {0}), els[i].sizes # <<>>,
           els[i].heading \in Headings
    PROVE  LET e == Element(els, i)
               z == els[i].sizes
           IN  /\ e \in Listable /\ e.heading = els[i].heading
               /\ Len(e.sentences) = Len(z)
               /\ Text(e) # <<>> /\ Text(e)[1] = <<i, 1, 1>>
               /\ Ascends(Text(e), InOrder)
               /\ \A w \in WordsIn(Text(e)) : w[1] = i
               /\ \A s \in 1 .. Len(z) : \A w \in 1 .. z[s] : <<i, s, w>> \in WordsIn(Text(e))
               /\ \A s \in 1 .. Len(z) :
                    /\ e.sentences[s] # <<>>
                    /\ \A w \in WordsIn(e.sentences[s]) : w[1] = i /\ w[2] = s
<1> DEFINE e == Element(els, i)
           z == els[i].sizes
           ss == e.sentences
<1>1. /\ Len(z) \in Nat \ {0} /\ DOMAIN z = 1 .. Len(z)
      /\ \A s \in 1 .. Len(z) : z[s] \in Nat \ {0}
  BY LenProperties, ElementOfSeq, EmptySeq
<1>2. /\ e.heading = els[i].heading
      /\ DOMAIN ss = 1 .. Len(z)
      /\ \A s \in 1 .. Len(z) : ss[s] = [w \in 1 .. z[s] |-> <<i, s, w>>]
      /\ e = [heading |-> els[i].heading, sentences |-> ss]
      /\ ss = [s \in 1 .. Len(z) |-> [w \in 1 .. z[s] |-> <<i, s, w>>]]
  BY <1>1 DEF Element
<1> HIDE DEF e, z
<1>3. ASSUME NEW s \in 1 .. Len(z)
      PROVE  /\ ss[s] \in Seq(Word) /\ Len(ss[s]) = z[s]
             /\ \A w \in 1 .. z[s] : ss[s][w] = <<i, s, w>>
             /\ Ascends(ss[s], InOrder)
             /\ WordsIn(ss[s]) = {<<i, s, w>> : w \in 1 .. z[s]}
  <2>1. s \in Nat /\ z[s] \in Nat
    BY <1>1
  <2> QED
    BY SMTT(30), <1>2, <2>1, SentenceIs
<1>4. ss \in Seq(Seq(Word)) /\ Len(ss) = Len(z)
  <2>1. \A s \in 1 .. Len(z) : [w \in 1 .. z[s] |-> <<i, s, w>>] \in Seq(Word)
    BY <1>2, <1>3
  <2> HIDE DEF ss
  <2> QED
    BY <1>1, <1>2, <2>1
<1>5. e \in Listable
  <2> HIDE DEF ss
  <2> QED
    BY <1>2, <1>4 DEF Listable, z
<1>6. Text(e) = FlattenSeq(ss)
  BY DEF Text
<1> HIDE DEF ss
<1>7. 1 \in 1 .. Len(z) /\ 1 \in 1 .. z[1]
  BY <1>1
<1>8. Text(e) # <<>> /\ Text(e)[1] = <<i, 1, 1>>
  <2>1. ss # <<>> /\ ss[1] # <<>> /\ ss[1][1] = <<i, 1, 1>>
    BY <1>1, <1>3, <1>4, <1>7, EmptySeq
  <2> QED
    BY <1>4, <1>6, <2>1, FlattenBegins
<1>9. Ascends(Text(e), InOrder)
  <2>1. ASSUME NEW k \in 1 .. Len(ss), NEW l \in 1 .. Len(ss), k < l,
               NEW a \in 1 .. Len(ss[k]), NEW b \in 1 .. Len(ss[l])
        PROVE  <<ss[k][a], ss[l][b]>> \in InOrder
    <3>1. ss[k][a] = <<i, k, a>> /\ ss[l][b] = <<i, l, b>>
      BY <1>3, <1>4
    <3>2. k \in Nat /\ l \in Nat /\ a \in Nat /\ b \in Nat
      BY <1>1, <1>3, <1>4
    <3>3. <<<<i, k, a>>, <<i, l, b>>>> \in Word \X Word /\ Before(<<i, k, a>>, <<i, l, b>>)
      BY <2>1, <3>2 DEF Word, Before
    <3> QED
      BY <3>1, <3>3 DEF InOrder
  <2>2. \A k \in 1 .. Len(ss) : Ascends(ss[k], InOrder)
    BY <1>3, <1>4
  <2> QED
    BY <1>4, <1>6, <2>1, <2>2, FlattenAscends
<1>10. /\ \A k \in 1 .. Len(ss) : WordsIn(ss[k]) \subseteq WordsIn(Text(e))
       /\ \A w \in WordsIn(Text(e)) : \E k \in 1 .. Len(ss) : w \in WordsIn(ss[k])
  BY <1>4, <1>6, <1>9, PiecesOfText
<1>11. \A s \in 1 .. Len(z) : \A w \in WordsIn(ss[s]) : w[1] = i /\ w[2] = s
  <2> TAKE s \in 1 .. Len(z)
  <2>1. \A w \in 1 .. z[s] : <<i, s, w>>[1] = i /\ <<i, s, w>>[2] = s
    OBVIOUS
  <2>2. WordsIn(ss[s]) = {<<i, s, w>> : w \in 1 .. z[s]}
    BY <1>3
  <2> QED
    BY <2>1, <2>2
<1>12. \A w \in WordsIn(Text(e)) : w[1] = i
  BY <1>4, <1>10, <1>11
<1>13. \A s \in 1 .. Len(z) : \A w \in 1 .. z[s] : <<i, s, w>> \in WordsIn(Text(e))
  BY <1>3, <1>4, <1>10
<1>14. \A s \in 1 .. Len(z) : ss[s] # <<>>
  BY <1>1, <1>3, EmptySeq
<1> QED
  BY <1>2, <1>4, <1>5, <1>8, <1>9, <1>11, <1>12, <1>13, <1>14 DEF e, z, ss

\* Two elements in order.
LEMMA OrderOfElements ==
    ASSUME NEW x \in Listable, NEW y \in Listable,
           \A i \in 1 .. Len(Text(x)) : \A j \in 1 .. Len(Text(y)) :
               <<Text(x)[i], Text(y)[j]>> \in InOrder
    PROVE  <<x, y>> \in ElementOrder
<1>1. <<x, y>>[1] = x /\ <<x, y>>[2] = y /\ <<x, y>> \in Listable \X Listable
  OBVIOUS
<1> QED
  BY <1>1, Zenon DEF ElementOrder

\* Elements that all have a sentence are a document.
LEMMA DocumentOf ==
    ASSUME NEW els \in Seq(Elements), \A i \in 1 .. Len(els) : els[i].sizes # <<>>,
           NEW d, d = [i \in DOMAIN els |-> Element(els, i)]
    PROVE  /\ Document(d)
           /\ Len(d) = Len(els)
           /\ \A i \in 1 .. Len(els) :
                /\ d[i].heading = els[i].heading
                /\ \A s \in DOMAIN els[i].sizes : \A w \in 1 .. els[i].sizes[s] :
                      <<i, s, w>> \in WordsIn(Text(d[i]))
<1>1. /\ Len(els) \in Nat /\ DOMAIN els = 1 .. Len(els)
      /\ \A i \in 1 .. Len(els) : els[i] \in Elements
  BY LenProperties, ElementOfSeq
<1>2. /\ DOMAIN d = 1 .. Len(els)
      /\ \A i \in 1 .. Len(els) : d[i] = Element(els, i)
  BY <1>1
<1>3. ASSUME NEW i \in 1 .. Len(els)
      PROVE  /\ d[i] \in Listable /\ d[i].heading = els[i].heading
             /\ Text(d[i]) # <<>> /\ Text(d[i])[1] = <<i, 1, 1>>
             /\ Ascends(Text(d[i]), InOrder)
             /\ \A w \in WordsIn(Text(d[i])) : w[1] = i
             /\ \A s \in DOMAIN els[i].sizes : \A w \in 1 .. els[i].sizes[s] :
                    <<i, s, w>> \in WordsIn(Text(d[i]))
             /\ \A s \in 1 .. Len(d[i].sentences) :
                    /\ d[i].sentences[s] # <<>>
                    /\ \A w \in WordsIn(d[i].sentences[s]) : w[1] = i /\ w[2] = s
  <2>1. /\ els[i].sizes \in Seq(Nat \ {0}) /\ els[i].sizes # <<>>
        /\ els[i].heading \in Headings /\ i \in Nat
    BY <1>1 DEF Elements
  <2>2. DOMAIN els[i].sizes = 1 .. Len(els[i].sizes)
    BY <2>1, LenProperties
  <2>3. LET e == Element(els, i)
            z == els[i].sizes
        IN  /\ e \in Listable /\ e.heading = els[i].heading
            /\ Len(e.sentences) = Len(z)
            /\ Text(e) # <<>> /\ Text(e)[1] = <<i, 1, 1>>
            /\ Ascends(Text(e), InOrder)
            /\ \A w \in WordsIn(Text(e)) : w[1] = i
            /\ \A s \in 1 .. Len(z) : \A w \in 1 .. z[s] : <<i, s, w>> \in WordsIn(Text(e))
            /\ \A s \in 1 .. Len(z) :
                    /\ e.sentences[s] # <<>>
                    /\ \A w \in WordsIn(e.sentences[s]) : w[1] = i /\ w[2] = s
    BY <2>1, ElementIs
  <2> QED
    BY <1>2, <2>2, <2>3, Zenon
<1>4. d \in Seq(Listable) /\ Len(d) = Len(els)
  <2>1. d = [i \in 1 .. Len(els) |-> d[i]]
    BY <1>1
  <2>2. \A i \in 1 .. Len(els) : d[i] \in Listable
    BY <1>3
  <2> QED
    BY <1>1, <2>1, <2>2
<1>5. ASSUME NEW a \in 1 .. Len(els), NEW b \in 1 .. Len(els), a < b
      PROVE  <<d[a], d[b]>> \in ElementOrder
  <2>1. Text(d[a]) \in Seq(Word) /\ Text(d[b]) \in Seq(Word) /\ d[a] \in Listable /\ d[b] \in Listable
    BY <1>3, TextType
  <2>2. ASSUME NEW i \in 1 .. Len(Text(d[a])), NEW j \in 1 .. Len(Text(d[b]))
        PROVE  <<Text(d[a])[i], Text(d[b])[j]>> \in InOrder
    <3>1. Text(d[a])[i] \in WordsIn(Text(d[a])) /\ Text(d[b])[j] \in WordsIn(Text(d[b]))
      BY <2>1, WordsAre
    <3>2. Text(d[a])[i] \in Word /\ Text(d[b])[j] \in Word
      BY <2>1, ElementOfSeq
    <3>3. Text(d[a])[i][1] = a /\ Text(d[b])[j][1] = b
      <4>1. \A w \in WordsIn(Text(d[a])) : w[1] = a
        BY <1>3
      <4>2. \A w \in WordsIn(Text(d[b])) : w[1] = b
        BY <1>3
      <4> QED
        BY <3>1, <4>1, <4>2
    <3>4. Before(Text(d[a])[i], Text(d[b])[j])
      BY <1>5, <3>3 DEF Before
    <3> QED
      BY <3>2, <3>4 DEF InOrder
  <2> QED
    BY <2>1, <2>2, OrderOfElements
<1>6. Listed(d)
  BY <1>3, <1>4, <1>5 DEF Listed, Ascends
<1> QED
  BY <1>3, <1>4, <1>6 DEF Document

\* A document is a list in order, under its own headings.
LEMMA DocumentIs ==
    ASSUME NEW d, Document(d)
    PROVE  /\ Listed(d) /\ Titled(d, d)
           /\ d \in Seq(Listable) /\ Len(d) \in Nat /\ DOMAIN d = 1 .. Len(d)
           /\ d = <<>> <=> Len(d) = 0
           /\ \A i \in 1 .. Len(d) :
                /\ d[i] \in Listable /\ d[i].heading \in Headings
                /\ d[i].sentences \in Seq(Seq(Word))
                /\ DOMAIN d[i].sentences = 1 .. Len(d[i].sentences)
                /\ \A s \in 1 .. Len(d[i].sentences) : d[i].sentences[s] \in Seq(Word)
<1>1. /\ Listed(d) /\ d \in Seq(Listable) /\ Len(d) \in Nat /\ DOMAIN d = 1 .. Len(d)
      /\ d = <<>> <=> Len(d) = 0
      /\ \A i \in 1 .. Len(d) : d[i] \in Listable
  BY ListedAre DEF Document
<1>2. \A i \in 1 .. Len(d) : d[i].heading \in Headings /\ d[i].sentences \in Seq(Seq(Word))
  BY <1>1 DEF Listable
<1>3. Titled(d, d)
  BY DEF Titled, Document
<1> QED
  BY <1>1, <1>2, <1>3, LenProperties, ElementOfSeq

\* A sentence as an element of its own.
LEMMA SentenceElement ==
    ASSUME NEW h \in Headings, NEW t \in Seq(Word)
    PROVE  LET e == [sentences |-> <<t>>, heading |-> h]
           IN  e \in Listable /\ Text(e) = t /\ e.heading = h
<1> DEFINE e == [sentences |-> <<t>>, heading |-> h]
<1>1. <<t>> \in Seq(Seq(Word))
  OBVIOUS
<1>2. e \in Listable
  BY <1>1 DEF Listable
<1>3. <<>> \in Seq(Seq(Word)) /\ <<t>> = Append(<<>>, t)
  OBVIOUS
<1>4. FlattenSeq(Append(<<>>, t)) = FlattenSeq(<<>>) \o t /\ FlattenSeq(<<>>) = <<>>
  BY <1>3, FlattenAppend
<1>5. <<>> \o t = t
  BY ConcatEmptySeq
<1>6. e.sentences = <<t>> /\ e.heading = h
  OBVIOUS
<1>7. Text(e) = t
  BY <1>3, <1>4, <1>5, <1>6, Zenon DEF Text
<1> QED
  BY <1>2, <1>6, <1>7

\* What SemanticChunker takes one by one is all of the document in its order.
LEMMA SentencesOf ==
    ASSUME NEW d, Document(d)
    PROVE  /\ Listed(Sentences(d))
           /\ Titled(Sentences(d), d)
           /\ \A k \in 1 .. Len(Sentences(d)) : IsSentence(Sentences(d)[k], d)
           /\ \A w : Has(d, w) => Has(Sentences(d), w)
<1> DEFINE es == Sentences(d)
           single(i, k) == [sentences |-> <<d[i].sentences[k]>>, heading |-> d[i].heading]
           ss == [i \in DOMAIN d |-> [k \in DOMAIN d[i].sentences |-> single(i, k)]]
<1>1. /\ Len(d) \in Nat /\ DOMAIN d = 1 .. Len(d)
      /\ \A i \in 1 .. Len(d) :
           /\ d[i] \in Listable /\ d[i].heading \in Headings
           /\ d[i].sentences \in Seq(Seq(Word))
           /\ DOMAIN d[i].sentences = 1 .. Len(d[i].sentences)
           /\ Len(d[i].sentences) \in Nat
           /\ \A s \in 1 .. Len(d[i].sentences) : d[i].sentences[s] \in Seq(Word)
  BY DocumentIs, LenProperties
<1>2. es = FlattenSeq(ss)
  BY DEF Sentences
<1>3. ASSUME NEW i \in 1 .. Len(d), NEW s \in 1 .. Len(d[i].sentences)
      PROVE  /\ single(i, s) \in Listable
             /\ Text(single(i, s)) = d[i].sentences[s]
             /\ single(i, s).heading = d[i].heading
  BY <1>1, SentenceElement
<1> HIDE DEF single
<1>4. ASSUME NEW i \in 1 .. Len(d)
      PROVE  /\ ss[i] \in Seq(Listable) /\ Len(ss[i]) = Len(d[i].sentences)
             /\ \A s \in 1 .. Len(d[i].sentences) : ss[i][s] = single(i, s)
  <2>1. ss[i] = [k \in 1 .. Len(d[i].sentences) |-> single(i, k)]
    BY <1>1
  <2> HIDE DEF ss
  <2>2. Len(d[i].sentences) \in Nat /\ \A s \in 1 .. Len(d[i].sentences) : single(i, s) \in Listable
    BY <1>1, <1>3
  <2> QED
    BY <2>1, <2>2
<1>5. ss \in Seq(Seq(Listable)) /\ Len(ss) = Len(d)
  <2>1. ss = [i \in 1 .. Len(d) |-> ss[i]]
    BY <1>1
  <2> HIDE DEF ss
  <2> QED
    BY <1>1, <1>4, <2>1
<1> HIDE DEF ss, es
<1>6. ASSUME NEW i \in 1 .. Len(d), NEW s \in 1 .. Len(d[i].sentences)
      PROVE  /\ d[i].sentences[s] \in Seq(Word) /\ d[i].sentences[s] # <<>>
             /\ Ascends(d[i].sentences[s], InOrder)
             /\ \A w \in WordsIn(d[i].sentences[s]) : w \in Word /\ w[1] = i /\ w[2] = s
  <2>1. Text(d[i]) = FlattenSeq(d[i].sentences) /\ Ascends(Text(d[i]), InOrder)
    BY ListedAre DEF Text, Document
  <2>2. d[i].sentences \in Seq(Seq(Word)) /\ d[i].sentences[s] \in Seq(Word)
    BY <1>1
  <2>3. Ascends(d[i].sentences[s], InOrder)
    BY <2>1, <2>2, PiecesOfText
  <2>4. d[i].sentences[s] # <<>> /\ \A w \in WordsIn(d[i].sentences[s]) : w[1] = i /\ w[2] = s
    BY DEF Document
  <2> QED
    BY <2>2, <2>3, <2>4, WordsAre
<1>7. es \in Seq(Listable)
  BY <1>2, <1>5, FlattenType
<1>8. ASSUME NEW k \in 1 .. Len(es)
      PROVE  \E i \in 1 .. Len(d) : \E s \in 1 .. Len(d[i].sentences) :
                /\ es[k] \in Listable
                /\ Text(es[k]) = d[i].sentences[s] /\ es[k].heading = d[i].heading
  <2>1. PICK i \in 1 .. Len(ss) : \E s \in 1 .. Len(ss[i]) : es[k] = ss[i][s]
    BY <1>2, <1>5, FlattenOrigin
  <2>2. PICK s \in 1 .. Len(ss[i]) : es[k] = ss[i][s]
    BY <2>1
  <2>3. i \in 1 .. Len(d) /\ s \in 1 .. Len(d[i].sentences) /\ es[k] = single(i, s)
    BY <1>4, <1>5, <2>2
  <2> QED
    BY SMTT(30), <1>3, <2>3
<1>9. \A k \in 1 .. Len(es) : Text(es[k]) # <<>> /\ Ascends(Text(es[k]), InOrder)
  BY SMTT(30), <1>6, <1>8
<1>10. ASSUME NEW i \in 1 .. Len(d), NEW s \in 1 .. Len(d[i].sentences),
              NEW j \in 1 .. Len(d), NEW t \in 1 .. Len(d[j].sentences),
              i < j \/ (i = j /\ s < t)
       PROVE  <<single(i, s), single(j, t)>> \in ElementOrder
  <2> DEFINE p == d[i].sentences[s]
             q == d[j].sentences[t]
  <2>1. /\ p \in Seq(Word) /\ q \in Seq(Word)
        /\ \A w \in WordsIn(p) : w \in Word /\ w[1] = i /\ w[2] = s
        /\ \A w \in WordsIn(q) : w \in Word /\ w[1] = j /\ w[2] = t
    BY <1>6
  <2>2. /\ Text(single(i, s)) = p /\ Text(single(j, t)) = q
        /\ single(i, s) \in Listable /\ single(j, t) \in Listable
    BY <1>3
  <2> HIDE DEF p, q
  <2>3. ASSUME NEW a \in 1 .. Len(p), NEW b \in 1 .. Len(q)
        PROVE  <<p[a], q[b]>> \in InOrder
    <3>1. p[a] \in WordsIn(p) /\ q[b] \in WordsIn(q)
      BY <2>1, WordsAre
    <3>2. /\ p[a] \in Word /\ p[a][1] = i /\ p[a][2] = s
          /\ q[b] \in Word /\ q[b][1] = j /\ q[b][2] = t
      BY <2>1, <3>1
    <3>3. Before(p[a], q[b])
      BY <1>10, <3>2 DEF Before
    <3> QED
      BY <3>2, <3>3 DEF InOrder
  <2> QED
    BY <2>2, <2>3, OrderOfElements
<1>11. Ascends(es, ElementOrder)
  <2>1. ASSUME NEW k \in 1 .. Len(ss)
        PROVE  Ascends(ss[k], ElementOrder)
    <3> SUFFICES ASSUME NEW a \in 1 .. Len(ss[k]), NEW b \in 1 .. Len(ss[k]), a < b
                 PROVE  <<ss[k][a], ss[k][b]>> \in ElementOrder
      BY DEF Ascends
    <3>1. /\ k \in 1 .. Len(d) /\ a \in 1 .. Len(d[k].sentences) /\ b \in 1 .. Len(d[k].sentences)
          /\ ss[k][a] = single(k, a) /\ ss[k][b] = single(k, b)
      BY <1>4, <1>5
    <3> QED
      BY <1>10, <3>1
  <2>2. ASSUME NEW k \in 1 .. Len(ss), NEW l \in 1 .. Len(ss), k < l,
               NEW a \in 1 .. Len(ss[k]), NEW b \in 1 .. Len(ss[l])
        PROVE  <<ss[k][a], ss[l][b]>> \in ElementOrder
    <3>1. /\ k \in 1 .. Len(d) /\ a \in 1 .. Len(d[k].sentences) /\ ss[k][a] = single(k, a)
          /\ l \in 1 .. Len(d) /\ b \in 1 .. Len(d[l].sentences) /\ ss[l][b] = single(l, b)
      BY <1>4, <1>5
    <3> QED
      BY <1>10, <2>2, <3>1
  <2> QED
    BY <1>2, <1>5, <2>1, <2>2, FlattenAscends
<1>12. Listed(es)
  BY <1>7, <1>9, <1>11 DEF Listed
<1>13. Titled(es, d)
  <2> SUFFICES ASSUME NEW k \in 1 .. Len(es), NEW w \in WordsIn(Text(es[k]))
               PROVE  w[1] \in 1 .. Len(d) /\ d[w[1]].heading = es[k].heading
    BY DEF Titled
  <2>1. PICK i \in 1 .. Len(d) : \E s \in 1 .. Len(d[i].sentences) :
             Text(es[k]) = d[i].sentences[s] /\ es[k].heading = d[i].heading
    BY <1>8
  <2>2. w[1] = i
    BY <1>6, <2>1
  <2> QED
    BY <2>1, <2>2
<1>14. \A k \in 1 .. Len(es) : IsSentence(es[k], d)
  BY SMTT(30), <1>1, <1>8 DEF IsSentence
<1>15. ASSUME NEW w, Has(d, w)
       PROVE  Has(es, w)
  <2>1. PICK i \in 1 .. Len(d) : w \in WordsIn(Text(d[i]))
    BY <1>15 DEF Has
  <2>2. Text(d[i]) = FlattenSeq(d[i].sentences) /\ Ascends(Text(d[i]), InOrder)
    BY ListedAre DEF Text, Document
  <2>3. PICK s \in 1 .. Len(d[i].sentences) : w \in WordsIn(d[i].sentences[s])
    BY <1>1, <2>1, <2>2, PiecesOfText
  <2>4. i \in 1 .. Len(ss) /\ s \in 1 .. Len(ss[i]) /\ ss[i][s] = single(i, s)
    BY <1>4, <1>5
  <2>5. PICK o \in Nat : \A j \in 1 .. Len(ss[i]) : o + j \in 1 .. Len(es) /\ es[o + j] = ss[i][j]
    BY <1>2, <1>5, <2>4, FlattenPlaces
  <2>6. o + s \in 1 .. Len(es) /\ es[o + s] = single(i, s)
    BY <2>4, <2>5
  <2>7. w \in WordsIn(Text(es[o + s]))
    BY <1>3, <2>3, <2>6
  <2> QED
    BY <2>6, <2>7 DEF Has
<1> QED
  BY <1>12, <1>13, <1>14, <1>15 DEF es

----------------------------------------------------------------------------
(* What the loops do with lists of elements                                *)

\* A part of a list is in order, and its elements are some of the list.
LEMMA PartOfList ==
    ASSUME NEW es, Listed(es), NEW m \in 1 .. Len(es) + 1, NEW n \in m - 1 .. Len(es),
           NEW d, Titled(es, d)
    PROVE  /\ Listed(SubSeq(es, m, n)) /\ Titled(SubSeq(es, m, n), d)
           /\ Len(SubSeq(es, m, n)) = n - m + 1
           /\ \A k \in 1 .. Len(SubSeq(es, m, n)) : \E l \in m .. n :
                 l \in 1 .. Len(es) /\ SubSeq(es, m, n)[k] = es[l]
           /\ \A l \in m .. n : \E k \in 1 .. Len(SubSeq(es, m, n)) : SubSeq(es, m, n)[k] = es[l]
           /\ \A w : Has(SubSeq(es, m, n), w) => Has(es, w)
<1> DEFINE s == SubSeq(es, m, n)
<1>1. Len(es) \in Nat
  BY ListedAre
<1>2. /\ Listed(s) /\ Len(s) = n - m + 1
      /\ \A k \in 1 .. n - m + 1 : s[k] = es[m + k - 1] /\ m + k - 1 \in 1 .. Len(es)
  BY ListedPart
<1> HIDE DEF s
<1>3. \A k \in 1 .. Len(s) : m + k - 1 \in m .. n /\ m + k - 1 \in 1 .. Len(es) /\ s[k] = es[m + k - 1]
  BY <1>1, <1>2
<1>4. \A k \in 1 .. Len(s) : \E l \in m .. n : l \in 1 .. Len(es) /\ s[k] = es[l]
  BY <1>3
<1>5. \A l \in m .. n : \E k \in 1 .. Len(s) : s[k] = es[l]
  <2> TAKE l \in m .. n
  <2>1. l - m + 1 \in 1 .. Len(s) /\ m + (l - m + 1) - 1 = l
    BY <1>1, <1>2
  <2> QED
    BY <1>3, <2>1
<1>6. Titled(s, d)
  BY <1>4 DEF Titled
<1>7. \A w : Has(s, w) => Has(es, w)
  BY <1>4 DEF Has
<1> QED
  BY <1>2, <1>4, <1>5, <1>6, <1>7 DEF s

\* A list is the first n of it and the others.
LEMMA ListCut ==
    ASSUME NEW es, Listed(es), NEW n \in 0 .. Len(es), NEW d, Titled(es, d)
    PROVE  \A w : Has(es, w) => Has(SubSeq(es, 1, n), w) \/ Has(SubSeq(es, n + 1, Len(es)), w)
<1> DEFINE a == SubSeq(es, 1, n)
           N == Len(es)
           b == SubSeq(es, n + 1, N)
<1>1. N \in Nat /\ 1 \in 1 .. Len(es) + 1 /\ n \in 1 - 1 .. Len(es)
      /\ n + 1 \in 1 .. Len(es) + 1 /\ N \in (n + 1) - 1 .. Len(es)
  BY ListedAre
<1> HIDE DEF N
<1>2. \A l \in 1 .. n : \E k \in 1 .. Len(a) : a[k] = es[l]
  BY <1>1, PartOfList
<1>3. \A l \in n + 1 .. N : \E k \in 1 .. Len(b) : b[k] = es[l]
  BY <1>1, PartOfList
<1> HIDE DEF a, b
<1>4. ASSUME NEW w, Has(es, w)
      PROVE  Has(a, w) \/ Has(b, w)
  <2>1. PICK l \in 1 .. Len(es) : w \in WordsIn(Text(es[l]))
    BY <1>4 DEF Has
  <2>2. CASE l \in 1 .. n
    BY <1>2, <2>1, <2>2 DEF Has
  <2>3. CASE l \in n + 1 .. N
    BY <1>3, <2>1, <2>3 DEF Has
  <2> QED
    BY <1>1, <2>2, <2>3 DEF N
<1> QED
  BY <1>4 DEF a, b, N

\* Elements gathered, and those to come after them.
Gathered(b, t, d) ==
    /\ Listed(b) /\ Titled(b, d)
    /\ Listed(t) /\ Titled(t, d)
    /\ \A k \in 1 .. Len(b) : \A l \in 1 .. Len(t) : <<b[k], t[l]>> \in ElementOrder

\* The next element is taken, after the first of the gathered ones were dropped.
LEMMA NextGathered ==
    ASSUME NEW b, NEW t, NEW d, Gathered(b, t, d), t # <<>>, NEW m \in 1 .. Len(b) + 1
    PROVE  LET kept == SubSeq(b, m, Len(b))
               more == Append(kept, Head(t))
           IN  /\ Head(t) = t[1] /\ 1 \in 1 .. Len(t) /\ t[1] \in Listable
               /\ Gathered(kept, Tail(t), d)
               /\ Gathered(more, Tail(t), d)
               /\ \A k \in 1 .. Len(kept) : \E l \in 1 .. Len(b) : kept[k] = b[l]
               /\ \A k \in 1 .. Len(more) : more[k] = t[1] \/ \E l \in 1 .. Len(b) : more[k] = b[l]
               /\ \A k \in 1 .. Len(Tail(t)) : \E l \in 1 .. Len(t) : Tail(t)[k] = t[l]
               /\ Len(kept) = Len(b) - m + 1 /\ Len(more) = Len(b) - m + 2
               /\ Len(b) \in Nat
               /\ \A w : Has(t, w) <=> w \in WordsIn(Text(t[1])) \/ Has(Tail(t), w)
               /\ \A w : Has(kept, w) => Has(b, w)
               /\ \A w : Has(more, w) <=> Has(kept, w) \/ w \in WordsIn(Text(t[1]))
<1> DEFINE N == Len(b)
           kept == SubSeq(b, m, N)
           e == t[1]
           more == Append(kept, e)
           tl == Tail(t)
<1>1. N \in Nat /\ N \in m - 1 .. Len(b)
  BY ListedAre DEF Gathered
<1> HIDE DEF N
<1>2. /\ Listed(kept) /\ Titled(kept, d) /\ Len(kept) = N - m + 1
      /\ \A k \in 1 .. Len(kept) : \E l \in m .. N : l \in 1 .. Len(b) /\ kept[k] = b[l]
      /\ \A w : Has(kept, w) => Has(b, w)
  BY <1>1, PartOfList DEF Gathered
<1>3. /\ Listed(tl)
      /\ Head(t) = e /\ e \in Listable
      /\ Text(e) # <<>> /\ Ascends(Text(e), InOrder)
      /\ Len(tl) = Len(t) - 1
      /\ \A k \in 1 .. Len(tl) : tl[k] = t[k + 1] /\ k + 1 \in 1 .. Len(t)
      /\ \A k \in 1 .. Len(tl) : <<e, tl[k]>> \in ElementOrder
      /\ \A k \in 1 .. Len(t) : k = 1 \/ (k - 1 \in 1 .. Len(tl) /\ tl[k - 1] = t[k])
  BY ListedTail DEF Gathered
<1>4. 1 \in 1 .. Len(t)
  <2>1. Len(t) \in Nat /\ Len(t) # 0
    BY ListedAre DEF Gathered
  <2> QED
    BY <2>1
<1> HIDE DEF kept, tl
<1>5. \A k \in 1 .. Len(tl) : \E l \in 1 .. Len(t) : tl[k] = t[l]
  BY <1>3
<1>6. Titled(tl, d)
  BY <1>5 DEF Titled, Gathered
<1>7. \A k \in 1 .. Len(kept) : \E l \in 1 .. Len(b) : kept[k] = b[l]
  BY <1>2
<1>8. \A k \in 1 .. Len(kept) : \A l \in 1 .. Len(t) : <<kept[k], t[l]>> \in ElementOrder
  BY <1>7 DEF Gathered
<1>9. Gathered(kept, tl, d)
  BY <1>2, <1>3, <1>5, <1>6, <1>8 DEF Gathered
<1>10. /\ Listed(more) /\ Len(more) = Len(kept) + 1 /\ Len(kept) \in Nat
       /\ \A k \in 1 .. Len(kept) : more[k] = kept[k]
       /\ more[Len(kept) + 1] = e
  <2>1. Listed(more)
    BY <1>2, <1>3, <1>4, <1>8, ListedAppend
  <2>2. kept \in Seq(Listable) /\ Len(kept) \in Nat
    BY <1>2, ListedAre
  <2> QED
    BY <1>3, <2>1, <2>2, AppendProperties
<1> HIDE DEF more
<1>11. \A k \in 1 .. Len(more) : k \in 1 .. Len(kept) \/ k = Len(kept) + 1
  BY <1>10
<1>12. \A k \in 1 .. Len(more) : more[k] = e \/ \E l \in 1 .. Len(kept) : more[k] = kept[l]
  BY <1>10, <1>11
<1>13. \A k \in 1 .. Len(more) : \A l \in 1 .. Len(tl) : <<more[k], tl[l]>> \in ElementOrder
  BY <1>3, <1>9, <1>12 DEF Gathered
<1>14. Titled(more, d)
  <2>1. \A w \in WordsIn(Text(e)) : w[1] \in 1 .. Len(d) /\ d[w[1]].heading = e.heading
    BY <1>4 DEF Titled, Gathered
  <2> HIDE DEF e
  <2> QED
    BY SMTT(30), <1>2, <1>12, <2>1 DEF Titled
<1>15. Gathered(more, tl, d)
  BY <1>3, <1>6, <1>10, <1>13, <1>14 DEF Gathered
<1>16. \A k \in 1 .. Len(more) : more[k] = e \/ \E l \in 1 .. Len(b) : more[k] = b[l]
  BY <1>7, <1>12
<1>17. ASSUME NEW w
       PROVE  Has(t, w) <=> w \in WordsIn(Text(e)) \/ Has(tl, w)
  <2>1. Has(tl, w) => Has(t, w)
    BY <1>5 DEF Has
  <2>2. w \in WordsIn(Text(e)) => Has(t, w)
    BY <1>4 DEF Has
  <2>3. ASSUME Has(t, w)
        PROVE  w \in WordsIn(Text(e)) \/ Has(tl, w)
    <3>1. PICK k \in 1 .. Len(t) : w \in WordsIn(Text(t[k]))
      BY <2>3 DEF Has
    <3>2. CASE k = 1
      BY <3>1, <3>2
    <3>3. CASE k # 1
      BY <1>3, <3>1, <3>3 DEF Has
    <3> QED
      BY <3>2, <3>3
  <2> QED
    BY <2>1, <2>2, <2>3
<1>18. ASSUME NEW w
       PROVE  Has(more, w) <=> Has(kept, w) \/ w \in WordsIn(Text(e))
  <2>1. Has(more, w) => Has(kept, w) \/ w \in WordsIn(Text(e))
    BY <1>12 DEF Has
  <2>2. Len(kept) + 1 \in 1 .. Len(more) /\ \A k \in 1 .. Len(kept) : k \in 1 .. Len(more)
    BY <1>10
  <2>3. Has(kept, w) => Has(more, w)
    BY <1>10, <2>2 DEF Has
  <2>4. w \in WordsIn(Text(e)) => Has(more, w)
    BY <1>10, <2>2 DEF Has
  <2> QED
    BY <2>1, <2>3, <2>4
<1>19. Len(more) = N - m + 2
  BY <1>1, <1>2, <1>10
<1>20. Head(t) = e /\ e \in Listable
  BY <1>3
<1> HIDE DEF e
<1> QED
  BY <1>1, <1>2, <1>4, <1>5, <1>7, <1>9, <1>15, <1>16, <1>17, <1>18, <1>19, <1>20 DEF N, kept, more, tl, e

\* The overlap is an end of the list, and not larger than configured.
LEMMA OverlapIs ==
    ASSUME NEW es, Listed(es), config.overlap \in Nat
    PROVE  \E m \in 1 .. Len(es) + 1 :
             /\ Overlap(es) = SubSeq(es, m, Len(es))
             /\ Weight(Overlap(es)) <= config.overlap
<1> DEFINE N == Len(es)
           fits(n) == Weight(SubSeq(es, N - n + 1, N)) <= config.overlap
           S == {n \in 0 .. N : fits(n)}
           best == CHOOSE n \in 0 .. N : fits(n) /\ \A m \in n + 1 .. N : ~ fits(m)
<1>1. Overlap(es) = SubSeq(es, N - best + 1, N)
  BY DEF Overlap
<1>2. N \in Nat
  BY ListedAre
<1>3. fits(0)
  <2>1. SubSeq(es, N - 0 + 1, N) = <<>>
    BY <1>2, SubSeqEmpty
  <2>2. Weight(SubSeq(es, N - 0 + 1, N)) = 0
    BY <2>1, NoWeight, Zenon
  <2> HIDE DEF N
  <2> QED
    BY <2>2
<1> HIDE DEF fits
<1>4. \E n \in 0 .. N : fits(n) /\ \A m \in n + 1 .. N : ~ fits(m)
  <2>1. S \in SUBSET Int /\ S # {} /\ S \subseteq 0 .. N
    BY <1>2, <1>3
  <2>2. IsFiniteSet(S)
    <3>1. IsFiniteSet(0 .. N)
      BY <1>2, FS_Interval
    <3>2. S \in SUBSET (0 .. N)
      BY <2>1
    <3> HIDE DEF S
    <3> QED
      BY <3>1, <3>2, FS_Subset, Zenon
  <2> HIDE DEF S
  <2>3. PICK n \in S : \A i \in S : i <= n
    BY <2>1, <2>2, LeastAndGreatest
  <2>4. n \in 0 .. N /\ fits(n)
    BY DEF S
  <2>5. ASSUME NEW m \in n + 1 .. N
        PROVE  ~ fits(m)
    <3>1. m \in 0 .. N /\ ~ (m <= n)
      BY <1>2, <2>4
    <3>2. m \notin S
      BY <2>3, <3>1
    <3> QED
      BY <3>1, <3>2 DEF S
  <2> QED
    BY <2>4, <2>5
<1>5. best \in 0 .. N /\ fits(best)
  BY <1>4
<1> HIDE DEF best
<1>6. N - best + 1 \in 1 .. N + 1
  BY <1>2, <1>5
<1>7. Weight(Overlap(es)) <= config.overlap
  BY <1>1, <1>5 DEF fits
<1> QED
  BY <1>1, <1>6, <1>7

\* A section is one or more elements under one heading.
LEMMA SectionIs ==
    ASSUME NEW es, Listed(es), es # <<>>
    PROVE  /\ SectionLength(es) \in 1 .. Len(es)
           /\ \A k \in 1 .. SectionLength(es) : es[k].heading = es[1].heading
<1> DEFINE N == Len(es)
           same(n) == \A k \in 1 .. n : es[k].heading = es[1].heading
           S == {n \in 1 .. N : same(n)}
           right(n) == same(n) /\ (n < N => es[n + 1].heading # es[1].heading)
           chosen == CHOOSE n \in 1 .. N : right(n)
<1>1. SectionLength(es) = chosen
  BY DEF SectionLength
<1>2. N \in Nat \ {0}
  BY ListedAre
<1>3. \E n \in 1 .. N : right(n)
  <2>1. \A k \in 1 .. 1 : k = 1
    OBVIOUS
  <2>2. same(1) /\ 1 \in 1 .. N
    BY <1>2, <2>1
  <2> HIDE DEF same
  <2>3. S \in SUBSET Int /\ S # {} /\ S \subseteq 1 .. N
    BY <1>2, <2>2
  <2>4. IsFiniteSet(S)
    <3>1. IsFiniteSet(1 .. N)
      BY <1>2, FS_Interval
    <3>2. S \in SUBSET (1 .. N)
      BY <2>3
    <3> HIDE DEF S
    <3> QED
      BY <3>1, <3>2, FS_Subset, Zenon
  <2> HIDE DEF S
  <2>5. PICK n \in S : \A i \in S : i <= n
    BY <2>3, <2>4, LeastAndGreatest
  <2>6. n \in 1 .. N /\ same(n)
    BY DEF S
  <2>7. ASSUME n < N
        PROVE  es[n + 1].heading # es[1].heading
    <3>1. n + 1 \in 1 .. N /\ ~ (n + 1 <= n)
      BY <1>2, <2>6, <2>7
    <3>2. n + 1 \notin S
      BY <2>5, <3>1
    <3>3. ~ same(n + 1)
      BY <3>1, <3>2 DEF S
    <3>4. \A k \in 1 .. n + 1 : k \in 1 .. n \/ k = n + 1
      BY <2>6
    <3> QED
      BY <2>6, <3>3, <3>4 DEF same
  <2> QED
    BY <2>6, <2>7
<1>4. chosen \in 1 .. N /\ right(chosen)
  <2> HIDE DEF right
  <2> QED
    BY <1>3
<1> QED
  BY <1>1, <1>4

----------------------------------------------------------------------------
(* The candidates: what is right about the n-th of them, after o.          *)

ChunkRows == [index : Nat, text : Seq(Word), heading : Headings, parent : Nat, whole : BOOLEAN]

\* The bound on the size of a chunk that is searched.
Fits(text, d, s, c) ==
    LET n == Tokens(text)
    IN  /\ s = "fixed" => n <= c.size + c.min
        /\ s = "semantic" =>
             \/ n <= c.size
             \/ \E i \in DOMAIN d : \E k \in DOMAIN d[i].sentences :
                   text = d[i].sentences[k]
        /\ s \in {"recursive", "structural"} => n < 2 * (c.size + c.overlap)

\* h is the heading of the element that text begins in; a fixed window may have
\* that of the element before.
HeadingFits(text, h, d, s) ==
    LET first == text[1][1]
    IN  \/ h = d[first].heading
        \/ /\ s = "fixed"
           /\ first > 1 /\ text[1] = <<first, 1, 1>>
           /\ h = d[first - 1].heading

IsParent(o, p, text) ==
    o[p].whole /\ o[p].parent = 0 /\ WordsIn(text) \subseteq WordsIn(o[p].text)

Proper(o, x, n, d, s, c) ==
    /\ x.text # <<>> /\ Ascends(x.text, InOrder)
    /\ \A w \in WordsIn(x.text) : w[1] \in 1 .. Len(d)
    /\ HeadingFits(x.text, x.heading, d, s)
    /\ s # "fixed" => x.index = n - 1
    /\ x.parent # 0 => x.parent \in 1 .. n - 1 /\ IsParent(o, x.parent, x.text)
    /\ s = "structural" => \A w \in WordsIn(x.text) : d[w[1]].heading = x.heading
    /\ ~ x.whole => Fits(x.text, d, s, c)

AllProper(o, d, s, c) ==
    /\ o \in Seq(ChunkRows)
    /\ \A k \in 1 .. Len(o) : Proper(o, o[k], k, d, s, c)

\* w is a word of a candidate that is searched.
Searched(o, w) == \E k \in 1 .. Len(o) : ~ o[k].whole /\ w \in WordsIn(o[k].text)

\* Candidates are added at the end.
LEMMA CandidatesAdded ==
    ASSUME NEW o, NEW d, NEW s, NEW c, AllProper(o, d, s, c), NEW more \in Seq(ChunkRows),
           \A j \in 1 .. Len(more) : /\ Proper(o, more[j], Len(o) + j, d, s, c)
                                     /\ more[j].parent # 0 => more[j].parent \in 1 .. Len(o)
    PROVE  /\ AllProper(o \o more, d, s, c)
           /\ Len(o) \in Nat /\ Len(o \o more) = Len(o) + Len(more)
           /\ \A k \in 1 .. Len(o) : (o \o more)[k] = o[k] /\ k \in 1 .. Len(o \o more)
           /\ \A w : Searched(o, w) \/ Searched(more, w) => Searched(o \o more, w)
<1> DEFINE all == o \o more
<1>1. /\ o \in Seq(ChunkRows) /\ Len(o) \in Nat /\ Len(more) \in Nat
      /\ \A k \in 1 .. Len(o) : Proper(o, o[k], k, d, s, c)
  BY LenProperties DEF AllProper
<1>2. /\ all \in Seq(ChunkRows) /\ Len(all) = Len(o) + Len(more)
      /\ \A i \in 1 .. Len(o) + Len(more) : all[i] = IF i <= Len(o) THEN o[i] ELSE more[i - Len(o)]
  BY <1>1, ConcatProperties
<1> HIDE DEF all
<1>3. \A k \in 1 .. Len(o) : all[k] = o[k] /\ k \in 1 .. Len(all)
  BY SMTT(30), <1>1, <1>2
<1>4. \A j \in 1 .. Len(more) : all[Len(o) + j] = more[j] /\ Len(o) + j \in 1 .. Len(all)
  BY SMTT(30), <1>1, <1>2
<1>5. \A k \in 1 .. Len(all) : k \in 1 .. Len(o) \/ \E j \in 1 .. Len(more) : k = Len(o) + j
  <2> TAKE k \in 1 .. Len(all)
  <2>1. k \in 1 .. Len(o) \/ (k - Len(o) \in 1 .. Len(more) /\ k = Len(o) + (k - Len(o)))
    BY <1>1, <1>2
  <2> QED
    BY <2>1
<1>6. ASSUME NEW x, NEW n \in Nat, Proper(o, x, n, d, s, c),
             x.parent # 0 => x.parent \in 1 .. Len(o)
      PROVE  Proper(all, x, n, d, s, c)
  <2>1. ASSUME x.parent # 0
        PROVE  IsParent(all, x.parent, x.text)
    <3>1. IsParent(o, x.parent, x.text) /\ all[x.parent] = o[x.parent]
      BY <1>3, <1>6, <2>1 DEF Proper
    <3> QED
      BY <3>1 DEF IsParent
  <2> QED
    BY <1>6, <2>1 DEF Proper
<1>7. ASSUME NEW k \in 1 .. Len(o)
      PROVE  Proper(all, o[k], k, d, s, c)
  <2>1. Proper(o, o[k], k, d, s, c) /\ k \in Nat
    BY <1>1
  <2>2. o[k].parent # 0 => o[k].parent \in 1 .. Len(o)
    BY <1>1, <2>1 DEF Proper
  <2> QED
    BY <1>6, <2>1, <2>2
<1>8. ASSUME NEW j \in 1 .. Len(more)
      PROVE  Proper(all, more[j], Len(o) + j, d, s, c)
  <2>1. Len(o) + j \in Nat
    BY <1>1
  <2> QED
    BY <1>6, <2>1
<1>9. ASSUME NEW k \in 1 .. Len(all)
      PROVE  Proper(all, all[k], k, d, s, c)
  <2>1. CASE k \in 1 .. Len(o)
    BY <1>3, <1>7, <2>1
  <2>2. CASE \E j \in 1 .. Len(more) : k = Len(o) + j
    BY <1>4, <1>8, <2>2
  <2> QED
    BY <1>5, <2>1, <2>2
<1>10. AllProper(all, d, s, c)
  BY <1>2, <1>9 DEF AllProper
<1>11. \A w : Searched(o, w) \/ Searched(more, w) => Searched(all, w)
  BY <1>3, <1>4 DEF Searched
<1> QED
  BY <1>1, <1>2, <1>3, <1>10, <1>11 DEF all

\* One right candidate more, and all are right.
LEMMA CandidateAdded ==
    ASSUME NEW o, NEW d, NEW s, NEW c, AllProper(o, d, s, c), NEW x \in ChunkRows,
           Proper(o, x, Len(o) + 1, d, s, c)
    PROVE  /\ AllProper(Append(o, x), d, s, c)
           /\ Len(o) \in Nat /\ Len(Append(o, x)) = Len(o) + 1
           /\ Append(o, x)[Len(o) + 1] = x
           /\ \A k \in 1 .. Len(o) : Append(o, x)[k] = o[k] /\ k \in 1 .. Len(Append(o, x))
           /\ \A w : Searched(o, w) => Searched(Append(o, x), w)
           /\ ~ x.whole => \A w \in WordsIn(x.text) : Searched(Append(o, x), w)
<1>1. o \in Seq(ChunkRows) /\ Len(o) \in Nat
  BY LenProperties DEF AllProper
<1> DEFINE more == <<x>>
<1>2. more \in Seq(ChunkRows) /\ Len(more) = 1 /\ \A j \in 1 .. Len(more) : j = 1 /\ more[j] = x
  OBVIOUS
<1>3. Append(o, x) = o \o more
  BY <1>1, AppendIsConcat
<1>4. x.parent # 0 => x.parent \in 1 .. Len(o)
  BY <1>1 DEF Proper
<1> HIDE DEF more
<1>5. \A j \in 1 .. Len(more) : /\ Proper(o, more[j], Len(o) + j, d, s, c)
                                /\ more[j].parent # 0 => more[j].parent \in 1 .. Len(o)
  BY <1>2, <1>4
<1>6. /\ AllProper(o \o more, d, s, c)
      /\ Len(o \o more) = Len(o) + Len(more)
      /\ \A k \in 1 .. Len(o) : (o \o more)[k] = o[k] /\ k \in 1 .. Len(o \o more)
      /\ \A w : Searched(o, w) \/ Searched(more, w) => Searched(o \o more, w)
  <2>1. more \in Seq(ChunkRows)
    BY <1>2
  <2> QED
    BY <2>1, <1>5, CandidatesAdded
<1>7. Append(o, x)[Len(o) + 1] = x
  BY <1>1, AppendProperties
<1>8. ~ x.whole => \A w \in WordsIn(x.text) : Searched(more, w)
  <2>1. 1 \in 1 .. Len(more) /\ more[1] = x
    BY <1>2
  <2> QED
    BY <2>1 DEF Searched
<1> QED
  BY <1>1, <1>2, <1>3, <1>6, <1>7, <1>8

\* A candidate of the elements of b.
LEMMA CandidateOfList ==
    ASSUME NEW o, NEW n \in Nat \ {0}, NEW b, Listed(b), b # <<>>,
           NEW d, Titled(b, d), NEW s, NEW c, NEW p \in Nat, NEW v \in BOOLEAN,
           s # "fixed",
           p # 0 => p \in 1 .. n - 1 /\ IsParent(o, p, Joined(b)),
           s = "structural" => \A k \in 1 .. Len(b) : b[k].heading = b[1].heading,
           ~ v => Fits(Joined(b), d, s, c)
    PROVE  LET x == [index |-> n - 1, text |-> Joined(b), heading |-> Head(b).heading,
                     parent |-> p, whole |-> v]
           IN  x \in ChunkRows /\ Proper(o, x, n, d, s, c)
<1> DEFINE x == [index |-> n - 1, text |-> Joined(b), heading |-> Head(b).heading,
                 parent |-> p, whole |-> v]
           t == Joined(b)
<1>1. /\ t \in Seq(Word) /\ Ascends(t, InOrder)
      /\ \A w : w \in WordsIn(t) <=> Has(b, w)
      /\ t # <<>> /\ t[1] = Text(b[1])[1]
  BY JoinedList
<1>2. /\ Head(b) = b[1] /\ b[1] \in Listable /\ Text(b[1]) # <<>>
      /\ Len(b) \in Nat /\ Len(b) # 0
  BY ListedTail, ListedAre
<1>3. 1 \in 1 .. Len(b)
  BY <1>2
<1>4. b[1].heading \in Headings
  BY <1>2 DEF Listable
<1>5. /\ x.index = n - 1 /\ x.text = t /\ x.heading = b[1].heading
      /\ x.parent = p /\ x.whole = v
      /\ x = [index |-> n - 1, text |-> t, heading |-> b[1].heading, parent |-> p, whole |-> v]
  BY <1>2
<1> HIDE DEF t, x
<1>6. x \in ChunkRows
  BY <1>1, <1>4, <1>5 DEF ChunkRows
<1>7. \A w \in WordsIn(t) : \E k \in 1 .. Len(b) :
         w[1] \in 1 .. Len(d) /\ d[w[1]].heading = b[k].heading
  BY <1>1 DEF Has, Titled
<1>8. d[t[1][1]].heading = b[1].heading
  <2>1. Text(b[1]) \in Seq(Word)
    BY <1>2, TextType
  <2>2. 1 \in 1 .. Len(Text(b[1]))
    BY <1>2, <2>1, LenProperties, EmptySeq
  <2>3. Text(b[1])[1] \in WordsIn(Text(b[1]))
    BY <2>1, <2>2, WordsAre
  <2> QED
    BY <1>1, <1>3, <2>3 DEF Titled
<1>9. HeadingFits(t, b[1].heading, d, s)
  BY <1>8 DEF HeadingFits
<1>10. s = "structural" => \A w \in WordsIn(t) : d[w[1]].heading = b[1].heading
  BY <1>7
<1>11. \A w \in WordsIn(t) : w[1] \in 1 .. Len(d)
  BY <1>7
<1>12. Proper(o, x, n, d, s, c)
  BY <1>1, <1>5, <1>9, <1>10, <1>11 DEF Proper, t
<1> QED
  BY <1>6, <1>12 DEF x

\* u begins with o.
Extends(u, o) == \A k \in 1 .. Len(o) : u[k] = o[k] /\ k \in 1 .. Len(u)

\* What flush relies on.
FlushReady ==
    /\ AllProper(out, doc, strategy, config)
    /\ strategy # "fixed"
    /\ Listed(buffer) /\ Titled(buffer, doc)
    /\ parent \in Nat
    /\ buffer # <<>> =>
         /\ parent # 0 => parent \in 1 .. Len(out) /\ IsParent(out, parent, Joined(buffer))
         /\ strategy = "structural" =>
              \A k \in 1 .. Len(buffer) : buffer[k].heading = buffer[1].heading
         /\ Fits(Joined(buffer), doc, strategy, config)

\* Turning the buffer into chunks adds right candidates with all of its words.
LEMMA FlushedIs ==
    ASSUME FlushReady
    PROVE  /\ AllProper(Flushed, doc, strategy, config)
           /\ Len(out) \in Nat /\ Len(Flushed) \in Nat
           /\ Extends(Flushed, out)
           /\ \A w : Searched(out, w) \/ Has(buffer, w) => Searched(Flushed, w)
<1>1. out \in Seq(ChunkRows) /\ Len(out) \in Nat
  BY LenProperties DEF FlushReady, AllProper
<1>2. CASE buffer = <<>>
  <2>1. Flushed = out
    BY <1>2 DEF Flushed
  <2>2. \A w : ~ Has(buffer, w)
    <3>1. Len(buffer) = 0
      BY <1>2
    <3> QED
      BY <3>1 DEF Has
  <2> QED
    BY <1>1, <2>1, <2>2 DEF FlushReady, Extends
<1>3. CASE buffer # <<>>
  <2> DEFINE x == Candidate(Joined(buffer), Head(buffer).heading, parent, FALSE)
             n == Len(out) + 1
  <2>1. /\ x = [index |-> n - 1, text |-> Joined(buffer), heading |-> Head(buffer).heading,
                parent |-> parent, whole |-> FALSE]
        /\ n \in Nat \ {0} /\ n - 1 = Len(out)
    BY <1>1 DEF Candidate
  <2>2. Flushed = Append(out, x)
    BY <1>3 DEF Flushed
  <2>3. x.text = Joined(buffer) /\ ~ x.whole
    BY DEF Candidate
  <2> HIDE DEF x, n
  <2>4. x \in ChunkRows /\ Proper(out, x, n, doc, strategy, config)
    <3> DEFINE b == buffer
               r == [index |-> n - 1, text |-> Joined(b), heading |-> Head(b).heading,
                     parent |-> parent, whole |-> FALSE]
    <3>1. /\ Listed(b) /\ b # <<>> /\ Titled(b, doc) /\ strategy # "fixed"
          /\ parent \in Nat /\ FALSE \in BOOLEAN
          /\ parent # 0 => parent \in 1 .. n - 1 /\ IsParent(out, parent, Joined(b))
          /\ strategy = "structural" => \A k \in 1 .. Len(b) : b[k].heading = b[1].heading
          /\ ~ FALSE => Fits(Joined(b), doc, strategy, config)
      BY <1>3, <2>1 DEF FlushReady
    <3> HIDE DEF b
    <3>2. r \in ChunkRows /\ Proper(out, r, n, doc, strategy, config)
      BY <2>1, <3>1, CandidateOfList
    <3>3. x = r
      BY <2>1 DEF b
    <3> HIDE DEF r
    <3> QED
      BY <3>2, <3>3
  <2>5. /\ AllProper(Append(out, x), doc, strategy, config)
        /\ Len(Append(out, x)) = Len(out) + 1
        /\ \A k \in 1 .. Len(out) : Append(out, x)[k] = out[k] /\ k \in 1 .. Len(Append(out, x))
        /\ \A w : Searched(out, w) => Searched(Append(out, x), w)
        /\ \A w \in WordsIn(x.text) : Searched(Append(out, x), w)
    BY <2>3, <2>4, CandidateAdded DEF FlushReady, n
  <2>6. \A w : Has(buffer, w) => w \in WordsIn(x.text)
    BY <2>3, JoinedList DEF FlushReady
  <2> QED
    BY <1>1, <2>2, <2>5, <2>6 DEF Extends
<1> QED
  BY <1>2, <1>3

\* The candidates made of pieces ps after the first n.
PieceRows(n, ps, h, p) ==
    [k \in DOMAIN ps |->
        [index |-> n + k - 1, text |-> ps[k], heading |-> h, parent |-> p, whole |-> FALSE]]

\* The words of e are under its heading in d.
InDocument(e, d) ==
    \A w \in WordsIn(Text(e)) : w[1] \in 1 .. Len(d) /\ d[w[1]].heading = e.heading

\* The pieces of an element that is cut.
LEMMA PiecesAdded ==
    ASSUME NEW o, NEW d, NEW s \in {"recursive", "structural"}, NEW c,
           c.size \in Nat \ {0}, c.overlap \in Nat,
           AllProper(o, d, s, c),
           NEW e \in Listable, Ascends(Text(e), InOrder),
           InDocument(e, d),
           NEW p \in Nat, p # 0 => p \in 1 .. Len(o) /\ IsParent(o, p, Text(e))
    PROVE  LET new == o \o PieceRows(Len(o), Pieces(e, c.size), e.heading, p)
           IN  /\ AllProper(new, d, s, c)
               /\ Len(o) \in Nat /\ Len(new) \in Nat
               /\ Extends(new, o)
               /\ \A w : Searched(o, w) \/ w \in WordsIn(Text(e)) => Searched(new, w)
<1> DEFINE ps == Pieces(e, c.size)
           row(k) == [index |-> Len(o) + k - 1, text |-> ps[k], heading |-> e.heading,
                      parent |-> p, whole |-> FALSE]
           more == PieceRows(Len(o), ps, e.heading, p)
<1>0. Len(o) \in Nat
  BY LenProperties DEF AllProper
<1>1. ps \in Seq(FitPieces(Word, c.size)) /\ FlattenSeq(ps) = Text(e)
  BY PiecesAreWhole
<1> HIDE DEF ps
<1>2. ps \in Seq(Seq(Word))
  BY <1>1, PiecesAreSequences
<1>3. /\ \A k \in 1 .. Len(ps) : Ascends(ps[k], InOrder) /\ WordsIn(ps[k]) \subseteq WordsIn(Text(e))
      /\ \A w \in WordsIn(Text(e)) : \E k \in 1 .. Len(ps) : w \in WordsIn(ps[k])
  BY <1>1, <1>2, PiecesOfText
<1>4. \A k \in 1 .. Len(ps) : ps[k] \in Seq(Word) /\ ps[k] # <<>> /\ Tokens(ps[k]) <= c.size
  BY <1>1, ElementOfSeq DEF FitPieces
<1>5. Len(ps) \in Nat /\ DOMAIN ps = 1 .. Len(ps)
  BY <1>2, LenProperties
<1>6. ASSUME NEW k \in 1 .. Len(ps)
      PROVE  /\ more[k] = row(k)
             /\ row(k) \in ChunkRows
             /\ Proper(o, row(k), Len(o) + k, d, s, c)
             /\ row(k).parent # 0 => row(k).parent \in 1 .. Len(o)
             /\ ~ row(k).whole /\ row(k).text = ps[k]
  <2>1. /\ row(k).index = Len(o) + k - 1 /\ row(k).text = ps[k] /\ row(k).heading = e.heading
        /\ row(k).parent = p /\ row(k).whole = FALSE
    OBVIOUS
  <2>0. more[k] = row(k)
    BY <1>5 DEF PieceRows
  <2>2. Len(o) + k - 1 \in Nat /\ e.heading \in Headings
    BY <1>0 DEF Listable
  <2>3. row(k) \in ChunkRows
    BY <1>4, <2>2 DEF ChunkRows
  <2> HIDE DEF row
  <2>4. ps[k][1] \in WordsIn(ps[k])
    BY <1>4, WordsAre, LenProperties, EmptySeq
  <2>5. \A w \in WordsIn(ps[k]) : w[1] \in 1 .. Len(d) /\ d[w[1]].heading = e.heading
    BY <1>3 DEF InDocument
  <2>6. HeadingFits(ps[k], e.heading, d, s)
    BY <2>4, <2>5 DEF HeadingFits
  <2>7. Fits(ps[k], d, s, c)
    <3>1. Tokens(ps[k]) \in Nat /\ Tokens(ps[k]) <= c.size
      BY <1>4, TokensAre
    <3>2. Tokens(ps[k]) < 2 * (c.size + c.overlap)
      BY <3>1
    <3> QED
      BY <3>2 DEF Fits
  <2>8. p # 0 => p \in 1 .. (Len(o) + k) - 1 /\ IsParent(o, p, ps[k])
    BY <1>0, <1>3 DEF IsParent
  <2>9. (Len(o) + k) - 1 = Len(o) + k - 1
    OBVIOUS
  <2>10. Proper(o, row(k), Len(o) + k, d, s, c)
    BY <1>3, <1>4, <2>1, <2>5, <2>6, <2>7, <2>8, <2>9 DEF Proper
  <2> QED
    BY <2>0, <2>1, <2>3, <2>10
<1>7. more \in Seq(ChunkRows) /\ Len(more) = Len(ps) /\ \A k \in 1 .. Len(ps) : more[k] = row(k)
  <2>1. more = [k \in 1 .. Len(ps) |-> row(k)]
    BY <1>5 DEF PieceRows
  <2> HIDE DEF row, more
  <2> QED
    BY <1>5, <1>6, <2>1
<1> HIDE DEF row
<1> HIDE DEF more
<1>8. \A j \in 1 .. Len(more) : /\ Proper(o, more[j], Len(o) + j, d, s, c)
                                /\ more[j].parent # 0 => more[j].parent \in 1 .. Len(o)
  BY <1>6, <1>7
<1>9. /\ AllProper(o \o more, d, s, c)
      /\ Len(o \o more) = Len(o) + Len(more)
      /\ \A k \in 1 .. Len(o) : (o \o more)[k] = o[k] /\ k \in 1 .. Len(o \o more)
      /\ \A w : Searched(o, w) \/ Searched(more, w) => Searched(o \o more, w)
  <2>1. more \in Seq(ChunkRows)
    BY <1>7
  <2> QED
    BY <2>1, <1>8, CandidatesAdded
<1>10. ASSUME NEW w \in WordsIn(Text(e))
       PROVE  Searched(more, w)
  <2>1. PICK k \in 1 .. Len(ps) : w \in WordsIn(ps[k])
    BY <1>3
  <2>2. k \in 1 .. Len(more) /\ ~ more[k].whole /\ more[k].text = ps[k]
    BY <1>6, <1>7
  <2> QED
    BY <2>1, <2>2 DEF Searched
<1>11. Len(o \o more) \in Nat
  BY <1>0, <1>5, <1>7, <1>9
<1> QED
  BY <1>0, <1>9, <1>10, <1>11 DEF more, row, ps, Extends

----------------------------------------------------------------------------
(* The invariant of the chunkers                                           *)

ParsedDoc == [i \in DOMAIN elements |-> Element(elements, i)]

\* The elements of the buffer and to come are of the section of the candidate p.
InSection(o, p, b, t) ==
    /\ p \in 1 .. Len(o)
    /\ o[p].whole /\ o[p].parent = 0
    /\ \A w : Has(b, w) \/ Has(t, w) => w \in WordsIn(o[p].text)
    /\ \A k \in 1 .. Len(b) : b[k].heading = o[p].heading
    /\ \A k \in 1 .. Len(t) : t[k].heading = o[p].heading

\* No word of d has been lost.
Covered(d, o, b, t, r) ==
    \A w : Has(d, w) => Searched(o, w) \/ Has(b, w) \/ Has(t, w) \/ Has(r, w)

\* The windows begin one step apart and end at the budget or with the text,
\* the last one alone at the end of the text.
WindowsOf(ws, step, size, total) ==
    /\ ws \in Seq(Nat \X Nat)
    /\ \A k \in 1 .. Len(ws) :
         /\ ws[k][1] = (k - 1) * step
         /\ ws[k][2] = IF ws[k][1] + size < total THEN ws[k][1] + size ELSE total
         /\ ws[k][1] < total
         /\ k < Len(ws) => ws[k][2] < total

\* What the loops that remain work on, and how large a buffer gets.
ListsInv ==
    /\ Gathered(buffer, todo, doc)
    /\ Listed(rest) /\ Titled(rest, doc)
    /\ loop \notin {"recursive", "semantic"} => buffer = <<>> /\ todo = <<>>
    /\ loop = "done" \/ strategy # "structural" => rest = <<>>
    /\ loop = "recursive" => Weight(buffer) <= config.size + config.overlap
    /\ loop = "semantic" =>
         /\ \A k \in 1 .. Len(buffer) : IsSentence(buffer[k], doc)
         /\ \A k \in 1 .. Len(todo) : IsSentence(todo[k], doc)
         /\ Len(buffer) \in {0, 1} \/ Tokens(Joined(buffer)) <= config.size

\* What has come of the document so far.
RowsInv ==
    /\ AllProper(out, doc, strategy, config)
    /\ strategy = "fixed" =>
         \A k, l \in 1 .. Len(out) : k < l => out[k].index # out[l].index
    /\ strategy # "fixed" \/ loop = "done" => Covered(doc, out, buffer, todo, rest)
    /\ parent \in Nat
    /\ strategy # "structural" => parent = 0
    /\ loop = "recursive" /\ strategy = "structural" => InSection(out, parent, buffer, todo)

FixedInv ==
    loop = "fixed" =>
        /\ doc # <<>> /\ out = <<>>
        /\ WindowsOf(windows, Step, config.size, Total)

Working ==
    /\ phase = "parsed"
    /\ doc = ParsedDoc /\ Document(doc)
    /\ strategy \in Strategies /\ config \in Configs
    /\ \/ loop = strategy
       \/ loop = "done"
       \/ loop = "recursive" /\ strategy = "structural"
    /\ ListsInv /\ RowsInv /\ FixedInv

ChunkerInv ==
    /\ loop = "idle" => Idle
    /\ loop # "idle" => Working

\* What the configuration gives.
LEMMA ConfigIs ==
    ASSUME Working
    PROVE  config.size \in Nat \ {0} /\ config.overlap \in Nat /\ config.min \in Nat
  BY ConfigsAreValid DEF Working

\* The elements of c are some of b and t.
TakenOf(c, b, t) ==
    \A k \in 1 .. Len(c) :
        \/ \E l \in 1 .. Len(b) : c[k] = b[l]
        \/ \E l \in 1 .. Len(t) : c[k] = t[l]

\* The section goes on while elements are taken in and out of the buffer.
LEMMA SectionGoesOn ==
    ASSUME NEW o, NEW p, NEW b, NEW t, InSection(o, p, b, t),
           NEW u, Extends(u, o), NEW c, TakenOf(c, b, t), NEW v, TakenOf(v, t, t)
    PROVE  InSection(u, p, c, v)
<1>1. p \in 1 .. Len(u) /\ u[p] = o[p]
  BY DEF InSection, Extends, TakenOf
<1>2. \A k \in 1 .. Len(c) : c[k].heading = o[p].heading
  BY SMTT(30) DEF InSection, Extends, TakenOf
<1>3. \A k \in 1 .. Len(v) : v[k].heading = o[p].heading
  BY DEF InSection, Extends, TakenOf
<1>4. \A w : Has(v, w) => Has(t, w)
  BY DEF Has, TakenOf
<1>5. \A w : Has(c, w) => Has(b, w) \/ Has(t, w)
  BY DEF Has, TakenOf
<1> QED
  BY <1>1, <1>2, <1>3, <1>4, <1>5, Zenon DEF InSection

\* The buffer may become a chunk at any time.
LEMMA ReadyToFlush ==
    ASSUME Working, loop \in {"recursive", "semantic"}
    PROVE  FlushReady
<1>1. /\ AllProper(out, doc, strategy, config)
      /\ Listed(buffer) /\ Titled(buffer, doc)
      /\ parent \in Nat
      /\ strategy # "structural" => parent = 0
      /\ loop = "recursive" /\ strategy = "structural" => InSection(out, parent, buffer, todo)
  BY DEF Working, ListsInv, RowsInv, Gathered
<1>2. /\ loop = "recursive" => strategy \in {"recursive", "structural"}
      /\ loop = "semantic" => strategy = "semantic"
  BY DEF Working
<1>3. /\ config.size \in Nat \ {0} /\ config.overlap \in Nat
  BY ConfigIs
<1>4. /\ Joined(buffer) \in Seq(Word)
      /\ \A w : w \in WordsIn(Joined(buffer)) <=> Has(buffer, w)
      /\ buffer # <<>> => Joined(buffer) # <<>>
  BY <1>1, JoinedList
<1>5. /\ Len(buffer) \in Nat /\ buffer = <<>> <=> Len(buffer) = 0
      /\ buffer \in Seq(Listable)
  BY <1>1, ListedAre
<1>6. ASSUME buffer # <<>>, parent # 0
      PROVE  parent \in 1 .. Len(out) /\ IsParent(out, parent, Joined(buffer))
  <2>1. InSection(out, parent, buffer, todo)
    BY <1>1, <1>2, <1>6
  <2> QED
    BY <1>4, <2>1 DEF InSection, IsParent
<1>7. ASSUME buffer # <<>>, strategy = "structural"
      PROVE  \A k \in 1 .. Len(buffer) : buffer[k].heading = buffer[1].heading
  <2>1. InSection(out, parent, buffer, todo)
    BY <1>1, <1>2, <1>7
  <2>2. 1 \in 1 .. Len(buffer)
    BY <1>5, <1>7
  <2> QED
    BY <2>1, <2>2 DEF InSection
<1>8. ASSUME buffer # <<>>
      PROVE  Fits(Joined(buffer), doc, strategy, config)
  <2>1. CASE loop = "recursive"
    <3>1. /\ Len(Joined(buffer)) <= Weight(buffer) /\ Weight(buffer) \in Nat
          /\ Weight(buffer) <= config.size + config.overlap
      BY <1>5, <2>1, JoinedWeighs DEF Working, ListsInv
    <3>2. Tokens(Joined(buffer)) = 2 * Len(Joined(buffer)) - 1 /\ Len(Joined(buffer)) \in Nat
      BY <1>4, <1>8, TokensAre
    <3>3. Tokens(Joined(buffer)) < 2 * (config.size + config.overlap)
      BY <1>3, <3>1, <3>2
    <3> QED
      BY <1>2, <2>1, <3>3 DEF Fits
  <2>2. CASE loop = "semantic"
    <3>1. /\ strategy = "semantic"
          /\ \A k \in 1 .. Len(buffer) : IsSentence(buffer[k], doc)
          /\ Len(buffer) = 1 \/ Tokens(Joined(buffer)) <= config.size
      BY <1>2, <1>5, <1>8, <2>2 DEF Working, ListsInv
    <3>2. ASSUME Len(buffer) = 1
          PROVE  \E i \in DOMAIN doc : \E k \in DOMAIN doc[i].sentences :
                    Joined(buffer) = doc[i].sentences[k]
      <4>1. 1 \in 1 .. Len(buffer) /\ buffer[1] \in Listable
        BY <1>5, <3>2, ElementOfSeq
      <4>2. buffer = <<buffer[1]>>
        BY <1>5, <3>2
      <4>3. Joined(<<buffer[1]>>) = Text(buffer[1])
        BY <4>1, JustOne
      <4>4. IsSentence(buffer[1], doc)
        BY <3>1, <4>1
      <4>5. Joined(buffer) = Text(buffer[1])
        BY <4>2, <4>3
      <4> QED
        BY <4>4, <4>5 DEF IsSentence
    <3>3. strategy = "semantic" =>
            \/ Tokens(Joined(buffer)) <= config.size
            \/ \E i \in DOMAIN doc : \E k \in DOMAIN doc[i].sentences :
                  Joined(buffer) = doc[i].sentences[k]
      BY <3>1, <3>2
    <3> QED
      BY <3>1, <3>3 DEF Fits
  <2> QED
    BY <2>1, <2>2
<1> QED
  BY <1>1, <1>2, <1>6, <1>7, <1>8 DEF FlushReady

\* The configuration, the document and the parser's state are left alone.
SameJob == UNCHANGED <<doc, strategy, config, parserVars>>

\* A step that leaves the job alone leaves its document alone.
LEMMA SameDocument ==
    ASSUME Working, SameJob
    PROVE  /\ phase' = "parsed" /\ doc' = ParsedDoc' /\ Document(doc')
           /\ strategy' \in Strategies /\ config' \in Configs
           /\ doc' = doc /\ strategy' = strategy /\ config' = config
  BY DEF Working, SameJob, ParsedDoc, parserVars

\* A list the loop takes an element of, with nothing dropped from the buffer,
\* some of it, or all.
LEMMA TakeNext ==
    ASSUME Working, loop \in {"recursive", "semantic"}, todo # <<>>,
           NEW m \in 1 .. Len(buffer) + 1
    PROVE  LET kept == SubSeq(buffer, m, Len(buffer))
               more == Append(kept, Head(todo))
               e == Head(todo)
           IN  /\ e \in Listable /\ Text(e) # <<>> /\ Ascends(Text(e), InOrder)
               /\ InDocument(e, doc)
               /\ \E l \in 1 .. Len(todo) : e = todo[l]
               /\ Gathered(kept, Tail(todo), doc) /\ Gathered(more, Tail(todo), doc)
               /\ kept \in Seq(Listable)
               /\ \A w : Has(todo, w) <=> w \in WordsIn(Text(e)) \/ Has(Tail(todo), w)
               /\ \A w : Has(more, w) <=> Has(kept, w) \/ w \in WordsIn(Text(e))
               /\ TakenOf(kept, buffer, todo) /\ TakenOf(more, buffer, todo)
               /\ TakenOf(Tail(todo), todo, todo)
               /\ Len(more) = Len(buffer) - m + 2
<1> DEFINE kept == SubSeq(buffer, m, Len(buffer))
           more == Append(kept, Head(todo))
           e == Head(todo)
<1>0. Gathered(buffer, todo, doc)
  BY DEF Working, ListsInv
<1>1. /\ Head(todo) = todo[1] /\ 1 \in 1 .. Len(todo) /\ todo[1] \in Listable
      /\ Gathered(kept, Tail(todo), doc)
      /\ Gathered(more, Tail(todo), doc)
      /\ \A k \in 1 .. Len(kept) : \E l \in 1 .. Len(buffer) : kept[k] = buffer[l]
      /\ \A k \in 1 .. Len(more) : more[k] = todo[1] \/ \E l \in 1 .. Len(buffer) : more[k] = buffer[l]
      /\ \A k \in 1 .. Len(Tail(todo)) : \E l \in 1 .. Len(todo) : Tail(todo)[k] = todo[l]
      /\ Len(kept) = Len(buffer) - m + 1 /\ Len(more) = Len(buffer) - m + 2
      /\ Len(buffer) \in Nat
      /\ \A w : Has(todo, w) <=> w \in WordsIn(Text(todo[1])) \/ Has(Tail(todo), w)
      /\ \A w : Has(kept, w) => Has(buffer, w)
      /\ \A w : Has(more, w) <=> Has(kept, w) \/ w \in WordsIn(Text(todo[1]))
  BY <1>0, NextGathered
<1> HIDE DEF kept, more
<1>2. kept \in Seq(Listable)
  BY <1>1, ListedAre DEF Gathered
<1>3. Text(todo[1]) # <<>> /\ Ascends(Text(todo[1]), InOrder)
  BY <1>0, ListedTail DEF Gathered
<1>4. \A w \in WordsIn(Text(todo[1])) : w[1] \in 1 .. Len(doc) /\ doc[w[1]].heading = todo[1].heading
  BY <1>0, <1>1 DEF Gathered, Titled
<1>5. /\ TakenOf(kept, buffer, todo) /\ TakenOf(more, buffer, todo)
      /\ TakenOf(Tail(todo), todo, todo)
  BY <1>1 DEF TakenOf
<1>6. \E l \in 1 .. Len(todo) : e = todo[l]
  BY <1>1
<1>7. e = todo[1] /\ InDocument(e, doc)
  BY <1>1, <1>4 DEF InDocument
<1> HIDE DEF e
<1> QED
  BY <1>1, <1>2, <1>3, <1>5, <1>6, <1>7 DEF kept, more, e

\* No word is lost while elements move from the ones to come to the candidates.
LEMMA StillCovered ==
    ASSUME NEW d, NEW o, NEW b, NEW t, NEW r, Covered(d, o, b, t, r),
           NEW u, NEW c, NEW v, NEW q,
           \A w : Searched(o, w) => Searched(u, w),
           \A w : Has(b, w) => Searched(u, w) \/ Has(c, w),
           \A w : Has(t, w) => Searched(u, w) \/ Has(c, w) \/ Has(v, w),
           \A w : Has(r, w) => Searched(u, w) \/ Has(v, w) \/ Has(q, w)
    PROVE  Covered(d, u, c, v, q)
  BY DEF Covered

\* An element too large for a chunk is cut into pieces.
LEMMA SplitStep ==
    ASSUME Working, SplitElement, UNCHANGED parserVars
    PROVE  Working'
<1> DEFINE e == Head(todo)
           new == Flushed \o PieceRows(Len(Flushed), Pieces(e, config.size), e.heading, parent)
<1>1. /\ loop = "recursive" /\ todo # <<>> /\ out' = new
      /\ buffer' = Overlap(buffer) /\ todo' = Tail(todo)
      /\ loop' = loop /\ rest' = rest /\ parent' = parent
      /\ SameJob
  BY DEF SplitElement, SameJob, PieceRows
<1>2. /\ config.size \in Nat \ {0} /\ config.overlap \in Nat
      /\ strategy \in {"recursive", "structural"}
      /\ parent \in Nat /\ (strategy # "structural" => parent = 0)
      /\ Covered(doc, out, buffer, todo, rest)
      /\ strategy = "structural" => InSection(out, parent, buffer, todo)
      /\ Listed(rest) /\ Titled(rest, doc) /\ (strategy # "structural" => rest = <<>>)
      /\ Listed(buffer)
  BY <1>1, ConfigIs DEF Working, RowsInv, ListsInv, Gathered
<1>3. /\ AllProper(Flushed, doc, strategy, config)
      /\ Len(out) \in Nat /\ Len(Flushed) \in Nat
      /\ Extends(Flushed, out)
      /\ \A w : Searched(out, w) \/ Has(buffer, w) => Searched(Flushed, w)
  BY <1>1, ReadyToFlush, FlushedIs
<1>4. PICK m \in 1 .. Len(buffer) + 1 :
         /\ Overlap(buffer) = SubSeq(buffer, m, Len(buffer))
         /\ Weight(Overlap(buffer)) <= config.overlap
  BY <1>2, OverlapIs
<1>5. /\ e \in Listable /\ Ascends(Text(e), InOrder) /\ InDocument(e, doc)
      /\ \E l \in 1 .. Len(todo) : e = todo[l]
      /\ Gathered(Overlap(buffer), Tail(todo), doc)
      /\ Overlap(buffer) \in Seq(Listable)
      /\ \A w : Has(todo, w) <=> w \in WordsIn(Text(e)) \/ Has(Tail(todo), w)
      /\ TakenOf(Overlap(buffer), buffer, todo) /\ TakenOf(Tail(todo), todo, todo)
  BY <1>1, <1>4, TakeNext
<1>6. ASSUME parent # 0
      PROVE  parent \in 1 .. Len(Flushed) /\ IsParent(Flushed, parent, Text(e))
  <2>1. InSection(out, parent, buffer, todo)
    BY <1>2, <1>6
  <2>2. parent \in 1 .. Len(out) /\ Flushed[parent] = out[parent] /\ parent \in 1 .. Len(Flushed)
    BY <1>3, <2>1 DEF InSection, Extends
  <2> QED
    BY <1>5, <2>1, <2>2 DEF InSection, IsParent
<1> HIDE DEF e
<1>7. /\ AllProper(new, doc, strategy, config)
      /\ Extends(new, Flushed)
      /\ \A w : Searched(Flushed, w) \/ w \in WordsIn(Text(e)) => Searched(new, w)
  <2> DEFINE o == Flushed
             c == config
             s == strategy
             p == parent
             all == o \o PieceRows(Len(o), Pieces(e, c.size), e.heading, p)
  <2>1. /\ s \in {"recursive", "structural"} /\ c.size \in Nat \ {0} /\ c.overlap \in Nat
        /\ AllProper(o, doc, s, c) /\ e \in Listable /\ Ascends(Text(e), InOrder)
        /\ InDocument(e, doc)
        /\ p \in Nat /\ (p # 0 => p \in 1 .. Len(o) /\ IsParent(o, p, Text(e)))
    BY <1>2, <1>3, <1>5, <1>6
  <2> HIDE DEF o, c, s, p
  <2>2. /\ AllProper(all, doc, s, c) /\ Extends(all, o)
        /\ \A w : Searched(o, w) \/ w \in WordsIn(Text(e)) => Searched(all, w)
    BY <2>1, PiecesAdded
  <2> QED
    BY <2>2 DEF o, c, s, p
<1> HIDE DEF new
<1>8. ListsInv'
  <2>1. Gathered(buffer', todo', doc') /\ Listed(rest') /\ Titled(rest', doc')
    BY <1>1, <1>2, <1>5 DEF SameJob
  <2>2. Weight(buffer') <= config'.size + config'.overlap
    <3>1. Weight(buffer') \in Nat /\ Weight(buffer') <= config.overlap
      BY <1>1, <1>4, <1>5, JoinedWeighs
    <3> QED
      BY <1>1, <1>2, <3>1 DEF SameJob
  <2> QED
    BY <1>1, <1>2, <2>1, <2>2 DEF ListsInv, SameJob
<1>9. RowsInv'
  <2>1. Covered(doc', out', buffer', todo', rest')
    <3>1. \A w : Searched(out, w) => Searched(new, w)
      BY <1>3, <1>7
    <3>2. \A w : Has(buffer, w) => Searched(new, w)
      BY <1>3, <1>7
    <3>3. \A w : Has(todo, w) => Searched(new, w) \/ Has(Tail(todo), w)
      BY <1>5, <1>7
    <3>4. Covered(doc, new, Overlap(buffer), Tail(todo), rest)
      BY <1>2, <3>1, <3>2, <3>3, StillCovered
    <3> QED
      BY <1>1, <3>4 DEF SameJob
  <2>2. strategy = "structural" => InSection(out', parent', buffer', todo')
    <3> SUFFICES ASSUME strategy = "structural"
                 PROVE  InSection(new, parent, Overlap(buffer), Tail(todo))
      BY <1>1
    <3>1. Extends(new, out)
      BY <1>3, <1>7 DEF Extends
    <3>2. InSection(out, parent, buffer, todo)
      BY <1>2
    <3> QED
      BY <1>5, <3>1, <3>2, SectionGoesOn
  <2>3. AllProper(out', doc', strategy', config')
    BY <1>1, <1>7 DEF SameJob
  <2> QED
    BY <1>1, <1>2, <2>1, <2>2, <2>3 DEF RowsInv, SameJob
<1>10. FixedInv'
  BY <1>1 DEF FixedInv
<1> QED
  BY <1>1, <1>2, <1>8, <1>9, <1>10, SameDocument DEF Working

\* What the invariant says to the steps that end a loop.
LEMMA WorkingFacts ==
    ASSUME Working
    PROVE  /\ config.size \in Nat \ {0} /\ config.overlap \in Nat
           /\ loop = "recursive" => strategy \in {"recursive", "structural"}
           /\ loop = "semantic" => strategy = "semantic"
           /\ loop = "structural" => strategy = "structural"
           /\ loop = "fixed" => strategy = "fixed"
           /\ parent \in Nat /\ (strategy # "structural" => parent = 0)
           /\ strategy # "fixed" => Covered(doc, out, buffer, todo, rest)
           /\ loop = "recursive" /\ strategy = "structural" => InSection(out, parent, buffer, todo)
           /\ AllProper(out, doc, strategy, config)
           /\ Listed(rest) /\ Titled(rest, doc) /\ (strategy # "structural" => rest = <<>>)
           /\ Gathered(buffer, todo, doc)
           /\ Listed(buffer) /\ Listed(todo) /\ Titled(buffer, doc)
           /\ buffer \in Seq(Listable) /\ Len(buffer) \in Nat
           /\ buffer = <<>> <=> Len(buffer) = 0
           /\ SubSeq(buffer, 1, Len(buffer)) = buffer
           /\ SubSeq(buffer, Len(buffer) + 1, Len(buffer)) = <<>>
<1>1. Gathered(buffer, todo, doc) /\ Listed(buffer) /\ Listed(todo) /\ Titled(buffer, doc)
  BY DEF Working, ListsInv, Gathered
<1>2. /\ buffer \in Seq(Listable) /\ Len(buffer) \in Nat
      /\ buffer = <<>> <=> Len(buffer) = 0
  BY <1>1, ListedAre
<1>3. SubSeq(buffer, 1, Len(buffer)) = buffer
  BY <1>2, SubSeqFull
<1>4. SubSeq(buffer, Len(buffer) + 1, Len(buffer)) = <<>>
  BY <1>2, SubSeqEmpty
<1> QED
  BY <1>1, <1>2, <1>3, <1>4, ConfigIs DEF Working, RowsInv, ListsInv

\* An empty list has no word.
LEMMA NothingThere == \A w : ~ Has(<<>>, w)
<1>1. Len(<<>>) = 0
  OBVIOUS
<1> QED
  BY <1>1 DEF Has

\* The next element joins what is in the buffer, or what is left of it.
LEMMA BufferStep ==
    ASSUME Working, BufferElement, UNCHANGED parserVars
    PROVE  Working'
<1> DEFINE e == Head(todo)
           flushes == Weight(buffer) + Weight(<<Head(todo)>>) > config.size
<1>1. /\ loop = "recursive" /\ todo # <<>> /\ ~ Oversized(e)
      /\ todo' = Tail(todo)
      /\ loop' = loop /\ rest' = rest /\ parent' = parent
      /\ SameJob
      /\ flushes => out' = Flushed /\ buffer' = Append(Overlap(buffer), e)
      /\ ~ flushes => out' = out /\ buffer' = Append(buffer, e)
  BY DEF BufferElement, SameJob
<1>2. /\ config.size \in Nat \ {0} /\ config.overlap \in Nat
      /\ strategy \in {"recursive", "structural"}
      /\ parent \in Nat /\ (strategy # "structural" => parent = 0)
      /\ Covered(doc, out, buffer, todo, rest)
      /\ strategy = "structural" => InSection(out, parent, buffer, todo)
      /\ Listed(rest) /\ Titled(rest, doc) /\ (strategy # "structural" => rest = <<>>)
      /\ Listed(buffer) /\ buffer \in Seq(Listable) /\ Len(buffer) \in Nat
      /\ SubSeq(buffer, 1, Len(buffer)) = buffer
      /\ AllProper(out, doc, strategy, config)
  BY <1>1, WorkingFacts
<1>3. /\ AllProper(Flushed, doc, strategy, config)
      /\ Extends(Flushed, out)
      /\ \A w : Searched(out, w) \/ Has(buffer, w) => Searched(Flushed, w)
  BY <1>1, ReadyToFlush, FlushedIs
<1>4. Extends(out, out)
  BY DEF Extends
<1>5. e \in Listable
  <2>1. 1 \in 1 .. Len(buffer) + 1
    BY <1>2
  <2> QED
    BY <1>1, <2>1, TakeNext
<1>6. Weight(<<e>>) = Tokens(Text(e)) /\ Tokens(Text(e)) \in Nat /\ Tokens(Text(e)) <= config.size
  <2>1. Tokens(Text(e)) \in Nat
    BY <1>5, TextType, TokensAre
  <2> QED
    BY <1>1, <1>2, <1>5, <2>1, JustOne DEF Oversized
<1>7. /\ AllProper(out', doc, strategy, config) /\ Extends(out', out)
      /\ \A w : Searched(out, w) => Searched(out', w)
      /\ Gathered(buffer', Tail(todo), doc)
      /\ Weight(buffer') <= config.size + config.overlap
      /\ \A w : Has(buffer, w) => Searched(out', w) \/ Has(buffer', w)
      /\ \A w : Has(todo, w) => Has(buffer', w) \/ Has(Tail(todo), w)
      /\ TakenOf(buffer', buffer, todo) /\ TakenOf(Tail(todo), todo, todo)
  <2>1. CASE flushes
    <3>1. PICK m \in 1 .. Len(buffer) + 1 :
             /\ Overlap(buffer) = SubSeq(buffer, m, Len(buffer))
             /\ Weight(Overlap(buffer)) <= config.overlap
      BY <1>2, OverlapIs
    <3>2. /\ Gathered(Append(Overlap(buffer), e), Tail(todo), doc)
          /\ Overlap(buffer) \in Seq(Listable)
          /\ \A w : Has(todo, w) <=> w \in WordsIn(Text(e)) \/ Has(Tail(todo), w)
          /\ \A w : Has(Append(Overlap(buffer), e), w) <=> Has(Overlap(buffer), w) \/ w \in WordsIn(Text(e))
          /\ TakenOf(Append(Overlap(buffer), e), buffer, todo) /\ TakenOf(Tail(todo), todo, todo)
      BY <1>1, <3>1, TakeNext
    <3> HIDE DEF e
    <3>3. /\ Weight(Append(Overlap(buffer), e)) = Weight(Overlap(buffer)) + Tokens(Text(e))
          /\ Weight(Overlap(buffer)) \in Int
      BY <1>5, <3>2, WeightAppend
    <3>4. Weight(Append(Overlap(buffer), e)) <= config.size + config.overlap
      BY <1>2, <1>6, <3>1, <3>3
    <3>5. out' = Flushed /\ buffer' = Append(Overlap(buffer), e)
      BY <1>1, <2>1
    <3> QED
      BY <1>3, <3>2, <3>4, <3>5
  <2>2. CASE ~ flushes
    <3>1. 1 \in 1 .. Len(buffer) + 1
      BY <1>2
    <3>2. /\ Gathered(Append(buffer, e), Tail(todo), doc)
          /\ \A w : Has(todo, w) <=> w \in WordsIn(Text(e)) \/ Has(Tail(todo), w)
          /\ \A w : Has(Append(buffer, e), w) <=> Has(buffer, w) \/ w \in WordsIn(Text(e))
          /\ TakenOf(Append(buffer, e), buffer, todo) /\ TakenOf(Tail(todo), todo, todo)
      BY <1>1, <1>2, <3>1, TakeNext
    <3>3. ~ (Weight(buffer) + Weight(<<e>>) > config.size)
      BY <2>2
    <3> HIDE DEF e
    <3>4. /\ Weight(Append(buffer, e)) = Weight(buffer) + Tokens(Text(e))
          /\ Weight(buffer) \in Int
      BY <1>2, <1>5, WeightAppend
    <3>5. Weight(Append(buffer, e)) <= config.size + config.overlap
      BY <1>2, <1>6, <3>3, <3>4
    <3>6. out' = out /\ buffer' = Append(buffer, e)
      BY <1>1, <2>2
    <3> QED
      BY <1>2, <1>4, <3>2, <3>5, <3>6
  <2> QED
    BY <2>1, <2>2
<1> HIDE DEF e, flushes
<1>8. ListsInv'
  <2>1. Gathered(buffer', todo', doc') /\ Listed(rest') /\ Titled(rest', doc')
    BY <1>1, <1>2, <1>7 DEF SameJob
  <2> QED
    BY <1>1, <1>2, <1>7, <2>1 DEF ListsInv, SameJob
<1>9. RowsInv'
  <2>1. Covered(doc', out', buffer', todo', rest')
    <3>1. Covered(doc, out', buffer', Tail(todo), rest)
      BY <1>2, <1>7, StillCovered
    <3> QED
      BY <1>1, <3>1 DEF SameJob
  <2>2. strategy = "structural" => InSection(out', parent', buffer', todo')
    BY <1>1, <1>2, <1>7, SectionGoesOn
  <2>3. AllProper(out', doc', strategy', config')
    BY <1>1, <1>7 DEF SameJob
  <2> QED
    BY <1>1, <1>2, <2>1, <2>2, <2>3 DEF RowsInv, SameJob
<1>10. FixedInv'
  BY <1>1 DEF FixedInv
<1> QED
  BY <1>1, <1>2, <1>8, <1>9, <1>10, SameDocument DEF Working

\* The rest of the buffer becomes a chunk at the end of a list.
LEMMA EndOfList ==
    ASSUME Working, loop \in {"recursive", "semantic"}, todo = <<>>,
           out' = Flushed, buffer' = <<>>, UNCHANGED <<rest, parent, todo>>, SameJob,
           loop' = IF strategy = "structural" THEN "structural" ELSE "done"
    PROVE  Working'
<1>1. /\ strategy \in {"recursive", "structural", "semantic"}
      /\ parent \in Nat /\ (strategy # "structural" => parent = 0)
      /\ Covered(doc, out, buffer, todo, rest)
      /\ Listed(rest) /\ Titled(rest, doc) /\ (strategy # "structural" => rest = <<>>)
  BY WorkingFacts
<1>2. /\ AllProper(Flushed, doc, strategy, config)
      /\ \A w : Searched(out, w) \/ Has(buffer, w) => Searched(Flushed, w)
  BY ReadyToFlush, FlushedIs
<1>3. Gathered(<<>>, <<>>, doc)
  <2>1. Len(<<>>) = 0
    OBVIOUS
  <2> QED
    BY <2>1, NothingListed DEF Gathered, Titled
<1>4. ListsInv'
  BY <1>1, <1>3 DEF ListsInv, SameJob
<1>5. Covered(doc, Flushed, <<>>, <<>>, rest)
  <2>1. \A w : Has(todo, w) => Searched(Flushed, w)
    BY NothingThere
  <2> QED
    BY <1>1, <1>2, <2>1, StillCovered
<1>6. RowsInv'
  BY <1>1, <1>2, <1>5 DEF RowsInv, SameJob
<1>7. FixedInv'
  BY DEF FixedInv
<1> QED
  BY <1>1, <1>4, <1>6, <1>7, SameDocument DEF Working

\* The loop over elements ends with what is left in the buffer.
LEMMA FinishElementsStep ==
    ASSUME Working, FinishElements, UNCHANGED parserVars
    PROVE  Working'
  BY EndOfList DEF FinishElements, SameJob

\* So does the loop over sentences.
LEMMA FinishSentencesStep ==
    ASSUME Working, FinishSentences, UNCHANGED parserVars
    PROVE  Working'
<1>1. strategy = "semantic"
  BY WorkingFacts DEF FinishSentences
<1> QED
  BY <1>1, EndOfList DEF FinishSentences, SameJob

\* The loop over sections ends with no section left.
LEMMA FinishSectionsStep ==
    ASSUME Working, FinishSections, UNCHANGED parserVars
    PROVE  Working'
<1>1. /\ loop = "structural" /\ rest = <<>> /\ loop' = "done"
      /\ UNCHANGED <<rest, parent, todo, buffer, windows, out>> /\ SameJob
  BY DEF FinishSections, SameJob
<1>2. strategy = "structural"
  BY <1>1, WorkingFacts
<1>3. ListsInv'
  BY <1>1, <1>2 DEF ListsInv, SameJob, Working
<1>4. RowsInv'
  BY <1>1, <1>2 DEF RowsInv, SameJob, Working
<1>5. FixedInv'
  BY <1>1 DEF FixedInv
<1> QED
  BY <1>1, <1>3, <1>4, <1>5, SameDocument DEF Working

\* A section becomes a chunk, or a parent whose elements are gathered next.
LEMMA NextSectionStep ==
    ASSUME Working, NextSection, UNCHANGED parserVars
    PROVE  Working'
<1> DEFINE n == SectionLength(rest)
           b == SubSeq(rest, 1, n)
           r == SubSeq(rest, n + 1, Len(rest))
           text == Joined(b)
           large == Tokens(text) > config.size
           N == Len(out) + 1
           x == Candidate(text, b[1].heading, 0, large)
<1>1. /\ loop = "structural" /\ rest # <<>> /\ out' = Append(out, x)
      /\ large => loop' = "recursive" /\ todo' = b /\ parent' = N
      /\ ~ large => UNCHANGED <<loop, todo, parent>>
      /\ rest' = r /\ buffer' = buffer /\ SameJob
  BY DEF NextSection, SameJob
<1>2. /\ strategy = "structural" /\ buffer = <<>> /\ todo = <<>>
      /\ parent \in Nat
      /\ Covered(doc, out, buffer, todo, rest)
      /\ Listed(rest) /\ Titled(rest, doc)
      /\ AllProper(out, doc, strategy, config)
      /\ config.size \in Nat \ {0} /\ config.overlap \in Nat
      /\ Gathered(<<>>, <<>>, doc)
  <2>1. strategy = "structural"
    BY <1>1, WorkingFacts
  <2>2. buffer = <<>> /\ todo = <<>>
    BY <1>1 DEF Working, ListsInv
  <2>3. Gathered(buffer, todo, doc)
    BY WorkingFacts
  <2>4. Gathered(<<>>, <<>>, doc)
    BY <2>2, <2>3
  <2> QED
    BY <2>1, <2>2, <2>4, WorkingFacts
<1>3. /\ Len(rest) \in Nat \ {0}
      /\ n \in 1 .. Len(rest)
      /\ \A k \in 1 .. n : rest[k].heading = rest[1].heading
  <2>1. Len(rest) \in Nat \ {0}
    BY <1>1, <1>2, ListedAre
  <2> QED
    BY <1>1, <1>2, <2>1, SectionIs
<1>4. /\ out \in Seq(ChunkRows) /\ Len(out) \in Nat
      /\ N \in Nat \ {0} /\ N - 1 = Len(out)
  BY <1>2, LenProperties DEF AllProper
<1> HIDE DEF n, x
<1>5. /\ Listed(b) /\ Titled(b, doc) /\ Len(b) = n
      /\ \A k \in 1 .. Len(b) : \E l \in 1 .. n : l \in 1 .. Len(rest) /\ b[k] = rest[l]
  <2>1. 1 \in 1 .. Len(rest) + 1 /\ n \in 1 - 1 .. Len(rest) /\ n - 1 + 1 = n
    BY <1>3
  <2> HIDE DEF b
  <2> QED
    BY <1>2, <2>1, PartOfList DEF b
<1>6. Listed(r) /\ Titled(r, doc)
  <2> DEFINE M == Len(rest)
  <2>1. n + 1 \in 1 .. Len(rest) + 1 /\ M \in (n + 1) - 1 .. Len(rest)
    BY <1>3
  <2> HIDE DEF M
  <2>2. Listed(SubSeq(rest, n + 1, M)) /\ Titled(SubSeq(rest, n + 1, M), doc)
    BY <1>2, <2>1, PartOfList
  <2> QED
    BY <2>2 DEF M
<1>7. \A w : Has(rest, w) => Has(b, w) \/ Has(r, w)
  <2>1. n \in 0 .. Len(rest)
    BY <1>3
  <2> QED
    BY <1>2, <2>1, ListCut
<1> HIDE DEF b, r
<1>8. /\ b # <<>> /\ Head(b) = b[1] /\ Len(b) \in Nat
      /\ \A k \in 1 .. Len(b) : b[k].heading = b[1].heading
  <2>1. b # <<>>
    BY <1>3, <1>5, ListedAre
  <2>2. Head(b) = b[1] /\ Len(b) \in Nat
    BY <1>5, <2>1, ListedTail, ListedAre
  <2>3. 1 \in 1 .. Len(b)
    BY <1>3, <1>5
  <2>4. \A k \in 1 .. Len(b) : b[k].heading = rest[1].heading
    BY <1>3, <1>5
  <2> QED
    BY <2>1, <2>2, <2>3, <2>4
<1>9. /\ text \in Seq(Word)
      /\ \A w : w \in WordsIn(text) <=> Has(b, w)
  BY <1>5, JoinedList
<1>10. ~ large => Fits(text, doc, strategy, config)
  <2>1. Tokens(text) \in Nat
    BY <1>9, TokensAre
  <2> HIDE DEF text
  <2>2. ~ large => Tokens(text) < 2 * (config.size + config.overlap)
    BY <1>2, <2>1
  <2> QED
    BY <1>2, <2>2 DEF Fits
<1>11. large \in BOOLEAN
  OBVIOUS
<1> HIDE DEF large, N
<1>12. /\ x = [index |-> N - 1, text |-> text, heading |-> Head(b).heading,
               parent |-> 0, whole |-> large]
       /\ x.text = text /\ x.whole = large /\ x.parent = 0 /\ x.heading = b[1].heading
  BY <1>4, <1>8 DEF x, Candidate
<1>13. x \in ChunkRows /\ Proper(out, x, N, doc, strategy, config)
  <2> DEFINE y == [index |-> N - 1, text |-> Joined(b), heading |-> Head(b).heading,
                   parent |-> 0, whole |-> large]
  <2> DEFINE p == 0
             z == [index |-> N - 1, text |-> Joined(b), heading |-> Head(b).heading,
                   parent |-> p, whole |-> large]
  <2>1. /\ strategy # "fixed" /\ p \in Nat
        /\ p # 0 => p \in 1 .. N - 1 /\ IsParent(out, p, Joined(b))
        /\ strategy = "structural" => \A k \in 1 .. Len(b) : b[k].heading = b[1].heading
        /\ ~ large => Fits(Joined(b), doc, strategy, config)
    BY <1>2, <1>8, <1>10
  <2> HIDE DEF p
  <2>4. z \in ChunkRows /\ Proper(out, z, N, doc, strategy, config)
    BY <1>4, <1>5, <1>8, <1>11, <2>1, CandidateOfList
  <2>2. y \in ChunkRows /\ Proper(out, y, N, doc, strategy, config)
    BY <2>4 DEF p
  <2>3. x = y
    BY <1>12
  <2> HIDE DEF y
  <2> QED
    BY <2>2, <2>3
<1> DEFINE new == Append(out, x)
<1>14. /\ AllProper(new, doc, strategy, config)
       /\ Len(new) = N /\ new[N] = x
       /\ \A w : Searched(out, w) => Searched(new, w)
       /\ ~ x.whole => \A w \in WordsIn(x.text) : Searched(new, w)
  <2>1. Len(out) + 1 = N
    BY DEF N
  <2>2. Proper(out, x, Len(out) + 1, doc, strategy, config)
    BY <1>13, <2>1
  <2>3. /\ AllProper(Append(out, x), doc, strategy, config)
        /\ Len(Append(out, x)) = Len(out) + 1
        /\ Append(out, x)[Len(out) + 1] = x
        /\ \A w : Searched(out, w) => Searched(Append(out, x), w)
        /\ ~ x.whole => \A w \in WordsIn(x.text) : Searched(Append(out, x), w)
    BY <1>2, <1>13, <2>2, CandidateAdded
  <2> QED
    BY <2>1, <2>3
<1> HIDE DEF new
<1>15. out' = new
  BY <1>1 DEF new
<1>16. CASE large
  <2>1. loop' = "recursive" /\ todo' = b /\ parent' = N /\ buffer' = <<>>
    BY <1>1, <1>2, <1>16
  <2>2. Gathered(<<>>, b, doc)
    <3>1. Len(<<>>) = 0
      OBVIOUS
    <3> QED
      BY <1>2, <1>5, <3>1 DEF Gathered
  <2>3. Weight(<<>>) <= config.size + config.overlap
    <3>1. 0 <= config.size + config.overlap
      BY <1>2
    <3> QED
      BY <3>1, NoWeight
  <2>4. ListsInv'
    BY <1>1, <1>2, <1>6, <2>1, <2>2, <2>3 DEF ListsInv, SameJob
  <2>5. InSection(new, N, <<>>, b)
    <3>1. N \in 1 .. Len(new)
      BY <1>4, <1>14
    <3>2. \A w : Has(<<>>, w) \/ Has(b, w) => w \in WordsIn(new[N].text)
      BY <1>9, <1>12, <1>14, NothingThere
    <3>3. \A k \in 1 .. Len(<<>>) : <<>>[k].heading = new[N].heading
      OBVIOUS
    <3>4. \A k \in 1 .. Len(b) : b[k].heading = new[N].heading
      BY <1>8, <1>12, <1>14
    <3>5. new[N].whole /\ new[N].parent = 0
      BY <1>12, <1>14, <1>16
    <3> QED
      BY <3>1, <3>2, <3>3, <3>4, <3>5 DEF InSection
  <2>6. Covered(doc, new, <<>>, b, r)
    BY <1>2, <1>7, <1>14, NothingThere, StillCovered
  <2>7. RowsInv'
    BY <1>1, <1>2, <1>4, <1>14, <1>15, <2>1, <2>5, <2>6 DEF RowsInv, SameJob
  <2>8. FixedInv'
    BY <2>1 DEF FixedInv
  <2> QED
    BY <1>1, <1>2, <2>1, <2>4, <2>7, <2>8, SameDocument DEF Working
<1>17. CASE ~ large
  <2>1. loop' = "structural" /\ todo' = <<>> /\ parent' = parent /\ buffer' = <<>>
    BY <1>1, <1>2, <1>17
  <2>2. ListsInv'
    BY <1>1, <1>2, <1>6, <2>1 DEF ListsInv, SameJob
  <2>3. \A w : Has(b, w) => Searched(new, w)
    BY <1>9, <1>12, <1>14, <1>17
  <2>4. Covered(doc, new, <<>>, <<>>, r)
    BY <1>2, <1>7, <1>14, <2>3, NothingThere, StillCovered
  <2>5. RowsInv'
    BY <1>1, <1>2, <1>14, <1>15, <2>1, <2>4 DEF RowsInv, SameJob
  <2>6. FixedInv'
    BY <2>1 DEF FixedInv
  <2> QED
    BY <1>1, <1>2, <2>1, <2>2, <2>5, <2>6, SameDocument DEF Working
<1> QED
  BY <1>16, <1>17

\* A sentence joins the buffer, or is the first of the next one.
LEMMA TakeSentenceStep ==
    ASSUME Working, TakeSentence, UNCHANGED parserVars
    PROVE  Working'
<1> DEFINE e == Head(todo)
           joins == /\ out' = out /\ buffer' = Append(buffer, e)
                    /\ buffer = <<>> \/ Tokens(Joined(Append(buffer, e))) <= config.size
           flushes == out' = Flushed /\ buffer' = <<e>>
<1>1. /\ loop = "semantic" /\ todo # <<>>
      /\ todo' = Tail(todo)
      /\ loop' = loop /\ rest' = rest /\ parent' = parent
      /\ SameJob
      /\ joins \/ flushes
  BY DEF TakeSentence, SameJob
<1>2. /\ strategy = "semantic"
      /\ parent = 0 /\ parent \in Nat
      /\ Covered(doc, out, buffer, todo, rest)
      /\ Listed(rest) /\ Titled(rest, doc) /\ rest = <<>>
      /\ Listed(buffer) /\ buffer \in Seq(Listable) /\ Len(buffer) \in Nat
      /\ buffer = <<>> <=> Len(buffer) = 0
      /\ SubSeq(buffer, 1, Len(buffer)) = buffer
      /\ SubSeq(buffer, Len(buffer) + 1, Len(buffer)) = <<>>
      /\ AllProper(out, doc, strategy, config)
  BY <1>1, WorkingFacts
<1>3. /\ AllProper(Flushed, doc, strategy, config)
      /\ \A w : Searched(out, w) \/ Has(buffer, w) => Searched(Flushed, w)
  BY <1>1, ReadyToFlush, FlushedIs
<1>4. /\ \A k \in 1 .. Len(buffer) : IsSentence(buffer[k], doc)
      /\ \A k \in 1 .. Len(todo) : IsSentence(todo[k], doc)
      /\ Len(buffer) \in {0, 1} \/ Tokens(Joined(buffer)) <= config.size
  BY <1>1 DEF Working, ListsInv
<1>5. ASSUME NEW b, TakenOf(b, buffer, todo)
      PROVE  \A k \in 1 .. Len(b) : IsSentence(b[k], doc)
  BY <1>4, <1>5 DEF TakenOf
<1>6. /\ AllProper(out', doc, strategy, config)
      /\ \A w : Searched(out, w) => Searched(out', w)
      /\ Gathered(buffer', Tail(todo), doc)
      /\ Len(buffer') \in {0, 1} \/ Tokens(Joined(buffer')) <= config.size
      /\ \A w : Has(buffer, w) => Searched(out', w) \/ Has(buffer', w)
      /\ \A w : Has(todo, w) => Has(buffer', w) \/ Has(Tail(todo), w)
      /\ TakenOf(buffer', buffer, todo)
      /\ TakenOf(Tail(todo), todo, todo)
  <2>1. CASE joins
    <3>1. 1 \in 1 .. Len(buffer) + 1
      BY <1>2
    <3>2. /\ Gathered(Append(buffer, e), Tail(todo), doc)
          /\ \A w : Has(todo, w) <=> w \in WordsIn(Text(e)) \/ Has(Tail(todo), w)
          /\ \A w : Has(Append(buffer, e), w) <=> Has(buffer, w) \/ w \in WordsIn(Text(e))
          /\ TakenOf(Append(buffer, e), buffer, todo) /\ TakenOf(Tail(todo), todo, todo)
          /\ Len(Append(buffer, e)) = Len(buffer) - 1 + 2
      BY <1>1, <1>2, <3>1, TakeNext
    <3> HIDE DEF e
    <3>3. /\ out' = out /\ buffer' = Append(buffer, e)
          /\ buffer = <<>> \/ Tokens(Joined(buffer')) <= config.size
      BY <2>1
    <3>4. buffer = <<>> => Len(buffer') = 1
      BY <1>2, <3>2, <3>3
    <3> QED
      BY <1>2, <3>2, <3>3, <3>4
  <2>2. CASE flushes
    <3>1. Len(buffer) + 1 \in 1 .. Len(buffer) + 1
      BY <1>2
    <3>2. /\ Gathered(Append(<<>>, e), Tail(todo), doc)
          /\ \A w : Has(todo, w) <=> w \in WordsIn(Text(e)) \/ Has(Tail(todo), w)
          /\ \A w : Has(Append(<<>>, e), w) <=> Has(<<>>, w) \/ w \in WordsIn(Text(e))
          /\ TakenOf(Append(<<>>, e), buffer, todo) /\ TakenOf(Tail(todo), todo, todo)
          /\ e \in Listable
      BY <1>1, <1>2, <3>1, TakeNext
    <3> HIDE DEF e
    <3>3. <<e>> = Append(<<>>, e) /\ Len(<<e>>) = 1
      BY <3>2, JustOne
    <3>4. out' = Flushed /\ buffer' = <<e>> /\ buffer' = Append(<<>>, e) /\ Len(buffer') = 1
      BY <2>2, <3>3
    <3> QED
      BY <1>3, <3>2, <3>4
  <2> QED
    BY <1>1, <2>1, <2>2
<1> HIDE DEF e, joins, flushes
<1>7. ListsInv'
  <2>1. Gathered(buffer', todo', doc') /\ Listed(rest') /\ Titled(rest', doc')
    BY <1>1, <1>2, <1>6 DEF SameJob
  <2>2. \A k \in 1 .. Len(buffer') : IsSentence(buffer'[k], doc)
    BY <1>5, <1>6
  <2>3. \A k \in 1 .. Len(Tail(todo)) : IsSentence(Tail(todo)[k], doc)
    BY <1>4, <1>6 DEF TakenOf
  <2> QED
    BY <1>1, <1>2, <1>6, <2>1, <2>2, <2>3 DEF ListsInv, SameJob
<1>8. RowsInv'
  <2>1. Covered(doc', out', buffer', todo', rest')
    <3>1. Covered(doc, out', buffer', Tail(todo), rest)
      BY <1>2, <1>6, StillCovered
    <3> QED
      BY <1>1, <3>1 DEF SameJob
  <2>3. AllProper(out', doc', strategy', config')
    BY <1>1, <1>6 DEF SameJob
  <2> QED
    BY <1>1, <1>2, <2>1, <2>3 DEF RowsInv, SameJob
<1>9. FixedInv'
  BY <1>1 DEF FixedInv
<1> QED
  BY <1>1, <1>2, <1>7, <1>8, <1>9, SameDocument DEF Working

----------------------------------------------------------------------------
(* Parsing, to the end: no block that is to be kept is left out.           *)

\* Block k of page p is an element.
IsElement(p, k) ==
    \E i \in DOMAIN elements : elements[i].page = p /\ elements[i].at = k

\* The loops have been at block k of page p, in the pass that takes it.
Passed(p, k) ==
    LET b == file.pages[p][k]
    IN  \/ phase = "parsed" \/ p < page
        \/ p = page /\ phase = "blocks" /\ Parser!IsPdf /\ b.kind = "table"
        \/ p = page /\ phase \in {"tables", "blocks"} /\ k < at
             /\ Parser!Taken(b, phase, Parser!IsPdf)

ReadInv ==
    /\ \A i \in DOMAIN elements : elements[i].sizes # <<>>
    /\ \A p \in DOMAIN file.pages : \A k \in DOMAIN file.pages[p] :
         Parser!Kept(p, k) /\ Passed(p, k) => IsElement(p, k)

\* Nothing is passed before a file is read.
LEMMA ReadInit == ParserInv /\ Parser!Init => ReadInv
<1> SUFFICES ASSUME ParserInv, Parser!Init PROVE ReadInv
  OBVIOUS
<1>1. elements = <<>> /\ phase = "upload" /\ page = 1
  BY DEF Parser!Init
<1>2. \A p \in DOMAIN file.pages : \A k \in DOMAIN file.pages[p] : p \in Nat \ {0}
  BY PagesAreSequences DEF ParserInv
<1> QED
  BY <1>1, <1>2 DEF ReadInv, Passed

\* No step of a parser passes a block to be kept without making it an element.
LEMMA ReadStep == ParserInv /\ ReadInv /\ Parser!Next => ReadInv'
<1> SUFFICES ASSUME ParserInv, ReadInv, Parser!Next PROVE ReadInv'
  OBVIOUS
<1>1. file' = file
  BY DEF Parser!Next, Parser!Accept, Parser!Refuse, Parser!Skip, Parser!TakeHeading,
     Parser!TakeBlock, Parser!TurnToBlocks, Parser!TurnPage, Parser!Finish
<1>2. /\ \A p \in DOMAIN file.pages : /\ p \in Nat \ {0} /\ p <= Len(file.pages)
                                      /\ \A k \in DOMAIN file.pages[p] :
                                           k \in Nat \ {0} /\ k <= Len(file.pages[p])
      /\ page \in Nat \ {0} /\ at \in Nat \ {0} /\ elements \in Seq(Elements)
      /\ phase \in {"upload", "refused", "tables", "blocks", "parsed"}
      /\ phase = "tables" => Parser!IsPdf
      /\ phase = "upload" => page = 1 /\ at = 1
      /\ Len(file.pages) \in Nat
  BY PagesAreSequences DEF ParserInv
\* A step that adds no element passes no block that is one.
<1>3. ASSUME elements' = elements,
             \A p \in DOMAIN file.pages : \A k \in DOMAIN file.pages[p] :
               Parser!Kept(p, k) /\ Passed(p, k)' => Passed(p, k)
      PROVE  ReadInv'
  <2>1. \A p, k : IsElement(p, k)' <=> IsElement(p, k)
    BY <1>3 DEF IsElement
  <2>2. \A i \in DOMAIN elements' : elements'[i].sizes # <<>>
    BY <1>3 DEF ReadInv
  <2>3. ASSUME NEW p \in DOMAIN file.pages, NEW k \in DOMAIN file.pages[p],
               Parser!Kept(p, k)', Passed(p, k)'
        PROVE  IsElement(p, k)'
    BY <1>1, <1>3, <2>1, <2>3, FileStays DEF ReadInv
  <2> QED
    BY <1>1, <2>2, <2>3 DEF ReadInv
<1>4. CASE Parser!Accept
  <2> SUFFICES ASSUME NEW p \in DOMAIN file.pages, NEW k \in DOMAIN file.pages[p],
                      Passed(p, k)'
               PROVE  FALSE
    BY <1>3, <1>4 DEF Parser!Accept
  <2>1. /\ page' = 1 /\ at' = 1 /\ phase' = Parser!FirstPass
        /\ phase' = IF Parser!IsPdf THEN "tables" ELSE "blocks"
        /\ Parser!IsPdf' = Parser!IsPdf
    BY <1>1, <1>2, <1>4 DEF Parser!Accept, Parser!FirstPass, Parser!IsPdf
  <2> QED
    BY <1>2, <2>1 DEF Passed
<1>5. CASE Parser!Refuse
  <2>1. page' = page /\ phase = "upload" /\ phase' = "refused"
    BY <1>5 DEF Parser!Refuse
  <2> QED
    BY <1>2, <1>3, <1>5, <2>1 DEF Parser!Refuse, Passed
\* A step from the block at hand to the next.
<1>6. ASSUME Parser!Reading, Parser!InPage,
             phase' = phase, page' = page, at' = at + 1
      PROVE  \A p \in DOMAIN file.pages : \A k \in DOMAIN file.pages[p] :
               Passed(p, k)' =>
                 \/ Passed(p, k)
                 \/ /\ p = page /\ k = at
                    /\ Parser!Taken(Parser!Block, phase, Parser!IsPdf)
  <2> SUFFICES ASSUME NEW p \in DOMAIN file.pages, NEW k \in DOMAIN file.pages[p],
                      Passed(p, k)', ~ Passed(p, k)
               PROVE  /\ p = page /\ k = at
                      /\ Parser!Taken(Parser!Block, phase, Parser!IsPdf)
    OBVIOUS
  <2>1. Parser!IsPdf' = Parser!IsPdf
    BY <1>1 DEF Parser!IsPdf
  <2>2. k \in Nat /\ at \in Nat /\ (k < at + 1 <=> k < at \/ k = at)
    BY <1>2
  <2>3. /\ p = page /\ k = at
        /\ Parser!Taken(file.pages[p][k], phase, Parser!IsPdf)
    BY <1>1, <1>6, <2>1, <2>2 DEF Passed
  <2> QED
    BY <2>3 DEF Parser!Block
<1>7. CASE Parser!Skip
  <2>1. /\ Parser!Reading /\ Parser!InPage
        /\ phase' = phase /\ page' = page /\ at' = at + 1 /\ elements' = elements
        /\ ~ (Parser!Taken(Parser!Block, phase, Parser!IsPdf) /\ Parser!HasText(Parser!Block))
    BY <1>7 DEF Parser!Skip
  <2>2. Parser!Taken(Parser!Block, phase, Parser!IsPdf) => ~ Parser!Kept(page, at)
    BY <2>1 DEF Parser!Kept, Parser!Block
  <2> QED
    BY <1>3, <1>6, <2>1, <2>2
\* A step that makes an element of the block at hand.
<1>8. ASSUME Parser!Reading, Parser!InPage, Parser!HasText(Parser!Block),
             phase' = phase, page' = page, at' = at + 1,
             NEW h, elements' = Append(elements, Parser!Element(h)),
             elements' \in Seq(Elements)
      PROVE  ReadInv'
  <2> DEFINE e == Parser!Element(h)
             n == Len(elements)
  <2>1. e.page = page /\ e.at = at /\ e.sizes # <<>>
    BY <1>8 DEF Parser!Element, Parser!HasText
  <2> HIDE DEF e
  <2>2. /\ n \in Nat /\ DOMAIN elements = 1 .. n /\ DOMAIN elements' = 1 .. n + 1
        /\ \A i \in 1 .. n : elements'[i] = elements[i]
        /\ elements'[n + 1] = e
    BY <1>2, <1>8, AppendProperties, LenProperties DEF e
  <2> HIDE DEF n
  <2>3. n + 1 \in DOMAIN elements' /\ \A i \in DOMAIN elements : i \in DOMAIN elements'
    BY <2>2
  <2>4. \A p, k : IsElement(p, k) => IsElement(p, k)'
    BY <2>2, <2>3 DEF IsElement
  <2>5. \A p, k : p = page /\ k = at => IsElement(p, k)'
    BY <2>1, <2>2, <2>3 DEF IsElement
  <2>6. \A i \in DOMAIN elements' : i \in 1 .. n \/ i = n + 1
    BY <2>2
  <2>7. \A i \in DOMAIN elements' : elements'[i].sizes # <<>>
    BY <2>1, <2>2, <2>6 DEF ReadInv
  <2>8. ASSUME NEW p \in DOMAIN file.pages, NEW k \in DOMAIN file.pages[p],
               Parser!Kept(p, k)', Passed(p, k)'
        PROVE  IsElement(p, k)'
    BY <1>1, <1>6, <1>8, <2>4, <2>5, <2>8, FileStays DEF ReadInv
  <2> QED
    BY <1>1, <2>7, <2>8 DEF ReadInv
<1>9. (elements \in Seq(Elements))'
  BY ParserStep DEF ParserInv
<1>10. CASE Parser!TakeHeading
  <2>1. /\ Parser!Reading /\ Parser!InPage /\ Parser!HasText(Parser!Block)
        /\ phase' = phase /\ page' = page /\ at' = at + 1
        /\ elements' = Append(elements, Parser!Element(Parser!Block.title))
    BY <1>10 DEF Parser!TakeHeading
  <2> QED
    BY <1>8, <1>9, <2>1
<1>11. CASE Parser!TakeBlock
  <2>1. /\ Parser!Reading /\ Parser!InPage /\ Parser!HasText(Parser!Block)
        /\ phase' = phase /\ page' = page /\ at' = at + 1
        /\ elements' = Append(elements, Parser!Element(heading))
    BY <1>11 DEF Parser!TakeBlock
  <2> QED
    BY <1>8, <1>9, <2>1
<1>12. CASE Parser!TurnToBlocks
  <2>1. /\ phase = "tables" /\ at > Len(file.pages[page]) /\ Parser!IsPdf
        /\ phase' = "blocks" /\ at' = 1 /\ page' = page /\ elements' = elements
    BY <1>2, <1>12 DEF Parser!TurnToBlocks, Parser!InPage
  <2> SUFFICES ASSUME NEW p \in DOMAIN file.pages, NEW k \in DOMAIN file.pages[p],
                      Passed(p, k)', ~ (p < page)
               PROVE  Passed(p, k)
    BY <1>3, <2>1 DEF Passed
  <2>2. p = page /\ file.pages[p][k].kind = "table"
    BY <1>1, <1>2, <2>1 DEF Passed
  <2>3. Parser!Taken(file.pages[p][k], phase, Parser!IsPdf)
    BY <2>1, <2>2 DEF Parser!Taken
  <2>4. k < at
    BY <1>2, <2>1, <2>2, PagesAreSequences DEF ParserInv
  <2> QED
    BY <2>1, <2>2, <2>3, <2>4 DEF Passed
<1>13. CASE Parser!TurnPage
  <2>1. /\ phase = "blocks" /\ at > Len(file.pages[page])
        /\ phase' = Parser!FirstPass /\ at' = 1 /\ page' = page + 1 /\ elements' = elements
    BY <1>2, <1>13 DEF Parser!TurnPage, Parser!InPage
  <2>2. (Parser!IsPdf' => phase' = "tables") /\ phase' # "parsed"
    BY <1>1, <2>1 DEF Parser!FirstPass, Parser!IsPdf
  <2> SUFFICES ASSUME NEW p \in DOMAIN file.pages, NEW k \in DOMAIN file.pages[p],
                      Parser!Kept(p, k), Passed(p, k)', ~ (p < page)
               PROVE  Passed(p, k)
    BY <1>3, <2>1 DEF Passed
  <2>3. p = page
    BY <1>1, <1>2, <2>1, <2>2 DEF Passed
  <2>4. k < at
    BY <1>2, <2>1, <2>3, PagesAreSequences DEF ParserInv
  <2>5. PICK pass \in {"tables", "blocks"} :
          (pass = "tables" => Parser!IsPdf) /\ Parser!Taken(file.pages[p][k], pass, Parser!IsPdf)
    BY DEF Parser!Kept
  <2>6. CASE pass = "tables"
    BY <2>1, <2>3, <2>5, <2>6, TablesAreTaken DEF Passed
  <2>7. CASE pass = "blocks"
    BY <2>1, <2>3, <2>4, <2>5, <2>7 DEF Passed
  <2> QED
    BY <2>6, <2>7
<1>14. CASE Parser!Finish
  <2>1. page > Len(file.pages) /\ elements' = elements
    BY <1>14 DEF Parser!Finish
  <2>2. \A p \in DOMAIN file.pages : p < page
    BY <1>2, <2>1
  <2> QED
    BY <1>3, <2>1, <2>2 DEF Passed
<1> QED
  BY <1>4, <1>5, <1>7, <1>10, <1>11, <1>12, <1>13, <1>14 DEF Parser!Next

\* A chunker begins with the whole document to come.
LEMMA BeginStep ==
    ASSUME ParserInv, ReadInv, Idle, Chunk
    PROVE  Working'
<1> DEFINE d == [i \in DOMAIN elements |-> Element(elements, i)]
<1>1. PICK s \in Strategies :
        /\ phase = "parsed" /\ UNCHANGED parserVars
        /\ config' \in Configs
        /\ doc' = d
        /\ strategy' = s
        /\ loop' = IF elements = <<>> THEN "done" ELSE s
        /\ rest' = IF s = "structural" THEN d ELSE <<>>
        /\ todo' = CASE s = "recursive" -> d
                     [] s = "semantic" -> Sentences(d)
                     [] OTHER -> <<>>
        /\ UNCHANGED <<parent, buffer, windows, out>>
  BY DEF Chunk, Begin
<1>2. /\ parent' = 0 /\ buffer' = <<>> /\ windows' = <<>> /\ out' = <<>>
      /\ phase' = "parsed" /\ ParsedDoc' = d
  BY <1>1 DEF Idle, parserVars, ParsedDoc
<1>3. /\ elements \in Seq(Elements) /\ DOMAIN elements = 1 .. Len(elements)
      /\ \A i \in 1 .. Len(elements) : elements[i].sizes # <<>>
  <2>1. elements \in Seq(Elements)
    BY DEF ParserInv
  <2> QED
    BY <2>1, LenProperties DEF ReadInv
<1>4. Document(d) /\ Len(d) = Len(elements)
  <2> DEFINE x == d
  <2>1. x = [i \in DOMAIN elements |-> Element(elements, i)]
    OBVIOUS
  <2> HIDE DEF x
  <2>2. Document(x) /\ Len(x) = Len(elements)
    BY <1>3, <2>1, DocumentOf
  <2> QED
    BY <2>2 DEF x
<1> HIDE DEF d
<1>5. /\ Listed(d) /\ Titled(d, d) /\ (d = <<>> <=> elements = <<>>)
      /\ Listed(<<>>) /\ Titled(<<>>, d) /\ Len(<<>>) = 0
  <2>1. d = <<>> <=> Len(d) = 0
    BY <1>4, DocumentIs
  <2>2. elements = <<>> <=> Len(elements) = 0
    BY <1>3, EmptySeq, LenProperties
  <2>3. Listed(<<>>) /\ Len(<<>>) = 0
    BY NothingListed
  <2> QED
    BY <1>4, <2>1, <2>2, <2>3, DocumentIs DEF Titled
<1>6. /\ Listed(Sentences(d)) /\ Titled(Sentences(d), d)
      /\ \A k \in 1 .. Len(Sentences(d)) : IsSentence(Sentences(d)[k], d)
      /\ \A w : Has(d, w) => Has(Sentences(d), w)
  BY <1>4, SentencesOf
<1>7. d = <<>> => Sentences(d) = <<>>
  <2> SUFFICES ASSUME d = <<>> PROVE Sentences(d) = <<>>
    OBVIOUS
  <2>1. [i \in DOMAIN d |->
          [k \in DOMAIN d[i].sentences |->
            [sentences |-> <<d[i].sentences[k]>>, heading |-> d[i].heading]]] = <<>>
    OBVIOUS
  <2>2. FlattenSeq(<<>>) = <<>>
    <3>1. <<>> \in Seq(Seq(Nat)) /\ <<>> \in Seq(Nat)
      OBVIOUS
    <3> QED
      BY <3>1, FlattenAppend
  <2> QED
    BY <2>1, <2>2 DEF Sentences
<1>8. config'.size \in Nat \ {0} /\ config'.overlap \in Nat
  BY <1>1, ConfigsAreValid
<1>9. /\ s = "recursive" => todo' = d /\ rest' = <<>>
      /\ s = "semantic" => todo' = Sentences(d) /\ rest' = <<>>
      /\ s = "structural" => todo' = <<>> /\ rest' = d
      /\ s = "fixed" => todo' = <<>> /\ rest' = <<>>
      /\ s \in {"recursive", "semantic", "structural", "fixed"}
  BY <1>1 DEF Strategies
<1>10. ListsInv'
  <2>1. Listed(todo') /\ Titled(todo', d) /\ Listed(rest') /\ Titled(rest', d)
    BY <1>5, <1>6, <1>9
  <2>2. Gathered(<<>>, todo', d)
    BY <1>5, <2>1 DEF Gathered
  <2>3. elements = <<>> => todo' = <<>> /\ rest' = <<>>
    BY <1>5, <1>7, <1>9
  <2>4. Weight(<<>>) <= config'.size + config'.overlap
    <3>1. 0 <= config'.size + config'.overlap
      BY <1>8
    <3> QED
      BY <3>1, NoWeight
  <2>5. loop' \in {s, "done"} /\ (loop' = "done" => elements = <<>>)
    BY <1>1 DEF Strategies
  <2>6. loop' \notin {"recursive", "semantic"} => todo' = <<>>
    BY <1>9, <2>3, <2>5
  <2>7. loop' = "done" \/ strategy' # "structural" => rest' = <<>>
    BY <1>1, <1>9, <2>3, <2>5
  <2>8. loop' = "semantic" => \A k \in 1 .. Len(todo') : IsSentence(todo'[k], d)
    BY <1>6, <1>9, <2>5
  <2>9. \A k \in 1 .. Len(<<>>) : IsSentence(<<>>[k], d)
    BY <1>5
  <2> QED
    BY <1>1, <1>2, <1>5, <2>1, <2>2, <2>4, <2>6, <2>7, <2>8, <2>9 DEF ListsInv
<1>11. RowsInv'
  <2>1. AllProper(<<>>, d, s, config')
    BY <1>5 DEF AllProper
  <2>2. s # "fixed" \/ loop' = "done" => Covered(d, <<>>, <<>>, todo', rest')
    <3>1. CASE s = "fixed" /\ loop' = "done"
      BY <1>1, <1>5, <3>1, NothingThere DEF Covered, Strategies
    <3>2. CASE s = "recursive"
      BY <1>9, <3>2 DEF Covered
    <3>3. CASE s = "semantic"
      BY <1>6, <1>9, <3>3 DEF Covered
    <3>4. CASE s = "structural"
      BY <1>9, <3>4 DEF Covered
    <3> QED
      BY <1>9, <3>1, <3>2, <3>3, <3>4
  <2>3. ~ (loop' = "recursive" /\ strategy' = "structural")
    BY <1>1
  <2> QED
    BY <1>1, <1>2, <1>5, <2>1, <2>2, <2>3 DEF RowsInv
<1>12. FixedInv'
  <2>1. loop' = "fixed" => d # <<>>
    BY <1>1, <1>5
  <2>2. \A step, size, total : WindowsOf(<<>>, step, size, total)
    BY <1>5 DEF WindowsOf
  <2> QED
    BY <1>1, <1>2, <2>1, <2>2 DEF FixedInv
<1>13. loop' = strategy' \/ loop' = "done"
  BY <1>1
<1> QED
  BY <1>1, <1>2, <1>4, <1>10, <1>11, <1>12, <1>13 DEF Working

----------------------------------------------------------------------------
(* The windows of FixedSizeChunker                                         *)

\* A window moves on by at least one token, and at most by the budget.
LEMMA StepIs ==
    ASSUME Working
    PROVE  Step \in 1 .. config.size
<1>1. config.size \in Nat \ {0} /\ config.overlap \in Nat
  BY ConfigIs
<1> QED
  BY <1>1 DEF Step, Greater

\* The text the windows slide over.
LEMMA TotalIs ==
    ASSUME NEW d, Document(d), d # <<>>
    PROVE  /\ Joined(d) \in Seq(Word) /\ Len(Joined(d)) \in Nat \ {0}
           /\ Tokens(Joined(d)) = 2 * Len(Joined(d)) - 1
           /\ Tokens(Joined(d)) \in Nat \ {0}
           /\ Ascends(Joined(d), InOrder)
           /\ \A w : w \in WordsIn(Joined(d)) <=> Has(d, w)
<1>1. /\ Joined(d) \in Seq(Word) /\ Joined(d) # <<>>
      /\ Ascends(Joined(d), InOrder)
      /\ \A w : w \in WordsIn(Joined(d)) <=> Has(d, w)
  BY JoinedList DEF Document
<1>2. Tokens(Joined(d)) \in Nat /\ Len(Joined(d)) \in Nat
      /\ Tokens(Joined(d)) = 2 * Len(Joined(d)) - 1 /\ Len(Joined(d)) # 0
  BY <1>1, TokensAre
<1> QED
  BY <1>1, <1>2

\* A window that does not reach the end leaves something to the next one.
LEMMA NextWindow ==
    ASSUME NEW size \in Nat \ {0}, NEW step \in 1 .. size, NEW total \in Nat \ {0},
           NEW ws, WindowsOf(ws, step, size, total),
           ws = <<>> \/ ws[Len(ws)][2] < total,
           NEW from, from = Len(ws) * step,
           NEW to, to = IF from + size < total THEN from + size ELSE total
    PROVE  WindowsOf(Append(ws, <<from, to>>), step, size, total)
<1> DEFINE n == Len(ws)
           vs == Append(ws, <<from, to>>)
<1>1. /\ ws \in Seq(Nat \X Nat) /\ n \in Nat /\ (ws = <<>> <=> n = 0)
      /\ \A k \in 1 .. n : ws[k] \in Nat \X Nat
  BY LenProperties, EmptySeq, ElementOfSeq DEF WindowsOf
<1>2. from \in Nat /\ to \in Nat
  <2>1. n * step \in Nat
    BY <1>1
  <2> QED
    BY <2>1
<1>3. from < total
  <2>1. CASE n = 0
    BY <2>1
  <2>2. CASE n # 0
    <3>1. n \in 1 .. n /\ ws[n][2] < total
      BY <1>1, <2>2
    <3>2. /\ ws[n][1] = (n - 1) * step
          /\ ws[n][2] = IF ws[n][1] + size < total THEN ws[n][1] + size ELSE total
      BY <3>1 DEF WindowsOf
    <3>3. (n - 1) * step \in Int /\ from = (n - 1) * step + step
      BY <1>1
    <3>4. ws[n][1] + size < total
      BY <3>1, <3>2
    <3> QED
      BY <3>2, <3>3, <3>4
  <2> QED
    BY <2>1, <2>2
<1>4. /\ vs \in Seq(Nat \X Nat) /\ Len(vs) = n + 1
      /\ \A k \in 1 .. n : vs[k] = ws[k]
      /\ vs[n + 1] = <<from, to>>
  <2>1. <<from, to>> \in Nat \X Nat
    BY <1>2
  <2> QED
    BY <1>1, <2>1, AppendProperties
<1>5. \A k \in 1 .. n : k < n \/ ws[k][2] < total
  <2> TAKE k \in 1 .. n
  <2>1. k = n => n # 0 /\ ws # <<>>
    BY <1>1
  <2>2. k < n \/ k = n
    BY <1>1
  <2> QED
    BY <2>1, <2>2
<1> HIDE DEF vs
<1>6. ASSUME NEW k \in 1 .. Len(vs)
      PROVE  /\ vs[k][1] = (k - 1) * step
             /\ vs[k][2] = IF vs[k][1] + size < total THEN vs[k][1] + size ELSE total
             /\ vs[k][1] < total
             /\ k < Len(vs) => vs[k][2] < total
  <2>1. CASE k \in 1 .. n
    BY <1>4, <1>5, <2>1 DEF WindowsOf
  <2>2. CASE k = n + 1
    <3>1. ~ (k < Len(vs)) /\ k - 1 = n
      BY <1>1, <1>4, <2>2
    <3>2. vs[k] = <<from, to>>
      BY <1>4, <2>2
    <3>3. vs[k][1] = from /\ vs[k][2] = to
      BY <3>2
    <3> QED
      BY <1>3, <3>1, <3>3
  <2>3. k \in 1 .. n \/ k = n + 1
    BY <1>1, <1>4
  <2> QED
    BY <2>1, <2>2, <2>3
<1>7. WindowsOf(vs, step, size, total)
  BY <1>4, <1>6 DEF WindowsOf
<1> QED
  BY <1>7 DEF vs

\* The next window begins a step further.
LEMMA SlideWindowStep ==
    ASSUME Working, SlideWindow, UNCHANGED parserVars
    PROVE  Working'
<1> DEFINE from == Len(windows) * Step
           to == IF from + config.size < Total THEN from + config.size ELSE Total
<1>1. /\ loop = "fixed" /\ loop' = loop
      /\ windows = <<>> \/ windows[Len(windows)][2] < Total
      /\ windows' = Append(windows, <<from, to>>)
      /\ rest' = rest /\ parent' = parent /\ todo' = todo /\ buffer' = buffer /\ out' = out
      /\ SameJob
  BY DEF SlideWindow, SameJob
<1>2. /\ config.size \in Nat \ {0} /\ Step \in 1 .. config.size
      /\ Total \in Nat \ {0} /\ doc # <<>> /\ out = <<>>
      /\ WindowsOf(windows, Step, config.size, Total)
  BY <1>1, ConfigIs, StepIs, TotalIs DEF Working, FixedInv, Total
<1>3. Step' = Step /\ Total' = Total
  BY <1>1 DEF SameJob, Step, Greater, Total, Joined, Tokens, Text
<1>4. WindowsOf(windows', Step, config.size, Total)
  <2> DEFINE size == config.size
             step == Step
             total == Total
             f == from
             t == to
  <2>1. /\ size \in Nat \ {0} /\ step \in 1 .. size /\ total \in Nat \ {0}
        /\ WindowsOf(windows, step, size, total)
        /\ windows = <<>> \/ windows[Len(windows)][2] < total
        /\ f = Len(windows) * step
        /\ t = IF f + size < total THEN f + size ELSE total
        /\ windows' = Append(windows, <<f, t>>)
    BY <1>1, <1>2
  <2> HIDE DEF size, step, total, f, t
  <2>2. WindowsOf(windows', step, size, total)
    BY <2>1, NextWindow
  <2> QED
    BY <2>2 DEF size, step, total
<1>5. FixedInv'
  BY <1>1, <1>2, <1>3, <1>4 DEF FixedInv, SameJob
<1>6. ListsInv'
  BY <1>1 DEF ListsInv, SameJob, Working
<1>7. RowsInv'
  BY <1>1 DEF RowsInv, SameJob, Working
<1>8. loop = strategy
  BY <1>1 DEF Working
<1> QED
  BY <1>1, <1>5, <1>6, <1>7, <1>8, SameDocument DEF Working

\* Windows that leave nothing out, none wider than most.
Tiled(ws, total, most) ==
    /\ ws \in Seq(Nat \X Nat)
    /\ ws # <<>>
    /\ ws[1][1] = 0
    /\ ws[Len(ws)][2] = total
    /\ \A k \in 1 .. Len(ws) :
         /\ ws[k][1] < ws[k][2] /\ ws[k][2] <= total
         /\ ws[k][2] - ws[k][1] <= most
         /\ k < Len(ws) => ws[k + 1][1] <= ws[k][2]

\* A last window that is too small becomes part of the one before.
LEMMA MergedIs ==
    ASSUME NEW size \in Nat \ {0}, NEW step \in 1 .. size, NEW total \in Nat \ {0},
           NEW ws, WindowsOf(ws, step, size, total), ws # <<>>, ws[Len(ws)][2] = total,
           config.min \in Nat
    PROVE  Tiled(Merged(ws), total, size + config.min)
<1> DEFINE n == Len(ws)
           min == config.min
           joins == n > 1 /\ ws[n][2] - ws[n][1] < min
<1>1. /\ ws \in Seq(Nat \X Nat) /\ n \in Nat \ {0}
      /\ \A k \in 1 .. n : ws[k][1] \in Nat /\ ws[k][2] \in Nat
  <2>1. ws \in Seq(Nat \X Nat) /\ n \in Nat \ {0}
    BY LenProperties, EmptySeq DEF WindowsOf
  <2>2. \A k \in 1 .. n : ws[k] \in Nat \X Nat
    BY <2>1, ElementOfSeq
  <2> QED
    BY <2>1, <2>2
<1>2. ASSUME NEW k \in 1 .. n
      PROVE  /\ ws[k][1] < ws[k][2] /\ ws[k][2] <= total
             /\ ws[k][2] - ws[k][1] <= size
  <2>1. /\ ws[k][2] = IF ws[k][1] + size < total THEN ws[k][1] + size ELSE total
        /\ ws[k][1] < total
    BY DEF WindowsOf
  <2>2. ws[k][1] \in Nat /\ ws[k][2] \in Nat /\ size \in Nat \ {0} /\ total \in Nat
    BY <1>1
  <2> QED
    BY <2>1, <2>2
<1>3. ASSUME NEW k \in 1 .. n, k < n
      PROVE  k + 1 \in 1 .. n /\ ws[k + 1][1] = ws[k][1] + step /\ ws[k + 1][1] <= ws[k][2]
  <2>1. k + 1 \in 1 .. n
    BY <1>1, <1>3
  <2>2. /\ ws[k][2] = IF ws[k][1] + size < total THEN ws[k][1] + size ELSE total
        /\ ws[k][2] < total
        /\ ws[k][1] = (k - 1) * step
        /\ ws[k + 1][1] = ((k + 1) - 1) * step
    BY <1>3, <2>1 DEF WindowsOf
  <2>3. ((k + 1) - 1) * step = (k - 1) * step + step /\ (k - 1) * step \in Int
    BY <2>1
  <2>4. ws[k + 1][1] = ws[k][1] + step
    BY <2>2, <2>3
  <2>5. ws[k][2] = ws[k][1] + size
    BY <2>2
  <2>6. ws[k][1] \in Nat /\ step \in Nat /\ size \in Nat /\ step <= size
    BY <1>1
  <2> QED
    BY <2>1, <2>4, <2>5, <2>6
<1>4. ws[1][1] = 0
  <2>1. 1 \in 1 .. n /\ (1 - 1) * step = 0
    BY <1>1
  <2>2. ws[1][1] = (1 - 1) * step
    BY <2>1 DEF WindowsOf
  <2> QED
    BY <2>1, <2>2
<1>0. min \in Nat
  OBVIOUS
<1> HIDE DEF n, min, joins
<1>5. CASE ~ joins
  <2>1. Merged(ws) = ws
    BY <1>5 DEF Merged, joins, n, min
  <2>2. \A k \in 1 .. n : ws[k][2] - ws[k][1] <= size + min
    <3> TAKE k \in 1 .. n
    <3>1. /\ ws[k][1] \in Nat /\ ws[k][2] \in Nat /\ size \in Nat
          /\ ws[k][2] - ws[k][1] <= size
      BY <1>1, <1>2
    <3> QED
      BY SMTT(30), <1>0, <3>1
  <2> QED
    BY <1>1, <1>2, <1>3, <1>4, <2>1, <2>2 DEF Tiled, n, min
<1>6. CASE joins
  <2> DEFINE a == SubSeq(ws, 1, n - 2)
             last == <<ws[n - 1][1], ws[n][2]>>
             vs == Append(a, last)
  <2>0. vs = Append(a, last)
    OBVIOUS
  <2>1. Merged(ws) = vs
    BY <1>6 DEF Merged, joins, n, min
  <2>2. /\ n - 1 \in 1 .. n /\ n \in 1 .. n /\ n - 2 \in Nat /\ n - 1 < n /\ (n - 1) + 1 = n
    <3>1. n \in Nat /\ n > 1
      BY <1>1, <1>6 DEF joins
    <3> QED
      BY <3>1
  <2>3. ws[n][2] = total /\ ws[n][1] = ws[n - 1][1] + step /\ ws[n][2] - ws[n][1] < min
    BY <1>3, <1>6, <2>2 DEF joins, n
  <2>4. /\ a \in Seq(Nat \X Nat) /\ Len(a) = n - 2
        /\ \A k \in 1 .. n - 2 : a[k] = ws[k]
    <3> DEFINE m == n - 2
    <3>1. \A k \in 1 .. m : ws[k] \in Nat \X Nat
      <4>1. \A k \in 1 .. m : k \in 1 .. Len(ws)
        BY <1>1 DEF n
      <4> QED
        BY <1>1, <4>1, ElementOfSeq
    <3>2. m \in Int /\ 1 \in Int /\ m - 1 + 1 = m /\ (1 <= m \/ m = 0)
      BY <2>2
    <3> HIDE DEF m
    <3>3. /\ SubSeq(ws, 1, m) \in Seq(Nat \X Nat)
          /\ Len(SubSeq(ws, 1, m)) = IF 1 <= m THEN m - 1 + 1 ELSE 0
          /\ \A k \in 1 .. m - 1 + 1 : SubSeq(ws, 1, m)[k] = ws[1 + k - 1]
      BY <3>1, <3>2, SubSeqProperties
    <3>4. Len(SubSeq(ws, 1, m)) = m
      BY <3>2, <3>3
    <3>5. \A k \in 1 .. m : SubSeq(ws, 1, m)[k] = ws[k]
      BY <3>2, <3>3
    <3> QED
      BY <3>3, <3>4, <3>5 DEF m
  <2> HIDE DEF a
  <2>5. last \in Nat \X Nat /\ last[1] = ws[n - 1][1] /\ last[2] = total
    BY <1>1, <2>2, <2>3
  <2> HIDE DEF last
  <2>6. /\ vs \in Seq(Nat \X Nat) /\ Len(vs) = n - 1 /\ vs # <<>>
        /\ \A k \in 1 .. n - 2 : vs[k] = ws[k]
        /\ vs[n - 1] = last
    <3>1. /\ vs \in Seq(Nat \X Nat) /\ vs # <<>> /\ Len(vs) = Len(a) + 1
          /\ \A k \in 1 .. Len(a) : vs[k] = a[k]
          /\ vs[Len(a) + 1] = last
      <4> DEFINE P == Nat \X Nat
      <4>1. a \in Seq(P) /\ last \in P
        BY <2>4, <2>5
      <4> HIDE DEF P
      <4>2. /\ Append(a, last) \in Seq(P) /\ Append(a, last) # <<>>
            /\ Len(Append(a, last)) = Len(a) + 1
            /\ \A k \in 1 .. Len(a) : Append(a, last)[k] = a[k]
            /\ Append(a, last)[Len(a) + 1] = last
        BY <4>1, AppendProperties
      <4> QED
        BY <2>0, <4>2 DEF P
    <3>2. Len(a) + 1 = n - 1
      BY <2>2, <2>4
    <3> HIDE DEF vs
    <3> QED
      BY <2>4, <3>1, <3>2
  <2> HIDE DEF vs
  <2>7. \A k \in 1 .. n - 1 : vs[k][1] = ws[k][1]
    <3>1. \A k \in 1 .. n - 1 : k \in 1 .. n - 2 \/ k = n - 1
      BY <1>1
    <3> QED
      BY <2>5, <2>6, <3>1
  <2>8. ASSUME NEW k \in 1 .. n - 2
        PROVE  /\ vs[k][1] < vs[k][2] /\ vs[k][2] <= total
               /\ vs[k][2] - vs[k][1] <= size + min
               /\ vs[k + 1][1] <= vs[k][2]
    <3>1. k \in 1 .. n /\ k < n /\ k + 1 \in 1 .. n - 1
      BY <1>1, <2>2
    <3>2. vs[k] = ws[k] /\ vs[k + 1][1] = ws[k + 1][1]
      BY <2>6, <2>7, <3>1
    <3>3. /\ ws[k][1] < ws[k][2] /\ ws[k][2] <= total
          /\ ws[k][2] - ws[k][1] <= size /\ ws[k + 1][1] <= ws[k][2]
          /\ ws[k][1] \in Nat /\ ws[k][2] \in Nat
      BY <1>1, <1>2, <1>3, <3>1
    <3>4. ws[k][2] - ws[k][1] <= size + min
      BY SMTT(30), <1>0, <3>3
    <3> QED
      BY <3>2, <3>3, <3>4
  <2>9. /\ vs[n - 1][1] < vs[n - 1][2] /\ vs[n - 1][2] <= total
        /\ vs[n - 1][2] - vs[n - 1][1] <= size + min
    <3>1. /\ ws[n - 1][1] \in Nat /\ ws[n][1] \in Nat /\ ws[n][2] \in Nat
          /\ ws[n][1] < ws[n][2]
      BY <1>1, <1>2, <2>2
    <3>2. /\ ws[n - 1][1] < total /\ total - ws[n - 1][1] <= size + min
      BY SMTT(30), <1>0, <2>3, <3>1
    <3>3. vs[n - 1][1] = ws[n - 1][1] /\ vs[n - 1][2] = total
      BY <2>5, <2>6
    <3> QED
      BY <3>2, <3>3
  <2>10. vs[1][1] = 0
    <3>1. 1 \in 1 .. n - 1
      BY <2>2
    <3> QED
      BY <1>4, <2>7, <3>1
  <2>11. ASSUME NEW k \in 1 .. Len(vs)
         PROVE  /\ vs[k][1] < vs[k][2] /\ vs[k][2] <= total
                /\ vs[k][2] - vs[k][1] <= size + min
                /\ k < Len(vs) => vs[k + 1][1] <= vs[k][2]
    <3>1. (k \in 1 .. n - 2) \/ (k = n - 1 /\ ~ (k < Len(vs)))
      BY <1>1, <2>6
    <3> QED
      BY <2>8, <2>9, <3>1
  <2> QED
    BY <2>1, <2>5, <2>6, <2>10, <2>11 DEF Tiled, min
<1> QED
  BY <1>5, <1>6

\* Two lists put together have the texts of both.
LEMMA JoinedConcat ==
    ASSUME NEW a \in Seq(Listable), NEW b \in Seq(Listable)
    PROVE  Joined(a \o b) = Joined(a) \o Joined(b)
<1> DEFINE c == a \o b
<1>1. /\ c \in Seq(Listable) /\ Len(c) = Len(a) + Len(b)
      /\ Len(a) \in Nat /\ Len(b) \in Nat
      /\ \A i \in 1 .. Len(a) + Len(b) : c[i] = IF i <= Len(a) THEN a[i] ELSE b[i - Len(a)]
  BY ConcatProperties, LenProperties
<1> HIDE DEF c
<1>2. /\ TextsOf(c) \in Seq(Seq(Word)) /\ Len(TextsOf(c)) = Len(a) + Len(b)
      /\ \A k \in 1 .. Len(a) + Len(b) : TextsOf(c)[k] = Text(c[k])
      /\ Joined(c) = FlattenSeq(TextsOf(c))
  BY <1>1, TextsType
<1>3. /\ TextsOf(a) \in Seq(Seq(Word)) /\ Len(TextsOf(a)) = Len(a)
      /\ \A k \in 1 .. Len(a) : TextsOf(a)[k] = Text(a[k])
      /\ Joined(a) = FlattenSeq(TextsOf(a))
  BY TextsType
<1>4. /\ TextsOf(b) \in Seq(Seq(Word)) /\ Len(TextsOf(b)) = Len(b)
      /\ \A k \in 1 .. Len(b) : TextsOf(b)[k] = Text(b[k])
      /\ Joined(b) = FlattenSeq(TextsOf(b))
  BY TextsType
<1> DEFINE ts == TextsOf(a) \o TextsOf(b)
<1>5. /\ ts \in Seq(Seq(Word)) /\ Len(ts) = Len(a) + Len(b)
      /\ \A i \in 1 .. Len(a) + Len(b) :
           ts[i] = IF i <= Len(a) THEN TextsOf(a)[i] ELSE TextsOf(b)[i - Len(a)]
  <2> DEFINE x == TextsOf(a)
             y == TextsOf(b)
  <2>1. x \in Seq(Seq(Word)) /\ y \in Seq(Seq(Word)) /\ Len(x) = Len(a) /\ Len(y) = Len(b)
    BY <1>3, <1>4
  <2> HIDE DEF x, y
  <2>2. /\ x \o y \in Seq(Seq(Word))
        /\ Len(x \o y) = Len(x) + Len(y)
        /\ \A i \in 1 .. Len(x) + Len(y) :
             (x \o y)[i] = IF i <= Len(x) THEN x[i] ELSE y[i - Len(x)]
    BY <2>1, ConcatProperties
  <2> QED
    BY <2>1, <2>2 DEF x, y
<1> HIDE DEF ts
<1>6. \A i \in 1 .. Len(a) + Len(b) : TextsOf(c)[i] = ts[i]
  <2> TAKE i \in 1 .. Len(a) + Len(b)
  <2>1. CASE i <= Len(a)
    <3>1. i \in 1 .. Len(a)
      BY <1>1, <2>1
    <3> QED
      BY <1>1, <1>2, <1>3, <1>5, <2>1, <3>1
  <2>2. CASE ~ (i <= Len(a))
    <3>1. i - Len(a) \in 1 .. Len(b)
      BY <1>1, <2>2
    <3> QED
      BY <1>1, <1>2, <1>4, <1>5, <2>2, <3>1
  <2> QED
    BY <2>1, <2>2
<1>7. TextsOf(c) = ts
  BY <1>2, <1>5, <1>6, SeqEqual
<1>8. FlattenSeq(ts) = FlattenSeq(TextsOf(a)) \o FlattenSeq(TextsOf(b))
  BY <1>3, <1>4, FlattenConcat DEF ts
<1> QED
  BY <1>2, <1>3, <1>4, <1>7, <1>8 DEF c

\* The number of words before the i-th element.
Start(d, i) == Len(Joined(SubSeq(d, 1, i - 1)))

\* An element begins where the ones before it end, and is found there.
LEMMA StartIs ==
    ASSUME NEW d \in Seq(Listable)
    PROVE  /\ Start(d, 1) = 0
           /\ Start(d, Len(d) + 1) = Len(Joined(d))
           /\ \A i \in 1 .. Len(d) :
                /\ Start(d, i) \in Nat
                /\ Start(d, i + 1) = Start(d, i) + Len(Text(d[i]))
                /\ Start(d, i + 1) <= Len(Joined(d))
                /\ \A q \in 1 .. Len(Text(d[i])) : Joined(d)[Start(d, i) + q] = Text(d[i])[q]
<1> DEFINE N == Len(d)
<1>1. N \in Nat /\ \A i \in 1 .. N : d[i] \in Listable
  BY LenProperties, ElementOfSeq
<1>2. Start(d, 1) = 0
  <2>1. SubSeq(d, 1, 1 - 1) = <<>>
    BY SubSeqEmpty
  <2>2. Joined(<<>>) = <<>>
    <3>1. Joined(<<>>) = FlattenSeq(<<>>)
      <4>1. [k \in DOMAIN <<>> |-> Text(<<>>[k])] = <<>>
        OBVIOUS
      <4> QED
        BY <4>1 DEF Joined
    <3>2. <<>> \in Seq(Seq(Nat)) /\ <<>> \in Seq(Nat)
      OBVIOUS
    <3> QED
      BY <3>1, <3>2, FlattenAppend
  <2>3. Joined(SubSeq(d, 1, 1 - 1)) = <<>>
    BY <2>1, <2>2, Zenon
  <2> QED
    BY <2>3 DEF Start
<1>3. Start(d, N + 1) = Len(Joined(d))
  <2>1. (N + 1) - 1 = N
    BY <1>1
  <2>2. SubSeq(d, 1, N) = d
    BY SubSeqFull
  <2> QED
    BY <2>1, <2>2 DEF Start
<1>4. ASSUME NEW i \in 1 .. N
      PROVE  /\ Start(d, i) \in Nat
             /\ Start(d, i + 1) = Start(d, i) + Len(Text(d[i]))
             /\ Start(d, i + 1) <= Len(Joined(d))
             /\ \A q \in 1 .. Len(Text(d[i])) : Joined(d)[Start(d, i) + q] = Text(d[i])[q]
  <2> DEFINE a == SubSeq(d, 1, i - 1)
             m == SubSeq(d, 1, i)
             b == SubSeq(d, i + 1, N)
             e == d[i]
  <2>1. m = a \o <<e>>
    <3>1. 1 \in 1 .. Len(d) /\ i \in 1 .. Len(d)
      BY <1>1
    <3> QED
      BY <3>1, SubSeqRecursiveSecond
  <2>2. m \o b = d
    <3>1. 1 \in 1 .. Len(d) + 1 /\ i \in 1 - 1 .. Len(d) /\ N \in i .. Len(d)
      BY <1>1
    <3>2. SubSeq(d, 1, i) \o SubSeq(d, i + 1, N) = SubSeq(d, 1, N)
      BY <3>1, ConcatAdjacentSubSeq
    <3> QED
      BY <3>2, SubSeqFull
  <2>3. a \in Seq(Listable) /\ m \in Seq(Listable) /\ b \in Seq(Listable) /\ e \in Listable
    <3>1. \A j, k \in Int : (\A l \in j .. k : d[l] \in Listable) => SubSeq(d, j, k) \in Seq(Listable)
      BY SubSeqProperties
    <3>2. /\ \A l \in 1 .. i - 1 : l \in 1 .. N
          /\ \A l \in 1 .. i : l \in 1 .. N
          /\ \A l \in i + 1 .. N : l \in 1 .. N
          /\ i \in Int /\ i - 1 \in Int /\ i + 1 \in Int /\ N \in Int /\ 1 \in Int
      BY <1>1
    <3> HIDE DEF N
    <3> QED
      BY <1>1, <3>1, <3>2
  <2>4. /\ (i + 1) - 1 = i
        /\ Start(d, i) = Len(Joined(a)) /\ Start(d, i + 1) = Len(Joined(m))
    <3>1. (i + 1) - 1 = i
      OBVIOUS
    <3> QED
      BY <3>1 DEF Start
  <2> HIDE DEF a, m, b, e
  <2>5. m = Append(a, e)
    BY <2>1, <2>3, AppendIsConcat
  <2>6. Joined(m) = Joined(a) \o Text(e) /\ Joined(d) = Joined(m) \o Joined(b)
    <3>1. Joined(Append(a, e)) = Joined(a) \o Text(e)
      BY <2>3, JoinedAppend
    <3>2. Joined(m \o b) = Joined(m) \o Joined(b)
      BY <2>3, JoinedConcat
    <3> QED
      BY <2>2, <2>5, <3>1, <3>2
  <2> DEFINE ta == Joined(a)
             te == Text(e)
             tm == Joined(m)
             tb == Joined(b)
  <2>7. ta \in Seq(Word) /\ tm \in Seq(Word) /\ tb \in Seq(Word) /\ te \in Seq(Word)
    BY <2>3, TextType, JoinedWeighs
  <2> HIDE DEF ta, te, tm, tb
  <2>8. /\ Len(ta) \in Nat /\ Len(te) \in Nat /\ Len(tm) \in Nat /\ Len(tb) \in Nat
        /\ Len(ta \o te) = Len(ta) + Len(te)
        /\ \A q \in 1 .. Len(ta) + Len(te) :
             (ta \o te)[q] = IF q <= Len(ta) THEN ta[q] ELSE te[q - Len(ta)]
        /\ Len(tm \o tb) = Len(tm) + Len(tb)
        /\ \A q \in 1 .. Len(tm) + Len(tb) :
             (tm \o tb)[q] = IF q <= Len(tm) THEN tm[q] ELSE tb[q - Len(tm)]
    BY <2>7, LenProperties, ConcatProperties
  <2>9. tm = ta \o te /\ Joined(d) = tm \o tb
    BY <2>6 DEF ta, te, tm, tb
  <2>10. /\ Len(tm) = Len(ta) + Len(te) /\ Len(Joined(d)) = Len(tm) + Len(tb)
         /\ Len(tm) <= Len(Joined(d))
    BY <2>8, <2>9
  <2>11. ASSUME NEW q \in 1 .. Len(te)
         PROVE  Joined(d)[Len(ta) + q] = te[q]
    <3>1. /\ Len(ta) + q \in 1 .. Len(ta) + Len(te)
          /\ ~ (Len(ta) + q <= Len(ta)) /\ (Len(ta) + q) - Len(ta) = q
          /\ Len(ta) + q \in 1 .. Len(tm) + Len(tb) /\ Len(ta) + q <= Len(tm)
      BY <2>8, <2>10
    <3>2. tm[Len(ta) + q] = te[q]
      BY <2>8, <2>9, <3>1
    <3>3. (tm \o tb)[Len(ta) + q] = tm[Len(ta) + q]
      BY <2>8, <3>1
    <3> QED
      BY <2>9, <3>2, <3>3
  <2> QED
    BY <2>4, <2>8, <2>10, <2>11 DEF ta, te, tm, e
<1> QED
  BY <1>2, <1>3, <1>4

\* element_at finds the element that a token is in, or follows.
LEMMA ElementAtIs ==
    ASSUME Document(doc), doc # <<>>, NEW t \in Nat
    PROVE  LET e == ElementAt(t)
           IN  /\ e \in 1 .. Len(doc)
               /\ 2 * Start(doc, e) <= t
               /\ e < Len(doc) => 2 * Start(doc, e + 1) > t
<1> DEFINE N == Len(doc)
           begins(i) == 2 * Start(doc, i)
           S == {i \in 1 .. N : begins(i) <= t}
           right(i) == begins(i) <= t /\ \A k \in 1 .. N : k > i => begins(k) > t
           chosen == CHOOSE i \in 1 .. N : right(i)
<1>1. doc \in Seq(Listable) /\ DOMAIN doc = 1 .. N /\ N \in Nat \ {0}
  BY DocumentIs
<1>2. \A i \in 1 .. N : begins(i) \in Int
  <2>1. \A i \in 1 .. N : Start(doc, i) \in Nat
    BY <1>1, StartIs
  <2> QED
    BY <2>1
<1>3. begins(1) <= t /\ 1 \in 1 .. N
  <2>1. Start(doc, 1) = 0
    BY <1>1, StartIs
  <2> QED
    BY <1>1, <2>1
<1>4. ElementAt(t) = chosen
  BY <1>1 DEF ElementAt, Start
<1> HIDE DEF begins
<1>5. \E i \in 1 .. N : right(i)
  <2>1. S \in SUBSET Int /\ S # {} /\ S \subseteq 1 .. N
    BY <1>1, <1>3
  <2>2. IsFiniteSet(S)
    <3>1. IsFiniteSet(1 .. N)
      BY <1>1, FS_Interval
    <3>2. S \in SUBSET (1 .. N)
      BY <2>1
    <3> HIDE DEF S
    <3> QED
      BY <3>1, <3>2, FS_Subset, Zenon
  <2> HIDE DEF S
  <2>3. PICK i \in S : \A k \in S : k <= i
    BY <2>1, <2>2, LeastAndGreatest
  <2>4. i \in 1 .. N /\ begins(i) <= t
    BY DEF S
  <2>5. ASSUME NEW k \in 1 .. N, k > i
        PROVE  begins(k) > t
    <3>1. ~ (k <= i)
      BY <2>4, <2>5
    <3>2. ~ (begins(k) <= t)
      BY <2>3, <3>1 DEF S
    <3> QED
      BY <1>2, <3>2
  <2> QED
    BY <2>4, <2>5
<1>6. chosen \in 1 .. N /\ right(chosen)
  <2> HIDE DEF right
  <2> QED
    BY <1>5
<1> HIDE DEF chosen
<1>7. chosen < N => begins(chosen + 1) > t
  <2>1. chosen < N => chosen + 1 \in 1 .. N /\ chosen + 1 > chosen
    BY <1>1, <1>6
  <2> QED
    BY <1>6, <2>1
<1> QED
  BY <1>4, <1>6, <1>7 DEF begins

\* Windows that leave nothing out have every token in one of them.
LEMMA TilesCover ==
    ASSUME NEW total \in Nat, NEW most, NEW ws, Tiled(ws, total, most), NEW t \in Nat, t < total
    PROVE  \E k \in 1 .. Len(ws) : ws[k][1] <= t /\ t < ws[k][2]
<1> DEFINE n == Len(ws)
           S == {k \in 1 .. n : t < ws[k][2]}
<1>1. /\ n \in Nat \ {0}
      /\ \A k \in 1 .. n : ws[k][1] \in Nat /\ ws[k][2] \in Nat
  <2>1. ws \in Seq(Nat \X Nat) /\ n \in Nat \ {0}
    BY LenProperties, EmptySeq DEF Tiled
  <2>2. \A k \in 1 .. n : ws[k] \in Nat \X Nat
    BY <2>1, ElementOfSeq
  <2> QED
    BY <2>1, <2>2
<1>2. n \in S
  BY <1>1 DEF Tiled
<1>3. S \in SUBSET Int /\ S # {} /\ S \subseteq 1 .. n
  BY <1>1, <1>2
<1>4. IsFiniteSet(S)
  <2>1. IsFiniteSet(1 .. n)
    BY <1>1, FS_Interval
  <2>2. S \in SUBSET (1 .. n)
    BY <1>3
  <2> HIDE DEF S
  <2> QED
    BY <2>1, <2>2, FS_Subset, Zenon
<1> HIDE DEF S
<1>5. PICK k \in S : \A i \in S : k <= i
  BY <1>3, <1>4, LeastAndGreatest
<1>6. k \in 1 .. n /\ t < ws[k][2]
  BY DEF S
<1>7. ws[k][1] <= t
  <2>1. CASE k = 1
    BY <2>1 DEF Tiled
  <2>2. CASE k # 1
    <3>1. k - 1 \in 1 .. n /\ k - 1 < n /\ (k - 1) + 1 = k /\ ~ (k <= k - 1)
      BY <1>1, <1>6, <2>2
    <3>2. k - 1 \notin S
      BY <1>5, <3>1
    <3>3. ~ (t < ws[k - 1][2])
      BY <3>1, <3>2 DEF S
    <3>4. ws[(k - 1) + 1][1] <= ws[k - 1][2]
      BY <3>1 DEF Tiled
    <3>5. ws[k - 1][2] \in Nat /\ ws[k][1] \in Nat
      BY <1>1, <1>6, <3>1
    <3> QED
      BY <3>1, <3>3, <3>4, <3>5
  <2> QED
    BY <2>1, <2>2
<1> QED
  BY <1>6, <1>7

\* Half of a number, rounded down.
LEMMA HalfIs ==
    ASSUME NEW z \in Nat
    PROVE  z \div 2 \in Nat /\ 2 * (z \div 2) <= z /\ z <= 2 * (z \div 2) + 1
  OBVIOUS

\* The words a .. b of those between the tokens x and y.
LEMMA WindowWords ==
    ASSUME NEW L \in Nat \ {0}, NEW x \in Nat, NEW y \in Nat, x < y, y <= 2 * L - 1,
           NEW a, a = ((x + 1) \div 2) + 1, NEW b, b = (y + 1) \div 2
    PROVE  /\ a \in 1 .. L + 1 /\ b \in a - 1 .. L
           /\ 2 * (a - 1) = x \/ 2 * (a - 1) = x + 1
           /\ 2 * (b - a + 1) - 1 <= y - x
           /\ \A j \in Nat : x <= 2 * (j - 1) /\ 2 * (j - 1) < y => a <= j /\ j <= b
<1> DEFINE h == (x + 1) \div 2
<1>1. h \in Nat /\ 2 * h <= x + 1 /\ x + 1 <= 2 * h + 1
  <2>1. x + 1 \in Nat
    OBVIOUS
  <2> QED
    BY <2>1, HalfIs
<1>2. b \in Nat /\ 2 * b <= y + 1 /\ y + 1 <= 2 * b + 1
  <2>1. y + 1 \in Nat
    OBVIOUS
  <2> QED
    BY <2>1, HalfIs
<1>3. a = h + 1
  OBVIOUS
<1> HIDE DEF h
<1> QED
  BY <1>1, <1>2, <1>3

\* The text of a window.
LEMMA WindowIs ==
    ASSUME Joined(doc) \in Seq(Word), Len(Joined(doc)) \in Nat \ {0},
           Ascends(Joined(doc), InOrder),
           NEW w \in Nat \X Nat, w[1] < w[2], w[2] <= 2 * Len(Joined(doc)) - 1
    PROVE  LET t == WindowText(w)
               T == Joined(doc)
           IN  /\ t \in Seq(Word) /\ Ascends(t, InOrder)
               /\ WordsIn(t) \subseteq WordsIn(T)
               /\ Tokens(t) <= w[2] - w[1]
               /\ t # <<>> => \E a \in 1 .. Len(T) :
                                /\ t[1] = T[a]
                                /\ 2 * (a - 1) = w[1] \/ 2 * (a - 1) = w[1] + 1
               /\ \A j \in 1 .. Len(T) :
                    w[1] <= 2 * (j - 1) /\ 2 * (j - 1) < w[2] => T[j] \in WordsIn(t)
<1> DEFINE T == Joined(doc)
           L == Len(T)
           x == w[1]
           y == w[2]
           a == ((x + 1) \div 2) + 1
           b == (y + 1) \div 2
           t == SubSeq(T, a, b)
<1>1. WindowText(w) = t
  BY DEF WindowText
<1>2. /\ a \in 1 .. L + 1 /\ b \in a - 1 .. L
      /\ 2 * (a - 1) = x \/ 2 * (a - 1) = x + 1
      /\ 2 * (b - a + 1) - 1 <= y - x
      /\ \A j \in Nat : x <= 2 * (j - 1) /\ 2 * (j - 1) < y => a <= j /\ j <= b
  <2> DEFINE l == L
             u == x
             v == y
             p == a
             q == b
  <2>1. /\ l \in Nat \ {0} /\ u \in Nat /\ v \in Nat /\ u < v /\ v <= 2 * l - 1
        /\ p = ((u + 1) \div 2) + 1 /\ q = (v + 1) \div 2
    OBVIOUS
  <2> HIDE DEF l, u, v, p, q
  <2>2. /\ p \in 1 .. l + 1 /\ q \in p - 1 .. l
        /\ 2 * (p - 1) = u \/ 2 * (p - 1) = u + 1
        /\ 2 * (q - p + 1) - 1 <= v - u
        /\ \A j \in Nat : u <= 2 * (j - 1) /\ 2 * (j - 1) < v => p <= j /\ j <= q
    BY <2>1, WindowWords
  <2> QED
    BY <2>2 DEF l, u, v, p, q
<1>3. x \in Nat /\ y \in Nat /\ x < y /\ T \in Seq(Word) /\ L \in Nat \ {0} /\ Ascends(T, InOrder)
  OBVIOUS
<1> HIDE DEF x, y, T, a, b
<1>4. /\ t \in Seq(Word) /\ Len(t) = b - a + 1
      /\ \A k \in 1 .. b - a + 1 : t[k] = T[a + k - 1] /\ a + k - 1 \in 1 .. L
  <2>1. a \in Int /\ b \in Int /\ (a <= b \/ b - a + 1 = 0)
    BY <1>2, <1>3
  <2>2. \A i \in a .. b : i \in 1 .. Len(T)
    BY <1>2, <1>3
  <2>3. \A i \in a .. b : T[i] \in Word
    BY <1>3, <2>2, ElementOfSeq
  <2>4. /\ t \in Seq(Word)
        /\ Len(t) = IF a <= b THEN b - a + 1 ELSE 0
        /\ \A k \in 1 .. b - a + 1 : t[k] = T[a + k - 1]
    BY <2>1, <2>3, SubSeqProperties
  <2>5. \A k \in 1 .. b - a + 1 : a + k - 1 \in 1 .. L
    BY <1>2, <1>3
  <2> HIDE DEF t
  <2> QED
    BY <2>1, <2>4, <2>5
<1> HIDE DEF t
<1>5. Ascends(t, InOrder)
  <2> SUFFICES ASSUME NEW k \in 1 .. Len(t), NEW l \in 1 .. Len(t), k < l
               PROVE  <<t[k], t[l]>> \in InOrder
    BY DEF Ascends
  <2>1. a \in Int /\ b \in Int
    BY <1>2, <1>3
  <2>2. /\ t[k] = T[a + k - 1] /\ t[l] = T[a + l - 1]
        /\ a + k - 1 \in 1 .. L /\ a + l - 1 \in 1 .. L /\ a + k - 1 < a + l - 1
    BY <1>4, <2>1
  <2> QED
    BY <1>3, <2>2 DEF Ascends
<1>6. /\ WordsIn(t) = {t[k] : k \in 1 .. Len(t)} /\ WordsIn(T) = {T[k] : k \in 1 .. L}
      /\ t = <<>> <=> Len(t) = 0
  BY <1>3, <1>4, WordsAre
<1>7. WordsIn(t) \subseteq WordsIn(T)
  BY <1>4, <1>6
<1>8. Tokens(t) <= y - x
  <2>1. t = <<>> => Tokens(t) = 0
    BY <1>4, TokensAre
  <2>2. t # <<>> => Tokens(t) = 2 * (b - a + 1) - 1
    BY <1>4, TokensAre
  <2> QED
    BY <1>2, <1>3, <2>1, <2>2
<1>9. ASSUME t # <<>>
      PROVE  \E k \in 1 .. L : t[1] = T[k] /\ (2 * (k - 1) = x \/ 2 * (k - 1) = x + 1)
  <2>1. a \in Int /\ b \in Int /\ b - a + 1 # 0 /\ b - a + 1 \in Nat
    BY <1>2, <1>3, <1>4, <1>6, <1>9
  <2>2. 1 \in 1 .. b - a + 1 /\ a + 1 - 1 = a
    BY <2>1
  <2>3. t[1] = T[a] /\ a \in 1 .. L
    BY <1>4, <2>2
  <2> QED
    BY <1>2, <2>3
<1>10. ASSUME NEW j \in 1 .. L, x <= 2 * (j - 1), 2 * (j - 1) < y
       PROVE  T[j] \in WordsIn(t)
  <2>1. j \in Nat /\ a <= j /\ j <= b /\ a \in Int /\ b \in Int
    BY <1>2, <1>3, <1>10
  <2>2. j - a + 1 \in 1 .. b - a + 1 /\ a + (j - a + 1) - 1 = j
    BY <2>1
  <2>3. t[j - a + 1] = T[j] /\ j - a + 1 \in 1 .. Len(t)
    BY <1>4, <2>2
  <2> QED
    BY <1>6, <2>3
<1> QED
  BY <1>1, <1>4, <1>5, <1>7, <1>8, <1>9, <1>10 DEF x, y, T

\* A window has the heading of the element that its first token is in.
LEMMA HeadingOfWindow ==
    ASSUME Document(doc), doc # <<>>, NEW x \in Nat,
           NEW a \in 1 .. Len(Joined(doc)), 2 * (a - 1) = x \/ 2 * (a - 1) = x + 1,
           NEW text, text[1] = Joined(doc)[a]
    PROVE  HeadingFits(text, doc[ElementAt(x)].heading, doc, "fixed")
<1> DEFINE e == ElementAt(x)
           N == Len(doc)
           T == Joined(doc)
<1>1. e \in 1 .. N /\ 2 * Start(doc, e) <= x /\ (e < N => 2 * Start(doc, e + 1) > x)
  BY ElementAtIs
<1>2. /\ doc \in Seq(Listable) /\ N \in Nat /\ Len(T) \in Nat
      /\ \A i \in 1 .. N : doc[i] \in Listable
  BY DocumentIs, TotalIs
<1>3. /\ Start(doc, N + 1) = Len(T)
      /\ \A i \in 1 .. N :
           /\ Start(doc, i) \in Nat
           /\ Start(doc, i + 1) = Start(doc, i) + Len(Text(doc[i]))
           /\ \A q \in 1 .. Len(Text(doc[i])) : T[Start(doc, i) + q] = Text(doc[i])[q]
  BY <1>2, StartIs
<1> HIDE DEF e, N, T
\* A word of the i-th element says so.
<1>4. ASSUME NEW i \in 1 .. N, NEW q \in 1 .. Len(Text(doc[i])), a = Start(doc, i) + q
      PROVE  text[1] = Text(doc[i])[q] /\ text[1][1] = i
  <2>1. text[1] = Text(doc[i])[q]
    BY <1>3, <1>4 DEF T
  <2>2. Text(doc[i]) \in Seq(Word)
    BY <1>2, TextType
  <2>3. Text(doc[i])[q] \in WordsIn(Text(doc[i]))
    BY <2>2, WordsAre
  <2> QED
    BY <2>1, <2>3 DEF Document, N
<1> DEFINE s == Start(doc, e)
           n == Len(Text(doc[e]))
<1>5. /\ s \in Nat /\ n \in Nat /\ Start(doc, e + 1) = s + n /\ a \in Nat /\ a <= Len(T)
      /\ 2 * s <= x /\ (e < N => 2 * (s + n) > x)
      /\ e = N => Len(T) = s + n
  <2>1. n \in Nat
    BY <1>1, <1>2, TextType, WordsAre
  <2>2. Start(doc, e + 1) = s + n /\ s \in Nat
    BY <1>1, <1>3
  <2>3. e = N => Len(T) = s + n
    BY <1>3, <2>2
  <2> HIDE DEF s, n
  <2> QED
    BY <1>1, <2>1, <2>2, <2>3 DEF s, T
<1> HIDE DEF s, n
<1>6. s + 1 <= a /\ (a <= s + n \/ (e < N /\ a = s + n + 1))
  <2>1. e = N \/ e < N
    BY <1>1, <1>2
  <2> QED
    BY <1>5, <2>1
<1>7. CASE a <= s + n
  <2>1. a - s \in 1 .. n /\ a = s + (a - s)
    BY <1>5, <1>6, <1>7
  <2>2. text[1][1] = e
    BY <1>1, <1>4, <2>1 DEF s, n
  <2> QED
    BY <2>2 DEF HeadingFits, e
<1>8. CASE e < N /\ a = s + n + 1
  <2>1. e + 1 \in 1 .. N /\ (e + 1) - 1 = e /\ e + 1 > 1
    BY <1>1, <1>2, <1>8
  <2>2. 1 \in 1 .. Len(Text(doc[e + 1])) /\ Text(doc[e + 1])[1] = <<e + 1, 1, 1>>
    <3>1. Text(doc[e + 1]) \in Seq(Word) /\ Text(doc[e + 1]) # <<>>
      BY <1>2, <2>1, TextType DEF Document, Listed, N
    <3>2. Len(Text(doc[e + 1])) \in Nat \ {0}
      BY <3>1, WordsAre
    <3>3. \A i \in 1 .. N : Text(doc[i])[1] = <<i, 1, 1>>
      BY DEF Document, N
    <3>4. 1 \in 1 .. Len(Text(doc[e + 1]))
      BY <3>2
    <3> QED
      BY <2>1, <3>3, <3>4
  <2>3. a = Start(doc, e + 1) + 1
    BY <1>5, <1>8
  <2>4. text[1] = <<e + 1, 1, 1>> /\ text[1][1] = e + 1
    BY <1>4, <2>1, <2>2, <2>3
  <2> QED
    BY <2>1, <2>4 DEF HeadingFits, e
<1> QED
  BY <1>6, <1>7, <1>8

\* The candidate of the k-th window.
WindowRow(ws, k) ==
    [index |-> k - 1, text |-> WindowText(ws[k]),
     heading |-> doc[ElementAt(ws[k][1])].heading,
     parent |-> 0, whole |-> FALSE]

WindowRows(ws) == [k \in DOMAIN ws |-> WindowRow(ws, k)]

\* Those that are kept: a window of blanks alone has no text.
Filled(ws) == {k \in DOMAIN ws : WindowRows(ws)[k].text # <<>>}

\* A window is a right candidate, with every word it begins before.
LEMMA WindowRowIs ==
    ASSUME Document(doc), doc # <<>>, NEW most, NEW ws, Tiled(ws, Total, most),
           most \in Int, config.size + config.min = most,
           NEW k \in 1 .. Len(ws)
    PROVE  /\ WindowRow(ws, k) \in ChunkRows
           /\ WindowRow(ws, k).text # <<>> =>
                \A o, n : Proper(o, WindowRow(ws, k), n, doc, "fixed", config)
           /\ \A j \in 1 .. Len(Joined(doc)) :
                ws[k][1] <= 2 * (j - 1) /\ 2 * (j - 1) < ws[k][2]
                  => Joined(doc)[j] \in WordsIn(WindowRow(ws, k).text)
<1> DEFINE T == Joined(doc)
           w == ws[k]
           t == WindowText(w)
           h == doc[ElementAt(w[1])].heading
           row == WindowRow(ws, k)
<1>1. /\ T \in Seq(Word) /\ Len(T) \in Nat \ {0}
      /\ Total = 2 * Len(T) - 1
      /\ Ascends(T, InOrder)
      /\ \A x : x \in WordsIn(T) <=> Has(doc, x)
  BY TotalIs DEF Total
<1>2. /\ w \in Nat \X Nat /\ w[1] < w[2] /\ w[2] <= 2 * Len(T) - 1
      /\ w[2] - w[1] <= most
      /\ k \in Nat \ {0}
  <2>1. ws \in Seq(Nat \X Nat)
    BY DEF Tiled
  <2>2. w \in Nat \X Nat /\ k \in Nat \ {0}
    BY <2>1, ElementOfSeq, LenProperties
  <2>3. w[1] < w[2] /\ w[2] <= Total /\ w[2] - w[1] <= most
    BY DEF Tiled
  <2> HIDE DEF w
  <2> QED
    BY <1>1, <2>2, <2>3
<1> HIDE DEF w
<1>3. /\ t \in Seq(Word) /\ Ascends(t, InOrder)
      /\ WordsIn(t) \subseteq WordsIn(T)
      /\ Tokens(t) <= w[2] - w[1]
      /\ t # <<>> => \E a \in 1 .. Len(T) :
                       /\ t[1] = T[a]
                       /\ 2 * (a - 1) = w[1] \/ 2 * (a - 1) = w[1] + 1
      /\ \A j \in 1 .. Len(T) :
           w[1] <= 2 * (j - 1) /\ 2 * (j - 1) < w[2] => T[j] \in WordsIn(t)
  BY <1>1, <1>2, WindowIs
<1>4. w[1] \in Nat /\ w[2] \in Nat
  BY <1>2
<1>5. h \in Headings
  <2>1. ElementAt(w[1]) \in 1 .. Len(doc)
    BY <1>4, ElementAtIs
  <2> QED
    BY <2>1, DocumentIs
<1>6. t # <<>> => HeadingFits(t, h, doc, "fixed")
  BY <1>3, <1>4, HeadingOfWindow
<1>7. /\ row = [index |-> k - 1, text |-> t, heading |-> h, parent |-> 0, whole |-> FALSE]
      /\ row.text = t /\ row.heading = h /\ row.parent = 0 /\ row.whole = FALSE
  BY DEF WindowRow, w
<1>8. Tokens(t) <= config.size + config.min
  <2>1. Tokens(t) \in Nat
    BY <1>3, TokensAre
  <2> HIDE DEF t
  <2>2. w[2] - w[1] <= config.size + config.min /\ w[2] - w[1] \in Int
    BY <1>2, <1>4
  <2> QED
    BY <1>3, <2>1, <2>2
<1> HIDE DEF t, h, row
<1>9. row \in ChunkRows
  <2>1. k - 1 \in Nat
    BY <1>2
  <2> QED
    BY <1>3, <1>5, <1>7, <2>1 DEF ChunkRows
<1>10. Fits(t, doc, "fixed", config)
  BY <1>8 DEF Fits
<1>11. \A x \in WordsIn(t) : x[1] \in 1 .. Len(doc)
  <2>1. \A x \in WordsIn(t) : Has(doc, x)
    BY <1>1, <1>3
  <2> QED
    BY <2>1, DocumentIs DEF Titled, Has
<1>12. ASSUME t # <<>>, NEW o, NEW n
       PROVE  Proper(o, row, n, doc, "fixed", config)
  BY <1>3, <1>6, <1>7, <1>10, <1>11, <1>12 DEF Proper
<1> QED
  BY <1>3, <1>7, <1>9, <1>12 DEF row, T, w

\* The windows become the chunks, and no word is between them.
LEMMA EmitWindowsStep ==
    ASSUME Working, EmitWindows, UNCHANGED parserVars
    PROVE  Working'
<1> DEFINE ws == Merged(windows)
           rows == WindowRows(ws)
           S == Filled(ws)
           new == At(rows, S)
           most == config.size + config.min
           T == Joined(doc)
<1>1. /\ loop = "fixed" /\ loop' = "done" /\ windows # <<>>
      /\ windows[Len(windows)][2] = Total
      /\ out' = new
      /\ rest' = rest /\ parent' = parent /\ todo' = todo /\ buffer' = buffer
      /\ SameJob
  BY DEF EmitWindows, SameJob, WindowRows, WindowRow, Filled
<1>2. /\ config.size \in Nat \ {0} /\ config.min \in Nat /\ Step \in 1 .. config.size
      /\ Total \in Nat \ {0} /\ doc # <<>> /\ Document(doc)
      /\ strategy = "fixed" /\ parent = 0 /\ buffer = <<>> /\ todo = <<>> /\ rest = <<>>
      /\ WindowsOf(windows, Step, config.size, Total)
  <2>1. strategy = "fixed"
    BY <1>1, WorkingFacts
  <2> QED
    BY <1>1, <2>1, ConfigIs, StepIs, TotalIs DEF Working, FixedInv, ListsInv, RowsInv, Total
<1>3. Tiled(ws, Total, most) /\ most \in Int
  <2> DEFINE size == config.size
             step == Step
             total == Total
  <2>1. /\ size \in Nat \ {0} /\ step \in 1 .. size /\ total \in Nat \ {0}
        /\ WindowsOf(windows, step, size, total) /\ windows # <<>>
        /\ windows[Len(windows)][2] = total /\ config.min \in Nat
    BY <1>1, <1>2
  <2> HIDE DEF size, step, total
  <2>2. Tiled(Merged(windows), total, size + config.min)
    BY <2>1, MergedIs
  <2> QED
    BY <1>2, <2>2 DEF size, total
<1> HIDE DEF ws, most
<1>4. DOMAIN ws = 1 .. Len(ws) /\ Len(ws) \in Nat
  BY <1>3, LenProperties DEF Tiled
<1>5. \A k \in 1 .. Len(ws) :
        /\ WindowRow(ws, k) \in ChunkRows
        /\ WindowRow(ws, k).text # <<>> =>
             \A o, n : Proper(o, WindowRow(ws, k), n, doc, "fixed", config)
        /\ \A j \in 1 .. Len(T) :
             ws[k][1] <= 2 * (j - 1) /\ 2 * (j - 1) < ws[k][2]
               => T[j] \in WordsIn(WindowRow(ws, k).text)
  BY <1>2, <1>3, WindowRowIs DEF most
<1>6. /\ rows \in Seq(ChunkRows) /\ Len(rows) = Len(ws)
      /\ \A k \in 1 .. Len(ws) : rows[k] = WindowRow(ws, k) /\ rows[k].index = k - 1
                                /\ rows[k].whole = FALSE
  <2>1. rows = [k \in 1 .. Len(ws) |-> WindowRow(ws, k)]
    BY <1>4 DEF WindowRows
  <2>2. \A k \in 1 .. Len(ws) : WindowRow(ws, k).index = k - 1 /\ WindowRow(ws, k).whole = FALSE
    BY DEF WindowRow
  <2> HIDE DEF rows
  <2> QED
    BY <1>4, <1>5, <2>1, <2>2
<1>7. S \in SUBSET (1 .. Len(ws)) /\ \A k \in 1 .. Len(ws) : k \in S <=> rows[k].text # <<>>
  BY <1>4 DEF Filled
<1> HIDE DEF rows, S
<1>8. /\ new \in Seq(ChunkRows)
      /\ Len(new) = Cardinality(S)
      /\ \A k \in 1 .. Len(new) : \E i \in S : new[k] = rows[i]
      /\ \A i \in S : \E k \in 1 .. Len(new) : new[k] = rows[i]
  <2>1. S \in SUBSET (1 .. Len(rows))
    BY <1>6, <1>7
  <2> QED
    BY <1>6, <2>1, AtIsSelection
<1>9. \A k, l \in 1 .. Len(new) : k < l => new[k].index # new[l].index
  <2> SUFFICES ASSUME NEW k \in 1 .. Len(new), NEW l \in 1 .. Len(new), k < l
               PROVE  new[k].index # new[l].index
    OBVIOUS
  <2>1. S \in SUBSET Int /\ IsFiniteSet(S)
    <3>1. IsFiniteSet(1 .. Len(ws))
      BY <1>4, FS_Interval
    <3> QED
      BY <1>4, <1>7, <3>1, FS_Subset
  <2>2. k \in 1 .. Cardinality(S) /\ l \in 1 .. Cardinality(S) /\ k # l
    BY <1>8
  <2>3. /\ Nth(S, k) \in S /\ Place(S, Nth(S, k)) = k
        /\ Nth(S, l) \in S /\ Place(S, Nth(S, l)) = l
    BY <2>1, <2>2, NthIsThere
  <2>4. Nth(S, k) # Nth(S, l) /\ Nth(S, k) \in 1 .. Len(ws) /\ Nth(S, l) \in 1 .. Len(ws)
    BY <1>7, <2>2, <2>3
  <2>5. new[k] = rows[Nth(S, k)] /\ new[l] = rows[Nth(S, l)]
    BY <2>2 DEF At
  <2> QED
    BY <1>6, <2>4, <2>5
<1> HIDE DEF new
<1>10. AllProper(new, doc, strategy, config)
  <2>1. \A i \in S : \A o, n : Proper(o, rows[i], n, doc, "fixed", config)
    BY <1>5, <1>6, <1>7
  <2> QED
    BY <1>2, <1>8, <2>1 DEF AllProper
<1>11. Covered(doc, new, <<>>, <<>>, <<>>)
  <2> SUFFICES ASSUME NEW w, Has(doc, w)
               PROVE  Searched(new, w)
    BY DEF Covered
  <2>1. /\ T \in Seq(Word) /\ Len(T) \in Nat \ {0}
        /\ Total = 2 * Len(T) - 1
        /\ w \in WordsIn(T)
    BY <1>2, TotalIs DEF Total
  <2>2. PICK j \in 1 .. Len(T) : w = T[j]
    BY <2>1, WordsAre
  <2> HIDE DEF T
  <2>3. 2 * (j - 1) \in Nat /\ 2 * (j - 1) < Total
    BY <2>1, <2>2
  <2> DEFINE t == 2 * (j - 1)
  <2>4. PICK k \in 1 .. Len(ws) : ws[k][1] <= t /\ t < ws[k][2]
    <3> HIDE DEF t
    <3>1. Total \in Nat /\ t \in Nat /\ t < Total
      BY <1>2, <2>3 DEF t
    <3> QED
      BY <1>3, <3>1, TilesCover
  <2>5. w \in WordsIn(rows[k].text)
    BY <1>5, <1>6, <2>2, <2>4
  <2>6. rows[k].text # <<>>
    BY <2>5 DEF WordsIn
  <2>7. k \in S
    BY <1>7, <2>6
  <2>8. PICK c \in 1 .. Len(new) : new[c] = rows[k]
    BY <1>8, <2>7
  <2> QED
    BY <1>6, <2>5, <2>8 DEF Searched
<1>12. ListsInv'
  BY <1>1, <1>2 DEF ListsInv, SameJob, Working
<1>13. RowsInv'
  BY <1>1, <1>2, <1>9, <1>10, <1>11 DEF RowsInv, SameJob
<1>14. FixedInv'
  BY <1>1 DEF FixedInv
<1> QED
  BY <1>1, <1>12, <1>13, <1>14, SameDocument DEF Working

----------------------------------------------------------------------------
(* The invariant of an indexing, and what it says                          *)

IndexInv == ParserInv /\ ReadInv /\ ChunkerInv

\* It holds of a file before it is read.
LEMMA IndexInvInit == IndexInit => IndexInv
<1> SUFFICES ASSUME IndexInit PROVE IndexInv
  OBVIOUS
<1>1. ParserInv
  BY ParserInit DEF IndexInit
<1>2. ReadInv
  BY <1>1, ReadInit DEF IndexInit
<1>3. ChunkerInv
  BY DEF IndexInit, Idle, ChunkerInv
<1> QED
  BY <1>1, <1>2, <1>3 DEF IndexInv

\* What a chunker does says nothing new of the parser.
LEMMA ParserStays ==
    ASSUME ParserInv, ReadInv, UNCHANGED parserVars
    PROVE  ParserInv' /\ ReadInv'
<1>1. file' = file
  BY DEF parserVars
<1>2. ParserInv'
  BY <1>1, FileStays DEF parserVars, ParserInv, HeadingsInForce, Parser!HeadingsInForce
<1>3. ReadInv'
  <2>1. \A p, k : IsElement(p, k)' <=> IsElement(p, k)
    BY DEF parserVars, IsElement
  <2>2. \A p, k : Passed(p, k)' <=> Passed(p, k)
    BY DEF parserVars, Passed, Parser!IsPdf, Parser!Taken
  <2>3. \A p, k : Parser!Kept(p, k)' <=> Parser!Kept(p, k)
    BY <1>1, FileStays
  <2> QED
    BY <1>1, <2>1, <2>2, <2>3 DEF ReadInv, parserVars
<1> QED
  BY <1>2, <1>3

\* Parsing and chunking keep it.
LEMMA IndexInvStep ==
    IndexInv /\ [IndexNext]_<<chunkerVars, parserVars>> => IndexInv'
<1> SUFFICES ASSUME IndexInv, [IndexNext]_<<chunkerVars, parserVars>>
             PROVE  IndexInv'
  OBVIOUS
<1>1. ParserInv /\ ReadInv /\ ChunkerInv
  BY DEF IndexInv
<1>2. CASE Parse
  <2>1. loop = "idle"
    <3> SUFFICES ASSUME loop # "idle" PROVE FALSE
      OBVIOUS
    <3>1. phase = "parsed"
      BY <1>1 DEF ChunkerInv, Working
    <3> QED
      BY <1>2, <3>1 DEF Parse, Parser!Next, Parser!Accept, Parser!Refuse, Parser!Skip,
         Parser!TakeHeading, Parser!TakeBlock, Parser!TurnToBlocks, Parser!TurnPage,
         Parser!Finish, Parser!Reading
  <2>2. ChunkerInv'
    <3>1. Idle
      BY <1>1, <2>1 DEF ChunkerInv
    <3> QED
      BY <1>2, <2>1, <3>1 DEF Parse, chunkerVars, ChunkerInv, Idle
  <2>3. ParserInv' /\ ReadInv'
    BY <1>1, <1>2, ParserStep, ReadStep DEF Parse
  <2> QED
    BY <2>2, <2>3 DEF IndexInv
<1>3. CASE Chunk
  <2>1. loop = "idle" /\ UNCHANGED parserVars
    BY <1>3 DEF Chunk, Begin
  <2>2. Working'
    BY <1>1, <1>3, <2>1, BeginStep DEF ChunkerInv
  <2>3. ChunkerInv'
    BY <2>2 DEF Working, ChunkerInv, Strategies
  <2> QED
    BY <1>1, <2>1, <2>3, ParserStays DEF IndexInv
<1>4. CASE ChunkStep /\ UNCHANGED parserVars
  <2>1. Working
    BY <1>1, <1>4 DEF ChunkerInv, ChunkStep, SlideWindow, EmitWindows, SplitElement, BufferElement,
       FinishElements, NextSection, FinishSections, TakeSentence, FinishSentences
  <2>2. Working'
    <3>1. CASE SlideWindow
      BY <1>4, <2>1, <3>1, SlideWindowStep
    <3>2. CASE EmitWindows
      BY <1>4, <2>1, <3>2, EmitWindowsStep
    <3>3. CASE SplitElement
      BY <1>4, <2>1, <3>3, SplitStep
    <3>4. CASE BufferElement
      BY <1>4, <2>1, <3>4, BufferStep
    <3>5. CASE FinishElements
      BY <1>4, <2>1, <3>5, FinishElementsStep
    <3>6. CASE NextSection
      BY <1>4, <2>1, <3>6, NextSectionStep
    <3>7. CASE FinishSections
      BY <1>4, <2>1, <3>7, FinishSectionsStep
    <3>8. CASE TakeSentence
      BY <1>4, <2>1, <3>8, TakeSentenceStep
    <3>9. CASE FinishSentences
      BY <1>4, <2>1, <3>9, FinishSentencesStep
    <3> QED
      BY <1>4, <3>1, <3>2, <3>3, <3>4, <3>5, <3>6, <3>7, <3>8, <3>9 DEF ChunkStep
  <2>3. ChunkerInv'
    BY <2>2 DEF Working, ChunkerInv, Strategies
  <2> QED
    BY <1>1, <1>4, <2>3, ParserStays DEF IndexInv
<1>5. CASE UNCHANGED <<chunkerVars, parserVars>>
  <2>1. UNCHANGED parserVars /\ SameJob
        /\ UNCHANGED <<loop, rest, parent, todo, buffer, windows, out>>
    BY <1>5 DEF chunkerVars, SameJob
  <2>2. ASSUME loop = "idle" PROVE ChunkerInv'
    BY <1>1, <1>5, <2>2 DEF ChunkerInv, Idle, chunkerVars
  <2>3. ASSUME loop # "idle" PROVE ChunkerInv'
    <3>1. Working
      BY <1>1, <2>3 DEF ChunkerInv
    <3>2. Step' = Step /\ Total' = Total
      BY <2>1 DEF SameJob, Step, Greater, Total, Joined, Tokens, Text
    <3>3. ListsInv'
      BY <2>1, <3>1 DEF ListsInv, SameJob, Working
    <3>4. RowsInv'
      BY <2>1, <3>1 DEF RowsInv, SameJob, Working
    <3>5. FixedInv'
      BY <2>1, <3>1, <3>2 DEF FixedInv, SameJob, Working
    <3>6. Working'
      BY <2>1, <3>1, <3>3, <3>4, <3>5, SameDocument DEF Working
    <3> QED
      BY <3>6 DEF Working, ChunkerInv, Strategies
  <2> QED
    BY <1>1, <2>1, <2>2, <2>3, ParserStays DEF IndexInv
<1> QED
  BY <1>2, <1>3, <1>4, <1>5 DEF IndexNext

\* What is known of the candidates, whatever the loop is at.
LEMMA CandidatesAre ==
    ASSUME IndexInv
    PROVE  /\ DOMAIN out = 1 .. Len(out) /\ Len(out) \in Nat
           /\ DOMAIN out # {} => Working
           /\ \A k \in DOMAIN out : Proper(out, out[k], k, doc, strategy, config)
                                    /\ out[k] \in ChunkRows
<1>1. CASE loop = "idle"
  <2>1. out = <<>>
    BY <1>1 DEF IndexInv, ChunkerInv, Idle
  <2> QED
    BY <2>1
<1>2. CASE loop # "idle"
  <2>1. Working /\ AllProper(out, doc, strategy, config)
    BY <1>2 DEF IndexInv, ChunkerInv, Working, RowsInv
  <2> QED
    BY <2>1, LenProperties, ElementOfSeq DEF AllProper
<1> QED
  BY <1>1, <1>2

\* The words of a candidate ascend.
LEMMA WordsAreInOrder == IndexInv => TextInOrder
<1> SUFFICES ASSUME IndexInv, NEW k \in DOMAIN out,
                    NEW a \in DOMAIN out[k].text, NEW b \in DOMAIN out[k].text, a < b
             PROVE  Before(out[k].text[a], out[k].text[b])
  BY DEF TextInOrder
<1>1. Ascends(out[k].text, InOrder) /\ out[k] \in ChunkRows
  BY CandidatesAre DEF Proper
<1>2. out[k].text \in Seq(Word)
  BY <1>1 DEF ChunkRows
<1>3. DOMAIN out[k].text = 1 .. Len(out[k].text)
  BY <1>2, LenProperties
<1> QED
  BY <1>1, <1>3 DEF Ascends, InOrder

\* The elements are the document, as the parser left them.
LEMMA DocumentIsParsed ==
    ASSUME IndexInv, Working
    PROVE  /\ Document(doc) /\ Len(doc) = Len(elements)
           /\ DOMAIN elements = 1 .. Len(elements) /\ DOMAIN doc = 1 .. Len(doc)
           /\ \A i \in 1 .. Len(elements) :
                /\ doc[i].heading = elements[i].heading
                /\ \A s \in DOMAIN elements[i].sizes : \A w \in 1 .. elements[i].sizes[s] :
                      <<i, s, w>> \in WordsIn(Text(doc[i]))
<1>1. elements \in Seq(Elements) /\ DOMAIN elements = 1 .. Len(elements)
  BY LenProperties DEF IndexInv, ParserInv
<1>2. \A i \in 1 .. Len(elements) : elements[i].sizes # <<>>
  BY <1>1 DEF IndexInv, ReadInv
<1>3. doc = [i \in DOMAIN elements |-> Element(elements, i)]
  BY DEF Working, ParsedDoc
<1>4. /\ Document(doc) /\ Len(doc) = Len(elements)
      /\ \A i \in 1 .. Len(elements) :
           /\ doc[i].heading = elements[i].heading
           /\ \A s \in DOMAIN elements[i].sizes : \A w \in 1 .. elements[i].sizes[s] :
                 <<i, s, w>> \in WordsIn(Text(doc[i]))
  BY <1>1, <1>2, <1>3, DocumentOf
<1> QED
  BY <1>1, <1>4, DocumentIs

\* Every word of every block to be kept is in a chunk, once the chunker is done.
LEMMA NoBlockIsLost ==
    ASSUME IndexInv, loop = "done",
           NEW p \in DOMAIN file.pages, NEW k \in DOMAIN file.pages[p],
           Parser!Kept(p, k)
    PROVE  \E i \in DOMAIN elements :
             /\ elements[i].page = p /\ elements[i].at = k
             /\ \A s \in DOMAIN elements[i].sizes : \A w \in 1 .. elements[i].sizes[s] :
                  \E c \in DOMAIN out :
                     ~ out[c].whole /\ <<i, s, w>> \in WordsIn(out[c].text)
<1>1. Working
  BY DEF IndexInv, ChunkerInv
<1>2. /\ buffer = <<>> /\ todo = <<>> /\ rest = <<>>
      /\ Covered(doc, out, buffer, todo, rest)
  BY <1>1 DEF Working, ListsInv, RowsInv
<1>3. \A w : Has(doc, w) => Searched(out, w)
  BY <1>2, NothingThere DEF Covered
<1>4. PICK i \in DOMAIN elements : elements[i].page = p /\ elements[i].at = k
  <2>1. Passed(p, k)
    BY <1>1 DEF Working, Passed
  <2> QED
    BY <2>1 DEF IndexInv, ReadInv, IsElement
<1>5. ASSUME NEW s \in DOMAIN elements[i].sizes, NEW w \in 1 .. elements[i].sizes[s]
      PROVE  \E c \in DOMAIN out : ~ out[c].whole /\ <<i, s, w>> \in WordsIn(out[c].text)
  <2>1. i \in 1 .. Len(doc) /\ <<i, s, w>> \in WordsIn(Text(doc[i]))
    BY <1>1, DocumentIsParsed
  <2>2. Searched(out, <<i, s, w>>)
    BY <1>3, <2>1 DEF Has
  <2> QED
    BY <2>2, CandidatesAre DEF Searched
<1> QED
  BY <1>4, <1>5

\* Whatever the file, the chunking strategy and its configuration, every word of
\* every block that the parser keeps is in a chunk that is searched once the
\* chunker is done, and no chunk has words out of order.
THEOREM TextAlwaysSurvives == IndexSpec => []TextSurvives
<1>1. IndexInv => TextSurvives
  BY WordsAreInOrder, NoBlockIsLost DEF TextSurvives
<1> QED
  BY <1>1, IndexInvInit, IndexInvStep, PTL DEF IndexSpec

\* A chunk carries the heading of its first word.
LEMMA HeadingsOfChunks == IndexInv => ChunkHeadingsInForce
<1> SUFFICES ASSUME IndexInv, NEW c \in DOMAIN out
             PROVE  LET first == out[c].text[1][1]
                    IN  \/ Parser!InForce(elements[first], out[c].heading)
                        \/ /\ strategy = "fixed"
                           /\ first > 1 /\ out[c].text[1] = <<first, 1, 1>>
                           /\ Parser!InForce(elements[first - 1], out[c].heading)
  BY DEF ChunkHeadingsInForce
<1> DEFINE text == out[c].text
           first == text[1][1]
<1>1. /\ Working /\ Proper(out, out[c], c, doc, strategy, config)
      /\ out[c] \in ChunkRows
  BY CandidatesAre
<1>2. text \in Seq(Word) /\ text # <<>>
  BY <1>1 DEF ChunkRows, Proper
<1>3. text[1] \in WordsIn(text)
  BY <1>2, WordsAre
<1>4. first \in 1 .. Len(doc) /\ HeadingFits(text, out[c].heading, doc, strategy)
  BY <1>1, <1>3 DEF Proper
<1>5. /\ Len(doc) = Len(elements) /\ Len(doc) \in Nat
      /\ \A i \in 1 .. Len(doc) :
           /\ doc[i].heading = elements[i].heading
           /\ Parser!InForce(elements[i], elements[i].heading)
  <2>1. HeadingsInForce
    BY DEF IndexInv, ParserInv
  <2> QED
    BY <1>1, <2>1, DocumentIsParsed, DocumentIs DEF HeadingsInForce, Parser!HeadingsInForce
<1> HIDE DEF text
<1>6. CASE out[c].heading = doc[first].heading
  BY <1>4, <1>5, <1>6 DEF text
<1>7. CASE /\ strategy = "fixed"
           /\ first > 1 /\ text[1] = <<first, 1, 1>>
           /\ out[c].heading = doc[first - 1].heading
  <2>1. first - 1 \in 1 .. Len(doc)
    BY <1>4, <1>5, <1>7
  <2>2. Parser!InForce(elements[first - 1], out[c].heading)
    BY <1>5, <1>7, <2>1
  <2> QED
    BY <1>7, <2>2 DEF text
<1> QED
  BY <1>4, <1>6, <1>7 DEF HeadingFits

\* A chunk is stored under the heading of the element where its text begins,
\* whichever chunker made it: the nearest in the file, or for a PDF's table the
\* last one of the pages before.  A fixed window that begins with the blank before
\* an element has the heading of the text that ends there.
THEOREM ChunkHeadingsAlwaysInForce == IndexSpec => []ChunkHeadingsInForce
  BY HeadingsOfChunks, IndexInvInit, IndexInvStep, PTL DEF IndexSpec

\* Every candidate is one the database takes.
LEMMA RowsAreWellFormed == IndexInv => CandidatesWellFormed
<1> SUFFICES ASSUME IndexInv PROVE CandidatesWellFormed
  OBVIOUS
<1>1. /\ DOMAIN out = 1 .. Len(out) /\ Len(out) \in Nat
      /\ \A k \in DOMAIN out : Proper(out, out[k], k, doc, strategy, config)
                               /\ out[k] \in ChunkRows /\ Working
  BY CandidatesAre
<1>2. ASSUME NEW k \in DOMAIN out, NEW l \in DOMAIN out, k # l
      PROVE  out[k].index # out[l].index
  <2>1. CASE strategy = "fixed"
    <3>1. \A i, j \in 1 .. Len(out) : i < j => out[i].index # out[j].index
      BY <1>1, <2>1 DEF Working, RowsInv
    <3>2. k < l \/ l < k
      BY <1>1, <1>2
    <3> QED
      BY <1>1, <3>1, <3>2
  <2>2. CASE strategy # "fixed"
    <3>1. out[k].index = k - 1 /\ out[l].index = l - 1 /\ k \in Nat /\ l \in Nat
      BY <1>1, <2>2 DEF Proper
    <3> QED
      BY <1>2, <3>1
  <2> QED
    BY <2>1, <2>2
<1>3. ASSUME NEW k \in DOMAIN out, out[k].parent # 0
      PROVE  LET p == out[k].parent
             IN  /\ p < k /\ out[p].whole /\ out[p].parent = 0
                 /\ WordsIn(out[k].text) \subseteq WordsIn(out[p].text)
  <2>1. out[k].parent \in 1 .. k - 1 /\ IsParent(out, out[k].parent, out[k].text) /\ k \in Nat
    BY <1>1, <1>3 DEF Proper
  <2> QED
    BY <2>1 DEF IsParent
<1>4. ASSUME strategy = "structural", NEW k \in DOMAIN out, NEW w \in WordsIn(out[k].text)
      PROVE  doc[w[1]].heading = out[k].heading
  BY <1>1, <1>4 DEF Proper
<1> QED
  BY <1>2, <1>3, <1>4 DEF CandidatesWellFormed

\* No two candidates have the same chunk_index, a parent comes before its
\* children, is nobody's child and covers their text, and a structural chunk is
\* of one heading: whatever is chunked, index_document_version can insert them.
THEOREM CandidatesAlwaysWellFormed == IndexSpec => []CandidatesWellFormed
  BY RowsAreWellFormed, IndexInvInit, IndexInvStep, PTL DEF IndexSpec

\* No chunk exceeds the budget by more than what is not counted.
LEMMA SizesAreBounded == IndexInv => ChunkExcessBounded
  BY CandidatesAre DEF Proper, Fits, ChunkExcessBounded

\* How far a chunk that is searched may exceed the budget, for every strategy and
\* every chunk_size, chunk_overlap and min_chunk_size.
THEOREM ChunkExcessAlwaysBounded == IndexSpec => []ChunkExcessBounded
  BY SizesAreBounded, IndexInvInit, IndexInvStep, PTL DEF IndexSpec

----------------------------------------------------------------------------
(* What Ingestion takes for granted of its constant Candidates             *)

\* The parser has something to make an element of.
HasContent ==
    \E p \in DOMAIN file.pages : \E k \in DOMAIN file.pages[p] : Parser!Kept(p, k)

\* The parents of the candidates, and that there are any if the file, not the
\* strategy or its configuration, says so.
ParentsOf(candidates) == [k \in DOMAIN candidates |-> candidates[k].parent]

ForestOfContent ==
    loop = "done" =>
        /\ ParentsOf(out) \in Seq(Nat)
        /\ \A k \in DOMAIN ParentsOf(out) : ParentsOf(out)[k] \in 0 .. k - 1
        /\ ParentsOf(out) = <<>> <=> ~ HasContent

\* A block that is kept leaves a chunk, and a chunk is of a block that is kept.
LEMMA ChunksAreOfContent ==
    ASSUME IndexInv, loop = "done"
    PROVE  HasContent <=> DOMAIN out # {}
<1>1. ASSUME HasContent
      PROVE  DOMAIN out # {}
  <2>1. PICK p \in DOMAIN file.pages : \E k \in DOMAIN file.pages[p] : Parser!Kept(p, k)
    BY <1>1 DEF HasContent
  <2>2. PICK k \in DOMAIN file.pages[p] : Parser!Kept(p, k)
    BY <2>1
  <2>3. PICK i \in DOMAIN elements :
           \A s \in DOMAIN elements[i].sizes : \A w \in 1 .. elements[i].sizes[s] :
              \E c \in DOMAIN out :
                 ~ out[c].whole /\ <<i, s, w>> \in WordsIn(out[c].text)
    BY <2>2, NoBlockIsLost
  <2>4. elements[i].sizes \in Seq(Nat \ {0}) /\ elements[i].sizes # <<>>
    <3>1. elements \in Seq(Elements) /\ elements[i].sizes # <<>>
      BY DEF IndexInv, ParserInv, ReadInv
    <3>2. elements[i] \in Elements
      BY <3>1, LenProperties, ElementOfSeq
    <3> QED
      BY <3>1, <3>2 DEF Elements
  <2>5. 1 \in DOMAIN elements[i].sizes /\ 1 \in 1 .. elements[i].sizes[1]
    BY <2>4
  <2> QED
    BY <2>3, <2>5
<1>2. ASSUME NEW c \in DOMAIN out
      PROVE  HasContent
  <2>1. Working /\ out[c].text # <<>> /\ out[c].text \in Seq(Word)
        /\ \A w \in WordsIn(out[c].text) : w[1] \in 1 .. Len(doc)
    BY CandidatesAre DEF Proper, ChunkRows
  <2>2. out[c].text[1] \in WordsIn(out[c].text)
    BY <2>1, WordsAre
  <2>3. PICK i \in DOMAIN elements : i = out[c].text[1][1]
    BY <2>1, <2>2, DocumentIsParsed
  <2>4. Parser!Kept(elements[i].page, elements[i].at)
    BY DEF IndexInv, ParserInv, HeadingsInForce, Parser!HeadingsInForce
  <2> QED
    BY <2>4 DEF HasContent, Parser!Kept, Parser!Has
<1> QED
  BY <1>1, <1>2

\* Whatever chunker is configured, its candidates are what Ingestion assumes of
\* the chunks of a content: a forest with parents first (CandidatesAreForests),
\* which is empty for every configuration or for none (EmptinessIsOfContent).
THEOREM CandidatesAsAssumed == IndexSpec => []ForestOfContent
<1>1. ASSUME IndexInv
      PROVE  ForestOfContent
  <2> SUFFICES ASSUME loop = "done"
               PROVE  /\ ParentsOf(out) \in Seq(Nat)
                      /\ \A k \in DOMAIN ParentsOf(out) : ParentsOf(out)[k] \in 0 .. k - 1
                      /\ ParentsOf(out) = <<>> <=> ~ HasContent
    BY DEF ForestOfContent
  <2>1. /\ DOMAIN out = 1 .. Len(out) /\ Len(out) \in Nat
        /\ \A k \in DOMAIN out : out[k].parent \in 0 .. k - 1 /\ out[k].parent \in Nat
    BY <1>1, CandidatesAre DEF Proper, ChunkRows
  <2>2. ParentsOf(out) \in Seq(Nat) /\ DOMAIN ParentsOf(out) = 1 .. Len(out)
    BY <2>1 DEF ParentsOf
  <2>3. \A k \in DOMAIN ParentsOf(out) : ParentsOf(out)[k] \in 0 .. k - 1
    BY <2>1 DEF ParentsOf
  <2>4. ParentsOf(out) = <<>> <=> DOMAIN out = {}
    <3>1. Len(ParentsOf(out)) = Len(out)
      BY <2>1, <2>2, LenProperties
    <3>2. ParentsOf(out) = <<>> <=> Len(ParentsOf(out)) = 0
      BY <2>2, EmptySeq
    <3> QED
      BY <2>1, <3>1, <3>2
  <2> QED
    BY <1>1, <2>2, <2>3, <2>4, ChunksAreOfContent
<1> QED
  BY <1>1, IndexInvInit, IndexInvStep, PTL DEF IndexSpec

============================================================================

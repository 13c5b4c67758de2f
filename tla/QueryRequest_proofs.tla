------------------------- MODULE QueryRequest_proofs -------------------------
(***************************************************************************)
(* Proofs about QueryRequest for any number of requests of each kind, any  *)
(* assignment of trace ids, any size of the trace store and any number of  *)
(* progress events.                                                        *)
(*                                                                         *)
(* What a stream's client has received, followed by what is in the queue,  *)
(* is what was emitted, and then the mark that closes the queue; a trace   *)
(* is stored by the step that settles its request, so nothing is emitted   *)
(* after it.                                                               *)
(***************************************************************************)
EXTENDS QueryRequest, Places_proofs

Completed(s) == \E k \in DOMAIN s : s[k] = "completed"

\* How a pipeline that has not returned may stand.
Unfinished == {"idle"} \union Running \union (Outcomes \ {"returned"})

\* query.completed is the last event of a pipeline that returned, but for POST
\* /query/retrieve, whose handler emits it.
AnswerInv(r) ==
    /\ phase[r] = "idle" => events[r] = <<>> /\ client[r] = "none"
    /\ client[r] = "ended" => r \in Streams
    /\ client[r] \in {"answer", "timeout", "error"} =>
          phase[r] = "settled" /\ r \notin Streams
    /\ client[r] = "answer" => Completed(events[r])
    /\ client[r] \in {"timeout", "error"} => ~ Completed(events[r])
    /\ Completed(events[r]) => Last(events[r]) = "completed"
    /\ phase[r] \in Unfinished => ~ Completed(events[r])
    /\ phase[r] = "returned" => (Completed(events[r]) <=> r \notin Retrieves)
    /\ phase[r] \in {"generating", "validating"} => r \notin Retrieves

\* The elements of all are those of rec and then those of que.
Passes(rec, que, all) ==
    /\ Len(rec) + Len(que) = Len(all)
    /\ \A k \in 1 .. Len(rec) : rec[k] = all[k]
    /\ \A k \in 1 .. Len(que) : que[k] = all[Len(rec) + k]

\* The client and the queue of a stream.
StreamInv(r) ==
    /\ client[r] = "ended" => phase[r] = "settled" /\ received[r] = events[r]
    /\ client[r] # "ended" =>
          Passes(received[r], queue[r],
                 IF phase[r] = "settled" THEN Append(events[r], Close)
                                         ELSE events[r])
    /\ phase[r] = "disconnected" => client[r] = "gone"
    /\ phase[r] = "settled" /\ client[r] # "gone" =>
          Last(events[r]) \in {"completed", "failed"}

\* The trace of r was stored.
Kept(r) == \E k \in DOMAIN keeps : keeps[k] = r

\* The trace of r is in the store or has a reason not to be.
TraceKept(r) ==
    \/ \E m \in DOMAIN store : store[m].by = r
    \/ \E q \in Requests : id[q] = id[r] /\ Younger(q, r)
    \/ /\ Len(store) = MaxTraces
       /\ \A m \in DOMAIN store : Younger(store[m].by, r)

TraceInv(r) ==
    (client[r] = "answer" \/ (r \in Streams /\ phase[r] = "settled")) =>
        Kept(r) /\ TraceKept(r)

\* The store is in the order in which its traces were stored.
AgesInv ==
    /\ \A m \in DOMAIN store : Kept(store[m].by)
    /\ \A m, n \in DOMAIN store : m < n => Younger(store[n].by, store[m].by)

IInv ==
    /\ TypeOK
    /\ \A r \in Requests : AnswerInv(r)
    /\ \A r \in Streams : StreamInv(r)
    /\ StoredTracesAreFinal
    /\ AgesInv
    /\ \A r \in Requests : TraceInv(r)

----------------------------------------------------------------------------
(* Sequences of events *)

Elements == EventTypes \union {Close}

LEMMA CloseIsNoEvent == Close \notin EventTypes
  BY DEF Close, EventTypes

LEMMA CompletedAppend ==
    ASSUME NEW s \in Seq(EventTypes), NEW x \in EventTypes
    PROVE  /\ Append(s, x) \in Seq(EventTypes)
           /\ Completed(Append(s, x)) <=> Completed(s) \/ x = "completed"
           /\ Last(Append(s, x)) = x
<1>1. /\ Append(s, x) \in Seq(EventTypes) /\ Len(Append(s, x)) = Len(s) + 1
      /\ Append(s, x)[Len(s) + 1] = x /\ Len(s) \in Nat
      /\ \A k \in 1 .. Len(s) : Append(s, x)[k] = s[k]
      /\ DOMAIN s = 1 .. Len(s) /\ DOMAIN Append(s, x) = 1 .. Len(s) + 1
  OBVIOUS
<1>2. Completed(Append(s, x)) <=> Completed(s) \/ x = "completed"
  BY <1>1 DEF Completed
<1> QED
  BY <1>1, <1>2 DEF Last

\* What is emitted goes into the queue.
LEMMA PassesAppend ==
    ASSUME NEW rec \in Seq(Elements), NEW que \in Seq(Elements),
           NEW all \in Seq(Elements), NEW x \in Elements, Passes(rec, que, all)
    PROVE  Passes(rec, Append(que, x), Append(all, x))
<1>1. /\ Len(Append(que, x)) = Len(que) + 1 /\ Len(Append(all, x)) = Len(all) + 1
      /\ Len(que) \in Nat /\ Len(all) \in Nat /\ Len(rec) \in Nat
      /\ Append(que, x)[Len(que) + 1] = x /\ Append(all, x)[Len(all) + 1] = x
      /\ \A k \in 1 .. Len(que) : Append(que, x)[k] = que[k]
      /\ \A k \in 1 .. Len(all) : Append(all, x)[k] = all[k]
  OBVIOUS
<1>2. \A k \in 1 .. Len(rec) : rec[k] = Append(all, x)[k]
  BY <1>1 DEF Passes
<1>3. ASSUME NEW k \in 1 .. Len(que) + 1
      PROVE  Append(que, x)[k] = Append(all, x)[Len(rec) + k]
  <2>1. CASE k \in 1 .. Len(que)
    BY <1>1, <2>1 DEF Passes
  <2>2. CASE k = Len(que) + 1
    BY <1>1, <2>2 DEF Passes
  <2>3. k \in 1 .. Len(que) \/ k = Len(que) + 1
    OBVIOUS
  <2> QED
    BY <2>1, <2>2, <2>3
<1>4. Len(rec) + Len(Append(que, x)) = Len(Append(all, x))
  BY <1>1 DEF Passes
<1>5. \A k \in 1 .. Len(Append(que, x)) :
         Append(que, x)[k] = Append(all, x)[Len(rec) + k]
  <2>1. Len(Append(que, x)) = Len(que) + 1
    BY <1>1
  <2> QED
    BY <1>3, <2>1
<1> QED
  BY <1>2, <1>4, <1>5 DEF Passes

\* What is delivered comes out of the queue.
LEMMA PassesDeliver ==
    ASSUME NEW rec \in Seq(Elements), NEW que \in Seq(Elements), que # <<>>,
           NEW all \in Seq(Elements), Passes(rec, que, all)
    PROVE  Passes(Append(rec, Head(que)), Tail(que), all)
<1>1. /\ Len(Append(rec, Head(que))) = Len(rec) + 1 /\ Len(Tail(que)) = Len(que) - 1
      /\ Len(que) \in Nat \ {0} /\ Len(all) \in Nat /\ Len(rec) \in Nat
      /\ Append(rec, Head(que))[Len(rec) + 1] = que[1]
      /\ \A k \in 1 .. Len(rec) : Append(rec, Head(que))[k] = rec[k]
      /\ \A k \in 1 .. Len(que) - 1 : Tail(que)[k] = que[k + 1]
  OBVIOUS
<1>2. ASSUME NEW k \in 1 .. Len(rec) + 1
      PROVE  Append(rec, Head(que))[k] = all[k]
  <2>1. CASE k \in 1 .. Len(rec)
    BY <1>1, <2>1 DEF Passes
  <2>2. CASE k = Len(rec) + 1
    BY <1>1, <2>2 DEF Passes
  <2> QED
    BY <1>1, <2>1, <2>2
<1>3. ASSUME NEW k \in 1 .. Len(que) - 1
      PROVE  Tail(que)[k] = all[Len(rec) + 1 + k]
  <2>1. k + 1 \in 1 .. Len(que) /\ Len(rec) + (k + 1) = Len(rec) + 1 + k
    BY <1>1
  <2>2. que[k + 1] = all[Len(rec) + (k + 1)]
    BY <2>1 DEF Passes
  <2> QED
    BY <1>1, <2>1, <2>2
<1> QED
  BY <1>1, <1>2, <1>3 DEF Passes

\* The mark comes last: who takes it has received everything.
LEMMA PassesClose ==
    ASSUME NEW rec \in Seq(EventTypes), NEW que \in Seq(Elements), que # <<>>,
           NEW s \in Seq(EventTypes), Head(que) = Close
    PROVE  /\ ~ Passes(rec, que, s)
           /\ Passes(rec, que, Append(s, Close)) => rec = s
<1>1. /\ Len(que) \in Nat \ {0} /\ Len(s) \in Nat /\ Len(rec) \in Nat
      /\ que[1] = Close
      /\ \A k \in 1 .. Len(s) : s[k] # Close /\ Append(s, Close)[k] = s[k]
      /\ Len(Append(s, Close)) = Len(s) + 1
  BY CloseIsNoEvent
<1>2. ~ Passes(rec, que, s)
  BY <1>1 DEF Passes
<1>3. ASSUME Passes(rec, que, Append(s, Close))
      PROVE  rec = s
  <2>1. Len(rec) = Len(s)
    BY <1>1, <1>3 DEF Passes
  <2>2. \A k \in 1 .. Len(rec) : rec[k] = s[k]
    BY <1>1, <1>3, <2>1 DEF Passes
  <2> QED
    BY <2>1, <2>2
<1> QED
  BY <1>2, <1>3

----------------------------------------------------------------------------
(* The trace store *)

Traces == [id : TraceIds, by : Requests, events : Seq(EventTypes)]

\* new is old without the trace of t's id and with t behind the others, whose
\* order it keeps; if that is one too many, the first is missing.
Keeps(old, t, new) ==
    /\ Len(new) <= MaxTraces
    /\ \A m \in DOMAIN new :
          \/ new[m] = t
          \/ \E i \in DOMAIN old : new[m] = old[i] /\ old[i].id # t.id
    /\ \A m, n \in DOMAIN new : new[m].id = new[n].id => m = n
    /\ \E m \in DOMAIN new : new[m] = t
    /\ \A i \in DOMAIN old :
          \/ old[i].id = t.id
          \/ \E m \in DOMAIN new : new[m] = old[i]
          \/ /\ Len(new) = MaxTraces
             /\ \A m \in DOMAIN new :
                   new[m] = t \/ \E j \in DOMAIN old : i < j /\ new[m] = old[j]
    /\ \A m, n \in DOMAIN new : m < n =>
          \/ new[n] = t
          \/ \E i, j \in DOMAIN old : i < j /\ new[m] = old[i] /\ new[n] = old[j]
    /\ Len(old) = MaxTraces => Len(new) = MaxTraces

LEMMA StoredIsKept ==
    ASSUME NEW s \in Seq(Traces), NEW t \in Traces, Len(s) <= MaxTraces,
           \A m, n \in DOMAIN s : s[m].id = s[n].id => m = n
    PROVE  Stored(s, t) \in Seq(Traces) /\ Keeps(s, t, Stored(s, t))
<1> DEFINE S == {m \in DOMAIN s : s[m].id # t.id}
           o == Others(s, t)
           all == Append(o, t)
<1>1. DOMAIN s = 1 .. Len(s) /\ Len(s) \in Nat /\ S \in SUBSET (1 .. Len(s))
  OBVIOUS
<1>2. o = At(s, S)
  BY DEF Others
<1>3. /\ o \in Seq(Traces) /\ Len(o) <= Len(s) /\ Len(o) = Cardinality(S)
      /\ \A k \in 1 .. Len(o) : \E i \in S : o[k] = s[i]
      /\ \A i \in S : \E k \in 1 .. Len(o) : o[k] = s[i]
  <2> HIDE DEF S, o
  <2>1. /\ At(s, S) \in Seq(Traces)
        /\ Len(At(s, S)) = Cardinality(S)
        /\ Cardinality(S) <= Len(s)
        /\ \A k \in 1 .. Len(At(s, S)) : \E i \in S : At(s, S)[k] = s[i]
        /\ \A i \in S : \E k \in 1 .. Len(At(s, S)) : At(s, S)[k] = s[i]
    BY <1>1, AtIsSelection
  <2> QED
    BY <1>2, <2>1
<1>4. Cardinality(S) \in Nat /\ Cardinality(S) >= Len(s) - 1
  <2>1. \A n \in Nat : IsFiniteSet(1 .. n) /\ Cardinality(1 .. n) = n
    BY FS_Interval
  <2>2. IsFiniteSet(1 .. Len(s)) /\ Cardinality(1 .. Len(s)) = Len(s)
    BY <1>1, <2>1
  <2>3. CASE \A i \in 1 .. Len(s) : s[i].id # t.id
    <3>1. S = 1 .. Len(s)
      BY <1>1, <2>3
    <3> HIDE DEF S
    <3> QED
      BY <1>1, <2>2, <3>1
  <2>4. ASSUME NEW i \in 1 .. Len(s), s[i].id = t.id
        PROVE  Cardinality(S) \in Nat /\ Cardinality(S) >= Len(s) - 1
    <3>1. S = (1 .. Len(s)) \ {i}
      BY <1>1, <2>4
    <3>2. Cardinality((1 .. Len(s)) \ {i}) = Len(s) - 1
      BY <2>2, FS_RemoveElement
    <3>3. Len(s) >= 1
      BY <1>1
    <3> HIDE DEF S
    <3> QED
      BY <1>1, <3>1, <3>2, <3>3
  <2> QED
    BY <2>3, <2>4
<1>16. IsFiniteSet(S) /\ S \in SUBSET Int
  <2>1. IsFiniteSet(1 .. Len(s))
    BY <1>1, FS_Interval
  <2>2. S \in SUBSET Int
    BY <1>1
  <2> HIDE DEF S
  <2>3. IsFiniteSet(S)
    BY <1>1, <2>1, FS_Subset
  <2> QED
    BY <2>2, <2>3
<1>17. \A k \in 1 .. Len(o) : /\ Nth(S, k) \in S /\ Place(S, Nth(S, k)) = k
                             /\ o[k] = s[Nth(S, k)]
  <2>1. \A k \in 1 .. Len(o) : o[k] = s[Nth(S, k)]
    BY <1>2, <1>3 DEF At
  <2> HIDE DEF S, o
  <2> QED
    BY <1>3, <1>16, <2>1, NthIsThere
<1>5. \A j, k \in 1 .. Len(o) : o[j].id = o[k].id => j = k
  <2>1. \A i, j \in S : s[i].id = s[j].id => i = j
    BY <1>1
  <2> HIDE DEF S, o
  <2> QED
    BY <1>17, <2>1
<1>18. ASSUME NEW j \in 1 .. Len(o), NEW k \in 1 .. Len(o), j < k
       PROVE  \E a, b \in DOMAIN s : a < b /\ o[j] = s[a] /\ o[k] = s[b]
  <2>1. Nth(S, j) \in DOMAIN s /\ Nth(S, k) \in DOMAIN s
    BY <1>1, <1>17
  <2>2. Nth(S, j) \in Int /\ Nth(S, k) \in Int /\ j \in Int /\ k \in Int
    BY <1>1, <2>1
  <2>3. Nth(S, k) < Nth(S, j) => k < j
    <3> DEFINE x == Nth(S, k)
               y == Nth(S, j)
    <3> HIDE DEF S, o
    <3>1. x \in S /\ y \in S /\ Place(S, x) = k /\ Place(S, y) = j
      BY <1>17
    <3> HIDE DEF x, y
    <3>2. ASSUME x < y
          PROVE  Place(S, x) < Place(S, y)
      BY <1>16, <3>1, <3>2, PlaceIncreases
    <3>3. x < y => k < j
      BY <3>1, <3>2
    <3> QED
      BY <3>3 DEF x, y
  <2>4. Nth(S, j) # Nth(S, k)
    BY <1>17, <1>18, <2>2
  <2>5. Nth(S, j) < Nth(S, k)
    BY <1>18, <2>2, <2>3, <2>4
  <2> QED
    BY <1>17, <2>1, <2>5
<1>6. \A i \in S : i \in DOMAIN s /\ s[i].id # t.id
  OBVIOUS
<1>7. \A i \in DOMAIN s : s[i].id # t.id => i \in S
  OBVIOUS
<1> HIDE DEF S, o
<1>8. /\ Len(o) \in Nat /\ Len(all) = Len(o) + 1 /\ all \in Seq(Traces)
      /\ all[Len(o) + 1] = t
      /\ \A k \in 1 .. Len(o) : all[k] = o[k]
  BY <1>3
<1>9. \A m \in 1 .. Len(o) + 1 :
         \/ all[m] = t /\ m = Len(o) + 1
         \/ m \in 1 .. Len(o) /\ \E i \in DOMAIN s : all[m] = s[i] /\ s[i].id # t.id
  BY <1>3, <1>6, <1>8
<1>10. \A m, n \in 1 .. Len(o) + 1 : all[m].id = all[n].id => m = n
  BY <1>5, <1>8, <1>9
<1>11. \A i \in DOMAIN s : s[i].id = t.id \/ \E k \in 1 .. Len(o) : all[k] = s[i]
  BY <1>3, <1>7, <1>8
<1>12. MaxTraces \in Nat \ {0} /\ Len(s) \in Nat
  BY <1>1, TracesAreKept
<1>13. Stored(s, t) = IF Len(all) > MaxTraces THEN Tail(all) ELSE all
  BY DEF Stored, o
<1> HIDE DEF all
<1>14. CASE Len(all) > MaxTraces
  <2>1. Stored(s, t) = Tail(all)
    BY <1>13, <1>14
  <2>2. Len(o) = MaxTraces
    BY <1>3, <1>8, <1>12, <1>14
  <2>3. /\ Tail(all) \in Seq(Traces) /\ Len(Tail(all)) = MaxTraces
        /\ DOMAIN Tail(all) = 1 .. MaxTraces
        /\ \A k \in 1 .. MaxTraces : Tail(all)[k] = all[k + 1]
    BY <1>8, <1>12, <2>2
  <2>4. \A k \in 1 .. MaxTraces : k + 1 \in 1 .. Len(o) + 1
    BY <1>12, <2>2
  <2>5. ASSUME NEW m \in 1 .. MaxTraces
        PROVE  \/ Tail(all)[m] = t
               \/ \E i \in DOMAIN s : Tail(all)[m] = s[i] /\ s[i].id # t.id
    <3>1. m + 1 \in 1 .. Len(o) + 1 /\ Tail(all)[m] = all[m + 1]
      BY <2>3, <2>4
    <3> QED
      BY <1>9, <3>1
  <2>6. \A m, n \in 1 .. MaxTraces : Tail(all)[m].id = Tail(all)[n].id => m = n
    BY <1>10, <1>12, <2>3, <2>4
  <2>7. MaxTraces \in 1 .. MaxTraces /\ Tail(all)[MaxTraces] = t
    BY <1>8, <1>12, <2>2, <2>3
  <2>8. ASSUME NEW i \in DOMAIN s, s[i].id # t.id
        PROVE  \/ \E m \in 1 .. MaxTraces : Tail(all)[m] = s[i]
               \/ \A m \in 1 .. MaxTraces :
                     \/ Tail(all)[m] = t
                     \/ \E j \in DOMAIN s : i < j /\ Tail(all)[m] = s[j]
    <3>1. PICK k \in 1 .. Len(o) : all[k] = s[i]
      BY <1>11, <2>8
    <3>2. CASE k = 1
      <4>1. ASSUME NEW m \in 1 .. MaxTraces, m # MaxTraces
            PROVE  \E j \in DOMAIN s : i < j /\ Tail(all)[m] = s[j]
        <5>1. 1 \in 1 .. Len(o) /\ m + 1 \in 1 .. Len(o) /\ 1 < m + 1
          BY <1>12, <2>2, <4>1
        <5>2. PICK a, b \in DOMAIN s : a < b /\ o[1] = s[a] /\ o[m + 1] = s[b]
          BY <1>18, <5>1
        <5>3. o[1] = s[i] /\ o[m + 1] = Tail(all)[m]
          BY <1>8, <2>3, <3>1, <3>2, <5>1
        <5>4. a = i
          BY <5>2, <5>3
        <5> QED
          BY <5>2, <5>3, <5>4
      <4> QED
        BY <2>7, <4>1
    <3>3. CASE k # 1
      <4>1. k - 1 \in 1 .. MaxTraces /\ (k - 1) + 1 = k
        BY <1>12, <2>2, <3>3
      <4> QED
        BY <2>3, <3>1, <4>1
    <3> QED
      BY <3>2, <3>3
  <2> DEFINE rest == Tail(all)
  <2>9. rest \in Seq(Traces) /\ Len(rest) = MaxTraces /\ Len(rest) <= MaxTraces
    BY <1>12, <2>3
  <2>10. /\ \A m \in DOMAIN rest :
               rest[m] = t \/ \E i \in DOMAIN s : rest[m] = s[i] /\ s[i].id # t.id
         /\ \A m, n \in DOMAIN rest : rest[m].id = rest[n].id => m = n
         /\ \E m \in DOMAIN rest : rest[m] = t
    BY <2>3, <2>5, <2>6, <2>7
  <2>11. \A i \in DOMAIN s :
            \/ s[i].id = t.id
            \/ \E m \in DOMAIN rest : rest[m] = s[i]
            \/ \A m \in DOMAIN rest :
                  rest[m] = t \/ \E j \in DOMAIN s : i < j /\ rest[m] = s[j]
    BY <2>3, <2>8
  <2>13. ASSUME NEW m \in DOMAIN rest, NEW n \in DOMAIN rest, m < n
         PROVE  \/ rest[n] = t
                \/ \E i, j \in DOMAIN s : i < j /\ rest[m] = s[i] /\ rest[n] = s[j]
    <3>1. /\ m \in 1 .. MaxTraces /\ n \in 1 .. MaxTraces
          /\ rest[m] = all[m + 1] /\ rest[n] = all[n + 1]
      BY <2>3
    <3>2. CASE n = MaxTraces
      BY <2>7, <3>2
    <3>3. CASE n # MaxTraces
      <4>1. m + 1 \in 1 .. Len(o) /\ n + 1 \in 1 .. Len(o) /\ m + 1 < n + 1
        BY <1>12, <2>2, <2>13, <3>1, <3>3
      <4>2. rest[m] = o[m + 1] /\ rest[n] = o[n + 1]
        BY <1>8, <3>1, <4>1
      <4>3. \E i, j \in DOMAIN s : i < j /\ o[m + 1] = s[i] /\ o[n + 1] = s[j]
        BY <1>18, <4>1
      <4> QED
        BY <4>2, <4>3
    <3> QED
      BY <3>2, <3>3
  <2>12. Stored(s, t) = rest
    BY <2>1
  <2> HIDE DEF rest
  <2> QED
    BY <2>9, <2>10, <2>11, <2>12, <2>13 DEF Keeps
<1>15. CASE ~ Len(all) > MaxTraces
  <2>1. Stored(s, t) = all
    BY <1>13, <1>15
  <2>2. Len(all) <= MaxTraces /\ DOMAIN all = 1 .. Len(o) + 1
    BY <1>8, <1>12, <1>15
  <2>3. Len(s) = MaxTraces => Len(all) = MaxTraces
    BY <1>3, <1>4, <1>8, <1>12, <2>2
  <2>4. Len(o) + 1 \in 1 .. Len(o) + 1 /\ \A k \in 1 .. Len(o) : k \in 1 .. Len(o) + 1
    BY <1>8
  <2>5. \E m \in DOMAIN all : all[m] = t
    BY <1>8, <2>2, <2>4
  <2>6. \A i \in DOMAIN s : s[i].id = t.id \/ \E k \in DOMAIN all : all[k] = s[i]
    BY <1>11, <2>2, <2>4
  <2>7. \A m \in DOMAIN all :
           all[m] = t \/ \E i \in DOMAIN s : all[m] = s[i] /\ s[i].id # t.id
    BY <1>9, <2>2
  <2>8. ASSUME NEW m \in DOMAIN all, NEW n \in DOMAIN all, m < n
        PROVE  \/ all[n] = t
               \/ \E i, j \in DOMAIN s : i < j /\ all[m] = s[i] /\ all[n] = s[j]
    <3>1. CASE n = Len(o) + 1
      BY <1>8, <3>1
    <3>2. CASE n # Len(o) + 1
      <4>1. m \in 1 .. Len(o) /\ n \in 1 .. Len(o)
        BY <1>8, <2>2, <2>8, <3>2
      <4>2. all[m] = o[m] /\ all[n] = o[n]
        BY <1>8, <4>1
      <4>3. \E i, j \in DOMAIN s : i < j /\ o[m] = s[i] /\ o[n] = s[j]
        BY <1>18, <2>8, <4>1
      <4> QED
        BY <4>2, <4>3
    <3> QED
      BY <3>1, <3>2
  <2> QED
    BY <1>8, <1>10, <2>1, <2>2, <2>3, <2>5, <2>6, <2>7, <2>8 DEF Keeps
<1> QED
  BY <1>14, <1>15

----------------------------------------------------------------------------
(* The invariant *)

Phases == {"idle", "settled"} \union Running \union Outcomes

LEMMA InvInit == Init => IInv
<1> SUFFICES ASSUME Init
             PROVE  IInv
  OBVIOUS
<1>1. \A r \in Requests : phase[r] = "idle" /\ client[r] = "none" /\ events[r] = <<>>
  BY DEF Init
<1>2. \A r \in Streams : r \in Requests /\ received[r] = <<>> /\ queue[r] = <<>>
  BY DEF Init, Requests
<1>3. store = <<>>
  BY DEF Init
<1>4. TypeOK
  <2>1. id \in [Requests -> TraceIds]
    BY IdsAreAssigned DEF Init, Requests
  <2> QED
    BY <2>1 DEF Init, TypeOK
<1>5. \A r \in Requests : AnswerInv(r)
  BY <1>1 DEF AnswerInv, Completed
<1>6. \A r \in Streams : StreamInv(r)
  <2>1. Passes(<<>>, <<>>, <<>>)
    BY DEF Passes
  <2> QED
    BY <1>1, <1>2, <2>1 DEF StreamInv
<1>7. StoredTracesAreFinal
  BY <1>3, TracesAreKept DEF StoredTracesAreFinal
<1>8. \A r \in Requests : TraceInv(r)
  BY <1>1 DEF TraceInv
<1>9. AgesInv
  BY <1>3 DEF AgesInv
<1> QED
  BY <1>4, <1>5, <1>6, <1>7, <1>8, <1>9 DEF IInv

LEMMA StoreElements ==
    ASSUME TypeOK
    PROVE  \A m \in DOMAIN store : /\ store[m].id \in TraceIds
                                  /\ store[m].by \in Requests
                                  /\ store[m].events \in Seq(EventTypes)
<1>1. store \in Seq(Traces)
  BY DEF TypeOK, Traces
<1>2. \A m \in DOMAIN store : store[m] \in Traces
  BY <1>1
<1> QED
  BY <1>2 DEF Traces

\* A step of one request that stores nothing.
LEMMA QuietStep ==
    ASSUME IInv, TypeOK', NEW r \in Requests, UNCHANGED <<id, store, keeps>>,
           \A q \in Requests : q # r => /\ phase'[q] = phase[q]
                                       /\ client'[q] = client[q]
                                       /\ events'[q] = events[q],
           \A q \in Streams : q # r => /\ queue'[q] = queue[q]
                                      /\ received'[q] = received[q],
           phase[r] = "settled" => phase'[r] = "settled" /\ events'[r] = events[r],
           client'[r] # "answer",
           r \in Streams /\ phase'[r] = "settled" => phase[r] = "settled",
           AnswerInv(r)', r \in Streams => StreamInv(r)'
    PROVE  IInv'
<1>1. \A q \in Requests : AnswerInv(q)'
  <2>1. ASSUME NEW q \in Requests, q # r
        PROVE  AnswerInv(q)'
    BY <2>1 DEF IInv, AnswerInv
  <2> QED
    BY <2>1
<1>2. \A q \in Streams : StreamInv(q)'
  <2>1. ASSUME NEW q \in Streams, q # r
        PROVE  StreamInv(q)'
    BY <2>1 DEF IInv, StreamInv, Requests
  <2> QED
    BY <2>1
<1>3. \A q \in Requests : phase[q] = "settled" =>
                            phase'[q] = "settled" /\ events'[q] = events[q]
  OBVIOUS
<1>4. StoredTracesAreFinal'
  <2>1. \A m \in DOMAIN store : store[m].by \in Requests
    BY StoreElements DEF IInv
  <2> QED
    BY <1>3, <2>1 DEF IInv, StoredTracesAreFinal
<1>5. ASSUME NEW q \in Requests
      PROVE  TraceInv(q)'
  <2>1. (Kept(q) => Kept(q)') /\ (TraceKept(q) => TraceKept(q)')
    BY DEF Kept, TraceKept, Younger
  <2>2. (client'[q] = "answer" \/ (q \in Streams /\ phase'[q] = "settled")) =>
           (client[q] = "answer" \/ (q \in Streams /\ phase[q] = "settled"))
    OBVIOUS
  <2> QED
    BY <2>1, <2>2 DEF IInv, TraceInv
<1>6. AgesInv'
  BY DEF IInv, AgesInv, Kept, Younger
<1> QED
  BY <1>1, <1>2, <1>4, <1>5, <1>6 DEF IInv

LEMMA StoreType ==
    ASSUME IInv, NEW r \in Requests, NEW e \in Seq(EventTypes), Keep(r, e)
    PROVE  /\ store' \in Seq([id : TraceIds, by : Requests, events : Seq(EventTypes)])
           /\ keeps' \in Seq(Requests)
<1> DEFINE t == [id |-> id[r], by |-> r, events |-> e]
<1>1. t \in Traces /\ store \in Seq(Traces)
  BY DEF IInv, TypeOK, Traces
<1>2. /\ Len(store) <= MaxTraces
      /\ \A m, n \in DOMAIN store : store[m].id = store[n].id => m = n
  BY DEF IInv, StoredTracesAreFinal
<1>3. store' = Stored(store, t)
  BY DEF Keep
<1> HIDE DEF t
<1>4. Stored(store, t) \in Seq(Traces)
  BY <1>1, <1>2, StoredIsKept
<1>5. keeps' \in Seq(Requests)
  BY DEF IInv, TypeOK, Keep
<1> QED
  BY <1>3, <1>4, <1>5 DEF Traces

\* Who stores a trace becomes the youngest of those who did.
LEMMA KeepAges ==
    ASSUME TypeOK, NEW r \in Requests, keeps' = Append(keeps, r)
    PROVE  /\ Kept(r)'
           /\ \A q \in Requests : Kept(q) => Kept(q)' /\ Younger(r, q)'
           /\ \A p, q \in Requests : Younger(p, q) => Younger(p, q)'
<1>1. /\ Len(keeps) \in Nat /\ DOMAIN keeps = 1 .. Len(keeps)
      /\ DOMAIN keeps' = 1 .. Len(keeps) + 1 /\ keeps'[Len(keeps) + 1] = r
      /\ \A k \in 1 .. Len(keeps) : keeps'[k] = keeps[k]
  BY DEF TypeOK
<1>2. Len(keeps) + 1 \in DOMAIN keeps' /\ \A k \in DOMAIN keeps : k \in DOMAIN keeps'
  BY <1>1
<1>3. Kept(r)'
  BY <1>1, <1>2 DEF Kept
<1>4. ASSUME NEW q \in Requests, Kept(q)
      PROVE  Kept(q)' /\ Younger(r, q)'
  <2>1. PICK k \in DOMAIN keeps : keeps[k] = q
    BY <1>4 DEF Kept
  <2>2. keeps'[k] = q /\ k \in 1 .. (Len(keeps) + 1) - 1
    BY <1>1, <2>1
  <2> QED
    BY <1>1, <1>2, <2>2 DEF Kept, Younger
<1>5. ASSUME NEW p \in Requests, NEW q \in Requests, Younger(p, q)
      PROVE  Younger(p, q)'
  <2>1. PICK n \in DOMAIN keeps :
           \E m \in 1 .. n - 1 : keeps[m] = q /\ keeps[n] = p
    BY <1>5 DEF Younger
  <2>2. PICK m \in 1 .. n - 1 : keeps[m] = q /\ keeps[n] = p
    BY <2>1
  <2>3. n \in DOMAIN keeps' /\ keeps'[m] = q /\ keeps'[n] = p
    BY <1>1, <2>2
  <2> QED
    BY <2>3 DEF Younger
<1> QED
  BY <1>3, <1>4, <1>5

\* A step that settles a request and stores its trace.
LEMMA KeepStep ==
    ASSUME IInv, TypeOK', NEW r \in Requests, UNCHANGED id, Keep(r, events'[r]),
           phase[r] # "settled", phase'[r] = "settled",
           \A q \in Requests : q # r => /\ phase'[q] = phase[q]
                                       /\ client'[q] = client[q]
                                       /\ events'[q] = events[q],
           \A q \in Streams : q # r => /\ queue'[q] = queue[q]
                                      /\ received'[q] = received[q],
           AnswerInv(r)', r \in Streams => StreamInv(r)'
    PROVE  IInv'
<1>1. \A q \in Requests : AnswerInv(q)'
  <2>1. ASSUME NEW q \in Requests, q # r
        PROVE  AnswerInv(q)'
    BY <2>1 DEF IInv, AnswerInv
  <2> QED
    BY <2>1
<1>2. \A q \in Streams : StreamInv(q)'
  <2>1. ASSUME NEW q \in Streams, q # r
        PROVE  StreamInv(q)'
    BY <2>1 DEF IInv, StreamInv, Requests
  <2> QED
    BY <2>1
<1>3. \A q \in Requests : phase[q] = "settled" =>
                            q # r /\ phase'[q] = "settled" /\ events'[q] = events[q]
  OBVIOUS
<1> DEFINE e == events'[r]
<1>4. e \in Seq(EventTypes)
  BY DEF TypeOK
<1> HIDE DEF e
<1> DEFINE t == [id |-> id[r], by |-> r, events |-> e]
<1>5. t \in Traces /\ store \in Seq(Traces)
  BY <1>4 DEF IInv, TypeOK, Traces
<1>6. /\ Len(store) <= MaxTraces
      /\ \A m, n \in DOMAIN store : store[m].id = store[n].id => m = n
      /\ \A m \in DOMAIN store : /\ id[store[m].by] = store[m].id
                                 /\ phase[store[m].by] = "settled"
                                 /\ store[m].events = events[store[m].by]
                                 /\ store[m].by \in Requests
  BY StoreElements DEF IInv, StoredTracesAreFinal
<1>7. t.id = id[r] /\ t.by = r /\ t.events = events'[r]
  BY DEF e
<1>8. store' = Stored(store, t)
  BY DEF Keep, e
<1> HIDE DEF t
<1>9. Keeps(store, t, store')
  BY <1>5, <1>6, <1>8, StoredIsKept
<1>10. StoredTracesAreFinal'
  <2>1. ASSUME NEW m \in DOMAIN store'
        PROVE  /\ id[store'[m].by] = store'[m].id
               /\ phase'[store'[m].by] = "settled"
               /\ store'[m].events = events'[store'[m].by]
    <3>1. CASE store'[m] = t
      BY <1>7, <3>1
    <3>2. ASSUME NEW i \in DOMAIN store, store'[m] = store[i]
          PROVE  /\ id[store'[m].by] = store'[m].id
                 /\ phase'[store'[m].by] = "settled"
                 /\ store'[m].events = events'[store'[m].by]
      BY <1>3, <1>6, <3>2
    <3> QED
      BY <1>9, <3>1, <3>2 DEF Keeps
  <2> QED
    BY <1>9, <2>1 DEF StoredTracesAreFinal, Keeps
<1>12. /\ Kept(r)'
       /\ \A q \in Requests : Kept(q) => Kept(q)' /\ Younger(r, q)'
       /\ \A p, q \in Requests : Younger(p, q) => Younger(p, q)'
  BY KeepAges DEF Keep, IInv
<1>13. \A m \in DOMAIN store' : store'[m].by \in Requests
  BY <1>6, <1>7, <1>9 DEF Keeps
<1>14. AgesInv'
  <2>1. \A m \in DOMAIN store : Kept(store[m].by)
    BY DEF IInv, AgesInv
  <2>2. ASSUME NEW m \in DOMAIN store', NEW p \in Requests, store'[m].by = p
        PROVE  Kept(p)'
    BY <1>6, <1>7, <1>9, <1>12, <2>1, <2>2 DEF Keeps
  <2>3. ASSUME NEW m \in DOMAIN store', NEW n \in DOMAIN store', m < n,
               NEW p \in Requests, store'[m].by = p,
               NEW q \in Requests, store'[n].by = q
        PROVE  Younger(q, p)'
    <3>1. CASE store'[n] = t
      <4>1. store'[m] # t
        BY <1>9, <2>3, <3>1 DEF Keeps
      <4>2. PICK i \in DOMAIN store : store'[m] = store[i]
        BY <1>9, <4>1 DEF Keeps
      <4>3. Kept(p) /\ q = r
        BY <1>7, <2>1, <2>3, <3>1, <4>2
      <4> QED
        BY <1>12, <4>3
    <3>2. ASSUME NEW i \in DOMAIN store, NEW j \in DOMAIN store, i < j,
                 store'[m] = store[i], store'[n] = store[j]
          PROVE  Younger(q, p)'
      <4>1. Younger(q, p)
        BY <2>3, <3>2 DEF IInv, AgesInv
      <4> QED
        BY <1>12, <4>1
    <3> QED
      BY <1>9, <2>3, <3>1, <3>2 DEF Keeps
  <2>4. \A m \in DOMAIN store' : Kept(store[m].by)'
    BY <1>13, <2>2 DEF Kept
  <2>5. \A m, n \in DOMAIN store' : m < n => Younger(store[n].by, store[m].by)'
    BY <1>13, <2>3 DEF Younger
  <2> QED
    BY <2>4, <2>5 DEF AgesInv
<1>11. ASSUME NEW q \in Requests
       PROVE  TraceInv(q)'
  <2>1. CASE q = r
    BY <1>7, <1>9, <1>12, <2>1 DEF TraceInv, TraceKept, Keeps
  <2>2. CASE q # r
    <3>1. SUFFICES ASSUME Kept(q), TraceKept(q)
                   PROVE  Kept(q)' /\ TraceKept(q)'
      BY <2>2 DEF IInv, TraceInv
    <3>2. Kept(q)' /\ Younger(r, q)'
      BY <1>12, <3>1
    <3>3. \A p \in Requests : Younger(p, q) => Younger(p, q)'
      BY <1>12
    <3>4. ASSUME Len(store') = MaxTraces,
                 \A m \in DOMAIN store' :
                    \/ store'[m] = t
                    \/ \E j \in DOMAIN store : /\ store'[m] = store[j]
                                             /\ Younger(store[j].by, q)
          PROVE  TraceKept(q)'
      <4>1. ASSUME NEW m \in DOMAIN store', NEW p \in Requests, store'[m].by = p
            PROVE  Younger(p, q)'
        <5>1. CASE store'[m] = t
          BY <1>7, <3>2, <4>1, <5>1
        <5>2. ASSUME NEW j \in DOMAIN store, store'[m] = store[j],
                     Younger(store[j].by, q)
              PROVE  Younger(p, q)'
          <6>1. Younger(p, q)
            BY <4>1, <5>2
          <6> QED
            BY <3>3, <6>1
        <5> QED
          BY <3>4, <5>1, <5>2
      <4>2. \A m \in DOMAIN store' : Younger(store[m].by, q)'
        BY <1>13, <4>1 DEF Younger
      <4> QED
        BY <3>4, <4>2 DEF TraceKept
    <3>5. ASSUME NEW i \in DOMAIN store, store[i].by = q
          PROVE  TraceKept(q)'
      <4>1. CASE store[i].id = t.id
        <5>1. id'[r] = id'[q]
          BY <1>6, <1>7, <3>5, <4>1
        <5> QED
          BY <3>2, <5>1 DEF TraceKept
      <4>2. ASSUME NEW m \in DOMAIN store', store'[m] = store[i]
            PROVE  TraceKept(q)'
        BY <3>5, <4>2 DEF TraceKept
      <4>3. CASE /\ Len(store') = MaxTraces
                 /\ \A m \in DOMAIN store' :
                       \/ store'[m] = t
                       \/ \E j \in DOMAIN store : i < j /\ store'[m] = store[j]
        <5>1. \A j \in DOMAIN store : i < j => Younger(store[j].by, q)
          BY <3>5 DEF IInv, AgesInv
        <5> QED
          BY <3>4, <4>3, <5>1
      <4> QED
        BY <1>9, <4>1, <4>2, <4>3 DEF Keeps
    <3>6. CASE \E p \in Requests : id[p] = id[q] /\ Younger(p, q)
      <4>1. PICK p \in Requests : id[p] = id[q] /\ Younger(p, q)
        BY <3>6
      <4>2. id'[p] = id'[q] /\ Younger(p, q)'
        BY <3>3, <4>1
      <4>3. \E other \in Requests : id'[other] = id'[q] /\ Younger(other, q)'
        BY <4>2
      <4> QED
        BY <3>2, <4>3 DEF TraceKept, Younger
    <3>7. CASE Len(store) = MaxTraces /\ \A m \in DOMAIN store : Younger(store[m].by, q)
      <4>1. Len(store') = MaxTraces
        BY <1>9, <3>7 DEF Keeps
      <4>2. \A m \in DOMAIN store' :
               store'[m] = t \/ \E j \in DOMAIN store : store'[m] = store[j]
        BY <1>9 DEF Keeps
      <4>3. \A m \in DOMAIN store' :
               \/ store'[m] = t
               \/ \E j \in DOMAIN store : /\ store'[m] = store[j]
                                        /\ Younger(store[j].by, q)
        BY <3>7, <4>2
      <4> QED
        BY <3>2, <3>4, <4>1, <4>3
    <3> QED
      BY <3>1, <3>2, <3>5, <3>6, <3>7 DEF TraceKept
  <2> QED
    BY <2>1, <2>2
<1> QED
  BY <1>1, <1>2, <1>10, <1>11, <1>14 DEF IInv

\* An event is appended to the list and to the queue.
LEMMA EmitStep ==
    ASSUME TypeOK, NEW r \in Requests, NEW x \in EventTypes, Emit(r, <<x>>)
    PROVE  /\ events' \in [Requests -> Seq(EventTypes)]
           /\ queue' \in [Streams -> Seq(EventTypes \union {Close})]
           /\ events'[r] = Append(events[r], x)
           /\ \A q \in Requests : q # r => events'[q] = events[q]
           /\ r \in Streams => queue'[r] = Append(queue[r], x)
           /\ \A q \in Streams : q # r => queue'[q] = queue[q]
<1>1. events[r] \in Seq(EventTypes) /\ Append(events[r], x) \in Seq(EventTypes)
  BY DEF TypeOK
<1>2. events[r] \o <<x>> = Append(events[r], x)
  BY <1>1, AppendIsConcat
<1>3. events' = [events EXCEPT ![r] = Append(events[r], x)]
  BY <1>2 DEF Emit, TypeOK
<1>4. CASE r \in Streams
  <2>1. queue[r] \in Seq(Elements) /\ x \in Elements
        /\ Append(queue[r], x) \in Seq(Elements)
    BY <1>4 DEF TypeOK, Elements
  <2>2. queue[r] \o <<x>> = Append(queue[r], x)
    BY <2>1, AppendIsConcat
  <2>3. queue' = [queue EXCEPT ![r] = Append(queue[r], x)]
    BY <1>4, <2>2 DEF Emit, TypeOK
  <2> QED
    BY <1>1, <1>3, <1>4, <2>1, <2>3 DEF TypeOK, Elements
<1>5. CASE r \notin Streams
  BY <1>1, <1>3, <1>5 DEF TypeOK, Emit
<1> QED
  BY <1>4, <1>5

\* A pipeline step that emits.
LEMMA EmittingStep ==
    ASSUME IInv, NEW r \in Requests, NEW x \in EventTypes,
           NEW p \in Running \union (Outcomes \ {"disconnected"}),
           phase[r] \in {"idle"} \union Running, Become(r, p), Emit(r, <<x>>),
           UNCHANGED <<id, received, store, keeps>>,
           client' = client \/ (phase[r] = "idle" /\ Tell(r, "waiting")),
           x = "completed" <=> p = "returned" /\ r \notin Retrieves,
           p = "returned" => x = "completed",
           p \in {"generating", "validating"} => r \notin Retrieves
    PROVE  IInv'
<1>1. /\ events' \in [Requests -> Seq(EventTypes)]
      /\ queue' \in [Streams -> Seq(EventTypes \union {Close})]
      /\ events'[r] = Append(events[r], x) /\ events[r] \in Seq(EventTypes)
      /\ \A q \in Requests : q # r => events'[q] = events[q]
      /\ r \in Streams => queue'[r] = Append(queue[r], x)
      /\ \A q \in Streams : q # r => queue'[q] = queue[q]
  BY EmitStep DEF IInv, TypeOK
<1>2. /\ phase' \in [Requests -> {"idle", "settled"} \union Running \union Outcomes]
      /\ phase'[r] = p /\ p # "settled" /\ p # "idle" /\ p # "disconnected"
      /\ \A q \in Requests : q # r => phase'[q] = phase[q]
  BY DEF IInv, TypeOK, Become, Running, Outcomes
<1>3. /\ client' \in [Requests -> {"none", "waiting", "answer", "timeout",
                                   "error", "ended", "gone"}]
      /\ client'[r] \in {client[r], "waiting"}
      /\ \A q \in Requests : q # r => client'[q] = client[q]
  BY DEF IInv, TypeOK, Tell
<1>4. TypeOK'
  BY <1>1, <1>2, <1>3 DEF IInv, TypeOK
<1>5. phase[r] # "settled" /\ phase[r] \in Unfinished
  BY DEF Running, Unfinished
<1>6. client'[r] \notin {"answer", "timeout", "error"} /\ ~ Completed(events[r])
  BY <1>3, <1>5 DEF IInv, AnswerInv
<1>7. /\ Completed(events'[r]) <=> x = "completed"
      /\ Last(events'[r]) = x
  BY <1>1, <1>6, CompletedAppend
<1>8. AnswerInv(r)'
  <2>1. p \in Unfinished => x # "completed"
    BY DEF Unfinished, Running, Outcomes
  <2>2. client'[r] = "ended" => r \in Streams
    BY <1>3 DEF IInv, AnswerInv
  <2> QED
    BY <1>2, <1>6, <1>7, <2>1, <2>2 DEF AnswerInv
<1>9. ASSUME r \in Streams
      PROVE  StreamInv(r)'
  <2>1. client[r] # "ended" /\ Passes(received[r], queue[r], events[r])
    BY <1>5, <1>9 DEF IInv, StreamInv
  <2>2. /\ received[r] \in Seq(Elements) /\ queue[r] \in Seq(Elements)
        /\ events[r] \in Seq(Elements) /\ x \in Elements
    BY <1>9 DEF IInv, TypeOK, Elements
  <2>3. Passes(received[r], queue'[r], events'[r])
    BY <1>1, <1>9, <2>1, <2>2, PassesAppend
  <2> QED
    BY <1>2, <1>3, <2>1, <2>3 DEF StreamInv
<1> QED
  BY <1>1, <1>2, <1>3, <1>4, <1>5, <1>6, <1>8, <1>9, QuietStep

\* A pipeline step that emits nothing, and a client that leaves a running one.
LEMMA SilentStep ==
    ASSUME IInv, NEW r \in Requests, NEW p \in Outcomes, phase[r] \in Running,
           Become(r, p), UNCHANGED <<id, events, queue, received, store, keeps>>,
           client' = client \/ (client[r] = "waiting" /\ Tell(r, "gone")),
           p = "returned" => r \in Retrieves,
           p = "disconnected" => Tell(r, "gone")
    PROVE  IInv'
<1>1. /\ phase' \in [Requests -> {"idle", "settled"} \union Running \union Outcomes]
      /\ phase'[r] = p /\ p # "settled" /\ p # "idle"
      /\ p \notin {"generating", "validating"}
      /\ \A q \in Requests : q # r => phase'[q] = phase[q]
  BY DEF IInv, TypeOK, Become, Outcomes
<1>2. /\ client' \in [Requests -> {"none", "waiting", "answer", "timeout",
                                   "error", "ended", "gone"}]
      /\ client'[r] \in {client[r], "gone"}
      /\ \A q \in Requests : q # r => client'[q] = client[q]
      /\ p = "disconnected" => client'[r] = "gone"
  BY DEF IInv, TypeOK, Tell
<1>3. TypeOK'
  BY <1>1, <1>2 DEF IInv, TypeOK
<1>4. phase[r] # "settled" /\ phase[r] \in Unfinished
  BY DEF Running, Unfinished
<1>5. client'[r] \notin {"answer", "timeout", "error"} /\ ~ Completed(events[r])
  BY <1>2, <1>4 DEF IInv, AnswerInv
<1>6. AnswerInv(r)'
  <2>1. client'[r] = "ended" => r \in Streams
    BY <1>2 DEF IInv, AnswerInv
  <2> QED
    BY <1>1, <1>5, <2>1 DEF AnswerInv
<1>7. ASSUME r \in Streams
      PROVE  StreamInv(r)'
  BY <1>1, <1>2, <1>4, <1>7 DEF IInv, StreamInv
<1> QED
  BY <1>1, <1>2, <1>3, <1>4, <1>5, <1>6, <1>7, QuietStep

LEMMA PipelineSteps ==
    ASSUME IInv, NEW r \in Requests, Start(r) \/ PipelineStep(r)
    PROVE  IInv'
<1>1. CASE Start(r)
  <2>1. "started" \in EventTypes /\ "loop" \in Running
    BY DEF EventTypes, Running
  <2> QED
    BY <1>1, <2>1, EmittingStep DEF Start
<1>2. CASE Progress(r)
  <2>1. Become(r, "loop")
    BY <1>2 DEF Progress, Become, IInv, TypeOK
  <2>2. "progress" \in EventTypes /\ "loop" \in Running
    BY DEF EventTypes, Running
  <2> QED
    BY <1>2, <2>1, <2>2, EmittingStep DEF Progress
<1>3. CASE LoopReturns(r)
  <2>1. /\ {"completed", "generation"} \subseteq EventTypes
        /\ {"loop", "generating"} \subseteq Running /\ "returned" \in Outcomes
    BY DEF EventTypes, Running, Outcomes
  <2>2. CASE r \in Retrieves
    BY <1>3, <2>1, <2>2, SilentStep DEF LoopReturns
  <2>3. CASE r \notin Retrieves /\ Become(r, "returned")
    <3>1. Emit(r, <<"completed">>)
      BY <1>3, <2>3 DEF LoopReturns, Become, IInv, TypeOK
    <3> QED
      BY <1>3, <2>1, <2>3, <3>1, EmittingStep DEF LoopReturns
  <2>4. CASE r \notin Retrieves /\ Become(r, "generating") /\ Emit(r, <<"generation">>)
    BY <1>3, <2>1, <2>4, EmittingStep DEF LoopReturns
  <2> QED
    BY <1>3, <2>2, <2>3, <2>4 DEF LoopReturns
<1>4. CASE LoopRaises(r)
  <2>1. "failed" \in EventTypes /\ "loop" \in Running
        /\ {"error", "timeoutError"} \subseteq Outcomes
    BY DEF EventTypes, Running, Outcomes
  <2>2. PICK p \in {"error", "timeoutError"} : Become(r, p)
    BY <1>4 DEF LoopRaises
  <2> QED
    BY <1>4, <2>1, <2>2, EmittingStep DEF LoopRaises
<1>5. CASE ValidateClaims(r)
  <2>1. "validation" \in EventTypes /\ {"generating", "validating"} \subseteq Running
    BY DEF EventTypes, Running
  <2>2. r \notin Retrieves
    BY <1>5 DEF ValidateClaims, IInv, AnswerInv
  <2> QED
    BY <1>5, <2>1, <2>2, EmittingStep DEF ValidateClaims
<1>6. CASE Complete(r)
  <2>1. "completed" \in EventTypes /\ {"generating", "validating"} \subseteq Running
        /\ "returned" \in Outcomes
    BY DEF EventTypes, Running, Outcomes
  <2>2. r \notin Retrieves
    BY <1>6 DEF Complete, IInv, AnswerInv
  <2> QED
    BY <1>6, <2>1, <2>2, EmittingStep DEF Complete
<1>7. CASE GenerationRaises(r)
  <2>1. {"generating", "validating"} \subseteq Running
        /\ {"error", "timeoutError"} \subseteq Outcomes
    BY DEF Running, Outcomes
  <2>2. PICK p \in {"error", "timeoutError"} : Become(r, p)
    BY <1>7 DEF GenerationRaises
  <2> QED
    BY <1>7, <2>1, <2>2, SilentStep DEF GenerationRaises
<1>8. CASE Timeout(r)
  <2>1. "cancelled" \in Outcomes
    BY DEF Outcomes
  <2> QED
    BY <1>8, <2>1, SilentStep DEF Timeout
<1> QED
  BY <1>1, <1>2, <1>3, <1>4, <1>5, <1>6, <1>7, <1>8 DEF PipelineStep

\* The client of a stream reads or leaves.
LEMMA DeliverStep == ASSUME IInv, NEW r \in Requests, Deliver(r) PROVE IInv'
<1>1. /\ r \in Streams /\ client[r] = "waiting" /\ queue[r] # <<>>
      /\ queue' = [queue EXCEPT ![r] = Tail(@)]
      /\ UNCHANGED <<id, phase, events, store, keeps>> /\ TypeOK
      /\ received[r] \in Seq(EventTypes) /\ queue[r] \in Seq(Elements)
      /\ events[r] \in Seq(EventTypes)
  BY DEF Deliver, IInv, TypeOK, Elements
<1>2. /\ queue'[r] = Tail(queue[r]) /\ queue' \in [Streams -> Seq(Elements)]
      /\ \A q \in Streams : q # r => queue'[q] = queue[q]
  BY <1>1 DEF TypeOK, Elements
<1>3. /\ Passes(received[r], queue[r],
                IF phase[r] = "settled" THEN Append(events[r], Close) ELSE events[r])
      /\ phase[r] = "settled" => Last(events[r]) \in {"completed", "failed"}
      /\ phase[r] # "disconnected"
  BY <1>1 DEF IInv, StreamInv
<1>4. CASE Head(queue[r]) = Close
  <2>1. /\ client' = [client EXCEPT ![r] = "ended"] /\ received' = received
    BY <1>4 DEF Deliver, Tell
  <2>2. phase[r] = "settled" /\ received[r] = events[r]
    BY <1>1, <1>3, <1>4, PassesClose
  <2>3. TypeOK'
    BY <1>1, <1>2, <2>1 DEF TypeOK, Elements
  <2>4. client'[r] = "ended" /\ \A q \in Requests : q # r => client'[q] = client[q]
    BY <1>1, <2>1 DEF TypeOK
  <2>5. AnswerInv(r)'
    BY <1>1, <2>4 DEF IInv, AnswerInv
  <2>6. StreamInv(r)'
    BY <1>1, <1>3, <2>1, <2>2, <2>4 DEF StreamInv
  <2> QED
    BY <1>1, <1>2, <2>1, <2>2, <2>3, <2>4, <2>5, <2>6, QuietStep
<1>5. CASE Head(queue[r]) # Close
  <2>1. /\ received' = [received EXCEPT ![r] = Append(@, Head(queue[r]))]
        /\ client' = client
    BY <1>5 DEF Deliver
  <2>2. Head(queue[r]) \in EventTypes
    BY <1>1, <1>5 DEF Elements
  <2>3. /\ received'[r] = Append(received[r], Head(queue[r]))
        /\ received' \in [Streams -> Seq(EventTypes)]
        /\ \A q \in Streams : q # r => received'[q] = received[q]
    BY <1>1, <2>1, <2>2 DEF TypeOK
  <2>4. TypeOK'
    BY <1>1, <1>2, <2>1, <2>3 DEF TypeOK, Elements
  <2>5. AnswerInv(r)'
    BY <1>1, <2>1 DEF IInv, AnswerInv
  <2>6. StreamInv(r)'
    <3> DEFINE all == IF phase[r] = "settled" THEN Append(events[r], Close)
                                               ELSE events[r]
    <3>1. all \in Seq(Elements) /\ received[r] \in Seq(Elements)
      BY <1>1 DEF Elements
    <3>2. Passes(received'[r], queue'[r], all)
      <4> HIDE DEF all
      <4>1. Passes(received[r], queue[r], all)
        BY <1>3 DEF all
      <4> QED
        BY <1>1, <1>2, <2>3, <3>1, <4>1, PassesDeliver
    <3> QED
      BY <1>1, <1>3, <2>1, <3>2 DEF StreamInv
  <2> QED
    BY <1>1, <1>2, <2>1, <2>3, <2>4, <2>5, <2>6, QuietStep
<1> QED
  BY <1>4, <1>5

LEMMA DisconnectStep == ASSUME IInv, NEW r \in Requests, Disconnect(r) PROVE IInv'
<1>1. /\ r \in Streams /\ client[r] = "waiting" /\ Tell(r, "gone")
      /\ UNCHANGED <<id, events, queue, received, store, keeps>>
  BY DEF Disconnect
<1>2. CASE phase' = phase
  <2>1. client'[r] = "gone" /\ \A q \in Requests : q # r => client'[q] = client[q]
    BY <1>1 DEF IInv, TypeOK, Tell
  <2>2. TypeOK'
    BY <1>1, <1>2 DEF IInv, TypeOK, Tell
  <2>3. AnswerInv(r)' /\ StreamInv(r)'
    BY <1>1, <1>2, <2>1 DEF IInv, AnswerInv, StreamInv
  <2> QED
    BY <1>1, <1>2, <2>1, <2>2, <2>3, QuietStep
<1>3. CASE phase[r] \in Running /\ Become(r, "disconnected")
  <2>1. "disconnected" \in Outcomes
    BY DEF Outcomes
  <2> QED
    BY <1>1, <1>3, <2>1, SilentStep
<1> QED
  BY <1>2, <1>3 DEF Disconnect

\* A handler that answers, whether or not it emits and stores.
LEMMA AnswerSteps ==
    ASSUME IInv, NEW r \in Requests, AnswerQuery(r) \/ AnswerRetrieve(r)
    PROVE  IInv'
<1>1. /\ r \notin Streams /\ phase[r] \in Outcomes /\ phase[r] # "settled"
      /\ UNCHANGED <<id, received>> /\ TypeOK /\ Become(r, "settled")
      /\ events[r] \in Seq(EventTypes)
  BY KindsAreDisjoint DEF AnswerQuery, AnswerRetrieve, Outcomes, IInv, TypeOK
<1>2. /\ phase' \in [Requests -> {"idle", "settled"} \union Running \union Outcomes]
      /\ phase'[r] = "settled" /\ "settled" \notin Unfinished
      /\ \A q \in Requests : q # r => phase'[q] = phase[q]
  BY <1>1 DEF TypeOK, Become, Unfinished, Running, Outcomes
<1>3. ASSUME NEW c \in {"answer", "timeout", "error"}, Tell(r, c)
      PROVE  /\ client' \in [Requests -> {"none", "waiting", "answer", "timeout",
                                         "error", "ended", "gone"}]
             /\ client'[r] = c
             /\ \A q \in Requests : q # r => client'[q] = client[q]
  BY <1>1, <1>3 DEF TypeOK, Tell
<1>4. phase[r] # "returned" => ~ Completed(events[r])
  BY <1>1 DEF IInv, AnswerInv, Unfinished
<1>5. ASSUME UNCHANGED <<events, queue, store, keeps>>, Tell(r, "timeout") \/ Tell(r, "error"),
             phase[r] # "returned"
      PROVE  IInv'
  <2>1. PICK c \in {"timeout", "error"} : Tell(r, c)
    BY <1>5
  <2>2. TypeOK'
    BY <1>1, <1>2, <1>3, <1>5, <2>1 DEF TypeOK
  <2>3. AnswerInv(r)'
    BY <1>1, <1>2, <1>3, <1>4, <1>5, <2>1 DEF AnswerInv
  <2> QED
    BY <1>1, <1>2, <1>3, <1>5, <2>1, <2>2, <2>3, QuietStep
<1>6. ASSUME UNCHANGED <<events, queue>>, Keep(r, events[r]), TimedOut(r),
             Tell(r, "timeout")
      PROVE  IInv'
  <2>1. TypeOK'
    BY <1>1, <1>2, <1>3, <1>6, StoreType DEF TypeOK
  <2>2. AnswerInv(r)'
    BY <1>1, <1>2, <1>3, <1>4, <1>6 DEF AnswerInv, TimedOut
  <2> QED
    BY <1>1, <1>2, <1>3, <1>6, <2>1, <2>2, KeepStep
<1>7. ASSUME UNCHANGED <<events, queue>>, Keep(r, events[r]), r \in Queries,
             phase[r] = "returned", Tell(r, "answer")
      PROVE  IInv'
  <2>1. TypeOK'
    BY <1>1, <1>2, <1>3, <1>7, StoreType DEF TypeOK
  <2>2. Completed(events[r]) /\ Last(events[r]) = "completed"
    BY <1>7, KindsAreDisjoint DEF IInv, AnswerInv
  <2>3. AnswerInv(r)'
    BY <1>1, <1>2, <1>3, <1>7, <2>2 DEF AnswerInv
  <2> QED
    BY <1>1, <1>2, <1>3, <1>7, <2>1, <2>3, KeepStep
<1>8. ASSUME Emit(r, <<"completed">>), Keep(r, Append(events[r], "completed")),
             Tell(r, "answer")
      PROVE  IInv'
  <2>1. /\ events' \in [Requests -> Seq(EventTypes)]
        /\ queue' \in [Streams -> Seq(EventTypes \union {Close})]
        /\ events'[r] = Append(events[r], "completed")
        /\ \A q \in Requests : q # r => events'[q] = events[q]
        /\ \A q \in Streams : q # r => queue'[q] = queue[q]
    <3>1. "completed" \in EventTypes
      BY DEF EventTypes
    <3> QED
      BY <1>1, <1>8, <3>1, EmitStep
  <2>2. Append(events[r], "completed") \in Seq(EventTypes)
    BY <2>1
  <2>3. TypeOK'
    BY <1>1, <1>2, <1>3, <1>8, <2>1, <2>2, StoreType DEF TypeOK
  <2>4. Completed(events'[r]) /\ Last(events'[r]) = "completed"
    BY <1>1, <2>1, CompletedAppend DEF EventTypes
  <2>5. AnswerInv(r)'
    BY <1>1, <1>2, <1>3, <1>8, <2>4 DEF AnswerInv
  <2> QED
    BY <1>1, <1>2, <1>3, <1>8, <2>1, <2>3, <2>5, KeepStep
<1>9. CASE AnswerQuery(r)
  BY <1>5, <1>6, <1>7, <1>9 DEF AnswerQuery
<1>10. CASE AnswerRetrieve(r)
  BY <1>5, <1>8, <1>10 DEF AnswerRetrieve
<1> QED
  BY <1>9, <1>10

\* run_and_close: at most query.failed, then the trace and the mark.
LEMMA FinishStep == ASSUME IInv, NEW r \in Requests, FinishStream(r) PROVE IInv'
<1>1. /\ r \in Streams /\ phase[r] \in Outcomes /\ phase[r] # "settled"
      /\ UNCHANGED <<id, client, received>> /\ TypeOK /\ Become(r, "settled")
      /\ events[r] \in Seq(EventTypes) /\ queue[r] \in Seq(Elements)
      /\ received[r] \in Seq(Elements) /\ events[r] \in Seq(Elements)
      /\ Close \in Elements /\ r \notin Retrieves
  BY KindsAreDisjoint DEF FinishStream, Outcomes, IInv, TypeOK, Elements
<1>2. /\ phase' \in [Requests -> {"idle", "settled"} \union Running \union Outcomes]
      /\ phase'[r] = "settled" /\ "settled" \notin Unfinished
      /\ \A q \in Requests : q # r => phase'[q] = phase[q]
  BY <1>1 DEF TypeOK, Become, Unfinished, Running, Outcomes
<1>3. client[r] # "ended" /\ Passes(received[r], queue[r], events[r])
  BY <1>1 DEF IInv, StreamInv
<1> DEFINE w == LastWords(r)
           e == events[r] \o w
<1>4. /\ Keep(r, e)
      /\ events' = [events EXCEPT ![r] = e]
      /\ queue' = [queue EXCEPT ![r] = @ \o w \o <<Close>>]
  BY <1>1 DEF FinishStream, EmitAndClose, TypeOK
<1>5. /\ e \in Seq(EventTypes) /\ e \in Seq(Elements)
      /\ queue[r] \o w \in Seq(Elements)
      /\ Passes(received[r], queue[r] \o w, e)
      /\ Completed(e) => Last(e) = "completed"
      /\ client[r] # "gone" => Last(e) \in {"completed", "failed"}
  <2>1. CASE phase[r] \in {"returned", "disconnected"}
    <3>1. w = <<>>
      BY <2>1 DEF LastWords
    <3>2. events[r] \o <<>> = events[r] /\ queue[r] \o <<>> = queue[r]
      BY <1>1
    <3>3. e = events[r] /\ queue[r] \o w = queue[r]
      BY <3>1, <3>2
    <3>4. Completed(events[r]) => Last(events[r]) = "completed"
      BY DEF IInv, AnswerInv
    <3>5. client[r] # "gone" => Completed(events[r])
      BY <1>1, <2>1 DEF IInv, AnswerInv, StreamInv
    <3> QED
      BY <1>1, <1>3, <3>3, <3>4, <3>5
  <2>2. CASE phase[r] \notin {"returned", "disconnected"}
    <3>1. w = <<"failed">> /\ "failed" \in EventTypes /\ "failed" \in Elements
      BY <2>2 DEF LastWords, EventTypes, Elements
    <3>2. e = Append(events[r], "failed") /\ queue[r] \o w = Append(queue[r], "failed")
      BY <1>1, <3>1, AppendIsConcat
    <3>3. ~ Completed(events[r])
      BY <1>1, <2>2 DEF IInv, AnswerInv, Unfinished
    <3>4. ~ Completed(e) /\ Last(e) = "failed" /\ e \in Seq(EventTypes)
      <4>1. /\ Append(events[r], "failed") \in Seq(EventTypes)
            /\ Completed(Append(events[r], "failed")) <=>
                  Completed(events[r]) \/ "failed" = "completed"
            /\ Last(Append(events[r], "failed")) = "failed"
        BY <1>1, <3>1, CompletedAppend
      <4> HIDE DEF w, e
      <4> QED
        BY <3>2, <3>3, <4>1
    <3>5. Passes(received[r], Append(queue[r], "failed"), Append(events[r], "failed"))
      BY <1>1, <1>3, <3>1, PassesAppend
    <3>6. e \in Seq(Elements) /\ Append(queue[r], "failed") \in Seq(Elements)
      BY <1>1, <3>1, <3>2
    <3> QED
      BY <3>2, <3>4, <3>5, <3>6
  <2> QED
    BY <2>1, <2>2
<1> HIDE DEF w, e
<1>6. /\ events'[r] = e /\ events' \in [Requests -> Seq(EventTypes)]
      /\ \A q \in Requests : q # r => events'[q] = events[q]
  BY <1>1, <1>4, <1>5 DEF TypeOK
<1> DEFINE que == (queue[r] \o w) \o <<Close>>
<1>7. que = Append(queue[r] \o w, Close) /\ que \in Seq(Elements)
  <2>1. (queue[r] \o w) \o <<Close>> = Append(queue[r] \o w, Close)
    BY <1>1, <1>5, AppendIsConcat
  <2> QED
    BY <1>1, <1>5, <2>1
<1> HIDE DEF que
<1>8. /\ queue'[r] = que /\ queue' \in [Streams -> Seq(Elements)]
      /\ \A q \in Streams : q # r => queue'[q] = queue[q]
  <2>1. queue' = [queue EXCEPT ![r] = que]
    BY <1>4 DEF que
  <2> QED
    BY <1>1, <1>7, <2>1 DEF TypeOK, Elements
<1>9. TypeOK'
  BY <1>1, <1>2, <1>4, <1>5, <1>6, <1>8, StoreType DEF TypeOK, Elements
<1>10. AnswerInv(r)'
  BY <1>1, <1>2, <1>5, <1>6 DEF IInv, AnswerInv
<1>11. StreamInv(r)'
  <2>1. Passes(received[r], Append(queue[r] \o w, Close), Append(e, Close))
    BY <1>1, <1>5, PassesAppend
  <2> QED
    BY <1>1, <1>2, <1>3, <1>5, <1>6, <1>7, <1>8, <2>1 DEF StreamInv
<1> QED
  BY <1>1, <1>2, <1>4, <1>6, <1>8, <1>9, <1>10, <1>11, KeepStep

LEMMA InvStep == IInv /\ [Next]_vars => IInv'
<1> SUFFICES ASSUME IInv, [Next]_vars
             PROVE  IInv'
  OBVIOUS
<1>1. CASE UNCHANGED vars
  <2>1. TypeOK' /\ StoredTracesAreFinal'
    BY <1>1 DEF vars, IInv, TypeOK, StoredTracesAreFinal
  <2>2. \A r \in Requests : AnswerInv(r)' /\ TraceInv(r)'
    BY <1>1 DEF vars, IInv, AnswerInv, TraceInv, TraceKept, Kept, Younger
  <2>4. AgesInv'
    BY <1>1 DEF vars, IInv, AgesInv, Kept, Younger
  <2>3. \A r \in Streams : StreamInv(r)'
    BY <1>1 DEF vars, IInv, StreamInv
  <2> QED
    BY <2>1, <2>2, <2>3, <2>4 DEF IInv
<1>2. ASSUME NEW r \in Requests, Start(r) \/ PipelineStep(r)
      PROVE  IInv'
  BY <1>2, PipelineSteps
<1>3. ASSUME NEW r \in Requests, HandlerStep(r)
      PROVE  IInv'
  BY <1>3, AnswerSteps, FinishStep DEF HandlerStep
<1>4. ASSUME NEW r \in Requests, Deliver(r) \/ Disconnect(r)
      PROVE  IInv'
  BY <1>4, DeliverStep, DisconnectStep
<1> QED
  BY <1>1, <1>2, <1>3, <1>4 DEF Next

LEMMA InvAlways == Spec => []IInv
  BY InvInit, InvStep, PTL DEF Spec

----------------------------------------------------------------------------
(* Theorems *)

\* Requests, queues and the trace store keep their types.
THEOREM TypeCorrect == Spec => []TypeOK
<1>1. IInv => TypeOK
  BY DEF IInv
<1> QED
  BY <1>1, InvAlways, PTL

\* A stream that has ended for its client has delivered every event, once and
\* in order, the last of them saying how the query went: run_and_close.
THEOREM EndedStreamAlwaysWhole == Spec => []EndedStreamIsWhole
<1>1. IInv => EndedStreamIsWhole
  BY DEF IInv, StreamInv, EndedStreamIsWhole
<1> QED
  BY <1>1, InvAlways, PTL

\* Nothing is emitted after a trace was stored, whichever requests share its
\* id: TraceStore.store and the handlers that call it.
THEOREM StoredTracesAlwaysFinal == Spec => []StoredTracesAreFinal
<1>1. IInv => StoredTracesAreFinal
  BY DEF IInv
<1> QED
  BY <1>1, InvAlways, PTL

\* Who has an answer, or the end of a stream, finds the trace unless a request
\* of the same id has stored its own since, or the store is full, and of
\* younger traces only: TraceStore.store drops the oldest.
THEOREM TraceAlwaysThere == Spec => []TraceIsThere
<1>1. IInv => TraceIsThere
  <2> SUFFICES ASSUME IInv, NEW r \in Requests, client[r] \in {"answer", "ended"}
               PROVE  TraceKept(r)
    BY DEF TraceIsThere, TraceKept
  <2>1. CASE client[r] = "answer"
    BY <2>1 DEF IInv, TraceInv
  <2>2. CASE client[r] = "ended" /\ r \in Streams
    BY <2>2 DEF IInv, TraceInv, StreamInv
  <2>3. client[r] = "ended" => r \in Streams
    BY DEF IInv, AnswerInv
  <2> QED
    BY <2>1, <2>2, <2>3
<1> QED
  BY <1>1, InvAlways, PTL

\* query.completed is emitted for answered queries and no other, and last.
THEOREM CompletedAlwaysAnswered == Spec => []CompletedMeansAnswered
<1>1. IInv => CompletedMeansAnswered
  BY DEF IInv, AnswerInv, CompletedMeansAnswered, Completed
<1> QED
  BY <1>1, InvAlways, PTL

=============================================================================

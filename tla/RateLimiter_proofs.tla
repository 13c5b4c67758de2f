------------------------- MODULE RateLimiter_proofs -------------------------
(***************************************************************************)
(* Proofs about RateLimiter for any number of requests and clients, any    *)
(* limit and any window.                                                   *)
(*                                                                         *)
(* Checks of one window draw numbers from its counter.  While the window   *)
(* lasts the counter cannot be gone, so no number is drawn twice; it can   *)
(* be gone afterwards, but once only, so no number is drawn three times.   *)
(***************************************************************************)
EXTENDS RateLimiter, FiniteSetTheorems, TLAPS

\* The requests that have drawn a number from the counter under key k.
Counted(k) == {r \in Requests : count[r] > 0 /\ Key(r) = k}

\* A check is under way for MaxLag seconds at most.
ClockInv(r) ==
    /\ now[r] <= time
    /\ UnderWay(r) => time <= now[r] + MaxLag

\* What a check's number says of how far it has got.
NumberInv(r) ==
    /\ pc[r] \in {"start", "incr"} => count[r] = 0
    /\ pc[r] \in {"expire", "decide", "allowed", "denied"} => count[r] > 0
    /\ pc[r] = "allowed" => Allowed(r)
    /\ pc[r] = "denied" => ~ Allowed(r)

\* Nobody's number exceeds the number of those who have drawn one.
TotalInv ==
    /\ \A k \in Keys : counter[k].count <= Cardinality(Counted(k))
    /\ \A r \in Requests, k \in Keys :
          Key(r) = k => count[r] <= Cardinality(Counted(k))

\* Numbers drawn while the window lasts are different.
InTimeInv(k) ==
    \A q, r \in Counted(k) \ late : count[q] = count[r] => q = r

\* The counter has not been gone: all numbers are different and it lives on
\* until its window is over.
FirstCounter(k) ==
    /\ \A q, r \in Counted(k) : count[q] = count[r] => q = r
    /\ \A r \in Counted(k) : count[r] <= counter[k].count
    /\ counter[k].expires >= k[2] + Window

\* The counter has been gone and has counted again from 1.
SecondCounter(k) ==
    /\ time >= k[2] + Window
    /\ \A q, r \in Counted(k) :
          q # r /\ count[q] = count[r] => count[q] <= counter[k].count
    /\ \A q, r, s \in Counted(k) :
          count[q] = count[r] /\ count[r] = count[s] => q = r \/ q = s \/ r = s
    /\ counter[k].expires >= k[2] + 2 * Window

CounterInv(k) == FirstCounter(k) \/ SecondCounter(k)

IInv ==
    /\ TypeOK
    /\ \A r \in Requests : ClockInv(r)
    /\ \A r \in Requests : NumberInv(r)
    /\ TotalInv
    /\ \A k \in Keys : InTimeInv(k)
    /\ \A k \in Keys : CounterInv(k)

----------------------------------------------------------------------------
(* Windows and keys *)

\* A second lies in its window.
LEMMA WindowBounds ==
    ASSUME NEW n \in Nat
    PROVE  /\ WindowStart(n) \in Int
           /\ WindowStart(n) <= n
           /\ n < WindowStart(n) + Window
  BY WindowIsPositive DEF WindowStart

\* The seconds from a window's start until the next one lie in it.
LEMMA SameWindow ==
    ASSUME NEW t \in Nat, WindowStart(t) = t, NEW n \in t .. t + Window - 1
    PROVE  WindowStart(n) = t
<1> DEFINE W == Window
           a == n \div W
           b == t \div W
<1>1. W \in Nat \ {0} /\ a \in Int /\ b \in Int /\ n \in Nat
  BY WindowIsPositive
<1>2. n % W = n - W * a /\ n % W \in 0 .. W - 1
  <2>1. n % W = n - W * a
    BY <1>1
  <2> QED
    BY <1>1, <2>1
<1>3. t % W = t - W * b /\ t % W = 0
  <2>1. t % W = t - W * b
    BY <1>1
  <2>2. t % W \in Int /\ t - (t % W) = t
    BY <1>1 DEF WindowStart
  <2> QED
    BY <1>1, <2>1, <2>2
<1>4. n >= t /\ n - t < W /\ WindowStart(n) = n - (n % W)
  BY <1>1 DEF WindowStart
<1> HIDE DEF W, a, b
<1> DEFINE Wa == W * a
           Wb == W * b
<1>5. Wa \in Int /\ Wb \in Int
  BY <1>1
<1>6. (a >= b + 1 => Wa >= Wb + W) /\ (b >= a + 1 => Wb >= Wa + W)
  BY <1>1
<1>7. n % W = n - Wa /\ t = Wb
  BY <1>1, <1>2, <1>3, <1>5
<1>8. a = b => Wa = Wb
  OBVIOUS
<1> HIDE DEF Wa, Wb
<1>9. Wa = Wb
  BY <1>1, <1>2, <1>4, <1>5, <1>6, <1>7, <1>8
<1> QED
  BY <1>1, <1>4, <1>5, <1>7, <1>9

\* The key a check counts under.
LEMMA KeyOfCheck ==
    ASSUME TypeOK, NEW r \in Requests
    PROVE  /\ Key(r) \in Keys
           /\ Key(r)[1] = from[r]
           /\ Key(r)[2] = WindowStart(now[r])
           /\ Key(r)[2] \in Int
           /\ Key(r)[2] <= now[r]
           /\ now[r] < Key(r)[2] + Window
<1>1. now[r] \in 0 .. MaxTime /\ now[r] \in Nat /\ from[r] \in Clients
  BY ClockStops DEF TypeOK
<1> QED
  BY <1>1, WindowBounds DEF Key, Keys

LEMMA KeyTypes ==
    ASSUME NEW k \in Keys
    PROVE  k[2] \in Int /\ k[2] <= MaxTime
<1>1. PICK t \in 0 .. MaxTime : k[2] = WindowStart(t)
  BY DEF Keys
<1> QED
  BY <1>1, ClockStops, WindowBounds

LEMMA CountedIsFinite ==
    ASSUME NEW k
    PROVE  IsFiniteSet(Counted(k)) /\ Cardinality(Counted(k)) \in Nat
<1>1. Counted(k) \in SUBSET Requests
  BY DEF Counted
<1> QED
  BY <1>1, RequestsAreFinite, FS_Subset, FS_CardinalityType

----------------------------------------------------------------------------
(* The invariant *)

LEMMA InvInit == Init => IInv
<1> SUFFICES ASSUME Init
             PROVE  IInv
  OBVIOUS
<1>1. /\ Never \in Nat /\ \A k \in Keys : Never >= k[2] + Window
      /\ Absent \in [count : Nat, expires : Nat]
  BY KeyTypes, ClockStops, WindowIsPositive DEF Never, Absent
<1>2. TypeOK
  BY <1>1, ClockStops DEF Init, TypeOK
<1>3. \A k : Counted(k) = {}
  BY DEF Init, Counted
<1>4. \A r \in Requests : ClockInv(r) /\ NumberInv(r)
  BY DEF Init, ClockInv, NumberInv, UnderWay
<1>5. TotalInv
  <2>1. \A k : Cardinality(Counted(k)) \in Nat
    BY CountedIsFinite
  <2>2. \A r \in Requests : count[r] = 0
    BY DEF Init
  <2>3. \A k \in Keys : counter[k].count = 0
    BY DEF Init, Absent
  <2> QED
    BY <2>1, <2>2, <2>3 DEF TotalInv
<1>6. \A k \in Keys : InTimeInv(k) /\ FirstCounter(k)
  <2>1. \A k \in Keys : counter[k].expires = Never
    BY DEF Init, Absent
  <2> QED
    BY <1>1, <1>3, <2>1 DEF InTimeInv, FirstCounter
<1> QED
  BY <1>2, <1>4, <1>5, <1>6 DEF IInv, CounterInv

\* Numbers and counts stay; expiry moves no further than the invariant allows.
LEMMA CountersKeep ==
    ASSUME IInv, TypeOK', late' = late, count' = count,
           \A k : Counted(k)' = Counted(k),
           \A r \in Requests : count[r] > 0 => Key(r)' = Key(r),
           time' >= time,
           \A k \in Keys :
              /\ counter'[k].count = counter[k].count
              /\ \/ counter'[k].expires >= counter[k].expires
                 \/ counter'[k].expires >= time + Window /\ time >= k[2]
    PROVE  /\ TotalInv'
           /\ \A k \in Keys : InTimeInv(k)' /\ CounterInv(k)'
<1>1. TotalInv'
  <2>1. \A k \in Keys : counter'[k].count <= Cardinality(Counted(k))'
    BY DEF IInv, TotalInv
  <2>2. ASSUME NEW r \in Requests, NEW k \in Keys, Key(r)' = k
        PROVE  count'[r] <= Cardinality(Counted(k))'
    <3>1. CASE count[r] > 0
      BY <2>2, <3>1 DEF IInv, TotalInv
    <3>2. CASE count[r] = 0
      BY <3>2, CountedIsFinite
    <3> QED
      BY <3>1, <3>2 DEF IInv, TypeOK
  <2> QED
    BY <2>1, <2>2 DEF TotalInv
<1>2. ASSUME NEW k \in Keys
      PROVE  InTimeInv(k)' /\ CounterInv(k)'
  <2>1. InTimeInv(k)'
    BY DEF IInv, InTimeInv
  <2>2. /\ k[2] \in Int /\ Window \in Nat \ {0} /\ time \in Nat /\ time' \in Nat
        /\ counter[k].expires \in Nat /\ counter'[k].expires \in Nat
        /\ counter'[k].count = counter[k].count
    BY KeyTypes, WindowIsPositive, ClockStops DEF IInv, TypeOK
  <2>3. CASE FirstCounter(k)
    <3>1. counter'[k].expires >= k[2] + Window
      BY <2>2, <2>3 DEF FirstCounter
    <3> QED
      BY <2>1, <2>2, <2>3, <3>1 DEF FirstCounter, CounterInv
  <2>4. CASE SecondCounter(k)
    <3>1. counter'[k].expires >= k[2] + 2 * Window /\ time' >= k[2] + Window
      BY <2>2, <2>4 DEF SecondCounter
    <3> QED
      BY <2>1, <2>2, <2>4, <3>1 DEF SecondCounter, CounterInv
  <2> QED
    BY <2>1, <2>3, <2>4 DEF IInv, CounterInv
<1> QED
  BY <1>1, <1>2

LEMMA TickStep == ASSUME IInv, Tick PROVE IInv'
<1>1. /\ time' = time + 1 /\ time < MaxTime /\ time \in 0 .. MaxTime
      /\ UNCHANGED <<counter, pc, from, now, count, late>> /\ TypeOK
  BY DEF Tick, IInv, TypeOK
<1>2. TypeOK'
  BY <1>1, ClockStops DEF TypeOK
<1>3. \A r \in Requests : ClockInv(r)' /\ NumberInv(r)'
  <2>1. \A r \in Requests : now[r] \in Nat
    BY ClockStops DEF IInv, TypeOK
  <2> QED
    BY <1>1, <2>1, ClockStops, LagIsShort, WindowIsPositive
       DEF IInv, Tick, ClockInv, NumberInv, UnderWay, Allowed
<1>4. TotalInv' /\ \A k \in Keys : InTimeInv(k)' /\ CounterInv(k)'
  <2>1. /\ \A k : Counted(k)' = Counted(k)
        /\ \A r \in Requests : Key(r)' = Key(r)
    BY <1>1 DEF Counted, Key
  <2>2. \A k \in Keys : /\ counter'[k].count = counter[k].count
                        /\ counter'[k].expires >= counter[k].expires
    BY <1>1 DEF TypeOK
  <2>3. time' >= time
    BY <1>1, ClockStops
  <2> QED
    BY <1>1, <1>2, <2>1, <2>2, <2>3, CountersKeep
<1> QED
  BY <1>2, <1>3, <1>4 DEF IInv

LEMMA ReadClockStep == ASSUME IInv, NEW r \in Requests, ReadClock(r) PROVE IInv'
<1>1. /\ pc[r] = "start" /\ now' = [now EXCEPT ![r] = time]
      /\ pc' = [pc EXCEPT ![r] = "incr"]
      /\ UNCHANGED <<time, counter, from, count, late>> /\ TypeOK
      /\ count[r] = 0
  BY DEF ReadClock, IInv, NumberInv
<1>2. TypeOK'
  BY <1>1 DEF TypeOK
<1>3. \A q \in Requests : q # r => now'[q] = now[q] /\ pc'[q] = pc[q]
  BY <1>1 DEF TypeOK
<1>4. now'[r] = time /\ pc'[r] = "incr" /\ time \in Nat
  BY <1>1, ClockStops DEF TypeOK
<1>5. \A q \in Requests : ClockInv(q)' /\ NumberInv(q)'
  BY <1>1, <1>3, <1>4, LagIsShort, WindowIsPositive
     DEF IInv, ClockInv, NumberInv, UnderWay, Allowed
<1>6. TotalInv' /\ \A k \in Keys : InTimeInv(k)' /\ CounterInv(k)'
  <2>1. \A q \in Requests : count[q] > 0 => Key(q)' = Key(q)
    BY <1>1, <1>3 DEF Key
  <2>2. \A k : Counted(k)' = Counted(k)
    BY <1>1, <2>1 DEF Counted
  <2>3. \A k \in Keys : /\ counter'[k].count = counter[k].count
                        /\ counter'[k].expires >= counter[k].expires
    BY <1>1 DEF TypeOK
  <2>4. time' >= time
    BY <1>1, <1>4
  <2> QED
    BY <1>1, <1>2, <2>1, <2>2, <2>3, <2>4, CountersKeep
<1> QED
  BY <1>2, <1>5, <1>6 DEF IInv

\* Expire, Decide and Crash draw no number.
LEMMA OtherSteps ==
    ASSUME IInv, NEW r \in Requests, Expire(r) \/ Decide(r) \/ Crash(r)
    PROVE  IInv'
<1>1. UNCHANGED <<time, from, now, count, late>> /\ TypeOK /\ time \in Nat
  BY ClockStops DEF Expire, Decide, Crash, IInv, TypeOK
<1>2. /\ UnderWay(r)
      /\ pc' \in [Requests -> {"start", "incr", "expire", "decide",
                               "allowed", "denied", "failed"}]
      /\ \A q \in Requests : q # r => pc'[q] = pc[q]
      /\ \/ pc'[r] = "decide" /\ pc[r] = "expire"
         \/ pc'[r] = "allowed" /\ pc[r] = "decide" /\ Allowed(r)
         \/ pc'[r] = "denied" /\ pc[r] = "decide" /\ ~ Allowed(r)
         \/ pc'[r] = "failed"
  BY <1>1 DEF Expire, Decide, Crash, UnderWay, TypeOK
<1>3. /\ counter' \in [Keys -> [count : Nat, expires : Nat]]
      /\ \A k \in Keys :
            /\ counter'[k].count = counter[k].count
            /\ \/ counter'[k].expires >= counter[k].expires
               \/ counter'[k].expires >= time + Window /\ time >= k[2]
  <2>1. \A k \in Keys : counter[k] \in [count : Nat, expires : Nat]
    BY <1>1 DEF TypeOK
  <2>2. CASE counter' = counter
    BY <1>1, <2>1, <2>2 DEF TypeOK
  <2>3. CASE Expire(r)
    <3> DEFINE e == IF counter[Key(r)] = Absent THEN counter[Key(r)].expires
                    ELSE time + Window
    <3>1. counter' = [counter EXCEPT ![Key(r)].expires = e]
      BY <2>3 DEF Expire
    <3>2. Key(r) \in Keys /\ Key(r)[2] <= time /\ e \in Nat
      BY <1>1, <2>1, KeyOfCheck, WindowIsPositive DEF IInv, ClockInv, TypeOK
    <3>3. e >= counter[Key(r)].expires \/ e >= time + Window
      BY <1>1, <2>1, <3>2, WindowIsPositive
    <3> HIDE DEF e
    <3>4. counter' = [counter EXCEPT ![Key(r)] = [@ EXCEPT !.expires = e]]
      BY <1>1, <3>1, <3>2 DEF TypeOK
    <3>5. /\ counter'[Key(r)].count = counter[Key(r)].count
          /\ counter'[Key(r)].expires = e
          /\ counter'[Key(r)] \in [count : Nat, expires : Nat]
      BY <1>1, <2>1, <3>2, <3>4 DEF TypeOK
    <3>6. \A k \in Keys : k # Key(r) => counter'[k] = counter[k]
      BY <1>1, <3>2, <3>4 DEF TypeOK
    <3>7. counter' \in [Keys -> [count : Nat, expires : Nat]]
      BY <1>1, <2>1, <3>2, <3>4, <3>5, <3>6 DEF TypeOK
    <3> QED
      BY <2>1, <3>2, <3>3, <3>5, <3>6, <3>7
  <2> QED
    BY <2>2, <2>3 DEF Decide, Crash
<1>4. TypeOK'
  BY <1>1, <1>2, <1>3 DEF TypeOK
<1>5. \A q \in Requests : ClockInv(q)' /\ NumberInv(q)'
  BY <1>1, <1>2 DEF IInv, ClockInv, NumberInv, UnderWay, Allowed
<1>6. TotalInv' /\ \A k \in Keys : InTimeInv(k)' /\ CounterInv(k)'
  <2>1. /\ \A k : Counted(k)' = Counted(k)
        /\ \A q \in Requests : Key(q)' = Key(q)
    BY <1>1 DEF Counted, Key
  <2> QED
    BY <1>1, <1>3, <1>4, <2>1, CountersKeep
<1> QED
  BY <1>4, <1>5, <1>6 DEF IInv

\* A check that draws the next number.
LEMMA IncrStep ==
    ASSUME IInv, NEW r \in Requests, Incr(r), NEW k0 \in Keys, k0 = Key(r)
    PROVE  IInv'
<1>1. PICK old \in Found(k0) :
         /\ counter' = [counter EXCEPT ![k0] = [old EXCEPT !.count = @ + 1]]
         /\ count' = [count EXCEPT ![r] = old.count + 1]
         /\ pc' = [pc EXCEPT ![r] = IF old.count = 0 THEN "expire" ELSE "decide"]
  BY DEF Incr
<1>2. /\ UNCHANGED <<time, from, now>> /\ TypeOK /\ pc[r] = "incr" /\ count[r] = 0
      /\ late' = IF time < WindowStart(now[r]) + Window THEN late
                                                        ELSE late \union {r}
  BY DEF Incr, IInv, NumberInv
<1>3. /\ k0[2] = WindowStart(now[r]) /\ k0[2] \in Int /\ k0[2] <= time
      /\ time \in Nat /\ time <= MaxTime /\ time < k0[2] + 2 * Window
      /\ Window \in Nat \ {0} /\ MaxTime \in Nat
  BY <1>2, KeyOfCheck, ClockStops, WindowIsPositive, LagIsShort
     DEF IInv, ClockInv, UnderWay, TypeOK
<1>4. counter[k0] \in [count : Nat, expires : Nat] /\ Absent.count = 0
      /\ Absent.expires = Never /\ Never = MaxTime + Window + 1
      /\ Absent \in [count : Nat, expires : Nat]
  BY <1>2, <1>3 DEF TypeOK, Absent, Never
<1>5. /\ \/ old = counter[k0]
         \/ old = Absent /\ time >= counter[k0].expires
      /\ old \in [count : Nat, expires : Nat]
      /\ old.count <= counter[k0].count
  BY <1>4 DEF Found
<1>6. /\ counter'[k0].count = old.count + 1 /\ counter'[k0].expires = old.expires
      /\ counter'[k0] \in [count : Nat, expires : Nat]
      /\ \A k \in Keys : k # k0 => counter'[k] = counter[k]
      /\ counter' \in [Keys -> [count : Nat, expires : Nat]]
  <2> DEFINE next == [old EXCEPT !.count = @ + 1]
  <2>1. next \in [count : Nat, expires : Nat] /\ next.count = old.count + 1
        /\ next.expires = old.expires
    BY <1>5
  <2>2. counter' = [counter EXCEPT ![k0] = next]
    BY <1>1
  <2> HIDE DEF next
  <2> QED
    BY <1>2, <1>3, <2>1, <2>2 DEF TypeOK
<1>7. /\ count'[r] = old.count + 1 /\ count' \in [Requests -> Nat]
      /\ \A q \in Requests : q # r => count'[q] = count[q] /\ pc'[q] = pc[q]
      /\ pc'[r] \in {"expire", "decide"}
      /\ \A q \in Requests : count[q] \in Nat /\ count'[q] \in Nat
  BY <1>1, <1>2, <1>5 DEF TypeOK
<1>8. TypeOK'
  <2>1. pc' \in [Requests -> {"start", "incr", "expire", "decide",
                              "allowed", "denied", "failed"}]
    BY <1>1, <1>2 DEF TypeOK
  <2>2. late' \subseteq Requests
    BY <1>2 DEF TypeOK
  <2> QED
    BY <1>2, <1>6, <1>7, <2>1, <2>2 DEF TypeOK
<1>9. \A q \in Requests : ClockInv(q)' /\ NumberInv(q)'
  <2>1. \A q \in Requests : q # r => ClockInv(q)' /\ NumberInv(q)'
    BY <1>2, <1>7 DEF IInv, ClockInv, NumberInv, UnderWay, Allowed
  <2>2. ClockInv(r)' /\ NumberInv(r)'
    BY <1>2, <1>5, <1>7 DEF IInv, ClockInv, NumberInv, UnderWay
  <2> QED
    BY <2>1, <2>2
<1>10. /\ \A q \in Requests : Key(q)' = Key(q)
       /\ Counted(k0)' = Counted(k0) \union {r} /\ r \notin Counted(k0)
       /\ \A k : k # k0 => Counted(k)' = Counted(k)
       /\ \A q \in Counted(k0) : count'[q] = count[q] /\ q \in Requests
  <2>1. \A q \in Requests : Key(q)' = Key(q)
    BY <1>2 DEF Key
  <2> QED
    BY <1>2, <1>5, <1>7, <2>1 DEF Counted
<1>11. TotalInv'
  <2>1. /\ Cardinality(Counted(k0)) \in Nat
        /\ Cardinality(Counted(k0)') = Cardinality(Counted(k0)) + 1
    BY <1>10, CountedIsFinite, FS_AddElement
  <2>2. counter[k0].count <= Cardinality(Counted(k0))
    BY <1>3 DEF IInv, TotalInv
  <2>3. ASSUME NEW k \in Keys
        PROVE  counter'[k].count <= Cardinality(Counted(k)')
    <3>1. CASE k = k0
      BY <1>4, <1>5, <1>6, <2>1, <2>2, <3>1
    <3>2. CASE k # k0
      BY <1>6, <1>10, <3>2 DEF IInv, TotalInv
    <3> QED
      BY <3>1, <3>2
  <2>4. ASSUME NEW q \in Requests, NEW k \in Keys, Key(q)' = k
        PROVE  count'[q] <= Cardinality(Counted(k)')
    <3>1. Key(q) = k
      BY <1>10, <2>4
    <3>2. CASE q = r
      BY <1>4, <1>5, <1>7, <2>1, <2>2, <3>1, <3>2
    <3>3. CASE q # r
      <4>1. count'[q] = count[q] /\ count[q] <= Cardinality(Counted(k))
        BY <1>7, <3>1, <3>3 DEF IInv, TotalInv
      <4>2. CASE k = k0
        BY <1>7, <2>1, <4>1, <4>2
      <4>3. CASE k # k0
        BY <1>10, <4>1, <4>3
      <4> QED
        BY <4>2, <4>3
    <3> QED
      BY <3>2, <3>3
  <2> QED
    BY <2>3, <2>4 DEF TotalInv
<1>12. old = counter[k0] /\ FirstCounter(k0) => FirstCounter(k0)'
  <2>1. SUFFICES ASSUME old = counter[k0], FirstCounter(k0)
                 PROVE  FirstCounter(k0)'
    OBVIOUS
  <2>2. \A q \in Counted(k0) : count[q] <= old.count
    BY <2>1 DEF FirstCounter
  <2>3. counter'[k0].expires >= k0[2] + Window
    BY <1>6, <2>1 DEF FirstCounter
  <2>4. \A q \in Counted(k0)' : count'[q] <= counter'[k0].count
    BY <1>5, <1>6, <1>7, <1>10, <2>2
  <2>5. \A p, q \in Counted(k0)' : count'[p] = count'[q] => p = q
    BY <1>5, <1>7, <1>10, <2>1, <2>2 DEF FirstCounter
  <2> QED
    BY <2>3, <2>4, <2>5 DEF FirstCounter
<1>13. CounterInv(k0)'
  <2>1. CASE old = counter[k0] /\ FirstCounter(k0)
    BY <1>12, <2>1 DEF CounterInv
  <2>2. CASE old = Absent /\ time >= counter[k0].expires /\ FirstCounter(k0)
    <3>1. time >= k0[2] + Window
      BY <1>3, <1>4, <2>2 DEF FirstCounter
    <3>2. counter'[k0].expires >= k0[2] + 2 * Window
      BY <1>3, <1>4, <1>6, <2>2, <3>1
    <3>3. count'[r] = 1 /\ counter'[k0].count = 1
      BY <1>4, <1>6, <1>7, <2>2
    <3>4. \A p, q \in Counted(k0) : count'[p] = count'[q] => p = q
      BY <1>10, <2>2 DEF FirstCounter
    <3>5. \A p, q \in Counted(k0)' :
             p # q /\ count'[p] = count'[q] => count'[p] <= counter'[k0].count
      BY <1>10, <3>3, <3>4
    <3>6. \A p, q, s \in Counted(k0)' :
             count'[p] = count'[q] /\ count'[q] = count'[s]
                => p = q \/ p = s \/ q = s
      BY <1>10, <3>4
    <3> QED
      BY <1>2, <3>1, <3>2, <3>5, <3>6 DEF SecondCounter, CounterInv
  <2>3. CASE old = counter[k0] /\ SecondCounter(k0)
    <3>1. time >= k0[2] + Window /\ counter'[k0].expires >= k0[2] + 2 * Window
      BY <1>6, <2>3 DEF SecondCounter
    <3>2. \A p, q \in Counted(k0) :
             p # q /\ count'[p] = count'[q] => count'[p] <= old.count
      BY <1>10, <2>3 DEF SecondCounter
    <3>3. \A p, q \in Counted(k0)' :
             p # q /\ count'[p] = count'[q] => count'[p] <= counter'[k0].count
      BY <1>5, <1>6, <1>7, <1>10, <3>2
    <3>4. \A p, q, s \in Counted(k0) :
             count'[p] = count'[q] /\ count'[q] = count'[s]
                => p = q \/ p = s \/ q = s
      BY <1>10, <2>3 DEF SecondCounter
    <3>5. \A p, q \in Counted(k0) :
             count'[p] = count'[r] /\ count'[q] = count'[r] => p = q
      BY <1>5, <1>7, <3>2
    <3>6. \A p, q, s \in Counted(k0)' :
             count'[p] = count'[q] /\ count'[q] = count'[s]
                => p = q \/ p = s \/ q = s
      BY <1>10, <3>4, <3>5
    <3> QED
      BY <1>2, <3>1, <3>3, <3>6 DEF SecondCounter, CounterInv
  <2>4. ~ (time >= counter[k0].expires /\ SecondCounter(k0))
    BY <1>3, <1>4 DEF SecondCounter
  <2> QED
    BY <1>5, <2>1, <2>2, <2>3, <2>4 DEF IInv, CounterInv
<1>14. InTimeInv(k0)'
  <2>1. CASE time < WindowStart(now[r]) + Window
    <3>1. FirstCounter(k0) /\ counter[k0].expires >= k0[2] + Window
      BY <1>3, <2>1 DEF IInv, CounterInv, FirstCounter, SecondCounter
    <3>2. old = counter[k0]
      BY <1>3, <1>4, <1>5, <2>1, <3>1
    <3> QED
      BY <1>12, <3>1, <3>2 DEF FirstCounter, InTimeInv
  <2>2. CASE ~ time < WindowStart(now[r]) + Window
    <3>1. Counted(k0)' \ late' = Counted(k0) \ late
      BY <1>2, <1>10, <2>2
    <3>2. \A p, q \in Counted(k0) \ late : count'[p] = count'[q] => p = q
      BY <1>10 DEF IInv, InTimeInv
    <3> QED
      BY <3>1, <3>2 DEF InTimeInv
  <2> QED
    BY <2>1, <2>2
<1>15. ASSUME NEW k \in Keys, k # k0
       PROVE  InTimeInv(k)' /\ CounterInv(k)'
  <2>1. /\ Counted(k)' = Counted(k) /\ r \notin Counted(k)
        /\ \A q \in Counted(k) : count'[q] = count[q]
        /\ Counted(k) \ late' = Counted(k) \ late
        /\ counter'[k] = counter[k]
    BY <1>2, <1>6, <1>7, <1>10, <1>15 DEF Counted
  <2>2. InTimeInv(k)'
    BY <2>1 DEF IInv, InTimeInv
  <2>3. CASE FirstCounter(k)
    <3>1. FirstCounter(k)'
      BY <2>1, <2>3 DEF FirstCounter
    <3> QED
      BY <2>2, <3>1 DEF CounterInv
  <2>4. CASE SecondCounter(k)
    <3>1. SecondCounter(k)'
      BY <1>2, <2>1, <2>4 DEF SecondCounter
    <3> QED
      BY <2>2, <3>1 DEF CounterInv
  <2> QED
    BY <2>2, <2>3, <2>4 DEF IInv, CounterInv
<1> QED
  BY <1>8, <1>9, <1>11, <1>13, <1>14, <1>15 DEF IInv

LEMMA InvStep == IInv /\ [Next]_vars => IInv'
<1> SUFFICES ASSUME IInv, [Next]_vars
             PROVE  IInv'
  OBVIOUS
<1>1. CASE UNCHANGED vars
  <2>1. \A r \in Requests : Key(r)' = Key(r)
    BY <1>1 DEF vars, Key
  <2>2. \A k : Counted(k)' = Counted(k)
    BY <1>1 DEF vars, Counted, Key
  <2> QED
    BY <1>1, <2>1, <2>2
       DEF vars, IInv, TypeOK, ClockInv, NumberInv, TotalInv, InTimeInv,
           CounterInv, FirstCounter, SecondCounter, UnderWay, Allowed
<1>2. CASE Tick
  BY <1>2, TickStep
<1>3. ASSUME NEW r \in Requests, ReadClock(r)
      PROVE  IInv'
  BY <1>3, ReadClockStep
<1>4. ASSUME NEW r \in Requests, Incr(r)
      PROVE  IInv'
  <2>1. Key(r) \in Keys
    BY KeyOfCheck DEF IInv
  <2> QED
    BY <1>4, <2>1, IncrStep
<1>5. ASSUME NEW r \in Requests, Expire(r) \/ Decide(r) \/ Crash(r)
      PROVE  IInv'
  BY <1>5, OtherSteps
<1> QED
  BY <1>1, <1>2, <1>3, <1>4, <1>5 DEF Next

LEMMA InvAlways == Spec => []IInv
  BY InvInit, InvStep, PTL DEF Spec

----------------------------------------------------------------------------
(* Theorems *)

\* Clock, counters and checks keep their types: RateLimiter.check.
THEOREM TypeCorrect == Spec => []TypeOK
<1>1. IInv => TypeOK
  BY DEF IInv
<1> QED
  BY <1>1, InvAlways, PTL

\* A client's allowed requests of one window have all counted under one key.
LEMMA AllowedAreCounted ==
    ASSUME IInv, NEW c \in Clients, NEW t \in 0 .. MaxTime, WindowStart(t) = t
    PROVE  /\ <<c, t>> \in Keys
           /\ IsFiniteSet(AllowedOf(c, t .. t + Window - 1))
           /\ AllowedOf(c, t .. t + Window - 1) \subseteq Counted(<<c, t>>)
           /\ \A r \in AllowedOf(c, t .. t + Window - 1) : count[r] \in 1 .. Limit
<1>1. <<c, t>> \in Keys
  BY DEF Keys
<1>2. ASSUME NEW r \in AllowedOf(c, t .. t + Window - 1)
      PROVE  r \in Counted(<<c, t>>) /\ count[r] \in 1 .. Limit
  <2>1. /\ r \in Requests /\ pc[r] = "allowed" /\ from[r] = c
        /\ now[r] \in t .. t + Window - 1
    BY DEF AllowedOf
  <2>2. Key(r) = <<c, t>>
    BY <2>1, SameWindow, ClockStops DEF Key
  <2>3. count[r] > 0 /\ count[r] <= Limit /\ count[r] \in Nat
    BY <2>1 DEF IInv, NumberInv, Allowed, TypeOK
  <2> QED
    BY <2>1, <2>2, <2>3, LimitIsNatural DEF Counted
<1>3. AllowedOf(c, t .. t + Window - 1) \in SUBSET Requests
  BY DEF AllowedOf
<1> QED
  BY <1>1, <1>2, <1>3, RequestsAreFinite, FS_Subset

\* At most Limit requests of a client are let through in a window, apart from
\* those that counted after it: RateLimiter.check under any interleaving.
THEOREM WindowAlwaysRespected == Spec => []WindowRespected
<1>1. IInv => WindowRespected
  <2> SUFFICES ASSUME IInv, NEW c \in Clients, NEW t \in 0 .. MaxTime,
                      WindowStart(t) = t
               PROVE  Cardinality(AllowedOf(c, t .. t + Window - 1) \ late) <= Limit
    BY DEF WindowRespected
  <2> DEFINE A == AllowedOf(c, t .. t + Window - 1) \ late
             f == [r \in A |-> count[r]]
  <2>1. /\ \A r \in A : count[r] \in 1 .. Limit
        /\ \A q, r \in A : count[q] = count[r] => q = r
    BY AllowedAreCounted DEF IInv, InTimeInv
  <2> HIDE DEF A
  <2>2. f \in Injection(A, 1 .. Limit)
    BY <2>1 DEF Injection, IsInjective
  <2>3. IsFiniteSet(1 .. Limit) /\ Cardinality(1 .. Limit) = Limit
    BY LimitIsNatural, FS_Interval
  <2>4. Cardinality(A) <= Limit
    BY <2>2, <2>3, FS_Injection
  <2> QED
    BY <2>4 DEF A
<1> QED
  BY <1>1, InvAlways, PTL

\* Late checks included, at most twice Limit of them are let through: the
\* counter under a key is gone once at most while checks still use it.
THEOREM LateChecksAlwaysBounded == Spec => []LateChecksBounded
<1>1. IInv => LateChecksBounded
  <2> SUFFICES ASSUME IInv, NEW c \in Clients, NEW t \in 0 .. MaxTime,
                      WindowStart(t) = t
               PROVE  Cardinality(AllowedOf(c, t .. t + Window - 1)) <= 2 * Limit
    BY DEF LateChecksBounded
  <2> DEFINE A == AllowedOf(c, t .. t + Window - 1)
             first(n) == CHOOSE r \in A : count[r] = n
             place(r) == IF r = first(count[r]) THEN 1 ELSE 2
             f == [r \in A |-> <<count[r], place(r)>>]
             T == (1 .. Limit) \X (1 .. 2)
  <2>1. /\ \A r \in A : count[r] \in 1 .. Limit
        /\ \A q, r, s \in A :
              count[q] = count[r] /\ count[r] = count[s] => q = r \/ q = s \/ r = s
    <3>1. <<c, t>> \in Keys /\ A \subseteq Counted(<<c, t>>)
      BY AllowedAreCounted
    <3>2. CounterInv(<<c, t>>)
      BY <3>1 DEF IInv
    <3>3. \A q, r, s \in Counted(<<c, t>>) :
             count[q] = count[r] /\ count[r] = count[s] => q = r \/ q = s \/ r = s
      BY <3>2 DEF CounterInv, FirstCounter, SecondCounter
    <3> HIDE DEF A
    <3>4. \A q, r, s \in A :
             count[q] = count[r] /\ count[r] = count[s] => q = r \/ q = s \/ r = s
      BY <3>1, <3>3
    <3> QED
      BY <3>4, AllowedAreCounted DEF A
  <2> HIDE DEF A
  <2>2. \A r \in A : first(count[r]) \in A /\ count[first(count[r])] = count[r]
    OBVIOUS
  <2> HIDE DEF first
  <2>3. \A q, r \in A : count[q] = count[r] /\ place(q) = place(r) => q = r
    BY <2>1, <2>2
  <2>4. \A r \in A : place(r) \in 1 .. 2
    OBVIOUS
  <2> HIDE DEF place
  <2>5. f \in Injection(A, T)
    BY <2>1, <2>3, <2>4 DEF Injection, IsInjective
  <2>6. IsFiniteSet(T) /\ Cardinality(T) = 2 * Limit
    <3>1. \A n \in Nat : IsFiniteSet(1 .. n) /\ Cardinality(1 .. n) = n
      BY FS_Interval
    <3>2. /\ IsFiniteSet(1 .. Limit) /\ Cardinality(1 .. Limit) = Limit
          /\ IsFiniteSet(1 .. 2) /\ Cardinality(1 .. 2) = 2
      BY <3>1, LimitIsNatural
    <3>3. IsFiniteSet(T) /\ Cardinality(T) = Cardinality(1 .. Limit) * Cardinality(1 .. 2)
      BY <3>2, FS_Product
    <3> QED
      BY <3>2, <3>3, LimitIsNatural
  <2>7. Cardinality(A) <= 2 * Limit
    BY <2>5, <2>6, FS_Injection
  <2> QED
    BY <2>7 DEF A
<1> QED
  BY <1>1, InvAlways, PTL

\* A request is denied only if Limit others of its client and window have been
\* counted: no number exceeds the number of those who have drawn one.
THEOREM DenialAlwaysDeserved == Spec => []DenialIsDeserved
<1>1. IInv => DenialIsDeserved
  <2> SUFFICES ASSUME IInv, NEW r \in Requests, pc[r] = "denied"
               PROVE  Cardinality({q \in Requests \ {r} :
                                     /\ pc[q] \notin {"start", "incr"}
                                     /\ from[q] = from[r]
                                     /\ WindowStart(now[q]) = WindowStart(now[r])})
                         >= Limit
    BY DEF DenialIsDeserved
  <2> DEFINE others == {q \in Requests \ {r} :
                          /\ pc[q] \notin {"start", "incr"}
                          /\ from[q] = from[r]
                          /\ WindowStart(now[q]) = WindowStart(now[r])}
             mine == Counted(Key(r))
  <2>1. count[r] > Limit /\ count[r] \in Nat
    BY LimitIsNatural DEF IInv, NumberInv, Allowed, TypeOK
  <2>2. count[r] <= Cardinality(mine)
    BY KeyOfCheck DEF IInv, TotalInv
  <2>3. IsFiniteSet(mine) /\ Cardinality(mine) \in Nat
    BY CountedIsFinite
  <2> r \in mine
    BY <2>1, LimitIsNatural DEF Counted
  <2>4. mine \ {r} \in SUBSET others
    BY DEF IInv, TypeOK, NumberInv, Counted, Key
  <2>5. others \in SUBSET Requests
    OBVIOUS
  <2> HIDE DEF mine, others
  <2>6. IsFiniteSet(others) /\ Cardinality(others) \in Nat
    BY <2>5, RequestsAreFinite, FS_Subset, FS_CardinalityType
  <2>7. /\ IsFiniteSet(mine \ {r})
        /\ Cardinality(mine \ {r}) = Cardinality(mine) - 1
    BY <2>3, FS_RemoveElement
  <2>8. Cardinality(mine \ {r}) <= Cardinality(others)
    BY <2>4, <2>6, FS_Subset
  <2>9. Cardinality(others) >= Limit
    BY <2>1, <2>2, <2>3, <2>6, <2>7, <2>8, LimitIsNatural
  <2> QED
    BY <2>9 DEF others
<1> QED
  BY <1>1, InvAlways, PTL

=============================================================================

---------------------------- MODULE RateLimiter ----------------------------
(***************************************************************************)
(* The fixed-window rate limiter of the API middleware over the shared     *)
(* counters of a Redis server, or of the InMemoryCache that stands in for  *)
(* it.  RateLimiter.check reads the clock, increments the counter of the   *)
(* client's window and, if it was the first to do so, gives the counter a  *)
(* time to live; the cache calls are awaited, so checks interleave and a   *)
(* worker may die between them.                                            *)
(*                                                                         *)
(* Time is counted in seconds, like int(time.time()).                      *)
(***************************************************************************)
EXTENDS Integers, FiniteSets

CONSTANTS
    Requests,       \* requests that reach the limiter
    Clients,        \* API keys or client addresses
    Limit,          \* rate_limit_requests_per_window
    Window,         \* rate_limit_window_seconds
    MaxTime,        \* bound: when the clock stops
    MaxLag          \* bound: seconds a check may be under way

ASSUME WindowIsPositive == Window \in Nat \ {0}
ASSUME LimitIsNatural == Limit \in Nat
ASSUME LagIsShort == MaxLag \in 0 .. Window
ASSUME RequestsAreFinite == IsFiniteSet(Requests)
ASSUME ClockStops == MaxTime \in Nat

\* The window that second t falls in.
WindowStart(t) == t - (t % Window)
Keys == Clients \X {WindowStart(t) : t \in 0 .. MaxTime}
Never == MaxTime + Window + 1
Absent == [count |-> 0, expires |-> Never]

VARIABLES
    time,       \* the clock
    counter,    \* the cache: key -> its count and when it expires
    pc,         \* how far each check has got
    from,       \* the client of each request
    now,        \* the time a check has read
    count,      \* what its increment returned
    late        \* history: checks that counted after their window's end

vars == <<time, counter, pc, from, now, count, late>>

\* Mutant: all clients count together.
KeyOfAll(r) == <<CHOOSE c \in Clients : TRUE, WindowStart(now[r])>>

Key(r) == <<from[r], WindowStart(now[r])>>
UnderWay(r) == pc[r] \in {"incr", "expire", "decide"}

Init ==
    /\ time = 0
    /\ counter = [k \in Keys |-> Absent]
    /\ pc = [r \in Requests |-> "start"]
    /\ from \in [Requests -> Clients]
    /\ now = [r \in Requests |-> 0]
    /\ count = [r \in Requests |-> 0]
    /\ late = {}

\* Time passes while requests come, and while checks wait for the cache.
Tick ==
    /\ time < MaxTime
    /\ \A r \in Requests : UnderWay(r) => time < now[r] + MaxLag
    /\ time' = time + 1
    /\ UNCHANGED <<counter, pc, from, now, count, late>>

\* A request passes authentication and its check reads the clock.
ReadClock(r) ==
    /\ pc[r] = "start"
    /\ now' = [now EXCEPT ![r] = time]
    /\ pc' = [pc EXCEPT ![r] = "incr"]
    /\ UNCHANGED <<time, counter, from, count, late>>

\* What incr may find under key k: the second in which a counter expires is
\* partly before and partly after its expiry.
Found(k) ==
    {f \in {counter[k], Absent} :
        /\ f = Absent => time >= counter[k].expires \/ counter[k] = Absent
        /\ f # Absent => time <= counter[k].expires}

\* incr counts on, or begins a counter that has no time to live yet.
Incr(r) ==
    /\ pc[r] = "incr"
    /\ \E old \in Found(Key(r)) :
          /\ counter' = [counter EXCEPT ![Key(r)] =
                            [old EXCEPT !.count = @ + 1]]
          /\ count' = [count EXCEPT ![r] = old.count + 1]
          /\ pc' = [pc EXCEPT ![r] = IF old.count = 0 THEN "expire"
                                                      ELSE "decide"]
    /\ late' = IF time < WindowStart(now[r]) + Window THEN late
                                                      ELSE late \union {r}
    /\ UNCHANGED <<time, from, now>>

\* Mutant: the counter lives for a second.
ExpireSoon(r) ==
    /\ pc[r] = "expire"
    /\ counter' = [counter EXCEPT ![Key(r)].expires =
                      IF counter[Key(r)] = Absent THEN @ ELSE time + 1]
    /\ pc' = [pc EXCEPT ![r] = "decide"]
    /\ UNCHANGED <<time, from, now, count, late>>

\* expire gives the counter one window from now.  It answers False, and does
\* nothing, if the counter is gone.
Expire(r) ==
    /\ pc[r] = "expire"
    /\ counter' = [counter EXCEPT ![Key(r)].expires =
                      IF counter[Key(r)] = Absent THEN @ ELSE time + Window]
    /\ pc' = [pc EXCEPT ![r] = "decide"]
    /\ UNCHANGED <<time, from, now, count, late>>

\* Mutant: compares the requests counted before this one.
AllowedByEarlier(r) == count[r] - 1 <= Limit

Allowed(r) == count[r] <= Limit

\* The request goes on to its handler or is answered 429.
Decide(r) ==
    /\ pc[r] = "decide"
    /\ pc' = [pc EXCEPT ![r] = IF Allowed(r) THEN "allowed" ELSE "denied"]
    /\ UNCHANGED <<time, counter, from, now, count, late>>

\* The worker dies, or the cache is out of reach, between two calls.
Crash(r) ==
    /\ UnderWay(r)
    /\ pc' = [pc EXCEPT ![r] = "failed"]
    /\ UNCHANGED <<time, counter, from, now, count, late>>

Next ==
    \/ Tick
    \/ \E r \in Requests :
          \/ ReadClock(r)
          \/ Incr(r)
          \/ Expire(r)
          \/ Decide(r)
          \/ Crash(r)

Spec == Init /\ [][Next]_vars

----------------------------------------------------------------------------
(* Properties *)

\* The types of the clock, the counters and the checks.
TypeOK ==
    /\ time \in 0 .. MaxTime
    /\ counter \in [Keys -> [count : Nat, expires : Nat]]
    /\ pc \in [Requests -> {"start", "incr", "expire", "decide",
                            "allowed", "denied", "failed"}]
    /\ from \in [Requests -> Clients]
    /\ now \in [Requests -> 0 .. MaxTime]
    /\ count \in [Requests -> Nat]
    /\ late \subseteq Requests

AllowedOf(c, times) ==
    {r \in Requests : pc[r] = "allowed" /\ from[r] = c /\ now[r] \in times}

\* However the checks of a client interleave, and whichever of them die, at
\* most Limit of its requests are let through in a window, apart from those
\* that counted so late that the counter may have been gone.
WindowRespected ==
    \A c \in Clients, t \in 0 .. MaxTime :
        WindowStart(t) = t =>
            Cardinality(AllowedOf(c, t .. t + Window - 1) \ late) <= Limit

\* "up to 2x the configured rate": late checks included, a window's counter
\* starts over at most once, because it lives for a window after its start.
LateChecksBounded ==
    \A c \in Clients, t \in 0 .. MaxTime :
        WindowStart(t) = t =>
            Cardinality(AllowedOf(c, t .. t + Window - 1)) <= 2 * Limit

\* A request is denied only if Limit others of the same client have been
\* counted in the same window: no client pays for another, nor for the past.
DenialIsDeserved ==
    \A r \in Requests :
        pc[r] = "denied" =>
            Cardinality({q \in Requests \ {r} :
                           /\ pc[q] \notin {"start", "incr"}
                           /\ from[q] = from[r]
                           /\ WindowStart(now[q]) = WindowStart(now[r])})
                >= Limit

=============================================================================

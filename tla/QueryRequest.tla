---------------------------- MODULE QueryRequest ----------------------------
(***************************************************************************)
(* The life of a query in one API process: POST /query, POST               *)
(* /query/retrieve and POST /query/stream as coroutines of one event loop, *)
(* the events they emit, the queue between a stream's pipeline and its     *)
(* client, the latency budget, and the process-local TraceStore.           *)
(*                                                                         *)
(* The pipeline runs in a task of its own, asyncio.wait_for in the request *)
(* handler: when the task is over, or cancelled because the budget is      *)
(* spent, the handler takes a step of its own later.  What the pipeline    *)
(* does inside is module AgenticLoop; here it emits events and ends.       *)
(***************************************************************************)
EXTENDS Places, Sequences, SequencesExt

CONSTANTS
    Queries,        \* requests POST /query
    Retrieves,      \* requests POST /query/retrieve
    Streams,        \* requests POST /query/stream
    TraceIds,       \* trace ids
    Assignments,    \* who may have which: x-trace-id is the client's to choose
    MaxTraces,      \* _MAX_STORED_TRACES
    MaxProgress     \* bound: how many events the loop of each request emits
                    \* after query.started

ASSUME KindsAreDisjoint ==
    /\ Queries \intersect Retrieves = {}
    /\ Queries \intersect Streams = {}
    /\ Retrieves \intersect Streams = {}

ASSUME IdsAreAssigned ==
    Assignments \subseteq [Queries \union Retrieves \union Streams -> TraceIds]

ASSUME TracesAreKept == MaxTraces \in Nat \ {0}

Requests == Queries \union Retrieves \union Streams

VARIABLES
    id,         \* the trace id of each request
    phase,      \* its pipeline: running, how it ended, or settled
    client,     \* what its client has been told
    events,     \* EventEmitter._events
    queue,      \* EventEmitter._queue, of a stream
    received,   \* the events a stream's client has read
    store,      \* TraceStore._traces, oldest entry first
    keeps       \* history: the requests whose traces were stored, in that order

vars == <<id, phase, client, events, queue, received, store, keeps>>

Running == {"loop", "generating", "validating"}
Outcomes == {"returned", "error", "timeoutError", "cancelled", "disconnected"}
EventTypes == {"started", "progress", "generation", "validation",
               "completed", "failed"}
Close == "close"

----------------------------------------------------------------------------

\* emit appends to the list and, for a stream, to the queue as well.
Emit(r, emitted) ==
    /\ events' = [events EXCEPT ![r] = @ \o emitted]
    /\ queue' = IF r \in Streams THEN [queue EXCEPT ![r] = @ \o emitted]
                ELSE queue

\* Mutant: the queue is closed before the failure is reported.
CloseThenEmit(r, emitted) ==
    /\ events' = [events EXCEPT ![r] = @ \o emitted]
    /\ queue' = [queue EXCEPT ![r] = @ \o <<Close>> \o emitted]

\* Mutant: only a stream that has nothing more to say is closed.
EmitOrClose(r, emitted) ==
    /\ events' = [events EXCEPT ![r] = @ \o emitted]
    /\ queue' = [queue EXCEPT ![r] =
                    IF emitted = <<>> THEN Append(@, Close) ELSE @ \o emitted]

\* emit, then close(), in the stream's finally.
EmitAndClose(r, emitted) ==
    /\ events' = [events EXCEPT ![r] = @ \o emitted]
    /\ queue' = [queue EXCEPT ![r] = @ \o emitted \o <<Close>>]

\* The traces with other ids than trace.
Others(traces, trace) ==
    At(traces, {m \in DOMAIN traces : traces[m].id # trace.id})

\* Mutant: popitem as it is by default, the youngest trace is dropped.
StoredDropsYoungest(traces, trace) ==
    LET all == Append(Others(traces, trace), trace)
    IN  IF Len(all) > MaxTraces THEN Front(all) ELSE all

\* store puts the trace at the young end and drops what is over the limit.
Stored(traces, trace) ==
    LET all == Append(Others(traces, trace), trace)
    IN  IF Len(all) > MaxTraces THEN Tail(all) ELSE all

Become(r, p) == phase' = [phase EXCEPT ![r] = p]
Tell(r, c) == client' = [client EXCEPT ![r] = c]
Keep(r, trace) ==
    /\ store' = Stored(store, [id |-> id[r], by |-> r, events |-> trace])
    /\ keeps' = Append(keeps, r)

TimedOut(r) == phase[r] \in {"cancelled", "timeoutError"}

\* The trace of q was stored after that of r.
Younger(q, r) ==
    \E n \in DOMAIN keeps : \E m \in 1 .. n - 1 : keeps[m] = r /\ keeps[n] = q

Init ==
    /\ id \in Assignments
    /\ phase = [r \in Requests |-> "idle"]
    /\ client = [r \in Requests |-> "none"]
    /\ events = [r \in Requests |-> <<>>]
    /\ queue = [r \in Streams |-> <<>>]
    /\ received = [r \in Streams |-> <<>>]
    /\ store = <<>>
    /\ keeps = <<>>

----------------------------------------------------------------------------
(* The pipeline *)

\* The route makes its emitter and starts the loop, which emits query.started.
Start(r) ==
    /\ phase[r] = "idle"
    /\ Become(r, "loop")
    /\ Tell(r, "waiting")
    /\ Emit(r, <<"started">>)
    /\ UNCHANGED <<id, received, store, keeps>>

\* Analysis, planning, retrieval, reranking, evaluation, refinement.
Progress(r) ==
    /\ phase[r] = "loop"
    /\ Len(events[r]) <= MaxProgress[r]
    /\ Emit(r, <<"progress">>)
    /\ UNCHANGED <<id, phase, client, received, store, keeps>>

\* AgenticRetrievalLoop.run returns: /query/retrieve has its result, a status
\* override completes the query, other results go to the AnswerVerifier.
LoopReturns(r) ==
    /\ phase[r] = "loop"
    /\ \/ /\ r \in Retrieves
          /\ Become(r, "returned")
          /\ UNCHANGED <<events, queue>>
       \/ /\ r \notin Retrieves
          /\ Become(r, "returned")
          /\ Emit(r, <<"completed">>)
       \/ /\ r \notin Retrieves
          /\ Become(r, "generating")
          /\ Emit(r, <<"generation">>)
    /\ UNCHANGED <<id, client, received, store, keeps>>

\* run emits query.failed for every Exception and re-raises.  A TimeoutError
\* raised inside is one the routes take for the latency budget.
LoopRaises(r) ==
    /\ phase[r] = "loop"
    /\ \E error \in {"error", "timeoutError"} : Become(r, error)
    /\ Emit(r, <<"failed">>)
    /\ UNCHANGED <<id, client, received, store, keeps>>

\* Synthesis produced claims, which are validated one after another.
ValidateClaims(r) ==
    /\ phase[r] = "generating"
    /\ Become(r, "validating")
    /\ Emit(r, <<"validation">>)
    /\ UNCHANGED <<id, client, received, store, keeps>>

\* No claims, or all of them validated: _run_query_pipeline is done.
Complete(r) ==
    /\ phase[r] \in {"generating", "validating"}
    /\ Become(r, "returned")
    /\ Emit(r, <<"completed">>)
    /\ UNCHANGED <<id, client, received, store, keeps>>

\* Synthesis or validation raises; nobody inside emits query.failed.
GenerationRaises(r) ==
    /\ phase[r] \in {"generating", "validating"}
    /\ \E error \in {"error", "timeoutError"} : Become(r, error)
    /\ UNCHANGED <<id, client, events, queue, received, store, keeps>>

\* Mutant: the budget is checked once more when the task is done.
TimeoutAfterwards(r) ==
    /\ phase[r] \in Running \union {"returned"}
    /\ Become(r, "cancelled")
    /\ UNCHANGED <<id, client, events, queue, received, store, keeps>>

\* max_query_latency_seconds are over: wait_for cancels the task, unless it is
\* done already.  CancelledError is no Exception, so no event is emitted.
Timeout(r) ==
    /\ phase[r] \in Running
    /\ Become(r, "cancelled")
    /\ UNCHANGED <<id, client, events, queue, received, store, keeps>>

----------------------------------------------------------------------------
(* The handlers *)

\* POST /query stores the trace of an answer and of a timeout.
AnswerQuery(r) ==
    /\ r \in Queries
    /\ phase[r] \in Outcomes
    /\ \/ /\ phase[r] = "returned"
          /\ Keep(r, events[r])
          /\ Tell(r, "answer")
       \/ /\ TimedOut(r)
          /\ Keep(r, events[r])
          /\ Tell(r, "timeout")
       \/ /\ phase[r] = "error"
          /\ Tell(r, "error")
          /\ UNCHANGED <<store, keeps>>
    /\ Become(r, "settled")
    /\ UNCHANGED <<id, events, queue, received>>

\* Mutant: the trace is stored before query.completed is emitted.
AnswerRetrieveStoredFirst(r) ==
    /\ r \in Retrieves
    /\ phase[r] \in Outcomes
    /\ \/ /\ phase[r] = "returned"
          /\ Emit(r, <<"completed">>)
          /\ Keep(r, events[r])
          /\ Tell(r, "answer")
       \/ /\ phase[r] # "returned"
          /\ Tell(r, IF TimedOut(r) THEN "timeout" ELSE "error")
          /\ UNCHANGED <<events, queue, store, keeps>>
    /\ Become(r, "settled")
    /\ UNCHANGED <<id, received>>

\* POST /query/retrieve emits query.completed itself; it stores only then.
AnswerRetrieve(r) ==
    /\ r \in Retrieves
    /\ phase[r] \in Outcomes
    /\ \/ /\ phase[r] = "returned"
          /\ Emit(r, <<"completed">>)
          /\ Keep(r, Append(events[r], "completed"))
          /\ Tell(r, "answer")
       \/ /\ phase[r] # "returned"
          /\ Tell(r, IF TimedOut(r) THEN "timeout" ELSE "error")
          /\ UNCHANGED <<events, queue, store, keeps>>
    /\ Become(r, "settled")
    /\ UNCHANGED <<id, received>>

\* What run_and_close emits for each way the pipeline ends.
LastWords(r) ==
    IF phase[r] \in {"returned", "disconnected"} THEN <<>> ELSE <<"failed">>

\* run_and_close: every error is reported, then the trace is stored and the
\* queue closed.
FinishStream(r) ==
    /\ r \in Streams
    /\ phase[r] \in Outcomes
    /\ EmitAndClose(r, LastWords(r))
    /\ Keep(r, events[r] \o LastWords(r))
    /\ Become(r, "settled")
    /\ UNCHANGED <<id, client, received>>

\* event_stream takes the next event and sends it, or ends the response.
Deliver(r) ==
    /\ r \in Streams
    /\ client[r] = "waiting"
    /\ queue[r] # <<>>
    /\ queue' = [queue EXCEPT ![r] = Tail(@)]
    /\ IF Head(queue[r]) = Close
       THEN Tell(r, "ended") /\ UNCHANGED received
       ELSE /\ received' = [received EXCEPT ![r] = Append(@, Head(queue[r]))]
            /\ UNCHANGED client
    /\ UNCHANGED <<id, phase, events, store, keeps>>

\* The client leaves.  The server framework cancels event_stream, which awaits
\* the task in its finally: the task is cancelled with it or runs to its end.
Disconnect(r) ==
    /\ r \in Streams
    /\ client[r] = "waiting"
    /\ Tell(r, "gone")
    /\ \/ UNCHANGED phase
       \/ phase[r] \in Running /\ Become(r, "disconnected")
    /\ UNCHANGED <<id, events, queue, received, store, keeps>>

PipelineStep(r) ==
    \/ Progress(r)
    \/ LoopReturns(r)
    \/ LoopRaises(r)
    \/ ValidateClaims(r)
    \/ Complete(r)
    \/ GenerationRaises(r)
    \/ Timeout(r)

HandlerStep(r) ==
    \/ AnswerQuery(r)
    \/ AnswerRetrieve(r)
    \/ FinishStream(r)

Next ==
    \E r \in Requests :
        \/ Start(r)
        \/ PipelineStep(r)
        \/ HandlerStep(r)
        \/ Deliver(r)
        \/ Disconnect(r)

\* The pipeline may hang in a call, but the timer goes off and the event loop
\* resumes who is ready.  A connected client reads.
Fairness ==
    \A r \in Requests :
        /\ WF_vars(Timeout(r))
        /\ WF_vars(HandlerStep(r))
        /\ WF_vars(Deliver(r))

Spec == Init /\ [][Next]_vars /\ Fairness

----------------------------------------------------------------------------
(* Properties *)

\* The types of a request's state and of the trace store.
TypeOK ==
    /\ id \in [Requests -> TraceIds]
    /\ phase \in [Requests -> {"idle", "settled"} \union Running \union Outcomes]
    /\ client \in [Requests -> {"none", "waiting", "answer", "timeout",
                                "error", "ended", "gone"}]
    /\ events \in [Requests -> Seq(EventTypes)]
    /\ queue \in [Streams -> Seq(EventTypes \union {Close})]
    /\ received \in [Streams -> Seq(EventTypes)]
    /\ store \in Seq([id : TraceIds, by : Requests, events : Seq(EventTypes)])
    /\ keeps \in Seq(Requests)

\* A client that has seen its stream end has seen all of its events, each once
\* and in order, the last of them saying how the query went.
EndedStreamIsWhole ==
    \A r \in Streams :
        client[r] = "ended" =>
            /\ received[r] = events[r]
            /\ Last(events[r]) \in {"completed", "failed"}

\* A stored trace is the whole trace of a settled request with that id: nothing
\* is emitted after storing.  Ids occur once and the limit is kept.
StoredTracesAreFinal ==
    /\ Len(store) <= MaxTraces
    /\ \A m \in DOMAIN store :
          LET t == store[m]
          IN  /\ id[t.by] = t.id
              /\ phase[t.by] = "settled"
              /\ t.events = events[t.by]
    /\ \A m, n \in DOMAIN store : store[m].id = store[n].id => m = n

\* Who has been answered, or has seen the end of a stream, can ask for the
\* trace at once.  It is missing only if a request with the same id has stored
\* its own since, or if the store is full, and of younger traces only.
TraceIsThere ==
    \A r \in Requests :
        client[r] \in {"answer", "ended"} =>
            \/ \E m \in DOMAIN store : store[m].by = r
            \/ \E q \in Requests : id[q] = id[r] /\ Younger(q, r)
            \/ /\ Len(store) = MaxTraces
               /\ \A m \in DOMAIN store : Younger(store[m].by, r)

\* query.completed is emitted for the queries whose client gets an answer and
\* for no other, whatever the timer and the pipeline do at the same moment.
CompletedMeansAnswered ==
    \A r \in Requests :
        LET completed == \E k \in DOMAIN events[r] : events[r][k] = "completed"
        IN  /\ client[r] = "answer" => completed
            /\ client[r] \in {"timeout", "error"} => ~ completed
            /\ completed => Last(events[r]) = "completed"

\* Every request that was started is settled, its latency budget seeing to it,
\* and its client is answered, has seen its stream end or has left it: a slow
\* client keeps no pipeline from settling, nor a settled pipeline a client
\* waiting.
EveryQuerySettles ==
    \A r \in Requests :
        phase[r] = "loop" ~> phase[r] = "settled" /\ client[r] # "waiting"

=============================================================================

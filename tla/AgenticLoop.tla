---------------------------- MODULE AgenticLoop ----------------------------
(***************************************************************************)
(* One run of the bounded agentic retrieval loop                           *)
(* (agents/research_agent.py, AgenticRetrievalLoop.run): analyse the       *)
(* query, plan, retrieve and rerank, evaluate the evidence, and stop with  *)
(* exactly one termination reason or refine the query and go round again.  *)
(*                                                                         *)
(* Every action ends where the coroutine awaits something (an LLM call, a  *)
(* retriever, the reranker) or at the head of the for loop.  An await is   *)
(* where the awaited call may fail and where the caller's asyncio.wait_for *)
(* may cancel the run.  What an LLM answers and what a search finds is     *)
(* chosen freely.                                                          *)
(***************************************************************************)
EXTENDS Integers, Sequences, FiniteSets

CONSTANTS
    Chunks,                  \* the chunks a search can return
    MaxRetrievalIterations,  \* settings.max_retrieval_iterations
    MaxRetrievalCalls,       \* settings.max_retrieval_calls
    MaxProposed,             \* bound: the largest max_iterations a plan asks for
    MaxVariants,             \* an expansion has at most this many variants (5)
    MaxSubqueries,           \* a decomposition has at most this many parts (8)
    TopK                     \* DEFAULT_EVIDENCE_TOP_K

ASSUME SettingsAreIntegers ==
    /\ MaxRetrievalIterations \in Int
    /\ MaxRetrievalCalls \in Int

ASSUME BoundsArePositive ==
    /\ MaxProposed \in Nat \ {0}
    /\ MaxVariants \in Nat \ {0}
    /\ MaxSubqueries \in Nat \ {0}
    /\ TopK \in Nat \ {0}

ASSUME ChunksAreFinite == IsFiniteSet(Chunks)

VARIABLES
    pc,          \* the await the coroutine stands at
    multiHop,    \* analysis.query_type == MULTI_HOP
    plan,        \* the clamped RetrievalPlan
    variants,    \* len(current_queries)
    iteration,   \* the loop variable; 0 before the first round
    calls,       \* retrieval_calls, the counter charged against the budget
    mode,        \* which branch this iteration retrieves by
    batch,       \* RetrievalAgent.retrieve calls this iteration makes
    left,        \* ... and how many of them have not returned yet
    unsearched,  \* variants the current retrieve() call still has to search
    merged,      \* what the current retrieve() call has found so far
    found,       \* candidates of the retrieve() calls that have returned
    evidence,    \* the evidence the run would return
    trace,       \* the IterationTraces
    reason,      \* termination_reason once the run returns
    started,     \* retrieval.started events emitted
    searches     \* _retrieve_single calls made

vars == <<pc, multiHop, plan, variants, iteration, calls, mode, batch, left,
          unsearched, merged, found, evidence, trace, reason, started,
          searches>>

requestVars == <<multiHop, plan>>
batchVars   == <<mode, batch, left, unsearched, merged, found>>
resultVars  == <<evidence, trace, reason>>

----------------------------------------------------------------------------

Larger(a, b)  == IF a > b THEN a ELSE b
Smaller(a, b) == IF a < b THEN a ELSE b

Reasons == {"sufficient_evidence", "max_iterations_reached",
            "max_retrieval_calls_reached", "no_evidence_found",
            "conflicting_evidence"}

Awaits == {"analyze", "plan", "expand", "decompose", "search", "bridge",
           "evaluate"}
Stopped == {"returned", "failed", "cancelled"}

\* max(1, min(proposed, ceiling)): what RetrievalPlanner makes of the number
\* of iterations the model proposed.
Clamp(proposed) == Larger(1, Smaller(proposed, MaxRetrievalIterations))

Remaining == MaxRetrievalCalls - calls

\* Mutant: every subquery of a decomposition is retrieved.
AffordableUntruncated(n) == n

\* The part of a decomposition that is retrieved: subqueries[:max(1, remaining)].
Affordable(n) == Smaller(n, Larger(1, Remaining))

\* What a ranking keeps of a candidate set: all of it, or any TopK of it.
Kept(S) == {T \in SUBSET S : Cardinality(T) = Smaller(TopK, Cardinality(S))}

----------------------------------------------------------------------------

Init ==
    /\ pc = "analyze"
    /\ multiHop = FALSE
    /\ plan = [expand |-> FALSE, decompose |-> FALSE, iterations |-> 1]
    /\ variants = 1
    /\ iteration = 0
    /\ calls = 0
    /\ mode = "single"
    /\ batch = 0
    /\ left = 0
    /\ unsearched = 0
    /\ merged = {}
    /\ found = {}
    /\ evidence = {}
    /\ trace = <<>>
    /\ reason = "none"
    /\ started = 0
    /\ searches = 0

\* QueryAnalyzer.analyze returns.
Analyze ==
    /\ pc = "analyze"
    /\ multiHop' \in BOOLEAN
    /\ pc' = "plan"
    /\ UNCHANGED <<plan, variants, iteration, calls, batchVars, resultVars,
                   started, searches>>

\* RetrievalPlanner.plan returns; its max_iterations is clamped on the way.
MakePlan ==
    /\ pc = "plan"
    /\ \E expand, decompose \in BOOLEAN, proposed \in 1 .. MaxProposed :
          /\ plan' = [expand     |-> expand,
                      decompose  |-> decompose,
                      iterations |-> Clamp(proposed)]
          /\ pc' = IF expand THEN "expand" ELSE "next"
    /\ UNCHANGED <<multiHop, variants, iteration, calls, batchVars,
                   resultVars, started, searches>>

\* QueryExpander.expand returns; current_queries becomes the variants.
Expand ==
    /\ pc = "expand"
    /\ variants' \in 1 .. MaxVariants
    /\ pc' = "next"
    /\ UNCHANGED <<requestVars, iteration, calls, batchVars, resultVars,
                   started, searches>>

\* A round that finds the call budget spent ends the run.
StopOnCallBudget ==
    /\ pc = "next"
    /\ calls >= MaxRetrievalCalls
    /\ iteration' = iteration + 1
    /\ reason' = "max_retrieval_calls_reached"
    /\ pc' = "returned"
    /\ UNCHANGED <<requestVars, variants, calls, batchVars, evidence, trace,
                   started, searches>>

\* The first round of a plan that decomposes asks for the subqueries.
BeginDecomposition ==
    /\ pc = "next"
    /\ calls < MaxRetrievalCalls
    /\ plan.decompose
    /\ iteration = 0
    /\ iteration' = 1
    /\ pc' = "decompose"
    /\ UNCHANGED <<requestVars, variants, calls, batchVars, resultVars,
                   started, searches>>

\* RetrievalAgent.retrieve begins: it announces itself, then searches its
\* query variants one after another.  The retrieve() call belongs to a batch
\* of n in branch m of which k are still to return.
Retrieving(m, n, k, queries, gathered) ==
    /\ mode' = m
    /\ batch' = n
    /\ left' = k
    /\ unsearched' = queries
    /\ merged' = {}
    /\ found' = gathered
    /\ started' = started + 1
    /\ pc' = "search"

\* Any other round retrieves the current queries, as one call.
BeginSingleRetrieval ==
    /\ pc = "next"
    /\ calls < MaxRetrievalCalls
    /\ ~ (plan.decompose /\ iteration = 0)
    /\ iteration' = iteration + 1
    /\ Retrieving("single", 1, 1, variants, {})
    /\ UNCHANGED <<requestVars, variants, calls, resultVars, searches>>

\* QueryDecomposer.decompose returns n subqueries.  Two of them are chained
\* hop to hop for a multi-hop query; otherwise each is retrieved by itself.
Decompose ==
    /\ pc = "decompose"
    /\ \E n \in 1 .. MaxSubqueries :
          LET k       == Affordable(n)
              chained == multiHop /\ k >= 2 /\ Remaining >= 2
          IN  IF chained THEN Retrieving("chained", 2, 2, 1, {})
                         ELSE Retrieving("subqueries", k, k, 1, {})
    /\ UNCHANGED <<requestVars, variants, iteration, calls, resultVars,
                   searches>>

\* _retrieve_single returns the hits of one query variant.
Search ==
    /\ pc = "search"
    /\ unsearched > 0
    /\ \E hits \in SUBSET Chunks : merged' = merged \union hits
    /\ unsearched' = unsearched - 1
    /\ searches' = searches + 1
    /\ UNCHANGED <<pc, requestVars, variants, iteration, calls, mode, batch,
                   left, found, resultVars, started>>

\* The reranker returns, and more retrieve() calls of the batch remain: the
\* second hop first needs the bridging entity, a further subquery does not.
RerankThenContinue ==
    /\ pc = "search"
    /\ unsearched = 0
    /\ left > 1
    /\ \E kept \in Kept(merged) :
          IF mode = "chained"
          THEN /\ found' = found \union kept
               /\ left' = left - 1
               /\ pc' = "bridge"
               /\ UNCHANGED <<mode, batch, unsearched, merged, started>>
          ELSE Retrieving(mode, batch, left - 1, 1, found \union kept)
    /\ UNCHANGED <<requestVars, variants, iteration, calls, resultVars,
                   searches>>

\* Mutant: an empty first hop leaves the chain waiting for an entity.
BridgeNeedsEvidence ==
    /\ pc = "bridge"
    /\ found # {}
    /\ Retrieving(mode, batch, left, 1, found)
    /\ UNCHANGED <<requestVars, variants, iteration, calls, resultVars,
                   searches>>

\* extract_bridge_entity returns (at once, when hop one found nothing).
Bridge ==
    /\ pc = "bridge"
    /\ Retrieving(mode, batch, left, 1, found)
    /\ UNCHANGED <<requestVars, variants, iteration, calls, resultVars,
                   searches>>

\* The reranker returns for the last retrieve() of the batch: the calls are
\* charged and the candidates replace whatever evidence there was.
RerankThenEvaluate ==
    /\ pc = "search"
    /\ unsearched = 0
    /\ left = 1
    /\ \E kept \in Kept(merged) :
          /\ found' = found \union kept
          /\ evidence' \in IF mode = "chained" THEN Kept(found \union kept)
                                               ELSE {found \union kept}
    /\ left' = 0
    /\ calls' = calls + batch
    /\ pc' = "evaluate"
    /\ UNCHANGED <<requestVars, variants, iteration, mode, batch, unsearched,
                   merged, trace, reason, started, searches>>

\* The verdicts EvidenceAgent.evaluate can reach: nothing is sufficient
\* without candidates, and a contradiction takes two of them.
Verdicts ==
    {v \in [found : {evidence}, sufficient : BOOLEAN, conflict : BOOLEAN] :
        /\ v.sufficient => evidence # {}
        /\ v.conflict => Cardinality(evidence) >= 2}

\* Mutant: a favourable assessment is looked at before the contradictions.
StopReasonSufficientFirst(v) ==
    IF v.sufficient THEN "sufficient_evidence"
    ELSE IF v.conflict THEN "conflicting_evidence"
    ELSE IF v.found = {} THEN "no_evidence_found"
    ELSE IF iteration = plan.iterations THEN "max_iterations_reached"
    ELSE "none"

\* Mutant: a round without candidates is refined like any other.
StopReasonIgnoringEmpty(v) ==
    IF v.conflict THEN "conflicting_evidence"
    ELSE IF v.sufficient THEN "sufficient_evidence"
    ELSE IF iteration = plan.iterations THEN "max_iterations_reached"
    ELSE "none"

\* Why a round with verdict v is the last one, in the order the code asks.
StopReason(v) ==
    IF v.conflict THEN "conflicting_evidence"
    ELSE IF v.sufficient THEN "sufficient_evidence"
    ELSE IF v.found = {} THEN "no_evidence_found"
    ELSE IF iteration = plan.iterations THEN "max_iterations_reached"
    ELSE "none"

\* Mutant: each of the current queries is refined by itself.
RefinedQueriesOfEach == variants

\* The refined query replaces all the current ones.
RefinedQueries == 1

\* EvidenceAgent.evaluate returns; the round is traced and either ends the
\* run or refines the query into a single new one.
Evaluate ==
    /\ pc = "evaluate"
    /\ \E v \in Verdicts :
          /\ trace' = Append(trace, v)
          /\ reason' = StopReason(v)
          /\ IF StopReason(v) = "none"
             THEN pc' = "next" /\ variants' = RefinedQueries
             ELSE pc' = "returned" /\ variants' = variants
    /\ UNCHANGED <<requestVars, iteration, calls, batchVars, evidence,
                   started, searches>>

\* Something is being awaited that can raise: extracting a bridge from no
\* evidence and judging no evidence are answered without a model call, and
\* a failing reranker falls back to the retrieval order.
CanRaise ==
    /\ pc \in Awaits
    /\ pc = "bridge" => found # {}
    /\ pc = "evaluate" => evidence # {}
    /\ pc = "search" => unsearched > 0

\* The awaited call raises; run() emits query.failed and re-raises.
Fail ==
    /\ CanRaise
    /\ pc' = "failed"
    /\ UNCHANGED <<requestVars, variants, iteration, calls, batchVars,
                   resultVars, started, searches>>

\* The caller's wait_for gives up and cancels the coroutine at its await.
Cancel ==
    /\ CanRaise \/ (pc = "search" /\ merged # {})
    /\ pc' = "cancelled"
    /\ UNCHANGED <<requestVars, variants, iteration, calls, batchVars,
                   resultVars, started, searches>>

Progress ==
    \/ Analyze
    \/ MakePlan
    \/ Expand
    \/ StopOnCallBudget
    \/ BeginDecomposition
    \/ BeginSingleRetrieval
    \/ Decompose
    \/ Search
    \/ RerankThenContinue
    \/ Bridge
    \/ RerankThenEvaluate
    \/ Evaluate

Next == Progress \/ Fail \/ Cancel

\* The event loop keeps resuming a coroutine whose awaited call has returned,
\* and every awaited call returns or raises.
Spec == Init /\ [][Next]_vars /\ WF_vars(Progress)

----------------------------------------------------------------------------
(* Properties *)

\* The call budget: a setting below zero allows as little as zero does.
CallBudget == Larger(0, MaxRetrievalCalls)

\* Every variable stays in the range the code gives it.
TypeOK ==
    /\ pc \in Awaits \union Stopped \union {"next"}
    /\ multiHop \in BOOLEAN
    /\ plan \in [expand : BOOLEAN, decompose : BOOLEAN, iterations : Nat]
    /\ variants \in 1 .. MaxVariants
    /\ iteration \in Nat
    /\ calls \in Nat
    /\ mode \in {"single", "subqueries", "chained"}
    /\ batch \in Nat
    /\ left \in Nat
    /\ unsearched \in Nat
    /\ merged \subseteq Chunks
    /\ found \subseteq Chunks
    /\ evidence \subseteq Chunks
    /\ trace \in Seq([found : SUBSET Chunks, sufficient : BOOLEAN,
                      conflict : BOOLEAN])
    /\ reason \in Reasons \union {"none"}
    /\ started \in Nat
    /\ searches \in Nat

\* However a plan decomposes, expands or iterates, a run announces at most
\* max_retrieval_calls retrievals, those that fail midway included: the
\* counter the code compares is charged only after a whole batch returned,
\* so the truncation of the subqueries has to make up for it.
CallBudgetRespected == started <= CallBudget

\* The budgets that are not compared where they are spent.  A run never traces
\* more rounds than the clamped plan allows, nor the plan more than the
\* setting, and every traced round was paid for.  The variants of an expanded
\* query all count as one call, yet a run makes at most MaxVariants - 1 searches
\* beyond its call budget: an expansion is searched at most once, because a
\* refinement or a decomposition replaces it for good.
WorkBounded ==
    /\ plan.iterations <= Larger(1, MaxRetrievalIterations)
    /\ Len(trace) <= plan.iterations
    /\ Len(trace) <= calls
    /\ searches <= IF CallBudget = 0 THEN 0 ELSE CallBudget + MaxVariants - 1

\* The termination reason is what the traced rounds say: only the last round
\* may be conflicting, sufficient or empty, a conflict wins over a favourable
\* assessment, and the two budget reasons are given only when that budget is
\* really spent.
LastRound == trace[Len(trace)]

GoesOn(round) == round.found # {} /\ ~ round.sufficient /\ ~ round.conflict

ReasonJustified ==
    /\ reason = "none" <=> pc # "returned"
    /\ \A i \in 1 .. Len(trace) :
          (i < Len(trace) \/ pc # "returned") => GoesOn(trace[i])
    /\ reason \notin {"none", "max_retrieval_calls_reached"} => trace # <<>>
    /\ reason = "conflicting_evidence" => LastRound.conflict
    /\ reason = "sufficient_evidence" =>
          LastRound.sufficient /\ ~ LastRound.conflict
    /\ reason = "no_evidence_found" => LastRound.found = {}
    /\ reason = "max_iterations_reached" =>
          Len(trace) = plan.iterations /\ GoesOn(LastRound)
    /\ reason = "max_retrieval_calls_reached" =>
          /\ calls >= MaxRetrievalCalls
          /\ Len(trace) < plan.iterations
          /\ trace # <<>> => GoesOn(LastRound)

\* What POST /query may rely on when it goes on to synthesise: with a budget
\* of at least one call, a run that does not report no_evidence_found hands
\* over evidence, and it is the evidence of the last traced round.
EvidenceHandedOver ==
    pc = "returned" /\ MaxRetrievalCalls >= 1 =>
        /\ trace # <<>>
        /\ evidence = LastRound.found
        /\ reason = "no_evidence_found" <=> evidence = {}

\* Every run stops: it returns, raises or is cancelled.
Termination == <>(pc \in Stopped)

\* The contract the query handlers rely on, in the terms of LoopContract.
Contract == INSTANCE LoopContract WITH
    Budget  <- CallBudget,
    phase   <- IF pc \in Stopped THEN pc ELSE "running",
    outcome <- reason,
    usable  <- evidence # {},
    spent   <- started

\* Every step of the loop is a step of that contract or leaves its state alone.
ImplementsContract == Contract!Spec

============================================================================

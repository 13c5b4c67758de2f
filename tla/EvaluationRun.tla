--------------------------- MODULE EvaluationRun ---------------------------
(***************************************************************************)
(* run_benchmark: each case goes through the baseline pipeline and through *)
(* the agentic loop with answer verification, and what comes back is       *)
(* scored against the case's relevant documents and summarised.            *)
(*                                                                         *)
(* The loop and the verification are here what their callers are promised, *)
(* LoopContract and AnswerContract.  A retrieved chunk stands for its      *)
(* document, which may have several; numbers are fractions <<n, d>>.       *)
(***************************************************************************)
EXTENDS Integers, Sequences, FiniteSets, Functions, FiniteSetsExt

CONSTANTS
    Documents,      \* the benchmark corpus
    Retrievals,       \* what a retrieval may return: sequences of documents
    K,              \* EVAL_K, the baseline's top_k as well
    Discount,       \* rank -> 1 / log2(rank + 1), in units of some fraction
    MaxCases,       \* bound: number of cases
    MaxRelevance,       \* relevance 1.0, in steps of the judge
    Budget,         \* of the loop
    Claims,         \* bounds of AnswerContract
    Citations

ASSUME RetrievalsAreOfDocuments ==
    IsFiniteSet(Documents) /\ Retrievals \subseteq Seq(Documents)

ASSUME KIsPositive == K \in Nat \ {0}

ASSUME DiscountsDecrease ==
    \A i, j \in 1 .. K : /\ Discount[i] \in Nat \ {0}
                         /\ i < j => Discount[i] > Discount[j]

VARIABLES
    cases,          \* relevant_document_ids of each case
    awaited,        \* the await the run is at, or how it ended
    documents,      \* document_ids of the baseline's candidates
    text,           \* the baseline's answer: "none", "blank" or "text"
    relevance,      \* baseline_relevance
    evidence,       \* agentic_document_ids
    comparisons,    \* the cases done so far
    phase, outcome, usable, spent,              \* the loop
    offered, status, answer, cited, metrics     \* the verification

caseVars == <<documents, text, relevance, evidence>>
loopVars == <<phase, outcome, usable, spent>>
answerVars == <<offered, status, answer, cited, metrics>>
benchmarkVars == <<cases, awaited, caseVars, comparisons, loopVars, answerVars>>

Loop == INSTANCE LoopContract
Verifier == INSTANCE AnswerContract

BenchmarkInit ==
    /\ cases \in UNION {[1 .. n -> SUBSET Documents] : n \in 1 .. MaxCases}
    /\ awaited = "retrieve"
    /\ documents = <<>>
    /\ text = "none"
    /\ relevance = 0
    /\ evidence = <<>>
    /\ comparisons = <<>>
    /\ Loop!Init
    /\ offered = 0 /\ Verifier!Init

\* The dense retriever returns; without candidates no model is asked.
Retrieve ==
    /\ awaited = "retrieve"
    /\ Len(comparisons) < Len(cases)
    /\ documents' \in {r \in Retrievals : Len(r) <= K}
    /\ text' = "none"
    /\ awaited' = IF documents' = <<>> THEN "judge" ELSE "complete"
    /\ UNCHANGED <<cases, relevance, evidence, comparisons, loopVars, answerVars>>

Complete ==
    /\ awaited = "complete"
    /\ text' \in {"blank", "text"}
    /\ awaited' = "judge"
    /\ UNCHANGED <<cases, documents, relevance, evidence, comparisons,
                   loopVars, answerVars>>

\* judge_answer_relevance: no answer, or a blank one, is not put to the model.
Judgements(answered) == IF answered THEN 0 .. MaxRelevance ELSE {0}

StartLoop ==
    phase' = "running" /\ outcome' = "none" /\ usable' = FALSE /\ spent' = 0

\* The baseline is judged, and the loop begins.
JudgeBaseline ==
    /\ awaited = "judge"
    /\ relevance' \in Judgements(text = "text")
    /\ awaited' = "loop"
    /\ StartLoop
    /\ UNCHANGED <<cases, documents, text, evidence, comparisons, answerVars>>

RunLoop ==
    /\ awaited = "loop"
    /\ Loop!Next
    /\ UNCHANGED <<cases, awaited, caseVars, comparisons, answerVars>>

\* Mutant: a conflict is left to the synthesis.
OverridesNoEvidence == {"no_evidence_found"}

\* The reasons that are a status themselves.
Overrides == {"conflicting_evidence", "no_evidence_found"}

\* No value: None in the code.
None == -1

\* The locals of the next case.
Renew ==
    documents' = <<>> /\ text' = "none" /\ relevance' = 0 /\ evidence' = <<>>

\* The next element of comparisons, of the case at hand.
Compare(found, score, how) ==
    comparisons' = Append(comparisons,
        [baseline |-> [documents |-> documents, relevance |-> relevance],
         agentic |-> [documents |-> found, relevance |-> score, status |-> how,
                      reason |-> outcome,
                      answered |-> how = "grounded",
                      metrics |-> IF how = "grounded" THEN metrics
                                  ELSE Verifier!NoMetrics]])

StartVerifier(n) ==
    /\ offered' = n /\ status' = "pending" /\ answer' = 0 /\ cited' = 0
    /\ metrics' = Verifier!NoMetrics

\* The loop returns.  Its reason is the case's status, or an answer is made.
TakeEvidence ==
    /\ awaited = "loop"
    /\ phase = "returned"
    /\ \E found \in {r \in Retrievals : (r # <<>>) = usable} :
          IF outcome \in Overrides
          THEN /\ Compare(found, None, outcome)
               /\ Renew /\ StartLoop
               /\ awaited' = "retrieve"
               /\ UNCHANGED answerVars
          ELSE /\ evidence' = found
               /\ awaited' = "generate"
               /\ StartVerifier(Len(found))
               /\ UNCHANGED <<documents, text, relevance, comparisons, loopVars>>
    /\ UNCHANGED cases

RunVerifier ==
    /\ awaited = "generate"
    /\ Verifier!Next
    /\ UNCHANGED <<cases, awaited, caseVars, comparisons, loopVars>>

\* The answer, if there is one, is judged.
JudgeAgentic ==
    /\ awaited = "generate"
    /\ status \in {"grounded", "insufficient_evidence"}
    /\ \E score \in Judgements(status = "grounded") :
          Compare(evidence, score, status)
    /\ Renew /\ StartLoop /\ StartVerifier(0)
    /\ awaited' = "retrieve"
    /\ UNCHANGED cases

\* A retrieval or a model call raises and takes the whole run with it.
Fail ==
    /\ \/ awaited \in {"retrieve", "complete"} /\ Len(comparisons) < Len(cases)
       \/ awaited = "judge" /\ text = "text"
       \/ awaited = "loop" /\ phase \in {"failed", "cancelled"}
       \/ awaited = "generate" /\ status \in {"abandoned", "grounded"}
    /\ awaited' = "failed"
    /\ UNCHANGED <<cases, caseVars, comparisons, loopVars, answerVars>>

\* After the last case the report is made.
Report ==
    /\ awaited = "retrieve"
    /\ Len(comparisons) = Len(cases)
    /\ awaited' = "done"
    /\ UNCHANGED <<cases, caseVars, comparisons, loopVars, answerVars>>

BenchmarkNext ==
    \/ Retrieve \/ Complete \/ JudgeBaseline
    \/ RunLoop \/ TakeEvidence \/ RunVerifier \/ JudgeAgentic
    \/ Fail \/ Report

BenchmarkSpec == BenchmarkInit /\ [][BenchmarkNext]_benchmarkVars

----------------------------------------------------------------------------
(* The metrics of a ranking and the summary *)

Zero == <<0, 1>>

Top(ranking) == SubSeq(ranking, 1, IF Len(ranking) < K THEN Len(ranking) ELSE K)

\* set(top_k) & relevant.
Hits(ranking, relevant) == Range(Top(ranking)) \cap relevant

Recall(ranking, relevant) ==
    IF relevant = {} THEN Zero
    ELSE <<Cardinality(Hits(ranking, relevant)), Cardinality(relevant)>>

\* Mutant: chunks are counted, not the documents they belong to.
PrecisionOfChunks(ranking, relevant) ==
    IF relevant = {} \/ ranking = <<>> THEN Zero
    ELSE <<Cardinality({i \in DOMAIN ranking : ranking[i] \in relevant}),
           Len(Top(ranking))>>

Precision(ranking, relevant) ==
    IF relevant = {} \/ ranking = <<>> THEN Zero
    ELSE <<Cardinality(Hits(ranking, relevant)), Len(Top(ranking))>>

\* The first relevant rank, not cut at K.
ReciprocalRank(ranking, relevant) ==
    LET ranks == {i \in DOMAIN ranking : ranking[i] \in relevant}
    IN  IF ranks = {} THEN Zero ELSE <<1, Min(ranks)>>

\* The ranks within the cut that add to the gain: chunks, not documents.
RelevantRanks(ranking, relevant) == {i \in DOMAIN Top(ranking) : ranking[i] \in relevant}

Gain(ranks) == SumFunctionOnSet(Discount, ranks)

Ndcg(ranking, relevant) ==
    LET n == Cardinality(relevant)
    IN  IF relevant = {} THEN Zero
        ELSE <<Gain(RelevantRanks(ranking, relevant)),
               Gain(1 .. IF n < K THEN n ELSE K)>>

HitRate(ranking, relevant) ==
    IF Hits(ranking, relevant) = {} THEN Zero ELSE <<1, 1>>

\* The cases that retrieval means are taken over.
Scored == {i \in DOMAIN cases : cases[i] # {}}

\* _summarize: mean_hit_rate of the results of one pipeline, _mean of nothing
\* being 0.0.
MeanHitRate(results) ==
    IF Scored = {} THEN Zero
    ELSE <<Cardinality({i \in Scored :
               HitRate(results[i].documents, cases[i]) # Zero}),
           Cardinality(Scored)>>

\* aggregate_citation_metrics.
CasesWithCitations(results) ==
    Cardinality({i \in DOMAIN results : results[i].metrics # Verifier!NoMetrics})

----------------------------------------------------------------------------
(* Properties *)

Baseline == [i \in DOMAIN comparisons |-> comparisons[i].baseline]
Agentic == [i \in DOMAIN comparisons |-> comparisons[i].agentic]

Positive(fraction) == fraction[1] > 0
AtMostOne(fraction) == fraction[1] <= fraction[2]

\* The five metrics of a ranking tell one story, although two of them count
\* documents, two count chunks and one looks below rank K: all of the four cut
\* at K are positive or none is, and then the first relevant rank is within K.
\* Recall and precision never exceed 1.  NDCG does not unless the cut holds more
\* chunks of relevant documents than there are such documents, and even then it
\* gains no more than that many chunks in the first ranks would.
MetricsAgree ==
    \A i \in DOMAIN comparisons : \A ranking \in {Baseline[i].documents,
                                                  Agentic[i].documents} :
        LET recall == Recall(ranking, cases[i])
            precision == Precision(ranking, cases[i])
            ndcg == Ndcg(ranking, cases[i])
            rank == ReciprocalRank(ranking, cases[i])
            hit == HitRate(ranking, cases[i])
            chunks == Cardinality(RelevantRanks(ranking, cases[i]))
        IN  /\ Positive(hit) <=> Positive(recall)
            /\ Positive(hit) <=> Positive(precision)
            /\ Positive(hit) <=> Positive(ndcg)
            /\ Positive(hit) <=> Positive(rank) /\ rank[2] <= K
            /\ AtMostOne(recall) /\ AtMostOne(precision)
            /\ chunks <= Cardinality(cases[i]) => AtMostOne(ndcg)
            /\ ndcg[1] <= Gain(1 .. chunks)

\* A report covers every case.  Whether there is an answer, a verdict on it and
\* citation metrics depends on the case alone: a conflict or an empty retrieval
\* leaves none of them, and no answer is made of nothing.  A pipeline's mean hit
\* rate is 1 just when it hit every case that has something to be found, however
\* many cases test abstention.
ReportIsConsistent ==
    awaited = "done" =>
        /\ DOMAIN comparisons = DOMAIN cases
        /\ \A i \in DOMAIN cases :
             LET result == Agentic[i]
             IN  /\ result.answered => result.documents # <<>>
                 /\ result.relevance = None => ~ result.answered
                 /\ result.reason = "conflicting_evidence" =>
                      result.relevance = None /\ result.documents # <<>>
                 /\ result.reason = "no_evidence_found" =>
                      result.relevance = None /\ result.documents = <<>>
        /\ CasesWithCitations(Agentic) =
             Cardinality({i \in DOMAIN cases : Agentic[i].answered})
        /\ \A results \in {Baseline, Agentic} :
             LET mean == MeanHitRate(results)
             IN  mean[1] = mean[2] <=>
                   /\ \E i \in DOMAIN cases : cases[i] # {}
                   /\ \A i \in DOMAIN cases : cases[i] # {} =>
                        HitRate(results[i].documents, cases[i]) = <<1, 1>>

=============================================================================

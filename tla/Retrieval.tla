----------------------------- MODULE Retrieval -----------------------------
(***************************************************************************)
(* One retrieval: RetrievalAgent.retrieve over the variants of a query, or *)
(* POST /search and POST /retrieve, which have one variant.  Every variant *)
(* is searched by vector (dense), by full text (sparse) or both (hybrid),  *)
(* the rankings are fused by Reciprocal Rank Fusion and the result goes to *)
(* the reranker.                                                           *)
(*                                                                         *)
(* Each search is a statement of its own under READ COMMITTED, so chunks   *)
(* that an indexing commits in between are seen by the later ones only.    *)
(* A chunk's scores are whatever the database computes: a search returns   *)
(* any ranking of what it finds.  Score 0 stands for None.                 *)
(***************************************************************************)
EXTENDS Places, Sequences, SequencesExt

CONSTANTS
    Chunks,         \* rows of document_chunks, committed now or later
    Wanted,         \* those of them that meet the metadata filters
    MaxVariants,    \* bound: variants of the query
    MaxScore,       \* bound: scores of a method
    Limits,         \* [top, pool, keep, threshold]: top_k, candidate_pool_size,
                    \* the reranker's top_k, and score_threshold or 0
    RrfK            \* k of Reciprocal Rank Fusion

Strategies == {"dense", "sparse", "hybrid"}

ASSUME WantedAreChunks == IsFiniteSet(Chunks) /\ Wanted \subseteq Chunks
ASSUME LimitsArePositive ==
    \A l \in Limits : l.top \in Nat \ {0} /\ l.pool \in Nat \ {0} /\ l.keep \in Nat \ {0} /\ l.threshold \in Nat
ASSUME RrfKIsPositive == RrfK \in Nat \ {0}

VARIABLES
    visible,    \* committed chunks
    strategy, variants, limits,
    pc,         \* the next await: "dense", "sparse", "rerank", or how it
                \* ended: "reranked" or "unranked"
    ranking,    \* hybrid: what the dense search of this variant returned
    hits,       \* per variant: what each method returned, best first
    results,    \* per variant: the candidates it contributes
    merged,     \* candidates of all variants, before reranking
    final       \* candidates returned, with their ranks

vars == <<visible, strategy, variants, limits, pc, ranking, hits, results, merged,
          final>>
request == <<strategy, variants, limits>>

----------------------------------------------------------------------------
(* Reciprocal Rank Fusion *)

Positions(s, x) == {i \in DOMAIN s : s[i] = x}

\* Every 1 / (k + rank) in units of one over the product of all of them.
Unit ==
    LET product[n \in 0 .. Cardinality(Chunks)] ==
            IF n = 0 THEN 1 ELSE product[n - 1] * (RrfK + n)
    IN  product[Cardinality(Chunks)]

\* Mutant: an item is given its rank for a score, not the reciprocal.
TermOfRank(rankings, x, i) ==
    IF Positions(rankings[i], x) = {} THEN 0
    ELSE RrfK + (CHOOSE r \in Positions(rankings[i], x) : TRUE)

\* What ranking i contributes to the score of x.
Term(rankings, x, i) ==
    IF Positions(rankings[i], x) = {} THEN 0
    ELSE Unit \div (RrfK + (CHOOSE r \in Positions(rankings[i], x) : TRUE))

FusedScore(rankings, x) ==
    SumFunction([i \in DOMAIN rankings |-> Term(rankings, x, i)])

Items(rankings) == UNION {ToSet(rankings[i]) : i \in DOMAIN rankings}

\* The first appearance of x is in front of that of y; a dict keeps this order.
SeenBefore(rankings, x, y) ==
    \E i \in DOMAIN rankings :
        /\ \A j \in 1 .. i - 1 : y \notin ToSet(rankings[j])
        /\ \E p \in Positions(rankings[i], x) :
              \A q \in Positions(rankings[i], y) : p < q

\* The sort is stable.
SortedBefore(rankings, x, y) ==
    LET a == FusedScore(rankings, x)
        b == FusedScore(rankings, y)
    IN  a > b \/ (a = b /\ SeenBefore(rankings, x, y))

Fused(rankings) ==
    LET items == Items(rankings)
        place == [x \in items |->
                    1 + Cardinality({y \in items : SortedBefore(rankings, y, x)})]
    IN  [n \in 1 .. Cardinality(items) |-> CHOOSE x \in items : place[x] = n]

----------------------------------------------------------------------------

Cut(s, n) == IF Len(s) > n THEN SubSeq(s, 1, n) ELSE s

ChunksOf(s) == [i \in DOMAIN s |-> s[i].chunk]

\* A ranking by descending score.
Rankings(set, max) ==
    {r \in UNION {[1 .. n -> [chunk : set, score : 1 .. MaxScore]] :
                     n \in 0 .. IF Cardinality(set) < max THEN Cardinality(set) ELSE max} :
        /\ \A i, j \in DOMAIN r : i < j => /\ r[i].chunk # r[j].chunk
                                           /\ r[i].score >= r[j].score}

\* Mutant: the statement is made without the metadata filters.
FoundUnfiltered == visible

\* What a statement sees: committed chunks that meet the filters.
Found == visible \intersect Wanted

\* A vector search ranks every chunk it may see, a text search those that match.
DenseRankings(limit) ==
    {r \in Rankings(Found, limit) :
        Len(r) = limit \/ ToSet(ChunksOf(r)) = Found}

ScoreIn(list, c) ==
    IF Positions(ChunksOf(list), c) = {} THEN 0
    ELSE list[CHOOSE i \in Positions(ChunksOf(list), c) : TRUE].score

\* The candidates of one variant: a method's own ranking, or the fusion of
\* both with the scores of each kept (_merge).
Candidates(h) ==
    LET order == CASE strategy = "dense"  -> ChunksOf(h.dense)
                   [] strategy = "sparse" -> ChunksOf(h.sparse)
                   [] strategy = "hybrid" ->
                        Cut(Fused(<<ChunksOf(h.dense), ChunksOf(h.sparse)>>), limits.top)
    IN  [i \in DOMAIN order |->
            [chunk |-> order[i],
             dense |-> ScoreIn(h.dense, order[i]),
             sparse |-> ScoreIn(h.sparse, order[i])]]

\* The candidates that the variants have for a chunk.
Offers(rs, c) == {d \in UNION {ToSet(rs[v]) : v \in DOMAIN rs} : d.chunk = c}

\* Mutant: the candidate of the last variant replaces the earlier ones.
LastOffer(rs, c) ==
    LET last == Max({v \in DOMAIN rs : c \in ToSet(ChunksOf(rs[v]))})
    IN  CHOOSE d \in ToSet(rs[last]) : d.chunk = c

\* Of the candidates for a chunk: the best of each score.
Best(rs, c) ==
    [chunk |-> c,
     dense |-> Max({d.dense : d \in Offers(rs, c)}),
     sparse |-> Max({d.sparse : d \in Offers(rs, c)})]

\* _fuse_variants; the candidates of a single variant are left as they are.
FuseVariants(rs) ==
    LET order == Fused([v \in DOMAIN rs |-> ChunksOf(rs[v])])
    IN  IF Len(rs) = 1 THEN rs[1] ELSE [i \in DOMAIN order |-> Best(rs, order[i])]

----------------------------------------------------------------------------

FirstSearch(s) == IF s = "sparse" THEN "sparse" ELSE "dense"

\* The statement's LIMIT: a hybrid retrieval asks each method for its pool.
SearchLimit == IF strategy = "hybrid" THEN limits.pool ELSE limits.top

\* The loop, which alone retrieves for several variants, has the pool be top_k
\* and sets no threshold.
LoopLimits(l) == l.pool = l.top /\ l.threshold = 0

Init ==
    /\ visible \in SUBSET Chunks
    /\ strategy \in Strategies
    /\ variants \in 1 .. MaxVariants
    /\ limits \in Limits
    /\ variants > 1 => LoopLimits(limits)
    /\ pc = FirstSearch(strategy)
    /\ ranking = <<>>
    /\ hits = <<>>
    /\ results = <<>>
    /\ merged = <<>>
    /\ final = <<>>

\* An indexing commits a chunk; once all is searched that changes nothing.
CommitChunk ==
    /\ pc \in {"dense", "sparse"}
    /\ \E c \in Chunks \ visible : visible' = visible \union {c}
    /\ UNCHANGED <<request, pc, ranking, hits, results, merged, final>>

\* A variant has been searched and its candidates are known: on to the next
\* one, or to the reranker.
Collect(h) ==
    /\ hits' = Append(hits, h)
    /\ results' = Append(results, Candidates(h))
    /\ ranking' = <<>>
    /\ IF Len(results) + 1 < variants
       THEN pc' = FirstSearch(strategy) /\ UNCHANGED merged
       ELSE pc' = "rerank" /\ merged' = FuseVariants(results')
    /\ UNCHANGED <<visible, request, final>>

\* A threshold, which only POST /retrieve has and only for a dense retrieval,
\* is applied to what the statement returned.
DenseSearch ==
    /\ pc = "dense"
    /\ \E r \in DenseRankings(SearchLimit) :
          IF strategy = "dense"
          THEN Collect([dense |-> At(r, {i \in DOMAIN r : r[i].score >= limits.threshold}),
                        sparse |-> <<>>])
          ELSE /\ ranking' = r
               /\ pc' = "sparse"
               /\ UNCHANGED <<visible, request, hits, results, merged, final>>

SparseSearch ==
    /\ pc = "sparse"
    /\ \E r \in Rankings(Found, SearchLimit) :
          Collect([dense |-> ranking, sparse |-> r])

\* Each order a reranker may put the candidates in.
Orders ==
    {[i \in DOMAIN merged |-> merged[f[i]]] :
        f \in {g \in [DOMAIN merged -> DOMAIN merged] :
                 \A i, j \in DOMAIN merged : i # j => g[i] # g[j]}}

\* Only the loop and POST /retrieve rerank: the former always, the latter if
\* asked to, and then it retrieves candidate_pool_size candidates.
MayRerank == limits.pool = limits.top

\* rerank_with_fallback: the best candidates in the reranker's order, or, if it
\* fails, the first of them as they came.  POST /search never reranks.
Rerank ==
    /\ pc = "rerank"
    /\ \/ /\ MayRerank
          /\ final' \in {Cut(order, limits.keep) : order \in Orders}
          /\ pc' = "reranked"
       \/ /\ \/ MayRerank /\ final' = Cut(merged, limits.keep)
             \/ variants = 1 /\ final' = merged
          /\ pc' = "unranked"
    /\ UNCHANGED <<visible, request, ranking, hits, results, merged>>

Next == CommitChunk \/ DenseSearch \/ SparseSearch \/ Rerank

Spec == Init /\ [][Next]_vars

----------------------------------------------------------------------------
(* Properties *)

\* x is in front of y in this list, or y is not in it.
Ahead(list, x, y) ==
    \A j \in Positions(list, y) : \E i \in Positions(list, x) : i < j

\* Every search of every variant ranks x above y.
Preferred(x, y) ==
    x # y /\ \A v \in DOMAIN hits : /\ Ahead(ChunksOf(hits[v].dense), x, y)
                                    /\ Ahead(ChunksOf(hits[v].sparse), x, y)

\* Fusion and merging never turn an agreement around: a chunk that every
\* search of every variant ranks above another one stays above it, ties,
\* truncation and chunks committed between two searches notwithstanding.  Nor
\* does a reranker that fails: what is then returned has none of two such
\* chunks, only the better one, or both in this order.
DominanceRespected ==
    pc \in {"rerank", "unranked"} =>
        LET list == ChunksOf(IF pc = "rerank" THEN merged ELSE final)
        IN  \A x \in ToSet(ChunksOf(merged)), y \in ToSet(list) :
                Preferred(x, y) => Ahead(list, x, y)

\* "Never lose provenance": a candidate returned appears once, is committed and
\* meets the filters, comes from a search that saw it, and has the best score each method gave it in a variant
\* that kept it, whatever was merged, cut or reordered.
ProvenanceKept ==
    \A i \in DOMAIN final :
        LET c == final[i]
            of == {v \in DOMAIN results : c.chunk \in ToSet(ChunksOf(results[v]))}
        IN  /\ \A j \in DOMAIN final : final[j].chunk = c.chunk => i = j
            /\ c.chunk \in visible \intersect Wanted
            /\ c.dense # 0 \/ c.sparse # 0
            /\ c.dense \in {ScoreIn(hits[v].dense, c.chunk) : v \in of}
            /\ c.sparse \in {ScoreIn(hits[v].sparse, c.chunk) : v \in of}
            /\ \A v \in of : /\ ScoreIn(hits[v].dense, c.chunk) <= c.dense
                             /\ ScoreIn(hits[v].sparse, c.chunk) <= c.sparse

============================================================================

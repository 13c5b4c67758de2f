# Agentic RAG Engine: TLA+ models, model checking and proofs

TLA+ models of the parts of the engine whose correctness depends on order, interleaving, failure or arithmetic
at a boundary; TLC configurations that check them on small instances; and TLAPS proofs of the properties of the
core for every value of the constants. Paths are relative to `src/agentic_rag/` unless they begin with `docs/`.

- `PROJECT.json` lists components, runs, mutants, hazards, theorems, and for every definition the source lines
  it translates.
- A run: `tlc -workers 2 -config Retrieval.cfg MCRetrieval` (module and configuration as in `PROJECT.json`).
- A proof: `tlapm AgenticLoop_proofs.tla`.

## 1. Inventory

| Component | State it keeps | Operations | Talks to | Hard about it | Module |
|---|---|---|---|---|---|
| Agentic retrieval loop (`agents/research_agent.py` and the agents it awaits) | locals of one run: plan, calls charged, evidence, iteration traces, reason | analyse, plan, expand, decompose, retrieve, bridge two hops, evaluate, refine | models, retrievers, event emitter | two budgets charged in batches, five exits, failure and cancellation at every await | `AgenticLoop`, `LoopContract` |
| Upload and indexing (`ingestion/pipeline.py`, `chunking/pipeline.py`, `api/routes/documents.py`) | documents, document_versions, document_chunks; object store | upload, index | PostgreSQL, file system, chunkers, embeddings | overlapping transactions, an object store that takes no part in them, row locks | `Ingestion`, `VersionHistory` |
| Query requests and streams (`api/routes/query.py`, `observability/events.py`) | events and queue of a request, process-wide trace store | /query, /query/retrieve, /query/stream, GET trace | the loop, answer verification, clients | a timer that races the pipeline, a client that leaves, a bounded store keyed by client-chosen ids | `QueryRequest` |
| Structured model calls (`generation/llm.py`, `generation/providers.py`, `core/retry.py`) | attempt, round | complete_structured, complete, request_with_retry | HTTP providers | two nested retries, errors of several kinds | `StructuredCall`, `SynthesisCall` |
| Rate limiting (`security/rate_limit.py`, `storage/cache.py`, middleware of `api/main.py`) | counters with a time to live | check = incr + expire | Redis or its in-memory stand-in | a clock read before an await, two calls that should be one | `RateLimiter` |
| Answer verification (`agents/verifier.py`, synthesis and citation agents, `citations/`, `security/prompt_injection.py`) | tallies of one answer | filter, synthesise, resolve, validate, conclude | models | positions a model made up, counters on different branches | `AnswerVerification`, `AnswerContract`, `SynthesisCall` |
| Retrieval and fusion (`retrieval/`, `agents/retrieval_agent.py`, `api/routes/retrieval.py`) | candidates of one retrieval | dense, sparse, hybrid search; fuse; rerank | PostgreSQL, reranker | several statements that see different data, ties, cuts before and after fusion, merging in place | `Retrieval` |
| Upload validation, parsers, cleaner (`ingestion/loaders/`, `ingestion/parsers/`, `ingestion/cleaners/`) | the page and block a parser is at, the heading in force | validate, parse | third-party libraries, chunkers | two passes over a PDF page, headings carried across pages, blocks that are left out | `Parsing`, `Indexing` |
| Chunkers (`chunking/`) | loop variables | fixed, recursive, structural, semantic | parsers, indexing | budgets, overlap, positions used as references | `Chunking`, `Indexing` |
| Embeddings and cache (`embeddings/`) | cached vectors, shared by calls and processes | embed with hits and misses | Redis, providers | alignment of fresh vectors with texts, short answers, a change of the model | `EmbeddingCache` |
| Evaluation (`evaluation/`) | comparisons so far | benchmark of two pipelines, metrics, summary | retrieval, the loop, answer verification | ratios at zero, cases that end without an answer | `EvaluationRun` (partly) |
| Mock and local models, authentication, configuration, schemas, thin routes, process wiring, migrations, frontend, scripts | none that matters here | | | | not modelled |

How they interact. A query request creates an emitter and awaits the loop under `asyncio.wait_for`; the loop
awaits structured model calls and retrievals and charges the latter against its budget; what it returns goes to
answer verification, which awaits more model calls; the emitter's events become the stream and the stored
trace. An indexing parses a version's bytes into elements, chunks those into candidates, embeds the candidates
through the cache and fills the tables. The benchmark runner calls the loop and answer verification one after the
other and relies on what each promises. Uploads and indexings share the database with retrievals and with each
other. The rate limiter stands before all of them. Calls are awaits on one event loop, so a step of a model is what happens between two of them;
between components that share a database a step is a statement or a commit.

What makes each of them correct is stated in section 4; the hazards, each at its line, are in `PROJECT.json`.

## 2. Modules and their correspondence with the code

**AgenticLoop** is one `AgenticRetrievalLoop.run`. `pc` names the await the coroutine stands at. An action runs
from one await to the next: `Analyze`, `MakePlan` (with `Clamp`), `Expand`, `BeginDecomposition`/`Decompose` (with
the truncation `Affordable`), `BeginSingleRetrieval`, `Search` (one `_retrieve_single`), `RerankThenContinue` and
`RerankThenEvaluate` (the last awaits of a `RetrievalAgent.retrieve`, with `_dedupe_by_chunk_id` and
`_rank_and_truncate`), `Bridge` (the second hop), `Evaluate` (the exits in the code's order, or refinement),
`StopOnCallBudget`; `Fail` and `Cancel` end a run at any await that can raise or be cancelled. Chunks have no text
and no score: a search finds any set, a ranking keeps any `TopK` of it, a verdict is any verdict. Contradictions can
only be found in evidence that holds two chunks.
**LoopContract** is what `run` promises its callers: budgeted retrievals, one end, and a reason that tells whether
there is evidence to synthesise from. `AgenticLoop` implements it (`ImplementsContract`).

**Ingestion** has one transaction per request and one step per statement of a flush, since each may wait with the locks of
the ones before in hand. An upload goes `FindDocument`, `ReadLatest`, `Save`, `UpdateDocument` (the document's row, if
its title, source, date or checksum changes), `InsertVersion`, `CommitUpload`; one that meets its own content skips from
`ReadLatest` to the row update and the commit. An indexing goes `PickVersion`, `LoadAndChunk`, `UpdateVersion` (the
configuration), `InsertChunks`, `ResolveParents` (parents and the status), `CommitIndexing`. `docs`, `versions`, `chunks` are
what is committed; `up[u]`, `ix[i]` hold what a request has read and not yet committed. `RowBlocks` and `VersionBlocks` are the
row locks, `KeyBlocks` and `ChunksBlock` the waits for a unique key that another transaction has flushed, `NumberTaken` and
`IndexTaken` its refusal. `objects` is written by `Save` at once and survives a rollback. `Abort` fails any statement of
any request and rolls back. `Retitles` bounds whether uploads change columns besides the checksum. `serial` is no state of the
program: chosen at the start and never changed, it says of the clients that they wait for one upload before they begin the
next. Nothing in the code makes them; properties that need it have it as their premise.
**VersionHistory** is the promise of both routes together: append-only histories without equal neighbours, and
indexed versions that stay indexed. `Ingestion` implements it (`ImplementsHistory`).

**QueryRequest** separates the pipeline's task (`phase`) from the handler that waits for it, because `wait_for`
cancels the former and resumes the latter in a step of its own. `Deliver` and `Disconnect` are the client of a
stream. `Stored` is `TraceStore.store` (`Others` are the traces it leaves). `keeps`, a history variable, lists the requests
in the order in which their traces were stored; `Younger(q, r)` compares two of them.

**StructuredCall** is `complete_structured` over `complete` over `request_with_retry`; `log` records what each request
came to, in the seven kinds the code tells apart.

**RateLimiter** interleaves `ReadClock`, `Incr`, `Expire`, `Decide` of several checks with `Tick` and `Crash`.

**AnswerVerification** runs one `AnswerVerifier.generate` over every evidence list, every set of flagged chunks, every
list of claims with every list of positions, in and out of range, abandoned at any await.
**AnswerContract** is what its callers are promised: an answer whose metrics count what is returned with it, an
abstention with nothing, or an exception, and no answer to nothing. `AnswerVerification` implements it
(`ImplementsAnswerContract`: answer and citations map to their lengths).
**SynthesisCall** puts `StructuredCall` under it: synthesis waits for one structured call, whose locals are new when the
filter has left something to ask about and gone when the verifier goes on. A value lets it go on, an error or a
cancellation ends it, and without evidence nobody is asked. The theorem `SynthesisImplements` says that what this does to the
verifier's variables is what `AnswerVerification` allows. The calls that validate claims are not looked into.

**Parsing** is `validate_upload` (`Accept`, `Refuse`) and one block of a parser's loop at a time: `TakeHeading`,
`TakeBlock`, `Skip` (no branch for it, nothing left of it, or, in a PDF, under a table's box), `TurnToBlocks` from a
PDF page's tables to its text, `TurnPage`. A file is what its library tells the parser: pages of blocks.

**Chunking** takes one iteration of a chunker's loop as a step. A text is the sequence of its words; tokens are
counted as the tokenizer does, words and the blanks between them. `Packed` is the loop of `recursive_split_text`: `Take`
is one round of it, `Closed` what follows it. A word is one token, and of the four separators the two for lines cut
as the end of a sentence does, so the windows of tokens that follow the last separator are never needed. `SlideWindow`/`EmitWindows` are
`FixedSizeChunker`, `BufferElement`/`SplitElement`/`FinishElements` are `RecursiveChunker`, `NextSection`/`FinishSections`
are `StructuralChunker` around it, `TakeSentence`/`FinishSentences` are `SemanticChunker`.
**Indexing** composes the two: `Parse` steps until the parser is done, then `Chunk` hands its elements to one of the
chunkers. The chunkers are checked on documents that a parser can return, and on nothing else.

**EmbeddingCache** is `CachedEmbeddingProvider.embed_texts` before the OpenAI provider, several calls at a time. `Get` is
one `cache.get`, `Answer` the provider's answer with its items in any order and perhaps not all of them (sorted by
`index` as the code does), `Set` one round of the loop over `zip(misses, fresh, strict=True)`, `Return` what follows it:
the result, or the exception of `zip` or `json.loads` that only then notices a short answer. `Evict`, `Fail` and `Restart` (a process that
may serve another model) happen at any time. A vector stands for the model and the text it was made of.
**Places** has the positions of a list comprehension over `enumerate`: `Nth(S, k)` is the k-th smallest of a set of
positions, `At(s, S)` the elements there.

**EvaluationRun** is `run_benchmark` with one action per await. In place of the loop and of the verifier it takes their
contracts, `LoopContract` and `AnswerContract` (both instances of the modules that the detailed ones are shown to
implement), so it sees every ending that a caller may see. The five retrieval metrics are exact fractions.

**Retrieval** takes each statement as a step, with `CommitChunk` in between. A search returns any ranking of what it
may see. `Fused` is Reciprocal Rank Fusion in exact arithmetic (scores in units of one over the product of all
denominators), stable on ties as `sorted` is: `SortedBefore` puts an item before another if its score is higher, or
if it is first in the order in which the loops met them. `Candidates` is the hybrid merge, `FuseVariants` the merge over
query variants, `Best` of the `Offers` for a chunk what is kept of it. `Rerank` ends "reranked", in one of the `Orders`, or
"unranked": nobody asked for it, or it failed and the candidates come back as they were.

MC modules give constants that a configuration file cannot write down. The operators whose comment begins with
"Mutant:" are deliberately wrong versions of a definition; each shows that a property notices that bug.

## 3. Runs, bounds, and why they are enough

| Run | Bounds | Shows |
|---|---|---|
| `AgenticLoop` | 3 chunks, rankings keep 2, 3 iterations, 3 calls, plans that ask for up to 4 iterations, up to 2 variants and 4 subqueries | budgets, exits, evidence, termination, refinement of the contract |
| `Ingestion` | 3 uploads and 2 overlapping indexings. Either the uploads overlap, of one name, two of the same bytes, one with a new title; or they come one at a time, of 3 contents (one without chunks), two of one name and one of either of 2 | contiguous history, success means stored, current checksums, no circle of waiting requests, refinement of the history; of uploads one at a time, bytes and chunks that belong together, whole indexes |
| `QueryRequest` | one request of each kind, two trace ids with every collision that matters, a store for one trace, one further event | whole streams, final traces, settled requests |
| `RateLimiter` | 4 checks of 2 clients, limit 1, windows of 2 s, clock up to 3 s, checks that take at most 1 s | window limit, late checks, no undeserved denial |
| `SynthesisCall` | 3 chunks, up to 2 claims with up to 2 positions, `max_attempts` = 3, the code's value | sends, resends, outcomes, end of a call; support, citations, refinement of the contract |
| `Indexing` | DOCX and HTML of up to 3 blocks, PDFs of two pages of up to 2 blocks, Markdown and CSV of up to 2, two refused files; four strategies; four configurations (no overlap, some, more than the budget, budget of one token) | headings, no text lost or shuffled, references right, excess over the budget bounded |
| `EmbeddingCache` | 2 calls at a time, again and again, lists of up to 2 of 2 texts, 2 models | one vector per text, of the right text and model |
| `EvaluationRun` | up to 2 cases over 2 documents with any relevant ones, rankings of up to 3 with repetitions, rank cut at 2 | metrics agree, report consistent |
| `Retrieval` | 4 chunks, one of which the filters leave out, 2 variants, 2 scores per method, three settings of the limits, `k` = 60 | agreement kept, provenance kept |
| `StoredBytesRace` | 3 overlapping uploads of one name and 3 contents, 1 indexing | disagreement 1 of section 6 |
| `TableHeadings`, `ChunkBudget` | as `Indexing` | 2 and 3 |

Three chunks are the least for which a ranking that keeps two is lossy and two variants can overlap in part.
Four subqueries against three calls make a decomposition exceed the budget at every charge so far; four proposed
iterations exceed the setting. Three uploads are two that race and one that comes after them; a second indexing
repeats the first. Requests come in any order, so `MCSpec` lets one way to give them names and contents stand for
all its permutations. One stored trace makes every later one displace it; that a larger store displaces the oldest is what
`TraceAlwaysThere` proves for every size. In `RateLimiter` the window 0..1 is over
and the next has begun within the bound, so a check can be late by one second; limit 1 and four checks let
three of one client compete. Two claims distinguish order and resets between claims. Three blocks put an
oversized element between two small ones, or a heading between two texts; two pages are what it takes to carry a
heading from one to the next. TXT and JSON have no headings and are CSV to the model; the block shapes were chosen
to fill a chunk, to be cut and to be put together with the next. Two texts are what it takes to swap two vectors;
two calls, one of them restarted with the other model, what it takes to find a stale one. A ranking of three with a
cut at two has a rank that only the reciprocal rank sees.

Deadlock checking is off where requests come to an end, after which nothing happens; it is on in `EmbeddingCache`,
where another call can always come.

Symmetry is used over upload, indexing, client, chunk, call and text identities (`StoredBytesRace`, `RateLimiter`, `Retrieval`,
`EmbeddingCache`), only in runs without liveness
or refinement properties.

### Fairness

- `AgenticLoop`: weak fairness of `Progress`, the code between awaits and the answers awaited. Model calls have a
  30 s timeout and bounded retries (`CallEnds` of `StructuredCall`), statements end or fail, so every await
  returns or raises. Nothing is assumed of `Fail` and `Cancel`.
- `Ingestion`: weak fairness of every request that has begun. That a request begins is never assumed. A blocked
  statement is not enabled, so a deadlock would show as a violation of `EveryRequestSettles`.
- `QueryRequest`: the timer of `wait_for` goes off, a handler that is ready is resumed, a connected client reads.
  That the pipeline itself ever makes progress is not assumed.
- `StructuredCall`, alone and in `SynthesisCall`: the request or the delay under way ends.
- The other modules have safety properties only.

## 4. Properties

`AgenticLoop`: `CallBudgetRespected` (retrievals announced, not those charged), `WorkBounded` (iterations, trace, and
searches: an expansion counts as one call, so searches may exceed the budget, by fewer than the variants),
`ReasonJustified` (the reason follows from the trace), `EvidenceHandedOver`, `Termination`, `ImplementsContract`.
`Ingestion`, however uploads overlap: `HistoryContiguous`, `DoneMeansStored` (a committed version with the upload's checksum,
and its bytes under that version's key unless an upload that lost the race for the number wrote there last),
`ChecksumsAreCurrent` (the checksum of a document is its latest version's, but for one interleaving of a dirty check),
`ImplementsHistory`, `EveryRequestSettles` (from some time on no request is under way: no circle of locks is left waiting);
if uploads do not overlap, `IndexedIsComplete`, `StoredBytesMatch` and `ChunksMatchVersion`. Without that premise the second is
`BytesMatch`, which fails (section 6).
`QueryRequest`: `EndedStreamIsWhole`, `StoredTracesAreFinal`, `TraceIsThere` (a missing trace was replaced by a younger one
of its id, or the store is full of younger ones), `CompletedMeansAnswered`, `EveryQuerySettles`.
`StructuredCall`: `SendsBounded`, `OnlyTransientFailuresAreResent`, `OutcomeIsEarned`, `CallEnds`.
`RateLimiter`: `WindowRespected`, `LateChecksBounded` (the "2x" of a fixed window, late checks included),
`DenialIsDeserved`.
`AnswerVerification`: `AnswerIsSupported`, `CitationsAreGenuine`, `ImplementsAnswerContract`.
`Indexing`: `HeadingsInForce` (an element's heading is the nearest one in the file, however many blocks are skipped in
between, except that a table of a PDF page has the last one of the pages before), `TextSurvives` (from the file to the
chunks, through both stages), `ChunkHeadingsInForce` (what answers are cited under), `CandidatesWellFormed` (what the tables
and the resolution of parents rely on), `ChunkExcessBounded` (how far above its budget a chunk may get). What the
documentation has in place of the first and the last of them, `HeadingsAreNearest` and `ChunksFitBudget`, is violated.
`EmbeddingCache`: `VectorsMatch` (the right model always; the right text as long as the service has left none out).
`EvaluationRun`: `MetricsAgree` (metrics that count documents, chunks and ranks beyond the cut never contradict each
other, and when NDCG may exceed 1), `ReportIsConsistent`.
`Retrieval`: `DominanceRespected` (a chunk every search prefers to another stays ahead of it, also when the reranker fails),
`ProvenanceKept`.

No run lists a type invariant; `TypeOK` of the modules with proofs is proved there as `TypeCorrect` or within the
inductive invariant.

## 5. Proofs

`AgenticLoop_proofs` proves for every set of chunks, every setting (negative ones too) and every bound on what models
propose: `TypeCorrect`, `CallBudgetSafe`, `WorkSafe`, `ReasonSafe`, `EvidenceSafe` and `ContractImplemented`. Assumed
are only the constants' types (`SettingsAreIntegers`, `BoundsArePositive`, `ChunksAreFinite`). None of the properties
is inductive alone. `CallBudgetRespected` compares announced retrievals with the budget while the code compares those
charged after a batch; the gap is bridged by `BatchInv`, which relates `started`, `calls`, `batch` and `left` at every
await. `WorkBounded` needs `SearchInv`: an expansion is searched at most once since refinement and decomposition
replace it. `ReasonJustified` and `EvidenceHandedOver` need `RoundInv`: how iteration, calls and trace go together.
The invariant is `TypeOK /\ BatchInv /\ RoundInv /\ SearchInv /\ ReasonJustified /\ EvidenceInv /\
EvidenceHandedOver`, with one proof step per action and one below it per conjunct the action disturbs.
`ContractImplemented` maps initial states to initial states and every step to a step of `LoopContract` or a stutter,
under that invariant.

The same module proves of `StructuredCall`: `CallTypeCorrect`, `SendsSafe`, `ResendsSafe`, `OutcomeSafe` for every
`max_attempts` >= 1, with `CallTypeOK /\ SendInv /\ LogInv /\ OnlyTransientFailuresAreResent /\ OutcomeIsEarned`: `SendInv`
counts the requests at every point of the two nested loops, `LogInv` says what the log holds while the call goes on.

`AnswerVerification_proofs` proves for every set of chunks and any bounds on evidence, claims and positions:
`TypeCorrect`, `AnswerAlwaysSupported`, `CitationsAlwaysGenuine` and `ContractImplemented`, and `SynthesisImplements`, which
carries all of them over to `SynthesisCall`. The invariant is
`TypeOK /\ EvidenceInv /\ ClaimsInv /\ SupportInv /\ CitationsInv /\ CountsInv /\ PhaseInv`: what is in the prompt comes from
the loop and was not flagged, claims cite positions of the prompt, what is supported was entailed and has a citation,
and the counters agree with the lists. `CountsInv` is what makes an answer with its metrics a step of `AnswerContract`.

`Indexing_proofs` is about what an indexing is made of. Of `EmbeddingCache` it proves `VectorsMatchAlways` for any
number of calls, texts, models and lists of any length, with
`TypeOK /\ StoreInv /\ \A c \in Callers : CallInv(c)`. `StoreInv` says that an entry has a
vector of its key's model and, unless the service once left a text out (`omitted`, a history variable), of its key's
text; `CallInv` says the same of the values and fresh vectors of a call at each await. The two need each other: a hit
is right because of the store, the store because of the calls. `SortedAnswer` is the lemma that sorting a complete
answer by index puts every vector at its own place.

Of `Indexing`, for files of any number of pages and blocks with sentences of any length, the four strategies and any
valid configurations, it proves all that the run checks: `HeadingsAlwaysInForce`, `TextAlwaysSurvives`,
`ChunkHeadingsAlwaysInForce`, `CandidatesAlwaysWellFormed` and `ChunkExcessAlwaysBounded`. Assumed are `FilesAssumption` (a file is pages of blocks) and
`ConfigsAreValid` (`chunk_size_tokens` > 0, overlap and minimum size >= 0, as `ChunkingConfig` requires). The invariant is
`IndexInv == ParserInv /\ ReadInv /\ ChunkerInv`.

- `ParserInv` says that the heading in force is the last one before the place the parser is at, in the pass it is in: a
  PDF page is read twice, and its tables get the heading in force where the page begins.
- `ReadInv` says that every block to be kept that a pass is done with (`Passed`) is an element with a sentence. Chunkers
  that lose nothing are not enough for `TextSurvives`: what they are given has to be all there is.
- `ChunkerInv` says what the loops work on (`ListsInv`), what has come of it (`RowsInv`) and where the windows are
  (`FixedInv`). `Gathered` has buffer and remaining elements in the order of the document, each under its own heading, so
  whatever is joined ascends and begins under its heading. `Covered` has every word in a candidate that is searched, in the
  buffer, among the elements to come or in the sections to come; it is what each of the steps must keep, the overlap
  and the cut of an oversized element included. `Proper` says of the n-th candidate what the properties say of all, so
  a step has to show it of the new ones alone. `InSection` has the buffer of a section within the text of its parent, which
  is why a parent covers its children. The buffer of `RecursiveChunker` stays within budget and overlap by its weights,
  hence by its tokens below twice that, which is the bound the code really has; that of `SemanticChunker` within
  the budget unless it is one sentence.
- `WindowsOf` says where each window begins and ends, `Tiled` that, with a last one that is too small merged into the one
  before, no token is between two of them; `TilesCover` and `WindowIs` carry this over to words.

`CandidatesAsAssumed` joins the components: what comes out of `Indexing` is what `Ingestion` assumes of its constant
`Candidates`, parents first (`CandidatesAreForests`), and chunks under every configuration or under none
(`EmptinessIsOfContent`), since there is one exactly if the parser keeps a block of the file.

On the way the operators are shown to do what they are for, whatever they are applied to: `PiecesAreWhole` (the pieces
of an element are all of its text and fit the budget), `JoinedList` (a joined list has the words of its elements, in
order), `SectionIs` (sections are cut where the heading changes), `OverlapIs` (the overlap is the end of the buffer),
`MergedIs`.

`RetrievalAndEvaluation_proofs` proves of `Retrieval`, for any number of chunks and variants, any scores and limits and
any k: `AgreementIsKept` (`DominanceRespected`) and `CandidatesHaveProvenance` (`ProvenanceKept`). Assumed are
`WantedAreChunks` (chunks are finitely many), `LimitsArePositive` and `RrfKIsPositive`. Neither is inductive: both speak of
the list that all variants were merged to, and what is true of it has to be known of each variant before. `RetrievalInv`
says of the result of each variant that it keeps the agreement of its own two searches and their scores (`Keeps`), and
of the merged list that it keeps the agreement of all of them and the best scores (`IsMerged`); what is returned
unranked keeps the order of the merged list (`KeepsOrder`). What carries it is
`ScoreOfAhead`: what is in front in every ranking, or there alone, has no lower score, since a term decreases with
the rank (`TermOfAhead`) and a sum with its terms (`SumIsMonotone`); ties go to what was seen first, which is in front, too.

Of `EvaluationRun` it proves `MetricsAlwaysAgree` for rankings with or without repetition over any finite set of documents
and any cut at least 1
(`RetrievalsAreOfDocuments`, `KIsPositive`, `DiscountsDecrease`) and `ReportAlwaysConsistent` for any number of cases, with
`BenchmarkInv == CasesInv /\ LoopInv /\ VerifierInv`: what is known of the case under way while the runner awaits is
what the loop's contract and the verifier's say of their ends, which is all the summary rests on. What bounds NDCG is
`GainIsGreatestInFront`: since discounts decrease, no ranks are worth more than as many in front.

`Ingestion_proofs` proves for any number of uploads and indexings, all overlapping, and any contents: `TypeCorrect`,
`HistoryAlwaysContiguous`, `DoneAlwaysStored`, `ChecksumsAlwaysCurrent` and `HistoryImplemented`. The invariant is
`TablesOK /\ VersionsInv /\ UploadInv /\ KeysInv /\ IndexingInv` (the last and `UploadInv` for every request). Contiguity is
not inductive, since the commit of an upload knows nothing of what was committed since it read the latest version.
`UploadInv` says that what an upload has read stays true (its document exists, the version before its own exists and
differs), because versions are never deleted or changed; `KeysInv` that a flushed number is neither committed nor
flushed by another upload, which is `uq_document_version` and the wait for it; `VersionsInv` that a version has all its
predecessors. Then a version's number is the size of its document's history: `NumberLeft` shows by counting that
numbers stay within `Keys`, and `HistoryShape` that the tables map to the sequences of `VersionHistory`. For bytes and
checksums `StoredInv` is added: stored bytes come from an upload that saved them under this key (`Saver`), which is either
the one that has the version or one that was refused it, and a document's checksum from its latest version (`Current`).

Of uploads that come one at a time (`serial`, however many they are) it proves the other three properties
too: `StoredBytesAlwaysMatch`, `ChunksAlwaysMatchVersion` and `IndexedAlwaysComplete`.
`SerialInv` is added for the uploads: what the one under way has read is still true when it commits, its number is
above those of its document, so `Save` meets no other version's key, and the new version is the latest. `ChunksInv` is
added for the indexings: at most one has flushed for a version, what it flushed is not taken, and a version that is
still parsed had no configuration when it was read, so the commit records the right one. One more assumption
is needed: `EmptinessIsOfContent`, a content has chunks under every configuration or under none (proved of the chunkers
as `CandidatesAsAssumed`). Otherwise an indexing without chunks would overwrite the configuration recorded for another's chunks.

`RateLimiter_proofs` proves for any number of overlapping checks of any clients, any limit and any window: `TypeCorrect`,
`WindowAlwaysRespected`, `LateChecksAlwaysBounded` and `DenialAlwaysDeserved`. Assumed are `WindowIsPositive`, `LimitIsNatural`,
`RequestsAreFinite` (they are counted), `ClockStops` and, for the bound on late checks, `LagIsShort`: a check takes no
longer than a window. The invariant is `TypeOK /\ ClockInv /\ NumberInv /\ TotalInv /\ InTimeInv /\ CounterInv`. `TotalInv` counts
those who have drawn a number: no number exceeds them, which makes a denial deserved. `InTimeInv` says that numbers drawn
while the window lasts differ, so as many are let through as there are numbers up to the limit. `CounterInv` says that a
counter is gone at most once while checks of its window still use it (`FirstCounter`, then `SecondCounter`), so no number
is drawn three times: this is where the "2x" comes from, and why a lag longer than a window would break it.

`QueryRequest_proofs` proves for any number of requests of each kind, any assignment of ids and any size of the store:
`TypeCorrect`, `EndedStreamAlwaysWhole`, `StoredTracesAlwaysFinal`, `TraceAlwaysThere` and `CompletedAlwaysAnswered`. The invariant
is `TypeOK /\ AnswerInv /\ StreamInv /\ StoredTracesAreFinal /\ AgesInv /\ TraceInv`. `StreamInv` says that what a stream's client has
received, followed by what is in its queue, is what was emitted, and then the mark that closes the queue; `AnswerInv`
relates what the pipeline emitted last to how it stands, which is what a handler relies on that is resumed after a
timer has cancelled it. A stored trace stays final because only the step that settles a request stores one; `TraceInv` says why
one is missing: a younger one of the same id, or a store full of younger ones. `AgesInv`, that the store is in the
order in which its traces were stored, is what makes the one that is displaced the oldest (`KeepAges`).

`Places_proofs` has the lemmas that several components' proofs rest on: `AtIsSelection` (the elements `At` selects are
those at the given positions, in their order), least and greatest elements, sums over finite sets (`SumUnfolds`,
`SumIsMonotone`), ranks in an order, and sequences put together (`FlattenAppend`, `FlattenConcat`, `FlattenAscends`).
The induction theorems of the library take an operator, which the installed provers cannot instantiate. `Induction`
and `SequenceInduction` are for a set `P` of numbers or of sequences instead: were not all of them in `P`, there would be a least
one that is not. With them, what the recursive functions behind `SumFunction`, `FlattenSeq` and `Packed` return is proved
for arguments of any length; for each, a function that satisfies the recursive equation is shown to exist, and all
such functions to agree.

Every safety invariant, action property and refinement that a run checks is stated by a theorem, under the assumptions
named above. Only model-checked is liveness under fairness: `Termination`, `CallEnds`, `EveryRequestSettles` and
`EveryQuerySettles`. It is out of the prover's reach, as is ENABLED. The runs of section 6 show violations, so there is
nothing to prove; theorems about their neighbours say what does hold: `StoredBytesAlwaysMatch` without overlap,
`DoneAlwaysStored` with it, `HeadingsAlwaysInForce`, `ChunkExcessAlwaysBounded`, `VectorsMatchAlways` and
`MetricsAlwaysAgree`.

Some definitions have a form the provers can work with: `Places` exists since `SelectSeq` is recursive; `Packed` is a
recursive function and `Weight` a sum over a set where a fold would do for TLC; the cases of `Taken` in `Parsing` exclude
each other.

## 6. Where the code and what is said of it disagree

Shown by a run:

1. `StoredBytesRace`: two uploads that take the same version number write the same key before the database refuses
   one (`ingestion/pipeline.py:97`); the loser's bytes stay under the winner's version.
2. `TableHeadings`: "nearest enclosing heading" (`ingestion/parsed_document.py:31`) is not what a PDF's table gets: tables
   are read before the text of their page and have the heading in force where the page begins.
3. `ChunkBudget`: `RecursiveChunker` does not guarantee that a chunk fits the budget (`chunking/recursive.py:15-16`): line 76
   adds up elements without the separators between them, so three one-word items under a budget of 3 make a chunk of
   5 tokens.

Seen while modelling, without a run:

- Two overlapping uploads of a new filename create two documents, since no unique key covers collection and filename
  (`storage/models.py:99-105`). `FindDocument` has it so; the history is kept per document, not per name.
- `embeddings/base.py:26` promises one embedding per text in their order; `embeddings/cache.py:50-54` stores the vectors of a
  short answer under the wrong texts before `zip` raises, and later calls read them from the cache. `VectorsMatch` says
  of the texts "as long as nothing was left out" for this reason.
- NDCG exceeds 1 when chunks of one document repeat in a ranking, while precision counts the document once
  (`evaluation/retrieval.py:53`). `MetricsAgree` bounds it by what repetition can add.
- Two overlapping uploads of a known document can leave the checksum of an older version on its row: the second writes
  nothing if the row it loaded had its own checksum. `ChecksumsAreCurrent` excepts exactly this.
- `POST /documents/{id}/ingest` is called re-runnable with a different chunking configuration
  (`api/routes/documents.py:134-136`), but does not remove the chunks of an earlier indexing, and the unique key on
  chunk indexes refuses the second (`chunking/pipeline.py:60`).
- Text of a PDF under the box of a table whose extraction fails is lost, as is text outside of block tags in HTML and
  indented code in Markdown. `TextSurvives` counts as kept what a parser has a branch for, so it does not see this.
- Chunks keep the vectors they were indexed with; dense search does not ask which model made them, so after a change of
  the model it compares vectors of two.
- `evaluation/runner.py:1-6` calls the report a single comparable one; an agentic case that ends in a conflict or without
  evidence has no relevance and is left out of the mean, a baseline case without an answer counts as 0.0, and the
  agentic latency (`runner.py:178`) leaves out answer generation, which the baseline's includes.
- `core/retry.py:37-39` says that an exception means that no attempt connected; it means that the last did not.
- `docs/architecture.md:916-918` says that `/query/retrieve` stores its events; it does so only on success.
- `no_evidence_found` is reported when the last round found nothing, although an earlier one did.
- `max_tokens_per_query` (`core/config.py:44-48`) is never compared with anything.
- `HybridRetriever` speaks of a pool wider than `top_k`; the loop passes `top_k` itself and POST /search allows 50 with
  a pool of 30.
- An oversized element makes `RecursiveChunker` emit the overlap before it a second time, as a chunk of its own.
- `FixedSizeChunker` takes page and heading from the element a window starts in, also when that start is the separator
  after it; its merged last window may exceed the budget by the minimum size.
- When one of two hops was reranked and the other fell back, `_rank_and_truncate` sorts rerank and fusion scores
  together.
- A built-in `TimeoutError` from inside the pipeline is reported as the query's latency budget.

## 7. Not modelled

Texts, prompts, vectors, scores and similarity (all arbitrary); Redis, PostgreSQL and HTTP beyond what the code
observes of them; several API processes sharing nothing but the database and the cache (the trace store is documented
as process-local); connection pools; collections, health and settings routes; the libraries that open PDF, DOCX, HTML
and Markdown files, and what makes a PDF block look like a heading; characters, separators inside words, a fence of blanks in
Markdown, which makes an element without words; the local and
the mock models, whose answers are among those allowed; of the evaluation, means of reals, latencies and token counts;
frontend; migrations. `PROJECT.json` gives each its reason.

## 8. Plan

Done: loop, ingestion, query requests, model calls, rate limiter, answers, chunkers, retrieval; then parsers and
their composition with the chunkers, the embedding cache, the evaluation over the contracts of the loop and of the
verifier; the proofs of every safety property that is checked.

Next, proving: no safety property is left that only a run checks; what comes with the extensions below.

Next, extending the model:

1. `QueryRequest` over `LoopContract` and `AnswerContract`: the five exits and what each answers.
2. A `Cache` module shared by `RateLimiter` and `EmbeddingCache`, with get, set, incr, expire and delete.
3. `Ingestion` with candidates taken from `Indexing` in place of the constant `Candidates`.

------------------------- MODULE AnswerVerification -------------------------
(***************************************************************************)
(* From evidence to a grounded answer: AnswerVerifier.generate with the    *)
(* synthesis agent, the citation agent, resolve_citations and the citation *)
(* metrics.  The model writes claims that cite evidence by position; each  *)
(* claim is validated by a call of its own; the answer is what passed.     *)
(*                                                                         *)
(* A claim stands for its position in the synthesis, a text is not kept.   *)
(***************************************************************************)
EXTENDS Places, Sequences, SequencesExt

CONSTANTS
    Chunks,         \* the evidence a retrieval loop can hand over
    MaxEvidence,    \* bound: length of the evidence list
    MaxClaims,      \* bound: claims of a synthesis
    MaxCites        \* bound: positions a claim cites

ASSUME BoundsAreNatural ==
    MaxEvidence \in Nat /\ MaxClaims \in Nat /\ MaxCites \in Nat

VARIABLES
    pc,         \* what is awaited, or how the call ended
    given,      \* the evidence list of the retrieval loop
    flagged,    \* chunks that match a prompt injection pattern
    evidence,   \* the list the prompts are made of
    claims,     \* evidence_indices of each claim
    verdicts,   \* what validation said of the claims so far
    supported,  \* supported_claim_texts
    removed,    \* removed_claims
    citations,  \* all_citations
    total,      \* citations_total
    entailed    \* citations_entailed

vars == <<pc, given, flagged, evidence, claims, verdicts, supported, removed,
          citations, total, entailed>>
tallies == <<verdicts, supported, removed, citations, total, entailed>>

\* The positions of given at which detect_injection_patterns finds nothing.
Clean == {i \in DOMAIN given : given[i] \notin flagged}

\* The positions of cites that name a chunk of the prompt.
InRange(cites) == {j \in DOMAIN cites : cites[j] \in DOMAIN evidence}

Init ==
    /\ pc = "filter"
    /\ given \in {s \in SeqOf(Chunks, MaxEvidence) : IsInjective(s)}
    /\ flagged \in SUBSET Chunks
    /\ evidence = <<>>
    /\ claims = <<>>
    /\ verdicts = <<>>
    /\ supported = <<>>
    /\ removed = <<>>
    /\ citations = <<>>
    /\ total = 0
    /\ entailed = 0

\* Chunks with an injection pattern are dropped before any prompt is made.
Filter ==
    /\ pc = "filter"
    /\ evidence' = At(given, Clean)
    /\ pc' = "synthesize"
    /\ UNCHANGED <<given, flagged, claims, tallies>>

\* The model returns claims, of which positions out of range are dropped at
\* once.  Without evidence it is not asked.
Synthesize ==
    /\ pc = "synthesize"
    /\ \/ /\ evidence = <<>>
          /\ pc' = "insufficient_evidence"
          /\ UNCHANGED claims
       \/ /\ evidence # <<>>
          /\ \E insufficient \in BOOLEAN,
                cites \in SeqOf(SeqOf(0 .. MaxEvidence + 1, MaxCites),
                                MaxClaims) :
                /\ claims' = [k \in DOMAIN cites |->
                                At(cites[k], InRange(cites[k]))]
                /\ pc' = IF insufficient \/ cites = <<>>
                         THEN "insufficient_evidence" ELSE "validate"
    /\ UNCHANGED <<given, flagged, evidence, tallies>>

Claim == Len(verdicts) + 1

\* Mutant: positions are looked up in the evidence as it was retrieved.
ResolveUnfiltered(claim, cites) ==
    [k \in DOMAIN cites |-> [claim |-> claim, chunk |-> given[cites[k]]]]

\* resolve_citations: positions become chunks of the list the prompt showed.
Resolve(claim, cites) ==
    [k \in DOMAIN cites |-> [claim |-> claim, chunk |-> evidence[cites[k]]]]

\* Mutant: a claim that cites nothing is put before the model.
CanEntailWithoutCitation(cites) == TRUE

\* A claim without citation is unsupported, no model is asked.
CanEntail(cites) == cites # <<>>

\* Mutant: citations of a removed claim are counted as entailed.
ValidateCountingAll ==
    /\ pc = "validate"
    /\ Claim <= Len(claims)
    /\ \E verdict \in BOOLEAN :
          LET cites == claims[Claim]
          IN  /\ verdict => CanEntail(cites)
              /\ verdicts' = Append(verdicts, verdict)
              /\ total' = total + Len(cites)
              /\ entailed' = entailed + Len(cites)
              /\ IF verdict
                 THEN /\ supported' = Append(supported, Claim)
                      /\ citations' = citations \o Resolve(Claim, cites)
                      /\ UNCHANGED removed
                 ELSE /\ removed' = Append(removed, Claim)
                      /\ UNCHANGED <<supported, citations>>
    /\ UNCHANGED <<pc, given, flagged, evidence, claims>>

\* validate_claim returns for the next claim.
Validate ==
    /\ pc = "validate"
    /\ Claim <= Len(claims)
    /\ \E verdict \in BOOLEAN :
          LET cites == claims[Claim]
          IN  /\ verdict => CanEntail(cites)
              /\ verdicts' = Append(verdicts, verdict)
              /\ total' = total + Len(cites)
              /\ IF verdict
                 THEN /\ entailed' = entailed + Len(cites)
                      /\ supported' = Append(supported, Claim)
                      /\ citations' = citations \o Resolve(Claim, cites)
                      /\ UNCHANGED removed
                 ELSE /\ removed' = Append(removed, Claim)
                      /\ UNCHANGED <<entailed, supported, citations>>
    /\ UNCHANGED <<pc, given, flagged, evidence, claims>>

\* All claims are validated; what is supported, if anything, is the answer.
Conclude ==
    /\ pc = "validate"
    /\ Claim > Len(claims)
    /\ pc' = IF supported = <<>> THEN "insufficient_evidence" ELSE "grounded"
    /\ UNCHANGED <<given, flagged, evidence, claims, tallies>>

\* A model call raises, or the latency budget cancels the call at its await.
Abandon ==
    /\ \/ pc = "synthesize" /\ evidence # <<>>
       \/ pc = "validate" /\ Claim <= Len(claims) /\ CanEntail(claims[Claim])
    /\ pc' = "abandoned"
    /\ UNCHANGED <<given, flagged, evidence, claims, tallies>>

Next == Filter \/ Synthesize \/ Validate \/ Conclude \/ Abandon

Spec == Init /\ [][Next]_vars

Finished == pc \in {"grounded", "insufficient_evidence", "abandoned"}

\* compute_citation_metrics.
Result == [claims_total |-> Len(claims), claims_supported |-> Len(supported),
           citations_total |-> total, citations_entailed |-> entailed]

----------------------------------------------------------------------------
(* Properties *)

\* The types of the call's state.
TypeOK ==
    /\ pc \in {"filter", "synthesize", "validate", "grounded",
               "insufficient_evidence", "abandoned"}
    /\ given \in Seq(Chunks)
    /\ flagged \subseteq Chunks
    /\ evidence \in Seq(Chunks)
    /\ claims \in Seq(Seq(Nat \ {0}))
    /\ verdicts \in Seq(BOOLEAN)
    /\ supported \in Seq(Nat)
    /\ removed \in Seq(Nat)
    /\ citations \in Seq([claim : Nat, chunk : Chunks])
    /\ total \in Nat
    /\ entailed \in Nat

CitedBy(claim) == {citations[k].chunk :
                     k \in {j \in DOMAIN citations : citations[j].claim = claim}}

\* "Reconstructs the answer from only the claims whose citations passed
\* entailment validation": a grounded answer is not empty, keeps the order of
\* the synthesis, and each of its claims was entailed by citations it has.
AnswerIsSupported ==
    pc = "grounded" =>
        /\ supported # <<>>
        /\ \A j, k \in DOMAIN supported : j < k => supported[j] < supported[k]
        /\ \A k \in DOMAIN supported :
              verdicts[supported[k]] /\ CitedBy(supported[k]) # {}

\* "a citation can never point at a chunk that wasn't actually retrieved", nor
\* at one that was filtered out, nor at another than the one the model was
\* shown under the position it named.
CitationsAreGenuine ==
    \A k \in DOMAIN citations :
        LET c == citations[k]
        IN  /\ \E i \in DOMAIN given : given[i] = c.chunk
            /\ c.chunk \notin flagged
            /\ \E j \in DOMAIN claims[c.claim] :
                  evidence[claims[c.claim][j]] = c.chunk

\* What the caller has in its hands: nothing before the call ends, and nothing
\* but a status when there is no answer.
Contract == INSTANCE AnswerContract WITH
    Claims <- MaxClaims,
    Citations <- MaxClaims * MaxCites,
    offered <- Len(given),
    status <- IF Finished THEN pc ELSE "pending",
    answer <- IF pc = "grounded" THEN Len(supported) ELSE 0,
    cited <- IF pc = "grounded" THEN Len(citations) ELSE 0,
    metrics <- IF pc = "grounded" THEN Result
               ELSE [claims_total |-> 0, claims_supported |-> 0,
                     citations_total |-> 0, citations_entailed |-> 0]

\* Whatever the model proposes, cites twice or out of range, and wherever the
\* call is cut off, its result is one AnswerContract allows: the metrics count
\* the claims and citations that are returned, and an abstention carries none.
ImplementsAnswerContract == Contract!Spec

=============================================================================

--------------------------- MODULE AnswerContract ---------------------------
(***************************************************************************)
(* What a caller of AnswerVerifier.generate is promised, without saying    *)
(* how: either an answer with the citations that its metrics count, or an  *)
(* abstention without answer, citations or metrics, or an exception; and   *)
(* never an answer to nothing.                                             *)
(***************************************************************************)
EXTENDS Integers

CONSTANTS
    Claims,         \* the claims a synthesis may make
    Citations       \* the positions they may cite together

VARIABLES
    offered,        \* number of chunks the call is given
    status,         \* "pending", or how the call ended
    answer,         \* number of claims the answer is joined from, 0: None
    cited,          \* number of citations returned
    metrics         \* CitationQualityMetrics

contractVars == <<offered, status, answer, cited, metrics>>

\* metrics of an abstention.
NoMetrics == [claims_total |-> 0, claims_supported |-> 0,
              citations_total |-> 0, citations_entailed |-> 0]

Init ==
    /\ offered \in Nat
    /\ status = "pending"
    /\ answer = 0
    /\ cited = 0
    /\ metrics = NoMetrics

\* Every claim of the answer has a citation, and what is counted as supported
\* and entailed is what is returned.
Ground ==
    /\ status = "pending"
    /\ offered > 0
    /\ \E total \in 1 .. Claims, proposed \in 1 .. Citations :
          \E supported \in 1 .. total, entailed \in 1 .. proposed :
             /\ supported <= entailed
             /\ answer' = supported
             /\ cited' = entailed
             /\ metrics' = [claims_total |-> total, claims_supported |-> supported,
                            citations_total |-> proposed,
                            citations_entailed |-> entailed]
    /\ status' = "grounded"
    /\ UNCHANGED offered

Abstain ==
    /\ status = "pending"
    /\ status' = "insufficient_evidence"
    /\ UNCHANGED <<offered, answer, cited, metrics>>

Abandon ==
    /\ status = "pending"
    /\ offered > 0
    /\ status' = "abandoned"
    /\ UNCHANGED <<offered, answer, cited, metrics>>

Next == Ground \/ Abstain \/ Abandon

Spec == Init /\ [][Next]_contractVars

=============================================================================

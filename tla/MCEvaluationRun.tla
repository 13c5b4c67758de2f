-------------------------- MODULE MCEvaluationRun --------------------------
(* Constants of the run of EvaluationRun.                                  *)
EXTENDS EvaluationRun

CONSTANTS d1, d2

\* Nothing, one chunk, two documents, and two chunks of one document with
\* another one below rank K.
MCRetrievals == {<<>>, <<d1>>, <<d2, d1>>, <<d1, d1, d2>>}

\* 1 / log2(2) and 1 / log2(3), in hundredths.
MCDiscount == <<100, 63>>

=============================================================================

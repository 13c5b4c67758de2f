---------------------------- MODULE MCRetrieval ----------------------------
(* Constants of the run of Retrieval.                                      *)
EXTENDS Retrieval, TLC

\* The loop's limits, those of a POST /search for more than the pool holds, and
\* those of a POST /retrieve with a threshold that is reranked.
MCLimits ==
    {[top |-> 2, pool |-> 2, keep |-> 1, threshold |-> 0],
     [top |-> 3, pool |-> 2, keep |-> 2, threshold |-> 0],
     [top |-> 3, pool |-> 3, keep |-> 2, threshold |-> 2]}

MCSymmetry == Permutations(Wanted) \union Permutations(Chunks \ Wanted)

============================================================================

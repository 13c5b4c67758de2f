-------------------------- MODULE MCEmbeddingCache --------------------------
(* Calls and texts are alike. *)
EXTENDS EmbeddingCache, TLC

MCSymmetry == Permutations(Callers) \cup Permutations(Texts)

=============================================================================

--------------------------- MODULE MCRateLimiter ---------------------------
(* Runs of RateLimiter.                                                    *)
EXTENDS RateLimiter, TLC

MCSymmetry == Permutations(Requests) \union Permutations(Clients)

=============================================================================

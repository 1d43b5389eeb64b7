--------------------------- MODULE MCRateLimiter ---------------------------
(* TLC instance of RateLimiter: handlers are interchangeable, and so are   *)
(* cluster IDs.                                                            *)
EXTENDS RateLimiter, TLC

Symmetry == Permutations(Handlers) \cup Permutations(Clusters)
=============================================================================

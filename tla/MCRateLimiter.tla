---------------------------- MODULE MCRateLimiter ----------------------------
(* An instance of RateLimiter. *)
EXTENDS RateLimiter, TLC

Symmetry == Permutations(Callers) \cup Permutations(Keys)
==============================================================================

--------------------------- MODULE MCRateLimiter ---------------------------
(***************************************************************************)
(* Instances of RateLimiter for TLC.                                       *)
(***************************************************************************)
EXTENDS RateLimiter, TLC

CONSTANTS u1, u2, g1, g2

Symmetry == Permutations(Users) \cup Permutations(Goroutines)
=============================================================================

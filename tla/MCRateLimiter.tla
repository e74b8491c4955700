--------------------------- MODULE MCRateLimiter ---------------------------
(* Instances of RateLimiter for TLC. *)
EXTENDS RateLimiter, TLC

CONSTANTS c1, c2, c3, c4, c5

FourCalls == {c1, c2, c3, c4}
FiveCalls == {c1, c2, c3, c4, c5}

CallSymmetry == Permutations(Calls)
=============================================================================

--------------------------- MODULE MCRateLimiter ----------------------------
(* One client with a limit of two requests in a window of two ticks, and   *)
(* two requests handled at the same time.                                  *)
EXTENDS RateLimiter, TLC

CONSTANTS c1, r1, r2

RequestSymmetry == Permutations(Requests)
=============================================================================

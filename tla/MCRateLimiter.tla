--------------------------- MODULE MCRateLimiter ---------------------------
(***************************************************************************)
(* A small instance of RateLimiter: the constants of its configuration.    *)
(***************************************************************************)
EXTENDS RateLimiter, TLC

CONSTANTS k1, k2

TwoKeys == {k1, k2}

\* Keys are names and nothing else.
SwapKeys == Permutations(Key)

=============================================================================

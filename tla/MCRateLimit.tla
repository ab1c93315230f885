---------------------------- MODULE MCRateLimit ----------------------------
\* Two bearers share a subject; the bearers' map has room for one.
EXTENDS RateLimit, TLC
CONSTANTS b1, b2, u1, r1, r2
SharedSub == b1 :> u1 @@ b2 :> u1
Symmetry == Permutations(Requests)
=============================================================================

---------------------------- MODULE MCOAuthProxy ----------------------------
\* Two registered flows and one that is not, one slot fewer than states.
EXTENDS OAuthProxy, TLC
CONSTANTS f1, f2, f3, s1, s2, s3
Symmetry == Permutations(States)
=============================================================================

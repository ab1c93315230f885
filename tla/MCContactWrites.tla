-------------------------- MODULE MCContactWrites --------------------------
\* Two tool calls at a time and a foreign client at two hrefs, where contacts
\* of two UIDs may come and go; three writes.
EXTENDS ContactWrites, TLC
CONSTANTS c1, c2, u1, u2
Symmetry == Permutations(Calls) \cup Permutations(Uids)
=============================================================================

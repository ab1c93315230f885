------------------------------ MODULE Iteration -----------------------------
(***************************************************************************)
(* A `for' loop over a sequence, by what it leaves.                        *)
(***************************************************************************)
EXTENDS Integers, Sequences

\* What a loop over a sequence has after its last step.
Run(Step(_, _), start, s) ==
  LET after[n \in 0..Len(s)] == IF n = 0 THEN start ELSE Step(after[n - 1], s[n])
  IN  after[Len(s)]
=============================================================================

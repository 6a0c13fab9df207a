------------------------------- MODULE Folding -------------------------------
(***************************************************************************)
(* A loop over a sequence.  The body is a function of what the loop keeps  *)
(* and of the element, not an operator, so that lemmas can be stated about *)
(* every loop.                                                             *)
(***************************************************************************)
EXTENDS Integers, Sequences

\* What the loop keeps after the last element of seq, if it begins with base.
Fold(step, base, seq) ==
  LET after[i \in 0..Len(seq)] == IF i = 0 THEN base ELSE step[after[i - 1]][seq[i]]
  IN after[Len(seq)]
=============================================================================

---------------------------- MODULE MCTokenFiles ----------------------------
(* Two starts, with every kill and crash between their steps. *)
EXTENDS TokenFiles, TLC

ValueSymmetry == Permutations(Values)
=============================================================================

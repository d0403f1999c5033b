----------------------------- MODULE MCModelPath -----------------------------
(* ModelPath on its own, with two subscribers that compete for no lock but   *)
(* share the latch.                                                          *)
EXTENDS ModelPath, TLC

Symmetry == Permutations(Subs) \cup Permutations(Symbols)
=============================================================================

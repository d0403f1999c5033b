----------------------------- MODULE MCModelHost -----------------------------
(* The model host with the model path, for TLC.                              *)
EXTENDS ModelHost, TLC

Symmetry == Permutations(Symbols)
=============================================================================

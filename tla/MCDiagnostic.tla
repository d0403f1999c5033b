---------------------------- MODULE MCDiagnostic ----------------------------
(* The stage-transition Hub with its diagnostic subscriber, for TLC.         *)
EXTENDS Diagnostic, TLC

Symmetry == Permutations(Callers) \cup Permutations(States)
=============================================================================

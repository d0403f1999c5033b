-------------------------- MODULE MCStageTransition --------------------------
(* The stage-transition Hub on its own, for TLC.                             *)
EXTENDS StageTransition, TLC

Symmetry == Permutations(Callers) \cup Permutations(States)
=============================================================================

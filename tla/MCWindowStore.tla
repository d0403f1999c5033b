---------------------------- MODULE MCWindowStore ----------------------------
(* The bar window on its own, for TLC.                                       *)
EXTENDS WindowStore, TLC
=============================================================================

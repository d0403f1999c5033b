--------------------------- MODULE MCVolumeEngine ---------------------------
(* The volume engine on its own, for TLC.                                    *)
EXTENDS VolumeEngine, TLC
=============================================================================

---------------------------- MODULE MCHostHealth ----------------------------
(* The model host with its health reports, for TLC.                          *)
EXTENDS HostHealth, TLC
=============================================================================

----------------------------- MODULE MCIngestion -----------------------------
(* The P-02 pipeline with its bar window, for TLC.                           *)
EXTENDS Ingestion, TLC
=============================================================================

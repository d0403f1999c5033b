----------------------------- MODULE FeedHealth -----------------------------
(***************************************************************************)
(* What a live bar source promises about its health, as the pipeline's     *)
(* breaker reads it (domain.FeedHealth, marketfeed.LiveBarSource): the     *)
(* state goes round FAILED, RECOVERING, HEALTHY, and only a connection     *)
(* attempt in progress can make it HEALTHY.  The heartbeat figures may     *)
(* change at any time, also after the session they belong to.              *)
(***************************************************************************)
EXTENDS Naturals

VARIABLES
    state,      \* FeedHealth.State
    overdue     \* is the last pong over HeartbeatMaxRTT, or has the heartbeat
                \*   been missed HeartbeatMaxMisses times?

feedVars == <<state, overdue>>

FeedStates == {"HEALTHY", "RECOVERING", "FAILED"}

\* An Alpaca stream starts as failed, a CSV file as healthy.
FeedInit == state \in {"FAILED", "HEALTHY"} /\ overdue = FALSE

Connecting == state = "FAILED" /\ state' = "RECOVERING" /\ UNCHANGED overdue
Connected == state = "RECOVERING" /\ state' = "HEALTHY" /\ UNCHANGED overdue
Lost == state # "FAILED" /\ state' = "FAILED" /\ UNCHANGED overdue
Heartbeat == overdue' = ~overdue /\ UNCHANGED state

FeedNext == Connecting \/ Connected \/ Lost \/ Heartbeat

FeedSpec == FeedInit /\ [][FeedNext]_feedVars
=============================================================================

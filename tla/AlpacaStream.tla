----------------------------- MODULE AlpacaStream -----------------------------
(***************************************************************************)
(* The live market feed (internal/marketfeed/alpaca_ws.go): Run connects,  *)
(* holds a session until it fails, and tries again after a growing pause.  *)
(* Each session has a read loop in a goroutine of its own; the session     *)
(* does not wait for it, so a read loop may outlive its session, blocked   *)
(* on a full bar channel, and still write to the health they all share.    *)
(*                                                                         *)
(* The server is the environment: a dial, a reply, a message or a pong may *)
(* or may not come, and a connection may break at any time.  Messages are  *)
(* abstracted to whether they carry a bar; decode.go is in WindowStore.    *)
(***************************************************************************)
EXTENDS Naturals

CONSTANTS
    MaxSessions,    \* bound: connections that are made
    MaxMisses,      \* config.HeartbeatMaxMisses
    BackoffCap      \* doublings from ReconnectBase to ReconnectCap

ASSUME StreamAssumption ==
    MaxSessions \in Nat /\ MaxMisses \in Nat \ {0} /\ BackoffCap \in Nat

Sessions == 1..MaxSessions

VARIABLES
    phase,      \* what Run is doing
    session,    \* the number of connections made so far
    backoff,    \* doublings of the pause so far
    misses,     \* session's count of failed pings in a row
    cancelled,  \* has ctx been cancelled?
    conn,       \* conn[n]: is the n-th connection open?
    reader,     \* reader[n]: what the n-th session's read loop is doing
    \* AlpacaStream.health:
    feedState,  \* .State
    failures,   \* .ConsecutiveHeartbeatFailures
    late        \* is .LastPongRTT over HeartbeatMaxRTT?

healthVars == <<feedState, failures, late>>
runVars == <<phase, session, backoff, misses>>
streamVars == <<runVars, cancelled, conn, reader, healthVars>>

StreamTypeOK ==
    /\ phase \in {"start", "dial", "handshake", "connected", "live", "failed",
                  "pause", "returned"}
    /\ session \in 0..MaxSessions
    /\ backoff \in 0..BackoffCap
    /\ misses \in 0..MaxMisses
    /\ cancelled \in BOOLEAN
    /\ conn \in [Sessions -> BOOLEAN]
    /\ reader \in [Sessions -> {"none", "reading", "read", "sending", "ended"}]
    /\ feedState \in {"HEALTHY", "RECOVERING", "FAILED"}
    /\ failures \in 0..MaxMisses
    /\ late \in BOOLEAN

StreamInit ==
    /\ phase = "start" /\ session = 0 /\ backoff = 0 /\ misses = 0
    /\ cancelled = FALSE
    /\ conn = [n \in Sessions |-> FALSE]
    /\ reader = [n \in Sessions |-> "none"]
    /\ feedState = "FAILED" /\ failures = 0 /\ late = FALSE

-----------------------------------------------------------------------------
\* Run, around a session.
setState(s) == feedState' = s /\ UNCHANGED <<failures, late>>
recordMessage == failures' = 0 /\ UNCHANGED <<feedState, late>>
recordMiss(count) == failures' = count /\ UNCHANGED <<feedState, late>>

Return ==
    /\ phase \in {"start", "pause"} /\ cancelled
    /\ phase' = "returned"
    /\ UNCHANGED <<session, backoff, misses, cancelled, conn, reader,
                   healthVars>>

Attempt ==
    /\ phase = "start" /\ ~cancelled
    /\ phase' = "dial"
    /\ setState("RECOVERING")
    /\ UNCHANGED <<session, backoff, misses, cancelled, conn, reader>>

\* Mutant: the state is left alone when a session fails.
SessionOver_KeepsState == UNCHANGED healthVars
SessionOver == setState("FAILED")

\* session has returned.  A cancelled context ends Run before it can say so.
Fail ==
    /\ phase = "failed"
    /\ IF cancelled THEN phase' = "returned" /\ UNCHANGED healthVars
       ELSE phase' = "pause" /\ SessionOver
    /\ UNCHANGED <<session, backoff, misses, cancelled, conn, reader>>

Doubled == IF backoff < BackoffCap THEN backoff + 1 ELSE backoff

\* The pause is over: it doubles up to the cap, and no session, however good,
\* makes it short again.
Resume ==
    /\ phase = "pause"
    /\ phase' = "start"
    /\ backoff' = Doubled
    /\ UNCHANGED <<session, misses, cancelled, conn, reader, healthVars>>

-----------------------------------------------------------------------------
\* session(): dial, authenticate, subscribe, then wait.
DialFails ==
    /\ phase = "dial"
    /\ phase' = "failed"
    /\ UNCHANGED <<session, backoff, misses, cancelled, conn, reader,
                   healthVars>>

Dialled ==
    /\ phase = "dial" /\ session < MaxSessions
    /\ phase' = "handshake"
    /\ session' = session + 1
    /\ conn' = [conn EXCEPT ![session + 1] = TRUE]
    /\ UNCHANGED <<backoff, misses, cancelled, reader, healthVars>>

\* Mutant: an ended session leaves its connection open.
CloseConn_Never == UNCHANGED conn
\* defer conn.Close()
CloseConn == conn' = [conn EXCEPT ![session] = FALSE]

\* authenticate or subscribe fails: an error reply, or none that is readable.
Refused ==
    /\ phase = "handshake"
    /\ phase' = "failed"
    /\ CloseConn
    /\ UNCHANGED <<session, backoff, misses, cancelled, reader, healthVars>>

\* Both succeed; each records a message.
Subscribed ==
    /\ phase = "handshake"
    /\ phase' = "connected"
    /\ recordMessage
    /\ UNCHANGED <<session, backoff, misses, cancelled, conn, reader>>

\* setState(HEALTHY), then the read loop is started.
Live ==
    /\ phase = "connected"
    /\ phase' = "live"
    /\ misses' = 0
    /\ reader' = [reader EXCEPT ![session] = "reading"]
    /\ setState("HEALTHY")
    /\ UNCHANGED <<session, backoff, cancelled, conn>>

Leave ==
    /\ phase' = "failed"
    /\ CloseConn
    /\ UNCHANGED <<session, backoff, cancelled, reader>>

\* The ticker: a ping is written.
PingWritten ==
    /\ phase = "live"
    /\ misses' = 0
    /\ recordMiss(0)
    /\ UNCHANGED <<phase, session, backoff, cancelled, conn, reader>>

\* Or it cannot be, for the first time or once too often.
PingFails ==
    /\ phase = "live"
    /\ misses' = misses + 1
    /\ recordMiss(misses + 1)
    /\ IF misses + 1 >= MaxMisses THEN Leave
       ELSE UNCHANGED <<phase, session, backoff, cancelled, conn, reader>>

\* <-readErr: the read loop of this session has ended; or <-ctx.Done().
SessionEnds ==
    /\ phase = "live"
    /\ reader[session] = "ended" \/ cancelled
    /\ Leave
    /\ UNCHANGED <<misses, healthVars>>

-----------------------------------------------------------------------------
\* readLoop of session n.
ReaderAt(n, from, to) ==
    /\ reader[n] = from
    /\ reader' = [reader EXCEPT ![n] = to]
    /\ UNCHANGED <<runVars, cancelled, conn>>

\* ReadMessage fails: closed here or by the server, idle too long, a pong
\* that took too long, or the context is over.
ReadFails(n) == ReaderAt(n, "reading", "ended") /\ UNCHANGED healthVars

\* It returns a message.
ReadMessage(n) ==
    conn[n] /\ ReaderAt(n, "reading", "read") /\ UNCHANGED healthVars

\* A pong is handled inside ReadMessage; a slow one makes it fail.
Pong(n) ==
    /\ conn[n]
    /\ reader[n] = "reading"
    /\ failures' = 0
    /\ late' \in BOOLEAN
    /\ reader' = [reader EXCEPT ![n] = IF late' THEN "ended" ELSE "reading"]
    /\ UNCHANGED <<runVars, cancelled, conn, feedState>>

\* recordMessage; then the message's bars are sent, if there are any, or it
\* was an error and the loop ends.
Record(n) ==
    /\ recordMessage
    /\ \/ ReaderAt(n, "read", "reading") \/ ReaderAt(n, "read", "sending")
       \/ ReaderAt(n, "read", "ended")

\* The pipeline takes the bar.
Sent(n) == ReaderAt(n, "sending", "reading") /\ UNCHANGED healthVars

\* Mutant: the send waits for the pipeline alone.
SendGivesUp_Never(n) == FALSE
SendGivesUp(n) ==
    cancelled /\ ReaderAt(n, "sending", "ended") /\ UNCHANGED healthVars

ReaderStep(n) ==
    ReadFails(n) \/ ReadMessage(n) \/ Pong(n) \/ Record(n) \/ Sent(n)
        \/ SendGivesUp(n)

Cancel ==
    /\ ~cancelled
    /\ cancelled' = TRUE
    /\ UNCHANGED <<runVars, conn, reader, healthVars>>

RunStep ==
    \/ Return \/ Attempt \/ Fail \/ Resume
    \/ DialFails \/ Dialled \/ Refused \/ Subscribed \/ Live \/ SessionEnds

StreamNext ==
    \/ RunStep \/ PingWritten \/ PingFails \/ Cancel
    \/ \E n \in Sessions : ReaderStep(n)

\* Run and the read loops are scheduled; a dial and a handshake end one way or
\* the other (both have timeouts); a read on a closed connection fails; a read
\* loop that could go on for ever sees the context's end when it looks.  What
\* the server sends, and when the pipeline takes a bar, is not assumed.
StreamFairness ==
    /\ WF_streamVars(RunStep)
    /\ \A n \in Sessions :
        /\ WF_streamVars(~conn[n] /\ ReadFails(n))
        /\ WF_streamVars(Record(n)) /\ WF_streamVars(SendGivesUp(n))

StreamSpec == StreamInit /\ [][StreamNext]_streamVars
StreamFairSpec == StreamSpec /\ StreamFairness

-----------------------------------------------------------------------------
Feed == INSTANCE FeedHealth WITH
    state <- feedState, overdue <- (late \/ failures >= MaxMisses)

\* The health that Health() reports goes the round the pipeline relies on,
\* with several goroutines writing to it: HEALTHY only out of a connection
\* attempt, and a lost session is FAILED before anything is tried again.
KeepsFeedProtocol == Feed!FeedSpec

\* At most one connection is open, and none once Run has let go of a session:
\* reconnecting never leaks one.
OneConnection ==
    \A n \in Sessions : conn[n] =>
        n = session /\ phase \in {"handshake", "connected", "live"}

\* A cancelled feed winds up completely: Run returns, and no read loop stays
\* behind, not even one blocked on a pipeline that has stopped taking bars.
CancelLeavesNothing ==
    cancelled ~> (phase = "returned"
                  /\ \A n \in Sessions : reader[n] \in {"none", "ended"})
=============================================================================

------------------------------ MODULE MCStreams ------------------------------
(* The three streams that enter or leave the process, for TLC: the feed, a   *)
(* StreamDecisions call and a StreamBars call.  They share no variable; each *)
(* behaviour is of one of them, and the other two keep still.                *)
EXTENDS AlpacaStream, EventStream, BarStream, TLC

VARIABLE part

all == <<streamVars, eventVars, barStreamVars, part>>

Init ==
    /\ part \in {"feed", "events", "bars"}
    /\ StreamInit /\ EventInit /\ BarStreamInit
    /\ part # "events" => wanted = EventSymbols /\ limit = 0
    /\ part # "bars" => finalOnly /\ asked = Symbols

OfFeed(A) ==
    part = "feed" /\ A /\ UNCHANGED <<eventVars, barStreamVars, part>>
OfEvents(A) ==
    part = "events" /\ A /\ UNCHANGED <<streamVars, barStreamVars, part>>
OfBars(A) ==
    part = "bars" /\ A /\ UNCHANGED <<streamVars, eventVars, part>>

Next == OfFeed(StreamNext) \/ OfEvents(EventNext) \/ OfBars(BarStreamNext)

\* StreamFairness, EventFairness and BarStreamFairness, each for its part.
Spec ==
    /\ Init /\ [][Next]_all
    /\ WF_all(OfFeed(RunStep))
    /\ \A n \in Sessions :
        /\ WF_all(OfFeed(~conn[n] /\ ReadFails(n)))
        /\ WF_all(OfFeed(Record(n))) /\ WF_all(OfFeed(SendGivesUp(n)))
    /\ WF_all(OfEvents(CallStep))
    /\ \A g \in Producers : WF_all(OfBars(FanOutStep(g)))
    /\ WF_all(OfBars(StreamCallStep)) /\ SF_all(OfBars(CallStopped))
    /\ WF_all(OfBars(ForceStop))

\* Each part is in a state its code can hold: phases, channels within their
\* capacity, a pause within its cap, windows within their limit.
StreamsTypeOK == StreamTypeOK /\ EventTypeOK /\ BarStreamTypeOK

\* The streaming calls end when the process goes down, although their clients
\* neither cancel nor hurry: StreamDecisions by itself, its channel closed by
\* the host; StreamBars, which nothing in the pipeline ends, by the server's
\* Stop after the graceful period (main.go 117-136).
CallsEnd == CallEndsWithHost /\ ShutdownEndsCall
=============================================================================

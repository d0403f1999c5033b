------------------------------ MODULE Ingestion ------------------------------
(***************************************************************************)
(* The P-02 pipeline (internal/ingestion/pipeline.go, breaker.go): a run   *)
(* loop that takes live bars and watches the feed, gap fills that run      *)
(* beside it (the recovery goroutine and TriggerGapFill calls), and the    *)
(* gate `inferReady` that all of them, and every Readiness call, recompute *)
(* and store without a common lock.                                        *)
(*                                                                         *)
(* Each breaker and window method holds its own lock for its whole body;   *)
(* a step below is one such method, or one load or store of the gate.  Of  *)
(* the windows only whether they pass InferReady is kept: a bar that Add   *)
(* takes, and time, may change that either way (WindowStore says how).     *)
(* What goes out to subscribers is not state of this module: the observe   *)
(* fan-out is in BarStream, the model path in ModelPath, the transition    *)
(* Hub in StageTransition.                                                 *)
(***************************************************************************)
EXTENDS FeedHealth, Naturals, FiniteSets

CONSTANTS
    Symbols,    \* the configured symbols
    MaxFills,   \* bound: TriggerGapFill calls
    MaxCalls    \* bound: client calls in progress at a time

ASSUME IngestionAssumption == MaxFills \in Nat /\ MaxCalls \in Nat

VARIABLES
    source,     \* "ALPACA" or "CSV": which adapters main has wired
    srcEnded,   \* has live.Run returned?  (a CSV file ends)
    ready,      \* do the windows of all symbols pass domain.InferReady?
    breaker,    \* CircuitBreaker.state
    inferReady, filling, \* Pipeline.inferReady, .filling
    pc,         \* pc[g]: what goroutine g does next
    seen,       \* what Observe will make of the health the loop has read
    verdict,    \* verdict[g]: what g's refreshInfer is about to store
    then,       \* then[g]: where g goes on after refreshInfer
    todo,       \* todo[g]: the symbols g has still to gap-fill
    fills       \* TriggerGapFill calls made

runVars == <<pc, seen, verdict, then, todo>>
gateVars == <<breaker, inferReady, filling>>
envVars == <<source, srcEnded, fills>>
vars == <<ready, feedVars, runVars, gateVars, envVars>>

Goroutines == {"loop", "recovery", "trigger", "readiness"}
Fillers == {"recovery", "trigger"}

Unread == "UNREAD"

\* Breaker, gate and goroutines are in states the code can be in: the run loop
\* observes only a health it has read, and a recovery runs exactly as long as
\* `filling` is set (pipeline.go 91-125, 286-313).
TypeOK ==
    /\ state \in FeedStates /\ overdue \in BOOLEAN
    /\ source \in {"ALPACA", "CSV"} /\ srcEnded \in BOOLEAN
    /\ ready \in BOOLEAN
    /\ breaker \in FeedStates
    /\ inferReady \in BOOLEAN /\ filling \in BOOLEAN
    /\ pc \in [Goroutines -> {"idle", "refresh", "judge", "store", "mark",
                 "look", "observe", "observeTick", "clear",
                 "drain", "observeEnd", "shut", "ended", "reconcile",
                 "request"}]
    /\ seen \in FeedStates \cup {Unread}
    /\ verdict \in [Goroutines -> BOOLEAN]
    /\ then \in [Goroutines -> {"idle", "look", "drain", "reconcile"}]
    /\ todo \in [Fillers -> SUBSET Symbols]
    /\ fills \in 0..MaxFills
    /\ filling = (pc["recovery"] # "idle")

Init ==
    /\ source \in {"ALPACA", "CSV"}
    /\ state = IF source = "CSV" THEN "HEALTHY" ELSE "FAILED"
    /\ overdue = FALSE
    /\ srcEnded = FALSE /\ ready = FALSE
    /\ breaker = "FAILED" /\ inferReady = FALSE /\ filling = FALSE
    /\ pc = [g \in Goroutines |-> "idle"]
    /\ seen = Unread
    /\ verdict = [g \in Goroutines |-> FALSE]
    /\ then = [g \in Goroutines |-> "idle"]
    /\ todo = [g \in Fillers |-> {}]
    /\ fills = 0

Goto(g, p) == pc' = [pc EXCEPT ![g] = p]

-----------------------------------------------------------------------------
\* refreshInfer(now), the same in every goroutine: look at the breaker, then
\* at the windows, then store.
RefreshThen(g, p) ==
    /\ Goto(g, "refresh")
    /\ then' = [then EXCEPT ![g] = p]

LookAtBreaker(g) ==
    /\ IF breaker = "HEALTHY" THEN Goto(g, "judge") ELSE Goto(g, "store")
    /\ UNCHANGED <<ready, feedVars, gateVars, envVars, seen, verdict,
                   then, todo>>

RefreshBreaker(g) == pc[g] = "refresh" /\ LookAtBreaker(g)

RefreshWindows(g) ==
    /\ pc[g] = "judge"
    /\ Goto(g, "store")
    /\ verdict' = [verdict EXCEPT ![g] = ready]
    /\ UNCHANGED <<ready, feedVars, gateVars, envVars, seen, then, todo>>

\* Mutant: only a goroutine that is not reading out the gate may close it.
Stored_OnlyOpens(g) == inferReady \/ verdict[g]
Stored(g) == verdict[g]

RefreshStore(g) ==
    /\ pc[g] = "store"
    /\ inferReady' = Stored(g)
    /\ verdict' = [verdict EXCEPT ![g] = FALSE]
    /\ Goto(g, then[g])
    /\ then' = [then EXCEPT ![g] = "idle"]
    /\ UNCHANGED <<ready, feedVars, breaker, filling, envVars, seen, todo>>

Refresh(g) == RefreshBreaker(g) \/ RefreshWindows(g) \/ RefreshStore(g)

CallsInProgress ==
    Cardinality({g \in {"trigger", "readiness"} : pc[g] # "idle"})

\* Readiness: recompute the gate, then report it.  A call may come at any time.
Readiness ==
    /\ pc["readiness"] = "idle" /\ CallsInProgress < MaxCalls
    /\ LookAtBreaker("readiness")

-----------------------------------------------------------------------------
\* The run loop.  accept(bar): Add, and if it takes the bar, MarkHealthy if the
\* breaker was recovering, refreshInfer, fan out.
Accept(otherwise) ==
    /\ \/ Goto("loop", "mark") /\ ready' \in BOOLEAN
       \/ Goto("loop", otherwise) /\ UNCHANGED ready
    /\ UNCHANGED <<feedVars, gateVars, envVars, seen, verdict, then, todo>>

LoopBar == pc["loop"] = "idle" /\ ~srcEnded /\ Accept("look")

\* State() and MarkHealthy(): between the two only a gap fill can touch the
\* breaker, and the outcome is the same.
AcceptMarks ==
    /\ pc["loop"] = "mark"
    /\ breaker' = IF breaker = "RECOVERING" THEN "HEALTHY" ELSE breaker
    /\ RefreshThen("loop", IF srcEnded THEN "drain" ELSE "look")
    /\ UNCHANGED <<ready, feedVars, inferReady, filling, envVars, seen,
                   verdict, todo>>

\* What CircuitBreaker.Observe makes of the feed's health, which is all it
\* goes by: heartbeats count unless the feed is recovering.
Assessed ==
    IF state = "RECOVERING" THEN "RECOVERING"
    ELSE IF overdue THEN "FAILED" ELSE state

\* Mutant: the run loop observes without asking the feed again.
Read_Stale(p) == UNCHANGED seen /\ Goto("loop", p)
\* p.live.Health() is read before the breaker's lock is taken.
Read(p) == seen' = Assessed /\ Goto("loop", p)

\* Mutant: a breaker that is recovering waits for a live bar.
Observe_KeepsRecovering ==
    breaker' = IF breaker = "RECOVERING" THEN breaker ELSE seen
Observe == breaker' = seen

LoopTick ==
    /\ pc["loop"] = "idle" /\ ~srcEnded
    /\ Read("observeTick")
    /\ UNCHANGED <<ready, feedVars, gateVars, envVars, verdict, then, todo>>

ReadHealth ==
    /\ \/ pc["loop"] = "look" /\ Read("observe")
       \/ pc["loop"] = "drain" /\ Read("observeEnd")
    /\ UNCHANGED <<ready, feedVars, gateVars, envVars, verdict, then, todo>>

ObserveAfterBar ==
    /\ pc["loop"] = "observe"
    /\ Observe
    /\ seen' = Unread
    /\ RefreshThen("loop", "idle")
    /\ UNCHANGED <<ready, feedVars, inferReady, filling, envVars, verdict,
                   todo>>

ObserveOnTick ==
    /\ pc["loop"] = "observeTick"
    /\ Observe
    /\ IF seen = "HEALTHY"
       THEN RefreshThen("loop", "idle") /\ seen' = Unread
       ELSE Goto("loop", "clear") /\ UNCHANGED <<seen, then>>
    /\ UNCHANGED <<ready, feedVars, inferReady, filling, envVars, verdict,
                   todo>>

\* The tick found the feed failed or recovering: gate closed, and a recovering
\* feed starts the recovery goroutine unless one is running.
TickClears ==
    /\ pc["loop"] = "clear"
    /\ inferReady' = FALSE
    /\ seen' = Unread
    /\ IF seen = "RECOVERING" /\ ~filling
       THEN /\ filling' = TRUE
            /\ pc' = [pc EXCEPT !["loop"] = "idle", !["recovery"] = "reconcile"]
            /\ todo' = [todo EXCEPT !["recovery"] = Symbols]
       ELSE Goto("loop", "idle") /\ UNCHANGED <<filling, todo>>
    /\ UNCHANGED <<ready, feedVars, breaker, envVars, verdict, then>>

\* live.Run has returned: what is still in the channel is accepted, then the
\* run loop closes the gate and ends.
LoopSourceEnded ==
    /\ pc["loop"] = "idle" /\ srcEnded
    /\ Goto("loop", "drain")
    /\ UNCHANGED <<ready, feedVars, gateVars, envVars, seen, verdict,
                   then, todo>>

DrainBar == pc["loop"] = "drain" /\ Accept("drain")

ObserveAtEnd ==
    /\ pc["loop"] = "observeEnd"
    /\ Observe
    /\ seen' = Unread
    /\ Goto("loop", "shut")
    /\ UNCHANGED <<ready, feedVars, inferReady, filling, envVars, verdict,
                   then, todo>>

LoopEnds ==
    /\ pc["loop"] = "shut"
    /\ inferReady' = FALSE
    /\ Goto("loop", "ended")
    /\ UNCHANGED <<ready, feedVars, breaker, filling, envVars, seen,
                   verdict, then, todo>>

\* What the run loop does once its select has picked a case.
LoopStep ==
    \/ AcceptMarks \/ ReadHealth \/ ObserveAfterBar
    \/ ObserveOnTick \/ TickClears \/ ObserveAtEnd \/ LoopEnds
    \/ Refresh("loop")

-----------------------------------------------------------------------------
\* GapFill, in the recovery goroutine (one symbol after the other) or in a
\* TriggerGapFill call.

\* A request for one symbol; without a REST adapter (CSV) it is refused.
TriggerGapFill ==
    /\ pc["trigger"] = "idle"
    /\ fills < MaxFills /\ CallsInProgress < MaxCalls
    /\ source = "ALPACA"
    /\ fills' = fills + 1
    /\ \E s \in Symbols : todo' = [todo EXCEPT !["trigger"] = {s}]
    /\ Goto("trigger", "reconcile")
    /\ UNCHANGED <<ready, feedVars, gateVars, source, srcEnded, seen,
                   verdict, then>>

FillMarks(g) ==
    /\ pc[g] = "reconcile" /\ todo[g] # {}
    /\ breaker' = "RECOVERING"
    /\ Goto(g, "clear")
    /\ UNCHANGED <<ready, feedVars, inferReady, filling, envVars, seen,
                   verdict, then, todo>>

FillClears(g) ==
    /\ pc[g] = "clear"
    /\ inferReady' = FALSE
    /\ Goto(g, "request")
    /\ UNCHANGED <<ready, feedVars, breaker, filling, envVars, seen,
                   verdict, then, todo>>

\* The REST request fails: the breaker stays RECOVERING, the gate closed.
FillFails(g) ==
    /\ pc[g] = "request"
    /\ \E s \in todo[g] : todo' = [todo EXCEPT ![g] = @ \ {s}]
    /\ Goto(g, "reconcile")
    /\ UNCHANGED <<ready, feedVars, gateVars, envVars, seen, verdict,
                   then>>

\* It returns; its bars of the symbol are added one by one, and each that is
\* taken is fanned out.
FillInjects(g) ==
    /\ pc[g] = "request"
    /\ ready' = ~ready
    /\ UNCHANGED <<feedVars, gateVars, envVars, runVars>>

\* MarkHealthy, whatever has happened to the feed since.
FillHeals(g) ==
    /\ pc[g] = "request"
    /\ \E s \in todo[g] : todo' = [todo EXCEPT ![g] = @ \ {s}]
    /\ breaker' = "HEALTHY"
    /\ RefreshThen(g, "reconcile")
    /\ UNCHANGED <<ready, feedVars, inferReady, filling, envVars, seen,
                   verdict>>

\* No symbol is left: the call returns, or the goroutine ends and another may
\* be started.
FillDone(g) ==
    /\ pc[g] = "reconcile" /\ todo[g] = {}
    /\ Goto(g, "idle")
    /\ filling' = (filling /\ g # "recovery")
    /\ UNCHANGED <<ready, feedVars, breaker, inferReady, envVars, seen,
                   verdict, then, todo>>

FillStep(g) ==
    \/ FillMarks(g) \/ FillClears(g) \/ FillFails(g) \/ FillHeals(g)
    \/ FillDone(g) \/ Refresh(g)

-----------------------------------------------------------------------------
\* The source.  A CSV file only ever fails or ends; Alpaca's Run goes on.
SourceStep ==
    /\ ~srcEnded
    /\ IF source = "CSV" THEN Lost ELSE FeedNext
    /\ UNCHANGED <<ready, runVars, gateVars, envVars>>

SourceEnds ==
    /\ source = "CSV" /\ ~srcEnded
    /\ srcEnded' = TRUE
    /\ UNCHANGED <<ready, feedVars, runVars, gateVars, source, fills>>

\* The last bar of a window goes stale (LiveFresh; CSV bars do not).
HeadGoesStale ==
    /\ source = "ALPACA" /\ ready
    /\ ready' = FALSE
    /\ UNCHANGED <<feedVars, runVars, gateVars, envVars>>

Next ==
    \/ LoopBar \/ LoopTick \/ LoopSourceEnded \/ DrainBar \/ LoopStep
    \/ Readiness \/ Refresh("readiness")
    \/ TriggerGapFill \/ \E g \in Fillers : FillStep(g) \/ FillInjects(g)
    \/ SourceStep \/ SourceEnds \/ HeadGoesStale

\* Every goroutine runs.  The run loop comes back to its select again and
\* again, whose random choice takes the ticker's case, ready every second,
\* infinitely often: strong fairness.  A REST request ends, at the latest by
\* the HTTP client's timeout.  Nobody has to send a bar, call Readiness or
\* TriggerGapFill, and the feed may do as it likes.
Fairness ==
    /\ SF_vars(LoopTick) /\ WF_vars(LoopSourceEnded)
    /\ WF_vars(LoopStep) /\ WF_vars(Refresh("readiness"))
    /\ \A g \in Fillers : WF_vars(FillStep(g))

Spec == Init /\ [][Next]_vars
FairSpec == Spec /\ Fairness

-----------------------------------------------------------------------------
\* What `inferReady` stands for, evaluated now.
Justified == breaker = "HEALTHY" /\ ready

\* The gate is stored after it was computed, by goroutines that overtake each
\* other, so it can be open without reason: while a gap fill is reconciling,
\* after a reconstructed bar has become the head of a window, when the last
\* bar has gone stale.  As long as the run loop lives that does not last.
StaleGateCloses ==
    (inferReady /\ ~Justified) ~> (~inferReady \/ Justified \/ srcEnded)

\* A feed that stays healthy gets a healthy breaker, also when the gap fill
\* that marked it RECOVERING has failed and returned.
BreakerFollowsFeed ==
    <>[](state = "HEALTHY" /\ ~overdue /\ ~srcEnded)
        => <>[](breaker = "HEALTHY")

\* And with windows that stay ready the gate opens and stays open.
GateOpens ==
    <>[](state = "HEALTHY" /\ ~overdue /\ ~srcEnded /\ ready) => <>[]inferReady
=============================================================================

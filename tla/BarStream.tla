------------------------------ MODULE BarStream ------------------------------
(***************************************************************************)
(* One StreamBars call (internal/server/server.go), the observe fan-out of *)
(* the P-02 pipeline (pipeline.go) that feeds it, and the shutdown of the  *)
(* server around it (main.go).                                             *)
(*                                                                         *)
(* Two goroutines offer bars: the run loop and a gap fill.  Each adds its  *)
(* bar to the window of module WindowStore and then, under Pipeline.mu,    *)
(* fans it out; the call receives in between.  A full channel loses its    *)
(* oldest bar.  The pipeline never closes the channel, so that a call ends *)
(* only when the client goes, a send fails, MaxBars is reached (all three  *)
(* are ClientLeaves) or the server is stopped.                             *)
(***************************************************************************)
EXTENDS WindowStore

CONSTANTS
    BarBuffer,      \* config.SubscriberQueue, or ConsumerQueue if finalOnly
    MaxOffers,      \* bound: bars the window takes
    NoOffer

ASSUME BarStreamAssumption == BarBuffer \in Nat \ {0} /\ MaxOffers \in Nat

Producers == {"loop", "fill"}

VARIABLES
    offers,     \* how many bars have been taken
    fan,        \* fan[g]: what producer g does next
    offer,      \* offer[g]: the bar it is about to fan out
    newest,     \* the last bar fanout has put into the channel
    inferClear, \* has fanout cleared Pipeline.inferReady?
    \* the call
    stage,      \* where it is: "begin", "subscribed", "catchup", "ended"
    asked,      \* the symbols of the request, all if it names none
    finalOnly,  \* FinalizedOnly
    channel,    \* the subscription's channel
    uncopied,   \* symbols whose window the catch-up has still to copy
    backlog,    \* bars of the window copied last that are still to be sent
    delivered,  \* bars the client has been sent
    displaced,  \* bars that had to give way in the channel
    grpcServer  \* the gRPC server: "serving", "stopping", "stopped"

fanVars == <<offers, fan, offer, newest, inferClear>>
streamCallVars ==
    <<stage, asked, finalOnly, channel, uncopied, backlog, delivered,
      displaced, grpcServer>>
barStreamVars == <<windowVars, fanVars, streamCallVars>>

Snapshots == Abstract!Snapshot

BarStreamTypeOK ==
    /\ WindowTypeOK
    /\ offers \in 0..MaxOffers
    /\ fan \in [Producers -> {"idle", "lock", "drop", "retry"}]
    /\ offer \in [Producers -> Snapshots \cup {NoOffer}]
    /\ newest \in Snapshots \cup {NoOffer}
    /\ inferClear \in BOOLEAN /\ finalOnly \in BOOLEAN
    /\ stage \in {"begin", "subscribed", "catchup", "ended"}
    /\ channel \in Seq(Snapshots) /\ Len(channel) <= BarBuffer
    /\ asked \subseteq Symbols /\ uncopied \subseteq asked
    /\ backlog \in Seq(Snapshots)
    /\ delivered \subseteq Snapshots /\ displaced \subseteq Snapshots
    /\ grpcServer \in {"serving", "stopping", "stopped"}

BarStreamInit ==
    /\ WindowInit
    /\ offers = 0
    /\ fan = [g \in Producers |-> "idle"]
    /\ offer = [g \in Producers |-> NoOffer]
    /\ newest = NoOffer /\ inferClear = FALSE
    /\ stage = "begin" /\ finalOnly \in BOOLEAN
    /\ asked \in (SUBSET Symbols) \ {{}} /\ uncopied = asked
    /\ channel = <<>> /\ backlog = <<>> /\ delivered = {} /\ displaced = {}
    /\ grpcServer = "serving"

-----------------------------------------------------------------------------
\* What a call with FinalizedOnly leaves out, in its subscription and in its
\* catch-up.
Wants(bar) == finalOnly => bar.isFinal

\* Every window has been sent; the select loop runs.
WindowsSent == stage = "catchup" /\ uncopied = {} /\ backlog = <<>>

\* Mutant: the call subscribes when it has caught up.
Attached_Late == WindowsSent
\* Is the call among Pipeline.subscribers?
Attached == stage \in {"subscribed", "catchup"}

\* Pipeline.mu is held from a fan-out's first look at the channel to its last.
Free == \A g \in Producers : fan[g] \in {"idle", "lock"}

\* Bounds: no more than MaxOffers bars, and none after the call.
OfferInScope == offers < MaxOffers /\ stage # "ended"

\* A bar that the window takes, from the feed or out of a REST reply.
Offer(g) ==
    /\ fan[g] = "idle" /\ OfferInScope
    /\ \E bar \in IF g = "loop" THEN LiveBars ELSE RestBars :
        Add(bar) /\ offer' = [offer EXCEPT ![g] = bar]
    /\ offers' = offers + 1
    /\ fan' = [fan EXCEPT ![g] = "lock"]
    /\ UNCHANGED <<newest, inferClear, streamCallVars>>

FannedOut(g) ==
    /\ fan' = [fan EXCEPT ![g] = "idle"]
    /\ offer' = [offer EXCEPT ![g] = NoOffer]

PutIn(g) == channel' = Append(channel, offer[g]) /\ newest' = offer[g]

\* Mutant: a full channel takes one more.
Room_OffByOne == Len(channel) <= BarBuffer
Room == Len(channel) < BarBuffer

\* fanout: nothing for the call, or the first select.
FanOut(g) ==
    /\ fan[g] = "lock" /\ Free
    /\ IF ~Attached \/ ~Wants(offer[g])
       THEN FannedOut(g) /\ UNCHANGED <<channel, newest>>
       ELSE IF Room THEN FannedOut(g) /\ PutIn(g)
       ELSE /\ fan' = [fan EXCEPT ![g] = "drop"]
            /\ UNCHANGED <<offer, channel, newest>>
    /\ UNCHANGED <<windowVars, offers, inferClear, stage, asked, finalOnly,
                   uncopied, backlog, delivered, displaced, grpcServer>>

\* Mutant: the bar on offer is given up instead.
DropOldest_Not(g) == UNCHANGED <<channel, displaced>>
\* It was full: the oldest bar goes, unless the call has emptied the channel
\* since.
DropOldest(g) ==
    IF channel = <<>> THEN UNCHANGED <<channel, displaced>>
    ELSE channel' = Tail(channel) /\ displaced' = displaced \cup {Head(channel)}

FanOutDrops(g) ==
    /\ fan[g] = "drop"
    /\ DropOldest(g)
    /\ fan' = [fan EXCEPT ![g] = "retry"]
    /\ UNCHANGED <<windowVars, offers, offer, newest, inferClear, stage, asked,
                   finalOnly, uncopied, backlog, delivered, grpcServer>>

\* The last select.  If the channel were full again, the bar would be lost and
\* a call for finalized bars would close the gate.
FanOutRetries(g) ==
    /\ fan[g] = "retry"
    /\ FannedOut(g)
    /\ IF Room THEN PutIn(g) /\ UNCHANGED inferClear
       ELSE /\ inferClear' = (inferClear \/ finalOnly)
            /\ UNCHANGED <<channel, newest>>
    /\ UNCHANGED <<windowVars, offers, stage, asked, finalOnly, uncopied,
                   backlog, delivered, displaced, grpcServer>>

-----------------------------------------------------------------------------
\* The call.  subscribe and Unsubscribe take Pipeline.mu.
SubscribeBars ==
    /\ stage = "begin" /\ Free
    /\ stage' = "subscribed"
    /\ UNCHANGED <<windowVars, fanVars, asked, finalOnly, channel, uncopied,
                   backlog, delivered, displaced, grpcServer>>

\* The window of the next symbol is copied when the last one's has been gone
\* through.  They come in the order of the request; here in any.
CopyWindow ==
    /\ stage \in {"subscribed", "catchup"} /\ backlog = <<>>
    /\ \E s \in uncopied :
        /\ backlog' = bars[s]
        /\ uncopied' = uncopied \ {s}
    /\ stage' = "catchup"
    /\ UNCHANGED <<windowVars, fanVars, asked, finalOnly, channel, delivered,
                   displaced, grpcServer>>

SendAhead ==
    /\ stage = "catchup" /\ backlog # <<>>
    /\ delivered' = IF Wants(Head(backlog)) THEN delivered \cup {Head(backlog)}
                    ELSE delivered
    /\ backlog' = Tail(backlog)
    /\ UNCHANGED <<windowVars, fanVars, stage, asked, finalOnly, channel,
                   uncopied, displaced, grpcServer>>

\* From the channel, which has the bars of all symbols.  Nothing the client
\* asked for is left out, be it sent already.
SendBar ==
    /\ WindowsSent /\ channel # <<>>
    /\ delivered' = IF Head(channel).symbol \in asked
                    THEN delivered \cup {Head(channel)} ELSE delivered
    /\ channel' = Tail(channel)
    /\ UNCHANGED <<windowVars, fanVars, stage, asked, finalOnly, uncopied,
                   backlog, displaced, grpcServer>>

\* The call returns, and Unsubscribe closes the channel.
EndStream ==
    /\ Free
    /\ stage' = "ended"
    /\ channel' = <<>> /\ backlog' = <<>>
    /\ UNCHANGED <<windowVars, fanVars, asked, finalOnly, uncopied, delivered,
                   displaced, grpcServer>>

ClientLeaves == stage = "catchup" /\ EndStream

\* Stop has cancelled the context of the call.
CallStopped == stage = "catchup" /\ grpcServer = "stopped" /\ EndStream

-----------------------------------------------------------------------------
\* main: after a signal, GracefulStop waits for the calls; five seconds later
\* Stop ends them.  A new call is refused from then on.
GrpcServer(from, to) ==
    /\ grpcServer = from /\ grpcServer' = to
    /\ UNCHANGED <<windowVars, fanVars, asked, finalOnly, channel, uncopied,
                   backlog, delivered, displaced>>

SignalReceived ==
    /\ GrpcServer("serving", "stopping")
    /\ stage' = IF stage = "begin" THEN "ended" ELSE stage

GracefulStop ==
    stage = "ended" /\ GrpcServer("stopping", "stopped") /\ UNCHANGED stage

\* Mutant: main waits for as long as the calls take.
ForceStop_Never == FALSE
ForceStop == GrpcServer("stopping", "stopped") /\ UNCHANGED stage

-----------------------------------------------------------------------------
FanOutStep(g) == FanOut(g) \/ FanOutDrops(g) \/ FanOutRetries(g)
StreamCallStep == SubscribeBars \/ CopyWindow \/ SendAhead \/ SendBar

BarStreamNext ==
    \/ \E g \in Producers : Offer(g) \/ FanOutStep(g)
    \/ StreamCallStep \/ ClientLeaves \/ CallStopped
    \/ SignalReceived \/ GracefulStop \/ ForceStop

\* The goroutines run, a send to the client ends, the timer fires, and a call
\* whose context is over sees it: SF, because the lock it needs to unsubscribe
\* is taken again and again.
BarStreamFairness ==
    /\ \A g \in Producers : WF_barStreamVars(FanOutStep(g))
    /\ WF_barStreamVars(StreamCallStep) /\ SF_barStreamVars(CallStopped)
    /\ WF_barStreamVars(ForceStop)

BarStreamSpec == BarStreamInit /\ [][BarStreamNext]_barStreamVars
BarStreamFairSpec == BarStreamSpec /\ BarStreamFairness

-----------------------------------------------------------------------------
\* Catch-up and fan-out leave no hole between them: a client that has been
\* sent all there is has what the window holds of every minute, whichever of
\* the two it came by, or had it displaced by newer bars while it was slow.
WindowReachesClient ==
    (WindowsSent /\ channel = <<>> /\ \A g \in Producers : fan[g] = "idle") =>
        \A s \in asked : \A i \in DOMAIN bars[s] :
            Wants(bars[s][i]) => bars[s][i] \in delivered \cup displaced

\* A slow client loses old bars, never the last one: what fanout has offered
\* it last is in the channel or was sent, and the branch that gives it up is
\* never taken, although the call receives between fanout's three selects.
\* (So an overflow never closes the gate either, for a finalized-only call.)
NewestKept ==
    /\ ~inferClear
    /\ \A g \in Producers : fan[g] = "retry" => Room
    /\ (stage \in {"subscribed", "catchup"} /\ newest # NoOffer) =>
            \/ newest \in delivered \cup ToSet(channel)
            \/ newest.symbol \notin asked
            \/ \E g \in Producers : fan[g] = "retry"

\* Nothing in the pipeline ends the call, but the shutdown does not wait for
\* it longer than its limit.
ShutdownEndsCall == (grpcServer = "stopping") ~> (stage = "ended")
=============================================================================

----------------------------- MODULE EventStream -----------------------------
(***************************************************************************)
(* One StreamDecisions call (internal/server/decision.go) and the part of  *)
(* the model host that feeds it: the subscriptions, the last event of each *)
(* symbol, and the emit that serves both under Host.mu.  price.go and      *)
(* volume.go are the same code for their own events, and the host keeps a  *)
(* set of subscriptions for each.                                          *)
(*                                                                         *)
(* The call subscribes first and then takes the last events, to send them  *)
(* ahead of the live ones; what it has sent ahead it leaves out, once, by  *)
(* EventID.  The ids of the adaptive engine start over when ResetSymbol    *)
(* makes a new engine; the host's own (skips it decides itself, price and  *)
(* volume events) never do.  A send that fails ends the call, and so does  *)
(* the client.                                                             *)
(***************************************************************************)
EXTENDS Naturals, Sequences, SequencesExt

CONSTANTS
    EventSymbols,   \* the symbols the host works for
    EventBuffer,    \* config.SubscriberQueue
    MaxEmitted,     \* bound: events the host publishes
    MaxEngines,     \* bound: engines a symbol goes through
    Limits          \* the MaxEvents of requests; 0 is no limit

ASSUME EventAssumption ==
    /\ EventBuffer \in Nat \ {0} /\ MaxEmitted \in Nat
    /\ MaxEngines \in Nat \ {0} /\ Limits \subseteq Nat

VARIABLES
    \* the host
    emitted,    \* all events published so far; an event is its place here
    engines,    \* engines[s]: how many engines s has had
    eventSeq,   \* eventSeq[s]: that of the present one
    lastBySym,  \* Host.lastBySym, 0 for none
    hostClosed, \* Host.closed
    \* the call
    call,       \* where it is: "begin", "subscribed", "catchup", "ended"
    wanted,     \* the symbols of the request, all if it names none
    limit,      \* its MaxEvents
    queue,      \* the subscription's channel
    ahead,      \* events of the catch-up that are still to be sent
    skipIds,    \* seen: ids sent ahead and not met again
    sent,       \* events sent to the client, in order
    overflown   \* events emit found no room for in the channel

hostVars == <<emitted, engines, eventSeq, lastBySym, hostClosed>>
callVars == <<call, wanted, limit, queue, ahead, skipIds, sent, overflown>>
eventVars == <<hostVars, callVars>>

Places == 1..MaxEmitted

\* The engine numbers its events (the Nth of any engine of s has one id); the
\* host numbers all it makes, for which the place among all events stands.
EventId == [kind : {"evt", "host"}, of : EventSymbols, n : Places]
Event == [symbol : EventSymbols, id : EventId]

IdOf(place) == emitted[place].id
SymbolOf(place) == emitted[place].symbol

EventTypeOK ==
    /\ emitted \in Seq(Event) /\ Len(emitted) <= MaxEmitted
    /\ engines \in [EventSymbols -> 1..MaxEngines]
    /\ eventSeq \in [EventSymbols -> 0..MaxEmitted]
    /\ lastBySym \in [EventSymbols -> 0..Len(emitted)]
    /\ hostClosed \in BOOLEAN
    /\ call \in {"begin", "subscribed", "catchup", "ended"}
    /\ wanted \subseteq EventSymbols /\ limit \in Limits
    /\ queue \in Seq(1..Len(emitted)) /\ Len(queue) <= EventBuffer
    /\ ahead \subseteq 1..Len(emitted) /\ overflown \subseteq 1..Len(emitted)
    /\ skipIds \subseteq {IdOf(p) : p \in 1..Len(emitted)}
    /\ sent \in Seq(1..Len(emitted)) /\ (limit > 0 => Len(sent) <= limit)

EventInit ==
    /\ emitted = <<>>
    /\ engines = [s \in EventSymbols |-> 1]
    /\ eventSeq = [s \in EventSymbols |-> 0]
    /\ lastBySym = [s \in EventSymbols |-> 0]
    /\ hostClosed = FALSE
    /\ call = "begin" /\ wanted \in (SUBSET EventSymbols) \ {{}}
    /\ limit \in Limits
    /\ queue = <<>> /\ ahead = {} /\ skipIds = {} /\ sent = <<>>
    /\ overflown = {}

-----------------------------------------------------------------------------
\* The last events have been sent; the select loop runs.
CaughtUp == call = "catchup" /\ ahead = {}

\* Mutant: the call subscribes when it has caught up.
Listening_Late == CaughtUp
\* The host.  A subscription is in Host.subs until the call has ended.
Listening == call \in {"subscribed", "catchup"}

\* Bounds: no more than MaxEmitted events, and none after the call.
InScope == Len(emitted) < MaxEmitted /\ call # "ended"

\* emit: the event becomes the symbol's last, and goes to the channel if there
\* is room.  Once the host is closed neither happens.
Publish(s, id) ==
    LET place == Len(emitted) + 1 IN
    /\ ~hostClosed /\ InScope
    /\ emitted' = Append(emitted, [symbol |-> s, id |-> id])
    /\ lastBySym' = [lastBySym EXCEPT ![s] = place]
    /\ IF Listening /\ Len(queue) < EventBuffer
       THEN queue' = Append(queue, place) /\ UNCHANGED overflown
       ELSE /\ UNCHANGED queue
            /\ overflown' = IF Listening THEN overflown \cup {place}
                            ELSE overflown
    /\ UNCHANGED <<engines, hostClosed, call, wanted, limit, ahead, skipIds,
                   sent>>

\* The worker publishes what the adaptive engine returned.
EmitEngineEvent(s) ==
    /\ eventSeq' = [eventSeq EXCEPT ![s] = @ + 1]
    /\ Publish(s, [kind |-> "evt", of |-> s, n |-> eventSeq[s] + 1])

\* Dispatcher or worker publishes a skip of the host's own (gateSkip).
EmitHostEvent(s) ==
    /\ Publish(s, [kind |-> "host", of |-> s, n |-> Len(emitted) + 1])
    /\ UNCHANGED eventSeq

\* ResetSymbol: a new engine.
ResetEngine(s) ==
    /\ engines[s] < MaxEngines /\ InScope
    /\ engines' = [engines EXCEPT ![s] = @ + 1]
    /\ eventSeq' = [eventSeq EXCEPT ![s] = 0]
    /\ UNCHANGED <<emitted, lastBySym, hostClosed, callVars>>

\* Run returns: no more events, and every channel is closed.
CloseHost ==
    /\ ~hostClosed
    /\ hostClosed' = TRUE
    /\ UNCHANGED <<emitted, engines, eventSeq, lastBySym, callVars>>

-----------------------------------------------------------------------------
\* The call.
SubscribeEvents ==
    /\ call = "begin"
    /\ call' = "subscribed"
    /\ UNCHANGED <<hostVars, wanted, limit, queue, ahead, skipIds, sent,
                   overflown>>

\* LastEvents; the loop passes over the symbols that are not wanted.
LastEvents ==
    /\ call = "subscribed"
    /\ call' = "catchup"
    /\ ahead' = {lastBySym[s] : s \in wanted} \ {0}
    /\ UNCHANGED <<hostVars, wanted, limit, queue, skipIds, sent, overflown>>

LimitReached(n) == limit > 0 /\ n >= limit

\* The call returns; its deferred UnsubscribeEvents drops the channel.
EndCall ==
    /\ call' = "ended"
    /\ UNCHANGED <<hostVars, wanted, limit, queue, ahead, skipIds, sent,
                   overflown>>

\* stream.Send and what follows it; a failure returns at once.
Send(place) ==
    /\ sent' = Append(sent, place)
    /\ call' = IF LimitReached(Len(sent')) THEN "ended" ELSE call

NoteSent(place) == skipIds' = skipIds \cup {IdOf(place)}

\* One event of the catch-up, in the random order of a Go map.
CatchUp(place) ==
    /\ call = "catchup" /\ place \in ahead
    /\ Send(place)
    /\ ahead' = ahead \ {place}
    /\ NoteSent(place)
    /\ UNCHANGED <<hostVars, wanted, limit, queue, overflown>>

\* An event from the channel.  The ids sent ahead are looked up before the
\* symbol, and forgotten when they are met.
Receive ==
    /\ CaughtUp /\ queue # <<>>
    /\ LET place == Head(queue) IN
        IF IdOf(place) \in skipIds
        THEN skipIds' = skipIds \ {IdOf(place)} /\ UNCHANGED <<call, sent>>
        ELSE /\ UNCHANGED skipIds
             /\ IF SymbolOf(place) \in wanted THEN Send(place)
                ELSE UNCHANGED <<call, sent>>
    /\ queue' = Tail(queue)
    /\ UNCHANGED <<hostVars, wanted, limit, ahead, overflown>>

\* The closed channel is empty.
HostGone ==
    /\ CaughtUp /\ queue = <<>> /\ hostClosed
    /\ EndCall

\* A send fails, or the client has gone and the select sees it.
ClientGone ==
    /\ call = "catchup"
    /\ EndCall

CallStep ==
    \/ SubscribeEvents \/ LastEvents \/ Receive \/ HostGone
    \/ \E place \in ahead : CatchUp(place)

EventNext ==
    \/ \E s \in EventSymbols :
        EmitEngineEvent(s) \/ EmitHostEvent(s) \/ ResetEngine(s)
    \/ CloseHost \/ ClientGone \/ CallStep

\* The call's goroutine runs, and a send to the client ends.
EventFairness == WF_eventVars(CallStep)
EventSpec == EventInit /\ [][EventNext]_eventVars
EventFairSpec == EventSpec /\ EventFairness

-----------------------------------------------------------------------------
\* Has another event the same id?  (That takes a reset.)
Reused(place) ==
    \E other \in DOMAIN emitted : other # place /\ IdOf(other) = IdOf(place)

\* Between them, catch-up and channel lose nothing and repeat nothing.  When a
\* client has been sent all there is, it has the last event of every symbol it
\* wants, however the emits fell around SubscribeEvents and LastEvents; unless
\* emit logged that there was no room for it, or its id has been used before.
\* And an event that is both in the catch-up and in the channel is sent once.
CatchUpExact ==
    /\ (CaughtUp /\ queue = <<>>) =>
         \A s \in wanted : lastBySym[s] # 0 =>
             \/ lastBySym[s] \in ToSet(sent) \cup overflown
             \/ Reused(lastBySym[s])
    /\ \A i, j \in DOMAIN sent :
         (i # j /\ sent[i] = sent[j]) => Reused(sent[i])

\* When the host shuts down, the call comes to its end by itself.
CallEndsWithHost == hostClosed ~> call \in {"begin", "ended"}
=============================================================================

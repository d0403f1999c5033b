--------------------------- MODULE StageTransition ---------------------------
(***************************************************************************)
(* The stage-transition Hub (internal/stagetransition): a Detector that    *)
(* numbers the changes of each stage's categorical state, and a Publisher  *)
(* that fans them out to bounded channels without waiting for anyone.      *)
(*                                                                         *)
(* The detector's lock covers one `consider`; the publisher's lock covers  *)
(* the copy of the subscriber list.  The event is handed from one to the   *)
(* other, and then sent, with no lock held, so each of those is a step of  *)
(* the calling goroutine.  A send on a closed channel ends the process.    *)
(***************************************************************************)
EXTENDS Integers, FiniteSets, Sequences

CONSTANTS
    Callers,    \* goroutines that call the Hub: pipeline, dispatcher, workers
    Stages,     \* the stages in use, of P01_MARKET_FEED .. P04_PRICE_ENGINE
    Symbols,    \* entities of the symbol stages
    Global,     \* EntityGlobal, the entity of the other stages
    States,     \* StageStates, up to StageState.Equal
    Absent,     \* no StageState
    NoEvent,    \* nothing in hand
    Subs,       \* subscriber channels, each used once
    Buffer,     \* capacity of each channel
    MaxEvents   \* bound: how many transitions are detected

SymbolStages == {"P03_ADAPTIVE", "P04_PRICE_ENGINE"}

ASSUME HubAssumption ==
    /\ Stages \subseteq SymbolStages \cup {"P01_MARKET_FEED", "P02_INGESTION"}
    /\ Global \notin Symbols
    /\ Absent \notin States
    /\ Buffer \in Nat \ {0}
    /\ MaxEvents \in Nat

\* stateKey: the symbol stages are kept by symbol, the others globally.
Keys == {k \in Stages \X (Symbols \cup {Global}) :
           k[1] \in SymbolStages <=> k[2] # Global}

Event == [key : Keys, seq : Nat \ {0}, prev : States \cup {Absent},
          cur : States]

VARIABLES
    last,       \* last[k]: the state last published for k, or Absent
    seq,        \* seq[k]: the last TransitionSequence given out for k
    hand,       \* hand[g]: the event caller g is publishing, or NoEvent
    copied,     \* copied[g]: has g copied the subscriber list yet?
    targets,    \* targets[g]: the subscribers g has still to send it to
    hubClosed,  \* has Publisher.Close been called?
    subs,       \* subs[c]: the subscription's state; "removed" is off the
                \*   map with its channel still to be closed
    queue,      \* queue[c]: the events buffered in c's channel
    published, delivered, dropped,
    panicked,   \* a goroutine sent on a closed channel: the process is dead
    \* History, read by no step of the code:
    issued,     \* every event the detector has produced
    due,        \* due[c]: events published while c was registered
    got         \* got[c]: events sent into c's channel

detectorVars == <<last, seq, issued>>
callVars == <<hand, copied, targets>>
busVars == <<hubClosed, subs>>
countVars == <<published, delivered, dropped>>
sentVars == <<queue, got>>
hubVars == <<detectorVars, callVars, busVars, countVars, sentVars, panicked,
             due>>

HubTypeOK ==
    /\ last \in [Keys -> States \cup {Absent}]
    /\ seq \in [Keys -> Nat]
    /\ hand \in [Callers -> Event \cup {NoEvent}]
    /\ copied \in [Callers -> BOOLEAN]
    /\ targets \in [Callers -> SUBSET Subs]
    /\ hubClosed \in BOOLEAN
    /\ subs \in [Subs -> {"none", "open", "removed", "closed"}]
    /\ queue \in [Subs -> Seq(Event)]
    /\ \A c \in Subs : Len(queue[c]) <= Buffer
    /\ published \in Nat /\ delivered \in Nat /\ dropped \in Nat
    /\ panicked \in BOOLEAN
    /\ issued \in SUBSET Event
    /\ due \in [Subs -> SUBSET Event]
    /\ got \in [Subs -> SUBSET Event]

HubInit ==
    /\ last = [k \in Keys |-> Absent]
    /\ seq = [k \in Keys |-> 0]
    /\ hand = [g \in Callers |-> NoEvent]
    /\ copied = [g \in Callers |-> FALSE]
    /\ targets = [g \in Callers |-> {}]
    /\ hubClosed = FALSE
    /\ subs = [c \in Subs |-> "none"]
    /\ queue = [c \in Subs |-> <<>>]
    /\ published = 0 /\ delivered = 0 /\ dropped = 0
    /\ panicked = FALSE
    /\ issued = {}
    /\ due = [c \in Subs |-> {}]
    /\ got = [c \in Subs |-> {}]

Registered == {c \in Subs : subs[c] = "open"}

-----------------------------------------------------------------------------
\* A call of OnFeed, OnIngestion, OnDecision or OnPrice: consider, then Publish.

\* consider, the state unchanged: nothing to publish.
Unchanged(k, st) == last[k] = st

\* The number the next event of k will carry.
NextSequence(k) == seq[k] + 1

\* consider, the state changed: number it and remember it, under d.mu.
Consider(g, k, st) ==
    /\ ~panicked
    /\ hand[g] = NoEvent
    /\ Cardinality(issued) < MaxEvents
    /\ ~Unchanged(k, st)
    /\ LET ev == [key |-> k, seq |-> NextSequence(k), prev |-> last[k],
                  cur |-> st]
       IN /\ hand' = [hand EXCEPT ![g] = ev]
          /\ issued' = issued \cup {ev}
          /\ seq' = [seq EXCEPT ![k] = ev.seq]
    /\ last' = [last EXCEPT ![k] = st]
    /\ UNCHANGED <<copied, targets, busVars, countVars, sentVars, panicked,
                   due>>

\* The call returns: the event has been offered to every subscriber.
Return(g) == hand' = [hand EXCEPT ![g] = NoEvent]

\* Publish on a closed Publisher.
PublishIgnored(g) ==
    /\ ~panicked
    /\ hand[g] # NoEvent /\ ~copied[g]
    /\ hubClosed
    /\ Return(g)
    /\ UNCHANGED <<detectorVars, copied, targets, busVars, countVars, sentVars,
                   panicked, due>>

\* Publish up to p.mu.Unlock: count the event, copy the subscriber list.
CopySubscribers(g) ==
    /\ ~panicked
    /\ hand[g] # NoEvent /\ ~copied[g]
    /\ ~hubClosed
    /\ published' = published + 1
    /\ targets' = [targets EXCEPT ![g] = Registered]
    /\ copied' = [copied EXCEPT ![g] = TRUE]
    /\ due' = [c \in Subs |->
                 IF c \in Registered THEN due[c] \cup {hand[g]} ELSE due[c]]
    /\ UNCHANGED <<detectorVars, hand, busVars, delivered, dropped, sentVars,
                   panicked>>

\* Mutant: the channel takes one event more than it was made for.
Roomy_OffByOne(c) == Len(queue[c]) <= Buffer
Roomy(c) == Len(queue[c]) < Buffer

Sending(g, c) == ~panicked /\ copied[g] /\ c \in targets[g]
Offered(g, c) == targets' = [targets EXCEPT ![g] = @ \ {c}]

SendDelivers(g, c) ==
    /\ Sending(g, c)
    /\ subs[c] # "closed" /\ Roomy(c)
    /\ queue' = [queue EXCEPT ![c] = Append(@, hand[g])]
    /\ got' = [got EXCEPT ![c] = @ \cup {hand[g]}]
    /\ delivered' = delivered + 1
    /\ Offered(g, c)
    /\ UNCHANGED <<detectorVars, hand, copied, busVars, published, dropped,
                   panicked, due>>

\* Mutant: a full subscriber is skipped without being counted.
SendDrops_Uncounted(g, c) ==
    /\ Sending(g, c)
    /\ subs[c] # "closed" /\ ~Roomy(c)
    /\ Offered(g, c)
    /\ UNCHANGED <<detectorVars, hand, copied, busVars, countVars, sentVars,
                   panicked, due>>

SendDrops(g, c) ==
    /\ Sending(g, c)
    /\ subs[c] # "closed" /\ ~Roomy(c)
    /\ dropped' = dropped + 1
    /\ Offered(g, c)
    /\ UNCHANGED <<detectorVars, hand, copied, busVars, published, delivered,
                   sentVars, panicked, due>>

\* A select with a send on a closed channel panics, default case or not.
SendPanics(g, c) ==
    /\ Sending(g, c)
    /\ subs[c] = "closed"
    /\ panicked' = TRUE
    /\ UNCHANGED <<detectorVars, callVars, busVars, countVars, sentVars, due>>

PublishReturns(g) ==
    /\ ~panicked
    /\ copied[g] /\ targets[g] = {}
    /\ copied' = [copied EXCEPT ![g] = FALSE]
    /\ Return(g)
    /\ UNCHANGED <<detectorVars, targets, busVars, countVars, sentVars,
                   panicked, due>>

\* Everything g does once it has an event in hand.
PublishStep(g) ==
    \/ PublishIgnored(g) \/ CopySubscribers(g) \/ PublishReturns(g)
    \/ \E c \in Subs : SendDelivers(g, c) \/ SendDrops(g, c) \/ SendPanics(g, c)

-----------------------------------------------------------------------------
\* Detector.ResetEntity: the symbol's states are forgotten, its numbering is
\* not.

\* Mutant: the numbering starts over with the state.
KeepNumbers_StartsOver(s) ==
    seq' = [k \in Keys |-> IF k[2] = s THEN 0 ELSE seq[k]]
KeepNumbers(s) == UNCHANGED seq

ResetEntity(s) ==
    /\ ~panicked
    /\ last' = [k \in Keys |->
                  IF k[1] \in SymbolStages /\ k[2] = s THEN Absent ELSE last[k]]
    /\ KeepNumbers(s)
    /\ UNCHANGED <<issued, callVars, busVars, countVars, sentVars, panicked,
                   due>>

\* Subscribe; on a closed Publisher the channel comes back closed.
Subscribe(c) ==
    /\ ~panicked
    /\ subs[c] = "none"
    /\ subs' = [subs EXCEPT ![c] = IF hubClosed THEN "closed" ELSE "open"]
    /\ UNCHANGED <<detectorVars, callVars, hubClosed, countVars, sentVars,
                   panicked, due>>

\* Unsubscribe under p.mu; whoever takes the subscription off the map is the
\* one that closes its channel.
Remove(c) ==
    /\ ~panicked
    /\ subs[c] = "open"
    /\ subs' = [subs EXCEPT ![c] = "removed"]
    /\ UNCHANGED <<detectorVars, callVars, hubClosed, countVars, sentVars,
                   panicked, due>>

CloseChannel(c) ==
    /\ ~panicked
    /\ subs[c] = "removed"
    /\ subs' = [subs EXCEPT ![c] = "closed"]
    /\ UNCHANGED <<detectorVars, callVars, hubClosed, countVars, sentVars,
                   panicked, due>>

\* Publisher.Close under p.mu.
CloseHub ==
    /\ ~panicked
    /\ ~hubClosed
    /\ hubClosed' = TRUE
    /\ subs' = [c \in Subs |-> IF subs[c] = "open" THEN "removed" ELSE subs[c]]
    /\ UNCHANGED <<detectorVars, callVars, countVars, sentVars, panicked, due>>

\* A subscriber takes the oldest buffered event, also from a closed channel.
Receive(c) ==
    /\ ~panicked
    /\ queue[c] # <<>>
    /\ queue' = [queue EXCEPT ![c] = Tail(@)]
    /\ UNCHANGED <<detectorVars, callVars, busVars, countVars, got, panicked,
                   due>>

-----------------------------------------------------------------------------
\* A goroutine calls the Hub, or goes on with the call it is in.
Call(g) ==
    \/ \E k \in Keys, st \in States : Consider(g, k, st)
    \/ PublishStep(g)

HubNext ==
    \/ \E g \in Callers : Call(g)
    \/ \E s \in Symbols : ResetEntity(s)
    \/ \E c \in Subs :
         Subscribe(c) \/ Remove(c) \/ CloseChannel(c) \/ Receive(c)
    \/ CloseHub

HubSpec == HubInit /\ [][HubNext]_hubVars

-----------------------------------------------------------------------------
InTransit(c) == {hand[g] : g \in {h \in Callers : c \in targets[h]}}
Missed(c) == (due[c] \ got[c]) \ InTransit(c)

\* Which subscriber was sent, or has been denied, which event.
Deliveries == {offer \in Subs \X issued : offer[2] \in got[offer[1]]}
Losses == {offer \in Subs \X issued : offer[2] \in Missed(offer[1])}

\* Stats: whatever the interleaving, every event published to a subscriber is
\* counted once, as delivered or as dropped, by the time it has been offered
\* (TestFullSubscriberDoesNotBlockAndIsAccounted).
EveryOfferCounted ==
    /\ delivered = Cardinality(Deliveries)
    /\ dropped = Cardinality(Losses)

Latest(E) == CHOOSE ev \in E : \A other \in E : other.seq <= ev.seq

\* A subscriber that was sent every event of a key ends up, by the highest
\* sequence and in whatever order they arrived, with the state the detector
\* holds (model.go, TestReconstructionMatchesDetector).
Reconstructs ==
    \A c \in Subs, k \in Keys :
        LET all == {ev \in issued : ev.key = k} IN
        (all # {} /\ all \subseteq got[c] /\ last[k] # Absent)
            => Latest(all).cur = last[k]

\* A TransitionID names one event: a key's numbers only go up, for whichever
\* goroutine detects the change and across resets of the symbol.
NumbersNeverReused ==
    [][\A g \in Callers :
         (hand'[g] # hand[g] /\ hand'[g] # NoEvent) =>
            \A old \in issued :
                old.key = hand'[g].key => old.seq < hand'[g].seq]_hubVars

\* What the package claims, "Hub methods are concurrent-safe", of the calls
\* Publish, Unsubscribe and Close: no interleaving of them panics.
ConcurrentSafe == ~panicked
=============================================================================

------------------------------ MODULE ModelPath ------------------------------
(***************************************************************************)
(* The P-02 model path (internal/ingestion/model_path.go): finalized bars  *)
(* are fanned out to the model's bounded channels without ever blocking    *)
(* the run loop and without dropping a bar silently.  A full channel       *)
(* latches the symbol (QUEUE_OVERFLOW); later bars of a latched symbol are *)
(* withheld until ResetModelPath.                                          *)
(*                                                                         *)
(* Every method holds Pipeline.mu for its whole body, so each one is one   *)
(* action.  The consumer's receive is the only step taken without it.      *)
(***************************************************************************)
EXTENDS Bars, FiniteSets, Sequences

CONSTANTS
    Subs,       \* channels SubscribeModelBars may create, each used once
    Buffer      \* capacity of each channel (modelSubscribeBuffer)

ASSUME PathAssumption == Buffer \in Nat \ {0} /\ IsFiniteSet(Subs)

VARIABLES
    modelSubs,  \* modelSubs[c]: has channel c been created, or closed?
    queue,      \* queue[c]: the bars buffered in channel c
    modelLast,  \* modelLast[s]: interval of the last bar sent on, or NoTime
    modelDisc,  \* modelDisc[s]: is symbol s latched (QUEUE_OVERFLOW)?
    \* History, read by no step of the code:
    frontier,   \* frontier[s]: latest interval ever offered for s
    owed,       \* owed[c][s]: new intervals offered to c since c joined and
                \* s was last reset
    got         \* got[c][s]: intervals sent into c over the same period

pathVars == <<modelSubs, queue, modelLast, modelDisc, frontier, owed, got>>

PathTypeOK ==
    /\ modelSubs \in [Subs -> {"none", "open", "closed"}]
    /\ queue \in [Subs -> Seq(Bar)]
    /\ \A c \in Subs : Len(queue[c]) <= Buffer
    /\ modelLast \in [Symbols -> Times \cup {NoTime}]
    /\ modelDisc \in [Symbols -> BOOLEAN]
    /\ frontier \in [Symbols -> Times \cup {NoTime}]
    /\ owed \in [Subs -> [Symbols -> SUBSET Times]]
    /\ got \in [Subs -> [Symbols -> SUBSET Times]]

PathInit ==
    /\ modelSubs = [c \in Subs |-> "none"]
    /\ queue = [c \in Subs |-> <<>>]
    /\ modelLast = [s \in Symbols |-> NoTime]
    /\ modelDisc = [s \in Symbols |-> FALSE]
    /\ frontier = [s \in Symbols |-> NoTime]
    /\ owed = [c \in Subs |-> [s \in Symbols |-> {}]]
    /\ got = [c \in Subs |-> [s \in Symbols |-> {}]]

Open == {c \in Subs : modelSubs[c] = "open"}
\* Mutant: the capacity test is off by one.
Full_OffByOne(c) == Len(queue[c]) > Buffer
Full(c) == Len(queue[c]) >= Buffer

\* SubscribeModelBars: a new channel joins with whatever comes next.
SubscribeModelBars(c) ==
    /\ modelSubs[c] = "none"
    /\ modelSubs' = [modelSubs EXCEPT ![c] = "open"]
    /\ UNCHANGED <<queue, modelLast, modelDisc, frontier, owed, got>>

\* Unsubscribe: the channel is removed from the map, then closed; a receiver
\* still drains what is buffered in it.
Unsubscribe(c) ==
    /\ modelSubs[c] = "open"
    /\ modelSubs' = [modelSubs EXCEPT ![c] = "closed"]
    /\ UNCHANGED <<queue, modelLast, modelDisc, frontier, owed, got>>

-----------------------------------------------------------------------------
\* fanoutModel, one disjunct for each way it ends.

\* A bar later than all before it on the grid: one the model must not miss.
Fresh(bar) == MinuteAligned(bar.start) /\ bar.start > frontier[bar.symbol]

RecordOffer(bar) ==
    IF Fresh(bar)
    THEN /\ frontier' = [frontier EXCEPT ![bar.symbol] = bar.start]
         /\ owed' = [c \in Subs |->
                       IF c \in Open
                       THEN [owed[c] EXCEPT ![bar.symbol] = @ \cup {bar.start}]
                       ELSE owed[c]]
    ELSE UNCHANGED <<frontier, owed>>

\* Append bar to exactly the channels of D.
SendTo(D, bar) ==
    /\ queue' = [c \in Subs |->
                   IF c \in D THEN Append(queue[c], bar) ELSE queue[c]]
    /\ got' = [c \in Subs |->
                 IF c \in D
                 THEN [got[c] EXCEPT ![bar.symbol] = @ \cup {bar.start}]
                 ELSE got[c]]

\* Mutants: no order check; an overflow that forgets to latch.
InOrder_GridOnly(bar) == MinuteAligned(bar.start)
LatchPath_Forgets(s) == UNCHANGED modelDisc

\* May the bar follow the last one sent on for its symbol?
InOrder(bar) == Continues(modelLast[bar.symbol], bar.start)

\* A full channel latches the symbol.
LatchPath(s) == modelDisc' = [modelDisc EXCEPT ![s] = TRUE]

FanoutSkip(bar) ==
    /\ modelDisc[bar.symbol] \/ ~InOrder(bar)
    /\ RecordOffer(bar)
    /\ UNCHANGED <<modelSubs, queue, modelLast, modelDisc, got>>

FanoutDeliver(bar) ==
    /\ ~modelDisc[bar.symbol] /\ InOrder(bar)
    /\ \A c \in Open : ~Full(c)
    /\ SendTo(Open, bar)
    /\ modelLast' = [modelLast EXCEPT ![bar.symbol] = bar.start]
    /\ RecordOffer(bar)
    /\ UNCHANGED <<modelSubs, modelDisc>>

\* The channels are tried in Go's random map order, up to the first full one:
\* any of the others may have been served before it.
FanoutOverflow(bar) ==
    /\ ~modelDisc[bar.symbol] /\ InOrder(bar)
    /\ \E c \in Open : Full(c)
    /\ \E D \in SUBSET {c \in Open : ~Full(c)} : SendTo(D, bar)
    /\ LatchPath(bar.symbol)
    /\ RecordOffer(bar)
    /\ UNCHANGED <<modelSubs, modelLast>>

\* A bar that is not eligible, or that nobody subscribed to, changes nothing.
FanoutModel(bar) ==
    /\ ModelEligible(bar)
    /\ Open # {}
    /\ FanoutSkip(bar) \/ FanoutDeliver(bar) \/ FanoutOverflow(bar)

-----------------------------------------------------------------------------
\* ResetModelPath: the symbol starts over; what is already buffered stays.
ResetModelPath(s) ==
    /\ modelDisc' = [modelDisc EXCEPT ![s] = FALSE]
    /\ modelLast' = [modelLast EXCEPT ![s] = NoTime]
    /\ owed' = [c \in Subs |-> [owed[c] EXCEPT ![s] = {}]]
    /\ got' = [c \in Subs |-> [got[c] EXCEPT ![s] = {}]]
    /\ UNCHANGED <<modelSubs, queue, frontier>>

\* The consumer takes the oldest buffered bar.
Receive(c) ==
    /\ queue[c] # <<>>
    /\ queue' = [queue EXCEPT ![c] = Tail(@)]
    /\ UNCHANGED <<modelSubs, modelLast, modelDisc, frontier, owed, got>>

PathNext ==
    \/ \E c \in Subs : SubscribeModelBars(c) \/ Unsubscribe(c) \/ Receive(c)
    \/ \E bar \in Bar : FanoutModel(bar)
    \/ \E s \in Symbols : ResetModelPath(s)

PathSpec == PathInit /\ [][PathNext]_pathVars

-----------------------------------------------------------------------------
\* "No silent drop": a subscriber of the model path has been sent every new
\* eligible bar of a symbol since the symbol's last reset, unless the symbol
\* is latched (fanoutModel: a full channel is never skipped quietly).
NoSilentDrop ==
    \A c \in Open, s \in Symbols :
        owed[c][s] \subseteq got[c][s] \/ modelDisc[s]

\* Once a subscriber has missed a bar, no later bar of that symbol reaches it
\* before a reset: the recursive model never sees N+2 after losing N+1.
NothingSentPastALoss ==
    \A c \in Subs, s \in Symbols :
        \A lost \in owed[c][s] \ got[c][s], sent \in got[c][s] : sent < lost

\* Between resets a channel only ever receives a symbol's bars in strictly
\* increasing interval order (ClassifyBarContinuity before every send).
SentInOrder ==
    [][\A c \in Subs :
         Len(queue'[c]) > Len(queue[c]) =>
            LET bar == queue'[c][Len(queue'[c])] IN
            \A t \in got[c][bar.symbol] : t < bar.start]_pathVars
=============================================================================

------------------------------ MODULE ModelHost ------------------------------
(***************************************************************************)
(* The P-03 / P-04 / P-04V model host (internal/modelhost) on the P-02     *)
(* model path.  One dispatcher goroutine (Host.Run) takes bars off the     *)
(* host's model channel, hands each to its symbol's bounded inbox without  *)
(* blocking, and mirrors the path's latches; one worker per symbol gates   *)
(* the bar, steps the Volume engine, prepares the Adaptive and Price       *)
(* engines on clones and commits both or neither.  ResetSymbol, called     *)
(* from elsewhere, starts a symbol over.                                   *)
(*                                                                         *)
(* Engines are abstracted to the intervals they have committed since they  *)
(* were last cold.  `infer`, the deadline and the engines' own verdicts    *)
(* are the environment's choice at the point the code consults them.       *)
(***************************************************************************)
EXTENDS ModelPath

CONSTANTS
    Host,           \* the channel of SubscribeModelBars that Run opens
    InboxSize,      \* capacity of a worker's inbox (workerInboxSize)
    PricingOn,      \* is P-04 configured (opts.Pricing = EXPM)?
    GapInspector,   \* does the source implement provenMissingInspector?
    MaxResets       \* bound: how often ResetSymbol is called

ASSUME HostAssumption ==
    /\ Host \in Subs
    /\ InboxSize \in Nat \ {0}
    /\ PricingOn \in BOOLEAN
    /\ GapInspector \in BOOLEAN
    /\ MaxResets \in Nat

VARIABLES
    dpc,            \* where Host.Run is
    toRefresh,      \* symbols refreshPathStatus has still to visit
    polled,         \* the latch it has read off the path but not yet mirrored
    cancelled,      \* has Run's context been cancelled?
    inbox,          \* inbox[s]: bars waiting for s's worker
    wpc,            \* wpc[s]: where s's worker is
    cur,            \* cur[s]: the bar it took last
    disc,           \* disc[s]: is s latched in the host (worker.disc)?
    volDisc,        \* volDisc[s]: is s's Volume engine latched?
    lastAccepted,   \* lastAccepted[s]: interval last committed, or NoTime
    volSeq,         \* volSeq[s]: the Volume commit counter
    adaptive,       \* adaptive[s], pricing[s], volume[s]: intervals committed
    pricing,        \*   by each engine since it was created
    volume,
    lastEvent,      \* lastEvent[s]: the event kept for catch-up (lastBySym)
    rpc,            \* rpc[s]: where a ResetSymbol(s) in progress is
    resets,         \* number of ResetSymbol calls so far
    \* History, read by no step of the code:
    unanswered,     \* unanswered[s][t]: bars of s at t taken off the channel
                    \*   minus events emitted for such bars
    excused,        \* excused[s]: intervals skipped for a harmless reason
    newLoss         \* newLoss[s]: has s lost a bar since its reset began?

channelVars == <<inbox, wpc, cur>>
engineVars == <<lastAccepted, adaptive, pricing>>
volumeVars == <<volDisc, volSeq, volume>>
runVars == <<dpc, toRefresh, polled, cancelled>>
resetVars == <<rpc, resets>>
historyVars == <<unanswered, excused, newLoss>>
hostVars == <<runVars, channelVars, disc, engineVars, volumeVars, lastEvent,
              resetVars, historyVars>>
vars == <<pathVars, hostVars>>

NoBar == [symbol |-> NoTime, start |-> NoTime]

HostTypeOK ==
    /\ dpc \in {"start", "select", "closing", "closed", "done"}
    /\ toRefresh \in SUBSET Symbols
    /\ polled \in [symbol : Symbols, start : Times \cup {NoTime}] \cup {NoBar}
    /\ cancelled \in BOOLEAN
    /\ inbox \in [Symbols -> Seq(Bar)]
    /\ \A s \in Symbols : Len(inbox[s]) <= InboxSize
    /\ wpc \in [Symbols -> {"idle", "gates", "volume", "model", "stopped"}]
    /\ cur \in [Symbols -> Bar \cup {NoBar}]
    /\ disc \in [Symbols -> BOOLEAN]
    /\ volDisc \in [Symbols -> BOOLEAN]
    /\ lastAccepted \in [Symbols -> Times \cup {NoTime}]
    /\ volSeq \in [Symbols -> Nat]
    /\ adaptive \in [Symbols -> Seq(Times)]
    /\ pricing \in [Symbols -> Seq(Times)]
    /\ volume \in [Symbols -> Seq(Times)]
    /\ lastEvent \in
         [Symbols -> [at : Times \cup {NoTime}, committed : BOOLEAN]]
    /\ rpc \in [Symbols -> {"none", "latch", "path"}]
    /\ resets \in Nat
    /\ unanswered \in [Symbols -> [Times -> Int]]
    /\ excused \in [Symbols -> SUBSET Times]
    /\ newLoss \in [Symbols -> BOOLEAN]

TypeOK == PathTypeOK /\ HostTypeOK

Init ==
    /\ PathInit
    /\ dpc = "start" /\ cancelled = FALSE
    /\ toRefresh = {} /\ polled = NoBar
    /\ inbox = [s \in Symbols |-> <<>>]
    /\ wpc = [s \in Symbols |-> "idle"]
    /\ cur = [s \in Symbols |-> NoBar]
    /\ disc = [s \in Symbols |-> FALSE]
    /\ volDisc = [s \in Symbols |-> FALSE]
    /\ lastAccepted = [s \in Symbols |-> NoTime]
    /\ volSeq = [s \in Symbols |-> 0]
    /\ adaptive = [s \in Symbols |-> <<>>]
    /\ pricing = [s \in Symbols |-> <<>>]
    /\ volume = [s \in Symbols |-> <<>>]
    /\ lastEvent = [s \in Symbols |-> [at |-> NoTime, committed |-> FALSE]]
    /\ rpc = [s \in Symbols |-> "none"]
    /\ resets = 0
    /\ unanswered = [s \in Symbols |-> [t \in Times |-> 0]]
    /\ excused = [s \in Symbols |-> {}]
    /\ newLoss = [s \in Symbols |-> FALSE]

-----------------------------------------------------------------------------
\* emit: the event replaces the symbol's catch-up event; subscribers are sent
\* it without blocking (not modelled here).
emit(s, t, committed) ==
    lastEvent' = [lastEvent EXCEPT ![s] = [at |-> t, committed |-> committed]]

\* Mutant: the loss is reported but the symbol not latched.
markDisc_Forgets(s) == UNCHANGED disc
markDisc(s) == disc' = [disc EXCEPT ![s] = TRUE]

\* Mutants: a worker gives up once its symbol is latched; a bar that meets a
\* latched symbol is dropped without an event.
Return_DiesWhenLatched(s) ==
    wpc' = [wpc EXCEPT ![s] = IF disc[s] THEN "stopped" ELSE "idle"]
Answer_SilentWhenLatched(s) ==
    unanswered' = [unanswered EXCEPT ![s][cur[s].start] =
                     IF disc[s] THEN @ ELSE @ - 1]

\* The worker is done with the bar in hand: one event, then back to the inbox.
Return(s) == wpc' = [wpc EXCEPT ![s] = "idle"]
Answer(s) == unanswered' = [unanswered EXCEPT ![s][cur[s].start] = @ - 1]

Finish(s, committed) ==
    /\ emit(s, cur[s].start, committed)
    /\ Answer(s)
    /\ Return(s)
    /\ cur' = [cur EXCEPT ![s] = NoBar]
    /\ UNCHANGED inbox

\* A symbol whose bar is lost has lost something since its last reset.
Lose(s) == newLoss' = [newLoss EXCEPT ![s] = TRUE]

-----------------------------------------------------------------------------
\* The pipeline offers a bar while the host runs (or has not started yet).
\* Only eligible bars change the path, and they all look like LiveBar.
Feed(s, t) ==
    /\ FanoutModel(LiveBar(s, t))
    /\ IF modelDisc'[s] /\ ~modelDisc[s] THEN Lose(s) ELSE UNCHANGED newLoss
    /\ UNCHANGED <<runVars, channelVars, disc, engineVars, volumeVars,
                   lastEvent, resetVars, unanswered, excused>>

\* Run: open the model channel, then start the workers.
Start ==
    /\ dpc = "start"
    /\ SubscribeModelBars(Host)
    /\ dpc' = "select"
    /\ UNCHANGED <<toRefresh, polled, cancelled, channelVars, disc, engineVars,
                   volumeVars, lastEvent, resetVars, historyVars>>

Selecting == dpc = "select" /\ toRefresh = {} /\ polled = NoBar

\* dispatch of the oldest bar in the channel, then refreshPathStatus.
DispatchLatched ==
    /\ Selecting
    /\ Receive(Host)
    /\ LET bar == Head(queue[Host]) IN
       /\ disc[bar.symbol]
       /\ emit(bar.symbol, bar.start, FALSE)
    /\ toRefresh' = Symbols
    /\ UNCHANGED <<dpc, polled, cancelled, channelVars, disc, engineVars,
                   volumeVars, resetVars, historyVars>>

DispatchForward ==
    /\ Selecting
    /\ Receive(Host)
    /\ LET bar == Head(queue[Host]) IN
       /\ ~disc[bar.symbol]
       /\ Len(inbox[bar.symbol]) < InboxSize
       /\ inbox' = [inbox EXCEPT ![bar.symbol] = Append(@, bar)]
       /\ unanswered' = [unanswered EXCEPT ![bar.symbol][bar.start] = @ + 1]
    /\ toRefresh' = Symbols
    /\ UNCHANGED <<dpc, polled, cancelled, wpc, cur, disc, engineVars,
                   volumeVars, lastEvent, resetVars, excused, newLoss>>

DispatchOverflow ==
    /\ Selecting
    /\ Receive(Host)
    /\ LET bar == Head(queue[Host]) IN
       /\ ~disc[bar.symbol]
       /\ Len(inbox[bar.symbol]) >= InboxSize
       /\ markDisc(bar.symbol)
       /\ emit(bar.symbol, bar.start, FALSE)
       /\ Lose(bar.symbol)
    /\ toRefresh' = Symbols
    /\ UNCHANGED <<dpc, polled, cancelled, channelVars, engineVars, volumeVars,
                   resetVars, unanswered, excused>>

\* The 50 ms ticker fires.
Tick ==
    /\ Selecting
    /\ toRefresh' = Symbols
    /\ UNCHANGED <<pathVars, dpc, polled, cancelled, channelVars, disc,
                   engineVars, volumeVars, lastEvent, resetVars, historyVars>>

\* refreshPathStatus asks the path about one symbol (ModelPathStatus) ...
PollSymbol(s) ==
    /\ s \in toRefresh /\ polled = NoBar
    /\ toRefresh' = toRefresh \ {s}
    /\ polled' = IF modelDisc[s] THEN [symbol |-> s, start |-> modelLast[s]]
                 ELSE NoBar
    /\ UNCHANGED <<pathVars, dpc, cancelled, channelVars, disc, engineVars,
                   volumeVars, lastEvent, resetVars, historyVars>>

\* ... and, no longer under the path's lock, makes its latch one of the host,
\* reported under the last interval the path delivered.
MirrorLatch ==
    /\ polled # NoBar
    /\ polled' = NoBar
    /\ IF disc[polled.symbol]
       THEN UNCHANGED <<disc, lastEvent>>
       ELSE markDisc(polled.symbol) /\ emit(polled.symbol, polled.start, FALSE)
    /\ UNCHANGED <<pathVars, dpc, toRefresh, cancelled, channelVars,
                   engineVars, volumeVars, resetVars, historyVars>>

-----------------------------------------------------------------------------
\* Run returns once the context is cancelled: close the inboxes, wait for the
\* workers, close the event streams, give up the model channel.
Cancel ==
    /\ dpc # "start" /\ ~cancelled
    /\ cancelled' = TRUE
    /\ UNCHANGED <<pathVars, dpc, toRefresh, polled, channelVars, disc,
                   engineVars, volumeVars, lastEvent, resetVars, historyVars>>

StopDispatch ==
    /\ Selecting /\ cancelled
    /\ dpc' = "closing"
    /\ UNCHANGED <<pathVars, toRefresh, polled, cancelled, channelVars, disc,
                   engineVars, volumeVars, lastEvent, resetVars, historyVars>>

\* Mutant: the workers wait for the streams, which wait for the workers.
WorkerDone_AfterClose == dpc = "closed"
WorkerDone == cancelled

StopWorker(s) ==
    /\ wpc[s] = "idle" /\ WorkerDone
    /\ wpc' = [wpc EXCEPT ![s] = "stopped"]
    /\ UNCHANGED <<pathVars, runVars, inbox, cur, disc, engineVars, volumeVars,
                   lastEvent, resetVars, historyVars>>

CloseStreams ==
    /\ dpc = "closing"
    /\ \A s \in Symbols : wpc[s] = "stopped"
    /\ dpc' = "closed"
    /\ UNCHANGED <<pathVars, toRefresh, polled, cancelled, channelVars, disc,
                   engineVars, volumeVars, lastEvent, resetVars, historyVars>>

Leave ==
    /\ dpc = "closed"
    /\ Unsubscribe(Host)
    /\ dpc' = "done"
    /\ UNCHANGED <<toRefresh, polled, cancelled, channelVars, disc, engineVars,
                   volumeVars, lastEvent, resetVars, historyVars>>

-----------------------------------------------------------------------------
\* runWorker and handle, one symbol.
Take(s) ==
    /\ wpc[s] = "idle" /\ inbox[s] # <<>>
    /\ cur' = [cur EXCEPT ![s] = Head(inbox[s])]
    /\ inbox' = [inbox EXCEPT ![s] = Tail(@)]
    /\ wpc' = [wpc EXCEPT ![s] = "gates"]
    /\ UNCHANGED <<pathVars, runVars, disc, engineVars, volumeVars, lastEvent,
                   resetVars, historyVars>>

\* Mutant: the continuity gate is dropped.
Admissible_AnyOrder(s) == ~disc[s] /\ ModelEligible(cur[s])

\* The gates a bar must pass, in the order the code asks: not latched,
\* eligible, and a causal successor of the last accepted bar.  The two left
\* out, `infer` and the deadline before the step, can refuse any bar.
Admissible(s) ==
    /\ ~disc[s]
    /\ ModelEligible(cur[s])
    /\ Continues(lastAccepted[s], cur[s].start)

GateAdmit(s) ==
    /\ wpc[s] = "gates"
    /\ Admissible(s)
    /\ wpc' = [wpc EXCEPT ![s] = "volume"]
    /\ UNCHANGED <<pathVars, runVars, inbox, cur, disc, engineVars, volumeVars,
                   lastEvent, resetVars, historyVars>>

\* STATE_DISCONTINUOUS when latched; otherwise INFER_OFF, NOT_MODEL_ELIGIBLE,
\* DUPLICATE_OR_REGRESSION, INVALID_INPUT or TIMEOUT, none of which is a loss.
GateSkip(s) ==
    /\ wpc[s] = "gates"
    /\ Finish(s, FALSE)
    /\ excused' = IF disc[s] THEN excused
                  ELSE [excused EXCEPT ![s] = @ \cup {cur[s].start}]
    /\ UNCHANGED <<pathVars, runVars, disc, engineVars, volumeVars, resetVars,
                   newLoss>>

\* INPUT_GAP: the source can prove that an eligible bar is missing.
GateInputGap(s) ==
    /\ GapInspector
    /\ wpc[s] = "gates"
    /\ Admissible(s)
    /\ ClassifyBarContinuity(lastAccepted[s], cur[s].start) = "irregular"
    /\ markDisc(s)
    /\ Lose(s)
    /\ Finish(s, FALSE)
    /\ UNCHANGED <<pathVars, runVars, engineVars, volumeVars, resetVars,
                   excused>>

\* A panic anywhere in handle outside processVolume is recovered, latches the
\* symbol and still answers the bar.
Panic(s) ==
    /\ wpc[s] \in {"gates", "model"}
    /\ markDisc(s)
    /\ Lose(s)
    /\ Finish(s, FALSE)
    /\ UNCHANGED <<pathVars, runVars, engineVars, volumeVars, resetVars,
                   excused>>

\* Mutant: a failed Volume step is reported but not latched.
markVolDisc_Forgets(s) == UNCHANGED volDisc
markVolDisc(s) == volDisc' = [volDisc EXCEPT ![s] = TRUE]

\* processVolume: the Volume engine commits on its own account.
VolumeCommit(s) ==
    /\ wpc[s] = "volume" /\ ~volDisc[s]
    /\ volume' = [volume EXCEPT ![s] = Append(@, cur[s].start)]
    /\ volSeq' = [volSeq EXCEPT ![s] = @ + 1]
    /\ wpc' = [wpc EXCEPT ![s] = "model"]
    /\ UNCHANGED <<pathVars, runVars, inbox, cur, disc, engineVars, volDisc,
                   lastEvent, resetVars, historyVars>>

\* Already latched, refused by the engine, or panicked: latched from now on,
\* and the Adaptive and Price engines still get their turn.
VolumeRefuse(s) ==
    /\ wpc[s] = "volume"
    /\ markVolDisc(s)
    /\ wpc' = [wpc EXCEPT ![s] = "model"]
    /\ UNCHANGED <<pathVars, runVars, inbox, cur, disc, engineVars, volSeq,
                   volume, lastEvent, resetVars, historyVars>>

\* Mutant: the Price engine's refusal does not hold the Adaptive engine back.
CommitEngines_AdaptiveAlone(s) ==
    /\ adaptive' = [adaptive EXCEPT ![s] = Append(@, cur[s].start)]
    /\ \E commitP \in BOOLEAN :
          pricing' = IF PricingOn /\ commitP
                     THEN [pricing EXCEPT ![s] = Append(@, cur[s].start)]
                     ELSE pricing

CommitEngines(s) ==
    /\ adaptive' = [adaptive EXCEPT ![s] = Append(@, cur[s].start)]
    /\ pricing' = IF PricingOn
                  THEN [pricing EXCEPT ![s] = Append(@, cur[s].start)]
                  ELSE pricing

\* Both prepared within the deadline: both commit, and the bar is accepted.
ModelCommit(s) ==
    /\ wpc[s] = "model"
    /\ CommitEngines(s)
    /\ lastAccepted' = [lastAccepted EXCEPT ![s] = cur[s].start]
    /\ Finish(s, TRUE)
    /\ UNCHANGED <<pathVars, runVars, disc, volumeVars, resetVars, excused,
                   newLoss>>

\* Either engine refused, or the deadline passed: neither commits.
ModelDecline(s) ==
    /\ wpc[s] = "model"
    /\ Finish(s, FALSE)
    /\ excused' = [excused EXCEPT ![s] = @ \cup {cur[s].start}]
    /\ UNCHANGED <<pathVars, runVars, disc, engineVars, volumeVars, resetVars,
                   newLoss>>

-----------------------------------------------------------------------------
\* Mutant: the Volume commit counter survives the reset.
ColdVolume_KeepsCounter(s) ==
    /\ volume' = [volume EXCEPT ![s] = <<>>]
    /\ volDisc' = [volDisc EXCEPT ![s] = FALSE]
    /\ UNCHANGED volSeq

ColdVolume(s) ==
    /\ volume' = [volume EXCEPT ![s] = <<>>]
    /\ volDisc' = [volDisc EXCEPT ![s] = FALSE]
    /\ volSeq' = [volSeq EXCEPT ![s] = 0]

\* ResetSymbol writes the worker's plain fields first.  The caller must find
\* the worker between two bars: the code takes no lock (see the README).
ResetEngines(s) ==
    /\ rpc[s] = "none" /\ resets < MaxResets
    /\ wpc[s] = "idle"
    /\ adaptive' = [adaptive EXCEPT ![s] = <<>>]
    /\ pricing' = [pricing EXCEPT ![s] = <<>>]
    /\ ColdVolume(s)
    /\ lastAccepted' = [lastAccepted EXCEPT ![s] = NoTime]
    /\ rpc' = [rpc EXCEPT ![s] = "latch"]
    /\ resets' = resets + 1
    /\ excused' = [excused EXCEPT ![s] = {}]
    /\ newLoss' = [newLoss EXCEPT ![s] = FALSE]
    /\ UNCHANGED <<pathVars, runVars, channelVars, disc, lastEvent,
                   unanswered>>

\* ... then lifts the host's latch ...
ResetLatch(s) ==
    /\ rpc[s] = "latch"
    /\ disc' = [disc EXCEPT ![s] = FALSE]
    /\ rpc' = [rpc EXCEPT ![s] = "path"]
    /\ UNCHANGED <<pathVars, runVars, channelVars, engineVars, volumeVars,
                   lastEvent, resets, historyVars>>

\* ... and only then the path's.
ResetPath(s) ==
    /\ rpc[s] = "path"
    /\ ResetModelPath(s)
    /\ rpc' = [rpc EXCEPT ![s] = "none"]
    /\ UNCHANGED <<runVars, channelVars, disc, engineVars, volumeVars,
                   lastEvent, resets, historyVars>>

-----------------------------------------------------------------------------
Dispatcher ==
    \/ Start \/ DispatchLatched \/ DispatchForward \/ DispatchOverflow \/ Tick
    \/ MirrorLatch \/ StopDispatch \/ CloseStreams \/ Leave
    \/ \E s \in Symbols : PollSymbol(s)

Worker(s) ==
    \/ Take(s) \/ GateAdmit(s) \/ GateSkip(s) \/ GateInputGap(s) \/ Panic(s)
    \/ VolumeCommit(s) \/ VolumeRefuse(s) \/ ModelCommit(s) \/ ModelDecline(s)
    \/ StopWorker(s)

Reset(s) == ResetEngines(s) \/ ResetLatch(s) \/ ResetPath(s)

Next ==
    \/ \E s \in Symbols, t \in Times : Feed(s, t)
    \/ Cancel
    \/ Dispatcher
    \/ \E s \in Symbols : Worker(s) \/ Reset(s)

Spec == Init /\ [][Next]_vars

\* The goroutines are scheduled fairly.  Go's select chooses at random among
\* ready cases, so a bar that keeps waiting, or a cancellation, is not passed
\* over for ever in favour of the ticker.
Fairness ==
    /\ WF_vars(Dispatcher)
    /\ SF_vars(DispatchLatched \/ DispatchForward \/ DispatchOverflow)
    /\ SF_vars(StopDispatch)
    /\ \A s \in Symbols :
        /\ WF_vars(Worker(s))
        /\ SF_vars(StopWorker(s))
        /\ WF_vars(ResetLatch(s) \/ ResetPath(s))

FairSpec == Spec /\ Fairness

-----------------------------------------------------------------------------
Committed(s) == {adaptive[s][i] : i \in DOMAIN adaptive[s]}

\* A missing eligible bar cannot pass silently: if the recursive model has
\* stepped over an interval the feed offered since the symbol's last reset,
\* then that bar was turned away for a harmless reason (infer off, timeout,
\* engine refusal), never lost to a full queue, a panic or a latch.
NoSilentGap ==
    \A s \in Symbols : rpc[s] = "none" =>
        \A i, j \in DOMAIN adaptive[s], t \in owed[Host][s] :
            adaptive[s][i] < t /\ t < adaptive[s][j] =>
                t \in Committed(s) \cup excused[s]

\* handle commits the Adaptive and the Price engine together or not at all
\* (commitA && commitP), whatever fails, times out or is reset in between.
JointCommit ==
    PricingOn => adaptive = pricing

\* Each engine life commits strictly later intervals each time, across the
\* path's and the host's separate notions of the last interval.
CommitsInOrder ==
    \A s \in Symbols :
        /\ \A i, j \in DOMAIN adaptive[s] :
              i < j => adaptive[s][i] < adaptive[s][j]
        /\ \A i \in DOMAIN adaptive[s] : adaptive[s][i] <= lastAccepted[s]

\* Volume runs before, and commits independently of, Adaptive and Price: the
\* Volume engine has seen every interval they committed, unless it is latched.
VolumeCoversModel ==
    \A s \in Symbols :
        \/ volDisc[s]
        \/ Committed(s) \subseteq {volume[s][i] : i \in DOMAIN volume[s]}

\* accepted_sequence is the worker's Volume commit count, also across resets,
\* refusals and latches.
VolumeSequenceExact == \A s \in Symbols : volSeq[s] = Len(volume[s])

InFlight(s, t) ==
    Cardinality({i \in DOMAIN inbox[s] : inbox[s][i].start = t})
        + IF cur[s] # NoBar /\ cur[s].start = t THEN 1 ELSE 0

\* Every bar the host takes off its channel gets exactly one terminal event,
\* on every path through dispatch and handle, panics included.
OneOutcomePerBar ==
    \A s \in Symbols, t \in Times : unanswered[s][t] = InFlight(s, t)

\* An interval that was committed keeps its event in the catch-up store; no
\* second terminal event for the same interval takes its place
\* (domain/decision.go: "one terminal outcome per considered bar").
CommittedEventKept ==
    [][\A s \in Symbols :
         lastEvent[s].committed /\ lastEvent'[s].at = lastEvent[s].at =>
            lastEvent'[s].committed]_vars

\* ResetSymbol ends a latch for good: afterwards a symbol is latched in the
\* host only if it has lost a bar since that reset.
ResetEndsLatch ==
    \A s \in Symbols : rpc[s] = "none" /\ disc[s] => newLoss[s]

Outstanding(s, t) ==
    \/ \E i \in DOMAIN queue[Host] :
          queue[Host][i].symbol = s /\ queue[Host][i].start = t
    \/ InFlight(s, t) > 0

\* The host never sits on a bar: whatever panics, latches or overflows, for
\* this symbol or another, each bar sent to it is answered unless the host is
\* told to stop.
EveryBarAnswered ==
    \A s \in Symbols, t \in Times :
        Outstanding(s, t) ~> (~Outstanding(s, t) \/ cancelled)

\* A latch of the P-02 path reaches the host's own latch, even if no further
\* bar is ever delivered (that is what the poll is for).
PathLatchMirrored ==
    \A s \in Symbols : modelDisc[s] ~> (disc[s] \/ ~modelDisc[s] \/ cancelled)

\* Cancelling the context ends Run: the workers stop and the streams close.
ShutdownCompletes == cancelled ~> (dpc = "done")
=============================================================================

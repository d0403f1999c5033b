--------------------------- MODULE IngestionProofs ---------------------------
(***************************************************************************)
(* The states of the P-02 pipeline's control, for any symbols, any number  *)
(* of gap fills and any number of calls at a time.                         *)
(*                                                                         *)
(* Two facts make the type invariant inductive: the run loop holds a       *)
(* reading of the feed's health wherever it is about to use one, and a     *)
(* refresh of the recovery goroutine returns to the recovery, so that it   *)
(* cannot end without clearing `filling`.                                  *)
(***************************************************************************)
EXTENDS Ingestion, TLAPS

\* The places where the run loop uses the health it has read.
ReadWhenUsed ==
    pc["loop"] \in {"observe", "observeTick", "observeEnd", "clear"} =>
        seen \in FeedStates

\* Where the recovery goroutine goes on after refreshInfer.
RecoveryReturns ==
    pc["recovery"] \in {"refresh", "judge", "store"} =>
        then["recovery"] = "reconcile"

IngestionInv == TypeOK /\ ReadWhenUsed /\ RecoveryReturns

LEMMA IngestionInvInitially == Init => IngestionInv
<1> SUFFICES ASSUME Init PROVE IngestionInv
  OBVIOUS
<1> USE DEF Init
<1>1. fills \in 0..MaxFills
  BY IngestionAssumption
<1>2. /\ state \in FeedStates /\ breaker \in FeedStates
      /\ seen \in FeedStates \cup {Unread}
  BY DEF FeedStates
<1>3. todo \in [Fillers -> SUBSET Symbols]
  OBVIOUS
<1>4. /\ pc["recovery"] = "idle" /\ pc["loop"] = "idle"
  BY DEF Goroutines
<1>5. TypeOK
  BY <1>1, <1>2, <1>3, <1>4 DEF TypeOK
<1> QED
  BY <1>4, <1>5 DEF IngestionInv, ReadWhenUsed, RecoveryReturns

LEMMA FeedKeepsTypes ==
    ASSUME state \in FeedStates, overdue \in BOOLEAN, FeedNext
    PROVE  state' \in FeedStates /\ overdue' \in BOOLEAN
  BY DEF FeedNext, Connecting, Connected, Lost, Heartbeat, FeedStates

LEMMA AssessedTyped ==
    ASSUME state \in FeedStates, overdue \in BOOLEAN
    PROVE  Assessed \in FeedStates
  BY DEF Assessed, FeedStates

\* refreshInfer, in any goroutine.
LEMMA RefreshKeepsInv ==
    ASSUME IngestionInv, NEW g \in Goroutines, Refresh(g)
    PROVE  IngestionInv'
<1> USE DEF IngestionInv, TypeOK, ReadWhenUsed, RecoveryReturns, Goroutines,
            Goto, feedVars, envVars, gateVars
<1>1. CASE RefreshBreaker(g)
  BY <1>1 DEF RefreshBreaker, LookAtBreaker
<1>2. CASE RefreshWindows(g)
  BY <1>2 DEF RefreshWindows
<1>3. CASE RefreshStore(g)
  BY <1>3 DEF RefreshStore, Stored
<1> QED
  BY <1>1, <1>2, <1>3 DEF Refresh

\* The run loop, between two cases of its select.
LEMMA LoopKeepsInv ==
    ASSUME IngestionInv,
           LoopBar \/ LoopTick \/ LoopSourceEnded \/ DrainBar \/ LoopStep
    PROVE  IngestionInv'
<1> USE DEF IngestionInv, TypeOK, ReadWhenUsed, RecoveryReturns, Goroutines,
            Goto, feedVars, envVars, gateVars
<1>1. CASE LoopBar
  BY <1>1 DEF LoopBar, Accept
<1>2. CASE LoopTick
  BY <1>2, AssessedTyped DEF LoopTick, Read
<1>3. CASE LoopSourceEnded
  BY <1>3 DEF LoopSourceEnded
<1>4. CASE DrainBar
  BY <1>4 DEF DrainBar, Accept
<1>5. CASE AcceptMarks
  BY <1>5 DEF AcceptMarks, RefreshThen, FeedStates
<1>6. CASE ReadHealth
  BY <1>6, AssessedTyped DEF ReadHealth, Read
<1>7. CASE ObserveAfterBar
  BY <1>7 DEF ObserveAfterBar, Observe, RefreshThen
<1>8. CASE ObserveOnTick
  BY <1>8 DEF ObserveOnTick, Observe, RefreshThen
<1>9. CASE TickClears
  BY <1>9 DEF TickClears, Fillers
<1>10. CASE ObserveAtEnd
  BY <1>10 DEF ObserveAtEnd, Observe
<1>11. CASE LoopEnds
  BY <1>11 DEF LoopEnds
<1> QED
  BY <1>1, <1>2, <1>3, <1>4, <1>5, <1>6, <1>7, <1>8, <1>9, <1>10, <1>11,
     RefreshKeepsInv DEF LoopStep

\* A gap fill, in the recovery goroutine or in a call.
LEMMA FillKeepsInv ==
    ASSUME IngestionInv, NEW g \in Fillers, FillStep(g) \/ FillInjects(g)
    PROVE  IngestionInv'
<1> USE DEF IngestionInv, TypeOK, ReadWhenUsed, RecoveryReturns, Goroutines,
            Fillers, Goto, feedVars, envVars, gateVars
<1>1. CASE FillMarks(g)
  BY <1>1 DEF FillMarks, FeedStates
<1>2. CASE FillClears(g)
  BY <1>2 DEF FillClears
<1>3. CASE FillFails(g)
  BY <1>3 DEF FillFails
<1>4. CASE FillHeals(g)
  BY <1>4 DEF FillHeals, RefreshThen, FeedStates
<1>5. CASE FillDone(g)
  BY <1>5 DEF FillDone
<1>6. CASE FillInjects(g)
  BY <1>6 DEF FillInjects, runVars
<1> QED
  BY <1>1, <1>2, <1>3, <1>4, <1>5, <1>6, RefreshKeepsInv DEF FillStep

\* Calls, and what the source does.
LEMMA OthersKeepInv ==
    ASSUME IngestionInv,
           Readiness \/ TriggerGapFill \/ SourceStep \/ SourceEnds
              \/ HeadGoesStale \/ UNCHANGED vars
    PROVE  IngestionInv'
<1> USE DEF IngestionInv, TypeOK, ReadWhenUsed, RecoveryReturns, Goroutines,
            Goto, feedVars, envVars, gateVars, runVars
<1>1. CASE Readiness
  BY <1>1 DEF Readiness, LookAtBreaker
<1>2. CASE TriggerGapFill
  BY <1>2, IngestionAssumption DEF TriggerGapFill, Fillers
<1>3. CASE SourceStep
  <2>1. FeedNext
    BY <1>3 DEF SourceStep, FeedNext
  <2> QED
    BY <1>3, <2>1, FeedKeepsTypes DEF SourceStep
<1>4. CASE SourceEnds
  BY <1>4 DEF SourceEnds
<1>5. CASE HeadGoesStale
  BY <1>5 DEF HeadGoesStale
<1>6. CASE UNCHANGED vars
  BY <1>6 DEF vars
<1> QED
  BY <1>1, <1>2, <1>3, <1>4, <1>5, <1>6

\* Breaker, gate and goroutines are in states the code can be in: no health is
\* acted on that has not been read (pipeline.go 91-125), and `filling` is set
\* as long as a recovery runs and no longer, however its refreshes interleave
\* with those of the run loop and of the calls (286-313).
THEOREM IngestionTypeCorrect == Spec => []TypeOK
<1>1. IngestionInv /\ [Next]_vars => IngestionInv'
  <2> SUFFICES ASSUME IngestionInv, [Next]_vars
               PROVE  IngestionInv'
    OBVIOUS
  <2>1. CASE Refresh("readiness")
    BY <2>1, RefreshKeepsInv DEF Goroutines
  <2> QED
    BY <2>1, LoopKeepsInv, FillKeepsInv, OthersKeepInv DEF Next
<1>2. IngestionInv => TypeOK
  BY DEF IngestionInv
<1> QED
  BY <1>1, <1>2, IngestionInvInitially, PTL DEF Spec
=============================================================================

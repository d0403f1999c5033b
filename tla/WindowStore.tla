----------------------------- MODULE WindowStore -----------------------------
(***************************************************************************)
(* The bar window of P-02 (internal/ingestion/window.go): per symbol a     *)
(* slice of bars in interval order, at most Limit of them.  Add holds the  *)
(* window's lock for its whole body, so it is one action; readers take a   *)
(* copy under the same lock.                                               *)
(*                                                                         *)
(* The map `seen` of dedup keys is written by Add and read by nothing; it  *)
(* is left out.                                                            *)
(***************************************************************************)
EXTENDS Bars, FiniteSets, Sequences, SequencesExt

CONSTANTS Prices, Limit

ASSUME StoreAssumption == Limit \in Nat \ {0}

VARIABLES
    bars,       \* bars[s]: WindowStore.bars, the window of symbol s
    lastAt      \* lastAt[s]: WindowStore.lastAt, what Last(s) returns

windowVars == <<bars, lastAt>>

Abstract == INSTANCE WindowMap WITH
    held <- [s \in Symbols |-> ToSet(bars[s])], newest <- lastAt

WindowTypeOK ==
    /\ bars \in [Symbols -> Seq(Abstract!Snapshot)]
    /\ \A s \in Symbols : Len(bars[s]) <= Limit
    /\ lastAt \in [Symbols -> Abstract!Snapshot \cup {Abstract!NoBar}]

WindowInit ==
    /\ bars = [s \in Symbols |-> <<>>]
    /\ lastAt = [s \in Symbols |-> Abstract!NoBar]

\* What decode.go lets through, by classifyAlpacaBar: a "u" is a partial bar,
\* a live "b" (or a CSV row) a complete one, a REST bar a reconstructed one.
\* A message with missing or inconsistent fields is skipped and is no bar.
LiveBars == {bar \in Abstract!Snapshot :
               bar.complete = bar.isFinal /\ ~bar.backfilled}
RestBars == {bar \in Abstract!Snapshot :
               bar.isFinal /\ ~bar.complete /\ bar.backfilled}

\* MarketSnapshotID hashes whose bar it is, when it starts and its contents.
\* The source is hashed too, but the live and the REST adapter of a feed have
\* the same; how final or complete the bar is plays no part.
SnapshotID(bar) == <<bar.symbol, bar.start, bar.prices>>

sameGeneration(left, right) == SnapshotID(left) = SnapshotID(right)

liveComplete(bar) == bar.isFinal /\ bar.complete /\ ~bar.backfilled

\* Mutants: a later snapshot always wins; a REST bar replaces a live one.
shouldReplace_LastWriteWins(existing, incoming) ==
    ~sameGeneration(existing, incoming)

shouldReplace_Reconstructed(existing, incoming) ==
    /\ ~sameGeneration(existing, incoming)
    /\ ~(existing.isFinal /\ ~incoming.isFinal)

shouldReplace(existing, incoming) ==
    /\ ~sameGeneration(existing, incoming)
    /\ ~(existing.isFinal /\ ~incoming.isFinal)
    /\ ~(liveComplete(existing) /\ incoming.backfilled)

-----------------------------------------------------------------------------
\* The position of the bar with the same DedupKey, of which there is at most
\* one; Holds: is there any?
Holds(bar) == \E i \in DOMAIN bars[bar.symbol] :
                  bars[bar.symbol][i].start = bar.start
indexOfKey(bar) == CHOOSE i \in DOMAIN bars[bar.symbol] :
                       bars[bar.symbol][i].start = bar.start

\* Mutant: a new interval goes to the end, in order of arrival.
InsertPosition_AtEnd(bar) == Len(bars[bar.symbol]) + 1

\* BinarySearchFunc on the starts: before the first one that is not earlier.
InsertPosition(bar) ==
    1 + Cardinality({i \in DOMAIN bars[bar.symbol] :
                        bars[bar.symbol][i].start < bar.start})

\* Over the limit the first bar goes, be it the one just inserted.
Evict(items) == IF Len(items) > Limit THEN Tail(items) ELSE items

\* Add's result: would this bar be taken?
Accepts(bar) ==
    Holds(bar) => shouldReplace(bars[bar.symbol][indexOfKey(bar)], bar)

\* The window of bar's symbol once the bar has been taken.
WindowWith(bar) ==
    IF Holds(bar)
    THEN [bars[bar.symbol] EXCEPT ![indexOfKey(bar)] = bar]
    ELSE Evict(InsertAt(bars[bar.symbol], InsertPosition(bar), bar))

\* Add when it returns true; refreshLast is its last step.
Add(bar) ==
    /\ Accepts(bar)
    /\ bars' = [bars EXCEPT ![bar.symbol] = WindowWith(bar)]
    /\ lastAt' = [lastAt EXCEPT ![bar.symbol] = Last(bars'[bar.symbol])]

-----------------------------------------------------------------------------
\* domain.InferReady, but for the freshness of the last bar, which only time
\* takes away: MinInferContiguous (two) finalized bars in causal order, the
\* last of them live and complete.
Finalized(items) == {i \in DOMAIN items : items[i].isFinal}

LastFinalized(items, i) ==
    i \in Finalized(items) /\ \A j \in Finalized(items) : j <= i

\* The finalized bar that comes last but one, if there is one, is earlier.
ContiguousFinalized(items, last) ==
    /\ \E i \in Finalized(items) : i < last
    /\ \A i \in Finalized(items) \ {last} :
          (\A j \in Finalized(items) \ {last} : j <= i) =>
              items[i].start < items[last].start

InferReady(items) ==
    \E i \in DOMAIN items :
        /\ LastFinalized(items, i) /\ ContiguousFinalized(items, i)
        /\ ModelEligible(items[i])

WindowNext == \E bar \in LiveBars \cup RestBars : Add(bar)

WindowSpec == WindowInit /\ [][WindowNext]_windowVars

-----------------------------------------------------------------------------
\* The window of a symbol is in strictly increasing interval order: what the
\* binary search of Add, the causal order of InferReady and the eviction of
\* "the oldest" rely on, for bars that arrive in any order.
Chronological ==
    \A s \in Symbols : \A i, j \in DOMAIN bars[s] :
        i < j => bars[s][i].start < bars[s][j].start

\* The store implements the abstract window: whatever arrives and in whatever
\* order, it holds one snapshot of each of the newest intervals, replaces one
\* only by a better one, and Last is the newest.
ImplementsWindowMap == Abstract!MapSpec

\* What may take readiness away from a window with room in it: only a later
\* interval that arrives reconstructed.  A forming bar of the next minute does
\* not, nor does a gap fill that goes over the minutes the window has, nor a
\* correction of any of them (P02_DATA_QUALITY, section 3).
OnlyReconstructedHeadUnreadies ==
    [][\A s \in Symbols :
         InferReady(bars[s]) /\ Len(bars[s]) < Limit /\ ~InferReady(bars'[s]) =>
            \E i \in DOMAIN bars[s], j \in DOMAIN bars'[s] :
                /\ LastFinalized(bars[s], i) /\ LastFinalized(bars'[s], j)
                /\ bars'[s][j].backfilled
                /\ bars'[s][j].start > bars[s][i].start
      ]_windowVars

\* "`b` after `u`: Replace. Minute is finalized." (P02_DATA_QUALITY, section
\* 4): a live closed bar is taken whenever the window's is not one.
ClosedBarTaken ==
    \A bar \in LiveBars :
        (bar.isFinal /\ Holds(bar)
            /\ ~bars[bar.symbol][indexOfKey(bar)].isFinal) => Accepts(bar)
=============================================================================

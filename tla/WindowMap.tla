------------------------------ MODULE WindowMap ------------------------------
(***************************************************************************)
(* What the bar window promises, without saying how it is stored: for each *)
(* symbol the best snapshot seen of each of the newest intervals.  Which   *)
(* snapshot of an interval is better is partly left open; what is fixed is *)
(* that a closed bar is never un-finalized, a live complete bar never      *)
(* gives way to a reconstructed one, and only the oldest interval is ever  *)
(* forgotten.                                                              *)
(***************************************************************************)
EXTENDS Bars, FiniteSets

CONSTANTS
    Prices,     \* OHLCV contents a bar may have
    Limit       \* intervals kept for each symbol (config.WindowLimit)

\* A bar as the window compares it: Bars!Bar with its contents.
Snapshot == [symbol : Symbols, start : Times, isFinal : BOOLEAN,
             complete : BOOLEAN, backfilled : BOOLEAN, prices : Prices]

NoBar == [symbol |-> "", start |-> NoTime, isFinal |-> FALSE,
          complete |-> FALSE, backfilled |-> FALSE, prices |-> ""]

VARIABLES
    held,       \* held[s]: the snapshots held for s
    newest      \* newest[s]: the one of the latest interval, or NoBar

mapVars == <<held, newest>>

MapInit ==
    /\ held = [s \in Symbols |-> {}]
    /\ newest = [s \in Symbols |-> NoBar]

LiveComplete(bar) == bar.isFinal /\ bar.complete /\ ~bar.backfilled

\* May new take the place of old, a snapshot of the same interval?
MayImprove(old, new) ==
    /\ old.isFinal => new.isFinal
    /\ LiveComplete(old) => ~new.backfilled

\* The snapshot of a set with the latest interval.
NewestOf(S) == CHOOSE bar \in S : \A other \in S : other.start <= bar.start

Becomes(s, S) ==
    /\ held' = [held EXCEPT ![s] = S]
    /\ newest' = [newest EXCEPT ![s] = NewestOf(S)]

\* A better snapshot of an interval that is held.
Improve(bar) ==
    \E old \in held[bar.symbol] :
        /\ old.start = bar.start
        /\ MayImprove(old, bar)
        /\ Becomes(bar.symbol, (held[bar.symbol] \ {old}) \cup {bar})

\* An interval that is not held, with room for it.
Extend(bar) ==
    /\ \A old \in held[bar.symbol] : old.start # bar.start
    /\ Cardinality(held[bar.symbol]) < Limit
    /\ Becomes(bar.symbol, held[bar.symbol] \cup {bar})

\* An interval that is not held and later than the oldest, which it displaces.
Displace(bar) ==
    /\ \A old \in held[bar.symbol] : old.start # bar.start
    /\ Cardinality(held[bar.symbol]) = Limit
    /\ \E oldest \in held[bar.symbol] :
        /\ oldest.start < bar.start
        /\ \A other \in held[bar.symbol] : oldest.start <= other.start
        /\ Becomes(bar.symbol, (held[bar.symbol] \ {oldest}) \cup {bar})

\* A step takes in one snapshot, the one that is held after it and was not
\* before.
MapNext ==
    \E s \in Symbols : \E bar \in held'[s] \ held[s] :
        /\ bar \in Snapshot /\ bar.symbol = s
        /\ Improve(bar) \/ Extend(bar) \/ Displace(bar)

MapSpec == MapInit /\ [][MapNext]_mapVars
=============================================================================

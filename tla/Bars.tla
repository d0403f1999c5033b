-------------------------------- MODULE Bars --------------------------------
(***************************************************************************)
(* The market bar as the model path sees it (internal/domain): which bars  *)
(* may be evaluated, and how a bar's interval relates to the previous one. *)
(*                                                                         *)
(* Time is counted in ticks; Minute of them make one UTC minute, so that   *)
(* intervals off the minute grid exist too.  NoTime is Go's zero           *)
(* time.Time and also stands for "no previous interval": the zero time is  *)
(* never aligned, so no bar that is kept anywhere starts at it.            *)
(***************************************************************************)
EXTENDS Integers

CONSTANTS
    Symbols,    \* the configured symbols
    MaxTime,    \* bound: the last tick an interval may start at
    Minute      \* ticks in one minute

ASSUME BarsAssumption == MaxTime \in Nat /\ Minute \in Nat \ {0}

NoTime == 0
Times == 1..MaxTime

\* A bar, reduced to what decides its path: whose it is, when its interval
\* starts, and the three fields eligibility is computed from.
Bar == [symbol : Symbols, start : Times,
        isFinal : BOOLEAN, complete : BOOLEAN, backfilled : BOOLEAN]

\* A live, closed bar, the only kind the model path carries.
LiveBar(s, t) == [symbol |-> s, start |-> t,
                  isFinal |-> TRUE, complete |-> TRUE, backfilled |-> FALSE]

ModelEligible(bar) == bar.isFinal /\ bar.complete /\ ~bar.backfilled

MinuteAligned(t) == t % Minute = 0

\* The causal class of a bar starting at curr after one starting at prev
\* (NoTime: there was none).  Only the order and the grid matter: a jump of
\* several minutes is irregular, not a gap.
ClassifyBarContinuity(prev, curr) ==
    IF curr = NoTime \/ ~MinuteAligned(curr) THEN "unaligned"
    ELSE IF prev = NoTime THEN "first"
    ELSE IF curr = prev THEN "duplicate"
    ELSE IF curr < prev THEN "regression"
    ELSE IF (curr - prev) % Minute # 0 THEN "unaligned"
    ELSE IF curr - prev = Minute THEN "normal" ELSE "irregular"

\* The classes a causal consumer goes on with.
Continues(prev, curr) ==
    ClassifyBarContinuity(prev, curr) \in {"first", "normal", "irregular"}
=============================================================================

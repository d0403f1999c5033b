---------------------------- MODULE PriceEngine ----------------------------
(***************************************************************************)
(* The price engine of one symbol (internal/pricing/pipeline.go) with its  *)
(* emission policy (policy.go) and its cockpit (cockpit.go).  The newest   *)
(* bar only completes the one before it: that is the active row, whose     *)
(* derivatives are fitted over DerivativeWindow rows and whose dynamics    *)
(* over F4Window rows, of a history kept just long enough for both.  Each  *)
(* numerical result is an outcome: a fit succeeds or not, the projection   *)
(* fails or gives a trajectory of which only the size of the slopes        *)
(* against epsilon (here 1) matters.  The thresholds are those of          *)
(* DefaultConfig, in integers.                                             *)
(***************************************************************************)
EXTENDS Integers, Sequences, FiniteSets

CONSTANTS
    DerivativeWindow,         \* Config.DerivativeWindow
    F4Window,                 \* Config.F4Window
    PersistenceObservations,  \* Config.PersistenceObservations
    CandidateHold,            \* Config.CandidateHoldObservations
    MaxPriceBars,             \* bound: bars committed
    MaxSlope                  \* bound: size of a slope, in epsilons

ASSUME PriceAssumption ==
    /\ DerivativeWindow \in Nat /\ DerivativeWindow >= 2
    /\ F4Window \in Nat /\ F4Window >= 3
    /\ PersistenceObservations \in Nat /\ CandidateHold \in Nat
    /\ MaxPriceBars \in Nat /\ MaxSlope \in Nat

VARIABLES
    price,           \* the engine: rows, received, policy, cockpit
    priceCandidate,  \* a prepared step, or NoPriceCandidate
    priceStatus,     \* status of the last committed bar
    fitted           \* for the properties: per committed bar, whether the
                     \* derivatives of its active row could be fitted

priceVars == <<price, priceCandidate, priceStatus, fitted>>

Abs(x) == IF x < 0 THEN -x ELSE x
Larger(x, y) == IF x > y THEN x ELSE y

\* Mutant: the newest bar, which only completes the active row, has no place.
HistoryLimit_NoPending == Larger(DerivativeWindow, F4Window)
HistoryLimit == Larger(DerivativeWindow, F4Window) + 1

Epsilon == 1
Colors == {"GREEN", "AMBER", "RED", "INVALID"}
NoTurn == "NONE"
Directions == {"UP", "DOWN", NoTurn}
PriceStatuses == {"WARMUP_DERIVATIVE", "WARMUP_F4", "F4_FIT_UNAVAILABLE",
                  "EMITTED", "RK45_FAILURE"}    \* as domain/price.go stores them

\* p: p1 and p2 are finite; jp: so is their jump from the row before.
Row == [p : BOOLEAN, jp : BOOLEAN]
PolicyState == [previous : Colors \cup {""}, pending : Colors \cup {""}]
CockpitState == [previous : Colors \cup {""}, opposing : Directions,
                 opposed : Nat, candidate : Directions, age : Nat]
PriceEngineState ==
    [rows : Seq(Row), received : 0..MaxPriceBars,
     policy : PolicyState, cockpit : CockpitState]

NoPriceCandidate == [status |-> "NONE"]

PriceTypeOK ==
    /\ price \in PriceEngineState /\ Len(price.rows) <= HistoryLimit
    /\ priceStatus \in PriceStatuses \cup {"NONE"}
    /\ \/ priceCandidate = NoPriceCandidate
       \/ priceCandidate.engine \in PriceEngineState
    /\ fitted \in Seq(BOOLEAN) /\ Len(fitted) = price.received

ColdCockpit(color) == [previous |-> color, opposing |-> NoTurn, opposed |-> 0,
                       candidate |-> NoTurn, age |-> 0]
ColdPrice ==
    [rows |-> <<>>, received |-> 0,
     policy |-> [previous |-> "", pending |-> ""], cockpit |-> ColdCockpit("")]

PriceInit ==
    /\ price = ColdPrice /\ priceCandidate = NoPriceCandidate
    /\ priceStatus = "NONE" /\ fitted = <<>>

-----------------------------------------------------------------------------
(* The emission policy.  A trajectory is p1, the sign of p2, the projected *)
(* p1 and whether confidence is low.                                       *)
Slopes == -MaxSlope..MaxSlope
Trajectory == [p1 : Slopes, p2 : -1..1, projected : Slopes, low : BOOLEAN]

phase(t) ==
    CASE Abs(t.p1) <= Epsilon /\ t.projected > Epsilon  -> "TURNING_UP"
      [] Abs(t.p1) <= Epsilon /\ t.projected < -Epsilon -> "TURNING_DOWN"
      [] Abs(t.p1) <= Epsilon /\ Abs(t.projected) <= Epsilon
                                                        -> "NEAR_STATIONARY"
      [] t.p1 > Epsilon /\ t.projected <= -Epsilon      -> "TURNING_DOWN"
      [] t.p1 < -Epsilon /\ t.projected >= Epsilon      -> "TURNING_UP"
      [] t.p1 > Epsilon /\ t.projected > -Epsilon ->
            IF t.p2 > 0 THEN "UP_ACCELERATING" ELSE "UP_DECELERATING"
      [] t.p1 < -Epsilon /\ t.projected < Epsilon ->
            IF t.p2 > 0 THEN "DOWN_DECELERATING" ELSE "DOWN_ACCELERATING"

rawColor(t) ==
    IF t.low THEN "AMBER"
    ELSE IF phase(t) \in {"UP_ACCELERATING", "TURNING_UP"}
            /\ t.projected > Epsilon THEN "GREEN"
    ELSE IF phase(t) \in {"DOWN_ACCELERATING", "TURNING_DOWN"}
            /\ t.projected < -Epsilon THEN "RED"
    ELSE "AMBER"

Reverses(from, to) == {from, to} = {"GREEN", "RED"}

\* emit, for a trajectory.
emit(t, policy) ==
    IF Reverses(policy.previous, rawColor(t)) /\ policy.pending # rawColor(t)
    THEN [previous |-> "AMBER", pending |-> rawColor(t)]
    ELSE [previous |-> rawColor(t), pending |-> ""]

-----------------------------------------------------------------------------
(* The cockpit: the colour of the present slope, unless a turn is coming.  *)
Direction(slope) ==
    IF slope > Epsilon THEN "UP" ELSE IF slope < -Epsilon THEN "DOWN"
    ELSE NoTurn

\* Mutant: a projected rise through zero is not seen.
Crossing_DownOnly(t) ==
    IF t.p1 > Epsilon /\ t.projected <= 0 THEN "DOWN" ELSE NoTurn
Crossing(t) ==
    CASE t.p1 > Epsilon /\ t.projected <= 0 -> "DOWN"
      [] t.p1 < -Epsilon /\ t.projected >= 0 -> "UP"
      [] OTHER -> NoTurn

Opposing(t) ==
    CASE t.p1 > Epsilon /\ t.p2 < 0 /\ t.projected < t.p1 -> "DOWN"
      [] t.p1 < -Epsilon /\ t.p2 > 0 /\ t.projected > t.p1 -> "UP"
      [] OTHER -> NoTurn

\* |projected p1| is at most 0.9 of the scale of the velocities, and the
\* change against the slope at least 0.05 of it.
NearZero(t) ==
    LET scale == Larger(Larger(Abs(t.p1), Abs(t.projected)), Epsilon)
    IN 10 * Abs(t.projected) <= 9 * scale
StrongDeceleration(t) ==
    Opposing(t) # NoTurn /\
    20 * Abs(t.p1 - t.projected) >= Larger(Abs(t.p1), Epsilon)

\* observe, for a trajectory.
observe(t, cockpit) ==
    LET opposed == IF Opposing(t) = NoTurn THEN 0
                   ELSE IF Opposing(t) = cockpit.opposing
                        THEN cockpit.opposed + 1 ELSE 1
        fresh == IF Crossing(t) # NoTurn THEN Crossing(t)
                 ELSE IF opposed >= PersistenceObservations /\ NearZero(t)
                         /\ StrongDeceleration(t)
                      THEN Opposing(t) ELSE NoTurn
        held == fresh = NoTurn /\ cockpit.candidate # NoTurn
                /\ cockpit.age < CandidateHold
        turn == IF held THEN cockpit.candidate ELSE fresh
        age == IF turn = NoTurn THEN 0
               ELSE IF turn = cockpit.candidate THEN cockpit.age + 1 ELSE 1
        slope == CASE Direction(t.p1) = "UP" -> "GREEN"
                   [] Direction(t.p1) = "DOWN" -> "RED"
                   [] OTHER -> "AMBER"
        color == IF turn # NoTurn \/ Reverses(cockpit.previous, slope)
                 THEN "AMBER" ELSE slope
    IN [previous |-> color, opposing |-> Opposing(t), opposed |-> opposed,
        candidate |-> turn, age |-> age]

-----------------------------------------------------------------------------
(* apply.  The engine that a bar makes of an engine, up to its emission.   *)
Appended(rows) ==
    LET longer == Append(rows, [p |-> FALSE, jp |-> FALSE])
    IN IF Len(longer) > HistoryLimit THEN Tail(longer) ELSE longer

\* The active row is the one before the newest; it has finite derivatives if
\* the history holds their whole window and the fit succeeds.
Finite(engine, fits) ==
    fits /\ Len(Appended(engine.rows)) - 1 >= DerivativeWindow

\* The history with the active row completed.
Completed(engine, fits) ==
    LET rows == Appended(engine.rows)
        active == Len(rows) - 1
    IN IF Finite(engine, fits)
       THEN [rows EXCEPT ![active] =
                [p |-> TRUE, jp |-> active > 1 /\ rows[active - 1].p]]
       ELSE rows

JpReady(rows, received) ==
    /\ received - 2 >= F4Window
    /\ Len(rows) > F4Window
    /\ \A i \in Len(rows) - F4Window..Len(rows) - 1 : rows[i].jp

\* What follows a completed history: the dynamics fit or do not, and are
\* projected with success or not.
Outcomes(engine, fits) ==
    LET rows == Completed(engine, fits)
        received == engine.received + 1
        silent == [engine EXCEPT !.rows = rows, !.received = received]
        Ended(status, e) == [status |-> status, fits |-> fits, engine |-> e]
    IN IF ~Finite(engine, fits) THEN {Ended("WARMUP_DERIVATIVE", silent)}
       ELSE IF ~JpReady(rows, received) THEN {Ended("WARMUP_F4", silent)}
       ELSE {Ended("F4_FIT_UNAVAILABLE", silent),
             Ended("RK45_FAILURE",
                [silent EXCEPT
                   !.policy = [previous |-> "INVALID", pending |-> ""],
                   !.cockpit = ColdCockpit("INVALID")])}
            \cup {Ended("EMITTED",
                     [silent EXCEPT !.policy = emit(t, @),
                                    !.cockpit = observe(t, @)]) :
                     t \in Trajectory}

-----------------------------------------------------------------------------
\* PrepareStep, on a clone; a bar of another entity is refused.  A fit cannot
\* succeed before there have been DerivativeWindow rows.
PricePrepare ==
    /\ price.received < MaxPriceBars
    /\ \/ \E fits \in BOOLEAN :
             /\ fits => price.received >= DerivativeWindow
             /\ priceCandidate' \in Outcomes(price, fits)
       \/ priceCandidate' = NoPriceCandidate
    /\ UNCHANGED <<price, priceStatus, fitted>>

PriceCommit ==
    /\ priceCandidate # NoPriceCandidate
    /\ price' = priceCandidate.engine
    /\ priceStatus' = priceCandidate.status
    /\ fitted' = Append(fitted, priceCandidate.fits)
    /\ priceCandidate' = NoPriceCandidate

\* ResetSymbol, between two bars: an engine of its own takes over.
PriceReset ==
    /\ price.received > 0 /\ priceCandidate = NoPriceCandidate
    /\ price' = ColdPrice /\ priceStatus' = "NONE" /\ fitted' = <<>>
    /\ UNCHANGED priceCandidate

PriceNext == PricePrepare \/ PriceCommit \/ PriceReset
PriceSpec == PriceInit /\ [][PriceNext]_priceVars

-----------------------------------------------------------------------------
\* Were the derivatives of this row fitted, when the bar after it came?
Solved(run, row) == row \in 1..Len(run) - 1 /\ run[row + 1]

\* The history is forgotten just late enough: the engine gets as far as the
\* dynamics for a bar exactly when the F4Window + 1 rows before it all have
\* derivatives, counted over every bar committed since the last reset; until
\* then it says which of the two it waits for, whatever was discarded on the
\* way (pipeline.go 175-225, config.go 61-71).
EmissionSchedule ==
    LET newest == Len(fitted)
    IN newest > 0 =>
        /\ (priceStatus = "WARMUP_DERIVATIVE") <=> ~Solved(fitted, newest - 1)
        /\ (priceStatus \in {"F4_FIT_UNAVAILABLE", "EMITTED", "RK45_FAILURE"})
           <=> \A row \in newest - 1 - F4Window..newest - 1 :
                  Solved(fitted, row)

Shown == <<price.policy.previous, price.cockpit.previous>>

\* The policy and the cockpit judge one trajectory by rules of their own and
\* are shown side by side: they never show opposite colours, they are invalid
\* together, and neither turns from GREEN to RED or back in one bar.
ColoursAgree ==
    [][price' # ColdPrice =>
          /\ Shown'[1] = "INVALID" <=> Shown'[2] = "INVALID"
          /\ {Shown'[1], Shown'[2]} # {"GREEN", "RED"}
          /\ \A i \in 1..2 : {Shown[i], Shown'[i]} # {"GREEN", "RED"}]_price
=============================================================================

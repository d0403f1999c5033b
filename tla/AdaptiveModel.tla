--------------------------- MODULE AdaptiveModel ---------------------------
(***************************************************************************)
(* One evaluation of the adaptive model (internal/adaptive): D01 makes a   *)
(* state and a forward path of an observation, D02 a return shape of these *)
(* and D04 the hard eligibility of the shape; each checks what it is       *)
(* given, and D02 has D01's configured bounds as literals of its own.      *)
(*                                                                         *)
(* Times are seconds, half-lives and intervals too, velocities whole       *)
(* numbers.  A level enters with its sign.  Of the quantities between 0    *)
(* and 1 - strength, coherence, persistence, uncertainty, reversal - all   *)
(* of them sigmoids or averages, only what they do to half-life and        *)
(* interval is kept, between its extremes.  The counters that nothing but  *)
(* the model's unread health field is made of are left out.                *)
(***************************************************************************)
EXTENDS Integers, Sequences, FiniteSetsExt

CONSTANTS
    MaxRise,    \* bound: change of the level per second, in 25s
    MaxDelay    \* bound: minutes from one bar to the next

ASSUME AdaptiveModelAssumption == MaxRise \in Nat /\ MaxDelay \in Nat

Rises == {25 * k : k \in -MaxRise..MaxRise}
Delays == {60 * k : k \in -1..MaxDelay}

-----------------------------------------------------------------------------
(* The configuration (config.go).                                          *)
VelocityBound == 50
\* Mutant: the half-life's floor is lowered on one side only.
MinHalfLife_Lowered == 10
MinHalfLife == 15
MaxHalfLife == 900
BaselineHalfLife == 120
MinInterval == 10
MaxInterval == 600
BaselineInterval == 60

\* (i/8)^1.8 of the interval, in hundredths: where the path is sampled.
SampleAt == <<2, 8, 17, 29, 43, 60, 79, 100>>

Clamp(x, low, high) == IF x < low THEN low ELSE IF x > high THEN high ELSE x
Sign(x) == IF x > 0 THEN 1 ELSE IF x < 0 THEN -1 ELSE 0
Magnitude(x) == IF x < 0 THEN -x ELSE x

-----------------------------------------------------------------------------
VARIABLES
    d01,       \* the committed RuntimeState
    evaluation \* what the last bar came to: its path and H, or a refusal

modelVars == <<d01, evaluation>>

\* seen: there has been an observation.
RuntimeState ==
    [seen : BOOLEAN, level : -1..1, velocity : -VelocityBound..VelocityBound,
     halfLife : MinHalfLife..MaxHalfLife]

Refusals == {"INVALID_INPUT", "DUPLICATE_OR_REGRESSION", "ENGINE_ERROR"}
Refused(reason) == [refusal |-> reason]
Evaluated(path, h) == [refusal |-> "none", path |-> path, h |-> h]

NewRuntimeState ==
    [seen |-> FALSE, level |-> 0, velocity |-> 0,
     halfLife |-> BaselineHalfLife]

ModelInit == d01 = NewRuntimeState /\ evaluation = Refused("none yet")

\* What a bar brings: whether its numbers are finite, how long after the last
\* one it starts, how fast the level it gives has changed and its sign.  The
\* first level is measured from the first price itself.
Observation(state) ==
    [finite : BOOLEAN, dt : IF state.seen THEN Delays ELSE {1},
     rise : IF state.seen THEN Rises ELSE {0},
     level : IF state.seen THEN -1..1 ELSE {0}]

\* A level that has risen is not below the one before, and the reverse.
Plausible(state, obs) ==
    /\ Sign(obs.rise) * obs.level >= Sign(obs.rise) * state.level
    /\ obs.rise = 0 => obs.level = state.level

-----------------------------------------------------------------------------
(* D01.                                                                    *)
Velocity(obs) == Clamp(obs.rise, -VelocityBound, VelocityBound)

\* What the bar is to the state: along it, against it, or unclear.  The
\* residual, level against prediction, has the sign of rise - velocity.
PerturbationClass(state, obs) ==
    LET heading == IF state.level # 0 THEN state.level
                   ELSE Sign(state.velocity)
        evidence == Sign(obs.rise - state.velocity)
    IN CASE evidence = 0 -> "NONE"
         [] heading = 0 -> "STRUCTURAL/UNKNOWN"
         [] evidence = heading -> "REINFORCING"
         [] evidence = -heading ->
               IF Sign(Velocity(obs)) = -heading THEN "REVERSING"
               ELSE "CONTRADICTING"

Adverse(class) == class \in {"CONTRADICTING", "REVERSING", "STRUCTURAL/UNKNOWN"}

\* adaptHalfLife: reinforced by up to a fifth or shortened by up to 35 %, by a
\* quarter more after an adverse bar.  In multiples of HalfLifeStep.
HalfLifeStep == 15
AdaptedHalfLife(current, percent, class) ==
    LET quarters == current * percent * (IF Adverse(class) THEN 3 ELSE 4)
        steps == quarters \div (400 * HalfLifeStep)
    IN Clamp(steps * HalfLifeStep, MinHalfLife, MaxHalfLife)

\* computeForwardInterval: the baseline times factors that multiply up to
\* between 9 % and 186 %.
ForwardInterval(percent) ==
    Clamp((BaselineInterval * percent) \div 100, MinInterval, MaxInterval)

\* The state after a bar; gain stands for the quantities' part in it.
D01State(state, obs, gain) ==
    [seen |-> TRUE, level |-> obs.level, velocity |-> Velocity(obs),
     halfLife |-> AdaptedHalfLife(state.halfLife, gain,
                                  PerturbationClass(state, obs))]

\* level + v tau + a tau^2 / 2, with a = (v - previous v) / dt: the change of
\* level over a hundredth w of the interval, times a positive factor that is
\* the same for all w.
Displacement(state, obs, interval, w) ==
    (200 * Velocity(obs) * obs.dt
        + (Velocity(obs) - state.velocity) * interval * w) * w

\* The forward path of a state (FMO): samples with their times, in hundredths.
ForwardPath(state, obs, interval) ==
    [interval |-> interval,
     samples |->
        [i \in DOMAIN SampleAt |->
            [tau |-> interval * SampleAt[i], velocity |-> Velocity(obs),
             change |-> Displacement(state, obs, interval, SampleAt[i])]]]

-----------------------------------------------------------------------------
(* D02 and D04.                                                            *)
\* validateD02Input, with its own bounds.
ValidInput(dmo, fmo) ==
    LET s == fmo.samples
    IN /\ fmo.interval \in 10..600
       /\ dmo.halfLife \in 15..900
       /\ s # <<>>
       /\ s[1].tau > 0 /\ \A i \in 2..Len(s) : s[i].tau > s[i - 1].tau
       /\ \A i \in DOMAIN s : s[i].tau <= 100 * fmo.interval
                              /\ s[i].velocity \in -50..50
       /\ s[Len(s)].tau = 100 * fmo.interval

Largest(fmo) ==
    Max({Magnitude(fmo.samples[i].change) : i \in DOMAIN fmo.samples})

\* BuildReturnShape.
ReturnShape(fmo) ==
    LET terminal == fmo.samples[Len(fmo.samples)].change
    IN [samples |-> fmo.samples, interval |-> fmo.interval,
        terminal |-> terminal, maximum |-> Largest(fmo), path |-> Sign(terminal)]

\* D04's ValidateReturnShape works it all out again.
ValidShape(shape) ==
    /\ Magnitude(shape.terminal) <= shape.maximum
    /\ shape.terminal = shape.samples[Len(shape.samples)].change
    /\ shape.maximum = Largest(shape)
    /\ shape.path = Sign(shape.terminal)

\* A shape is good for its interval; ProductionContext has no opinion on the
\* market, and asks Lateness seconds after the shape's time.
Lateness == 0
HardEligibility(shape) == IF Lateness <= shape.interval THEN 1 ELSE 0

\* The last part of stepLocked before the decision: everything after D01 may
\* still refuse the bar.
Judged(dmo, fmo) ==
    IF ~ValidInput(dmo, fmo) \/ ~ValidShape(ReturnShape(fmo))
    THEN Refused("ENGINE_ERROR")
    ELSE Evaluated(ReturnShape(fmo).path, HardEligibility(ReturnShape(fmo)))

-----------------------------------------------------------------------------
\* A bar is refused at the door.
RefuseBar ==
    \E obs \in Observation(d01) :
        /\ \/ ~obs.finite /\ evaluation' = Refused("INVALID_INPUT")
           \/ /\ obs.finite /\ obs.dt <= 0
              /\ evaluation' = Refused("DUPLICATE_OR_REGRESSION")
        /\ UNCHANGED d01

\* D01, D02 and D04 one after the other, on a copy that is kept if all of
\* them accept.
EvaluateBar ==
    \E obs \in Observation(d01), gain \in {65, 120},
       percent \in {9, 186} :
        /\ obs.finite /\ obs.dt > 0 /\ Plausible(d01, obs)
        /\ LET dmo == D01State(d01, obs, gain)
               fmo == ForwardPath(d01, obs, ForwardInterval(percent))
           IN /\ evaluation' = Judged(dmo, fmo)
              /\ d01' = IF evaluation'.refusal = "none" THEN dmo ELSE d01

ModelReset ==
    /\ d01.seen
    /\ d01' = NewRuntimeState /\ evaluation' = Refused("none yet")

ModelNext == RefuseBar \/ EvaluateBar \/ ModelReset
ModelSpec == ModelInit /\ [][ModelNext]_modelVars

-----------------------------------------------------------------------------
ModelTypeOK == d01 \in RuntimeState

\* Whatever finite, later bars have come, the next one is evaluated and may
\* lead to a trade: D01 never leaves the bounds that D02 has on its own, the
\* sampled path ends where it must, D04 finds the shape that D02 built, and
\* the eligibility H of a shape that has just been made is 1 (config.go
\* 129-215, d02.go 121-199, d04.go 34-66, engine.go 145-180).
LaterBarsEvaluated ==
    /\ evaluation.refusal # "ENGINE_ERROR"
    /\ evaluation.refusal = "none" => evaluation.h = 1
=============================================================================

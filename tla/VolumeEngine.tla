---------------------------- MODULE VolumeEngine ----------------------------
(***************************************************************************)
(* The volume engine of one symbol (internal/volume): a bar is prepared on *)
(* a clone of the state and adopted only by an engine of the generation it *)
(* was cloned from.  The state holds the last RawWindow raw volumes with   *)
(* the ratio V_N of each to the median of its window - or a hole, where    *)
(* that was not defined, which keeps its place - and the colour machine.   *)
(* Ratios are integers in units of 1/Scale, exact for the volumes used.    *)
(***************************************************************************)
EXTENDS Integers, Sequences, FiniteSets, SequencesExt

CONSTANTS
    RawWindow,          \* RawWindow, and IntervalMeanWindow
    V1V2Window,         \* DerivativeWindow
    ConfirmationCount,  \* ConfirmationCount
    Volumes,            \* V_RAW of a bar
    Scale,              \* a multiple of every volume
    MaxGen              \* bound: commits and resets

\* rollingMedian15 takes the middle of an odd number of volumes.
ASSUME VolumeAssumption ==
    /\ RawWindow \in Nat /\ RawWindow % 2 = 1
    /\ V1V2Window \in 1..RawWindow
    /\ ConfirmationCount \in Nat \ {0} /\ MaxGen \in Nat
    /\ Volumes \subseteq Nat /\ Scale \in Nat \ {0}
    /\ \A v \in Volumes \ {0} : Scale % v = 0

Undefined == -1     \* NaN at a position, or an undefined median
VolumeColors == {"", "GREEN", "AMBER", "RED"}

VARIABLES
    volume,           \* the engine: gen, raw, vn, interpretation
    volumeCandidate,  \* the last prepared engine and its status
    history,          \* for the properties: volumes committed since the reset
    volumeStatus      \* for the properties: status of the last of them

volumeVars == <<volume, volumeCandidate, history, volumeStatus>>

\* The middle one: copied[7] of 15.
rollingMedian15(window) == SortSeq(window, <)[RawWindow \div 2 + 1]

\* normalizeFromRaw, of a whole window that ends with the current volume.
Normalized(window) ==
    LET median == rollingMedian15(window)
    IN IF median = 0 THEN Undefined
       ELSE window[RawWindow] * (Scale \div median)

\* What may stand at a position.
Ratios == {Normalized(window) : window \in [1..RawWindow -> Volumes]}
          \cup {Undefined}

VolumeEngineState ==
    [gen : 0..MaxGen, raw : Seq(Volumes), vn : Seq(Ratios),
     interpretation : [color : VolumeColors, pending : VolumeColors,
                       count : 0..ConfirmationCount]]
NoVolumeCandidate == [status |-> "NONE"]

VolumeTypeOK ==
    /\ volume \in VolumeEngineState
    /\ Len(volume.raw) = Len(volume.vn) /\ Len(volume.raw) <= RawWindow
    /\ \/ volumeCandidate = NoVolumeCandidate
       \/ volumeCandidate.engine \in VolumeEngineState
    /\ history \in Seq(Volumes)
    /\ volumeStatus \in {"NONE", "MATURING", "AVAILABLE", "INVALID"}

ColdVolume(gen) ==
    [gen |-> gen, raw |-> <<>>, vn |-> <<>>,
     interpretation |-> [color |-> "", pending |-> "", count |-> 0]]

VolumeInit ==
    /\ volume = ColdVolume(0) /\ volumeCandidate = NoVolumeCandidate
    /\ history = <<>> /\ volumeStatus = "NONE"

-----------------------------------------------------------------------------
(* Features.                                                               *)
LastWindow(seq) ==
    IF Len(seq) > RawWindow THEN SubSeq(seq, Len(seq) - RawWindow + 1, Len(seq))
    ELSE seq

AppendPositional(vn, value) == LastWindow(Append(vn, value))

\* The feature part of AdvanceFeatures.
Advanced(engine, v) ==
    LET raw == LastWindow(Append(engine.raw, v))
        value == IF Len(raw) < RawWindow THEN Undefined ELSE Normalized(raw)
    IN [engine EXCEPT !.raw = raw, !.vn = AppendPositional(@, value)]

LastFinite(engine, n) ==
    /\ Len(engine.vn) >= n
    /\ \A i \in Len(engine.vn) - n + 1..Len(engine.vn) :
          engine.vn[i] # Undefined

SumOf(seq) == FoldLeft(LAMBDA sum, x : sum + x, 0, seq)

-----------------------------------------------------------------------------
(* Interpretation: bands at 0.9 and 1.1 of the mean, then confirmation.    *)
bandColor(sum) ==
    IF 10 * sum >= 11 * RawWindow * Scale THEN "GREEN"
    ELSE IF 10 * sum <= 9 * RawWindow * Scale THEN "RED" ELSE "AMBER"

\* Mutant: a pending colour counts whatever colour was pending before it.
PendingCount_AnyColor(raw, prior) == prior.count + 1
PendingCount(raw, prior) == IF prior.pending = raw THEN prior.count + 1 ELSE 1

confirmColor(raw, prior) ==
    IF prior.color \in {"", raw}
    THEN [color |-> raw, pending |-> "", count |-> 0]
    ELSE IF PendingCount(raw, prior) < ConfirmationCount
    THEN [color |-> "AMBER", pending |-> raw,
           count |-> PendingCount(raw, prior)]
    ELSE [color |-> raw, pending |-> "", count |-> PendingCount(raw, prior)]

\* Interpret: without a mean there is no colour, and the machine stands still.
Interpreted(engine) ==
    IF LastFinite(engine, RawWindow)
    THEN [engine EXCEPT
             !.interpretation = confirmColor(bandColor(SumOf(engine.vn)), @)]
    ELSE engine

\* Whether V1 and V2 are there: the bars are of different minutes, so the fit
\* has full rank whenever its ratios are defined.
derivativesFromState(engine) == LastFinite(engine, V1V2Window)

classifyOutput(engine) ==
    IF LastFinite(engine, RawWindow) /\ derivativesFromState(engine)
    THEN "AVAILABLE"
    ELSE IF Len(engine.raw) = RawWindow /\ ~LastFinite(engine, 1) THEN "INVALID"
    ELSE "MATURING"

-----------------------------------------------------------------------------
\* PrepareStep: of the engine the host holds now; another entity is refused.
VolumePrepare ==
    /\ volume.gen < MaxGen
    /\ \/ \E v \in Volumes :
             LET engine == Interpreted(Advanced(volume, v))
             IN volumeCandidate' = [engine |-> engine, volume |-> v,
                                    status |-> classifyOutput(engine)]
       \/ volumeCandidate' = NoVolumeCandidate
    /\ UNCHANGED <<volume, history, volumeStatus>>

\* Mutant: any candidate is adopted.
SameGeneration_Any(candidate, engine) == TRUE
SameGeneration(candidate, engine) == candidate.gen = engine.gen

\* Commit, perhaps of a candidate that is stale or was committed before.
VolumeCommit ==
    /\ volumeCandidate # NoVolumeCandidate /\ volume.gen < MaxGen
    /\ SameGeneration(volumeCandidate.engine, volume)
    /\ volume' = [volumeCandidate.engine EXCEPT !.gen = volume.gen + 1]
    /\ history' = Append(history, volumeCandidate.volume)
    /\ volumeStatus' = volumeCandidate.status
    /\ UNCHANGED volumeCandidate

\* Reset of the engine, or the host's ResetSymbol, which puts a new one in its
\* place; either may come between a Prepare and its Commit.
VolumeReset ==
    /\ history # <<>> /\ volume.gen < MaxGen
    /\ \E gen \in {0, volume.gen + 1} : volume' = ColdVolume(gen)
    /\ history' = <<>> /\ volumeStatus' = "NONE"
    /\ UNCHANGED volumeCandidate

VolumeNext == VolumePrepare \/ VolumeCommit \/ VolumeReset
VolumeSpec == VolumeInit /\ [][VolumeNext]_volumeVars

-----------------------------------------------------------------------------
(* What the documents say of a run of volumes, from the volumes alone.     *)

\* V_N of bar i, of the window that ends with it; whether it is there: the
\* window is full, and of a positive median.
Ratio(run, i) == Normalized(SubSeq(run, i - RawWindow + 1, i))
Defined(run, i) == i >= RawWindow /\ Ratio(run, i) # Undefined

\* The mean at bar i needs every V_N of its window, none borrowed from before
\* it.
MeanDefined(run, i) ==
    i >= RawWindow /\ \A j \in i - RawWindow + 1..i : Defined(run, j)

MeanColor(run, i) ==
    bandColor(SumOf([k \in 1..RawWindow |-> Ratio(run, i - RawWindow + k)]))

\* The last of the first n bars that had a mean.
LatestMean(run, i, n) ==
    /\ i \in 1..n /\ MeanDefined(run, i)
    /\ \A j \in i + 1..n : ~MeanDefined(run, j)

\* Whatever was prepared and dropped, refused, stale, or cut off by a reset,
\* and although only one window is kept, the status of a bar is that of the
\* whole run committed since the reset: AVAILABLE exactly when every ratio in
\* the window of the mean is defined, INVALID exactly when the bar's own ratio
\* is due and is not (engine.go 83-133, 173-205).
StatusMatchesHistory ==
    LET n == Len(history)
    IN n > 0 =>
        /\ (volumeStatus = "AVAILABLE") <=> MeanDefined(history, n)
        /\ (volumeStatus = "INVALID")
           <=> (n >= RawWindow /\ ~Defined(history, n))

\* What bar i shows: its colour, if no bar had a mean before or the last one
\* that did agrees.
Indicated(run, i) ==
    IF \/ \A j \in 1..i - 1 : ~MeanDefined(run, j)
       \/ \E j \in 1..i - 1 : /\ LatestMean(run, j, i - 1)
                             /\ MeanColor(run, j) = MeanColor(run, i)
    THEN MeanColor(run, i) ELSE "AMBER"

\* The indicator, which remembers one colour and one count, shows a colour
\* exactly when the last two bars that had a mean agree on it - the first such
\* bar needs no other - and AMBER when they differ (interpretation.go 120-148).
IndicatorIsTwoAgreeing ==
    LET n == Len(history)
        color == volume.interpretation.color
    IN /\ (\A i \in 1..n : ~MeanDefined(history, i)) => color = ""
       /\ \A i \in 1..n :
             LatestMean(history, i, n) => color = Indicated(history, i)

\* A comment of the engine (engine.go 33-35): MATURING means that a required
\* input is not yet positionally due, and a due calculation that is undefined
\* is INVALID.  Every input is due once two windows have passed.
DueIsNotMaturing ==
    Len(history) >= 2 * RawWindow - 1 => volumeStatus # "MATURING"
=============================================================================

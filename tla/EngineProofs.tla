---------------------------- MODULE EngineProofs ----------------------------
(***************************************************************************)
(* What the engines of a symbol promise of a run of bars of any length:    *)
(* the D01/D02 numerics, the adaptive, the price and the volume engine.    *)
(*                                                                         *)
(* Numerics: however fast the level changes, however long the gaps and     *)
(* however many the bars, every later bar is evaluated.  Half-life and     *)
(* interval are clamped last, so they stay within D01's bounds whatever    *)
(* the arithmetic before has made of them, and these bounds are those that *)
(* D02 has; the samples of the path lie where SampleAt puts them.          *)
(*                                                                         *)
(* The engines: each keeps a bounded end of the run it has committed and   *)
(* judges by that.  Its invariant says what this end is - the last bars of *)
(* the run, each with what was made of it (Aligned, and the context of     *)
(* DecisionsFollowRecords) - and that a prepared step is one the engine as *)
(* it is now can take, so that what Commit adopts is never stale.          *)
(*                                                                         *)
(* The volume engine judges a whole run by one window and one remembered   *)
(* colour.  Windowed says what the window is: the last bars committed      *)
(* since the reset, each with its ratio, a hole where there is none.  With *)
(* CandidateOfItsGeneration - a candidate of the engine's own generation   *)
(* was prepared on this very engine, for generations are used again only   *)
(* from 0, where every engine is cold - a commit extends both alike, and   *)
(* the status is that of the run.  Machine says what the colour machine    *)
(* remembers: the last bar that had a mean, and whether it was confirmed.  *)
(***************************************************************************)
EXTENDS AdaptiveModel, AdaptiveEngine, PriceEngine, VolumeEngine,
        SequenceTheorems, TLAPS

-----------------------------------------------------------------------------
\* What a bar brings.

LEMMA ObservationTypes ==
    ASSUME NEW state \in RuntimeState, NEW obs \in Observation(state)
    PROVE  /\ obs.rise \in Int /\ obs.dt \in Int /\ obs.level \in -1..1
<1>1. Rises \subseteq Int /\ Delays \subseteq Int
  <2>1. \A k \in -MaxRise..MaxRise : 25 * k \in Int
    BY AdaptiveModelAssumption
  <2>2. \A k \in -1..MaxDelay : 60 * k \in Int
    BY AdaptiveModelAssumption
  <2> QED
    BY <2>1, <2>2 DEF Rises, Delays
<1>2. state.seen \in BOOLEAN
  BY DEF RuntimeState
<1>3. CASE state.seen
  BY <1>1, <1>3 DEF Observation
<1>4. CASE ~state.seen
  BY <1>4 DEF Observation
<1> QED
  BY <1>2, <1>3, <1>4

LEMMA VelocityBounded ==
    ASSUME NEW obs, obs.rise \in Int
    PROVE  Velocity(obs) \in -50..50
  BY DEF Velocity, VelocityBound, Clamp

\* Whatever the quantities and the class make of it.
LEMMA HalfLifeBounded ==
    ASSUME NEW current \in Int, NEW percent \in Int, NEW class
    PROVE  AdaptedHalfLife(current, percent, class) \in 15..900
<1> DEFINE factor == IF Adverse(class) THEN 3 ELSE 4
           quarters == current * percent * factor
<1>1. quarters \in Int
  <2>1. current * percent \in Int /\ factor \in Int
    OBVIOUS
  <2> HIDE DEF factor
  <2> QED
    BY <2>1
<1> DEFINE steps == quarters \div (400 * HalfLifeStep)
<1>2. steps * HalfLifeStep \in Int
  <2> HIDE DEF quarters
  <2>1. 400 * HalfLifeStep = 6000
    BY DEF HalfLifeStep
  <2>2. quarters \div 6000 \in Int
    BY <1>1
  <2> QED
    BY <2>1, <2>2 DEF HalfLifeStep
<1>3. AdaptedHalfLife(current, percent, class)
        = Clamp(steps * HalfLifeStep, MinHalfLife, MaxHalfLife)
  BY DEF AdaptedHalfLife
<1> HIDE DEF steps
<1> QED
  BY <1>2, <1>3 DEF Clamp, MinHalfLife, MaxHalfLife

LEMMA IntervalBounded ==
    ASSUME NEW percent \in Int
    PROVE  ForwardInterval(percent) \in 10..600
<1> DEFINE length == (BaselineInterval * percent) \div 100
<1>1. length \in Int
  BY DEF BaselineInterval
<1>2. ForwardInterval(percent) = Clamp(length, MinInterval, MaxInterval)
  BY DEF ForwardInterval
<1> HIDE DEF length
<1> QED
  BY <1>1, <1>2 DEF Clamp, MinInterval, MaxInterval

LEMMA DisplacementIsInteger ==
    ASSUME NEW state \in RuntimeState, NEW obs \in Observation(state),
           NEW interval \in Int, NEW w \in Int
    PROVE  Displacement(state, obs, interval, w) \in Int
<1>1. obs.dt \in Int /\ Velocity(obs) \in Int /\ state.velocity \in Int
  BY ObservationTypes, VelocityBounded DEF RuntimeState, VelocityBound
<1> DEFINE before == 200 * Velocity(obs) * obs.dt
           turn == (Velocity(obs) - state.velocity) * interval
<1>2. before \in Int
  BY <1>1
<1>3. turn \in Int
  BY <1>1
<1>4. turn * w \in Int
  BY <1>3
<1>5. (before + turn * w) * w \in Int
  BY <1>2, <1>4
<1> QED
  BY <1>5 DEF Displacement

-----------------------------------------------------------------------------
\* The path and its shape.

\* Of eight numbers one is the largest.
LEMMA MaxOfEight ==
    ASSUME NEW f \in [1..8 -> Int], NEW i \in 1..8
    PROVE  f[i] <= Max({f[j] : j \in 1..8})
<1> DEFINE S == {f[j] : j \in 1..8}
<1>1. \E m \in S : \A y \in S : m >= y
  <2>1. \E m \in 1..8 : \A y \in 1..8 : f[m] >= f[y]
    <3>1. /\ f[1] \in Int /\ f[2] \in Int /\ f[3] \in Int /\ f[4] \in Int
          /\ f[5] \in Int /\ f[6] \in Int /\ f[7] \in Int /\ f[8] \in Int
      OBVIOUS
    <3>2. \E m \in 1..8 :
            /\ f[m] >= f[1] /\ f[m] >= f[2] /\ f[m] >= f[3] /\ f[m] >= f[4]
            /\ f[m] >= f[5] /\ f[m] >= f[6] /\ f[m] >= f[7] /\ f[m] >= f[8]
      BY <3>1
    <3>3. \A y \in 1..8 : y = 1 \/ y = 2 \/ y = 3 \/ y = 4
                          \/ y = 5 \/ y = 6 \/ y = 7 \/ y = 8
      OBVIOUS
    <3> QED
      BY <3>2, <3>3
  <2> QED
    BY <2>1
<1>2. Max(S) \in S /\ \A y \in S : Max(S) >= y
  BY <1>1 DEF Max
<1> QED
  BY <1>2

Samples(state, obs, interval) == ForwardPath(state, obs, interval).samples

\* Eight samples, later and later, the last at the path's end.
EightInOrder(s, interval) ==
    /\ Len(s) = 8 /\ DOMAIN s = 1..8 /\ s # <<>>
    /\ s[1].tau > 0 /\ s[8].tau = 100 * interval
    /\ \A i \in 2..8 : s[i].tau > s[i - 1].tau
    /\ \A i \in 1..8 : s[i].tau <= 100 * interval
    /\ \A i \in 1..8 : s[i].velocity \in -50..50 /\ s[i].change \in Int

LEMMA SamplesInOrder ==
    ASSUME NEW state \in RuntimeState, NEW obs \in Observation(state),
           NEW interval \in 10..600
    PROVE  EightInOrder(Samples(state, obs, interval), interval)
<1> DEFINE Sample(w) ==
               [tau |-> interval * w, velocity |-> Velocity(obs),
                change |-> Displacement(state, obs, interval, w)]
           s == [i \in 1..8 |-> Sample(SampleAt[i])]
<1>1. DOMAIN SampleAt = 1..8 /\ \A i \in 1..8 : SampleAt[i] \in 1..100
  BY DEF SampleAt
<1>2. Samples(state, obs, interval) = s
  BY <1>1 DEF ForwardPath, Samples
<1>3. s \in Seq({s[i] : i \in 1..8})
  BY SeqDef
<1>4. Len(s) = 8
  BY <1>3, LenProperties
<1>5. \A i \in 1..8 : s[i].velocity \in -50..50 /\ s[i].change \in Int
  <2> TAKE i \in 1..8
  <2>1. s[i].velocity = Velocity(obs)
        /\ s[i].change = Displacement(state, obs, interval, SampleAt[i])
    OBVIOUS
  <2>2. Velocity(obs) \in -50..50
    BY ObservationTypes, VelocityBounded
  <2>3. SampleAt[i] \in Int /\ interval \in Int
    BY <1>1
  <2>4. Displacement(state, obs, interval, SampleAt[i]) \in Int
    BY <2>3, DisplacementIsInteger
  <2> QED
    BY <2>1, <2>2, <2>4
<1>6. \A i \in 1..8 : s[i].tau = interval * SampleAt[i]
  OBVIOUS
<1>7. /\ SampleAt[1] = 2 /\ SampleAt[2] = 8 /\ SampleAt[3] = 17
      /\ SampleAt[4] = 29 /\ SampleAt[5] = 43 /\ SampleAt[6] = 60
      /\ SampleAt[7] = 79 /\ SampleAt[8] = 100
  BY DEF SampleAt
<1>8. /\ s[1].tau = interval * 2 /\ s[2].tau = interval * 8
      /\ s[3].tau = interval * 17 /\ s[4].tau = interval * 29
      /\ s[5].tau = interval * 43 /\ s[6].tau = interval * 60
      /\ s[7].tau = interval * 79 /\ s[8].tau = interval * 100
  BY <1>6, <1>7
<1>9. \A i \in 1..8 : i = 1 \/ i = 2 \/ i = 3 \/ i = 4
                      \/ i = 5 \/ i = 6 \/ i = 7 \/ i = 8
  OBVIOUS
<1>10. \A i \in 1..8 : s[i].tau <= 100 * interval
  BY <1>8, <1>9
<1>11. \A i \in 2..8 : s[i].tau > s[i - 1].tau
  <2> TAKE i \in 2..8
  <2>1. i = 2 \/ i = 3 \/ i = 4 \/ i = 5 \/ i = 6 \/ i = 7 \/ i = 8
    OBVIOUS
  <2> HIDE DEF s
  <2>2. CASE i = 2
    BY <1>8, <2>2
  <2>3. CASE i = 3
    BY <1>8, <2>3
  <2>4. CASE i = 4
    BY <1>8, <2>4
  <2>5. CASE i = 5
    BY <1>8, <2>5
  <2>6. CASE i = 6
    BY <1>8, <2>6
  <2>7. CASE i = 7
    BY <1>8, <2>7
  <2>8. CASE i = 8
    BY <1>8, <2>8
  <2> QED
    BY <2>1, <2>2, <2>3, <2>4, <2>5, <2>6, <2>7, <2>8
<1>12. s # <<>> /\ DOMAIN s = 1..8
  BY <1>4
<1>13. s[1].tau > 0 /\ s[8].tau = 100 * interval
  BY <1>8
<1> HIDE DEF s
<1>14. EightInOrder(s, interval)
  BY <1>4, <1>5, <1>10, <1>11, <1>12, <1>13 DEF EightInOrder
<1> QED
  BY <1>2, <1>14

\* D04 finds the path that D02 has built within the bounds it asks for.
LEMMA InputAccepted ==
    ASSUME NEW state \in RuntimeState, NEW obs \in Observation(state),
           NEW interval \in 10..600, NEW dmo, dmo.halfLife \in 15..900
    PROVE  ValidInput(dmo, ForwardPath(state, obs, interval))
<1> DEFINE fmo == ForwardPath(state, obs, interval)
           s == Samples(state, obs, interval)
<1>1. fmo.samples = s /\ fmo.interval = interval
  BY DEF Samples, ForwardPath
<1>2. EightInOrder(s, interval)
  BY SamplesInOrder
<1> HIDE DEF s, fmo
<1>3. ValidInput(dmo, fmo)
  BY <1>1, <1>2 DEF ValidInput, EightInOrder
<1> QED
  BY <1>3 DEF fmo

\* D04 finds the shape that D02 has built of the path.
LEMMA ShapeAccepted ==
    ASSUME NEW state \in RuntimeState, NEW obs \in Observation(state),
           NEW interval \in 10..600
    PROVE  ValidShape(ReturnShape(ForwardPath(state, obs, interval)))
<1> DEFINE fmo == ForwardPath(state, obs, interval)
           s == Samples(state, obs, interval)
           shape == ReturnShape(fmo)
           size == [i \in 1..8 |-> Magnitude(s[i].change)]
<1>0. PICK samples : samples = s /\ EightInOrder(samples, interval)
  BY SamplesInOrder
<1>1. Len(s) = 8 /\ DOMAIN s = 1..8 /\ \A i \in 1..8 : s[i].change \in Int
  <2>1. /\ Len(samples) = 8 /\ DOMAIN samples = 1..8
        /\ \A i \in 1..8 : samples[i].change \in Int
    BY <1>0 DEF EightInOrder
  <2> QED
    BY <1>0, <2>1
<1>2. fmo.samples = s
  BY DEF Samples
<1>3. /\ shape.samples = s /\ shape.terminal = s[8].change
      /\ shape.maximum = Largest(fmo) /\ shape.path = Sign(s[8].change)
  BY <1>1, <1>2 DEF ReturnShape
<1>4. Largest(fmo) = Max({size[i] : i \in 1..8})
  <2>1. {Magnitude(s[i].change) : i \in DOMAIN s} = {size[i] : i \in 1..8}
    BY <1>1
  <2> QED
    BY <1>2, <2>1 DEF Largest
<1>5. Largest(shape) = Largest(fmo)
  BY <1>2, <1>3 DEF Largest
<1>6. size[8] <= Max({size[i] : i \in 1..8})
  <2>1. size \in [1..8 -> Int]
    BY <1>1 DEF Magnitude
  <2> HIDE DEF size
  <2> QED
    BY <2>1, MaxOfEight
<1>7. Magnitude(s[8].change) <= Largest(fmo)
  BY <1>4, <1>6
<1> HIDE DEF s, shape, fmo, size
<1>8. ValidShape(shape)
  BY <1>1, <1>3, <1>5, <1>7 DEF ValidShape
<1> QED
  BY <1>8 DEF shape, fmo

-----------------------------------------------------------------------------
\* A step of the model: the state stays in its bounds, and the bar passes.
LEMMA BarPasses ==
    ASSUME NEW state \in RuntimeState, NEW obs \in Observation(state),
           NEW gain \in {65, 120}, NEW percent \in {9, 186}
    PROVE  LET dmo == D01State(state, obs, gain)
               fmo == ForwardPath(state, obs, ForwardInterval(percent))
           IN /\ dmo \in RuntimeState
              /\ Judged(dmo, fmo).refusal = "none" /\ Judged(dmo, fmo).h = 1
              /\ Judged(dmo, fmo).path \in {-1, 0, 1}
<1> DEFINE dmo == D01State(state, obs, gain)
           interval == ForwardInterval(percent)
           fmo == ForwardPath(state, obs, interval)
<1>1. interval \in 10..600
  BY IntervalBounded
<1>2. dmo.halfLife \in 15..900 /\ dmo \in RuntimeState
  <2>1. state.halfLife \in Int
    BY DEF RuntimeState, MinHalfLife, MaxHalfLife
  <2>2. AdaptedHalfLife(state.halfLife, gain, PerturbationClass(state, obs))
            \in 15..900
    BY <2>1, HalfLifeBounded
  <2>3. Velocity(obs) \in -50..50 /\ obs.level \in -1..1
    BY ObservationTypes, VelocityBounded
  <2> QED
    BY <2>2, <2>3
    DEF D01State, RuntimeState, MinHalfLife, MaxHalfLife, VelocityBound
<1>3. fmo.interval = interval
  BY DEF ForwardPath
<1>4. ValidInput(dmo, fmo)
  BY <1>1, <1>2, InputAccepted
<1>5. ValidShape(ReturnShape(fmo))
  BY <1>1, ShapeAccepted
<1>6. HardEligibility(ReturnShape(fmo)) = 1
  BY <1>1, <1>3 DEF HardEligibility, Lateness, ReturnShape
<1> HIDE DEF dmo, fmo
<1>7. Judged(dmo, fmo) = Evaluated(ReturnShape(fmo).path, 1)
  BY <1>4, <1>5, <1>6 DEF Judged
<1>8. ReturnShape(fmo).path \in {-1, 0, 1}
  BY DEF ReturnShape, Sign
<1>9. /\ Judged(dmo, fmo).refusal = "none" /\ Judged(dmo, fmo).h = 1
      /\ Judged(dmo, fmo).path \in {-1, 0, 1}
  BY <1>7, <1>8 DEF Evaluated
<1> QED
  BY <1>2, <1>9 DEF dmo, fmo

\* The direction of an evaluated bar is one.
PathIsDirection ==
    evaluation.refusal = "none" => evaluation.path \in {-1, 0, 1}

ModelInv == ModelTypeOK /\ LaterBarsEvaluated /\ PathIsDirection

LEMMA ColdStateInBounds == NewRuntimeState \in RuntimeState
<1>1. 0 \in -VelocityBound..VelocityBound
  BY DEF VelocityBound
<1>2. BaselineHalfLife \in MinHalfLife..MaxHalfLife
  BY DEF BaselineHalfLife, MinHalfLife, MaxHalfLife
<1> QED
  BY <1>1, <1>2 DEF NewRuntimeState, RuntimeState

LEMMA RefusedAtTheDoor ==
    ASSUME NEW reason, reason # "ENGINE_ERROR", reason # "none",
           evaluation = Refused(reason)
    PROVE  LaterBarsEvaluated /\ PathIsDirection
  BY DEF LaterBarsEvaluated, PathIsDirection, Refused

LEMMA ModelInvInitially == ModelInit => ModelInv
  BY ColdStateInBounds, RefusedAtTheDoor
  DEF ModelInit, ModelInv, ModelTypeOK

LEMMA ModelInvPreserved == ModelInv /\ [ModelNext]_modelVars => ModelInv'
<1> SUFFICES ASSUME ModelInv, [ModelNext]_modelVars PROVE ModelInv'
  OBVIOUS
<1> USE DEF ModelInv, ModelTypeOK
<1>1. CASE RefuseBar
  BY <1>1 DEF RefuseBar, Refused, LaterBarsEvaluated, PathIsDirection
<1>2. CASE EvaluateBar
  <2>1. PICK obs \in Observation(d01), gain \in {65, 120},
             percent \in {9, 186} :
          LET dmo == D01State(d01, obs, gain)
              fmo == ForwardPath(d01, obs, ForwardInterval(percent))
          IN /\ evaluation' = Judged(dmo, fmo)
             /\ d01' = IF evaluation'.refusal = "none" THEN dmo ELSE d01
    BY <1>2 DEF EvaluateBar
  <2> QED
    BY <2>1, BarPasses DEF LaterBarsEvaluated, PathIsDirection
<1>3. CASE ModelReset
  BY <1>3, ColdStateInBounds
     DEF ModelReset, LaterBarsEvaluated, PathIsDirection, Refused
<1>4. CASE UNCHANGED modelVars
  BY <1>4 DEF modelVars, LaterBarsEvaluated, PathIsDirection
<1> QED
  BY <1>1, <1>2, <1>3, <1>4 DEF ModelNext

\* The state of D01 keeps within its bounds, for any rises and delays.
THEOREM ModelTypeCorrect == ModelSpec => []ModelTypeOK
<1>1. ModelInv => ModelTypeOK
  BY DEF ModelInv
<1> QED
  BY ModelInvInitially, ModelInvPreserved, <1>1, PTL DEF ModelSpec

\* No run of bars leads to one that D02 or D04 refuses (d01.go, d02.go,
\* d04.go), for any rises and delays.
THEOREM ModelLaterBarsEvaluated == ModelSpec => []LaterBarsEvaluated
<1>1. ModelInv => LaterBarsEvaluated
  BY DEF ModelInv
<1> QED
  BY ModelInvInitially, ModelInvPreserved, <1>1, PTL DEF ModelSpec

-----------------------------------------------------------------------------
(* The adaptive engine.                                                    *)

\* A prepared step is the step of the engine as it is now.
CandidateCurrent ==
    candidate # NoCandidate =>
        /\ adaptive.completed < MaxEvaluated
        /\ \E r \in Record : candidate = Stepped(adaptive, r)

AdaptiveInv == AdaptiveTypeOK /\ CandidateCurrent /\ DecisionsFollowRecords

LEMMA SubSeqOfAppend ==
    ASSUME NEW S, NEW seq \in Seq(S), NEW x \in S,
           NEW m \in Nat \ {0}, NEW n \in Nat, n <= Len(seq)
    PROVE  SubSeq(Append(seq, x), m, n) = SubSeq(seq, m, n)
<1>1. /\ Append(seq, x) \in Seq(S) /\ Len(seq) \in Nat
      /\ Len(Append(seq, x)) = Len(seq) + 1
      /\ \A i \in 1..Len(seq) : Append(seq, x)[i] = seq[i]
  BY AppendProperties, LenProperties
<1>2. PICK longer : longer = Append(seq, x)
  OBVIOUS
<1>3. CASE m > n
  BY <1>1, <1>2, <1>3, SubSeqEmpty
<1>4. CASE m <= n
  <2>1. /\ SubSeq(longer, m, n) \in Seq(S) /\ SubSeq(seq, m, n) \in Seq(S)
        /\ Len(SubSeq(longer, m, n)) = n - m + 1
        /\ Len(SubSeq(seq, m, n)) = n - m + 1
        /\ \A i \in 1..n - m + 1 :
              /\ SubSeq(longer, m, n)[i] = longer[m + i - 1]
              /\ SubSeq(seq, m, n)[i] = seq[m + i - 1]
    BY <1>1, <1>2, <1>4, SubSeqProperties
  <2>2. \A i \in 1..n - m + 1 : longer[m + i - 1] = seq[m + i - 1]
    BY <1>1, <1>2, <1>4
  <2> QED
    BY <1>2, <2>1, <2>2, SeqEqual
<1> QED
  BY <1>3, <1>4

LEMMA LastOfTyped ==
    ASSUME NEW S, NEW seq \in Seq(S), NEW n \in Nat \ {0}
    PROVE  /\ LastOf(seq, n) \in Seq(S)
           /\ Len(LastOf(seq, n)) = IF Len(seq) <= n THEN Len(seq) ELSE n
           /\ \A i \in 1..Len(LastOf(seq, n)) :
                 LastOf(seq, n)[i] = seq[Len(seq) - Len(LastOf(seq, n)) + i]
<1>1. Len(seq) \in Nat /\ \A i \in 1..Len(seq) : seq[i] \in S
  BY LenProperties, ElementOfSeq
<1>2. CASE Len(seq) <= n
  BY <1>1, <1>2 DEF LastOf
<1>3. CASE Len(seq) > n
  <2>1. PICK m : m = Len(seq) - n + 1
    OBVIOUS
  <2>2. m \in 1..Len(seq) /\ \A i \in m..Len(seq) : seq[i] \in S
    BY <1>1, <1>3, <2>1
  <2>3. /\ SubSeq(seq, m, Len(seq)) \in Seq(S)
        /\ Len(SubSeq(seq, m, Len(seq))) = n
        /\ \A i \in 1..n : SubSeq(seq, m, Len(seq))[i] = seq[m + i - 1]
    <3>1. m <= Len(seq) /\ Len(seq) - m + 1 = n /\ m \in Int
      BY <1>1, <1>3, <2>1
    <3> QED
      BY <1>1, <2>2, <3>1, SubSeqProperties
  <2>4. LastOf(seq, n) = SubSeq(seq, m, Len(seq))
    BY <1>1, <1>3, <2>1 DEF LastOf
  <2>5. \A i \in 1..n : m + i - 1 = Len(seq) - n + i
    BY <1>1, <2>1
  <2> QED
    BY <1>3, <1>1, <2>3, <2>4, <2>5
<1> QED
  BY <1>1, <1>2, <1>3

\* What appendContext does to the last records, the run does to its end.
LEMMA LastOfLonger ==
    ASSUME NEW S, NEW seq \in Seq(S), NEW x \in S, NEW n \in Nat \ {0}
    PROVE  LastOf(Append(seq, x), n) =
             IF Len(LastOf(seq, n)) = n
             THEN Append(Tail(LastOf(seq, n)), x)
             ELSE Append(LastOf(seq, n), x)
<1>1. PICK longer, context, next :
         /\ longer = Append(seq, x) /\ context = LastOf(seq, n)
         /\ next = LastOf(longer, n)
  OBVIOUS
<1>2. /\ longer \in Seq(S) /\ Len(seq) \in Nat /\ Len(longer) = Len(seq) + 1
      /\ longer[Len(seq) + 1] = x
      /\ \A i \in 1..Len(seq) : longer[i] = seq[i]
  BY <1>1, AppendProperties, LenProperties
<1>3. /\ context \in Seq(S)
      /\ Len(context) = IF Len(seq) <= n THEN Len(seq) ELSE n
      /\ \A i \in 1..Len(context) :
            context[i] = seq[Len(seq) - Len(context) + i]
  BY <1>1, LastOfTyped
<1>4. /\ next \in Seq(S)
      /\ Len(next) = IF Len(longer) <= n THEN Len(longer) ELSE n
      /\ \A i \in 1..Len(next) : next[i] = longer[Len(longer) - Len(next) + i]
  <2>1. longer \in Seq(S)
    BY <1>2
  <2>2. /\ LastOf(longer, n) \in Seq(S)
        /\ Len(LastOf(longer, n)) = IF Len(longer) <= n THEN Len(longer) ELSE n
        /\ \A i \in 1..Len(LastOf(longer, n)) :
              LastOf(longer, n)[i]
                = longer[Len(longer) - Len(LastOf(longer, n)) + i]
    BY <2>1, LastOfTyped
  <2> QED
    BY <1>1, <2>2
<1>5. CASE Len(context) = n
  <2>1. PICK rest : rest = Tail(context)
    OBVIOUS
  <2>2. /\ rest \in Seq(S) /\ Len(rest) = n - 1
        /\ \A i \in 1..n - 1 : rest[i] = context[i + 1]
    <3>1. context # <<>>
      BY <1>5, EmptySeq
    <3> QED
      BY <1>3, <1>5, <2>1, <3>1, HeadTailProperties
  <2>3. PICK moved : moved = Append(rest, x)
    OBVIOUS
  <2>4. /\ moved \in Seq(S) /\ Len(moved) = n /\ moved[n] = x
        /\ \A i \in 1..n - 1 : moved[i] = rest[i]
    BY <2>2, <2>3, AppendProperties
  <2>5. Len(next) = n /\ Len(seq) >= n
    BY <1>2, <1>3, <1>4, <1>5
  <2>6. ASSUME NEW i \in 1..n
        PROVE  next[i] = moved[i]
    <3>1. next[i] = longer[Len(seq) + 1 - n + i]
      <4>1. Len(longer) - Len(next) + i = Len(seq) + 1 - n + i
        BY <1>2, <2>5
      <4>2. i \in 1..Len(next)
        BY <2>5
      <4> QED
        BY <1>4, <4>1, <4>2
    <3>2. CASE i = n
      BY <1>2, <2>4, <3>1, <3>2
    <3>3. CASE i # n
      <4>1. /\ i \in 1..n - 1 /\ i + 1 \in 1..n
            /\ Len(seq) - n + (i + 1) = Len(seq) + 1 - n + i
            /\ Len(seq) + 1 - n + i \in 1..Len(seq)
        BY <1>2, <2>5, <3>3
      <4>2. moved[i] = context[i + 1]
        BY <2>2, <2>4, <4>1
      <4>3. context[i + 1] = seq[Len(seq) + 1 - n + i]
        BY <1>3, <1>5, <4>1
      <4> QED
        BY <1>2, <3>1, <4>1, <4>2, <4>3
    <3> QED
      BY <3>2, <3>3
  <2>7. next = moved
    BY <1>4, <2>4, <2>5, <2>6, SeqEqual
  <2> QED
    BY <1>1, <1>5, <2>1, <2>3, <2>7
<1>6. CASE Len(context) # n
  <2>1. Len(seq) < n
    BY <1>2, <1>3, <1>6
  <2>2. context = seq /\ next = longer
    BY <1>1, <1>2, <2>1 DEF LastOf
  <2> QED
    BY <1>1, <1>6, <2>2
<1> QED
  BY <1>5, <1>6

LEMMA DecideTyped ==
    ASSUME NEW context, NEW r
    PROVE  decide(context, r) \in Sides
  BY DEF decide, Sides

\* A step of the engine on its clone.
LEMMA SteppedTyped ==
    ASSUME NEW engine \in Engine, engine.completed < MaxEvaluated,
           Len(engine.context) <= ContextLength,
           NEW r \in Record, NEW step, step = Stepped(engine, r)
    PROVE  /\ step.engine \in Engine
           /\ step.record = r
           /\ step.side = IF engine.completed < ContextLength THEN "NONE"
                          ELSE decide(engine.context, r)
           /\ step.side \in Sides \cup {"NONE"}
           /\ step.engine.context = appendContext(engine.context, r)
           /\ step.engine.completed = engine.completed + 1
           /\ step.engine.position = PositionAfter(engine.position, step.side)
<1>1. PICK side : side = IF engine.completed < ContextLength THEN "NONE"
                         ELSE decide(engine.context, r)
  OBVIOUS
<1>2. side \in Sides \cup {"NONE"}
  BY <1>1, DecideTyped
<1>3. /\ engine.context \in Seq(Record) /\ engine.completed \in 0..MaxEvaluated
      /\ engine.position \in Positions
  BY DEF Engine
<1>4. PICK context, position :
         /\ context = appendContext(engine.context, r)
         /\ position = PositionAfter(engine.position, side)
  OBVIOUS
<1>5. context \in Seq(Record)
  <2>1. CASE Len(engine.context) = ContextLength
    <3>1. engine.context # <<>>
      BY <2>1, AdaptiveAssumption, EmptySeq
    <3>2. Tail(engine.context) \in Seq(Record)
      BY <1>3, <3>1, HeadTailProperties
    <3> QED
      BY <1>4, <2>1, <3>2, AppendProperties DEF appendContext
  <2>2. CASE Len(engine.context) # ContextLength
    BY <1>3, <1>4, <2>2, AppendProperties DEF appendContext
  <2> QED
    BY <2>1, <2>2
<1>6. position \in Positions
  BY <1>3, <1>4 DEF PositionAfter, Positions
<1>7. PICK next : next = [engine EXCEPT !.context = context,
                                        !.completed = engine.completed + 1,
                                        !.position = position]
  OBVIOUS
<1>8. /\ next \in Engine /\ next.context = context
      /\ next.completed = engine.completed + 1 /\ next.position = position
  <2>1. engine.completed + 1 \in 0..MaxEvaluated
    BY <1>3, AdaptiveAssumption
  <2> QED
    BY <1>5, <1>6, <1>7, <2>1 DEF Engine
<1>9. step = [side |-> side, record |-> r, engine |-> next]
  BY <1>1, <1>4, <1>7 DEF Stepped, Initializing, Prior
<1> QED
  BY <1>1, <1>2, <1>4, <1>8, <1>9

-----------------------------------------------------------------------------
LEMMA CommitKeepsAdaptiveInv ==
    ASSUME AdaptiveInv, Commit
    PROVE  AdaptiveInv'
<1> DEFINE n == Len(records)
<1>1. /\ adaptive \in Engine /\ Len(adaptive.context) <= ContextLength
      /\ records \in Seq(Record) /\ sides \in Seq(Sides \cup {"NONE"})
      /\ Len(sides) = n /\ n \in Nat
      /\ adaptive.completed = n
      /\ adaptive.context = LastOf(records, ContextLength)
  BY LenProperties DEF AdaptiveInv, AdaptiveTypeOK, DecisionsFollowRecords
<1>2. ContextLength \in Nat \ {0}
  BY AdaptiveAssumption
<1>3. PICK r \in Record : candidate = Stepped(adaptive, r)
  BY DEF AdaptiveInv, CandidateCurrent, Commit
<1>4. PICK next, side : next = candidate.engine /\ side = candidate.side
  OBVIOUS
<1>5. /\ next \in Engine /\ candidate.record = r
      /\ side = IF adaptive.completed < ContextLength THEN "NONE"
                ELSE decide(adaptive.context, r)
      /\ side \in Sides \cup {"NONE"}
      /\ next.context = appendContext(adaptive.context, r)
      /\ next.completed = adaptive.completed + 1
      /\ next.position = PositionAfter(adaptive.position, side)
  <2>1. adaptive.completed < MaxEvaluated
    BY DEF AdaptiveInv, CandidateCurrent, Commit
  <2> QED
    BY <1>1, <1>3, <1>4, <2>1, SteppedTyped
<1>6. PICK run, said : run = Append(records, r) /\ said = Append(sides, side)
  OBVIOUS
<1>7. /\ adaptive' = next /\ records' = run /\ sides' = said
      /\ candidate' = NoCandidate
  BY <1>4, <1>5, <1>6 DEF Commit
<1>8. /\ run \in Seq(Record) /\ Len(run) = n + 1 /\ run[n + 1] = r
      /\ \A i \in 1..n : run[i] = records[i]
  BY <1>1, <1>6, AppendProperties
<1>9. /\ said \in Seq(Sides \cup {"NONE"}) /\ Len(said) = n + 1
      /\ said[n + 1] = side
      /\ \A i \in 1..n : said[i] = sides[i]
  BY <1>1, <1>5, <1>6, AppendProperties
<1>10. next.context = LastOf(run, ContextLength)
  BY <1>1, <1>2, <1>5, <1>6, LastOfLonger DEF appendContext
<1>11. Len(next.context) <= ContextLength
  <2>1. Len(LastOf(run, ContextLength)) <= ContextLength
    <3>1. Len(LastOf(run, ContextLength)) =
            IF Len(run) <= ContextLength THEN Len(run) ELSE ContextLength
      BY <1>2, <1>8, LastOfTyped
    <3> QED
      BY <1>2, <1>8, <3>1
  <2> QED
    BY <1>10, <2>1
<1>12. AdaptiveTypeOK'
  BY <1>5, <1>7, <1>8, <1>9, <1>11 DEF AdaptiveTypeOK
<1>13. ASSUME NEW i \in 1..n + 1
       PROVE  said[i] = IF i <= ContextLength THEN "NONE"
                        ELSE decide(SubSeq(run, i - ContextLength, i - 1),
                                    run[i])
  <2>1. CASE i \in 1..n
    <3>1. sides[i] = IF i <= ContextLength THEN "NONE"
                     ELSE decide(SubSeq(records, i - ContextLength, i - 1),
                                 records[i])
      <4>1. i \in DOMAIN sides
        BY <1>1, <2>1
      <4> QED
        BY <4>1 DEF AdaptiveInv, DecisionsFollowRecords, DecisionOf
    <3>2. i > ContextLength =>
            SubSeq(run, i - ContextLength, i - 1)
              = SubSeq(records, i - ContextLength, i - 1)
      BY <1>1, <1>2, <1>6, <2>1, SubSeqOfAppend
    <3> QED
      <4>1. said[i] = sides[i] /\ run[i] = records[i]
        BY <1>8, <1>9, <2>1
      <4>2. CASE i <= ContextLength
        BY <3>1, <4>1, <4>2
      <4>3. CASE i > ContextLength
        <5>1. ~(i <= ContextLength)
          BY <1>1, <1>2, <2>1, <4>3
        <5> QED
          BY <3>1, <3>2, <4>1, <4>3, <5>1
      <4> QED
        BY <1>1, <1>2, <2>1, <4>2, <4>3
  <2>2. CASE i = n + 1
    <3>1. CASE n < ContextLength
      BY <1>1, <1>2, <1>5, <1>9, <2>2, <3>1
    <3>2. CASE n >= ContextLength
      <4>1. SubSeq(run, i - ContextLength, i - 1)
              = SubSeq(records, n - ContextLength + 1, n)
        <5>1. /\ i - ContextLength = n - ContextLength + 1 /\ i - 1 = n
              /\ n - ContextLength + 1 \in Nat \ {0}
          BY <1>1, <1>2, <2>2, <3>2
        <5> QED
          <6>1. n \in Nat /\ n <= Len(records)
            BY <1>1
          <6>2. SubSeq(run, n - ContextLength + 1, n)
                  = SubSeq(records, n - ContextLength + 1, n)
            BY <1>1, <1>6, <5>1, <6>1, SubSeqOfAppend
          <6> QED
            BY <5>1, <6>2
      <4>2. SubSeq(records, n - ContextLength + 1, n) = adaptive.context
        <5>1. CASE n = ContextLength
          <6>1. n - ContextLength + 1 = 1 /\ n <= ContextLength
            BY <1>1, <5>1
          <6>2. SubSeq(records, 1, n) = records
            BY <1>1, SubSeqFull
          <6> QED
            BY <1>1, <6>1, <6>2 DEF LastOf
        <5>2. CASE n > ContextLength
          BY <1>1, <1>2, <5>2 DEF LastOf
        <5> QED
          BY <1>1, <1>2, <3>2, <5>1, <5>2
      <4>3. /\ said[i] = decide(adaptive.context, r) /\ run[i] = r
            /\ i > ContextLength
        BY <1>1, <1>2, <1>5, <1>8, <1>9, <2>2, <3>2
      <4>4. ~(i <= ContextLength)
        BY <1>1, <1>2, <2>2, <3>2
      <4> QED
        BY <4>1, <4>2, <4>3, <4>4
    <3> QED
      BY <1>1, <1>2, <3>1, <3>2
  <2> QED
    BY <1>1, <2>1, <2>2
<1>14. DOMAIN said = 1..n + 1 /\ DOMAIN sides = 1..n
  BY <1>1, <1>9, LenProperties
<1> DEFINE Took(x) == x \in {"BUY", "SELL"}
<1>15. /\ (\A i \in 1..n + 1 : ~Took(said[i])) => next.position = "FLAT"
       /\ \A i \in 1..n + 1 :
             Took(said[i]) /\ (\A j \in i + 1..n + 1 : ~Took(said[j])) =>
                next.position = PositionAfter("FLAT", said[i])
  <2>1. /\ (\A i \in 1..n : ~Took(sides[i])) => adaptive.position = "FLAT"
        /\ \A i \in 1..n :
              Took(sides[i]) /\ (\A j \in i + 1..n : ~Took(sides[j])) =>
                 adaptive.position = PositionAfter("FLAT", sides[i])
    BY <1>1, <1>14 DEF AdaptiveInv, DecisionsFollowRecords, Taken
  <2>2. CASE Took(side)
    <3>1. n + 1 \in 1..n + 1
      BY <1>1
    <3>2. ~(\A i \in 1..n + 1 : ~Took(said[i]))
      BY <1>9, <2>2, <3>1
    <3>3. next.position = PositionAfter("FLAT", side)
      BY <1>5, <2>2 DEF PositionAfter
    <3>4. ASSUME NEW i \in 1..n + 1, \A j \in i + 1..n + 1 : ~Took(said[j])
          PROVE  i = n + 1
      <4>1. CASE i \in 1..n
        <5>1. n + 1 \in i + 1..n + 1
          BY <1>1, <4>1
        <5> QED
          BY <1>9, <2>2, <3>4, <5>1
      <4> QED
        BY <1>1, <4>1
    <3> QED
      BY <1>9, <3>2, <3>3, <3>4
  <2>3. CASE ~Took(side)
    <3>1. next.position = adaptive.position
      BY <1>5, <2>3 DEF PositionAfter
    <3>2. ASSUME \A i \in 1..n + 1 : ~Took(said[i])
          PROVE  next.position = "FLAT"
      <4>1. \A i \in 1..n : i \in 1..n + 1
        BY <1>1
      <4> QED
        BY <1>9, <2>1, <3>1, <3>2, <4>1
    <3>3. ASSUME NEW i \in 1..n + 1, Took(said[i]),
                 \A j \in i + 1..n + 1 : ~Took(said[j])
          PROVE  next.position = PositionAfter("FLAT", said[i])
      <4>1. i \in 1..n
        BY <1>1, <1>9, <2>3, <3>3
      <4>2. \A j \in i + 1..n : j \in i + 1..n + 1 /\ j \in 1..n
        BY <1>1, <4>1
      <4>3. Took(sides[i]) /\ \A j \in i + 1..n : ~Took(sides[j])
        BY <1>9, <3>3, <4>1, <4>2
      <4> QED
        BY <1>9, <2>1, <3>1, <4>1, <4>3
    <3> QED
      BY <3>2, <3>3
  <2> QED
    BY <2>2, <2>3
<1>16. DecisionsFollowRecords'
  <2>1. next.completed = Len(run)
    BY <1>1, <1>5, <1>8
  <2> QED
    BY <1>7, <1>9, <1>10, <1>13, <1>14, <1>15, <2>1
       DEF DecisionsFollowRecords, DecisionOf, Taken
<1> QED
  BY <1>7, <1>12, <1>16 DEF AdaptiveInv, CandidateCurrent

LEMMA ColdKeepsAdaptiveInv ==
    /\ adaptive = ColdEngine /\ candidate = NoCandidate
    /\ records = <<>> /\ sides = <<>>
    => AdaptiveInv
<1> SUFFICES ASSUME adaptive = ColdEngine, candidate = NoCandidate,
                    records = <<>>, sides = <<>>
             PROVE  AdaptiveInv
  OBVIOUS
<1>1. ColdEngine \in Engine
  <2>1. <<>> \in Seq(Record) /\ 0 \in 0..MaxEvaluated /\ 0 \in 0..MaxPrepared
    BY EmptySeq, AdaptiveAssumption
  <2> QED
    BY <2>1 DEF ColdEngine, Engine, Positions
<1>2. /\ ColdEngine.context = <<>> /\ ColdEngine.completed = 0
      /\ ColdEngine.position = "FLAT"
  BY DEF ColdEngine
<1>3. Len(<<>>) <= ContextLength /\ Len(<<>>) = 0
  BY AdaptiveAssumption
<1>4. AdaptiveTypeOK
  BY <1>1, <1>2, <1>3, EmptySeq DEF AdaptiveTypeOK
<1>5. DecisionsFollowRecords
  BY <1>2, <1>3 DEF DecisionsFollowRecords, LastOf
<1> QED
  BY <1>4, <1>5 DEF AdaptiveInv, CandidateCurrent

LEMMA AdaptiveInvHolds ==
    /\ AdaptiveInit => AdaptiveInv
    /\ AdaptiveInv /\ [AdaptiveNext]_adaptiveVars => AdaptiveInv'
<1>1. AdaptiveInit => AdaptiveInv
  BY ColdKeepsAdaptiveInv DEF AdaptiveInit
<1>2. ASSUME AdaptiveInv, PrepareStep
      PROVE  AdaptiveInv'
  <2>1. PICK next : next = [adaptive EXCEPT !.eventSeq = adaptive.eventSeq + 1]
    OBVIOUS
  <2>2. /\ adaptive' = next /\ UNCHANGED <<records, sides>>
        /\ candidate' \in {Stepped(next, r) : r \in Record} \cup {NoCandidate}
        /\ adaptive.eventSeq < MaxPrepared /\ adaptive.completed < MaxEvaluated
    BY <1>2, <2>1 DEF PrepareStep, CountCall
  <2>3. adaptive \in Engine /\ Len(adaptive.context) <= ContextLength
    BY <1>2 DEF AdaptiveInv, AdaptiveTypeOK
  <2>4. adaptive.eventSeq + 1 \in 0..MaxPrepared
    BY <2>2, <2>3, AdaptiveAssumption DEF Engine
  <2>5. /\ next \in Engine /\ next.context = adaptive.context
        /\ next.completed = adaptive.completed
        /\ next.position = adaptive.position
    BY <2>1, <2>3, <2>4 DEF Engine
  <2>6. CandidateCurrent'
    BY <2>2, <2>5 DEF CandidateCurrent
  <2>7. candidate' # NoCandidate => candidate'.engine \in Engine
    <3> SUFFICES ASSUME candidate' # NoCandidate
                 PROVE  candidate'.engine \in Engine
      OBVIOUS
    <3>1. PICK r \in Record : candidate' = Stepped(next, r)
      BY <2>2
    <3> QED
      BY <2>2, <2>3, <2>5, <3>1, SteppedTyped
  <2>8. AdaptiveTypeOK'
    BY <1>2, <2>2, <2>3, <2>5, <2>7 DEF AdaptiveInv, AdaptiveTypeOK
  <2>9. DecisionsFollowRecords'
    BY <1>2, <2>2, <2>5
       DEF AdaptiveInv, DecisionsFollowRecords, DecisionOf, Taken
  <2> QED
    BY <2>6, <2>8, <2>9 DEF AdaptiveInv
<1>3. ASSUME AdaptiveInv, Reset
      PROVE  AdaptiveInv'
  <2>1. (adaptive = ColdEngine /\ candidate = NoCandidate
            /\ records = <<>> /\ sides = <<>>)' => AdaptiveInv'
    BY ColdKeepsAdaptiveInv, PTL
  <2> QED
    BY <1>3, <2>1 DEF Reset
<1>4. ASSUME AdaptiveInv, UNCHANGED adaptiveVars
      PROVE  AdaptiveInv'
  BY <1>4 DEF adaptiveVars, AdaptiveInv, AdaptiveTypeOK, CandidateCurrent,
              DecisionsFollowRecords, DecisionOf, Taken
<1> QED
  BY <1>1, <1>2, <1>3, <1>4, CommitKeepsAdaptiveInv DEF AdaptiveNext

\* What the adaptive engine keeps has its type, the context its length.
THEOREM AdaptiveTypeCorrect == AdaptiveSpec => []AdaptiveTypeOK
<1>1. AdaptiveInv => AdaptiveTypeOK
  BY DEF AdaptiveInv
<1> QED
  BY <1>1, AdaptiveInvHolds, PTL DEF AdaptiveSpec

\* Every decision is that of the committed records alone.
THEOREM AdaptiveDecisionsFollowRecords ==
    AdaptiveSpec => []DecisionsFollowRecords
<1>1. AdaptiveInv => DecisionsFollowRecords
  BY DEF AdaptiveInv
<1> QED
  BY <1>1, AdaptiveInvHolds, PTL DEF AdaptiveSpec

-----------------------------------------------------------------------------
(* The price engine.                                                       *)

\* A history that is as long as the run or as its limit, and agrees with the
\* run about each row it has kept.
Aligned(rows, run) ==
    /\ Len(rows) = IF Len(run) < HistoryLimit THEN Len(run) ELSE HistoryLimit
    /\ \A i \in 1..Len(rows), row \in Int :
          row = Len(run) - Len(rows) + i =>
             /\ rows[i].p <=> Solved(run, row)
             /\ rows[i].jp <=> Solved(run, row) /\ Solved(run, row - 1)

PriceEngineTyped(engine) ==
    /\ engine \in PriceEngineState /\ engine.rows \in Seq(Row)
    /\ engine.received \in 0..MaxPriceBars

\* A prepared step is one of those the engine can take now: Commit and Reset
\* leave no prepared step behind, and a Prepare replaces it.
PriceCandidateCurrent ==
    priceCandidate # NoPriceCandidate =>
        /\ price.received < MaxPriceBars
        /\ \E fits \in BOOLEAN :
              /\ fits => price.received >= DerivativeWindow
              /\ priceCandidate \in Outcomes(price, fits)

\* What is shown is no contradiction, and a reversal that waits for its
\* confirmation shows AMBER.
ShownAgree(engine) ==
    /\ engine.policy.previous = "INVALID"
         <=> engine.cockpit.previous = "INVALID"
    /\ {engine.policy.previous, engine.cockpit.previous} # {"GREEN", "RED"}
    /\ engine.policy.pending # "" => engine.policy.previous = "AMBER"

PriceInv ==
    /\ PriceTypeOK /\ PriceCandidateCurrent
    /\ Aligned(price.rows, fitted)
    /\ ShownAgree(price)
    /\ EmissionSchedule

LEMMA LimitFits ==
    /\ HistoryLimit \in Nat /\ DerivativeWindow \in Nat /\ F4Window \in Nat
    /\ DerivativeWindow >= 2 /\ F4Window >= 3
    /\ HistoryLimit > DerivativeWindow /\ HistoryLimit > F4Window
  BY PriceAssumption DEF HistoryLimit, Larger

\* The history moves up by as much as it was cut by.
LEMMA AppendedRows ==
    ASSUME NEW rows \in Seq(Row), Len(rows) <= HistoryLimit
    PROVE  LET longer == Appended(rows)
               cut == Len(rows) + 1 - Len(longer)
           IN /\ longer \in Seq(Row)
              /\ Len(longer) = IF Len(rows) < HistoryLimit
                               THEN Len(rows) + 1 ELSE HistoryLimit
              /\ \A i \in 1..Len(longer) - 1 : longer[i] = rows[i + cut]
              /\ longer[Len(longer)] = [p |-> FALSE, jp |-> FALSE]
<1> DEFINE blank == [p |-> FALSE, jp |-> FALSE]
           longer == Append(rows, blank)
<1>1. blank \in Row
  BY DEF Row
<1>2. /\ longer \in Seq(Row) /\ Len(longer) = Len(rows) + 1
      /\ longer[Len(rows) + 1] = blank
      /\ \A i \in 1..Len(rows) : longer[i] = rows[i]
  BY <1>1, AppendProperties
<1>3. Len(rows) \in Nat /\ HistoryLimit \in Nat /\ HistoryLimit >= 1
  BY LimitFits, LenProperties
<1> HIDE DEF blank
<1>4. CASE Len(rows) < HistoryLimit
  <2>1. Appended(rows) = longer
    BY <1>2, <1>3, <1>4 DEF Appended, blank
  <2> HIDE DEF longer
  <2> QED
    BY <1>2, <1>3, <1>4, <2>1 DEF blank
<1>5. CASE Len(rows) = HistoryLimit
  <2>1. Appended(rows) = Tail(longer)
    BY <1>2, <1>3, <1>5 DEF Appended, blank
  <2> HIDE DEF longer
  <2>2. /\ Tail(longer) \in Seq(Row) /\ Len(Tail(longer)) = HistoryLimit
        /\ \A i \in 1..HistoryLimit : Tail(longer)[i] = longer[i + 1]
    <3>1. longer # <<>>
      BY <1>2, <1>3, EmptySeq
    <3> QED
      BY <3>1, <1>2, <1>3, <1>5, HeadTailProperties
  <2> QED
    BY <1>2, <1>3, <1>5, <2>1, <2>2 DEF blank
<1> QED
  BY <1>3, <1>4, <1>5

\* The run is longer by one answer, which is about the row before the last.
LEMMA SolvedInLonger ==
    ASSUME NEW run \in Seq(BOOLEAN), NEW fits \in BOOLEAN, NEW row \in Int
    PROVE  Solved(Append(run, fits), row) <=>
               IF row = Len(run) THEN row >= 1 /\ fits ELSE Solved(run, row)
<1>1. /\ Len(Append(run, fits)) = Len(run) + 1 /\ Len(run) \in Nat
      /\ Append(run, fits)[Len(run) + 1] = fits
      /\ \A i \in 1..Len(run) : Append(run, fits)[i] = run[i]
  BY AppendProperties, LenProperties
<1>2. CASE row = Len(run)
  BY <1>1, <1>2 DEF Solved
<1>3. CASE row \in 1..Len(run) - 1
  <2>1. row + 1 \in 1..Len(run)
    BY <1>1, <1>3
  <2> QED
    BY <1>1, <1>3, <2>1 DEF Solved
<1>4. CASE row \notin 1..Len(run)
  BY <1>1, <1>4 DEF Solved
<1> QED
  BY <1>1, <1>2, <1>3, <1>4

LEMMA SolvedIsBoolean ==
    ASSUME NEW run \in Seq(BOOLEAN), NEW row
    PROVE  Solved(run, row) \in BOOLEAN
  BY ElementOfSeq DEF Solved

\* The window of the fit lies in the history whenever it lies in the run.
LEMMA FiniteIsFits ==
    ASSUME NEW engine, engine.rows \in Seq(Row), NEW run \in Seq(BOOLEAN),
           Aligned(engine.rows, run), NEW fits \in BOOLEAN,
           fits => Len(run) >= DerivativeWindow
    PROVE  Finite(engine, fits) <=> fits
<1>1. Len(engine.rows) \in Nat /\ Len(run) \in Nat
  BY LenProperties
<1>2. Len(engine.rows) <= HistoryLimit
  BY <1>1, LimitFits DEF Aligned
<1>3. Len(Appended(engine.rows)) = IF Len(engine.rows) < HistoryLimit
                                   THEN Len(engine.rows) + 1 ELSE HistoryLimit
  BY <1>2, AppendedRows
<1> QED
  BY <1>1, <1>3, LimitFits DEF Finite, Aligned

LEMMA CompletedRows ==
    ASSUME NEW engine, engine.rows \in Seq(Row), NEW run \in Seq(BOOLEAN),
           Aligned(engine.rows, run), NEW fits \in BOOLEAN,
           fits => Len(run) >= DerivativeWindow
    PROVE  /\ Completed(engine, fits) \in Seq(Row)
           /\ Aligned(Completed(engine, fits), Append(run, fits))
<1> DEFINE old == engine.rows
           longer == Appended(old)
           rows == Completed(engine, fits)
           n == Len(run)
           m == Len(old)
           k == Len(longer)
           done == Append(run, fits)
<1>1. n \in Nat /\ m \in Nat
  BY LenProperties
<1>2. m = IF n < HistoryLimit THEN n ELSE HistoryLimit
  BY DEF Aligned
<1>3. /\ longer \in Seq(Row)
      /\ k = IF m < HistoryLimit THEN m + 1 ELSE HistoryLimit
      /\ \A i \in 1..k - 1 : longer[i] = old[i + (m + 1 - k)]
      /\ longer[k] = [p |-> FALSE, jp |-> FALSE]
  <2>1. m <= HistoryLimit
    BY <1>1, <1>2, LimitFits
  <2> QED
    BY <2>1, AppendedRows
<1>4. /\ k \in Nat /\ k >= 1
      /\ k = IF n + 1 < HistoryLimit THEN n + 1 ELSE HistoryLimit
  BY <1>1, <1>2, <1>3, LimitFits
<1>13. k \in Nat /\ n \in Nat /\ k >= 1
  BY <1>1, <1>4
<1>5. Finite(engine, fits) <=> fits
  BY FiniteIsFits
<1>6. fits => k >= 3 /\ n >= 2
  BY <1>1, <1>4, LimitFits
<1>7. /\ Len(done) = n + 1 /\ done \in Seq(BOOLEAN)
  BY AppendProperties
<1>8. rows = IF fits THEN [longer EXCEPT ![k - 1] =
                  [p |-> TRUE, jp |-> k - 1 > 1 /\ longer[k - 2].p]] ELSE longer
  <2>1. k - 1 - 1 = k - 2
    BY <1>4
  <2> QED
    BY <1>5, <2>1 DEF Completed
<1>9. \A i \in 1..m, row \in Int : row = n - m + i =>
         /\ old[i] \in Row
         /\ old[i].p <=> Solved(run, row)
         /\ old[i].jp <=> Solved(run, row) /\ Solved(run, row - 1)
  BY ElementOfSeq DEF Aligned
<1> HIDE DEF rows, longer, old, n, m, k
<1>10. ASSUME NEW i \in 1..k - 1, NEW row \in Int, row = n + 1 - k + i
       PROVE  /\ longer[i] \in Row
              /\ longer[i].p <=> Solved(run, row)
              /\ longer[i].jp <=> Solved(run, row) /\ Solved(run, row - 1)
  <2>1. PICK j : j = i + (m + 1 - k)
    OBVIOUS
  <2>2. j \in 1..m /\ row = n - m + j
    BY <1>1, <1>2, <1>4, <1>10, <2>1, LimitFits
  <2>3. longer[i] = old[j]
    BY <1>3, <2>1
  <2>4. /\ old[j] \in Row
        /\ old[j].p <=> Solved(run, row)
        /\ old[j].jp <=> Solved(run, row) /\ Solved(run, row - 1)
    BY <1>9, <2>2
  <2> QED
    BY <2>3, <2>4
<1>11. /\ rows \in Seq(Row) /\ Len(rows) = k
       /\ \A i \in 1..k : rows[i] =
             IF fits /\ i = k - 1
             THEN [p |-> TRUE, jp |-> k - 1 > 1 /\ longer[k - 2].p]
             ELSE longer[i]
  <2>1. CASE fits
    <3> DEFINE done2 == [p |-> TRUE, jp |-> k - 1 > 1 /\ longer[k - 2].p]
    <3>1. k - 2 \in 1..k - 1 /\ k - 1 \in 1..k
      BY <1>4, <1>6, <2>1
    <3>2. done2 \in Row
      BY <1>10, <3>1 DEF Row
    <3> HIDE DEF done2
    <3>3. rows = [longer EXCEPT ![k - 1] = done2]
      BY <1>8, <2>1 DEF done2
    <3>4. DOMAIN longer = 1..k /\ Len(longer) = k
      BY <1>3, LenProperties DEF k
    <3>5. rows \in Seq(Row) /\ Len(rows) = k
      BY <3>1, <3>2, <3>3, <3>4, <1>3, ExceptSeq
    <3> QED
      BY <3>1, <3>3, <3>4, <3>5, <2>1 DEF done2
  <2>2. CASE ~fits
    BY <1>3, <1>8, <2>2, LenProperties DEF k
  <2> QED
    BY <2>1, <2>2
<1>12. ASSUME NEW i \in 1..k, NEW row \in Int, row = n + 1 - k + i
       PROVE  /\ rows[i].p <=> Solved(done, row)
              /\ rows[i].jp <=> Solved(done, row) /\ Solved(done, row - 1)
  <2>2. row \in Int /\ row - 1 \in Int
    BY <1>13, <1>12
  <2>3. /\ Solved(done, row)
             <=> IF row = n THEN row >= 1 /\ fits ELSE Solved(run, row)
        /\ Solved(done, row - 1) <=>
              IF row - 1 = n THEN row - 1 >= 1 /\ fits ELSE Solved(run, row - 1)
    BY <2>2, SolvedInLonger DEF n
  <2>4. CASE i = k
    <3>1. row = n + 1 /\ row # n
      BY <1>13, <1>12, <2>4
    <3>2. ~Solved(run, row)
      BY <3>1, <1>1 DEF Solved, n
    <3>3. rows[i] = [p |-> FALSE, jp |-> FALSE]
      BY <1>3, <1>4, <1>11, <2>4
    <3> QED
      BY <2>3, <3>1, <3>2, <3>3
  <2>5. CASE i = k - 1
    <3>1. row = n /\ row - 1 # n
      BY <1>13, <1>12, <2>5
    <3>2. ~Solved(run, row)
      BY <3>1, <1>1 DEF Solved, n
    <3>3. CASE fits
      <4>1. k - 2 \in 1..k - 1 /\ n >= 2 /\ k - 1 > 1
        BY <1>4, <1>6, <3>3
      <4>2. longer[k - 2].p <=> Solved(run, row - 1)
        <5>1. row - 1 \in Int /\ row - 1 = n + 1 - k + (k - 2)
          BY <1>13, <3>1
        <5> QED
          BY <1>10, <4>1, <5>1
      <4>4. rows[i] = [p |-> TRUE, jp |-> k - 1 > 1 /\ longer[k - 2].p]
        BY <1>11, <2>5, <3>3
      <4>5. /\ Solved(done, row)
            /\ Solved(done, row - 1) <=> Solved(run, row - 1)
        <5>1. row >= 1
          BY <1>13, <3>1, <4>1
        <5> QED
          BY <2>3, <3>1, <3>3, <5>1, Zenon
      <4>6. rows[i].p /\ (rows[i].jp <=> longer[k - 2].p)
        <5>1. /\ rows[i].p = TRUE
              /\ rows[i].jp = (k - 1 > 1 /\ longer[k - 2].p)
          BY <4>4
        <5> QED
          BY <4>1, <5>1, Zenon
      <4> QED
        BY <4>2, <4>5, <4>6
    <3>4. CASE ~fits
      <4>1. rows[i] = longer[i]
        BY <1>11, <3>4
      <4>2. i \in 1..k - 1
        BY <2>5, <1>4
      <4> QED
        BY <1>10, <1>12, <2>3, <3>1, <3>2, <3>4, <4>1, <4>2
    <3> QED
      BY <3>3, <3>4
  <2>6. CASE i \in 1..k - 2
    <3>1. row # n /\ row - 1 # n /\ i \in 1..k - 1 /\ i # k - 1
      BY <1>13, <1>12, <2>6
    <3>2. rows[i] = longer[i]
      BY <1>11, <3>1
    <3> QED
      BY <1>10, <1>12, <2>3, <3>1, <3>2
  <2> QED
    BY <1>4, <2>4, <2>5, <2>6
<1>14. Len(rows) = IF Len(done) < HistoryLimit THEN Len(done) ELSE HistoryLimit
  BY <1>4, <1>7, <1>11
<1>15. \A i \in 1..Len(rows), row \in Int :
         row = Len(done) - Len(rows) + i =>
            /\ rows[i].p <=> Solved(done, row)
            /\ rows[i].jp <=> Solved(done, row) /\ Solved(done, row - 1)
  BY <1>7, <1>11, <1>12, <1>13
<1> QED
  BY <1>11, <1>14, <1>15 DEF Aligned, rows

\* The history shows of every row that the dynamics need what the run has of it.
LEMMA JpReadyIsSolved ==
    ASSUME NEW rows \in Seq(Row), NEW run \in Seq(BOOLEAN), Aligned(rows, run)
    PROVE  JpReady(rows, Len(run)) <=>
               \A row \in Len(run) - 1 - F4Window..Len(run) - 1 :
                  Solved(run, row)
<1> DEFINE n == Len(run)
           k == Len(rows)
<1>1. n \in Nat /\ k \in Nat
  BY LenProperties
<1>2. k = IF n < HistoryLimit THEN n ELSE HistoryLimit
  BY DEF Aligned
<1>3. \A i \in 1..k, row \in Int :
         row = n - k + i =>
            /\ rows[i].p <=> Solved(run, row)
            /\ rows[i].jp <=> Solved(run, row) /\ Solved(run, row - 1)
  BY DEF Aligned
<1>4. JpReady(rows, n) <=> /\ n - 2 >= F4Window /\ k > F4Window
                           /\ \A i \in k - F4Window..k - 1 : rows[i].jp
  BY DEF JpReady
<1> HIDE DEF n, k
<1>5. ASSUME JpReady(rows, n), NEW row \in n - 1 - F4Window..n - 1
      PROVE  Solved(run, row)
  <2>1. CASE row = n - 1 - F4Window
    <3>1. PICK i : i = k - F4Window
      OBVIOUS
    <3>2. i \in 1..k /\ i \in k - F4Window..k - 1 /\ row + 1 = n - k + i
          /\ row + 1 \in Int
      BY <1>1, <1>4, <1>5, <2>1, <3>1, LimitFits
    <3>3. rows[i].jp
      BY <1>4, <1>5, <3>2
    <3>4. Solved(run, (row + 1) - 1)
      BY <1>3, <3>2, <3>3
    <3>5. (row + 1) - 1 = row
      BY <3>2, <1>1, LimitFits
    <3> QED
      BY <3>4, <3>5
  <2>2. CASE row # n - 1 - F4Window
    <3>1. PICK i : i = row - n + k
      OBVIOUS
    <3>2. i \in 1..k /\ i \in k - F4Window..k - 1 /\ row = n - k + i
          /\ row \in Int
      BY <1>1, <1>4, <1>5, <2>2, <3>1, LimitFits
    <3>3. rows[i].jp
      BY <1>4, <1>5, <3>2
    <3> QED
      BY <1>3, <3>2, <3>3
  <2> QED
    BY <2>1, <2>2
<1>6. ASSUME \A row \in n - 1 - F4Window..n - 1 : Solved(run, row)
      PROVE  JpReady(rows, n)
  <2>1. n - 1 - F4Window >= 1
    <3>1. PICK row : row = n - 1 - F4Window
      OBVIOUS
    <3>2. row \in n - 1 - F4Window..n - 1
      BY <1>1, <3>1, LimitFits
    <3>3. Solved(run, row)
      BY <1>6, <3>2
    <3> QED
      BY <3>1, <3>3 DEF Solved
  <2>2. n - 2 >= F4Window /\ k > F4Window
    BY <1>1, <1>2, <2>1, LimitFits
  <2>3. ASSUME NEW i \in k - F4Window..k - 1
        PROVE  rows[i].jp
    <3>1. PICK row : row = n - k + i
      OBVIOUS
    <3>2. /\ i \in 1..k /\ row \in Int
          /\ row \in n - 1 - F4Window..n - 1
          /\ row - 1 \in n - 1 - F4Window..n - 1
      BY <1>1, <2>2, <3>1, LimitFits
    <3>3. Solved(run, row) /\ Solved(run, row - 1)
      BY <1>6, <3>2
    <3> QED
      BY <1>3, <3>1, <3>2, <3>3
  <2> QED
    BY <1>4, <2>2, <2>3
<1> QED
  BY <1>5, <1>6 DEF n

-----------------------------------------------------------------------------
\* What is shown.

LEMMA EmitTyped ==
    ASSUME NEW t \in Trajectory, NEW policy
    PROVE  emit(t, policy) \in PolicyState
  BY DEF emit, rawColor, Colors, PolicyState


LEMMA TurnTypes ==
    ASSUME NEW t
    PROVE  Opposing(t) \in Directions /\ Crossing(t) \in Directions
  BY DEF Opposing, Crossing, Directions, NoTurn

LEMMA CockpitTyped ==
    ASSUME NEW color \in Colors, NEW opposing \in Directions,
           NEW opposed \in Nat, NEW turn \in Directions, NEW age \in Nat
    PROVE  [previous |-> color, opposing |-> opposing, opposed |-> opposed,
            candidate |-> turn, age |-> age] \in CockpitState
  BY DEF CockpitState

LEMMA ObserveTyped ==
    ASSUME NEW t \in Trajectory, NEW cockpit \in CockpitState
    PROVE  observe(t, cockpit) \in CockpitState
<1> DEFINE opposed == IF Opposing(t) = NoTurn THEN 0
                      ELSE IF Opposing(t) = cockpit.opposing
                           THEN cockpit.opposed + 1 ELSE 1
           fresh == IF Crossing(t) # NoTurn THEN Crossing(t)
                    ELSE IF opposed >= PersistenceObservations /\ NearZero(t)
                            /\ StrongDeceleration(t)
                         THEN Opposing(t) ELSE NoTurn
           held == fresh = NoTurn /\ cockpit.candidate # NoTurn
                   /\ cockpit.age < CandidateHold
           turn == IF held THEN cockpit.candidate ELSE fresh
           age == IF turn = NoTurn THEN 0
                  ELSE IF turn = cockpit.candidate THEN cockpit.age + 1 ELSE 1
           slope == CASE Direction(t.p1) = "UP" -> "GREEN"
                      [] Direction(t.p1) = "DOWN" -> "RED"
                      [] OTHER -> "AMBER"
           color == IF turn # NoTurn \/ Reverses(cockpit.previous, slope)
                    THEN "AMBER" ELSE slope
<1>1. /\ cockpit.opposed \in Nat /\ cockpit.age \in Nat
      /\ cockpit.candidate \in Directions
  BY DEF CockpitState
<1>2. opposed \in Nat
  BY <1>1
<1>3. fresh \in Directions
  BY TurnTypes DEF Directions
<1>4. turn \in Directions
  BY <1>1, <1>3
<1>5. age \in Nat
  BY <1>1
<1>6. slope \in {"GREEN", "RED", "AMBER"}
  OBVIOUS
<1>7. color \in Colors
  BY <1>6 DEF Colors
<1>8. observe(t, cockpit) =
        [previous |-> color, opposing |-> Opposing(t), opposed |-> opposed,
         candidate |-> turn, age |-> age]
  BY DEF observe
<1> HIDE DEF opposed, turn, age, color
<1>9. Opposing(t) \in Directions
  BY TurnTypes
<1> HIDE DEF fresh, held, slope
<1> QED
  BY <1>2, <1>4, <1>5, <1>7, <1>8, <1>9, CockpitTyped

\* Of one trajectory: the policy wants the projected slope to lie beyond
\* epsilon, and the cockpit sees a turn where that is not the present side.
LEMMA ColorsOfTrajectory ==
    ASSUME NEW t \in Trajectory, NEW policy, NEW cockpit
    PROVE  LET shown == emit(t, policy).previous
               seen == observe(t, cockpit).previous
           IN /\ shown \in {"GREEN", "AMBER", "RED"}
              /\ seen \in {"GREEN", "AMBER", "RED"}
              /\ {shown, seen} # {"GREEN", "RED"}
<1> DEFINE shown == emit(t, policy).previous
           seen == observe(t, cockpit).previous
<1>1. t.p1 \in Int /\ t.projected \in Int
  <2>1. Slopes \subseteq Int
    BY PriceAssumption DEF Slopes
  <2> QED
    BY <2>1 DEF Trajectory
<1>2. /\ shown \in {"GREEN", "AMBER", "RED"}
      /\ shown = "GREEN" => t.projected > 1
      /\ shown = "RED" => t.projected < -1
  BY DEF emit, rawColor, Epsilon
<1>3. /\ seen \in {"GREEN", "AMBER", "RED"}
      /\ seen = "GREEN" => t.p1 > 1 /\ Crossing(t) = NoTurn
      /\ seen = "RED" => t.p1 < -1 /\ Crossing(t) = NoTurn
  BY DEF observe, Direction, Epsilon, NoTurn
<1>4. /\ t.p1 > 1 /\ Crossing(t) = NoTurn => t.projected > 0
      /\ t.p1 < -1 /\ Crossing(t) = NoTurn => t.projected < 0
  BY <1>1 DEF Crossing, NoTurn, Epsilon
<1> HIDE DEF shown, seen
<1>5. ~(shown = "GREEN" /\ seen = "RED") /\ ~(shown = "RED" /\ seen = "GREEN")
  BY <1>1, <1>2, <1>3, <1>4
<1> QED
  BY <1>2, <1>3, <1>5 DEF shown, seen

\* Neither turns round in one bar.
LEMMA NoReversal ==
    ASSUME NEW t \in Trajectory, NEW policy \in PolicyState, NEW cockpit,
           policy.pending # "" => policy.previous = "AMBER"
    PROVE  /\ {policy.previous, emit(t, policy).previous} # {"GREEN", "RED"}
           /\ {cockpit.previous, observe(t, cockpit).previous}
                # {"GREEN", "RED"}
           /\ emit(t, policy).pending # "" =>
                 emit(t, policy).previous = "AMBER"
<1>1. /\ {policy.previous, emit(t, policy).previous} # {"GREEN", "RED"}
      /\ emit(t, policy).pending # "" => emit(t, policy).previous = "AMBER"
  <2> DEFINE raw == rawColor(t)
  <2>1. raw # ""
    BY DEF rawColor
  <2>2. PICK next : next = emit(t, policy)
    OBVIOUS
  <2>3. next = IF Reverses(policy.previous, raw) /\ policy.pending # raw
               THEN [previous |-> "AMBER", pending |-> raw]
               ELSE [previous |-> raw, pending |-> ""]
    BY <2>2 DEF emit
  <2> HIDE DEF raw
  <2>4. /\ {policy.previous, next.previous} # {"GREEN", "RED"}
        /\ next.pending # "" => next.previous = "AMBER"
    <3>1. CASE Reverses(policy.previous, raw) /\ policy.pending # raw
      <4>1. next.previous = "AMBER"
        BY <2>3, <3>1
      <4>2. "AMBER" \in {policy.previous, next.previous}
        BY <4>1
      <4> QED
        BY <4>1, <4>2
    <3>2. CASE ~Reverses(policy.previous, raw)
      <4>1. next.previous = raw /\ next.pending = ""
        BY <2>3, <3>2
      <4> QED
        BY <3>2, <4>1 DEF Reverses
    <3>3. CASE Reverses(policy.previous, raw) /\ policy.pending = raw
      <4>1. policy.previous = "AMBER"
        BY <2>1, <3>3
      <4>2. "AMBER" \in {policy.previous, raw}
        BY <4>1
      <4> QED
        BY <3>3, <4>2 DEF Reverses
    <3> QED
      BY <3>1, <3>2, <3>3
  <2> QED
    BY <2>2, <2>4
<1>2. {cockpit.previous, observe(t, cockpit).previous} # {"GREEN", "RED"}
  BY DEF observe, Reverses
<1> QED
  BY <1>1, <1>2

-----------------------------------------------------------------------------
\* A step, as prepared.

Fitted == {"F4_FIT_UNAVAILABLE", "EMITTED", "RK45_FAILURE"}

\* Nothing is shown anew, the failure, or what policy and cockpit make of a
\* trajectory.
JudgedOutcome(engine, next) ==
    \/ next.policy = engine.policy /\ next.cockpit = engine.cockpit
    \/ /\ next.policy = [previous |-> "INVALID", pending |-> ""]
       /\ next.cockpit = ColdCockpit("INVALID")
    \/ \E t \in Trajectory :
          /\ next.policy = emit(t, engine.policy)
          /\ next.cockpit = observe(t, engine.cockpit)

LEMMA OutcomeShape ==
    ASSUME NEW engine \in PriceEngineState, engine.received < MaxPriceBars,
           NEW run \in Seq(BOOLEAN), Aligned(engine.rows, run),
           Len(run) = engine.received, NEW fits \in BOOLEAN,
           fits => engine.received >= DerivativeWindow,
           NEW outcome \in Outcomes(engine, fits)
    PROVE  LET next == outcome.engine
           IN /\ outcome.fits = fits /\ outcome.status \in PriceStatuses
              /\ next \in PriceEngineState /\ JudgedOutcome(engine, next)
              /\ next.rows = Completed(engine, fits)
              /\ next.received = engine.received + 1
              /\ outcome.status = "WARMUP_DERIVATIVE" <=> ~fits
              /\ outcome.status \in Fitted <=>
                    fits /\ JpReady(next.rows, next.received)
<1> DEFINE rows == Completed(engine, fits)
           received == engine.received + 1
           silent == [engine EXCEPT !.rows = rows, !.received = received]
           failed == [silent EXCEPT
                         !.policy = [previous |-> "INVALID", pending |-> ""],
                         !.cockpit = ColdCockpit("INVALID")]
           emitted(t) == [silent EXCEPT !.policy = emit(t, @),
                                        !.cockpit = observe(t, @)]
           Ended(status, e) == [status |-> status, fits |-> fits, engine |-> e]
<1>1. /\ engine.rows \in Seq(Row) /\ engine.received \in 0..MaxPriceBars
      /\ engine.policy \in PolicyState /\ engine.cockpit \in CockpitState
  BY DEF PriceEngineState
<1>2. rows \in Seq(Row)
  BY <1>1, CompletedRows
<1>3. received \in 0..MaxPriceBars
  BY <1>1, PriceAssumption
<1>4. Finite(engine, fits) <=> fits
  BY <1>1, FiniteIsFits
<1>5. \/ ~fits /\ outcome = Ended("WARMUP_DERIVATIVE", silent)
      \/ /\ fits /\ ~JpReady(rows, received)
         /\ outcome = Ended("WARMUP_F4", silent)
      \/ /\ fits /\ JpReady(rows, received)
         /\ \/ outcome = Ended("F4_FIT_UNAVAILABLE", silent)
            \/ outcome = Ended("RK45_FAILURE", failed)
            \/ \E t \in Trajectory : outcome = Ended("EMITTED", emitted(t))
  BY <1>4, Zenon DEF Outcomes
<1> HIDE DEF rows, received
<1>6. /\ silent \in PriceEngineState /\ JudgedOutcome(engine, silent)
      /\ silent.rows = rows /\ silent.received = received
      /\ silent.policy = engine.policy /\ silent.cockpit = engine.cockpit
  BY <1>1, <1>2, <1>3 DEF PriceEngineState, JudgedOutcome
<1> HIDE DEF silent
<1>7. /\ failed \in PriceEngineState /\ JudgedOutcome(engine, failed)
      /\ failed.rows = rows /\ failed.received = received
  <2>1. ColdCockpit("INVALID") \in CockpitState
    BY CockpitTyped DEF ColdCockpit, Colors, Directions, NoTurn
  <2>2. [previous |-> "INVALID", pending |-> ""] \in PolicyState
    BY DEF PolicyState, Colors
  <2> QED
    BY <1>6, <2>1, <2>2 DEF PriceEngineState, JudgedOutcome
<1>8. ASSUME NEW t \in Trajectory
      PROVE  /\ emitted(t) \in PriceEngineState
             /\ JudgedOutcome(engine, emitted(t))
             /\ emitted(t).rows = rows /\ emitted(t).received = received
  <2>1. PICK policy, cockpit : /\ policy = emit(t, engine.policy)
                               /\ cockpit = observe(t, engine.cockpit)
    OBVIOUS
  <2>2. policy \in PolicyState /\ cockpit \in CockpitState
    BY <1>1, <2>1, EmitTyped, ObserveTyped
  <2>3. PICK next :
            next = [silent EXCEPT !.policy = policy, !.cockpit = cockpit]
    OBVIOUS
  <2>4. emitted(t) = next
    BY <1>6, <2>1, <2>3
  <2>5. /\ next \in PriceEngineState
        /\ next.policy = policy /\ next.cockpit = cockpit
        /\ next.rows = rows /\ next.received = received
    BY <1>6, <2>2, <2>3 DEF PriceEngineState
  <2>6. JudgedOutcome(engine, next)
    BY <2>1, <2>5 DEF JudgedOutcome
  <2> QED
    BY <2>4, <2>5, <2>6
<1> HIDE DEF failed, emitted
<1>9. /\ outcome.engine \in PriceEngineState
      /\ JudgedOutcome(engine, outcome.engine)
      /\ outcome.engine.rows = rows /\ outcome.engine.received = received
      /\ outcome.fits = fits
      /\ \/ ~fits /\ outcome.status = "WARMUP_DERIVATIVE"
         \/ fits /\ ~JpReady(rows, received) /\ outcome.status = "WARMUP_F4"
         \/ fits /\ JpReady(rows, received) /\ outcome.status \in Fitted
  <2>1. CASE ~fits /\ outcome = Ended("WARMUP_DERIVATIVE", silent)
    BY <1>6, <2>1
  <2>2. CASE /\ fits /\ ~JpReady(rows, received)
             /\ outcome = Ended("WARMUP_F4", silent)
    BY <1>6, <2>2
  <2>3. CASE /\ fits /\ JpReady(rows, received)
             /\ outcome = Ended("F4_FIT_UNAVAILABLE", silent)
    BY <1>6, <2>3 DEF Fitted
  <2>4. CASE /\ fits /\ JpReady(rows, received)
             /\ outcome = Ended("RK45_FAILURE", failed)
    BY <1>7, <2>4 DEF Fitted
  <2>5. CASE /\ fits /\ JpReady(rows, received)
             /\ \E t \in Trajectory : outcome = Ended("EMITTED", emitted(t))
    <3>1. PICK t \in Trajectory : outcome = Ended("EMITTED", emitted(t))
      BY <2>5
    <3>2. PICK next : next = emitted(t)
      OBVIOUS
    <3>3. /\ outcome.engine = next /\ outcome.fits = fits
          /\ outcome.status = "EMITTED"
      BY <3>1, <3>2
    <3>4. /\ next \in PriceEngineState /\ JudgedOutcome(engine, next)
          /\ next.rows = rows /\ next.received = received
      BY <1>8, <3>2
    <3> QED
      BY <2>5, <3>3, <3>4 DEF Fitted
  <2> QED
    BY <1>5, <2>1, <2>2, <2>3, <2>4, <2>5
<1>10. /\ outcome.status \in PriceStatuses
       /\ outcome.status = "WARMUP_DERIVATIVE" <=> ~fits
       /\ outcome.status \in Fitted <=> fits /\ JpReady(rows, received)
  BY <1>9 DEF Fitted, PriceStatuses
<1> QED
  BY <1>9, <1>10 DEF rows, received

LEMMA JudgedOutcomeAgree ==
    ASSUME NEW engine \in PriceEngineState, NEW next \in PriceEngineState,
           ShownAgree(engine), JudgedOutcome(engine, next)
    PROVE  /\ ShownAgree(next)
           /\ {engine.policy.previous, next.policy.previous} # {"GREEN", "RED"}
           /\ {engine.cockpit.previous, next.cockpit.previous}
                # {"GREEN", "RED"}
<1>1. engine.policy \in PolicyState /\ engine.cockpit \in CockpitState
  BY DEF PriceEngineState
<1>2. CASE next.policy = engine.policy /\ next.cockpit = engine.cockpit
  <2>1. \A color : {color, color} # {"GREEN", "RED"}
    OBVIOUS
  <2> QED
    BY <1>2, <2>1 DEF ShownAgree
<1>3. CASE /\ next.policy = [previous |-> "INVALID", pending |-> ""]
           /\ next.cockpit = ColdCockpit("INVALID")
  <2>1. /\ next.policy.previous = "INVALID" /\ next.policy.pending = ""
        /\ next.cockpit.previous = "INVALID"
    <3>1. PICK policy, cockpit : policy = next.policy /\ cockpit = next.cockpit
      OBVIOUS
    <3>2. policy = [previous |-> "INVALID", pending |-> ""]
      BY <1>3, <3>1
    <3>3. cockpit.previous = "INVALID"
      <4>1. cockpit = ColdCockpit("INVALID")
        BY <1>3, <3>1, Zenon
      <4> QED
        BY <4>1 DEF ColdCockpit
    <3>4. policy.previous = "INVALID" /\ policy.pending = ""
      BY <3>2
    <3> QED
      BY <3>1, <3>3, <3>4, Zenon
  <2>2. \A color : {color, "INVALID"} # {"GREEN", "RED"}
    OBVIOUS
  <2> QED
    BY <2>1, <2>2 DEF ShownAgree
<1>4. ASSUME NEW t \in Trajectory, next.policy = emit(t, engine.policy),
             next.cockpit = observe(t, engine.cockpit)
      PROVE  /\ ShownAgree(next)
             /\ {engine.policy.previous, next.policy.previous}
                   # {"GREEN", "RED"}
             /\ {engine.cockpit.previous, next.cockpit.previous}
                   # {"GREEN", "RED"}
  <2>1. /\ next.policy.previous \in {"GREEN", "AMBER", "RED"}
        /\ next.cockpit.previous \in {"GREEN", "AMBER", "RED"}
        /\ {next.policy.previous, next.cockpit.previous} # {"GREEN", "RED"}
    BY <1>4, ColorsOfTrajectory
  <2>2. engine.policy.pending # "" => engine.policy.previous = "AMBER"
    BY DEF ShownAgree
  <2>3. /\ {engine.policy.previous, next.policy.previous} # {"GREEN", "RED"}
        /\ {engine.cockpit.previous, next.cockpit.previous} # {"GREEN", "RED"}
        /\ next.policy.pending # "" => next.policy.previous = "AMBER"
    <3>1. PICK policy, cockpit :
             policy = engine.policy /\ cockpit = engine.cockpit
      OBVIOUS
    <3>2. /\ {policy.previous, emit(t, policy).previous} # {"GREEN", "RED"}
          /\ {cockpit.previous, observe(t, cockpit).previous}
                # {"GREEN", "RED"}
          /\ emit(t, policy).pending # "" =>
                emit(t, policy).previous = "AMBER"
      BY <1>1, <2>2, <3>1, NoReversal
    <3> QED
      BY <1>4, <3>1, <3>2
  <2> QED
    BY <2>1, <2>3 DEF ShownAgree
<1> QED
  BY <1>2, <1>3, <1>4 DEF JudgedOutcome

\* A bar is committed: the run is longer by it, and all that holds of a step
\* holds of the engine.
LEMMA CommitKeepsPriceInv ==
    ASSUME PriceInv, PriceCommit
    PROVE  /\ PriceInv'
           /\ JudgedOutcome(price, price') /\ price' \in PriceEngineState
<1> DEFINE outcome == priceCandidate
           next == outcome.engine
<1>1. /\ price \in PriceEngineState /\ fitted \in Seq(BOOLEAN)
      /\ Len(fitted) = price.received
      /\ price.rows \in Seq(Row) /\ price.received \in 0..MaxPriceBars
  BY DEF PriceInv, PriceTypeOK, PriceEngineState
<1>2. PICK fits \in BOOLEAN : /\ fits => price.received >= DerivativeWindow
                              /\ outcome \in Outcomes(price, fits)
  BY DEF PriceInv, PriceCandidateCurrent, PriceCommit
<1>3. price.received < MaxPriceBars
  BY DEF PriceInv, PriceCandidateCurrent, PriceCommit
<1>4. fits \in BOOLEAN /\ (fits => price.received >= DerivativeWindow)
  BY <1>2
<1>5. Aligned(price.rows, fitted)
  BY DEF PriceInv
<1>6. /\ outcome.fits = fits /\ outcome.status \in PriceStatuses
      /\ next \in PriceEngineState /\ JudgedOutcome(price, next)
      /\ next.rows = Completed(price, fits)
      /\ next.received = price.received + 1
      /\ outcome.status = "WARMUP_DERIVATIVE" <=> ~fits
      /\ outcome.status \in Fitted <=>
            fits /\ JpReady(next.rows, next.received)
  BY <1>1, <1>2, <1>3, <1>4, <1>5, OutcomeShape
<1>7. PICK run : run = Append(fitted, fits)
  OBVIOUS
<1>8. /\ run \in Seq(BOOLEAN) /\ Len(run) = price.received + 1
      /\ run[price.received + 1] = fits
  BY <1>1, <1>4, <1>7, AppendProperties
<1>9. /\ next.rows \in Seq(Row) /\ Aligned(next.rows, run)
  BY <1>1, <1>4, <1>5, <1>6, <1>7, CompletedRows
<1>10. /\ price' = next /\ priceStatus' = outcome.status /\ fitted' = run
       /\ priceCandidate' = NoPriceCandidate
  BY <1>6, <1>7 DEF PriceCommit
<1>11. PriceTypeOK'
  <2>1. Len(next.rows) <= HistoryLimit
    BY <1>8, <1>9, LimitFits, LenProperties DEF Aligned
  <2> QED
    BY <1>6, <1>8, <1>10, <2>1 DEF PriceTypeOK
<1>12. ShownAgree(price)'
  <2>1. ShownAgree(next)
    BY <1>1, <1>6, JudgedOutcomeAgree DEF PriceInv
  <2> QED
    BY <1>10, <2>1
<1>13. EmissionSchedule'
  <2>1. Solved(run, Len(run) - 1) <=> fits
    <3>1. price.received \in Nat /\ (fits => price.received >= 1)
      BY <1>1, <1>4, LimitFits
    <3> QED
      BY <1>8, <3>1 DEF Solved
  <2>2. JpReady(next.rows, Len(run)) <=>
          \A row \in Len(run) - 1 - F4Window..Len(run) - 1 : Solved(run, row)
    BY <1>8, <1>9, JpReadyIsSolved
  <2>3. Len(run) - 1 \in Len(run) - 1 - F4Window..Len(run) - 1
    BY <1>1, <1>8, LimitFits
  <2>4. outcome.status \in Fitted <=>
          \A row \in Len(run) - 1 - F4Window..Len(run) - 1 : Solved(run, row)
    BY <1>6, <1>8, <2>1, <2>2, <2>3
  <2>5. outcome.status = "WARMUP_DERIVATIVE" <=> ~Solved(run, Len(run) - 1)
    BY <1>6, <2>1
  <2> QED
    BY <1>10, <2>4, <2>5 DEF EmissionSchedule, Fitted
<1>14. PriceCandidateCurrent' /\ Aligned(price.rows, fitted)'
  BY <1>9, <1>10 DEF PriceCandidateCurrent
<1> QED
  BY <1>6, <1>10, <1>11, <1>12, <1>13, <1>14 DEF PriceInv

LEMMA ColdKeepsPriceInv ==
    /\ price = ColdPrice /\ priceCandidate = NoPriceCandidate
    /\ priceStatus = "NONE" /\ fitted = <<>>
    => PriceInv
<1> SUFFICES ASSUME price = ColdPrice, priceCandidate = NoPriceCandidate,
                    priceStatus = "NONE", fitted = <<>>
             PROVE  PriceInv
  OBVIOUS
<1>1. ColdPrice \in PriceEngineState
  <2>1. ColdCockpit("") \in CockpitState
    BY DEF ColdCockpit, CockpitState, Directions, NoTurn
  <2>2. [previous |-> "", pending |-> ""] \in PolicyState
    BY DEF PolicyState
  <2>3. <<>> \in Seq(Row) /\ 0 \in 0..MaxPriceBars
    BY EmptySeq, PriceAssumption
  <2> QED
    BY <2>1, <2>2, <2>3 DEF ColdPrice, PriceEngineState
<1>2. ColdPrice.rows = <<>> /\ ColdPrice.received = 0
  BY DEF ColdPrice
<1>3. PriceTypeOK
  BY <1>1, <1>2, EmptySeq, LimitFits DEF PriceTypeOK
<1>4. Aligned(<<>>, <<>>)
  BY LimitFits DEF Aligned
<1>5. ShownAgree(ColdPrice)
  BY DEF ShownAgree, ColdPrice, ColdCockpit
<1> QED
  BY <1>2, <1>3, <1>4, <1>5
     DEF PriceInv, PriceCandidateCurrent, EmissionSchedule

LEMMA PriceInvHolds ==
    /\ PriceInit => PriceInv
    /\ PriceInv /\ [PriceNext]_priceVars => PriceInv'
<1>1. PriceInit => PriceInv
  BY ColdKeepsPriceInv DEF PriceInit
<1>2. ASSUME PriceInv, PricePrepare
      PROVE  PriceInv'
  <2>1. /\ UNCHANGED <<price, priceStatus, fitted>>
        /\ price.received < MaxPriceBars
    BY <1>2 DEF PricePrepare
  <2>2. PriceCandidateCurrent'
    BY <1>2, <2>1 DEF PricePrepare, PriceCandidateCurrent
  <2>3. PriceTypeOK'
    <3>1. priceCandidate' # NoPriceCandidate =>
            priceCandidate'.engine \in PriceEngineState
      <4> SUFFICES ASSUME priceCandidate' # NoPriceCandidate
                   PROVE  priceCandidate'.engine \in PriceEngineState
        OBVIOUS
      <4>1. PICK fits \in BOOLEAN :
                /\ fits => price.received >= DerivativeWindow
                /\ priceCandidate' \in Outcomes(price, fits)
        BY <1>2 DEF PricePrepare
      <4>3. /\ price \in PriceEngineState /\ fitted \in Seq(BOOLEAN)
            /\ Len(fitted) = price.received /\ Aligned(price.rows, fitted)
        BY <1>2 DEF PriceInv, PriceTypeOK
      <4> QED
        BY <2>1, <4>1, <4>3, OutcomeShape
    <3> QED
      BY <1>2, <2>1, <3>1 DEF PriceInv, PriceTypeOK
  <2> QED
    BY <1>2, <2>1, <2>2, <2>3 DEF PriceInv, ShownAgree, EmissionSchedule
<1>3. ASSUME PriceInv, PriceReset
      PROVE  PriceInv'
  <2>1. /\ price' = ColdPrice /\ priceCandidate' = NoPriceCandidate
        /\ priceStatus' = "NONE" /\ fitted' = <<>>
    BY <1>3 DEF PriceReset
  <2>2. (price = ColdPrice /\ priceCandidate = NoPriceCandidate
            /\ priceStatus = "NONE" /\ fitted = <<>>)' => PriceInv'
    BY ColdKeepsPriceInv, PTL
  <2> QED
    BY <2>1, <2>2
<1>4. ASSUME PriceInv, UNCHANGED priceVars
      PROVE  PriceInv'
  BY <1>4 DEF priceVars, PriceInv, PriceTypeOK, PriceCandidateCurrent, Aligned,
              ShownAgree, EmissionSchedule
<1> QED
  BY <1>1, <1>2, <1>3, <1>4, CommitKeepsPriceInv DEF PriceNext

\* What the price engine keeps has its type and is no longer than its windows
\* call for.
THEOREM PriceTypeCorrect == PriceSpec => []PriceTypeOK
<1>1. PriceInv => PriceTypeOK
  BY DEF PriceInv
<1> QED
  BY <1>1, PriceInvHolds, PTL DEF PriceSpec

\* The engine forgets just late enough: its answer is that of the whole run.
THEOREM PriceEmissionSchedule == PriceSpec => []EmissionSchedule
<1>1. PriceInv => EmissionSchedule
  BY DEF PriceInv
<1> QED
  BY <1>1, PriceInvHolds, PTL DEF PriceSpec

\* Policy and cockpit never show opposite colours, nor turn round in one bar.
THEOREM PriceColoursAgree == PriceSpec => ColoursAgree
<1>1. ASSUME PriceInv, [PriceNext]_priceVars, price' # price, price' # ColdPrice
      PROVE  /\ Shown'[1] = "INVALID" <=> Shown'[2] = "INVALID"
             /\ {Shown'[1], Shown'[2]} # {"GREEN", "RED"}
             /\ \A i \in 1..2 : {Shown[i], Shown'[i]} # {"GREEN", "RED"}
  <2>1. PriceCommit
    BY <1>1 DEF PriceNext, PricePrepare, PriceReset, priceVars
  <2>2. /\ price \in PriceEngineState /\ ShownAgree(price)
        /\ price' \in PriceEngineState /\ JudgedOutcome(price, price')
    BY <1>1, <2>1, CommitKeepsPriceInv DEF PriceInv, PriceTypeOK
  <2>3. PICK next : next = price'
    OBVIOUS
  <2>4. /\ ShownAgree(next)
        /\ {price.policy.previous, next.policy.previous} # {"GREEN", "RED"}
        /\ {price.cockpit.previous, next.cockpit.previous} # {"GREEN", "RED"}
    BY <2>2, <2>3, JudgedOutcomeAgree
  <2>5. /\ Shown[1] = price.policy.previous /\ Shown[2] = price.cockpit.previous
        /\ Shown'[1] = next.policy.previous /\ Shown'[2] = next.cockpit.previous
    BY <2>3 DEF Shown
  <2>6. ASSUME NEW i \in 1..2
        PROVE  {Shown[i], Shown'[i]} # {"GREEN", "RED"}
    <3>1. i = 1 \/ i = 2
      OBVIOUS
    <3> QED
      BY <2>4, <2>5, <3>1
  <2>7. /\ next.policy.previous = "INVALID"
             <=> next.cockpit.previous = "INVALID"
        /\ {next.policy.previous, next.cockpit.previous} # {"GREEN", "RED"}
    BY <2>4 DEF ShownAgree
  <2> QED
    BY <2>5, <2>6, <2>7
<1>2. PriceInv /\ [PriceNext]_priceVars =>
        [price' # ColdPrice =>
          /\ Shown'[1] = "INVALID" <=> Shown'[2] = "INVALID"
          /\ {Shown'[1], Shown'[2]} # {"GREEN", "RED"}
          /\ \A i \in 1..2 : {Shown[i], Shown'[i]} # {"GREEN", "RED"}]_price
  BY <1>1
<1> QED
  BY <1>2, PriceInvHolds, PTL DEF PriceSpec, ColoursAgree

-----------------------------------------------------------------------------
\* The engine keeps the last window of the run, with the ratio of each of its
\* bars; there is a hole where the bar's window was not yet full.
Follows(raw, vn, kept, run, n) ==
    /\ kept = IF n < RawWindow THEN n ELSE RawWindow
    /\ Len(vn) = kept
    /\ \A i \in 1..kept, bar \in Int : bar = n - kept + i =>
          /\ raw[i] = run[bar]
          /\ vn[i] = IF bar < RawWindow THEN Undefined ELSE Ratio(run, bar)

Windowed(engine, run) ==
    Follows(engine.raw, engine.vn, Len(engine.raw), run, Len(run))

LEMMA WindowFits == RawWindow \in Nat /\ RawWindow >= 1
  BY VolumeAssumption

\* What of seq and x is kept.
KeptOf(kept, seq, x) ==
    /\ Len(kept) = IF Len(seq) < RawWindow THEN Len(seq) + 1 ELSE RawWindow
    /\ kept[Len(kept)] = x
    /\ \A i \in 1..Len(kept) - 1 :
          kept[i] = seq[i + (Len(seq) + 1 - Len(kept))]

LEMMA LastWindowOfAppend ==
    ASSUME NEW S, NEW seq \in Seq(S), NEW x \in S, Len(seq) <= RawWindow
    PROVE  /\ LastWindow(Append(seq, x)) \in Seq(S)
           /\ KeptOf(LastWindow(Append(seq, x)), seq, x)
<1>kept. PICK kept : kept = LastWindow(Append(seq, x))
  OBVIOUS
<1> SUFFICES kept \in Seq(S) /\ KeptOf(kept, seq, x)
  BY <1>kept
<1>1. PICK longer : longer = Append(seq, x)
  OBVIOUS
<1>2. /\ longer \in Seq(S) /\ Len(seq) \in Nat /\ Len(longer) = Len(seq) + 1
      /\ longer[Len(seq) + 1] = x
      /\ \A i \in 1..Len(seq) : longer[i] = seq[i]
  BY <1>1, AppendProperties, LenProperties
<1>3. CASE Len(seq) < RawWindow
  <2>1. kept = longer
    BY <1>kept, <1>1, <1>2, <1>3, WindowFits DEF LastWindow
  <2> QED
    BY <1>2, <1>3, <2>1 DEF KeptOf
<1>4. CASE Len(seq) = RawWindow
  <2>1. kept = SubSeq(longer, 2, RawWindow + 1)
    BY <1>kept, <1>1, <1>2, <1>4, WindowFits DEF LastWindow
  <2>2. \A i \in 2..RawWindow + 1 : longer[i] \in S
    BY <1>2, <1>4, WindowFits, ElementOfSeq
  <2>3. /\ kept \in Seq(S) /\ Len(kept) = RawWindow
        /\ \A i \in 1..RawWindow : kept[i] = longer[2 + i - 1]
    <3>1. 2 <= RawWindow + 1 /\ RawWindow + 1 - 2 + 1 = RawWindow
      BY WindowFits
    <3> QED
      BY <2>1, <2>2, <3>1, WindowFits, SubSeqProperties
  <2>4. \A i \in 1..RawWindow : 2 + i - 1 = i + 1
    BY WindowFits
  <2> QED
    BY <1>2, <1>4, <2>3, <2>4, WindowFits DEF KeptOf
<1> QED
  BY <1>2, <1>3, <1>4, WindowFits

-----------------------------------------------------------------------------
\* What is said of a bar does not change when others follow it.

LEMMA RatioStays ==
    ASSUME NEW run \in Seq(Volumes), NEW v \in Volumes,
           NEW i \in RawWindow..Len(run)
    PROVE  Ratio(Append(run, v), i) = Ratio(run, i)
<1>1. /\ i - RawWindow + 1 \in Nat \ {0} /\ i \in Nat /\ i <= Len(run)
  BY WindowFits, LenProperties
<1> QED
  BY <1>1, SubSeqOfAppend DEF Ratio

LEMMA DefinedStays ==
    ASSUME NEW run \in Seq(Volumes), NEW v \in Volumes,
           NEW i \in Int, i <= Len(run)
    PROVE  /\ Defined(Append(run, v), i) <=> Defined(run, i)
           /\ MeanDefined(Append(run, v), i) <=> MeanDefined(run, i)
<1>1. Len(run) \in Nat /\ RawWindow \in Nat
  BY LenProperties, WindowFits
<1>2. ASSUME NEW j \in Int, j <= Len(run)
      PROVE  Defined(Append(run, v), j) <=> Defined(run, j)
  <2>1. CASE j >= RawWindow
    <3>1. j \in RawWindow..Len(run)
      BY <1>1, <1>2, <2>1
    <3> QED
      BY <3>1, RatioStays DEF Defined
  <2>2. CASE ~(j >= RawWindow)
    BY <2>2 DEF Defined
  <2> QED
    BY <2>1, <2>2
<1>3. \A j \in i - RawWindow + 1..i : j \in Int /\ j <= Len(run)
  BY <1>1
<1> QED
  BY <1>2, <1>3 DEF MeanDefined

LEMMA MeanColorStays ==
    ASSUME NEW run \in Seq(Volumes), NEW v \in Volumes,
           NEW i \in RawWindow..Len(run), MeanDefined(run, i)
    PROVE  MeanColor(Append(run, v), i) = MeanColor(run, i)
<1>1. Len(run) \in Nat /\ RawWindow \in Nat
  BY LenProperties, WindowFits
<1>2. ASSUME NEW k \in 1..RawWindow
      PROVE  Ratio(Append(run, v), i - RawWindow + k)
               = Ratio(run, i - RawWindow + k)
  <2>1. PICK j : j = i - RawWindow + k
    OBVIOUS
  <2>2. j \in i - RawWindow + 1..i
    BY <1>1, <2>1
  <2>3. Defined(run, j)
    BY <2>2 DEF MeanDefined
  <2>4. j \in RawWindow..Len(run)
    BY <1>1, <2>2, <2>3 DEF Defined
  <2> QED
    BY <2>1, <2>4, RatioStays
<1>3. [k \in 1..RawWindow |-> Ratio(Append(run, v), i - RawWindow + k)]
        = [k \in 1..RawWindow |-> Ratio(run, i - RawWindow + k)]
  BY <1>2
<1> QED
  BY <1>3 DEF MeanColor

-----------------------------------------------------------------------------
\* A step of the engine on its clone.

LEMMA WindowEnding ==
    ASSUME NEW run \in Seq(Volumes), NEW bar \in RawWindow..Len(run)
    PROVE  LET window == SubSeq(run, bar - RawWindow + 1, bar)
           IN /\ window \in Seq(Volumes) /\ Len(window) = RawWindow
              /\ \A i \in 1..RawWindow : window[i] = run[bar - RawWindow + i]
<1>1. PICK m : m = bar - RawWindow + 1
  OBVIOUS
<1>2. /\ m \in Int /\ bar \in Int /\ m <= bar /\ bar - m + 1 = RawWindow
      /\ \A i \in m..bar : i \in 1..Len(run)
  BY <1>1, WindowFits, LenProperties
<1>3. \A i \in m..bar : run[i] \in Volumes
  BY <1>2, ElementOfSeq
<1>4. /\ SubSeq(run, m, bar) \in Seq(Volumes)
      /\ Len(SubSeq(run, m, bar)) = RawWindow
      /\ \A i \in 1..RawWindow : SubSeq(run, m, bar)[i] = run[m + i - 1]
  BY <1>2, <1>3, SubSeqProperties
<1>5. \A i \in 1..RawWindow : m + i - 1 = bar - RawWindow + i
  BY <1>1, <1>2, WindowFits
<1> QED
  BY <1>1, <1>4, <1>5

LEMMA NormalizedTyped ==
    ASSUME NEW window \in Seq(Volumes), Len(window) = RawWindow
    PROVE  Normalized(window) \in Ratios
<1>1. window \in [1..RawWindow -> Volumes]
  BY LenProperties, ElementOfSeq
<1> QED
  BY <1>1 DEF Ratios

LEMMA AdvancedWindowed ==
    ASSUME NEW engine \in VolumeEngineState, NEW run \in Seq(Volumes),
           Windowed(engine, run), NEW v \in Volumes,
           NEW next, next = Advanced(engine, v)
    PROVE  /\ next \in VolumeEngineState /\ Windowed(next, Append(run, v))
           /\ next.gen = engine.gen
           /\ next.interpretation = engine.interpretation
<1>n. PICK n : n = Len(run)
  OBVIOUS
<1>1. /\ engine.raw \in Seq(Volumes) /\ engine.vn \in Seq(Ratios)
      /\ Len(engine.raw) \in Nat /\ Len(engine.raw) <= RawWindow
      /\ Len(engine.vn) = Len(engine.raw) /\ n \in Nat
      /\ Len(engine.raw) = IF n < RawWindow THEN n ELSE RawWindow
  BY <1>n, WindowFits, LenProperties
     DEF VolumeEngineState, Windowed, Follows
<1>2. PICK m : m = Len(engine.raw)
  OBVIOUS
<1>old. PICK old, ratios : old = engine.raw /\ ratios = engine.vn
  OBVIOUS
<1>kept. /\ old \in Seq(Volumes) /\ ratios \in Seq(Ratios)
         /\ Len(old) = m /\ Len(ratios) = m /\ m <= RawWindow
  BY <1>1, <1>2, <1>old
<1>3. PICK raw : raw = LastWindow(Append(old, v))
  OBVIOUS
<1>4. PICK value : value = IF Len(raw) < RawWindow THEN Undefined
                           ELSE Normalized(raw)
  OBVIOUS
<1>5. PICK vn : vn = LastWindow(Append(ratios, value))
  OBVIOUS
<1>6. PICK k : k = Len(raw)
  OBVIOUS
<1>7. /\ raw \in Seq(Volumes) /\ raw[k] = v
      /\ k = IF m < RawWindow THEN m + 1 ELSE RawWindow
      /\ \A i \in 1..k - 1 : raw[i] = old[i + (m + 1 - k)]
  <2>1. Len(old) <= RawWindow
    BY <1>kept
  <2>2. raw \in Seq(Volumes) /\ KeptOf(raw, old, v)
    BY <1>kept, <1>3, <2>1, LastWindowOfAppend
  <2> QED
    BY <1>kept, <1>6, <2>2 DEF KeptOf
<1>8. value \in Ratios
  <2>1. k <= RawWindow
    BY <1>1, <1>2, <1>7, WindowFits
  <2>2. CASE k < RawWindow
    BY <1>4, <1>6, <2>2 DEF Ratios
  <2>3. CASE ~(k < RawWindow)
    <3>1. Len(raw) = RawWindow
      BY <1>1, <1>2, <1>6, <1>7, <2>3, WindowFits
    <3>2. Normalized(raw) \in Ratios
      BY <1>7, <3>1, NormalizedTyped
    <3> QED
      BY <1>4, <1>6, <2>3, <3>2
  <2> QED
    BY <2>2, <2>3
<1>9. /\ vn \in Seq(Ratios) /\ Len(vn) = k /\ vn[k] = value
      /\ \A i \in 1..k - 1 : vn[i] = ratios[i + (m + 1 - k)]
  <2>1. Len(ratios) <= RawWindow
    BY <1>kept
  <2>2. vn \in Seq(Ratios) /\ KeptOf(vn, ratios, value)
    BY <1>kept, <1>5, <1>8, <2>1, LastWindowOfAppend
  <2>3. Len(vn) = k
    BY <1>kept, <1>7, <2>2 DEF KeptOf
  <2> QED
    BY <1>kept, <2>2, <2>3 DEF KeptOf
<1>10. next = [engine EXCEPT !.raw = raw, !.vn = vn]
  BY <1>old, <1>3, <1>4, <1>5 DEF Advanced, AppendPositional
<1>11. /\ next \in VolumeEngineState /\ next.raw = raw /\ next.vn = vn
       /\ next.gen = engine.gen /\ next.interpretation = engine.interpretation
  BY <1>7, <1>9, <1>10 DEF VolumeEngineState
<1>12. PICK longer : longer = Append(run, v)
  OBVIOUS
<1>13. /\ longer \in Seq(Volumes) /\ Len(longer) = n + 1 /\ longer[n + 1] = v
       /\ \A i \in 1..n : longer[i] = run[i]
  BY <1>n, <1>1, <1>12, AppendProperties
<1>14. k \in Nat /\ k >= 1 /\ m \in Nat
       /\ k = IF n + 1 < RawWindow THEN n + 1 ELSE RawWindow
  BY <1>1, <1>2, <1>7, WindowFits
<1>15. ASSUME NEW i \in 1..k, NEW bar \in Int, bar = n + 1 - k + i
       PROVE  /\ raw[i] = longer[bar]
              /\ i < k => vn[i] = IF bar < RawWindow THEN Undefined
                                  ELSE Ratio(longer, bar)
  <2>1. CASE i = k
    <3>1. bar = n + 1
      BY <1>1, <1>14, <1>15, <2>1
    <3> QED
      BY <1>7, <1>13, <1>14, <2>1, <3>1
  <2>2. CASE i \in 1..k - 1
    <3>1. PICK j : j = i + (m + 1 - k)
      OBVIOUS
    <3>2. j \in 1..m /\ bar = n - m + j /\ bar \in 1..n
      <4>1. m = IF n < RawWindow THEN n ELSE RawWindow
        BY <1>1, <1>2
      <4>2. i \in Nat /\ i >= 1 /\ i <= k - 1
        BY <1>14, <2>2
      <4>3. bar = n + 1 - k + i
        BY <1>15
      <4>4. k = IF n + 1 < RawWindow THEN n + 1 ELSE RawWindow
        BY <1>14
      <4>5. n \in Nat
        BY <1>1
      <4>6. CASE n < RawWindow
        <5>1. m = n /\ k = n + 1
          BY <4>1, <4>4, <4>5, <4>6, WindowFits
        <5> QED
          BY <3>1, <4>2, <4>3, <4>5, <5>1
      <4>7. CASE ~(n < RawWindow)
        <5>1. m = RawWindow /\ k = RawWindow
          BY <4>1, <4>4, <4>5, <4>7, WindowFits
        <5> QED
          BY <3>1, <4>2, <4>3, <4>5, <4>7, <5>1, WindowFits
      <4> QED
        BY <4>6, <4>7
    <3>3. /\ engine.raw[j] = run[bar]
          /\ engine.vn[j] = IF bar < RawWindow THEN Undefined
                            ELSE Ratio(run, bar)
      BY <1>n, <1>2, <1>15, <3>2 DEF Windowed, Follows
    <3>4. raw[i] = engine.raw[j] /\ vn[i] = engine.vn[j]
      BY <1>old, <1>7, <1>9, <2>2, <3>1
    <3>5. longer[bar] = run[bar]
      BY <1>13, <3>2
    <3>6. ~(bar < RawWindow) => Ratio(longer, bar) = Ratio(run, bar)
      <4>1. ~(bar < RawWindow) => bar \in RawWindow..n
        BY <1>1, <3>2, WindowFits
      <4> QED
        BY <1>n, <1>12, <4>1, RatioStays
    <3> QED
      BY <3>3, <3>4, <3>5, <3>6
  <2> QED
    BY <1>14, <2>1, <2>2
<1>16. value = IF n + 1 < RawWindow THEN Undefined ELSE Ratio(longer, n + 1)
  <2>1. CASE n + 1 < RawWindow
    BY <1>4, <1>6, <1>14, <2>1
  <2>2. CASE ~(n + 1 < RawWindow)
    <3>0. PICK last : last = n + 1
      OBVIOUS
    <3>1. PICK window : window = SubSeq(longer, last - RawWindow + 1, last)
      OBVIOUS
    <3>2. last \in RawWindow..Len(longer) /\ k = RawWindow /\ last \in Int
      BY <1>1, <1>13, <1>14, <2>2, <3>0, WindowFits
    <3>3. /\ window \in Seq(Volumes) /\ Len(window) = RawWindow
          /\ \A i \in 1..RawWindow : window[i] = longer[last - RawWindow + i]
      BY <1>13, <3>1, <3>2, WindowEnding
    <3>4. \A i \in 1..RawWindow : raw[i] = longer[last - RawWindow + i]
      <4>1. \A i \in 1..RawWindow : last - RawWindow + i \in Int
        BY <3>2, WindowFits
      <4>2. \A i \in 1..k, bar \in Int :
               bar = last - k + i => raw[i] = longer[bar]
        <5> SUFFICES ASSUME NEW i \in 1..k, NEW bar \in Int, bar = last - k + i
                     PROVE  raw[i] = longer[bar]
          OBVIOUS
        <5>1. bar = n + 1 - k + i
          BY <1>1, <1>14, <3>0
        <5> QED
          BY <1>15, <5>1
      <4>3. \A i \in 1..RawWindow : raw[i] = longer[last - k + i]
        BY <3>2, <4>1, <4>2
      <4> QED
        BY <3>2, <4>3
    <3>5. raw = window
      <4>1. /\ raw \in Seq(Volumes) /\ Len(raw) = Len(window)
            /\ \A i \in 1..Len(raw) : raw[i] = window[i]
        BY <1>6, <1>7, <3>2, <3>3, <3>4
      <4> QED
        BY <3>3, <4>1, SeqEqual
    <3>6. Ratio(longer, last) = Normalized(window)
      BY <3>1 DEF Ratio
    <3>7. value = Normalized(raw)
      BY <1>4, <1>6, <3>2, WindowFits
    <3> QED
      BY <2>2, <3>0, <3>5, <3>6, <3>7
  <2> QED
    BY <2>1, <2>2
<1>17. \A i \in 1..k, bar \in Int : bar = n + 1 - k + i =>
          /\ raw[i] = longer[bar]
          /\ vn[i] = IF bar < RawWindow THEN Undefined ELSE Ratio(longer, bar)
  <2> SUFFICES ASSUME NEW i \in 1..k, NEW bar \in Int, bar = n + 1 - k + i
               PROVE  /\ raw[i] = longer[bar]
                      /\ vn[i] = IF bar < RawWindow THEN Undefined
                                 ELSE Ratio(longer, bar)
    OBVIOUS
  <2>1. CASE i = k
    <3>1. bar = n + 1
      BY <1>1, <1>14, <2>1
    <3> QED
      BY <1>9, <1>15, <1>16, <2>1, <3>1
  <2>2. CASE i # k
    <3>1. i < k
      BY <1>14, <2>2
    <3> QED
      BY <1>15, <3>1
  <2> QED
    BY <2>1, <2>2
<1>18. Windowed(next, longer)
  <2>1. PICK len : len = Len(longer)
    OBVIOUS
  <2>2. len = n + 1 /\ k = IF len < RawWindow THEN len ELSE RawWindow
    BY <1>13, <1>14, <2>1
  <2>3. \A i \in 1..k, bar \in Int : bar = len - k + i =>
          /\ raw[i] = longer[bar]
          /\ vn[i] = IF bar < RawWindow THEN Undefined ELSE Ratio(longer, bar)
    <3> SUFFICES ASSUME NEW i \in 1..k, NEW bar \in Int, bar = len - k + i
                 PROVE  /\ raw[i] = longer[bar]
                        /\ vn[i] = IF bar < RawWindow THEN Undefined
                                   ELSE Ratio(longer, bar)
      OBVIOUS
    <3>1. bar = n + 1 - k + i
      BY <1>1, <1>14, <2>2
    <3> QED
      BY <1>17, <3>1
  <2>4. /\ next.raw = raw /\ next.vn = vn /\ Len(raw) = k /\ Len(vn) = k
    BY <1>6, <1>9, <1>11
  <2>5. Follows(raw, vn, k, longer, len)
    BY <2>2, <2>3, <2>4 DEF Follows
  <2> QED
    BY <2>1, <2>4, <2>5 DEF Windowed
<1> QED
  BY <1>11, <1>12, <1>18

-----------------------------------------------------------------------------
\* What the engine says of the last bar is what the run says of it.

LEMMA NotYetFull == \A bar \in Int : bar < RawWindow <=> ~(bar >= RawWindow)
  BY WindowFits

LEMMA HoleIsUndefined ==
    ASSUME NEW engine, NEW run, Windowed(engine, run),
           NEW kept, kept = Len(engine.raw), NEW n, n = Len(run),
           NEW i \in 1..kept, NEW bar \in Int, bar = n - kept + i
    PROVE  engine.vn[i] # Undefined <=> Defined(run, bar)
<1>1. PICK value : value = engine.vn[i]
  OBVIOUS
<1>2. value = IF bar < RawWindow THEN Undefined ELSE Ratio(run, bar)
  BY <1>1 DEF Windowed, Follows
<1>3. CASE bar < RawWindow
  <2>1. ~(bar >= RawWindow)
    BY <1>3, NotYetFull
  <2>2. ~Defined(run, bar)
    BY <2>1 DEF Defined
  <2>3. value = Undefined
    BY <1>2, <1>3
  <2> QED
    BY <1>1, <2>2, <2>3
<1>4. CASE ~(bar < RawWindow)
  <2>1. bar >= RawWindow
    BY <1>4, NotYetFull
  <2>2. Defined(run, bar) <=> Ratio(run, bar) # Undefined
    BY <2>1 DEF Defined
  <2>3. value = Ratio(run, bar)
    BY <1>2, <1>4
  <2> QED
    BY <1>1, <2>2, <2>3
<1> QED
  BY <1>3, <1>4

LEMMA FiniteIsDefined ==
    ASSUME NEW engine \in VolumeEngineState, NEW run \in Seq(Volumes),
           Windowed(engine, run), NEW w \in 1..RawWindow
    PROVE  LastFinite(engine, w)
             <=> /\ Len(run) >= w
                 /\ \A j \in Len(run) - w + 1..Len(run) : Defined(run, j)
<1>1. PICK n, k : n = Len(run) /\ k = Len(engine.raw)
  OBVIOUS
<1>2. /\ n \in Nat /\ k \in Nat /\ w \in Nat /\ Len(engine.vn) = k
      /\ k = IF n < RawWindow THEN n ELSE RawWindow
  BY <1>1, WindowFits, LenProperties
     DEF VolumeEngineState, Windowed, Follows
<1>3. k >= w <=> n >= w
  BY <1>2, WindowFits
<1>4. \A i \in 1..k, bar \in Int :
         bar = n - k + i => (engine.vn[i] # Undefined <=> Defined(run, bar))
  BY <1>1, HoleIsUndefined
<1>5. CASE ~(n >= w)
  BY <1>1, <1>2, <1>3, <1>5 DEF LastFinite
<1>6. CASE n >= w
  <2>0. /\ n \in Nat /\ k \in Nat /\ w \in Nat /\ k >= w /\ k <= n
    BY <1>2, <1>3, <1>6, WindowFits
  <2>1. ASSUME \A i \in k - w + 1..k : engine.vn[i] # Undefined,
               NEW j \in n - w + 1..n
        PROVE  Defined(run, j)
    <3>1. PICK i \in Int : i = j - n + k
      BY <2>0
    <3>2. /\ i \in 1..k /\ i \in k - w + 1..k /\ j \in Int /\ j = n - k + i
      BY <2>0, <3>1
    <3> QED
      BY <1>4, <2>1, <3>2
  <2>2. ASSUME \A j \in n - w + 1..n : Defined(run, j),
               NEW i \in k - w + 1..k
        PROVE  engine.vn[i] # Undefined
    <3>1. PICK j \in Int : j = n - k + i
      BY <2>0
    <3>2. /\ i \in 1..k /\ j \in n - w + 1..n
      BY <2>0, <3>1
    <3> QED
      BY <1>4, <2>2, <3>1, <3>2
  <2>3. LastFinite(engine, w)
          <=> \A i \in k - w + 1..k : engine.vn[i] # Undefined
    BY <1>2, <1>3, <1>6 DEF LastFinite
  <2> QED
    BY <1>1, <1>6, <2>1, <2>2, <2>3
<1> QED
  BY <1>5, <1>6

LEMMA MeanIsFinite ==
    ASSUME NEW engine \in VolumeEngineState, NEW run \in Seq(Volumes),
           Windowed(engine, run)
    PROVE  /\ LastFinite(engine, RawWindow) <=> MeanDefined(run, Len(run))
           /\ MeanDefined(run, Len(run)) => derivativesFromState(engine)
           /\ LastFinite(engine, 1) <=> Defined(run, Len(run))
           /\ Len(engine.raw) = RawWindow <=> Len(run) >= RawWindow
<1>1. PICK n : n = Len(run)
  OBVIOUS
<1>2. n \in Nat /\ RawWindow \in Nat /\ RawWindow >= 1
  BY <1>1, LenProperties, WindowFits
<1>3. \A w \in 1..RawWindow :
         LastFinite(engine, w)
           <=> n >= w /\ \A j \in n - w + 1..n : Defined(run, j)
  BY <1>1, FiniteIsDefined
<1>4. LastFinite(engine, RawWindow) <=> MeanDefined(run, n)
  BY <1>2, <1>3 DEF MeanDefined
<1>5. MeanDefined(run, n) => derivativesFromState(engine)
  <2>1. V1V2Window \in 1..RawWindow
    BY VolumeAssumption
  <2>2. \A j \in n - V1V2Window + 1..n : j \in n - RawWindow + 1..n
    BY <1>2, <2>1
  <2>3. n >= RawWindow => n >= V1V2Window
    BY <1>2, <2>1
  <2> QED
    BY <1>3, <2>1, <2>2, <2>3 DEF MeanDefined, derivativesFromState
<1>6. LastFinite(engine, 1) <=> Defined(run, n)
  <2>1. LastFinite(engine, 1)
          <=> n >= 1 /\ \A j \in n - 1 + 1..n : Defined(run, j)
    BY <1>2, <1>3
  <2>2. \A j : j \in n - 1 + 1..n <=> j = n
    BY <1>2
  <2>3. Defined(run, n) => n >= 1
    BY <1>2 DEF Defined
  <2> QED
    BY <2>1, <2>2, <2>3
<1>7. Len(engine.raw) = RawWindow <=> n >= RawWindow
  BY <1>1, <1>2 DEF Windowed, Follows
<1> QED
  BY <1>1, <1>4, <1>5, <1>6, <1>7

LEMMA StatusOfRun ==
    ASSUME NEW engine \in VolumeEngineState, NEW run \in Seq(Volumes),
           Windowed(engine, run)
    PROVE  /\ classifyOutput(engine) \in {"AVAILABLE", "INVALID", "MATURING"}
           /\ classifyOutput(engine) = "AVAILABLE"
                <=> MeanDefined(run, Len(run))
           /\ classifyOutput(engine) = "INVALID"
                <=> Len(run) >= RawWindow /\ ~Defined(run, Len(run))
<1>1. MeanDefined(run, Len(run)) => Defined(run, Len(run))
  <2>1. Len(run) \in Len(run) - RawWindow + 1..Len(run)
    BY LenProperties, WindowFits
  <2> QED
    BY <2>1 DEF MeanDefined
<1> QED
  BY <1>1, MeanIsFinite DEF classifyOutput

LEMMA MeanOfRun ==
    ASSUME NEW engine \in VolumeEngineState, NEW run \in Seq(Volumes),
           Windowed(engine, run), MeanDefined(run, Len(run))
    PROVE  bandColor(SumOf(engine.vn)) = MeanColor(run, Len(run))
<1>1. PICK n : n = Len(run)
  OBVIOUS
<1>2. /\ n \in Nat /\ RawWindow \in Nat /\ n >= RawWindow
      /\ Len(engine.raw) = RawWindow /\ Len(engine.vn) = RawWindow
      /\ engine.vn \in Seq(Ratios)
  BY <1>1, LenProperties, WindowFits
     DEF MeanDefined, Windowed, Follows, VolumeEngineState
<1>3. PICK vn : vn = engine.vn
  OBVIOUS
<1>4. vn = [i \in 1..RawWindow |-> vn[i]]
  BY <1>2, <1>3, LenProperties
<1>5. ASSUME NEW i \in 1..RawWindow
      PROVE  vn[i] = Ratio(run, n - RawWindow + i)
  <2>1. PICK bar : bar = n - RawWindow + i
    OBVIOUS
  <2>2. bar \in Int /\ bar \in n - RawWindow + 1..n
    BY <1>2, <2>1
  <2>3. ~(bar < RawWindow)
    <3>1. Defined(run, bar)
      BY <1>1, <2>2 DEF MeanDefined
    <3> QED
      BY <1>2, <2>2, <3>1 DEF Defined
  <2>4. vn[i] = IF bar < RawWindow THEN Undefined ELSE Ratio(run, bar)
    BY <1>1, <1>2, <1>3, <2>1, <2>2 DEF Windowed, Follows
  <2> QED
    BY <2>1, <2>3, <2>4
<1>6. vn = [i \in 1..RawWindow |-> Ratio(run, n - RawWindow + i)]
  BY <1>4, <1>5
<1> QED
  BY <1>1, <1>3, <1>6 DEF MeanColor


-----------------------------------------------------------------------------
\* The colour machine: a pending colour never waits with a full count.
Steady(interpretation) ==
    interpretation.pending # "" => interpretation.count < ConfirmationCount

Interpretations ==
    [color : VolumeColors, pending : VolumeColors, count : 0..ConfirmationCount]

Bands == {"GREEN", "AMBER", "RED"}

LEMMA BandsAreColors == \A raw \in Bands : raw \in VolumeColors /\ raw # ""
  BY DEF Bands, VolumeColors

LEMMA InterpretationTyped ==
    ASSUME NEW prior \in Interpretations
    PROVE  /\ prior.color \in VolumeColors /\ prior.pending \in VolumeColors
           /\ prior.count \in Nat /\ prior.count <= ConfirmationCount
<1>1. ConfirmationCount \in Nat
  BY VolumeAssumption
<1> QED
  BY <1>1 DEF Interpretations

LEMMA ConfirmTyped ==
    ASSUME NEW raw \in Bands, NEW prior \in Interpretations, Steady(prior)
    PROVE  /\ confirmColor(raw, prior) \in Interpretations
           /\ Steady(confirmColor(raw, prior))
<1>1. PICK count : count = PendingCount(raw, prior)
  OBVIOUS
<1>2. ConfirmationCount \in Nat /\ ConfirmationCount >= 1
  BY VolumeAssumption
<1>3. raw \in VolumeColors /\ raw # "" /\ "" \in VolumeColors
      /\ "AMBER" \in VolumeColors
  BY BandsAreColors DEF VolumeColors
<1>4. count \in Nat /\ count <= ConfirmationCount
  <2>1. CASE prior.pending = raw
    <3>1. prior.count \in Nat /\ prior.count < ConfirmationCount
      BY <1>3, <2>1, InterpretationTyped DEF Steady
    <3>2. count = prior.count + 1
      BY <1>1, <2>1 DEF PendingCount
    <3> QED
      BY <1>2, <3>1, <3>2
  <2>2. CASE prior.pending # raw
    BY <1>1, <1>2, <2>2 DEF PendingCount
  <2> QED
    BY <2>1, <2>2
<1>5. PICK next : next = confirmColor(raw, prior)
  OBVIOUS
<1>a. ASSUME NEW color \in VolumeColors, NEW pending \in VolumeColors,
             NEW n \in 0..ConfirmationCount,
             next = [color |-> color, pending |-> pending, count |-> n],
             pending # "" => n < ConfirmationCount
      PROVE  next \in Interpretations /\ Steady(next)
  <2>1. next \in Interpretations
    BY <1>a DEF Interpretations
  <2>2. next.pending = pending /\ next.count = n
    BY <1>a
  <2> QED
    BY <1>a, <2>1, <2>2 DEF Steady
<1>b. 0 \in 0..ConfirmationCount /\ count \in 0..ConfirmationCount
  BY <1>2, <1>4
<1>6. CASE prior.color \in {"", raw}
  <2>1. next = [color |-> raw, pending |-> "", count |-> 0]
    BY <1>5, <1>6 DEF confirmColor
  <2> QED
    BY <1>3, <1>5, <1>a, <1>b, <2>1
<1>7. CASE prior.color \notin {"", raw} /\ count < ConfirmationCount
  <2>1. next = [color |-> "AMBER", pending |-> raw, count |-> count]
    BY <1>1, <1>5, <1>7 DEF confirmColor
  <2> QED
    BY <1>3, <1>5, <1>7, <1>a, <1>b, <2>1
<1>8. CASE prior.color \notin {"", raw} /\ ~(count < ConfirmationCount)
  <2>1. next = [color |-> raw, pending |-> "", count |-> count]
    BY <1>1, <1>5, <1>8 DEF confirmColor
  <2> QED
    BY <1>3, <1>5, <1>a, <1>b, <2>1
<1> QED
  BY <1>6, <1>7, <1>8

LEMMA InterpretedTyped ==
    ASSUME NEW engine \in VolumeEngineState, Steady(engine.interpretation),
           NEW next, next = Interpreted(engine)
    PROVE  /\ next \in VolumeEngineState /\ Steady(next.interpretation)
           /\ next.gen = engine.gen
           /\ next.raw = engine.raw /\ next.vn = engine.vn
           /\ LastFinite(engine, RawWindow) =>
                 next.interpretation = confirmColor(bandColor(SumOf(engine.vn)),
                                                    engine.interpretation)
           /\ ~LastFinite(engine, RawWindow) => next = engine
<1>1. PICK raw : raw = bandColor(SumOf(engine.vn))
  OBVIOUS
<1>2. PICK prior : prior = engine.interpretation
  OBVIOUS
<1>3. PICK after : after = confirmColor(raw, prior)
  OBVIOUS
<1>4. raw \in Bands /\ prior \in Interpretations
  BY <1>1, <1>2 DEF bandColor, Bands, VolumeEngineState, Interpretations
<1>5. after \in Interpretations /\ Steady(after)
  BY <1>2, <1>3, <1>4, ConfirmTyped
<1>6. CASE LastFinite(engine, RawWindow)
  <2>1. next = [engine EXCEPT !.interpretation = after]
    BY <1>1, <1>2, <1>3, <1>6 DEF Interpreted
  <2>2. /\ next \in VolumeEngineState /\ next.interpretation = after
        /\ next.gen = engine.gen
        /\ next.raw = engine.raw /\ next.vn = engine.vn
    BY <1>5, <2>1 DEF VolumeEngineState, Interpretations
  <2> QED
    BY <1>1, <1>2, <1>3, <1>5, <1>6, <2>2
<1>7. CASE ~LastFinite(engine, RawWindow)
  BY <1>7 DEF Interpreted
<1> QED
  BY <1>6, <1>7

\* The machine takes the colour of a bar that has a mean.
Confirms(next, prior, run) ==
    /\ MeanDefined(run, Len(run)) =>
          next = confirmColor(MeanColor(run, Len(run)), prior)
    /\ ~MeanDefined(run, Len(run)) => next = prior

\* A prepared engine: what PrepareStep makes of an engine and a volume.
LEMMA PreparedEngine ==
    ASSUME NEW engine \in VolumeEngineState, NEW run \in Seq(Volumes),
           Windowed(engine, run), Steady(engine.interpretation),
           NEW v \in Volumes, NEW next, next = Interpreted(Advanced(engine, v)),
           NEW longer, longer = Append(run, v)
    PROVE  /\ next \in VolumeEngineState /\ next.gen = engine.gen
           /\ Windowed(next, longer) /\ Steady(next.interpretation)
           /\ classifyOutput(next) \in {"AVAILABLE", "INVALID", "MATURING"}
           /\ classifyOutput(next) = "AVAILABLE"
                <=> MeanDefined(longer, Len(longer))
           /\ classifyOutput(next) = "INVALID"
                <=> Len(longer) >= RawWindow /\ ~Defined(longer, Len(longer))
           /\ Confirms(next.interpretation, engine.interpretation, longer)
<1>1. PICK fed : fed = Advanced(engine, v)
  OBVIOUS
<1>2. /\ fed \in VolumeEngineState /\ Windowed(fed, longer)
      /\ fed.gen = engine.gen /\ fed.interpretation = engine.interpretation
  BY <1>1, AdvancedWindowed
<1>3. longer \in Seq(Volumes)
  BY AppendProperties
<1>4. next = Interpreted(fed) /\ Steady(fed.interpretation)
  BY <1>1, <1>2
<1>5. /\ next \in VolumeEngineState /\ Steady(next.interpretation)
      /\ next.gen = fed.gen
      /\ next.raw = fed.raw /\ next.vn = fed.vn
      /\ LastFinite(fed, RawWindow) =>
            next.interpretation = confirmColor(bandColor(SumOf(fed.vn)),
                                               fed.interpretation)
      /\ ~LastFinite(fed, RawWindow) => next = fed
  BY <1>2, <1>4, InterpretedTyped
<1>6. Windowed(next, longer)
  BY <1>2, <1>5 DEF Windowed
<1>7. /\ LastFinite(fed, RawWindow) <=> MeanDefined(longer, Len(longer))
      /\ MeanDefined(longer, Len(longer)) =>
            bandColor(SumOf(fed.vn)) = MeanColor(longer, Len(longer))
  BY <1>2, <1>3, MeanIsFinite, MeanOfRun
<1>8. Confirms(next.interpretation, engine.interpretation, longer)
  BY <1>2, <1>5, <1>7 DEF Confirms
<1> QED
  BY <1>2, <1>3, <1>5, <1>6, <1>8, StatusOfRun


-----------------------------------------------------------------------------
\* The candidate is of the engine it was prepared on.
PreparedFrom(engine) ==
    /\ volumeCandidate.volume \in Volumes
    /\ volumeCandidate.engine
         = Interpreted(Advanced(engine, volumeCandidate.volume))
    /\ volumeCandidate.status = classifyOutput(volumeCandidate.engine)

\* Of the engine's generation, it was prepared on this very engine; generations
\* are used again only from 0, and every engine of generation 0 is cold.
CandidateOfItsGeneration ==
    volumeCandidate # NoVolumeCandidate =>
        /\ volumeCandidate.engine.gen = volume.gen => PreparedFrom(volume)
        /\ volumeCandidate.engine.gen > volume.gen => volume.gen = 0
        /\ volumeCandidate.engine.gen = 0 => PreparedFrom(ColdVolume(0))

FirstIsCold == volume.gen = 0 => volume = ColdVolume(0) /\ history = <<>>

VolumeInv ==
    /\ VolumeTypeOK
    /\ Windowed(volume, history)
    /\ Steady(volume.interpretation)
    /\ StatusMatchesHistory
    /\ FirstIsCold
    /\ CandidateOfItsGeneration

LEMMA ColdIsWindowed ==
    ASSUME NEW gen \in 0..MaxGen
    PROVE  /\ ColdVolume(gen) \in VolumeEngineState
           /\ Windowed(ColdVolume(gen), <<>>)
           /\ Steady(ColdVolume(gen).interpretation)
           /\ ColdVolume(gen).gen = gen
           /\ Len(ColdVolume(gen).raw) = 0 /\ Len(ColdVolume(gen).vn) = 0
<1>1. PICK cold : cold = ColdVolume(gen)
  OBVIOUS
<1>2. PICK none : none = [color |-> "", pending |-> "", count |-> 0]
  OBVIOUS
<1>3. cold = [gen |-> gen, raw |-> <<>>, vn |-> <<>>, interpretation |-> none]
  BY <1>1, <1>2 DEF ColdVolume
<1>4. /\ cold.gen = gen /\ cold.raw = <<>> /\ cold.vn = <<>>
      /\ cold.interpretation = none /\ none.pending = ""
  BY <1>2, <1>3
<1>5. none \in Interpretations
  <2>1. 0 \in 0..ConfirmationCount
    BY VolumeAssumption
  <2> QED
    BY <1>2, <2>1 DEF Interpretations, VolumeColors
<1>6. <<>> \in Seq(Volumes) /\ <<>> \in Seq(Ratios) /\ Len(<<>>) = 0
  OBVIOUS
<1>7. cold \in VolumeEngineState
  BY <1>3, <1>5, <1>6 DEF VolumeEngineState, Interpretations
<1>8. Windowed(cold, <<>>)
  <2>1. PICK raw, vn : raw = cold.raw /\ vn = cold.vn
    OBVIOUS
  <2>2. Follows(raw, vn, 0, <<>>, 0)
    <3>1. Len(vn) = 0
      BY <1>4, <1>6, <2>1
    <3>2. 0 = IF 0 < RawWindow THEN 0 ELSE RawWindow
      BY WindowFits
    <3>3. \A i \in 1..0 : FALSE
      OBVIOUS
    <3> QED
      BY <3>1, <3>2, <3>3 DEF Follows
  <2> QED
    BY <1>4, <1>6, <2>1, <2>2 DEF Windowed
<1> QED
  BY <1>1, <1>4, <1>6, <1>7, <1>8 DEF Steady

LEMMA VolumeInitInv == VolumeInit => VolumeInv
<1> SUFFICES ASSUME VolumeInit PROVE VolumeInv
  OBVIOUS
<1>1. 0 \in 0..MaxGen
  BY VolumeAssumption
<1>2. volume = ColdVolume(0) /\ history = <<>> /\ Len(history) = 0
      /\ volumeCandidate = NoVolumeCandidate /\ volumeStatus = "NONE"
  BY DEF VolumeInit
<1>3. VolumeTypeOK
  <2>1. Len(volume.raw) = Len(volume.vn) /\ Len(volume.raw) <= RawWindow
    BY <1>1, <1>2, ColdIsWindowed, WindowFits
  <2>2. history \in Seq(Volumes)
    BY <1>2
  <2> QED
    BY <1>1, <1>2, <2>1, <2>2, ColdIsWindowed DEF VolumeTypeOK
<1>4. StatusMatchesHistory
  BY <1>2 DEF StatusMatchesHistory
<1> QED
  BY <1>1, <1>2, <1>3, <1>4, ColdIsWindowed
     DEF VolumeInv, FirstIsCold, CandidateOfItsGeneration

LEMMA VolumePrepareInv == VolumeInv /\ VolumePrepare => VolumeInv'
<1> SUFFICES ASSUME VolumeInv, VolumePrepare PROVE VolumeInv'
  OBVIOUS
<1>1. UNCHANGED <<volume, history, volumeStatus>>
  BY DEF VolumePrepare
<1>2. /\ Windowed(volume, history)' /\ Steady(volume.interpretation)'
      /\ StatusMatchesHistory' /\ FirstIsCold'
  BY <1>1 DEF VolumeInv, StatusMatchesHistory, FirstIsCold
<1>3. CASE volumeCandidate' = NoVolumeCandidate
  <2>1. VolumeTypeOK'
    BY <1>1, <1>3 DEF VolumeInv, VolumeTypeOK
  <2>2. CandidateOfItsGeneration'
    BY <1>3 DEF CandidateOfItsGeneration
  <2> QED
    BY <1>2, <2>1, <2>2 DEF VolumeInv
<1>4. CASE \E v \in Volumes :
              LET engine == Interpreted(Advanced(volume, v))
              IN volumeCandidate' = [engine |-> engine, volume |-> v,
                                     status |-> classifyOutput(engine)]
  <2>1. PICK v \in Volumes :
              LET engine == Interpreted(Advanced(volume, v))
              IN volumeCandidate' = [engine |-> engine, volume |-> v,
                                     status |-> classifyOutput(engine)]
    BY <1>4
  <2>2. PICK engine : engine = Interpreted(Advanced(volume, v))
    OBVIOUS
  <2>3. PICK status : status = classifyOutput(engine)
    OBVIOUS
  <2>4. PICK made : made = [engine |-> engine, volume |-> v, status |-> status]
    OBVIOUS
  <2>5. volumeCandidate' = made
    BY <2>1, <2>2, <2>3, <2>4
  <2>6. made.engine = engine /\ made.volume = v /\ made.status = status
    BY <2>4
  <2>7. /\ volumeCandidate.engine' = engine /\ volumeCandidate.volume' = v
        /\ volumeCandidate.status' = status
    BY <2>5, <2>6
  <2>8. engine \in VolumeEngineState /\ engine.gen = volume.gen
    <3>1. PICK longer : longer = Append(history, v)
      OBVIOUS
    <3>2. /\ volume \in VolumeEngineState /\ history \in Seq(Volumes)
          /\ Windowed(volume, history) /\ Steady(volume.interpretation)
      BY DEF VolumeInv, VolumeTypeOK
    <3> QED
      BY <2>2, <3>1, <3>2, PreparedEngine
  <2>9. VolumeTypeOK'
    BY <1>1, <2>7, <2>8 DEF VolumeInv, VolumeTypeOK
  <2>10. PreparedFrom(volume)'
    BY <1>1, <2>2, <2>3, <2>7 DEF PreparedFrom
  <2>11. volume.gen = 0 => PreparedFrom(ColdVolume(0))'
    BY <1>1, <2>2, <2>3, <2>7 DEF PreparedFrom, VolumeInv, FirstIsCold
  <2>12. volumeCandidate'.engine.gen = volume'.gen
    BY <1>1, <2>7, <2>8
  <2>13. volume'.gen \in Nat /\ volume.gen = volume'.gen
    BY <1>1, VolumeAssumption DEF VolumeInv, VolumeTypeOK, VolumeEngineState
  <2>14. CandidateOfItsGeneration'
    BY <2>10, <2>11, <2>12, <2>13 DEF CandidateOfItsGeneration
  <2> QED
    BY <1>2, <2>9, <2>14 DEF VolumeInv
<1> QED
  BY <1>3, <1>4 DEF VolumePrepare

\* What a commit adopts.
LEMMA CommitAdopts ==
    ASSUME VolumeInv, VolumeCommit
    PROVE  \E engine \in VolumeEngineState, v \in Volumes :
              /\ engine = Interpreted(Advanced(volume, v))
              /\ volume' = [engine EXCEPT !.gen = volume.gen + 1]
              /\ history' = Append(history, v)
              /\ volumeStatus' = classifyOutput(engine)
              /\ engine.gen = volume.gen
<1>1. PICK engine, v : engine = volumeCandidate.engine
                       /\ v = volumeCandidate.volume
  OBVIOUS
<1>2. /\ volumeCandidate # NoVolumeCandidate
      /\ engine.gen = volume.gen
      /\ volume' = [engine EXCEPT !.gen = volume.gen + 1]
      /\ history' = Append(history, v)
      /\ volumeStatus' = volumeCandidate.status
  BY <1>1 DEF VolumeCommit, SameGeneration
<1>3. PreparedFrom(volume)
  BY <1>1, <1>2 DEF VolumeInv, CandidateOfItsGeneration
<1>4. engine \in VolumeEngineState
  BY <1>1, <1>2 DEF VolumeInv, VolumeTypeOK
<1> QED
  BY <1>1, <1>2, <1>3, <1>4 DEF PreparedFrom

LEMMA VolumeCommitInv == VolumeInv /\ VolumeCommit => VolumeInv'
<1> SUFFICES ASSUME VolumeInv, VolumeCommit PROVE VolumeInv'
  OBVIOUS
<1>1. PICK engine \in VolumeEngineState, v \in Volumes :
         /\ engine = Interpreted(Advanced(volume, v))
         /\ volume' = [engine EXCEPT !.gen = volume.gen + 1]
         /\ history' = Append(history, v)
         /\ volumeStatus' = classifyOutput(engine)
         /\ engine.gen = volume.gen
  BY CommitAdopts
<1>2. /\ volume \in VolumeEngineState /\ history \in Seq(Volumes)
      /\ Windowed(volume, history) /\ Steady(volume.interpretation)
  BY DEF VolumeInv, VolumeTypeOK
<1>3. PICK longer : longer = Append(history, v)
  OBVIOUS
<1>4. /\ Windowed(engine, longer) /\ Steady(engine.interpretation)
      /\ classifyOutput(engine) \in {"AVAILABLE", "INVALID", "MATURING"}
      /\ classifyOutput(engine) = "AVAILABLE"
           <=> MeanDefined(longer, Len(longer))
      /\ classifyOutput(engine) = "INVALID"
           <=> Len(longer) >= RawWindow /\ ~Defined(longer, Len(longer))
  BY <1>1, <1>2, <1>3, PreparedEngine
<1>5. longer \in Seq(Volumes) /\ history' = longer
  BY <1>1, <1>2, <1>3, AppendProperties
<1>6. volume.gen + 1 \in 0..MaxGen /\ volume.gen \in Nat
  <2>1. PICK gen : gen = volume.gen
    OBVIOUS
  <2>2. gen < MaxGen
    BY <2>1 DEF VolumeCommit
  <2>3. gen \in 0..MaxGen /\ MaxGen \in Nat
    BY <1>2, <2>1, VolumeAssumption DEF VolumeEngineState
  <2>4. gen + 1 \in 0..MaxGen /\ gen \in Nat
    BY <2>2, <2>3
  <2> QED
    BY <2>1, <2>4
<1>7. PICK next : next = volume'
  OBVIOUS
<1>8. /\ next \in VolumeEngineState /\ next.gen = volume.gen + 1
      /\ next.raw = engine.raw /\ next.vn = engine.vn
      /\ next.interpretation = engine.interpretation
  BY <1>1, <1>6, <1>7 DEF VolumeEngineState
<1>9. Windowed(next, longer) /\ Steady(next.interpretation)
  BY <1>4, <1>8 DEF Windowed
<1>10. Len(next.raw) = Len(next.vn) /\ Len(next.raw) <= RawWindow
  BY <1>5, <1>8, <1>9, WindowFits, LenProperties DEF Windowed, Follows
<1>11. volumeCandidate' = volumeCandidate
  BY DEF VolumeCommit
<1>12. VolumeTypeOK'
  BY <1>1, <1>4, <1>5, <1>7, <1>8, <1>10, <1>11 DEF VolumeInv, VolumeTypeOK
<1>13. StatusMatchesHistory'
  BY <1>1, <1>4, <1>5 DEF StatusMatchesHistory
<1>14. volume'.gen = volume.gen + 1
  BY <1>7, <1>8
<1>15. FirstIsCold'
  BY <1>6, <1>14 DEF FirstIsCold
<1>16. CandidateOfItsGeneration'
  <2>1. volumeCandidate.engine.gen = volume.gen
    BY DEF VolumeCommit, SameGeneration
  <2>2. volumeCandidate.engine.gen = 0 => PreparedFrom(ColdVolume(0))
    BY DEF VolumeInv, CandidateOfItsGeneration, VolumeCommit
  <2>3. /\ ~(volumeCandidate'.engine.gen = volume'.gen)
        /\ ~(volumeCandidate'.engine.gen > volume'.gen)
    BY <1>6, <1>11, <1>14, <2>1
  <2>4. volumeCandidate'.engine.gen = 0 => PreparedFrom(ColdVolume(0))'
    BY <1>11, <2>2 DEF PreparedFrom
  <2> QED
    BY <2>3, <2>4 DEF CandidateOfItsGeneration
<1> QED
  BY <1>5, <1>7, <1>9, <1>12, <1>13, <1>15, <1>16 DEF VolumeInv

LEMMA VolumeResetInv == VolumeInv /\ VolumeReset => VolumeInv'
<1> SUFFICES ASSUME VolumeInv, VolumeReset PROVE VolumeInv'
  OBVIOUS
<1>1. PICK gen \in {0, volume.gen + 1} : volume' = ColdVolume(gen)
  BY DEF VolumeReset
<1>2. /\ history # <<>> /\ history' = <<>> /\ volumeStatus' = "NONE"
      /\ volumeCandidate' = volumeCandidate /\ volume.gen < MaxGen
  BY DEF VolumeReset
<1>3. /\ volume.gen \in Nat /\ MaxGen \in Nat /\ volume.gen # 0
  BY <1>2, VolumeAssumption
     DEF VolumeInv, VolumeTypeOK, VolumeEngineState, FirstIsCold
<1>4. gen \in 0..MaxGen
  BY <1>2, <1>3
<1>5. PICK cold : cold = ColdVolume(gen)
  OBVIOUS
<1>6. /\ cold \in VolumeEngineState /\ Windowed(cold, <<>>)
      /\ Steady(cold.interpretation) /\ cold.gen = gen
      /\ Len(cold.raw) = 0 /\ Len(cold.vn) = 0
  BY <1>4, <1>5, ColdIsWindowed
<1>7. volume' = cold
  BY <1>1, <1>5
<1>8. Len(history') = 0 /\ history' \in Seq(Volumes)
  BY <1>2
<1>9. VolumeTypeOK'
  BY <1>2, <1>6, <1>7, <1>8, WindowFits DEF VolumeInv, VolumeTypeOK
<1>10. StatusMatchesHistory'
  BY <1>8 DEF StatusMatchesHistory
<1>11. volume'.gen = gen
  BY <1>6, <1>7
<1>12. FirstIsCold'
  BY <1>1, <1>2, <1>11 DEF FirstIsCold
<1>13. CandidateOfItsGeneration'
  <2> SUFFICES ASSUME volumeCandidate # NoVolumeCandidate
               PROVE  CandidateOfItsGeneration'
    BY <1>2 DEF CandidateOfItsGeneration
  <2>1. PICK its : its = volumeCandidate.engine.gen
    OBVIOUS
  <2>2. its \in Nat /\ (its > volume.gen => volume.gen = 0)
        /\ (its = 0 => PreparedFrom(ColdVolume(0)))
    BY <2>1, VolumeAssumption
       DEF VolumeInv, VolumeTypeOK, VolumeEngineState,
           CandidateOfItsGeneration
  <2>3. its = 0 => PreparedFrom(ColdVolume(0))'
    BY <1>2, <2>2 DEF PreparedFrom
  <2>4. its <= volume.gen
    BY <1>3, <2>2
  <2>5. CASE gen = 0
    <3>1. PreparedFrom(volume)' <=> PreparedFrom(ColdVolume(0))'
      BY <1>1, <2>5 DEF PreparedFrom
    <3>2. volumeCandidate'.engine.gen = its /\ volume'.gen = 0
      BY <1>2, <1>11, <2>1, <2>5
    <3> QED
      BY <2>3, <3>1, <3>2 DEF CandidateOfItsGeneration
  <2>6. CASE gen = volume.gen + 1
    <3>1. ~(its = gen) /\ ~(its > gen)
      BY <1>3, <2>2, <2>4, <2>6
    <3>2. volumeCandidate'.engine.gen = its /\ volume'.gen = gen
      BY <1>2, <1>11, <2>1
    <3> QED
      BY <2>3, <3>1, <3>2 DEF CandidateOfItsGeneration
  <2> QED
    BY <2>5, <2>6
<1> QED
  BY <1>2, <1>6, <1>7, <1>9, <1>10, <1>12, <1>13 DEF VolumeInv

LEMMA VolumeInvInductive == VolumeInv /\ [VolumeNext]_volumeVars => VolumeInv'
<1>1. VolumeInv /\ UNCHANGED volumeVars => VolumeInv'
  BY DEF VolumeInv, VolumeTypeOK, StatusMatchesHistory, FirstIsCold,
         CandidateOfItsGeneration, PreparedFrom, volumeVars
<1> QED
  BY <1>1, VolumePrepareInv, VolumeCommitInv, VolumeResetInv DEF VolumeNext

LEMMA VolumeInvHolds == VolumeSpec => []VolumeInv
  BY VolumeInitInv, VolumeInvInductive, PTL DEF VolumeSpec

\* The engine and its candidate are typed, and never more than a window.
THEOREM VolumeTypeCorrect == VolumeSpec => []VolumeTypeOK
<1>1. VolumeInv => VolumeTypeOK
  BY DEF VolumeInv
<1> QED
  BY <1>1, VolumeInvHolds, PTL

\* The status of a bar is that of the whole run committed since the reset,
\* though the engine keeps one window of it (engine.go 83-133, 173-205).
THEOREM VolumeStatusMatchesHistory == VolumeSpec => []StatusMatchesHistory
<1>1. VolumeInv => StatusMatchesHistory
  BY DEF VolumeInv
<1> QED
  BY <1>1, VolumeInvHolds, PTL

-----------------------------------------------------------------------------
(* The indicator, of a colour confirmed by two bars.                       *)

\* The machine after a bar that indicates shown.
Remembers(interpretation, shown) ==
    \/ interpretation.color = shown /\ interpretation.pending = ""
    \/ /\ interpretation.color = "AMBER"
       /\ interpretation.pending = shown /\ interpretation.count = 1

Machine(interpretation, run, n) ==
    \/ /\ \A i \in 1..n : ~MeanDefined(run, i)
       /\ interpretation.color = ""
    \/ \E i \in 1..n :
          /\ LatestMean(run, i, n)
          /\ interpretation.color = Indicated(run, i)
          /\ Remembers(interpretation, MeanColor(run, i))

LEMMA ConfirmOfTwo ==
    ASSUME ConfirmationCount = 2, NEW raw \in Bands, NEW shown \in Bands,
           NEW prior, Remembers(prior, shown)
    PROVE  /\ Remembers(confirmColor(raw, prior), raw)
           /\ confirmColor(raw, prior).color
                = IF shown = raw THEN raw ELSE "AMBER"
<1>1. PICK next : next = confirmColor(raw, prior)
  OBVIOUS
<1>2. PICK color, pending, n :
         color = prior.color /\ pending = prior.pending /\ n = prior.count
  OBVIOUS
<1>3. PICK count : count = PendingCount(raw, prior)
  OBVIOUS
<1>4. count = IF pending = raw THEN n + 1 ELSE 1
  BY <1>2, <1>3 DEF PendingCount
<1>5. next = IF color \in {"", raw}
             THEN [color |-> raw, pending |-> "", count |-> 0]
             ELSE IF count < 2
             THEN [color |-> "AMBER", pending |-> raw, count |-> count]
             ELSE [color |-> raw, pending |-> "", count |-> count]
  BY <1>1, <1>2, <1>3 DEF confirmColor
<1>6. \/ color = shown /\ pending = ""
      \/ color = "AMBER" /\ pending = shown /\ n = 1
  BY <1>2 DEF Remembers
<1>7. raw # "" /\ shown # ""
  BY BandsAreColors
<1>8. CASE color = raw
  <2>1. next = [color |-> raw, pending |-> "", count |-> 0]
    BY <1>5, <1>8
  <2>2. next.color = raw /\ next.pending = ""
    BY <2>1
  <2>3. raw = IF shown = raw THEN raw ELSE "AMBER"
    BY <1>6, <1>8
  <2> QED
    BY <1>1, <2>2, <2>3 DEF Remembers
<1>9. CASE color # raw /\ shown = raw
  <2>1. pending = raw /\ n = 1 /\ color = "AMBER"
    BY <1>6, <1>9
  <2>2. ~(count < 2)
    BY <1>4, <2>1
  <2>3. color \notin {"", raw}
    BY <1>9, <2>1
  <2>4. next = [color |-> raw, pending |-> "", count |-> count]
    BY <1>5, <2>2, <2>3
  <2>5. next.color = raw /\ next.pending = ""
    BY <2>4
  <2> QED
    BY <1>1, <1>9, <2>5 DEF Remembers
<1>10. CASE color # raw /\ shown # raw
  <2>1. count = 1
    BY <1>4, <1>6, <1>7, <1>10
  <2>2. color \notin {"", raw}
    BY <1>6, <1>7, <1>10
  <2>5. count < 2
    BY <2>1
  <2>3. next = [color |-> "AMBER", pending |-> raw, count |-> 1]
    BY <1>5, <2>1, <2>2, <2>5
  <2>4. next.color = "AMBER" /\ next.pending = raw /\ next.count = 1
    BY <2>3
  <2> QED
    BY <1>1, <1>10, <2>4 DEF Remembers
<1> QED
  BY <1>8, <1>9, <1>10

LEMMA LatestStays ==
    ASSUME NEW run \in Seq(Volumes), NEW v \in Volumes,
           NEW longer, longer = Append(run, v),
           NEW i \in Int, NEW n \in Int, n <= Len(run)
    PROVE  LatestMean(longer, i, n) <=> LatestMean(run, i, n)
<1>1. Len(run) \in Nat
  BY LenProperties
<1>2. \A j \in Int : j <= n => (MeanDefined(longer, j) <=> MeanDefined(run, j))
  BY <1>1, DefinedStays
<1>3. /\ i \in 1..n => i <= n
      /\ \A j \in i + 1..n : j \in Int /\ j <= n
  OBVIOUS
<1> QED
  BY <1>2, <1>3 DEF LatestMean

LEMMA MeanNeedsWindow ==
    ASSUME NEW run \in Seq(Volumes), NEW i \in Int, MeanDefined(run, i),
           i <= Len(run)
    PROVE  i \in RawWindow..Len(run)
  BY WindowFits, LenProperties DEF MeanDefined

LEMMA LatestColorStays ==
    ASSUME NEW run \in Seq(Volumes), NEW v \in Volumes,
           NEW longer, longer = Append(run, v),
           NEW i \in Int, MeanDefined(run, i), i <= Len(run)
    PROVE  MeanColor(longer, i) = MeanColor(run, i)
  BY MeanNeedsWindow, MeanColorStays

LEMMA IndicatedStays ==
    ASSUME NEW run \in Seq(Volumes), NEW v \in Volumes,
           NEW longer, longer = Append(run, v),
           NEW i \in Int, MeanDefined(run, i), i <= Len(run)
    PROVE  Indicated(longer, i) = Indicated(run, i)
<1>1. Len(run) \in Nat
  BY LenProperties
<1>2. MeanColor(longer, i) = MeanColor(run, i)
  BY LatestColorStays
<1>3. \A j \in 1..i - 1 : j \in Int /\ j <= Len(run)
  BY <1>1
<1>4. \A j \in 1..i - 1 : MeanDefined(longer, j) <=> MeanDefined(run, j)
  BY <1>3, DefinedStays
<1>5. i - 1 \in Int /\ i - 1 <= Len(run)
  BY <1>1
<1>6. \A j \in 1..i - 1 :
         /\ LatestMean(longer, j, i - 1) <=> LatestMean(run, j, i - 1)
         /\ LatestMean(run, j, i - 1) =>
               MeanColor(longer, j) = MeanColor(run, j)
  <2> SUFFICES ASSUME NEW j \in 1..i - 1
               PROVE  /\ LatestMean(longer, j, i - 1)
                           <=> LatestMean(run, j, i - 1)
                      /\ LatestMean(run, j, i - 1) =>
                            MeanColor(longer, j) = MeanColor(run, j)
    OBVIOUS
  <2>1. LatestMean(longer, j, i - 1) <=> LatestMean(run, j, i - 1)
    BY <1>3, <1>5, LatestStays
  <2>2. LatestMean(run, j, i - 1) => MeanDefined(run, j)
    BY DEF LatestMean
  <2> QED
    BY <1>3, <2>1, <2>2, LatestColorStays
<1>7. (\A j \in 1..i - 1 : ~MeanDefined(longer, j))
        <=> (\A j \in 1..i - 1 : ~MeanDefined(run, j))
  BY <1>4
<1>8. (\E j \in 1..i - 1 : /\ LatestMean(longer, j, i - 1)
                          /\ MeanColor(longer, j) = MeanColor(longer, i))
        <=> (\E j \in 1..i - 1 : /\ LatestMean(run, j, i - 1)
                                /\ MeanColor(run, j) = MeanColor(run, i))
  BY <1>2, <1>6
<1> QED
  BY <1>2, <1>7, <1>8 DEF Indicated

LEMMA LatestIsOne ==
    ASSUME NEW run, NEW n \in Int, NEW i \in Int, NEW j \in Int,
           LatestMean(run, i, n), LatestMean(run, j, n)
    PROVE  i = j
<1>1. i \in 1..n /\ j \in 1..n /\ MeanDefined(run, i) /\ MeanDefined(run, j)
  BY DEF LatestMean
<1>2. ~(i < j)
  <2> SUFFICES ASSUME i < j PROVE FALSE
    OBVIOUS
  <2>1. j \in i + 1..n
    BY <1>1
  <2> QED
    BY <1>1, <2>1 DEF LatestMean
<1>3. ~(j < i)
  <2> SUFFICES ASSUME j < i PROVE FALSE
    OBVIOUS
  <2>1. i \in j + 1..n
    BY <1>1
  <2> QED
    BY <1>1, <2>1 DEF LatestMean
<1> QED
  BY <1>2, <1>3

LEMMA MeanColorIsBand == \A run, i : MeanColor(run, i) \in Bands
  BY DEF MeanColor, bandColor, Bands

\* A bar without a mean changes nothing of the machine.
LEMMA MachineStands ==
    ASSUME NEW run \in Seq(Volumes), NEW v \in Volumes,
           NEW longer, longer = Append(run, v), NEW n, n = Len(run),
           NEW interpretation, Machine(interpretation, run, n),
           ~MeanDefined(longer, n + 1)
    PROVE  Machine(interpretation, longer, n + 1)
<1>1. n \in Nat
  BY LenProperties
<1>2. \A j \in 1..n : MeanDefined(longer, j) <=> MeanDefined(run, j)
  <2>1. \A j \in 1..n : j \in Int /\ j <= Len(run)
    BY <1>1
  <2> QED
    BY <2>1, DefinedStays
<1>3. \A j \in 1..n + 1 : j \in 1..n \/ j = n + 1
  BY <1>1
<1>4. CASE /\ \A i \in 1..n : ~MeanDefined(run, i)
           /\ interpretation.color = ""
  BY <1>2, <1>3, <1>4 DEF Machine
<1>5. CASE \E i \in 1..n :
              /\ LatestMean(run, i, n)
              /\ interpretation.color = Indicated(run, i)
              /\ Remembers(interpretation, MeanColor(run, i))
  <2>1. PICK i \in 1..n :
              /\ LatestMean(run, i, n)
              /\ interpretation.color = Indicated(run, i)
              /\ Remembers(interpretation, MeanColor(run, i))
    BY <1>5
  <2>2. i \in Int /\ i <= Len(run) /\ i \in 1..n + 1
    BY <1>1
  <2>3. MeanDefined(run, i) /\ MeanDefined(longer, i)
    BY <1>2, <2>1 DEF LatestMean
  <2>4. \A j \in i + 1..n : ~MeanDefined(longer, j)
    <3>1. \A j \in i + 1..n : j \in 1..n
      BY <1>1
    <3> QED
      BY <1>2, <2>1, <3>1 DEF LatestMean
  <2>5. \A j \in i + 1..n + 1 : j \in i + 1..n \/ j = n + 1
    BY <1>1
  <2>6. LatestMean(longer, i, n + 1)
    BY <2>2, <2>3, <2>4, <2>5 DEF LatestMean
  <2>7. /\ Indicated(longer, i) = Indicated(run, i)
        /\ MeanColor(longer, i) = MeanColor(run, i)
    BY <2>2, <2>3, IndicatedStays, LatestColorStays
  <2> QED
    BY <2>1, <2>2, <2>6, <2>7 DEF Machine
<1> QED
  BY <1>4, <1>5 DEF Machine

\* A bar with a mean is confirmed by the last one that had a mean, or not.
LEMMA MachineConfirms ==
    ASSUME ConfirmationCount = 2,
           NEW run \in Seq(Volumes), NEW v \in Volumes,
           NEW longer, longer = Append(run, v), NEW n, n = Len(run),
           NEW prior, Machine(prior, run, n), MeanDefined(longer, n + 1),
           NEW next, next = confirmColor(MeanColor(longer, n + 1), prior)
    PROVE  Machine(next, longer, n + 1)
<1>1. n \in Nat /\ n + 1 - 1 = n /\ n + 1 \in 1..n + 1
  BY LenProperties
<1>2. \A j \in 1..n : MeanDefined(longer, j) <=> MeanDefined(run, j)
  <2>1. \A j \in 1..n : j \in Int /\ j <= Len(run)
    BY <1>1
  <2> QED
    BY <2>1, DefinedStays
<1>3. LatestMean(longer, n + 1, n + 1)
  <2>1. \A j \in n + 1 + 1..n + 1 : FALSE
    BY <1>1
  <2> QED
    BY <1>1, <2>1 DEF LatestMean
<1>4. PICK raw : raw = MeanColor(longer, n + 1)
  OBVIOUS
<1>5. raw \in Bands
  BY <1>4, MeanColorIsBand
<1>6. PICK last : last = n + 1
  OBVIOUS
<1>7. CASE /\ \A i \in 1..n : ~MeanDefined(run, i)
           /\ prior.color = ""
  <2>1. \A j \in 1..last - 1 : ~MeanDefined(longer, j)
    <3>1. last - 1 = n
      BY <1>1, <1>6
    <3> QED
      BY <1>2, <1>7, <3>1
  <2>2. Indicated(longer, last) = raw
    BY <1>4, <1>6, <2>1 DEF Indicated
  <2>3. next = [color |-> raw, pending |-> "", count |-> 0]
    <3>1. next = confirmColor(raw, prior) /\ prior.color \in {"", raw}
      BY <1>4, <1>7
    <3> QED
      BY <3>1 DEF confirmColor
  <2>4. next.color = raw /\ next.pending = ""
    <3>1. PICK shows : shows = [color |-> raw, pending |-> "", count |-> 0]
      OBVIOUS
    <3>2. shows.color = raw /\ shows.pending = ""
      BY <3>1
    <3> QED
      BY <2>3, <3>1, <3>2
  <2> QED
    BY <1>1, <1>3, <1>4, <1>6, <2>2, <2>4 DEF Machine, Remembers
<1>8. CASE \E i \in 1..n :
              /\ LatestMean(run, i, n)
              /\ prior.color = Indicated(run, i)
              /\ Remembers(prior, MeanColor(run, i))
  <2>1. PICK i \in 1..n :
              /\ LatestMean(run, i, n)
              /\ Remembers(prior, MeanColor(run, i))
    BY <1>8
  <2>2. i \in Int /\ i <= Len(run) /\ n \in Int /\ n <= Len(run)
    BY <1>1
  <2>3. MeanDefined(run, i)
    BY <2>1 DEF LatestMean
  <2>4. PICK shown : shown = MeanColor(run, i)
    OBVIOUS
  <2>5. shown \in Bands /\ MeanColor(longer, i) = shown
    BY <2>2, <2>3, <2>4, MeanColorIsBand, LatestColorStays
  <2>6. LatestMean(longer, i, n)
    BY <2>1, <2>2, LatestStays
  <2>7. /\ Remembers(next, raw)
        /\ next.color = IF shown = raw THEN raw ELSE "AMBER"
    <3>1. Remembers(prior, shown) /\ next = confirmColor(raw, prior)
      BY <1>4, <2>1, <2>4
    <3>2. /\ Remembers(confirmColor(raw, prior), raw)
          /\ confirmColor(raw, prior).color
               = IF shown = raw THEN raw ELSE "AMBER"
      BY <1>5, <2>5, <3>1, ConfirmOfTwo
    <3> QED
      BY <3>1, <3>2
  <2>8. \A j \in 1..last - 1 : LatestMean(longer, j, last - 1) => j = i
    <3>1. \A j \in 1..n : j \in Int /\ (LatestMean(longer, j, n) => j = i)
      BY <2>2, <2>6, LatestIsOne
    <3> QED
      BY <1>1, <1>6, <3>1
  <2>9. i \in 1..last - 1 /\ LatestMean(longer, i, last - 1)
        /\ MeanDefined(longer, i)
    BY <1>1, <1>2, <1>6, <2>3, <2>6
  <2>10. Indicated(longer, last) = IF shown = raw THEN raw ELSE "AMBER"
    <3>1. ~\A j \in 1..last - 1 : ~MeanDefined(longer, j)
      BY <2>9
    <3>2. (\E j \in 1..last - 1 : /\ LatestMean(longer, j, last - 1)
                                 /\ MeanColor(longer, j) = raw)
            <=> shown = raw
      BY <2>5, <2>8, <2>9
    <3>3. MeanColor(longer, last) = raw
      BY <1>4, <1>6
    <3> QED
      BY <3>1, <3>2, <3>3 DEF Indicated
  <2> QED
    BY <1>1, <1>3, <1>4, <1>6, <2>7, <2>10 DEF Machine
<1> QED
  BY <1>7, <1>8 DEF Machine

MachineOfRun == Machine(volume.interpretation, history, Len(history))

LEMMA MachineInitial == VolumeInit => MachineOfRun
<1> SUFFICES ASSUME VolumeInit PROVE MachineOfRun
  OBVIOUS
<1>1. Len(history) = 0 /\ volume.interpretation.color = ""
  BY DEF VolumeInit, ColdVolume
<1>2. \A i \in 1..0 : FALSE
  OBVIOUS
<1> QED
  BY <1>1, <1>2 DEF MachineOfRun, Machine

LEMMA MachineStep ==
    ASSUME ConfirmationCount = 2, VolumeInv, MachineOfRun,
           [VolumeNext]_volumeVars
    PROVE  MachineOfRun'
<1>1. CASE VolumePrepare \/ UNCHANGED volumeVars
  BY <1>1 DEF MachineOfRun, VolumePrepare, volumeVars
<1>2. CASE VolumeReset
  <2>1. history' = <<>> /\ Len(history') = 0
    BY <1>2 DEF VolumeReset
  <2>2. PICK gen : volume' = ColdVolume(gen)
    BY <1>2 DEF VolumeReset
  <2>3. volume'.interpretation.color = ""
    BY <2>2 DEF ColdVolume
  <2>4. \A i \in 1..0 : FALSE
    OBVIOUS
  <2> QED
    BY <2>1, <2>3, <2>4 DEF MachineOfRun, Machine
<1>3. CASE VolumeCommit
  <2>1. PICK engine \in VolumeEngineState, v \in Volumes :
           /\ engine = Interpreted(Advanced(volume, v))
           /\ volume' = [engine EXCEPT !.gen = volume.gen + 1]
           /\ history' = Append(history, v)
    BY <1>3, CommitAdopts
  <2>2. /\ volume \in VolumeEngineState /\ history \in Seq(Volumes)
        /\ Windowed(volume, history) /\ Steady(volume.interpretation)
    BY DEF VolumeInv, VolumeTypeOK
  <2>3. PICK run, n, longer, prior :
           /\ run = history /\ n = Len(run) /\ longer = Append(run, v)
           /\ prior = volume.interpretation
    OBVIOUS
  <2>4. Len(longer) = n + 1 /\ history' = longer /\ run \in Seq(Volumes)
    BY <2>1, <2>2, <2>3, AppendProperties
  <2>5. /\ MeanDefined(longer, Len(longer)) =>
              engine.interpretation
                = confirmColor(MeanColor(longer, Len(longer)), prior)
        /\ ~MeanDefined(longer, Len(longer)) => engine.interpretation = prior
    <3>1. longer = Append(history, v)
      BY <2>3
    <3>2. Confirms(engine.interpretation, volume.interpretation, longer)
      BY <2>1, <2>2, <3>1, PreparedEngine
    <3> QED
      BY <2>3, <3>2 DEF Confirms
  <2>6. PICK next : next = engine.interpretation
    OBVIOUS
  <2>7. volume'.interpretation = next
    BY <2>1, <2>6 DEF VolumeEngineState
  <2>8. Machine(prior, run, n)
    BY <2>3 DEF MachineOfRun
  <2>9. CASE MeanDefined(longer, n + 1)
    <3>1. next = confirmColor(MeanColor(longer, n + 1), prior)
      BY <2>4, <2>5, <2>6, <2>9
    <3>2. Machine(next, longer, n + 1)
      BY <2>3, <2>4, <2>8, <2>9, <3>1, MachineConfirms
    <3> QED
      BY <2>4, <2>7, <3>2 DEF MachineOfRun
  <2>10. CASE ~MeanDefined(longer, n + 1)
    <3>1. next = prior
      BY <2>4, <2>5, <2>6, <2>10
    <3>2. Machine(next, longer, n + 1)
      BY <2>3, <2>4, <2>8, <2>10, <3>1, MachineStands
    <3> QED
      BY <2>4, <2>7, <3>2 DEF MachineOfRun
  <2> QED
    BY <2>9, <2>10
<1> QED
  BY <1>1, <1>2, <1>3 DEF VolumeNext

LEMMA MachineIsIndicator ==
    VolumeInv /\ MachineOfRun => IndicatorIsTwoAgreeing
<1> SUFFICES ASSUME VolumeInv, MachineOfRun PROVE IndicatorIsTwoAgreeing
  OBVIOUS
<1>1. PICK n : n = Len(history)
  OBVIOUS
<1>2. n \in Nat /\ \A i \in 1..n : i \in Int
  BY <1>1, LenProperties DEF VolumeInv, VolumeTypeOK
<1>3. PICK color : color = volume.interpretation.color
  OBVIOUS
<1>4. \A i \in 1..n, j \in 1..n :
         LatestMean(history, i, n) /\ LatestMean(history, j, n) => i = j
  BY <1>2, LatestIsOne
<1>5. \/ /\ \A i \in 1..n : ~MeanDefined(history, i)
         /\ color = ""
      \/ \E i \in 1..n : /\ LatestMean(history, i, n)
                         /\ color = Indicated(history, i)
  BY <1>1, <1>3 DEF MachineOfRun, Machine
<1>6. \A i \in 1..n : LatestMean(history, i, n) => MeanDefined(history, i)
  BY DEF LatestMean
<1>7. /\ (\A i \in 1..n : ~MeanDefined(history, i)) => color = ""
      /\ \A i \in 1..n :
            LatestMean(history, i, n) => color = Indicated(history, i)
  BY <1>4, <1>5, <1>6
<1> QED
  BY <1>1, <1>3, <1>7 DEF IndicatorIsTwoAgreeing

\* With the code's count of two, the indicator shows a colour exactly when the
\* last two bars that had a mean agree on it, whatever was prepared and dropped
\* and however many bars lay between them (interpretation.go 120-148).
THEOREM VolumeIndicatorIsTwoAgreeing ==
    ASSUME ConfirmationCount = 2
    PROVE  VolumeSpec => []IndicatorIsTwoAgreeing
<1>1. VolumeInv /\ MachineOfRun /\ VolumeInv' /\ [VolumeNext]_volumeVars
        => MachineOfRun'
  BY MachineStep
<1> QED
  BY <1>1, MachineInitial, VolumeInvHolds, MachineIsIndicator, PTL
     DEF VolumeSpec
=============================================================================

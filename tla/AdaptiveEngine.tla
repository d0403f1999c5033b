--------------------------- MODULE AdaptiveEngine ---------------------------
(***************************************************************************)
(* The adaptive engine of one symbol (internal/adaptive/engine.go): a step *)
(* is prepared on a clone, and committed only if the host adopts it.  The  *)
(* evaluation by D01, D02 and D04 is AdaptiveModel; here it is its outcome *)
(* for the bar: a path direction, the hard eligibility H, which is always  *)
(* 1, and a capturability score C, or a refusal.  What the engine makes of *)
(* the outcomes of a run of bars - warm-up, context, decision, position -  *)
(* is as in the code, for a context of ContextLength records instead of    *)
(* 15.                                                                     *)
(***************************************************************************)
EXTENDS Integers, Sequences, FiniteSets, SequencesExt

CONSTANTS
    ContextLength,  \* adaptive.ContextLength
    Scores,         \* values of C
    MaxEvaluated,   \* bound: evaluations committed
    MaxPrepared     \* bound: steps prepared

\* medianSorted meets an odd number of scores only.
ASSUME AdaptiveAssumption ==
    /\ ContextLength \in Nat /\ ContextLength % 2 = 1
    /\ Scores \subseteq Nat /\ Scores # {}
    /\ MaxEvaluated \in Nat /\ MaxPrepared \in Nat

Record == [path : {-1, 0, 1}, h : {1}, c : Scores]
Sides == {"BUY", "SELL", "HOLD"}
Positions == {"FLAT", "LONG", "SHORT"}

VARIABLES
    adaptive,   \* the engine: context, completedCount, positionState, eventSeq
    candidate,  \* a prepared step that has not been committed, or NoCandidate
    \* for the properties, of the engine's committed steps:
    records,    \* what was evaluated
    sides       \* what was decided; "NONE" while initializing

adaptiveVars == <<adaptive, candidate, records, sides>>

Engine == [context : Seq(Record), completed : 0..MaxEvaluated,
           position : Positions, eventSeq : 0..MaxPrepared]
NoCandidate == [side |-> "NONE"]

AdaptiveTypeOK ==
    /\ adaptive \in Engine /\ Len(adaptive.context) <= ContextLength
    /\ candidate = NoCandidate \/ candidate.engine \in Engine
    /\ records \in Seq(Record)
    /\ sides \in Seq(Sides \cup {"NONE"}) /\ Len(sides) = Len(records)

ColdEngine ==
    [context |-> <<>>, completed |-> 0, position |-> "FLAT", eventSeq |-> 0]

AdaptiveInit ==
    /\ adaptive = ColdEngine /\ candidate = NoCandidate
    /\ records = <<>> /\ sides = <<>>

-----------------------------------------------------------------------------
appendContext(context, r) ==
    IF Len(context) = ContextLength THEN Append(Tail(context), r)
    ELSE Append(context, r)

\* medianSorted of the scores of the context.
Median(context) ==
    SortSeq([i \in DOMAIN context |-> context[i].c], <)[Len(context) \div 2 + 1]

Count(context, path) ==
    Cardinality({i \in DOMAIN context : context[i].path = path})

\* Mutant: the bar that is decided is already in its context.
Prior_WithCurrent(context, r) == appendContext(context, r)
\* The records r is compared with: those before it.
Prior(context, r) == context

\* decide: against the context, and not for a direction most of it opposes.
decide(context, r) ==
    LET eligible == r.h = 1 /\ r.c >= Median(context)
        up == Count(context, 1)
        down == Count(context, -1)
    IN IF r.path = 1 /\ eligible /\ up >= down THEN "BUY"
       ELSE IF r.path = -1 /\ eligible /\ down >= up THEN "SELL"
       ELSE "HOLD"

PositionAfter(position, side) ==
    CASE side = "BUY" -> "LONG" [] side = "SELL" -> "SHORT"
      [] OTHER -> position

Initializing(engine) == engine.completed < ContextLength

\* stepLocked on the clone.
Stepped(engine, r) ==
    LET side == IF Initializing(engine) THEN "NONE"
                ELSE decide(Prior(engine.context, r), r)
    IN [side |-> side, record |-> r,
        engine |-> [engine EXCEPT
                       !.context = appendContext(@, r),
                       !.completed = @ + 1,
                       !.position = PositionAfter(@, side)]]

-----------------------------------------------------------------------------
\* PrepareStep.  The engine's own eventSeq counts the call, whatever comes of
\* it; a refused step leaves nothing else behind, and no candidate.
CountCall == adaptive' = [adaptive EXCEPT !.eventSeq = @ + 1]

PrepareStep ==
    /\ adaptive.eventSeq < MaxPrepared /\ adaptive.completed < MaxEvaluated
    /\ CountCall
    /\ candidate' \in {Stepped(adaptive', r) : r \in Record} \cup {NoCandidate}
    /\ UNCHANGED <<records, sides>>

\* Commit: the host adopts the candidate, after a joint verdict; or it never
\* does (a timeout, a price engine that refused) and prepares the next bar.
Commit ==
    /\ candidate # NoCandidate
    /\ adaptive' = candidate.engine
    /\ records' = Append(records, candidate.record)
    /\ sides' = Append(sides, candidate.side)
    /\ candidate' = NoCandidate

\* ResetSymbol, between two bars.
Reset ==
    /\ records # <<>> /\ candidate = NoCandidate
    /\ adaptive' = ColdEngine
    /\ records' = <<>> /\ sides' = <<>>
    /\ UNCHANGED candidate

AdaptiveNext == PrepareStep \/ Commit \/ Reset
AdaptiveSpec == AdaptiveInit /\ [][AdaptiveNext]_adaptiveVars

-----------------------------------------------------------------------------
\* The last n members of a sequence, fewer if it is shorter.
LastOf(seq, n) ==
    IF Len(seq) <= n THEN seq ELSE SubSeq(seq, Len(seq) - n + 1, Len(seq))

\* The decision for bar i of the committed ones, from them alone.
DecisionOf(i) ==
    IF i <= ContextLength THEN "NONE"
    ELSE decide(SubSeq(records, i - ContextLength, i - 1), records[i])

Taken(i) == sides[i] \in {"BUY", "SELL"}

\* Discarded, refused and reset steps leave no trace in what the engine says:
\* the committed decisions are those of the committed bars alone, each judged
\* against exactly the ContextLength bars before it, the first only after a
\* full warm-up; and the position is the side of the last one that was not a
\* HOLD.
DecisionsFollowRecords ==
    /\ adaptive.completed = Len(records)
    /\ adaptive.context = LastOf(records, ContextLength)
    /\ \A i \in DOMAIN sides : sides[i] = DecisionOf(i)
    /\ (\A i \in DOMAIN sides : ~Taken(i)) => adaptive.position = "FLAT"
    /\ \A i \in DOMAIN sides :
          Taken(i) /\ (\A j \in i + 1..Len(sides) : ~Taken(j)) =>
             adaptive.position = PositionAfter("FLAT", sides[i])
=============================================================================

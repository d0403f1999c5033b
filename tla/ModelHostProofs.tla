-------------------------- MODULE ModelHostProofs --------------------------
(***************************************************************************)
(* What the model host promises, for any number of symbols, any sizes of   *)
(* channel and inbox and any number of resets: its use of the model path   *)
(* implements ModelPath, its variables keep their types, and the engines   *)
(* commit jointly, in order, and with an exact Volume counter.             *)
(*                                                                         *)
(* The engines' properties are not inductive on their own: one needs that  *)
(* the bar a worker has admitted is later than all it has committed, and   *)
(* that the Volume engine has already decided on it.                       *)
(*                                                                         *)
(* And what becomes of each bar: none is lost silently and each is         *)
(* answered once.  NoSilentGap speaks of the bars the engines have         *)
(* committed; to keep it one has to follow every bar from the channel      *)
(* through the inbox and the worker's hand, and to know that no later bar  *)
(* of its symbol is ahead of it unless the symbol is latched.              *)
(***************************************************************************)
EXTENDS ModelHost, ModelPathProofs, FiniteSetTheorems

-----------------------------------------------------------------------------
\* The host uses the model path only through its operations.

LEMMA HostInitIsPathInit == Init => PathInit
  BY DEF Init

\* No step of a worker touches the path.
LEMMA WorkerLeavesPath ==
    ASSUME NEW s \in Symbols, Worker(s)
    PROVE  UNCHANGED pathVars
  BY DEF Worker, Take, GateAdmit, GateSkip, GateInputGap, Panic, VolumeCommit,
         VolumeRefuse, ModelCommit, ModelDecline, StopWorker

LEMMA DispatcherUsesPath == Dispatcher => [PathNext]_pathVars
<1> SUFFICES ASSUME Dispatcher PROVE [PathNext]_pathVars
  OBVIOUS
<1>1. CASE Start
  BY <1>1, HostAssumption DEF Start, PathNext
<1>2. CASE DispatchLatched \/ DispatchForward \/ DispatchOverflow
  BY <1>2, HostAssumption
     DEF DispatchLatched, DispatchForward, DispatchOverflow, PathNext
<1>3. CASE Leave
  BY <1>3, HostAssumption DEF Leave, PathNext
<1>4. CASE \/ Tick \/ MirrorLatch \/ StopDispatch \/ CloseStreams
           \/ \E s \in Symbols : PollSymbol(s)
  BY <1>4 DEF Tick, MirrorLatch, StopDispatch, CloseStreams, PollSymbol
<1>5. QED
  BY <1>1, <1>2, <1>3, <1>4 DEF Dispatcher

LEMMA ResetUsesPath ==
    ASSUME NEW s \in Symbols, Reset(s)
    PROVE  [PathNext]_pathVars
<1>1. CASE ResetPath(s)
  BY <1>1 DEF ResetPath, PathNext
<1>2. CASE ResetEngines(s) \/ ResetLatch(s)
  BY <1>2 DEF ResetEngines, ResetLatch
<1>3. QED
  BY <1>1, <1>2 DEF Reset

LEMMA HostStepIsPathStep == [Next]_vars => [PathNext]_pathVars
<1> SUFFICES ASSUME [Next]_vars PROVE [PathNext]_pathVars
  OBVIOUS
<1>1. CASE \E s \in Symbols, t \in Times : Feed(s, t)
  <2>1. PICK s \in Symbols, t \in Times : FanoutModel(LiveBar(s, t))
    BY <1>1 DEF Feed
  <2>2. LiveBar(s, t) \in Bar
    BY DEF LiveBar, Bar
  <2>3. QED
    BY <2>1, <2>2 DEF PathNext
<1>2. CASE Cancel \/ UNCHANGED vars
  BY <1>2 DEF Cancel, vars
<1>3. QED
  BY <1>1, <1>2, WorkerLeavesPath, DispatcherUsesPath, ResetUsesPath DEF Next

\* The host is one client of the model path: the composed system implements
\* the path's own specification, so that what is proved of the path holds for
\* the host whatever its goroutines do.
THEOREM HostImplementsPath == Spec => PathSpec
  BY HostInitIsPathInit, HostStepIsPathStep, PTL DEF Spec, PathSpec

\* No bar is silently withheld from the host, at any time in the life of the
\* dispatcher, the workers, resets and shutdown included.
THEOREM HostNoSilentDrop == Spec => [](PathTypeOK /\ NoSilentDrop)
  BY HostImplementsPath, PathTypeCorrect, PathNoSilentDrop, PTL

-----------------------------------------------------------------------------
\* Types.  A worker past its inbox holds a bar, which is what makes the
\* intervals it writes intervals.

WorkerHolds ==
    \A s \in Symbols : wpc[s] \in {"gates", "volume", "model"} => cur[s] \in Bar

HostTypeInv == HostTypeOK /\ WorkerHolds

LEMMA BarFields ==
    ASSUME NEW bar \in Bar
    PROVE  bar.symbol \in Symbols /\ bar.start \in Times /\ bar # NoBar
  BY DEF Bar, NoBar, Times, NoTime

LEMMA HostTypeInit == Init => HostTypeInv
<1> SUFFICES ASSUME Init PROVE HostTypeInv
  OBVIOUS
<1>1. HostTypeOK
  <2>1. /\ [at |-> NoTime, committed |-> FALSE]
             \in [at : Times \cup {NoTime}, committed : BOOLEAN]
        /\ [t \in Times |-> 0] \in [Times -> Int]
    OBVIOUS
  <2>2. /\ lastEvent \in
             [Symbols -> [at : Times \cup {NoTime}, committed : BOOLEAN]]
        /\ unanswered \in [Symbols -> [Times -> Int]]
    BY <2>1 DEF Init
  <2>3. /\ inbox \in [Symbols -> Seq(Bar)]
        /\ \A s \in Symbols : Len(inbox[s]) <= InboxSize
        /\ cur \in [Symbols -> Bar \cup {NoBar}]
        /\ polled \in [symbol : Symbols, start : Times \cup {NoTime}]
                         \cup {NoBar}
    BY HostAssumption DEF Init
  <2>4. /\ adaptive \in [Symbols -> Seq(Times)]
        /\ pricing \in [Symbols -> Seq(Times)]
        /\ volume \in [Symbols -> Seq(Times)]
        /\ volSeq \in [Symbols -> Nat]
        /\ lastAccepted \in [Symbols -> Times \cup {NoTime}]
    BY DEF Init
  <2>5. QED
    BY <2>2, <2>3, <2>4 DEF Init, HostTypeOK
<1>2. WorkerHolds
  BY DEF Init, WorkerHolds
<1>3. QED
  BY <1>1, <1>2 DEF HostTypeInv

LEMMA DispatcherKeepsType ==
    ASSUME PathTypeOK, HostTypeInv, Dispatcher
    PROVE  HostTypeInv'
<1>1. CASE DispatchLatched
  <2>1. queue[Host] \in Seq(Bar) /\ queue[Host] # <<>>
    BY <1>1, HostAssumption DEF DispatchLatched, Receive, PathTypeOK
  <2>2. Head(queue[Host]) \in Bar
    BY <2>1
  <2>3. QED
    BY <1>1, <2>2, BarFields DEF DispatchLatched, emit, HostTypeInv, HostTypeOK,
       WorkerHolds, runVars, channelVars, engineVars, volumeVars, resetVars,
       historyVars
<1>2. CASE DispatchForward
  <2>1. queue[Host] \in Seq(Bar) /\ queue[Host] # <<>>
    BY <1>2, HostAssumption DEF DispatchForward, Receive, PathTypeOK
  <2>2. Head(queue[Host]) \in Bar
    BY <2>1
  <2> DEFINE bar == Head(queue[Host])
  <2>3. bar.symbol \in Symbols /\ bar.start \in Times
    BY <2>2, BarFields
  <2>4. /\ Len(inbox[bar.symbol]) < InboxSize
        /\ inbox' = [inbox EXCEPT ![bar.symbol] = Append(@, bar)]
        /\ unanswered' = [unanswered EXCEPT ![bar.symbol][bar.start] = @ + 1]
    BY <1>2 DEF DispatchForward
  <2>5. bar \in Bar
    BY <2>2
  <2> HIDE DEF bar
  <2>6. unanswered' \in [Symbols -> [Times -> Int]]
    BY <2>3, <2>4 DEF HostTypeInv, HostTypeOK
  <2>7. /\ inbox' \in [Symbols -> Seq(Bar)]
        /\ \A s \in Symbols : Len(inbox'[s]) <= InboxSize
    BY <2>3, <2>4, <2>5, HostAssumption DEF HostTypeInv, HostTypeOK
  <2>8. QED
    BY <1>2, <2>6, <2>7 DEF DispatchForward, HostTypeInv, HostTypeOK,
       WorkerHolds, engineVars, volumeVars, resetVars
<1>3. CASE DispatchOverflow
  <2>1. queue[Host] \in Seq(Bar) /\ queue[Host] # <<>>
    BY <1>3, HostAssumption DEF DispatchOverflow, Receive, PathTypeOK
  <2>2. Head(queue[Host]) \in Bar
    BY <2>1
  <2>3. QED
    BY <1>3, <2>2, BarFields DEF DispatchOverflow, emit, markDisc, Lose,
       HostTypeInv, HostTypeOK, WorkerHolds, runVars, channelVars, engineVars,
       volumeVars, resetVars, historyVars
<1>4. CASE \E s \in Symbols : PollSymbol(s)
  BY <1>4 DEF PollSymbol, HostTypeInv, HostTypeOK, PathTypeOK, WorkerHolds,
     channelVars, engineVars, volumeVars, resetVars, historyVars
<1>5. CASE MirrorLatch
  <2>1. polled.symbol \in Symbols /\ polled.start \in Times \cup {NoTime}
    BY <1>5 DEF MirrorLatch, HostTypeInv, HostTypeOK
  <2>2. /\ disc' \in [Symbols -> BOOLEAN]
        /\ lastEvent' \in
             [Symbols -> [at : Times \cup {NoTime}, committed : BOOLEAN]]
    <3>1. CASE disc[polled.symbol]
      BY <1>5, <3>1 DEF MirrorLatch, HostTypeInv, HostTypeOK
    <3>2. CASE ~disc[polled.symbol]
      <4> DEFINE event == [at |-> polled.start, committed |-> FALSE]
      <4>1. event \in [at : Times \cup {NoTime}, committed : BOOLEAN]
        BY <2>1
      <4>2. /\ disc' = [disc EXCEPT ![polled.symbol] = TRUE]
            /\ lastEvent' = [lastEvent EXCEPT ![polled.symbol] = event]
        BY <1>5, <3>2 DEF MirrorLatch, emit, markDisc
      <4> HIDE DEF event
      <4>3. QED
        BY <4>1, <4>2 DEF HostTypeInv, HostTypeOK
    <3>3. QED
      BY <3>1, <3>2
  <2>3. QED
    BY <1>5, <2>2 DEF MirrorLatch, HostTypeInv, HostTypeOK, WorkerHolds,
       channelVars, engineVars, volumeVars, resetVars, historyVars
<1>6. CASE Start
  BY <1>6 DEF Start, HostTypeInv, HostTypeOK, WorkerHolds, channelVars,
     engineVars, volumeVars, resetVars, historyVars
<1>7. CASE Tick
  BY <1>7 DEF Tick, HostTypeInv, HostTypeOK, WorkerHolds, channelVars,
     engineVars, volumeVars, resetVars, historyVars
<1>8. CASE StopDispatch
  BY <1>8 DEF StopDispatch, HostTypeInv, HostTypeOK, WorkerHolds, channelVars,
     engineVars, volumeVars, resetVars, historyVars
<1>9. CASE CloseStreams
  BY <1>9 DEF CloseStreams, HostTypeInv, HostTypeOK, WorkerHolds, channelVars,
     engineVars, volumeVars, resetVars, historyVars
<1>10. CASE Leave
  BY <1>10 DEF Leave, HostTypeInv, HostTypeOK, WorkerHolds, channelVars,
     engineVars, volumeVars, resetVars, historyVars
<1>11. QED
  BY <1>1, <1>2, <1>3, <1>4, <1>5, <1>6, <1>7, <1>8, <1>9, <1>10 DEF Dispatcher

LEMMA FinishKeepsType ==
    ASSUME HostTypeInv, NEW s \in Symbols, NEW committed \in BOOLEAN,
           wpc[s] \in {"gates", "model"}, Finish(s, committed)
    PROVE  /\ lastEvent' \in
                [Symbols -> [at : Times \cup {NoTime}, committed : BOOLEAN]]
           /\ unanswered' \in [Symbols -> [Times -> Int]]
           /\ inbox' = inbox
           /\ wpc' = [wpc EXCEPT ![s] = "idle"]
           /\ wpc' \in
                [Symbols -> {"idle", "gates", "volume", "model", "stopped"}]
           /\ cur' \in [Symbols -> Bar \cup {NoBar}]
           /\ WorkerHolds'
           /\ cur[s].start \in Times
<1>1. cur[s].start \in Times
  BY BarFields DEF HostTypeInv, WorkerHolds
<1>2. lastEvent' \in
        [Symbols -> [at : Times \cup {NoTime}, committed : BOOLEAN]]
  BY <1>1 DEF Finish, emit, HostTypeInv, HostTypeOK
<1>3. unanswered' \in [Symbols -> [Times -> Int]]
  BY <1>1 DEF Finish, Answer, HostTypeInv, HostTypeOK
<1>4. /\ inbox' = inbox
      /\ wpc' = [wpc EXCEPT ![s] = "idle"]
      /\ cur' = [cur EXCEPT ![s] = NoBar]
  BY DEF Finish, Return
<1>5. /\ wpc' \in [Symbols -> {"idle", "gates", "volume", "model", "stopped"}]
      /\ cur' \in [Symbols -> Bar \cup {NoBar}]
  BY <1>4 DEF HostTypeInv, HostTypeOK
<1>6. WorkerHolds'
  BY <1>4 DEF HostTypeInv, HostTypeOK, WorkerHolds
<1>7. QED
  BY <1>1, <1>2, <1>3, <1>4, <1>5, <1>6

LEMMA WorkerKeepsType ==
    ASSUME HostTypeInv, NEW s \in Symbols, Worker(s)
    PROVE  HostTypeInv'
<1>1. CASE Take(s)
  <2>1. inbox[s] \in Seq(Bar) /\ inbox[s] # <<>> /\ Len(inbox[s]) <= InboxSize
    BY <1>1 DEF Take, HostTypeInv, HostTypeOK
  <2>2. /\ Head(inbox[s]) \in Bar
        /\ Tail(inbox[s]) \in Seq(Bar)
        /\ Len(Tail(inbox[s])) <= InboxSize
    BY <2>1, HostAssumption
  <2>3. /\ cur' = [cur EXCEPT ![s] = Head(inbox[s])]
        /\ inbox' = [inbox EXCEPT ![s] = Tail(inbox[s])]
        /\ wpc' = [wpc EXCEPT ![s] = "gates"]
    BY <1>1 DEF Take
  <2>4. /\ inbox' \in [Symbols -> Seq(Bar)]
        /\ \A r \in Symbols : Len(inbox'[r]) <= InboxSize
        /\ cur' \in [Symbols -> Bar \cup {NoBar}]
        /\ wpc' \in [Symbols -> {"idle", "gates", "volume", "model", "stopped"}]
    BY <2>2, <2>3 DEF HostTypeInv, HostTypeOK
  <2>5. WorkerHolds'
    BY <2>2, <2>3 DEF HostTypeInv, HostTypeOK, WorkerHolds
  <2>6. QED
    BY <1>1, <2>4, <2>5 DEF Take, HostTypeInv, HostTypeOK, runVars, engineVars,
       volumeVars, resetVars, historyVars
<1>2. CASE GateAdmit(s) \/ StopWorker(s)
  BY <1>2 DEF GateAdmit, StopWorker, HostTypeInv, HostTypeOK, WorkerHolds,
     runVars, engineVars, volumeVars, resetVars, historyVars
<1>3. CASE GateSkip(s)
  <2>1. wpc[s] \in {"gates", "model"} /\ Finish(s, FALSE)
    BY <1>3 DEF GateSkip
  <2>2. cur[s].start \in Times
    BY <2>1, FinishKeepsType
  <2>3. excused' \in [Symbols -> SUBSET Times]
    BY <1>3, <2>2 DEF GateSkip, HostTypeInv, HostTypeOK
  <2>4. QED
    BY <1>3, <2>1, <2>3, FinishKeepsType DEF GateSkip, HostTypeInv, HostTypeOK,
       runVars, engineVars, volumeVars, resetVars
<1>4. CASE GateInputGap(s) \/ Panic(s)
  <2>1. wpc[s] \in {"gates", "model"} /\ Finish(s, FALSE)
    BY <1>4 DEF GateInputGap, Panic
  <2>2. /\ disc' \in [Symbols -> BOOLEAN]
        /\ newLoss' \in [Symbols -> BOOLEAN]
    BY <1>4 DEF GateInputGap, Panic, markDisc, Lose, HostTypeInv, HostTypeOK
  <2>3. UNCHANGED <<runVars, engineVars, volumeVars, resetVars, excused>>
    BY <1>4 DEF GateInputGap, Panic
  <2>4. QED
    BY <2>1, <2>2, <2>3, FinishKeepsType DEF HostTypeInv, HostTypeOK, runVars,
       engineVars, volumeVars, resetVars
<1>5. CASE VolumeCommit(s)
  <2>1. cur[s].start \in Times
    BY <1>5, BarFields DEF VolumeCommit, HostTypeInv, WorkerHolds
  <2>2. volume' \in [Symbols -> Seq(Times)] /\ volSeq' \in [Symbols -> Nat]
    BY <1>5, <2>1 DEF VolumeCommit, HostTypeInv, HostTypeOK
  <2>3. QED
    BY <1>5, <2>2 DEF VolumeCommit, HostTypeInv, HostTypeOK, WorkerHolds,
       runVars, engineVars, resetVars, historyVars
<1>6. CASE VolumeRefuse(s)
  BY <1>6 DEF VolumeRefuse, markVolDisc, HostTypeInv, HostTypeOK, WorkerHolds,
     runVars, engineVars, resetVars, historyVars
<1>7. CASE ModelCommit(s)
  <2>1. wpc[s] \in {"gates", "model"} /\ Finish(s, TRUE)
    BY <1>7 DEF ModelCommit
  <2>2. cur[s].start \in Times
    BY <2>1, FinishKeepsType
  <2>3. /\ adaptive' \in [Symbols -> Seq(Times)]
        /\ pricing' \in [Symbols -> Seq(Times)]
        /\ lastAccepted' \in [Symbols -> Times \cup {NoTime}]
    BY <1>7, <2>2 DEF ModelCommit, CommitEngines, HostTypeInv, HostTypeOK
  <2>4. QED
    BY <1>7, <2>1, <2>3, FinishKeepsType DEF ModelCommit, HostTypeInv,
       HostTypeOK, runVars, volumeVars, resetVars
<1>8. CASE ModelDecline(s)
  <2>1. wpc[s] \in {"gates", "model"} /\ Finish(s, FALSE)
    BY <1>8 DEF ModelDecline
  <2>2. cur[s].start \in Times
    BY <2>1, FinishKeepsType
  <2>3. excused' \in [Symbols -> SUBSET Times]
    BY <1>8, <2>2 DEF ModelDecline, HostTypeInv, HostTypeOK
  <2>4. QED
    BY <1>8, <2>1, <2>3, FinishKeepsType DEF ModelDecline, HostTypeInv,
       HostTypeOK, runVars, engineVars, volumeVars, resetVars
<1>9. QED
  BY <1>1, <1>2, <1>3, <1>4, <1>5, <1>6, <1>7, <1>8 DEF Worker

LEMMA ResetKeepsType ==
    ASSUME HostTypeInv, NEW s \in Symbols, Reset(s)
    PROVE  HostTypeInv'
<1>1. CASE ResetEngines(s)
  <2>1. /\ adaptive' \in [Symbols -> Seq(Times)]
        /\ pricing' \in [Symbols -> Seq(Times)]
        /\ volume' \in [Symbols -> Seq(Times)]
        /\ volDisc' \in [Symbols -> BOOLEAN]
        /\ volSeq' \in [Symbols -> Nat]
    BY <1>1 DEF ResetEngines, ColdVolume, HostTypeInv, HostTypeOK
  <2>2. /\ lastAccepted' \in [Symbols -> Times \cup {NoTime}]
        /\ rpc' \in [Symbols -> {"none", "latch", "path"}]
        /\ resets' \in Nat
        /\ excused' \in [Symbols -> SUBSET Times]
        /\ newLoss' \in [Symbols -> BOOLEAN]
    BY <1>1 DEF ResetEngines, HostTypeInv, HostTypeOK
  <2>3. QED
    BY <1>1, <2>1, <2>2 DEF ResetEngines, HostTypeInv, HostTypeOK, WorkerHolds,
       runVars, channelVars
<1>2. CASE ResetLatch(s)
  BY <1>2 DEF ResetLatch, HostTypeInv, HostTypeOK, WorkerHolds, runVars,
     channelVars, engineVars, volumeVars, historyVars
<1>3. CASE ResetPath(s)
  BY <1>3 DEF ResetPath, HostTypeInv, HostTypeOK, WorkerHolds, runVars,
     channelVars, engineVars, volumeVars, historyVars
<1>4. QED
  BY <1>1, <1>2, <1>3 DEF Reset

LEMMA HostTypeNext == PathTypeOK /\ HostTypeInv /\ [Next]_vars => HostTypeInv'
<1> SUFFICES ASSUME PathTypeOK, HostTypeInv, [Next]_vars PROVE HostTypeInv'
  OBVIOUS
<1>1. CASE \E s \in Symbols, t \in Times : Feed(s, t)
  BY <1>1 DEF Feed, Lose, HostTypeInv, HostTypeOK, WorkerHolds, runVars,
     channelVars, engineVars, volumeVars, resetVars
<1>2. CASE Cancel
  BY <1>2 DEF Cancel, HostTypeInv, HostTypeOK, WorkerHolds, channelVars,
     engineVars, volumeVars, resetVars, historyVars
<1>3. CASE UNCHANGED vars
  BY <1>3 DEF vars, hostVars, HostTypeInv, HostTypeOK, WorkerHolds, runVars,
     channelVars, engineVars, volumeVars, resetVars, historyVars
<1>4. QED
  BY <1>1, <1>2, <1>3, DispatcherKeepsType, WorkerKeepsType, ResetKeepsType
     DEF Next

\* Every variable of the path and of the host keeps its type; in particular
\* no channel and no inbox outgrows its capacity, and every interval an
\* engine commits is an interval of a bar the worker really holds.
THEOREM HostTypeCorrect == Spec => []TypeOK
<1>1. Spec => []PathTypeOK
  BY HostImplementsPath, PathTypeCorrect, PTL
<1>2. HostTypeInv => HostTypeOK
  BY DEF HostTypeInv
<1>3. PathTypeOK /\ HostTypeOK => TypeOK
  BY DEF TypeOK
<1>4. QED
  BY <1>1, <1>2, <1>3, HostTypeInit, HostTypeNext, PTL DEF Spec

LEMMA HostTypeInvariant == Spec => []HostTypeInv
  BY HostImplementsPath, PathTypeCorrect, HostTypeInit, HostTypeNext, PTL
      DEF Spec

-----------------------------------------------------------------------------
\* What the engines have committed.

\* The bar of a worker past its gates is later than the last accepted one.
AdmittedIsLater ==
    \A s \in Symbols :
        wpc[s] \in {"volume", "model"} => cur[s].start > lastAccepted[s]

Elements(seq) == {seq[i] : i \in DOMAIN seq}

\* The Volume engine has seen the bar the other two are about to prepare.
VolumeSawCurrent ==
    \A s \in Symbols :
        wpc[s] = "model" => volDisc[s] \/ cur[s].start \in Elements(volume[s])

EngineInv ==
    /\ JointCommit
    /\ CommitsInOrder
    /\ AdmittedIsLater
    /\ VolumeSequenceExact
    /\ VolumeCoversModel
    /\ VolumeSawCurrent

LEMMA AppendElements ==
    ASSUME NEW S, NEW seq \in Seq(S), NEW x \in S
    PROVE  Elements(Append(seq, x)) = Elements(seq) \cup {x}
<1>1. /\ Len(seq) \in Nat
      /\ DOMAIN seq = 1..Len(seq)
      /\ DOMAIN Append(seq, x) = 1..(Len(seq) + 1)
      /\ \A i \in 1..Len(seq) : Append(seq, x)[i] = seq[i]
      /\ Append(seq, x)[Len(seq) + 1] = x
  OBVIOUS
<1>2. \A e : e \in Elements(Append(seq, x)) <=>
                \E i \in 1..(Len(seq) + 1) : e = Append(seq, x)[i]
  BY <1>1 DEF Elements
<1>3. \A e : e \in Elements(seq) <=> \E i \in 1..Len(seq) : e = seq[i]
  BY <1>1 DEF Elements
<1>4. ASSUME NEW e \in Elements(Append(seq, x))
      PROVE  e \in Elements(seq) \cup {x}
  <2>1. PICK i \in 1..(Len(seq) + 1) : e = Append(seq, x)[i]
    BY <1>2
  <2>2. CASE i \in 1..Len(seq)
    BY <1>1, <1>3, <2>1, <2>2
  <2>3. CASE i = Len(seq) + 1
    BY <1>1, <2>1, <2>3
  <2>4. QED
    BY <1>1, <2>2, <2>3
<1>5. ASSUME NEW e \in Elements(seq) \cup {x}
      PROVE  e \in Elements(Append(seq, x))
  <2>1. CASE e \in Elements(seq)
    <3>1. PICK i \in 1..Len(seq) : e = seq[i]
      BY <1>3, <2>1
    <3>2. i \in 1..(Len(seq) + 1) /\ e = Append(seq, x)[i]
      BY <1>1, <3>1
    <3>3. QED
      BY <1>2, <3>2
  <2>2. CASE e = x
    <3>1. Len(seq) + 1 \in 1..(Len(seq) + 1)
      BY <1>1
    <3>2. QED
      BY <1>1, <1>2, <2>2, <3>1
  <2>3. QED
    BY <2>1, <2>2
<1>6. QED
  BY <1>4, <1>5

LEMMA EngineInit == Init => EngineInv
<1> SUFFICES ASSUME Init PROVE EngineInv
  OBVIOUS
<1>1. JointCommit /\ VolumeSequenceExact
  BY DEF Init, JointCommit, VolumeSequenceExact
<1>2. CommitsInOrder /\ VolumeCoversModel
  BY DEF Init, CommitsInOrder, VolumeCoversModel, Committed
<1>3. AdmittedIsLater /\ VolumeSawCurrent
  BY DEF Init, AdmittedIsLater, VolumeSawCurrent
<1>4. QED
  BY <1>1, <1>2, <1>3 DEF EngineInv

\* A step that leaves the engines and the bars in hand alone keeps it.
LEMMA QuietKeepsEngines ==
    ASSUME EngineInv, UNCHANGED <<wpc, cur, engineVars, volumeVars>>
    PROVE  EngineInv'
  BY DEF EngineInv, engineVars, volumeVars, JointCommit, CommitsInOrder,
         AdmittedIsLater, VolumeSequenceExact, VolumeCoversModel, Committed,
         VolumeSawCurrent, Elements

\* So does one after which the worker is no longer past its gates.
LEMMA LeavingKeepsEngines ==
    ASSUME EngineInv, HostTypeInv, NEW s \in Symbols,
           NEW pc \in {"idle", "gates", "stopped"},
           wpc' = [wpc EXCEPT ![s] = pc],
           \A r \in Symbols \ {s} : cur'[r] = cur[r],
           UNCHANGED <<engineVars, volumeVars>>
    PROVE  EngineInv'
<1>1. \A r \in Symbols : wpc'[r] = IF r = s THEN pc ELSE wpc[r]
  BY DEF HostTypeInv, HostTypeOK
<1>2. JointCommit' /\ CommitsInOrder' /\ VolumeSequenceExact'
  BY DEF EngineInv, engineVars, volumeVars, JointCommit, CommitsInOrder,
         VolumeSequenceExact
<1>3. VolumeCoversModel'
  BY DEF EngineInv, engineVars, volumeVars, VolumeCoversModel, Committed
<1>4. AdmittedIsLater'
  BY <1>1 DEF EngineInv, engineVars, AdmittedIsLater
<1>5. VolumeSawCurrent'
  BY <1>1 DEF EngineInv, volumeVars, VolumeSawCurrent, Elements
<1>6. QED
  BY <1>2, <1>3, <1>4, <1>5 DEF EngineInv

LEMMA GateAdmitKeepsEngines ==
    ASSUME EngineInv, HostTypeInv, NEW s \in Symbols, GateAdmit(s)
    PROVE  EngineInv'
<1>1. /\ wpc[s] = "gates"
      /\ wpc' = [wpc EXCEPT ![s] = "volume"]
      /\ UNCHANGED <<cur, engineVars, volumeVars>>
  BY DEF GateAdmit
<1>2. \A r \in Symbols : wpc'[r] = IF r = s THEN "volume" ELSE wpc[r]
  BY <1>1 DEF HostTypeInv, HostTypeOK
<1>3. cur[s].start > lastAccepted[s]
  <2>1. /\ cur[s].start \in Times
        /\ lastAccepted[s] \in Times \cup {NoTime}
    BY <1>1, BarFields DEF HostTypeInv, HostTypeOK, WorkerHolds
  <2>2. Continues(lastAccepted[s], cur[s].start)
    BY DEF GateAdmit, Admissible
  <2>3. QED
    BY <2>1, <2>2, ContinuesIsLater
<1>4. JointCommit' /\ CommitsInOrder' /\ VolumeSequenceExact'
  BY <1>1 DEF EngineInv, engineVars, volumeVars, JointCommit, CommitsInOrder,
              VolumeSequenceExact
<1>5. VolumeCoversModel'
  BY <1>1 DEF EngineInv, engineVars, volumeVars, VolumeCoversModel, Committed
<1>6. AdmittedIsLater'
  BY <1>1, <1>2, <1>3 DEF EngineInv, engineVars, AdmittedIsLater
<1>7. VolumeSawCurrent'
  BY <1>1, <1>2 DEF EngineInv, volumeVars, VolumeSawCurrent, Elements
<1>8. QED
  BY <1>4, <1>5, <1>6, <1>7 DEF EngineInv

LEMMA VolumeKeepsEngines ==
    ASSUME EngineInv, HostTypeInv, NEW s \in Symbols,
           VolumeCommit(s) \/ VolumeRefuse(s)
    PROVE  EngineInv'
<1>1. /\ wpc[s] = "volume"
      /\ wpc' = [wpc EXCEPT ![s] = "model"]
      /\ UNCHANGED <<cur, engineVars>>
  BY DEF VolumeCommit, VolumeRefuse
<1>2. \A r \in Symbols : wpc'[r] = IF r = s THEN "model" ELSE wpc[r]
  BY <1>1 DEF HostTypeInv, HostTypeOK
<1>3. cur[s].start \in Times /\ volume[s] \in Seq(Times) /\ volSeq[s] \in Nat
  BY <1>1, BarFields DEF HostTypeInv, HostTypeOK, WorkerHolds
<1>4. \A r \in Symbols \ {s} : /\ volume'[r] = volume[r]
                               /\ volSeq'[r] = volSeq[r]
                               /\ volDisc'[r] = volDisc[r]
  BY DEF VolumeCommit, VolumeRefuse, markVolDisc, HostTypeInv, HostTypeOK
<1>5. \/ /\ volume'[s] = Append(volume[s], cur[s].start)
         /\ volSeq'[s] = volSeq[s] + 1
         /\ volDisc'[s] = volDisc[s]
      \/ /\ volume'[s] = volume[s]
         /\ volSeq'[s] = volSeq[s]
         /\ volDisc'[s] = TRUE
  BY DEF VolumeCommit, VolumeRefuse, markVolDisc, HostTypeInv, HostTypeOK
<1>6. \/ volDisc'[s] = TRUE
      \/ /\ volDisc'[s] = volDisc[s]
         /\ Elements(volume'[s]) = Elements(volume[s]) \cup {cur[s].start}
  <2>1. Elements(Append(volume[s], cur[s].start))
          = Elements(volume[s]) \cup {cur[s].start}
    BY <1>3, AppendElements
  <2>2. QED
    BY <1>5, <2>1
<1>7. JointCommit' /\ CommitsInOrder'
  BY <1>1 DEF EngineInv, engineVars, JointCommit, CommitsInOrder
<1>8. AdmittedIsLater'
  BY <1>1, <1>2 DEF EngineInv, engineVars, AdmittedIsLater
<1>9. VolumeSequenceExact'
  BY <1>3, <1>4, <1>5 DEF EngineInv, VolumeSequenceExact
<1>10. VolumeCoversModel'
  <2>1. \A r \in Symbols :
           volDisc[r] \/ Committed(r) \subseteq Elements(volume[r])
    BY DEF EngineInv, VolumeCoversModel, Elements
  <2>2. \A r \in Symbols : Committed(r)' = Committed(r)
    BY <1>1 DEF engineVars, Committed
  <2>3. \A r \in Symbols :
           volDisc'[r] \/ Committed(r)' \subseteq Elements(volume'[r])
    BY <1>4, <1>6, <2>1, <2>2
  <2>4. QED
    BY <2>3 DEF VolumeCoversModel, Elements
<1>11. VolumeSawCurrent'
  <2>1. ASSUME NEW r \in Symbols, wpc'[r] = "model"
        PROVE  volDisc'[r] \/ cur[r].start \in Elements(volume'[r])
    <3>1. CASE r = s
      BY <1>6, <3>1
    <3>2. CASE r # s
      BY <1>2, <1>4, <2>1, <3>2 DEF EngineInv, VolumeSawCurrent
    <3>3. QED
      BY <3>1, <3>2
  <2>2. cur' = cur
    BY <1>1
  <2>3. QED
    BY <2>1, <2>2 DEF VolumeSawCurrent
<1>12. QED
  BY <1>7, <1>8, <1>9, <1>10, <1>11 DEF EngineInv

LEMMA ModelCommitKeepsEngines ==
    ASSUME EngineInv, HostTypeInv, NEW s \in Symbols, ModelCommit(s)
    PROVE  EngineInv'
<1> DEFINE t == cur[s].start
<1>1. /\ wpc[s] = "model"
      /\ wpc' = [wpc EXCEPT ![s] = "idle"]
      /\ \A r \in Symbols \ {s} : cur'[r] = cur[r]
      /\ adaptive' = [adaptive EXCEPT ![s] = Append(@, t)]
      /\ pricing' = IF PricingOn THEN [pricing EXCEPT ![s] = Append(@, t)]
                    ELSE pricing
      /\ lastAccepted' = [lastAccepted EXCEPT ![s] = t]
      /\ UNCHANGED volumeVars
  BY DEF ModelCommit, CommitEngines, Finish, Return, HostTypeInv, HostTypeOK
<1>2. t \in Times /\ adaptive[s] \in Seq(Times) /\ lastAccepted[s] \in Int
  BY <1>1, BarFields
     DEF HostTypeInv, HostTypeOK, WorkerHolds, Times, NoTime
<1>3. t > lastAccepted[s]
  BY <1>1 DEF EngineInv, AdmittedIsLater
<1>4. volDisc[s] \/ t \in Elements(volume[s])
  BY <1>1 DEF EngineInv, VolumeSawCurrent
<1> HIDE DEF t
<1>5. /\ adaptive'[s] = Append(adaptive[s], t)
      /\ lastAccepted'[s] = t
      /\ wpc'[s] = "idle"
      /\ \A r \in Symbols \ {s} : /\ adaptive'[r] = adaptive[r]
                                  /\ lastAccepted'[r] = lastAccepted[r]
                                  /\ wpc'[r] = wpc[r]
  BY <1>1 DEF HostTypeInv, HostTypeOK
<1>6. JointCommit'
  BY <1>1 DEF EngineInv, JointCommit
<1>7. CommitsInOrder'
  <2>1. ASSUME NEW r \in Symbols
        PROVE  /\ \A i, j \in DOMAIN adaptive'[r] :
                     i < j => adaptive'[r][i] < adaptive'[r][j]
               /\ \A i \in DOMAIN adaptive'[r] :
                       adaptive'[r][i] <= lastAccepted'[r]
    <3>1. CASE r = s
      <4>1. /\ Len(adaptive[s]) \in Nat
            /\ DOMAIN adaptive[s] = 1..Len(adaptive[s])
            /\ DOMAIN adaptive'[s] = 1..(Len(adaptive[s]) + 1)
            /\ \A i \in 1..Len(adaptive[s]) : adaptive'[s][i] = adaptive[s][i]
            /\ adaptive'[s][Len(adaptive[s]) + 1] = t
        BY <1>2, <1>5
      <4>2. t \in Int /\ \A i \in 1..Len(adaptive[s]) : adaptive[s][i] \in Int
        <5>1. \A i \in 1..Len(adaptive[s]) : adaptive[s][i] \in Times
          BY <1>2
        <5>2. Times \subseteq Int
          BY DEF Times
        <5>3. QED
          BY <1>2, <5>1, <5>2
      <4>3. \A i \in 1..Len(adaptive[s]) : adaptive[s][i] < t
        BY <1>2, <1>3, <4>1, <4>2 DEF EngineInv, CommitsInOrder
      <4>4. \A i, j \in 1..Len(adaptive[s]) :
               i < j => adaptive[s][i] < adaptive[s][j]
        BY <4>1 DEF EngineInv, CommitsInOrder
      <4>5. ASSUME NEW i \in 1..(Len(adaptive[s]) + 1),
                   NEW j \in 1..(Len(adaptive[s]) + 1), i < j
            PROVE  adaptive'[s][i] < adaptive'[s][j]
        <5>1. i \in 1..Len(adaptive[s])
          BY <4>1, <4>5
        <5>2. CASE j \in 1..Len(adaptive[s])
          BY <4>1, <4>4, <4>5, <5>1, <5>2
        <5>3. CASE j = Len(adaptive[s]) + 1
          BY <4>1, <4>3, <5>1, <5>3
        <5>4. QED
          BY <4>1, <5>2, <5>3
      <4>6. ASSUME NEW i \in 1..(Len(adaptive[s]) + 1)
            PROVE  adaptive'[s][i] <= t
        <5>1. CASE i \in 1..Len(adaptive[s])
          BY <4>1, <4>2, <4>3, <5>1
        <5>2. CASE i = Len(adaptive[s]) + 1
          BY <4>1, <4>2, <5>2
        <5>3. QED
          BY <4>1, <5>1, <5>2
      <4>7. QED
        BY <1>5, <3>1, <4>1, <4>5, <4>6
    <3>2. CASE r # s
      BY <1>5, <3>2 DEF EngineInv, CommitsInOrder
    <3>3. QED
      BY <3>1, <3>2
  <2>2. QED
    BY <2>1 DEF CommitsInOrder
<1>8. AdmittedIsLater'
  BY <1>1, <1>5 DEF EngineInv, AdmittedIsLater
<1>9. VolumeSequenceExact'
  BY <1>1 DEF EngineInv, volumeVars, VolumeSequenceExact
<1>10. VolumeCoversModel'
  <2>1. Elements(adaptive'[s]) = Elements(adaptive[s]) \cup {t}
    BY <1>2, <1>5, AppendElements
  <2>2. \A r \in Symbols :
           volDisc[r] \/ Elements(adaptive[r]) \subseteq Elements(volume[r])
    BY DEF EngineInv, VolumeCoversModel, Committed, Elements
  <2>3. volDisc' = volDisc /\ volume' = volume
    BY <1>1 DEF volumeVars
  <2>4. \A r \in Symbols :
           volDisc'[r] \/ Elements(adaptive'[r]) \subseteq Elements(volume'[r])
    BY <1>4, <1>5, <2>1, <2>2, <2>3
  <2>5. QED
    BY <2>4 DEF VolumeCoversModel, Committed, Elements
<1>11. VolumeSawCurrent'
  BY <1>1, <1>5 DEF EngineInv, volumeVars, VolumeSawCurrent, Elements
<1>12. QED
  BY <1>6, <1>7, <1>8, <1>9, <1>10, <1>11 DEF EngineInv

LEMMA ResetKeepsEngines ==
    ASSUME EngineInv, HostTypeInv, NEW s \in Symbols, ResetEngines(s)
    PROVE  EngineInv'
<1>1. /\ wpc[s] = "idle"
      /\ UNCHANGED <<wpc, cur>>
      /\ adaptive' = [adaptive EXCEPT ![s] = <<>>]
      /\ pricing' = [pricing EXCEPT ![s] = <<>>]
      /\ volume' = [volume EXCEPT ![s] = <<>>]
      /\ volDisc' = [volDisc EXCEPT ![s] = FALSE]
      /\ volSeq' = [volSeq EXCEPT ![s] = 0]
      /\ lastAccepted' = [lastAccepted EXCEPT ![s] = NoTime]
  BY DEF ResetEngines, ColdVolume, channelVars
<1>2. /\ adaptive'[s] = <<>> /\ volSeq'[s] = 0 /\ volume'[s] = <<>>
      /\ \A r \in Symbols \ {s} : /\ adaptive'[r] = adaptive[r]
                                  /\ volume'[r] = volume[r]
                                  /\ volDisc'[r] = volDisc[r]
                                  /\ volSeq'[r] = volSeq[r]
                                  /\ lastAccepted'[r] = lastAccepted[r]
  BY <1>1 DEF HostTypeInv, HostTypeOK
<1>3. JointCommit'
  BY <1>1 DEF EngineInv, JointCommit
<1>4. CommitsInOrder'
  BY <1>2 DEF EngineInv, CommitsInOrder
<1>5. AdmittedIsLater'
  BY <1>1, <1>2 DEF EngineInv, AdmittedIsLater
<1>6. VolumeSequenceExact'
  BY <1>2 DEF EngineInv, VolumeSequenceExact
<1>7. VolumeCoversModel'
  <2>1. Committed(s)' = {}
    BY <1>2 DEF Committed
  <2>2. \A r \in Symbols \ {s} : Committed(r)' = Committed(r)
    BY <1>2 DEF Committed
  <2>3. \A r \in Symbols \ {s} :
           \/ volDisc'[r]
           \/ Committed(r)' \subseteq {volume'[r][i] : i \in DOMAIN volume'[r]}
    BY <1>2, <2>2 DEF EngineInv, VolumeCoversModel
  <2>4. QED
    BY <2>1, <2>3 DEF VolumeCoversModel
<1>8. VolumeSawCurrent'
  BY <1>1, <1>2 DEF EngineInv, VolumeSawCurrent, Elements
<1>9. QED
  BY <1>3, <1>4, <1>5, <1>6, <1>7, <1>8 DEF EngineInv

LEMMA EngineNext == EngineInv /\ HostTypeInv /\ [Next]_vars => EngineInv'
<1> SUFFICES ASSUME EngineInv, HostTypeInv, [Next]_vars PROVE EngineInv'
  OBVIOUS
<1>1. CASE \E s \in Symbols, t \in Times : Feed(s, t)
  BY <1>1, QuietKeepsEngines DEF Feed, channelVars
<1>2. CASE Cancel \/ UNCHANGED vars
  BY <1>2, QuietKeepsEngines DEF Cancel, vars, hostVars, channelVars
<1>3. CASE Dispatcher
  <2>1. UNCHANGED <<wpc, cur, engineVars, volumeVars>>
    BY <1>3 DEF Dispatcher, Start, DispatchLatched, DispatchForward,
       DispatchOverflow, Tick, PollSymbol, MirrorLatch, StopDispatch,
       CloseStreams, Leave, channelVars
  <2>2. QED
    BY <2>1, QuietKeepsEngines
<1>4. ASSUME NEW s \in Symbols, Worker(s)
      PROVE  EngineInv'
  <2>1. CASE GateAdmit(s)
    BY <2>1, GateAdmitKeepsEngines
  <2>2. CASE VolumeCommit(s) \/ VolumeRefuse(s)
    BY <2>2, VolumeKeepsEngines
  <2>3. CASE ModelCommit(s)
    BY <2>3, ModelCommitKeepsEngines
  <2>4. CASE Take(s)
    <3>1. /\ wpc' = [wpc EXCEPT ![s] = "gates"]
          /\ \A r \in Symbols \ {s} : cur'[r] = cur[r]
          /\ UNCHANGED <<engineVars, volumeVars>>
      BY <2>4 DEF Take, HostTypeInv, HostTypeOK
    <3>2. QED
      BY <3>1, LeavingKeepsEngines
  <2>5. CASE StopWorker(s)
    BY <2>5, LeavingKeepsEngines DEF StopWorker
  <2>6. CASE GateSkip(s) \/ GateInputGap(s) \/ Panic(s) \/ ModelDecline(s)
    <3>1. /\ wpc' = [wpc EXCEPT ![s] = "idle"]
          /\ \A r \in Symbols \ {s} : cur'[r] = cur[r]
          /\ UNCHANGED <<engineVars, volumeVars>>
      BY <2>6 DEF GateSkip, GateInputGap, Panic, ModelDecline, Finish, Return,
         HostTypeInv, HostTypeOK
    <3>2. QED
      BY <3>1, LeavingKeepsEngines
  <2>7. QED
    BY <1>4, <2>1, <2>2, <2>3, <2>4, <2>5, <2>6 DEF Worker
<1>5. ASSUME NEW s \in Symbols, Reset(s)
      PROVE  EngineInv'
  <2>1. CASE ResetEngines(s)
    BY <2>1, ResetKeepsEngines
  <2>2. CASE ResetLatch(s) \/ ResetPath(s)
    BY <2>2, QuietKeepsEngines DEF ResetLatch, ResetPath, channelVars
  <2>3. QED
    BY <1>5, <2>1, <2>2 DEF Reset
<1>6. QED
  BY <1>1, <1>2, <1>3, <1>4, <1>5 DEF Next

LEMMA EngineInvariant == Spec => []EngineInv
  BY HostTypeInvariant, EngineInit, EngineNext, PTL DEF Spec

\* The Adaptive and Price engines are never committed one without the other
\* (handle: commitA && commitP), under any interleaving, panic or reset.
THEOREM HostJointCommit == Spec => []JointCommit
<1>1. EngineInv => JointCommit
  BY DEF EngineInv
<1>2. QED
  BY <1>1, EngineInvariant, PTL

\* An engine's committed intervals strictly increase, and none is later than
\* the worker's own lastAccepted.
THEOREM HostCommitsInOrder == Spec => []CommitsInOrder
<1>1. EngineInv => CommitsInOrder
  BY DEF EngineInv
<1>2. QED
  BY <1>1, EngineInvariant, PTL

\* Volume has committed every interval the other engines have, unless it is
\* latched (processVolume runs before either is prepared).
THEOREM HostVolumeCoversModel == Spec => []VolumeCoversModel
<1>1. EngineInv => VolumeCoversModel
  BY DEF EngineInv
<1>2. QED
  BY <1>1, EngineInvariant, PTL

\* volSeq counts the commits of the current Volume engine exactly.
THEOREM HostVolumeSequenceExact == Spec => []VolumeSequenceExact
<1>1. EngineInv => VolumeSequenceExact
  BY DEF EngineInv
<1>2. QED
  BY <1>1, EngineInvariant, PTL

-----------------------------------------------------------------------------
\* Nothing overtakes a bar that the model is owed.
\*
\* A bar passes three places on its way to the engines: the channel, the inbox
\* and the worker's hand.  What the model has not yet been given, or been
\* excused from, is on its way with nothing later of its symbol ahead of it, or
\* it was withheld by the path's latch; or the symbol is latched in the host.

\* A worker between two bars holds none.
HandsEmpty ==
    \A s \in Symbols : wpc[s] \in {"idle", "stopped"} => cur[s] = NoBar

\* Nothing on the way or committed is later than what the path was offered.
BelowFrontier(s) ==
    /\ cur[s].start <= frontier[s]
    /\ \A bar \in Elements(inbox[s]) : bar.start <= frontier[s]
    /\ \A t \in Elements(adaptive[s]) : t <= frontier[s]
    /\ \A bar \in Elements(queue[Host]) :
          bar.symbol = s => bar.start <= frontier[s]

\* Is a bar of s at t in the worker's hand, among the first n - 1 of its inbox,
\* among the first n - 1 of the channel?
InHand(s, t) == cur[s].start = t
Inboxed(s, t, n) ==
    \E i \in DOMAIN inbox[s] : i < n /\ inbox[s][i].start = t
Queued(s, t, n) ==
    \E i \in DOMAIN queue[Host] :
        i < n /\ queue[Host][i].symbol = s /\ queue[Host][i].start = t

HandInOrder(s, t) == cur[s].start <= t
InboxInOrder(s, t) ==
    \A j \in DOMAIN inbox[s] :
        inbox[s][j].start > t => InHand(s, t) \/ Inboxed(s, t, j)
QueueInOrder(s, t) ==
    \A j \in DOMAIN queue[Host] :
        queue[Host][j].symbol = s /\ queue[Host][j].start > t =>
            \/ InHand(s, t) \/ Inboxed(s, t, Len(inbox[s]) + 1)
            \/ Queued(s, t, j)
OnItsWay(s, t) ==
    \/ InHand(s, t)
    \/ Inboxed(s, t, Len(inbox[s]) + 1)
    \/ Queued(s, t, Len(queue[Host]) + 1)

NonePassed(s, t) ==
    /\ HandInOrder(s, t) /\ InboxInOrder(s, t) /\ QueueInOrder(s, t)
    /\ modelDisc[s] \/ OnItsWay(s, t)

\* The host will commit nothing past t before the symbol is reset.
LatchedBefore(s, t) ==
    disc[s] /\ (wpc[s] \in {"volume", "model"} => HandInOrder(s, t))

CommittedBefore(s, t) == \A i \in DOMAIN adaptive[s] : adaptive[s][i] < t

Settled(s, t) == t \in Committed(s) \cup excused[s]

NotOvertaken(s) ==
    rpc[s] = "none" =>
        \A t \in owed[Host][s] :
            \/ Settled(s, t)
            \/ /\ CommittedBefore(s, t)
               /\ LatchedBefore(s, t) \/ NonePassed(s, t)

FlowInv ==
    /\ HandsEmpty
    /\ \A s \in Symbols : BelowFrontier(s)
    /\ \A s \in Symbols : NotOvertaken(s)

LEMMA StartsAreNumbers ==
    ASSUME PathTypeOK, HostTypeInv, NEW s \in Symbols
    PROVE  /\ cur[s].start \in Nat
           /\ inbox[s] \in Seq(Bar) /\ adaptive[s] \in Seq(Times)
           /\ queue[Host] \in Seq(Bar)
           /\ \A i \in DOMAIN inbox[s] : inbox[s][i].start \in Nat
           /\ \A i \in DOMAIN adaptive[s] : adaptive[s][i] \in Nat
           /\ \A i \in DOMAIN queue[Host] : queue[Host][i].start \in Nat
           /\ frontier[s] \in Nat
           /\ \A t \in owed[Host][s] : t \in Nat /\ t > 0
<1>1. /\ cur[s] \in Bar \cup {NoBar}
      /\ inbox[s] \in Seq(Bar) /\ adaptive[s] \in Seq(Times)
      /\ queue[Host] \in Seq(Bar)
      /\ frontier[s] \in Times \cup {NoTime}
      /\ owed[Host][s] \in SUBSET Times
  BY HostAssumption DEF PathTypeOK, HostTypeInv, HostTypeOK
<1>2. \A bar \in Bar : bar.start \in Nat
  BY DEF Bar, Times
<1>3. NoBar.start \in Nat
  BY DEF NoBar, NoTime
<1>4. Times \subseteq Nat /\ \A t \in Times : t > 0
  BY DEF Times
<1>5. cur[s].start \in Nat /\ frontier[s] \in Nat
  <2>1. frontier[s] \in Nat
    <3>1. NoTime \in Nat
      BY DEF NoTime
    <3>2. frontier[s] \in Times \cup {NoTime}
      BY <1>1
    <3>3. QED
      BY <1>4, <3>1, <3>2
  <2>2. CASE cur[s] \in Bar
    BY <1>2, <2>1, <2>2
  <2>3. CASE cur[s] = NoBar
    BY <1>3, <2>1, <2>3
  <2>4. QED
    BY <1>1, <2>2, <2>3
<1>6. \A i \in DOMAIN inbox[s] : inbox[s][i].start \in Nat
  <2>1. \A i \in DOMAIN inbox[s] : inbox[s][i] \in Bar
    BY <1>1
  <2>2. QED
    BY <1>2, <2>1
<1>7. \A i \in DOMAIN queue[Host] : queue[Host][i].start \in Nat
  <2>1. \A i \in DOMAIN queue[Host] : queue[Host][i] \in Bar
    BY <1>1
  <2>2. QED
    BY <1>2, <2>1
<1>8. \A i \in DOMAIN adaptive[s] : adaptive[s][i] \in Nat
  <2>1. \A i \in DOMAIN adaptive[s] : adaptive[s][i] \in Times
    BY <1>1
  <2>2. QED
    BY <1>4, <2>1
<1>9. QED
  BY <1>1, <1>4, <1>5, <1>6, <1>7, <1>8

LEMMA FlowInit == Init => FlowInv
<1> SUFFICES ASSUME Init PROVE FlowInv
  OBVIOUS
<1>1. HandsEmpty
  BY DEF Init, HandsEmpty
<1>2. ASSUME NEW s \in Symbols
      PROVE  BelowFrontier(s)
  <2>1. /\ inbox[s] = <<>> /\ adaptive[s] = <<>> /\ queue[Host] = <<>>
        /\ cur[s] = NoBar /\ frontier[s] = 0
    BY HostAssumption DEF Init, PathInit, NoTime
  <2>2. Elements(<<>>) = {}
    BY DEF Elements
  <2>3. cur[s].start = 0
    BY <2>1 DEF NoBar, NoTime
  <2>4. cur[s].start <= frontier[s]
    BY <2>1, <2>3
  <2>5. QED
    BY <2>1, <2>2, <2>4 DEF BelowFrontier
<1>3. \A s \in Symbols : owed[Host][s] = {}
  BY HostAssumption DEF Init, PathInit
<1>4. QED
  BY <1>1, <1>2, <1>3 DEF FlowInv, NotOvertaken

\* What a symbol is owed is not touched by the steps of other symbols.
LEMMA BystanderNotOvertaken ==
    ASSUME NEW s \in Symbols, NotOvertaken(s),
           queue'[Host] = queue[Host],
           owed'[Host][s] = owed[Host][s], modelDisc'[s] = modelDisc[s],
           cur'[s] = cur[s], inbox'[s] = inbox[s], wpc'[s] = wpc[s],
           disc'[s] = disc[s], adaptive'[s] = adaptive[s],
           excused'[s] = excused[s], rpc'[s] = rpc[s]
    PROVE  NotOvertaken(s)'
  BY DEF NotOvertaken, Settled, Committed, CommittedBefore, LatchedBefore,
         NonePassed, HandInOrder, InboxInOrder, QueueInOrder, OnItsWay, InHand,
         Inboxed, Queued

\* A latch that comes in while nothing has passed leaves it so.
LEMMA LatchNotOvertaken ==
    ASSUME NEW s \in Symbols, NotOvertaken(s),
           disc'[s], wpc'[s] = wpc[s], cur'[s] = cur[s],
           owed'[Host][s] = owed[Host][s], adaptive'[s] = adaptive[s],
           excused'[s] = excused[s], rpc'[s] = rpc[s]
    PROVE  NotOvertaken(s)'
  BY DEF NotOvertaken, Settled, Committed, CommittedBefore, LatchedBefore,
         NonePassed, HandInOrder

\* Items of a sequence that loses its first or gains a last one.
LEMMA TailItems ==
    ASSUME NEW S, NEW q \in Seq(S), q # <<>>
    PROVE  /\ Len(q) \in Nat /\ Len(q) >= 1 /\ DOMAIN q = 1..Len(q)
           /\ Len(Tail(q)) = Len(q) - 1 /\ DOMAIN Tail(q) = 1..(Len(q) - 1)
           /\ \A i \in 1..(Len(q) - 1) : Tail(q)[i] = q[i + 1]
           /\ Head(q) = q[1] /\ Head(q) \in S
  OBVIOUS

LEMMA AppendItems ==
    ASSUME NEW S, NEW q \in Seq(S), NEW x \in S
    PROVE  /\ Len(q) \in Nat /\ DOMAIN q = 1..Len(q)
           /\ Len(Append(q, x)) = Len(q) + 1
           /\ DOMAIN Append(q, x) = 1..(Len(q) + 1)
           /\ \A i \in 1..Len(q) : Append(q, x)[i] = q[i]
           /\ Append(q, x)[Len(q) + 1] = x
  OBVIOUS

\* The dispatcher takes a bar of another symbol off the channel.
LEMMA DequeueNotOvertaken ==
    ASSUME PathTypeOK, NEW s \in Symbols, NotOvertaken(s),
           queue[Host] # <<>>, Head(queue[Host]).symbol # s,
           queue'[Host] = Tail(queue[Host]),
           owed'[Host][s] = owed[Host][s], modelDisc'[s] = modelDisc[s],
           cur'[s] = cur[s], inbox'[s] = inbox[s], wpc'[s] = wpc[s],
           disc'[s] = disc[s], adaptive'[s] = adaptive[s],
           excused'[s] = excused[s], rpc'[s] = rpc[s]
    PROVE  NotOvertaken(s)'
<1> PICK q, n : q = queue[Host] /\ n = Len(q)
  OBVIOUS
<1>1. /\ n \in Nat /\ n >= 1 /\ DOMAIN q = 1..n /\ q = queue[Host]
      /\ n = Len(queue[Host])
      /\ Len(queue'[Host]) = n - 1 /\ DOMAIN queue'[Host] = 1..(n - 1)
      /\ \A i \in 1..(n - 1) : queue'[Host][i] = q[i + 1]
      /\ q[1].symbol # s
  BY TailItems, HostAssumption DEF PathTypeOK
<1>2. ASSUME NEW t, NEW j \in 1..n, Queued(s, t, j + 1)
      PROVE  Queued(s, t, j)'
  <2>1. PICK i \in 1..n : i < j + 1 /\ q[i].symbol = s /\ q[i].start = t
    BY <1>1, <1>2 DEF Queued
  <2>2. i # 1
    BY <1>1, <2>1
  <2>3. i - 1 \in 1..(n - 1) /\ i - 1 < j /\ queue'[Host][i - 1] = q[i]
    BY <1>1, <2>1, <2>2
  <2>4. QED
    BY <1>1, <2>1, <2>3 DEF Queued
<1>3. ASSUME NEW t, QueueInOrder(s, t)
      PROVE  QueueInOrder(s, t)'
  <2>1. ASSUME NEW j \in 1..(n - 1), queue'[Host][j].symbol = s,
               queue'[Host][j].start > t
        PROVE  \/ InHand(s, t) \/ Inboxed(s, t, Len(inbox[s]) + 1)
               \/ Queued(s, t, j)'
    <3>1. j + 1 \in 1..n /\ j \in 1..n /\ queue'[Host][j] = q[j + 1]
      BY <1>1
    <3>2. \/ InHand(s, t) \/ Inboxed(s, t, Len(inbox[s]) + 1)
          \/ Queued(s, t, j + 1)
      BY <1>1, <1>3, <2>1, <3>1 DEF QueueInOrder
    <3>3. QED
      BY <1>2, <3>1, <3>2
  <2>2. QED
    BY <1>1, <2>1 DEF QueueInOrder, InHand, Inboxed
<1>4. ASSUME NEW t, OnItsWay(s, t)
      PROVE  OnItsWay(s, t)'
  <2>1. CASE Queued(s, t, n + 1)
    <3>1. Queued(s, t, n)'
      BY <1>1, <1>2, <2>1
    <3>2. Len(queue'[Host]) + 1 = n
      BY <1>1
    <3>3. QED
      BY <3>1, <3>2 DEF OnItsWay
  <2>2. QED
    BY <1>1, <1>4, <2>1 DEF OnItsWay, InHand, Inboxed
<1>5. QED
  BY <1>3, <1>4 DEF NotOvertaken, Settled, Committed, CommittedBefore,
     LatchedBefore, NonePassed, HandInOrder, InboxInOrder, InHand, Inboxed

\* The dispatcher moves a bar of the symbol from the channel to the inbox.
LEMMA ForwardNotOvertaken ==
    ASSUME PathTypeOK, HostTypeInv, NEW s \in Symbols, NotOvertaken(s),
           queue[Host] # <<>>, Head(queue[Host]).symbol = s, ~disc[s],
           queue'[Host] = Tail(queue[Host]),
           inbox'[s] = Append(inbox[s], Head(queue[Host])),
           owed'[Host][s] = owed[Host][s], modelDisc'[s] = modelDisc[s],
           cur'[s] = cur[s], adaptive'[s] = adaptive[s],
           excused'[s] = excused[s], rpc'[s] = rpc[s]
    PROVE  NotOvertaken(s)'
<1> PICK q, n, m : q = queue[Host] /\ n = Len(q) /\ m = Len(inbox[s])
  OBVIOUS
<1>1. /\ n \in Nat /\ n >= 1 /\ DOMAIN q = 1..n /\ q = queue[Host]
      /\ n = Len(queue[Host])
      /\ Len(queue'[Host]) = n - 1 /\ DOMAIN queue'[Host] = 1..(n - 1)
      /\ \A i \in 1..(n - 1) : queue'[Host][i] = q[i + 1]
      /\ q[1].symbol = s /\ Head(q) = q[1] /\ Head(q) \in Bar
  BY TailItems, HostAssumption DEF PathTypeOK
<1>2. /\ m \in Nat /\ DOMAIN inbox[s] = 1..m /\ m = Len(inbox[s])
      /\ Len(inbox'[s]) = m + 1 /\ DOMAIN inbox'[s] = 1..(m + 1)
      /\ \A i \in 1..m : inbox'[s][i] = inbox[s][i]
      /\ inbox'[s][m + 1] = q[1]
  BY <1>1, AppendItems DEF HostTypeInv, HostTypeOK
<1>3. ASSUME NEW t, NEW j \in 1..n, Queued(s, t, j + 1)
      PROVE  Inboxed(s, t, m + 2)' \/ Queued(s, t, j)'
  <2>1. PICK i \in 1..n : i < j + 1 /\ q[i].symbol = s /\ q[i].start = t
    BY <1>1, <1>3 DEF Queued
  <2>2. CASE i = 1
    <3>1. m + 1 \in DOMAIN inbox'[s] /\ m + 1 < m + 2
             /\ inbox'[s][m + 1].start = t
      BY <1>2, <2>1, <2>2
    <3>2. QED
      BY <3>1 DEF Inboxed
  <2>3. CASE i # 1
    <3>1. i - 1 \in 1..(n - 1) /\ i - 1 < j /\ queue'[Host][i - 1] = q[i]
      BY <1>1, <2>1, <2>3
    <3>2. QED
      BY <1>1, <2>1, <3>1 DEF Queued
  <2>4. QED
    BY <2>2, <2>3
<1>4. ASSUME NEW t, NEW k \in 1..(m + 1), Inboxed(s, t, k)
      PROVE  Inboxed(s, t, k)' /\ Inboxed(s, t, m + 2)'
  <2>1. PICK i \in 1..m : i < k /\ inbox[s][i].start = t
    BY <1>2, <1>4 DEF Inboxed
  <2>2. i \in DOMAIN inbox'[s] /\ i < m + 2 /\ inbox'[s][i].start = t
    BY <1>2, <2>1
  <2>3. QED
    BY <2>1, <2>2 DEF Inboxed
<1>5. ASSUME NEW t, NonePassed(s, t)
      PROVE  NonePassed(s, t)'
  <2>1. HandInOrder(s, t)' /\ (InHand(s, t) => InHand(s, t)')
    BY <1>5 DEF NonePassed, HandInOrder, InHand
  <2>2. InboxInOrder(s, t)'
    <3>1. ASSUME NEW j \in 1..(m + 1), inbox'[s][j].start > t
          PROVE  InHand(s, t)' \/ Inboxed(s, t, j)'
      <4>1. CASE j \in 1..m
        <5>1. InHand(s, t) \/ Inboxed(s, t, j)
          BY <1>2, <1>5, <3>1, <4>1 DEF NonePassed, InboxInOrder
        <5>2. QED
          BY <1>2, <1>4, <2>1, <5>1, <4>1
      <4>2. CASE j = m + 1
        <5>1. ~Queued(s, t, 1)
          BY <1>1 DEF Queued
        <5>2. q[1].start > t /\ 1 \in DOMAIN q
          BY <1>1, <1>2, <3>1, <4>2
        <5>3. InHand(s, t) \/ Inboxed(s, t, m + 1)
          BY <1>1, <1>5, <5>1, <5>2 DEF NonePassed, QueueInOrder
        <5>4. QED
          BY <1>2, <1>4, <2>1, <4>2, <5>3
      <4>3. QED
        BY <1>2, <4>1, <4>2
    <3>2. QED
      BY <1>2, <3>1 DEF InboxInOrder
  <2>3. QueueInOrder(s, t)'
    <3>1. ASSUME NEW j \in 1..(n - 1), queue'[Host][j].symbol = s,
                 queue'[Host][j].start > t
          PROVE  InHand(s, t)' \/ Inboxed(s, t, m + 2)' \/ Queued(s, t, j)'
      <4>1. j + 1 \in 1..n /\ j \in 1..n /\ queue'[Host][j] = q[j + 1]
        BY <1>1
      <4>2. \/ InHand(s, t) \/ Inboxed(s, t, m + 1) \/ Queued(s, t, j + 1)
        BY <1>1, <1>5, <3>1, <4>1 DEF NonePassed, QueueInOrder
      <4>3. m + 1 \in 1..(m + 1)
        BY <1>2
      <4>4. QED
        BY <1>3, <1>4, <2>1, <4>1, <4>2, <4>3
    <3>2. Len(inbox'[s]) + 1 = m + 2
      BY <1>2
    <3>3. QED
      BY <1>1, <3>1, <3>2 DEF QueueInOrder
  <2>4. OnItsWay(s, t) => OnItsWay(s, t)'
    <3>1. /\ Len(inbox'[s]) + 1 = m + 2 /\ m + 1 \in 1..(m + 1)
          /\ Len(queue'[Host]) + 1 = n /\ n \in 1..n
      BY <1>1, <1>2
    <3>2. Queued(s, t, n + 1) => Inboxed(s, t, m + 2)' \/ Queued(s, t, n)'
      BY <1>3, <3>1
    <3>3. Inboxed(s, t, m + 1) => Inboxed(s, t, m + 2)'
      BY <1>4, <3>1
    <3>4. QED
      BY <1>1, <1>2, <2>1, <3>1, <3>2, <3>3 DEF OnItsWay
  <2>5. QED
    BY <1>5, <2>1, <2>2, <2>3, <2>4 DEF NonePassed
<1>6. QED
  BY <1>5 DEF NotOvertaken, Settled, Committed, CommittedBefore, LatchedBefore

\* The worker takes the first bar of its inbox.
LEMMA TakeNotOvertaken ==
    ASSUME PathTypeOK, HostTypeInv, NEW s \in Symbols, NotOvertaken(s),
           cur[s] = NoBar, inbox[s] # <<>>,
           cur'[s] = Head(inbox[s]), inbox'[s] = Tail(inbox[s]),
           wpc'[s] = "gates", queue'[Host] = queue[Host],
           owed'[Host][s] = owed[Host][s], modelDisc'[s] = modelDisc[s],
           disc'[s] = disc[s], adaptive'[s] = adaptive[s],
           excused'[s] = excused[s], rpc'[s] = rpc[s]
    PROVE  NotOvertaken(s)'
<1> PICK m : m = Len(inbox[s])
  OBVIOUS
<1>1. /\ m \in Nat /\ m >= 1 /\ DOMAIN inbox[s] = 1..m
      /\ m = Len(inbox[s])
      /\ Len(inbox'[s]) = m - 1 /\ DOMAIN inbox'[s] = 1..(m - 1)
      /\ \A i \in 1..(m - 1) : inbox'[s][i] = inbox[s][i + 1]
      /\ cur'[s] = inbox[s][1]
  BY TailItems DEF HostTypeInv, HostTypeOK
<1>2. ASSUME NEW t, NEW j \in 1..m, Inboxed(s, t, j + 1)
      PROVE  InHand(s, t)' \/ Inboxed(s, t, j)'
  <2>1. PICK i \in 1..m : i < j + 1 /\ inbox[s][i].start = t
    BY <1>1, <1>2 DEF Inboxed
  <2>2. CASE i = 1
    BY <1>1, <2>1, <2>2 DEF InHand
  <2>3. CASE i # 1
    <3>1. i - 1 \in 1..(m - 1) /\ i - 1 < j /\ inbox'[s][i - 1] = inbox[s][i]
      BY <1>1, <2>1, <2>3
    <3>2. QED
      BY <1>1, <2>1, <3>1 DEF Inboxed
  <2>4. QED
    BY <2>2, <2>3
<1>3. ASSUME NEW t \in owed[Host][s], NonePassed(s, t)
      PROVE  NonePassed(s, t)'
  <2>1. ~InHand(s, t)
    BY StartsAreNumbers DEF InHand, NoBar, NoTime
  <2>2. \A j \in 1..m : inbox[s][j].start > t => Inboxed(s, t, j)
    BY <1>1, <1>3, <2>1 DEF NonePassed, InboxInOrder
  <2>3. HandInOrder(s, t)'
    <3>1. ~Inboxed(s, t, 1)
      BY <1>1 DEF Inboxed
    <3>2. ~(inbox[s][1].start > t)
      BY <1>1, <2>2, <3>1
    <3>3. inbox[s][1].start \in Nat /\ t \in Nat
      BY <1>1, StartsAreNumbers
    <3>4. QED
      BY <1>1, <3>2, <3>3 DEF HandInOrder
  <2>4. InboxInOrder(s, t)'
    <3>1. ASSUME NEW j \in 1..(m - 1), inbox'[s][j].start > t
          PROVE  InHand(s, t)' \/ Inboxed(s, t, j)'
      <4>1. j \in 1..m /\ j + 1 \in 1..m /\ inbox'[s][j] = inbox[s][j + 1]
        BY <1>1
      <4>2. Inboxed(s, t, j + 1)
        BY <2>2, <3>1, <4>1
      <4>3. QED
        BY <1>2, <4>1, <4>2
    <3>2. QED
      BY <1>1, <3>1 DEF InboxInOrder
  <2>5. Inboxed(s, t, m + 1) => InHand(s, t)' \/ Inboxed(s, t, m)'
    BY <1>1, <1>2
  <2>6. Len(inbox'[s]) + 1 = m
    BY <1>1
  <2>7. QueueInOrder(s, t)'
    BY <1>1, <1>3, <2>1, <2>5, <2>6 DEF NonePassed, QueueInOrder, Queued
  <2>8. OnItsWay(s, t) => OnItsWay(s, t)'
    BY <1>1, <2>1, <2>5, <2>6 DEF OnItsWay, Queued
  <2>9. QED
    BY <1>3, <2>3, <2>4, <2>7, <2>8 DEF NonePassed
<1>4. QED
  BY <1>3 DEF NotOvertaken, Settled, Committed, CommittedBefore, LatchedBefore

\* The worker goes on with its bar; a latched symbol's bar does not get past
\* the gates.
LEMMA GoOnNotOvertaken ==
    ASSUME NEW s \in Symbols, NotOvertaken(s),
           wpc'[s] \in {"volume", "model"} =>
              wpc[s] \in {"volume", "model"} \/ ~disc[s],
           queue'[Host] = queue[Host],
           owed'[Host][s] = owed[Host][s], modelDisc'[s] = modelDisc[s],
           cur'[s] = cur[s], inbox'[s] = inbox[s],
           disc'[s] = disc[s], adaptive'[s] = adaptive[s],
           excused'[s] = excused[s], rpc'[s] = rpc[s]
    PROVE  NotOvertaken(s)'
  BY DEF NotOvertaken, Settled, Committed, CommittedBefore, LatchedBefore,
         NonePassed, HandInOrder, InboxInOrder, QueueInOrder, OnItsWay, InHand,
         Inboxed, Queued

\* The worker is done with its bar: committed, excused or a loss that latches.
LEMMA FinishNotOvertaken ==
    ASSUME PathTypeOK, HostTypeInv, NEW s \in Symbols, NotOvertaken(s),
           wpc[s] \in {"gates", "model"}, wpc'[s] = "idle",
           cur'[s] = NoBar, inbox'[s] = inbox[s],
           queue'[Host] = queue[Host],
           owed'[Host][s] = owed[Host][s], modelDisc'[s] = modelDisc[s],
           rpc'[s] = rpc[s],
           disc[s] => disc'[s], excused[s] \subseteq excused'[s],
           \/ adaptive'[s] = adaptive[s]
           \/ /\ wpc[s] = "model"
              /\ adaptive'[s] = Append(adaptive[s], cur[s].start),
           disc'[s] \/ cur[s].start \in Committed(s)' \cup excused'[s]
    PROVE  NotOvertaken(s)'
<1> SUFFICES ASSUME rpc[s] = "none", NEW t \in owed[Host][s], ~Settled(s, t)'
             PROVE  /\ CommittedBefore(s, t)'
                    /\ LatchedBefore(s, t)' \/ NonePassed(s, t)'
  BY DEF NotOvertaken
<1>1. cur[s].start \in Times /\ adaptive[s] \in Seq(Times)
  BY BarFields DEF HostTypeInv, HostTypeOK, WorkerHolds
<1>2. Committed(s) \subseteq Committed(s)'
  <2>1. CASE adaptive'[s] = adaptive[s]
    BY <2>1 DEF Committed
  <2>2. CASE adaptive'[s] = Append(adaptive[s], cur[s].start)
    BY <1>1, <2>2, AppendElements DEF Committed, Elements
  <2>3. QED
    BY <2>1, <2>2
<1>3. ~Settled(s, t)
  BY <1>2 DEF Settled
<1>4. CommittedBefore(s, t) /\ (LatchedBefore(s, t) \/ NonePassed(s, t))
  BY <1>3 DEF NotOvertaken
<1>5. CommittedBefore(s, t)'
  <2>1. CASE adaptive'[s] = adaptive[s]
    BY <1>4, <2>1 DEF CommittedBefore
  <2>2. CASE /\ wpc[s] = "model"
             /\ adaptive'[s] = Append(adaptive[s], cur[s].start)
    <3>1. cur[s].start <= t
      BY <1>4, <2>2 DEF LatchedBefore, NonePassed, HandInOrder
    <3>2. cur[s].start \in Committed(s)'
      BY <1>1, <2>2, AppendElements DEF Committed, Elements
    <3>3. cur[s].start # t
      BY <3>2 DEF Settled
    <3>4. cur[s].start \in Nat /\ t \in Nat
      BY StartsAreNumbers
    <3>5. cur[s].start < t
      BY <3>1, <3>3, <3>4
    <3>6. /\ Len(adaptive[s]) \in Nat
          /\ DOMAIN adaptive[s] = 1..Len(adaptive[s])
          /\ DOMAIN adaptive'[s] = 1..(Len(adaptive[s]) + 1)
          /\ \A i \in 1..Len(adaptive[s]) : adaptive'[s][i] = adaptive[s][i]
          /\ adaptive'[s][Len(adaptive[s]) + 1] = cur[s].start
      BY <1>1, <2>2, AppendItems
    <3>7. \A i \in 1..Len(adaptive[s]) : adaptive'[s][i] < t
      BY <1>4, <3>6 DEF CommittedBefore
    <3>8. \A i \in 1..(Len(adaptive[s]) + 1) :
             i \in 1..Len(adaptive[s]) \/ i = Len(adaptive[s]) + 1
      BY <3>6
    <3>9. QED
      BY <3>5, <3>6, <3>7, <3>8 DEF CommittedBefore
  <2>3. QED
    BY <2>1, <2>2
<1>6. CASE disc'[s]
  BY <1>5, <1>6 DEF LatchedBefore
<1>7. CASE ~disc'[s]
  <2>1. NonePassed(s, t)
    BY <1>4, <1>7 DEF LatchedBefore
  <2>2. ~InHand(s, t)
    BY <1>7 DEF InHand, Settled
  <2>3. HandInOrder(s, t)'
    BY StartsAreNumbers DEF HandInOrder, NoBar, NoTime
  <2>4. NonePassed(s, t)'
    BY <2>1, <2>2, <2>3 DEF NonePassed, InboxInOrder, QueueInOrder, OnItsWay,
       InHand, Inboxed, Queued
  <2>5. QED
    BY <1>5, <2>4
<1>8. QED
  BY <1>6, <1>7

\* The channel may gain a last bar, and the host may be owed it, if it is
\* later than any before.
LEMMA EnqueueNotOvertaken ==
    ASSUME PathTypeOK, HostTypeInv, NEW s \in Symbols, NotOvertaken(s),
           BelowFrontier(s), NEW bar \in Bar,
           \/ queue'[Host] = queue[Host]
           \/ /\ queue'[Host] = Append(queue[Host], bar)
              /\ bar.symbol = s => ~modelDisc[s],
           modelDisc[s] => modelDisc'[s],
           \A t \in owed'[Host][s] :
              \/ t \in owed[Host][s]
              \/ /\ t = bar.start /\ bar.symbol = s /\ bar.start > frontier[s]
                 /\ \/ modelDisc'[s]
                    \/ queue'[Host] = Append(queue[Host], bar),
           cur'[s] = cur[s], inbox'[s] = inbox[s], wpc'[s] = wpc[s],
           disc'[s] = disc[s], adaptive'[s] = adaptive[s],
           excused'[s] = excused[s], rpc'[s] = rpc[s]
    PROVE  NotOvertaken(s)'
<1> PICK q, n, m : q = queue[Host] /\ n = Len(q) /\ m = Len(inbox[s])
  OBVIOUS
<1>1. /\ n \in Nat /\ DOMAIN q = 1..n /\ q = queue[Host] /\ q \in Seq(Bar)
      /\ n = Len(queue[Host]) /\ m = Len(inbox[s])
  BY HostAssumption DEF PathTypeOK
<1>2. \/ queue'[Host] = q
      \/ /\ Len(queue'[Host]) = n + 1 /\ DOMAIN queue'[Host] = 1..(n + 1)
         /\ \A i \in 1..n : queue'[Host][i] = q[i]
         /\ queue'[Host][n + 1] = bar
         /\ bar.symbol = s => ~modelDisc[s]
  BY <1>1, AppendItems
<1>3. ASSUME NEW t, NEW k \in 1..(n + 1), Queued(s, t, k)
      PROVE  Queued(s, t, k)' /\ Queued(s, t, n + 2)'
  <2>1. PICK i \in 1..n : i < k /\ q[i].symbol = s /\ q[i].start = t
    BY <1>1, <1>3 DEF Queued
  <2>2. /\ i \in DOMAIN queue'[Host] /\ i < n + 2
        /\ queue'[Host][i].symbol = s /\ queue'[Host][i].start = t
    BY <1>1, <1>2, <2>1
  <2>3. QED
    BY <2>1, <2>2 DEF Queued
<1>4. ASSUME NEW t, OnItsWay(s, t)
      PROVE  OnItsWay(s, t)'
  <2>1. CASE Queued(s, t, n + 1)
    <3>1. Queued(s, t, n + 1)' /\ Queued(s, t, n + 2)'
      BY <1>1, <1>3, <2>1
    <3>2. Len(queue'[Host]) + 1 \in {n + 1, n + 2}
      BY <1>1, <1>2
    <3>3. QED
      BY <3>1, <3>2 DEF OnItsWay
  <2>2. CASE InHand(s, t) \/ Inboxed(s, t, m + 1)
    BY <1>1, <2>2 DEF OnItsWay, InHand, Inboxed
  <2>3. QED
    BY <1>1, <1>4, <2>1, <2>2 DEF OnItsWay
<1>5. ASSUME NEW t, NonePassed(s, t)
      PROVE  NonePassed(s, t)'
  <2>1. HandInOrder(s, t)' /\ InboxInOrder(s, t)'
    BY <1>5 DEF NonePassed, HandInOrder, InboxInOrder, InHand, Inboxed
  <2>2. ASSUME NEW j \in DOMAIN queue'[Host], queue'[Host][j].symbol = s,
               queue'[Host][j].start > t
        PROVE  InHand(s, t) \/ Inboxed(s, t, m + 1) \/ Queued(s, t, j)'
    <3>1. CASE j \in 1..n
      <4>1. InHand(s, t) \/ Inboxed(s, t, m + 1) \/ Queued(s, t, j)
        BY <1>1, <1>2, <1>5, <2>2, <3>1 DEF NonePassed, QueueInOrder
      <4>2. j \in 1..(n + 1)
        BY <1>1, <3>1
      <4>3. QED
        BY <1>3, <4>1, <4>2
    <3>2. CASE j \notin 1..n
      <4>1. j = n + 1 /\ ~modelDisc[s]
        BY <1>1, <1>2, <2>2, <3>2
      <4>2. InHand(s, t) \/ Inboxed(s, t, m + 1) \/ Queued(s, t, n + 1)
        BY <1>1, <1>5, <4>1 DEF NonePassed, OnItsWay
      <4>3. n + 1 \in 1..(n + 1)
        BY <1>1
      <4>4. QED
        BY <1>3, <4>1, <4>2, <4>3
    <3>3. QED
      BY <3>1, <3>2
  <2>3. QueueInOrder(s, t)'
    BY <1>1, <2>2 DEF QueueInOrder, InHand, Inboxed
  <2>4. QED
    BY <1>4, <1>5, <2>1, <2>3 DEF NonePassed
<1>6. ASSUME rpc[s] = "none", NEW t \in owed'[Host][s],
             t \notin owed[Host][s]
      PROVE  CommittedBefore(s, t)' /\ NonePassed(s, t)'
  <2>1. /\ t = bar.start /\ bar.symbol = s /\ t > frontier[s] /\ t \in Nat
        /\ modelDisc'[s] \/ queue'[Host] = Append(q, bar)
    BY <1>1, <1>6 DEF Bar, Times
  <2>2. /\ cur[s].start \in Nat /\ frontier[s] \in Nat
        /\ \A i \in DOMAIN inbox[s] : inbox[s][i].start \in Nat
        /\ \A i \in DOMAIN adaptive[s] : adaptive[s][i] \in Nat
        /\ \A i \in DOMAIN q : q[i].start \in Nat
    BY <1>1, StartsAreNumbers
  <2>3. CommittedBefore(s, t)'
    <3>1. \A i \in DOMAIN adaptive[s] : adaptive[s][i] <= frontier[s]
      BY DEF BelowFrontier, Elements
    <3>2. QED
      BY <2>1, <2>2, <3>1 DEF CommittedBefore
  <2>4. HandInOrder(s, t)'
    BY <2>1, <2>2 DEF BelowFrontier, HandInOrder
  <2>5. InboxInOrder(s, t)'
    <3>1. \A i \in DOMAIN inbox[s] : inbox[s][i].start <= frontier[s]
      BY DEF BelowFrontier, Elements
    <3>2. QED
      BY <2>1, <2>2, <3>1 DEF InboxInOrder
  <2>6. QueueInOrder(s, t)'
    <3>1. \A i \in 1..n : q[i].symbol = s => q[i].start <= frontier[s]
      BY <1>1 DEF BelowFrontier, Elements
    <3>2. \A i \in 1..n : q[i].symbol = s => ~(q[i].start > t)
      BY <1>1, <2>1, <2>2, <3>1
    <3>3. ~(bar.start > t)
      BY <2>1
    <3>4. ASSUME NEW i \in DOMAIN queue'[Host], queue'[Host][i].symbol = s
          PROVE  ~(queue'[Host][i].start > t)
      <4>1. CASE queue'[Host] = q
        BY <1>1, <3>2, <3>4, <4>1
      <4>2. CASE queue'[Host] # q
        <5>1. i \in 1..n \/ i = n + 1
          BY <1>1, <1>2, <4>2
        <5>2. QED
          BY <1>2, <3>2, <3>3, <3>4, <4>2, <5>1
      <4>3. QED
        BY <4>1, <4>2
    <3>5. QED
      BY <3>4 DEF QueueInOrder
  <2>7. modelDisc'[s] \/ OnItsWay(s, t)'
    <3>1. ASSUME queue'[Host] = Append(q, bar)
          PROVE  OnItsWay(s, t)'
      <4>1. /\ Len(queue'[Host]) + 1 = n + 2 /\ n + 1 < n + 2
            /\ n + 1 \in DOMAIN queue'[Host] /\ queue'[Host][n + 1] = bar
        BY <1>1, <3>1, AppendItems
      <4>2. Queued(s, t, n + 2)'
        BY <2>1, <4>1 DEF Queued
      <4>3. QED
        BY <4>1, <4>2 DEF OnItsWay
    <3>2. QED
      BY <2>1, <3>1
  <2>8. QED
    BY <2>3, <2>4, <2>5, <2>6, <2>7 DEF NonePassed
<1>7. QED
  BY <1>5, <1>6 DEF NotOvertaken, Settled, Committed, CommittedBefore,
     LatchedBefore, HandInOrder

LEMMA TailElements ==
    ASSUME NEW S, NEW q \in Seq(S), q # <<>>
    PROVE  Head(q) \in Elements(q) /\ Elements(Tail(q)) \subseteq Elements(q)
<1>1. /\ Len(q) \in Nat /\ Len(q) >= 1 /\ DOMAIN q = 1..Len(q)
      /\ DOMAIN Tail(q) = 1..(Len(q) - 1)
      /\ \A i \in 1..(Len(q) - 1) : Tail(q)[i] = q[i + 1]
      /\ Head(q) = q[1]
  BY TailItems
<1>2. 1 \in DOMAIN q /\ \A i \in 1..(Len(q) - 1) : i + 1 \in DOMAIN q
  BY <1>1
<1>3. QED
  BY <1>1, <1>2 DEF Elements

\* Bars only move along the way, so none can outrun the frontier.
LEMMA BelowFrontierKept ==
    ASSUME PathTypeOK, HostTypeInv, NEW s \in Symbols, BelowFrontier(s),
           frontier'[s] \in Nat, frontier[s] <= frontier'[s],
           cur'[s] \in {cur[s], NoBar} \cup Elements(inbox[s]),
           \A bar \in Elements(inbox'[s]) :
              \/ bar \in Elements(inbox[s])
              \/ bar \in Elements(queue[Host]) /\ bar.symbol = s,
           Elements(adaptive'[s]) \subseteq
              Elements(adaptive[s]) \cup {cur[s].start},
           \A bar \in Elements(queue'[Host]) :
              \/ bar \in Elements(queue[Host])
              \/ bar.symbol = s => bar.start <= frontier'[s]
    PROVE  BelowFrontier(s)'
<1>1. /\ frontier[s] \in Nat /\ cur[s].start \in Nat
      /\ \A bar \in Elements(inbox[s]) : bar.start \in Nat
      /\ \A bar \in Elements(queue[Host]) : bar.start \in Nat
      /\ \A t \in Elements(adaptive[s]) : t \in Nat
  BY StartsAreNumbers DEF Elements
<1>2. cur'[s].start <= frontier'[s]
  <2>1. CASE cur'[s] = NoBar
    <3>1. NoBar.start = 0
      BY DEF NoBar, NoTime
    <3>2. QED
      BY <2>1, <3>1
  <2>2. CASE cur'[s] = cur[s]
    BY <1>1, <2>2 DEF BelowFrontier
  <2>3. CASE cur'[s] \in Elements(inbox[s])
    <3>1. PICK bar \in Elements(inbox[s]) : cur'[s] = bar
      BY <2>3
    <3>2. bar.start <= frontier'[s]
      BY <1>1 DEF BelowFrontier
    <3>3. QED
      BY <3>1, <3>2
  <2>4. QED
    BY <2>1, <2>2, <2>3
<1>3. \A bar \in Elements(inbox'[s]) : bar.start <= frontier'[s]
  BY <1>1 DEF BelowFrontier
<1>4. \A t \in Elements(adaptive'[s]) : t <= frontier'[s]
  BY <1>1 DEF BelowFrontier
<1>5. \A bar \in Elements(queue'[Host]) :
         bar.symbol = s => bar.start <= frontier'[s]
  BY <1>1 DEF BelowFrontier
<1>6. QED
  BY <1>2, <1>3, <1>4, <1>5 DEF BelowFrontier, Elements

-----------------------------------------------------------------------------
\* The steps, one kind at a time.

FlowOf(s) == BelowFrontier(s) /\ NotOvertaken(s)

\* What a step of another symbol's worker, or none at all, leaves of s.
Untouched(s) ==
    /\ frontier'[s] = frontier[s] /\ owed'[Host][s] = owed[Host][s]
    /\ modelDisc'[s] = modelDisc[s] /\ cur'[s] = cur[s]
    /\ inbox'[s] = inbox[s] /\ wpc'[s] = wpc[s] /\ disc'[s] = disc[s]
    /\ adaptive'[s] = adaptive[s] /\ excused'[s] = excused[s]
    /\ rpc'[s] = rpc[s]

LEMMA UntouchedKeepsFlow ==
    ASSUME PathTypeOK, HostTypeInv, NEW s \in Symbols, FlowOf(s),
           Untouched(s), queue'[Host] = queue[Host]
    PROVE  FlowOf(s)'
<1>1. BelowFrontier(s)'
  BY DEF FlowOf, Untouched, BelowFrontier, Elements
<1>2. NotOvertaken(s)'
  BY BystanderNotOvertaken DEF FlowOf, Untouched
<1>3. QED
  BY <1>1, <1>2 DEF FlowOf

LEMMA DequeueKeepsFlow ==
    ASSUME PathTypeOK, HostTypeInv, NEW s \in Symbols, FlowOf(s),
           Untouched(s), Receive(Host), Head(queue[Host]).symbol # s
    PROVE  FlowOf(s)'
<1>1. queue[Host] # <<>> /\ queue'[Host] = Tail(queue[Host])
  BY HostAssumption DEF Receive, PathTypeOK
<1>2. Elements(queue'[Host]) \subseteq Elements(queue[Host])
  BY <1>1, TailElements, HostAssumption DEF PathTypeOK
<1>3. frontier[s] \in Nat
  BY StartsAreNumbers
<1>4. BelowFrontier(s)'
  BY <1>2, <1>3 DEF FlowOf, Untouched, BelowFrontier, Elements
<1>5. NotOvertaken(s)'
  BY <1>1, DequeueNotOvertaken DEF FlowOf, Untouched
<1>6. QED
  BY <1>4, <1>5 DEF FlowOf

LEMMA FeedKeepsFlow ==
    ASSUME PathInv, HostTypeInv, NEW b \in Symbols, NEW u \in Times,
           Feed(b, u), NEW s \in Symbols, FlowOf(s)
    PROVE  FlowOf(s)'
<1> DEFINE bar == LiveBar(b, u)
<1>1. bar \in Bar /\ bar.symbol = b /\ bar.start = u
  BY DEF LiveBar, Bar
<1>2. \/ FanoutSkip(bar) \/ FanoutDeliver(bar) \/ FanoutOverflow(bar)
  BY DEF Feed, FanoutModel
<1> HIDE DEF bar
<1>3. PathTypeOK /\ Host \in Subs /\ queue[Host] \in Seq(Bar)
  BY HostAssumption DEF PathInv, PathTypeOK
<1>4. RecordOffer(bar)
  BY <1>2 DEF FanoutSkip, FanoutDeliver, FanoutOverflow
<1>5. /\ frontier[s] <= frontier'[s] /\ frontier'[s] \in Nat
      /\ \A t \in owed'[Host][s] :
            \/ t \in owed[Host][s]
            \/ Host \in Open /\ s = b /\ t = u /\ Fresh(bar)
      /\ MinuteAligned(u) => u <= frontier'[b]
  BY <1>1, <1>3, <1>4, RecordOfferEffect DEF Times, NoTime
<1>6. /\ modelDisc[s] => modelDisc'[s]
      /\ Fresh(bar) /\ Host \in Open /\ b = s =>
            modelDisc'[s] \/ queue'[Host] = Append(queue[Host], bar)
      /\ \/ queue'[Host] = queue[Host]
         \/ /\ queue'[Host] = Append(queue[Host], bar)
            /\ bar.symbol = s => ~modelDisc[s]
            /\ MinuteAligned(u)
  <2>1. CASE FanoutSkip(bar)
    <3>1. modelDisc[b] \/ ~Fresh(bar)
      BY <1>1, <2>1, SkippedIsNotFresh DEF FanoutSkip, PathInv
    <3>2. QED
      BY <2>1, <3>1 DEF FanoutSkip
  <2>2. CASE FanoutDeliver(bar)
    <3>1. /\ queue'[Host] = IF Host \in Open THEN Append(queue[Host], bar)
                            ELSE queue[Host]
          /\ modelDisc' = modelDisc /\ ~modelDisc[b]
      BY <1>1, <1>3, <2>2 DEF FanoutDeliver, SendTo
    <3>2. MinuteAligned(u)
      BY <1>1, <1>3, <2>2, InOrderIsLater DEF FanoutDeliver
    <3>3. QED
      BY <1>1, <3>1, <3>2
  <2>3. CASE FanoutOverflow(bar)
    <3>1. PICK D \in SUBSET {c \in Open : ~Full(c)} : SendTo(D, bar)
      BY <2>3 DEF FanoutOverflow
    <3>2. /\ queue'[Host] = IF Host \in D THEN Append(queue[Host], bar)
                            ELSE queue[Host]
      BY <1>3, <3>1 DEF SendTo
    <3>3. ~modelDisc[b] /\ modelDisc' = [modelDisc EXCEPT ![b] = TRUE]
      BY <1>1, <2>3 DEF FanoutOverflow, LatchPath
    <3>4. MinuteAligned(u)
      BY <1>1, <1>3, <2>3, InOrderIsLater DEF FanoutOverflow
    <3>5. modelDisc'[b] /\ (modelDisc[s] => modelDisc'[s])
      BY <1>3, <3>3 DEF PathTypeOK
    <3>6. QED
      BY <1>1, <3>2, <3>3, <3>4, <3>5
  <2>4. QED
    BY <1>2, <2>1, <2>2, <2>3
<1>7. /\ cur' = cur /\ inbox' = inbox /\ wpc' = wpc /\ disc' = disc
      /\ adaptive' = adaptive /\ excused' = excused /\ rpc' = rpc
  BY DEF Feed, channelVars, engineVars, resetVars
<1>8. BelowFrontier(s)'
  <2>1. Elements(queue'[Host]) \subseteq Elements(queue[Host]) \cup {bar}
    <3>1. Elements(Append(queue[Host], bar)) = Elements(queue[Host]) \cup {bar}
      BY <1>1, <1>3, AppendElements
    <3>2. queue'[Host] = queue[Host] \/ queue'[Host] = Append(queue[Host], bar)
      BY <1>6
    <3>3. QED
      BY <3>1, <3>2
  <2>2. ASSUME NEW item \in Elements(queue'[Host])
        PROVE  \/ item \in Elements(queue[Host])
               \/ item.symbol = s => item.start <= frontier'[s]
    <3>1. CASE item \in Elements(queue[Host])
      BY <3>1
    <3>2. CASE item \notin Elements(queue[Host])
      <4>1. item = bar /\ MinuteAligned(u)
        BY <1>6, <2>1, <3>2
      <4>2. QED
        BY <1>1, <1>5, <4>1
    <3>3. QED
      BY <3>1, <3>2
  <2>3. /\ cur'[s] = cur[s] /\ Elements(inbox'[s]) = Elements(inbox[s])
        /\ Elements(adaptive'[s]) = Elements(adaptive[s])
    BY <1>7
  <2>4. QED
    BY <1>3, <1>5, <2>2, <2>3, BelowFrontierKept DEF FlowOf
<1>9. NotOvertaken(s)'
  <2>1. \A t \in owed'[Host][s] :
              \/ t \in owed[Host][s]
              \/ /\ t = bar.start /\ bar.symbol = s /\ bar.start > frontier[s]
                 /\ \/ modelDisc'[s]
                    \/ queue'[Host] = Append(queue[Host], bar)
    BY <1>1, <1>5, <1>6 DEF Fresh
  <2>2. \/ queue'[Host] = queue[Host]
        \/ /\ queue'[Host] = Append(queue[Host], bar)
           /\ bar.symbol = s => ~modelDisc[s]
    BY <1>6
  <2>3. modelDisc[s] => modelDisc'[s]
    BY <1>6
  <2>4. QED
    BY <1>1, <1>3, <1>7, <2>1, <2>2, <2>3, EnqueueNotOvertaken DEF FlowOf
<1>10. QED
  BY <1>8, <1>9 DEF FlowOf

LEMMA DispatcherKeepsFlow ==
    ASSUME PathTypeOK, HostTypeInv, Dispatcher, NEW s \in Symbols, FlowOf(s)
    PROVE  FlowOf(s)'
<1>1. CASE \/ Start \/ Tick \/ StopDispatch \/ CloseStreams \/ Leave
           \/ \E r \in Symbols : PollSymbol(r)
  <2>1. UNCHANGED <<queue, frontier, owed, modelDisc, cur, inbox, wpc, disc,
                    adaptive, excused, rpc>>
    BY <1>1 DEF Start, SubscribeModelBars, Tick, StopDispatch, CloseStreams,
       Leave, Unsubscribe, PollSymbol, pathVars, channelVars, engineVars,
       resetVars, historyVars
  <2>2. QED
    BY <2>1, UntouchedKeepsFlow DEF Untouched
<1>2. CASE MirrorLatch
  <2>1. /\ UNCHANGED <<queue, frontier, owed, modelDisc, cur, inbox, wpc,
                       adaptive, excused, rpc>>
        /\ disc' = disc \/ disc' = [disc EXCEPT ![polled.symbol] = TRUE]
    BY <1>2 DEF MirrorLatch, markDisc, pathVars, channelVars, engineVars,
       resetVars, historyVars
  <2>2. CASE disc'[s] = disc[s]
    BY <2>1, <2>2, UntouchedKeepsFlow DEF Untouched
  <2>3. CASE disc'[s] # disc[s]
    <3>1. disc'[s]
      BY <2>1, <2>3 DEF HostTypeInv, HostTypeOK
    <3>2. NotOvertaken(s)'
      BY <2>1, <3>1, LatchNotOvertaken DEF FlowOf
    <3>3. BelowFrontier(s)'
      BY <2>1 DEF FlowOf, BelowFrontier, Elements
    <3>4. QED
      BY <3>2, <3>3 DEF FlowOf
  <2>4. QED
    BY <2>2, <2>3
<1>3. CASE DispatchLatched \/ DispatchForward \/ DispatchOverflow
  <2> DEFINE bar == Head(queue[Host])
  <2>1. /\ Receive(Host) /\ queue[Host] # <<>>
        /\ queue'[Host] = Tail(queue[Host]) /\ queue[Host] \in Seq(Bar)
    BY <1>3, HostAssumption DEF DispatchLatched, DispatchForward,
       DispatchOverflow, Receive, PathTypeOK
  <2>2. /\ bar \in Bar /\ bar.symbol \in Symbols
        /\ bar \in Elements(queue[Host])
        /\ Elements(queue'[Host]) \subseteq Elements(queue[Host])
    BY <2>1, TailElements, BarFields
  <2>3. UNCHANGED <<frontier, owed, modelDisc, cur, wpc, adaptive, excused,
                    rpc>>
    BY <1>3 DEF DispatchLatched, DispatchForward, DispatchOverflow, Receive,
       channelVars, engineVars, resetVars, historyVars
  <2>4. \/ disc[bar.symbol] /\ disc' = disc /\ inbox' = inbox
        \/ /\ ~disc[bar.symbol] /\ disc' = disc
           /\ inbox' = [inbox EXCEPT ![bar.symbol] = Append(@, bar)]
        \/ /\ disc' = [disc EXCEPT ![bar.symbol] = TRUE]
           /\ inbox' = inbox
    BY <1>3 DEF DispatchLatched, DispatchForward, DispatchOverflow, markDisc,
       channelVars
  <2>5. frontier[s] \in Nat /\ inbox[s] \in Seq(Bar)
    BY StartsAreNumbers
  <2> HIDE DEF bar
  <2>6. CASE bar.symbol # s
    <3>1. Untouched(s)
      BY <2>2, <2>3, <2>4, <2>6 DEF Untouched, HostTypeInv, HostTypeOK
    <3>2. QED
      BY <2>1, <2>6, <3>1, DequeueKeepsFlow DEF bar
  <2>7. CASE bar.symbol = s
    <3>1. BelowFrontier(s)'
      <4>1. \A item \in Elements(inbox'[s]) :
              \/ item \in Elements(inbox[s])
              \/ item \in Elements(queue[Host]) /\ item.symbol = s
        <5>1. inbox'[s] = inbox[s] \/ inbox'[s] = Append(inbox[s], bar)
          BY <2>4, <2>7 DEF HostTypeInv, HostTypeOK
        <5>2. Elements(inbox'[s]) \subseteq Elements(inbox[s]) \cup {bar}
          <6>1. Elements(Append(inbox[s], bar)) = Elements(inbox[s]) \cup {bar}
            BY <2>2, <2>5, AppendElements
          <6>2. QED
            BY <5>1, <6>1
        <5>3. QED
          BY <2>2, <2>7, <5>2
      <4>2. /\ frontier'[s] = frontier[s] /\ cur'[s] = cur[s]
            /\ adaptive'[s] = adaptive[s]
        BY <2>3
      <4>3. QED
        BY <2>2, <2>5, <4>1, <4>2, BelowFrontierKept DEF FlowOf
    <3>2. NotOvertaken(s)'
      <4>1. CASE disc'[s]
        BY <2>3, <4>1, LatchNotOvertaken DEF FlowOf
      <4>2. CASE ~disc'[s]
        <5>1. /\ ~disc[s] /\ disc' = disc
              /\ inbox'[s] = Append(inbox[s], Head(queue[Host]))
          BY <2>4, <2>7, <4>2 DEF HostTypeInv, HostTypeOK, bar
        <5>2. Head(queue[Host]).symbol = s
          BY <2>7 DEF bar
        <5>3. QED
          BY <2>1, <2>3, <5>1, <5>2, ForwardNotOvertaken DEF FlowOf
      <4>3. QED
        BY <4>1, <4>2
    <3>3. QED
      BY <3>1, <3>2 DEF FlowOf
  <2>8. QED
    BY <2>6, <2>7
<1>4. QED
  BY <1>1, <1>2, <1>3 DEF Dispatcher

LEMMA WorkerKeepsFlow ==
    ASSUME PathTypeOK, HostTypeInv, HandsEmpty, NEW w \in Symbols, Worker(w),
           NEW s \in Symbols, FlowOf(s)
    PROVE  FlowOf(s)'
<1>1. UNCHANGED <<queue, frontier, owed, modelDisc, rpc>>
  BY WorkerLeavesPath DEF pathVars, Worker, Take, GateAdmit, GateSkip,
     GateInputGap, Panic, VolumeCommit, VolumeRefuse, ModelCommit,
     ModelDecline, StopWorker, resetVars
<1>2. CASE s # w
  <2>1. /\ cur'[s] = cur[s] /\ inbox'[s] = inbox[s] /\ wpc'[s] = wpc[s]
        /\ disc'[s] = disc[s] /\ adaptive'[s] = adaptive[s]
        /\ excused'[s] = excused[s]
    BY <1>2 DEF Worker, Take, GateAdmit, GateSkip, GateInputGap, Panic,
       VolumeCommit, VolumeRefuse, ModelCommit, ModelDecline, StopWorker,
       Finish, Return, markDisc, CommitEngines, engineVars, historyVars,
       HostTypeInv, HostTypeOK
  <2>2. QED
    BY <1>1, <2>1, UntouchedKeepsFlow DEF Untouched
<1>3. CASE s = w /\ Take(w)
  <2>1. /\ inbox[s] # <<>> /\ cur'[s] = Head(inbox[s])
        /\ inbox'[s] = Tail(inbox[s]) /\ wpc'[s] = "gates"
        /\ wpc[s] = "idle" /\ UNCHANGED <<disc, adaptive, excused>>
    BY <1>3 DEF Take, HostTypeInv, HostTypeOK, engineVars, historyVars
  <2>2. frontier[s] \in Nat /\ inbox[s] \in Seq(Bar) /\ cur[s] = NoBar
    BY <2>1, StartsAreNumbers DEF HandsEmpty
  <2>3. /\ cur'[s] \in Elements(inbox[s])
        /\ Elements(inbox'[s]) \subseteq Elements(inbox[s])
    BY <2>1, <2>2, TailElements
  <2>4. BelowFrontier(s)'
    BY <1>1, <2>1, <2>2, <2>3, BelowFrontierKept DEF FlowOf
  <2>5. NotOvertaken(s)'
    BY <1>1, <2>1, <2>2, TakeNotOvertaken DEF FlowOf
  <2>6. QED
    BY <2>4, <2>5 DEF FlowOf
<1>4. CASE /\ s = w
           /\ \/ GateAdmit(w) \/ VolumeCommit(w) \/ VolumeRefuse(w)
              \/ StopWorker(w)
  <2>1. UNCHANGED <<cur, inbox, disc, adaptive, excused>>
    BY <1>4 DEF GateAdmit, VolumeCommit, VolumeRefuse, StopWorker, engineVars,
       historyVars
  <2>2. wpc'[s] \in {"volume", "model"} =>
           wpc[s] \in {"volume", "model"} \/ ~disc[s]
    BY <1>4 DEF GateAdmit, Admissible, VolumeCommit, VolumeRefuse, StopWorker,
       HostTypeInv, HostTypeOK
  <2>3. NotOvertaken(s)'
    BY <1>1, <2>1, <2>2, GoOnNotOvertaken DEF FlowOf
  <2>4. BelowFrontier(s)'
    BY <1>1, <2>1 DEF FlowOf, BelowFrontier, Elements
  <2>5. QED
    BY <2>3, <2>4 DEF FlowOf
<1>5. CASE /\ s = w
           /\ \/ GateSkip(w) \/ GateInputGap(w) \/ Panic(w)
              \/ ModelCommit(w) \/ ModelDecline(w)
  <2>1. /\ wpc[s] \in {"gates", "model"} /\ wpc'[s] = "idle"
        /\ cur'[s] = NoBar /\ inbox' = inbox
    BY <1>5 DEF GateSkip, GateInputGap, Panic, ModelCommit, ModelDecline,
       Finish, Return, HostTypeInv, HostTypeOK
  <2>2. /\ cur[s].start \in Times /\ adaptive[s] \in Seq(Times)
        /\ frontier[s] \in Nat
    BY <2>1, StartsAreNumbers, BarFields DEF HostTypeInv, WorkerHolds
  <2>3. /\ disc[s] => disc'[s]
        /\ excused[s] \subseteq excused'[s]
        /\ \/ adaptive'[s] = adaptive[s]
           \/ /\ wpc[s] = "model"
              /\ adaptive'[s] = Append(adaptive[s], cur[s].start)
        /\ \/ disc'[s] \/ cur[s].start \in excused'[s]
           \/ adaptive'[s] = Append(adaptive[s], cur[s].start)
    <3>1. CASE GateSkip(s) \/ ModelDecline(s)
      <4>1. /\ disc' = disc /\ adaptive' = adaptive
            /\ excused \in [Symbols -> SUBSET Times]
        BY <3>1 DEF GateSkip, ModelDecline, HostTypeInv, HostTypeOK, engineVars
      <4>2. \/ disc[s] /\ excused' = excused
            \/ excused' = [excused EXCEPT ![s] = @ \cup {cur[s].start}]
        BY <3>1 DEF GateSkip, ModelDecline
      <4>3. QED
        BY <4>1, <4>2
    <3>2. CASE GateInputGap(s) \/ Panic(s)
      BY <3>2 DEF GateInputGap, Panic, markDisc, HostTypeInv, HostTypeOK,
         engineVars
    <3>3. CASE ModelCommit(s)
      BY <3>3 DEF ModelCommit, CommitEngines, HostTypeInv, HostTypeOK
    <3>4. QED
      BY <1>5, <3>1, <3>2, <3>3
  <2>4. Elements(Append(adaptive[s], cur[s].start))
           = Elements(adaptive[s]) \cup {cur[s].start}
    BY <2>2, AppendElements
  <2>5. BelowFrontier(s)'
    <3>1. Elements(adaptive'[s]) \subseteq
             Elements(adaptive[s]) \cup {cur[s].start}
      BY <2>3, <2>4
    <3>2. QED
      BY <1>1, <2>1, <2>2, <3>1, BelowFrontierKept DEF FlowOf
  <2>6. disc'[s] \/ cur[s].start \in Committed(s)' \cup excused'[s]
    <3>1. Committed(s)' = Elements(adaptive'[s])
      BY DEF Committed, Elements
    <3>2. QED
      BY <2>3, <2>4, <3>1
  <2>7. NotOvertaken(s)'
    BY <1>1, <2>1, <2>3, <2>6, FinishNotOvertaken DEF FlowOf
  <2>8. QED
    BY <2>5, <2>7 DEF FlowOf
<1>6. QED
  BY <1>2, <1>3, <1>4, <1>5 DEF Worker

LEMMA ResetKeepsFlow ==
    ASSUME PathTypeOK, HostTypeInv, NEW b \in Symbols, Reset(b),
           NEW s \in Symbols, FlowOf(s)
    PROVE  FlowOf(s)'
<1>1. UNCHANGED <<queue, frontier, cur, inbox, wpc>>
  BY DEF Reset, ResetEngines, ResetLatch, ResetPath, ResetModelPath, pathVars,
     channelVars
<1>2. CASE s # b
  <2>1. /\ owed'[Host][s] = owed[Host][s] /\ modelDisc'[s] = modelDisc[s]
        /\ disc'[s] = disc[s] /\ adaptive'[s] = adaptive[s]
        /\ excused'[s] = excused[s] /\ rpc'[s] = rpc[s]
    BY <1>2, HostAssumption DEF Reset, ResetEngines, ResetLatch, ResetPath,
       ResetModelPath, pathVars, engineVars, historyVars, PathTypeOK,
       HostTypeInv, HostTypeOK
  <2>2. QED
    BY <1>1, <2>1, UntouchedKeepsFlow DEF Untouched
<1>3. CASE s = b
  <2>1. adaptive'[s] = adaptive[s] \/ adaptive'[s] = <<>>
    BY <1>3 DEF Reset, ResetEngines, ResetLatch, ResetPath, engineVars,
       HostTypeInv, HostTypeOK
  <2>2. Elements(adaptive'[s]) \subseteq Elements(adaptive[s])
    BY <2>1 DEF Elements
  <2>3. BelowFrontier(s)'
    BY <1>1, <2>2 DEF FlowOf, BelowFrontier, Elements
  <2>4. rpc'[s] # "none" \/ owed'[Host][s] = {}
    BY <1>3, HostAssumption DEF Reset, ResetEngines, ResetLatch, ResetPath,
       ResetModelPath, PathTypeOK, HostTypeInv, HostTypeOK
  <2>5. NotOvertaken(s)'
    BY <2>4 DEF NotOvertaken
  <2>6. QED
    BY <2>3, <2>5 DEF FlowOf
<1>4. QED
  BY <1>2, <1>3

LEMMA HandsEmptyNext ==
    ASSUME HostTypeInv, HandsEmpty, [Next]_vars
    PROVE  HandsEmpty'
<1>1. CASE UNCHANGED <<wpc, cur>>
  BY <1>1 DEF HandsEmpty
<1>2. ASSUME NEW w \in Symbols, Worker(w)
      PROVE  HandsEmpty'
  <2>1. \A s \in Symbols \ {w} : wpc'[s] = wpc[s] /\ cur'[s] = cur[s]
    BY <1>2 DEF Worker, Take, GateAdmit, GateSkip, GateInputGap, Panic,
       VolumeCommit, VolumeRefuse, ModelCommit, ModelDecline, StopWorker,
       Finish, Return, HostTypeInv, HostTypeOK
  <2>2. wpc'[w] \in {"idle", "stopped"} => cur'[w] = NoBar
    BY <1>2 DEF Worker, Take, GateAdmit, GateSkip, GateInputGap, Panic,
       VolumeCommit, VolumeRefuse, ModelCommit, ModelDecline, StopWorker,
       Finish, Return, HostTypeInv, HostTypeOK, HandsEmpty
  <2>3. QED
    BY <2>1, <2>2 DEF HandsEmpty
<1>3. CASE Dispatcher
  BY <1>1, <1>3 DEF Dispatcher, Start, DispatchLatched, DispatchForward,
     DispatchOverflow, Tick, PollSymbol, MirrorLatch, StopDispatch,
     CloseStreams, Leave, channelVars
<1>4. ASSUME NEW s \in Symbols, Reset(s)
      PROVE  HandsEmpty'
  BY <1>1, <1>4 DEF Reset, ResetEngines, ResetLatch, ResetPath, channelVars
<1>5. CASE \/ \E s \in Symbols, t \in Times : Feed(s, t)
           \/ Cancel \/ UNCHANGED vars
  BY <1>1, <1>5 DEF Feed, Cancel, vars, hostVars, channelVars
<1>6. QED
  BY <1>2, <1>3, <1>4, <1>5 DEF Next

LEMMA FlowNext == PathInv /\ HostTypeInv /\ FlowInv /\ [Next]_vars => FlowInv'
<1> SUFFICES ASSUME PathInv, HostTypeInv, FlowInv, [Next]_vars
             PROVE  FlowInv'
  OBVIOUS
<1>1. HandsEmpty'
  BY HandsEmptyNext DEF FlowInv
<1>2. ASSUME NEW s \in Symbols
      PROVE  FlowOf(s)'
  <2>1. FlowOf(s) /\ HandsEmpty /\ PathTypeOK
    BY DEF FlowInv, FlowOf, PathInv
  <2>2. CASE \E b \in Symbols, u \in Times : Feed(b, u)
    BY <2>1, <2>2, FeedKeepsFlow
  <2>3. CASE Cancel \/ UNCHANGED vars
    <3>1. UNCHANGED <<queue, frontier, owed, modelDisc, cur, inbox, wpc, disc,
                      adaptive, excused, rpc>>
      BY <2>3 DEF Cancel, vars, pathVars, hostVars, channelVars, engineVars,
         resetVars, historyVars
    <3>2. QED
      BY <2>1, <3>1, UntouchedKeepsFlow DEF Untouched
  <2>4. CASE Dispatcher
    BY <2>1, <2>4, DispatcherKeepsFlow
  <2>5. CASE \E w \in Symbols : Worker(w)
    BY <2>1, <2>5, WorkerKeepsFlow
  <2>6. CASE \E b \in Symbols : Reset(b)
    BY <2>1, <2>6, ResetKeepsFlow
  <2>7. QED
    BY <2>2, <2>3, <2>4, <2>5, <2>6 DEF Next
<1>3. QED
  BY <1>1, <1>2 DEF FlowInv, FlowOf

LEMMA FlowInvariant == Spec => [](PathInv /\ HostTypeInv /\ FlowInv)
<1>1. Spec => []PathInv
  BY HostImplementsPath, PathInitInv, PathNextInv, PTL DEF PathSpec
<1>2. QED
  BY <1>1, HostTypeInvariant, FlowInit, FlowNext, PTL DEF Spec

\* The recursive model never steps over a bar that was lost: whatever latches,
\* overflows, panics or is reset, an interval offered between two committed
\* ones was committed itself or turned away for a harmless reason (latches in
\* fanoutModel, dispatch and handle, with the polls and resets between them).
THEOREM HostNoSilentGap == Spec => []NoSilentGap
<1>1. HostTypeInv /\ PathInv /\ FlowInv => NoSilentGap
  <2> SUFFICES ASSUME HostTypeInv, PathInv, FlowInv,
                      NEW s \in Symbols, rpc[s] = "none",
                      NEW i \in DOMAIN adaptive[s],
                      NEW j \in DOMAIN adaptive[s],
                      NEW t \in owed[Host][s],
                      adaptive[s][i] < t, t < adaptive[s][j]
               PROVE  t \in Committed(s) \cup excused[s]
    BY DEF NoSilentGap
  <2>1. adaptive[s][j] \in Nat /\ t \in Nat
    BY StartsAreNumbers DEF PathInv
  <2>2. ~CommittedBefore(s, t)
    BY <2>1 DEF CommittedBefore
  <2>3. QED
    BY <2>2 DEF FlowInv, NotOvertaken, Settled
<1>2. QED
  BY <1>1, FlowInvariant, PTL

-----------------------------------------------------------------------------
\* Counting the bars of an interval in an inbox.

Waiting(seq, t) == {i \in DOMAIN seq : seq[i].start = t}

LEMMA WaitingIsFinite ==
    ASSUME NEW S, NEW seq \in Seq(S), NEW t
    PROVE  /\ IsFiniteSet(Waiting(seq, t))
           /\ Cardinality(Waiting(seq, t)) \in Nat
<1>1. Len(seq) \in Nat /\ DOMAIN seq = 1..Len(seq)
  OBVIOUS
<1>2. IsFiniteSet(1..Len(seq))
  BY <1>1, FS_Interval
<1>3. Waiting(seq, t) \in SUBSET (1..Len(seq))
  BY <1>1 DEF Waiting
<1>4. QED
  BY <1>2, <1>3, FS_Subset, FS_CardinalityType

LEMMA WaitingAppend ==
    ASSUME NEW S, NEW seq \in Seq(S), NEW bar \in S, NEW t
    PROVE  Cardinality(Waiting(Append(seq, bar), t)) =
              Cardinality(Waiting(seq, t)) + IF bar.start = t THEN 1 ELSE 0
<1> DEFINE n == Len(seq)
<1>1. /\ n \in Nat /\ DOMAIN seq = 1..n
      /\ DOMAIN Append(seq, bar) = 1..(n + 1)
      /\ \A i \in 1..n : Append(seq, bar)[i] = seq[i]
      /\ Append(seq, bar)[n + 1] = bar
  BY AppendItems
<1>2. IsFiniteSet(Waiting(seq, t)) /\ Cardinality(Waiting(seq, t)) \in Nat
  BY WaitingIsFinite
<1>3. n + 1 \notin Waiting(seq, t)
  BY <1>1 DEF Waiting
<1>4. CASE bar.start = t
  <2>1. Waiting(Append(seq, bar), t) = Waiting(seq, t) \cup {n + 1}
    BY <1>1, <1>4 DEF Waiting
  <2>2. QED
    BY <1>2, <1>3, <1>4, <2>1, FS_AddElement
<1>5. CASE bar.start # t
  <2>1. Waiting(Append(seq, bar), t) = Waiting(seq, t)
    BY <1>1, <1>5 DEF Waiting
  <2>2. QED
    BY <1>2, <1>5, <2>1
<1>6. QED
  BY <1>4, <1>5

LEMMA WaitingTail ==
    ASSUME NEW S, NEW seq \in Seq(S), seq # <<>>, NEW t
    PROVE  Cardinality(Waiting(seq, t)) =
              Cardinality(Waiting(Tail(seq), t))
                 + IF Head(seq).start = t THEN 1 ELSE 0
<1> DEFINE n == Len(seq)
           rest == Waiting(Tail(seq), t)
           later == Waiting(seq, t) \ {1}
           shift == [i \in rest |-> i + 1]
<1>1. /\ n \in Nat /\ n >= 1 /\ DOMAIN seq = 1..n
      /\ DOMAIN Tail(seq) = 1..(n - 1) /\ Tail(seq) \in Seq(S)
      /\ \A i \in 1..(n - 1) : Tail(seq)[i] = seq[i + 1]
      /\ Head(seq) = seq[1]
  BY TailItems
<1>2. /\ IsFiniteSet(Waiting(seq, t)) /\ Cardinality(Waiting(seq, t)) \in Nat
      /\ IsFiniteSet(rest) /\ Cardinality(rest) \in Nat
  BY <1>1, WaitingIsFinite
<1>3. rest \subseteq 1..(n - 1) /\ later \subseteq 2..n
  BY <1>1 DEF Waiting
<1>4. shift \in Bijection(rest, later)
  <2>1. \A i \in rest : i + 1 \in later
    <3> SUFFICES ASSUME NEW i \in rest PROVE i + 1 \in later
      OBVIOUS
    <3>1. i \in 1..(n - 1) /\ Tail(seq)[i].start = t
      BY <1>1 DEF Waiting
    <3>2. i + 1 \in 1..n /\ seq[i + 1].start = t /\ i + 1 # 1
      BY <1>1, <3>1
    <3>3. QED
      BY <1>1, <3>2 DEF Waiting
  <2>2. \A j \in later : j - 1 \in rest /\ j = (j - 1) + 1
    <3> SUFFICES ASSUME NEW j \in later PROVE j - 1 \in rest /\ j = (j - 1) + 1
      OBVIOUS
    <3>1. j \in 1..n /\ j # 1 /\ seq[j].start = t
      BY <1>1 DEF Waiting
    <3>2. j - 1 \in 1..(n - 1) /\ j = (j - 1) + 1
      BY <1>1, <3>1
    <3>3. Tail(seq)[j - 1] = seq[j]
      BY <1>1, <3>2
    <3>4. QED
      BY <1>1, <3>1, <3>2, <3>3 DEF Waiting
  <2>3. \A i, j \in rest : i + 1 = j + 1 => i = j
    BY <1>3
  <2> HIDE DEF rest, later
  <2>4. QED
    BY <2>1, <2>2, <2>3 DEF Bijection, Injection, Surjection, IsInjective
<1>5. Cardinality(later) = Cardinality(rest)
  BY <1>2, <1>4, FS_Bijection DEF ExistsBijection
<1>6. 1 \in Waiting(seq, t) <=> Head(seq).start = t
  BY <1>1 DEF Waiting
<1>7. Cardinality(later) = IF 1 \in Waiting(seq, t)
                           THEN Cardinality(Waiting(seq, t)) - 1
                           ELSE Cardinality(Waiting(seq, t))
  BY <1>2, FS_RemoveElement
<1> HIDE DEF rest, later
<1>8. Cardinality(Waiting(seq, t)) =
         Cardinality(rest) + IF Head(seq).start = t THEN 1 ELSE 0
  BY <1>2, <1>5, <1>6, <1>7
<1>9. QED
  BY <1>8 DEF rest

\* The bars of s at t that the host has yet to answer, in two parts.
LEMMA InFlightParts ==
    ASSUME NEW s, NEW t
    PROVE  InFlight(s, t) = Cardinality(Waiting(inbox[s], t))
                               + IF cur[s] # NoBar /\ cur[s].start = t
                                 THEN 1 ELSE 0
  BY DEF InFlight, Waiting

LEMMA OutcomeInit == Init => OneOutcomePerBar
<1> SUFFICES ASSUME Init, NEW s \in Symbols, NEW t \in Times
             PROVE  unanswered[s][t] = InFlight(s, t)
  BY DEF OneOutcomePerBar
<1>1. inbox[s] = <<>> /\ cur[s] = NoBar /\ unanswered[s][t] = 0
  BY DEF Init
<1>2. {i \in DOMAIN inbox[s] : inbox[s][i].start = t} = {}
  BY <1>1
<1>3. QED
  BY <1>1, <1>2, FS_EmptySet DEF InFlight

LEMMA OutcomeNext ==
    ASSUME PathTypeOK, HostTypeInv, HandsEmpty, OneOutcomePerBar, [Next]_vars
    PROVE  OneOutcomePerBar'
<1> SUFFICES ASSUME NEW s \in Symbols, NEW t \in Times
             PROVE  unanswered'[s][t] = InFlight(s, t)'
  BY DEF OneOutcomePerBar
<1>1. /\ unanswered[s][t] = InFlight(s, t)
      /\ inbox[s] \in Seq(Bar)
      /\ unanswered \in [Symbols -> [Times -> Int]]
  BY DEF OneOutcomePerBar, HostTypeInv, HostTypeOK
<1>2. Cardinality(Waiting(inbox[s], t)) \in Nat
  BY <1>1, WaitingIsFinite
<1>3. CASE /\ inbox'[s] = inbox[s] /\ cur'[s] = cur[s]
           /\ unanswered'[s] = unanswered[s]
  BY <1>1, <1>3 DEF InFlight
<1>4. CASE DispatchForward
  <2> DEFINE bar == Head(queue[Host])
  <2>1. queue[Host] \in Seq(Bar) /\ queue[Host] # <<>>
    BY <1>4, HostAssumption DEF DispatchForward, Receive, PathTypeOK
  <2>2. bar \in Bar /\ bar.symbol \in Symbols /\ bar.start \in Times
    BY <2>1, BarFields
  <2>3. /\ inbox' = [inbox EXCEPT ![bar.symbol] = Append(@, bar)]
        /\ unanswered' = [unanswered EXCEPT ![bar.symbol][bar.start] = @ + 1]
        /\ cur' = cur
    BY <1>4 DEF DispatchForward
  <2> HIDE DEF bar
  <2>4. CASE bar.symbol # s
    BY <1>1, <1>3, <2>2, <2>3, <2>4 DEF HostTypeInv, HostTypeOK
  <2>5. CASE bar.symbol = s
    <3>1. /\ inbox'[s] = Append(inbox[s], bar) /\ cur'[s] = cur[s]
          /\ unanswered'[s][t] = unanswered[s][t]
                                    + IF bar.start = t THEN 1 ELSE 0
      BY <1>1, <2>2, <2>3, <2>5 DEF HostTypeInv, HostTypeOK
    <3>2. Cardinality(Waiting(inbox'[s], t)) =
             Cardinality(Waiting(inbox[s], t)) + IF bar.start = t THEN 1 ELSE 0
      BY <1>1, <2>2, <3>1, WaitingAppend
    <3>3. InFlight(s, t)' = Cardinality(Waiting(inbox'[s], t))
                               + IF cur[s] # NoBar /\ cur[s].start = t
                                 THEN 1 ELSE 0
      BY <3>1 DEF InFlight, Waiting
    <3>4. QED
      BY <1>1, <1>2, <3>1, <3>2, <3>3, InFlightParts
  <2>6. QED
    BY <2>4, <2>5
<1>5. ASSUME NEW w \in Symbols, Take(w)
      PROVE  unanswered'[s][t] = InFlight(s, t)'
  <2>1. CASE w # s
    BY <1>3, <1>5, <2>1 DEF Take, historyVars, HostTypeInv, HostTypeOK
  <2>2. CASE w = s
    <3>1. /\ inbox[s] # <<>> /\ cur[s] = NoBar
          /\ cur'[s] = Head(inbox[s]) /\ inbox'[s] = Tail(inbox[s])
          /\ unanswered' = unanswered
      BY <1>5, <2>2 DEF Take, historyVars, HostTypeInv, HostTypeOK, HandsEmpty
    <3>2. cur'[s] # NoBar
      BY <1>1, <3>1, TailItems, BarFields
    <3>3. Cardinality(Waiting(inbox[s], t)) =
             Cardinality(Waiting(inbox'[s], t))
                + IF cur'[s].start = t THEN 1 ELSE 0
      BY <1>1, <3>1, WaitingTail
    <3>4. InFlight(s, t)' = Cardinality(Waiting(inbox'[s], t))
                               + IF cur'[s].start = t THEN 1 ELSE 0
      BY <3>2 DEF InFlight, Waiting
    <3>5. InFlight(s, t) = Cardinality(Waiting(inbox[s], t))
      BY <1>2, <3>1, InFlightParts
    <3>6. QED
      BY <1>1, <3>1, <3>3, <3>4, <3>5
  <2>3. QED
    BY <2>1, <2>2
<1>6. ASSUME NEW w \in Symbols, NEW c \in BOOLEAN, Finish(w, c),
             wpc[w] \in {"gates", "model"}
      PROVE  unanswered'[s][t] = InFlight(s, t)'
  <2>1. CASE w # s
    BY <1>1, <1>3, <1>6, <2>1
       DEF Finish, Answer, HostTypeInv, HostTypeOK
  <2>2. CASE w = s
    <3>1. cur[s] \in Bar /\ cur[s] # NoBar /\ cur[s].start \in Times
      BY <1>6, <2>2, BarFields DEF HostTypeInv, WorkerHolds
    <3>2. /\ cur'[s] = NoBar /\ inbox'[s] = inbox[s]
          /\ unanswered'[s][t] = unanswered[s][t]
                                    - IF cur[s].start = t THEN 1 ELSE 0
      BY <1>1, <1>6, <2>2, <3>1 DEF Finish, Answer, HostTypeInv, HostTypeOK
    <3>3. InFlight(s, t)' = Cardinality(Waiting(inbox[s], t))
      BY <1>2, <3>2 DEF InFlight, Waiting
    <3>4. QED
      BY <1>1, <1>2, <3>1, <3>2, <3>3, InFlightParts
  <2>3. QED
    BY <2>1, <2>2
<1>7. ASSUME NEW w \in Symbols, Worker(w)
      PROVE  unanswered'[s][t] = InFlight(s, t)'
  <2>1. CASE \/ GateSkip(w) \/ GateInputGap(w) \/ Panic(w)
             \/ ModelCommit(w) \/ ModelDecline(w)
    <3>1. wpc[w] \in {"gates", "model"} /\ \E c \in BOOLEAN : Finish(w, c)
      BY <2>1 DEF GateSkip, GateInputGap, Panic, ModelCommit, ModelDecline
    <3>2. QED
      BY <1>6, <3>1
  <2>2. CASE GateAdmit(w) \/ VolumeCommit(w) \/ VolumeRefuse(w) \/ StopWorker(w)
    BY <1>3, <2>2 DEF GateAdmit, VolumeCommit, VolumeRefuse, StopWorker,
       historyVars
  <2>3. QED
    BY <1>5, <1>7, <2>1, <2>2 DEF Worker
<1>8. CASE Dispatcher
  <2>1. CASE ~DispatchForward
    BY <1>3, <1>8, <2>1 DEF Dispatcher, Start, DispatchLatched,
       DispatchOverflow, Tick, PollSymbol, MirrorLatch, StopDispatch,
       CloseStreams, Leave, channelVars, historyVars
  <2>2. QED
    BY <1>4, <2>1
<1>9. ASSUME NEW r \in Symbols, Reset(r)
      PROVE  unanswered'[s][t] = InFlight(s, t)'
  BY <1>3, <1>9 DEF Reset, ResetEngines, ResetLatch, ResetPath, channelVars,
     historyVars
<1>10. CASE \/ \E r \in Symbols, u \in Times : Feed(r, u)
            \/ Cancel \/ UNCHANGED vars
  BY <1>3, <1>10 DEF Feed, Cancel, vars, hostVars, channelVars, historyVars
<1>11. QED
  BY <1>7, <1>8, <1>9, <1>10 DEF Next

\* Every bar the host takes off its channel is in an inbox, in a worker's
\* hand, or has had exactly one terminal event: no path through dispatch and
\* handle answers twice or not at all, panics and shutdown included.
THEOREM HostOneOutcomePerBar == Spec => []OneOutcomePerBar
<1>1. PathInv /\ HostTypeInv /\ FlowInv
        => PathTypeOK /\ HostTypeInv /\ HandsEmpty
  BY DEF PathInv, FlowInv
<1>2. PathInv /\ HostTypeInv /\ FlowInv /\ OneOutcomePerBar /\ [Next]_vars
         => OneOutcomePerBar'
  BY <1>1, OutcomeNext
<1>3. QED
  BY <1>2, FlowInvariant, OutcomeInit, PTL DEF Spec
=============================================================================

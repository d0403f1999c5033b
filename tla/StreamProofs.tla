---------------------------- MODULE StreamProofs ----------------------------
(***************************************************************************)
(* What the feed's stream and the streaming calls promise, for any number  *)
(* of sessions, symbols, requests, bars or events and any capacity.        *)
(*                                                                         *)
(* The feed.  KeepsFeedProtocol needs to know what the shared health says  *)
(* in each phase of Run: that no read loop writes the state, only the      *)
(* heartbeat figures, is what makes it true.                               *)
(*                                                                         *)
(* StreamBars.  That no bar of the windows misses the client needs to know *)
(* where it is on its way: in a producer's hand, in the channel, in the    *)
(* copy of a window.  That the newest is kept needs Pipeline.mu: from the  *)
(* first look of a fan-out to its last, only the call touches the channel. *)
(*                                                                         *)
(* StreamDecisions.  What has been sent ahead is told apart from what      *)
(* comes from the channel by id; so one needs that an event waits in the   *)
(* channel once, that a skipped id is one that was sent, and that the      *)
(* catch-up and what has been sent have nothing in common.                 *)
(***************************************************************************)
EXTENDS MCStreams, WindowStoreProofs

-----------------------------------------------------------------------------
(* The feed.                                                               *)

\* The state that Run has left in the health it shares with the read loops.
StateOfPhase ==
    /\ phase \in {"start", "pause"} => feedState = "FAILED"
    /\ phase \in {"dial", "handshake", "connected"} => feedState = "RECOVERING"
    /\ phase = "live" => feedState = "HEALTHY"

\* A session that is held has pings left to miss.
MissesLeft == phase = "live" => misses < MaxMisses

StreamInv == StreamTypeOK /\ MissesLeft /\ OneConnection /\ StateOfPhase

LEMMA ZeroCounts ==
    /\ 0 \in 0..MaxSessions /\ 0 \in 0..BackoffCap /\ 0 \in 0..MaxMisses
    /\ 0 < MaxMisses
  BY StreamAssumption

LEMMA InitStreamInv == StreamInit => StreamInv
<1> SUFFICES ASSUME StreamInit
             PROVE  StreamInv
  OBVIOUS
<1>1. StreamTypeOK
  BY ZeroCounts DEF StreamInit, StreamTypeOK
<1>2. MissesLeft /\ OneConnection /\ StateOfPhase
  BY DEF StreamInit, MissesLeft, OneConnection, StateOfPhase
<1>3. QED
  BY <1>1, <1>2 DEF StreamInv

-----------------------------------------------------------------------------
\* Run, around a session: no connection is touched.
LEMMA RunKeepsInv ==
    ASSUME StreamInv, Return \/ Attempt \/ Fail \/ Resume
    PROVE  StreamInv'
<1> USE StreamAssumption
    DEF StreamInv, StreamTypeOK, MissesLeft, OneConnection, StateOfPhase
<1>1. CASE Return
  BY <1>1 DEF Return, healthVars
<1>2. CASE Attempt
  BY <1>2 DEF Attempt, setState
<1>3. CASE Fail
  BY <1>3 DEF Fail, SessionOver, setState, healthVars
<1>4. CASE Resume
  BY <1>4 DEF Resume, Doubled, healthVars
<1>5. QED
  BY <1>1, <1>2, <1>3, <1>4

\* A session: it opens the one connection, and closes it when it ends.
LEMMA SessionKeepsInv ==
    ASSUME StreamInv,
           DialFails \/ Dialled \/ Refused \/ Subscribed \/ Live \/ SessionEnds
             \/ PingWritten \/ PingFails
    PROVE  StreamInv'
<1> USE StreamAssumption
    DEF StreamInv, StreamTypeOK, MissesLeft, OneConnection, StateOfPhase
<1>1. CASE DialFails
  BY <1>1 DEF DialFails, healthVars
<1>2. CASE Dialled
  BY <1>2 DEF Dialled, healthVars, Sessions
<1>3. CASE Refused
  BY <1>3 DEF Refused, CloseConn, healthVars
<1>4. CASE Subscribed
  BY <1>4 DEF Subscribed, recordMessage
<1>5. CASE Live
  BY <1>5, ZeroCounts DEF Live, setState
<1>6. CASE SessionEnds
  BY <1>6 DEF SessionEnds, Leave, CloseConn, healthVars
<1>7. CASE PingWritten
  BY <1>7 DEF PingWritten, recordMiss
<1>8. CASE PingFails
  <2>1. misses + 1 \in 0..MaxMisses
    BY <1>8 DEF PingFails
  <2>2. CASE misses + 1 >= MaxMisses
    BY <1>8, <2>1, <2>2 DEF PingFails, recordMiss, Leave, CloseConn
  <2>3. CASE ~(misses + 1 >= MaxMisses)
    <3>1. misses + 1 < MaxMisses
      BY <2>1, <2>3
    <3>2. QED
      BY <1>8, <2>1, <2>3, <3>1 DEF PingFails, recordMiss
  <2>4. QED
    BY <2>2, <2>3
<1>9. QED
  BY <1>1, <1>2, <1>3, <1>4, <1>5, <1>6, <1>7, <1>8

\* A read loop, of whichever session, leaves Run's variables, the connections
\* and the state of the health alone.
LEMMA ReaderStepFrame ==
    ASSUME StreamTypeOK, NEW n \in Sessions, ReaderStep(n)
    PROVE  /\ UNCHANGED <<runVars, cancelled, conn, feedState>>
           /\ reader' \in [Sessions -> {"none", "reading", "read", "sending",
                                        "ended"}]
           /\ failures' \in 0..MaxMisses
           /\ late' \in BOOLEAN
<1> USE StreamAssumption DEF StreamTypeOK, ReaderAt
<1>1. CASE ReadFails(n) \/ ReadMessage(n) \/ Sent(n) \/ SendGivesUp(n)
  BY <1>1 DEF ReadFails, ReadMessage, Sent, SendGivesUp, healthVars
<1>2. CASE Pong(n)
  BY <1>2 DEF Pong
<1>3. CASE Record(n)
  BY <1>3 DEF Record, recordMessage
<1>4. QED
  BY <1>1, <1>2, <1>3 DEF ReaderStep

LEMMA NextStreamInv == StreamInv /\ [StreamNext]_streamVars => StreamInv'
<1> SUFFICES ASSUME StreamInv, [StreamNext]_streamVars
             PROVE  StreamInv'
  OBVIOUS
<1>1. CASE RunStep \/ PingWritten \/ PingFails
  BY <1>1, RunKeepsInv, SessionKeepsInv DEF RunStep
<1>2. CASE Cancel
  BY <1>2 DEF Cancel, StreamInv, StreamTypeOK, MissesLeft, OneConnection,
              StateOfPhase, runVars, healthVars
<1>3. ASSUME NEW n \in Sessions, ReaderStep(n)
      PROVE  StreamInv'
  BY <1>3, ReaderStepFrame
  DEF StreamInv, StreamTypeOK, MissesLeft, OneConnection, StateOfPhase, runVars
<1>4. CASE UNCHANGED streamVars
  BY <1>4 DEF StreamInv, StreamTypeOK, MissesLeft, OneConnection,
              StateOfPhase, streamVars, runVars, healthVars
<1>5. QED
  BY <1>1, <1>2, <1>3, <1>4 DEF StreamNext

LEMMA StreamAlwaysInv == StreamSpec => []StreamInv
  BY InitStreamInv, NextStreamInv, PTL DEF StreamSpec

-----------------------------------------------------------------------------
\* The feed's variables keep their types; with MissesLeft, a session never
\* counts more missed pings than it tolerates (alpaca_ws.go 114-143).
THEOREM StreamTypeCorrect == StreamSpec => []StreamTypeOK
<1>1. StreamInv => StreamTypeOK
  BY DEF StreamInv
<1>2. QED
  BY <1>1, StreamAlwaysInv, PTL

\* However often the feed reconnects, at most the current session's connection
\* is open, and none outside a session (session's defer, alpaca_ws.go 84-90).
THEOREM StreamOneConnection == StreamSpec => []OneConnection
<1>1. StreamInv => OneConnection
  BY DEF StreamInv
<1>2. QED
  BY <1>1, StreamAlwaysInv, PTL

-----------------------------------------------------------------------------
\* The health as FeedHealth sees it: a step of the state, or of the figures.
LEMMA FiguresMove ==
    ASSUME StreamTypeOK, StreamTypeOK', UNCHANGED feedState
    PROVE  Feed!FeedNext \/ UNCHANGED Feed!feedVars
  BY DEF StreamTypeOK, Feed!FeedNext, Feed!Heartbeat, Feed!feedVars

LEMMA StreamStepSimulates ==
    ASSUME StreamInv, StreamInv', [StreamNext]_streamVars
    PROVE  [Feed!FeedNext]_(Feed!feedVars)
<1>1. StreamTypeOK /\ StreamTypeOK'
  BY DEF StreamInv
<1>2. CASE UNCHANGED feedState
  BY <1>1, <1>2, FiguresMove
<1>3. CASE Attempt
  BY <1>3 DEF Attempt, setState, StreamInv, StateOfPhase, Feed!FeedNext,
              Feed!Connecting
<1>4. CASE Live
  BY <1>4 DEF Live, setState, StreamInv, StateOfPhase, Feed!FeedNext,
              Feed!Connected
<1>5. CASE Fail /\ ~UNCHANGED feedState
  BY <1>5 DEF Fail, SessionOver, setState, healthVars, Feed!FeedNext, Feed!Lost
<1>6. CASE \E n \in Sessions : ReaderStep(n)
  BY <1>1, <1>2, <1>6, ReaderStepFrame
<1>7. CASE Return \/ Resume \/ DialFails \/ Dialled \/ Refused \/ Subscribed
             \/ SessionEnds \/ PingWritten \/ PingFails \/ Cancel
             \/ UNCHANGED streamVars
  BY <1>2, <1>7
  DEF Return, Resume, DialFails, Dialled, Refused, Subscribed, recordMessage,
      SessionEnds, PingWritten, PingFails, recordMiss, Cancel, healthVars,
      streamVars
<1>8. QED
  BY <1>2, <1>3, <1>4, <1>5, <1>6, <1>7 DEF StreamNext, RunStep

\* The reconnecting stream implements the health protocol that the pipeline's
\* breaker is modelled against, whatever its read loops write meanwhile.
THEOREM StreamImplementsFeed == StreamSpec => KeepsFeedProtocol
<1>1. StreamInit => Feed!FeedInit
  BY StreamAssumption DEF StreamInit, Feed!FeedInit
<1>2. StreamInv /\ StreamInv' /\ [StreamNext]_streamVars
        => [Feed!FeedNext]_(Feed!feedVars)
  BY StreamStepSimulates
<1>3. QED
  BY <1>1, <1>2, StreamAlwaysInv, PTL
  DEF StreamSpec, KeepsFeedProtocol, Feed!FeedSpec

-----------------------------------------------------------------------------
\* Channels: what is in one when something is put in or taken out.

LEMMA PutLast ==
    ASSUME NEW S, NEW q \in Seq(S), NEW x \in S
    PROVE  /\ Append(q, x) \in Seq(S) /\ Len(Append(q, x)) = Len(q) + 1
           /\ Len(q) \in Nat
           /\ ToSet(Append(q, x)) = ToSet(q) \cup {x}
<1>1. /\ Append(q, x) \in Seq(S) /\ Len(Append(q, x)) = Len(q) + 1
      /\ \A i \in 1..Len(q) : Append(q, x)[i] = q[i]
      /\ Append(q, x)[Len(q) + 1] = x
      /\ Len(q) \in Nat
  BY AppendProperties, LenProperties
<1> DEFINE r == Append(q, x)
<1>2. /\ \A e : e \in ToSet(q) <=> \E i \in 1..Len(q) : e = q[i]
      /\ \A e : e \in ToSet(r) <=> \E i \in 1..(Len(q) + 1) : e = r[i]
  <2>1. \A e : e \in ToSet(q) <=> \E i \in 1..Len(q) : e = q[i]
    BY ToSetMember
  <2>2. r \in Seq(S) /\ Len(r) = Len(q) + 1
    BY <1>1
  <2> HIDE DEF r
  <2>3. \A e : e \in ToSet(r) <=> \E i \in 1..Len(r) : e = r[i]
    BY <2>2, ToSetMember
  <2>4. QED
    BY <2>1, <2>2, <2>3
<1>3. ASSUME NEW e
      PROVE  e \in ToSet(Append(q, x)) <=> e \in ToSet(q) \/ e = x
  <2>1. CASE e \in ToSet(Append(q, x))
    <3>1. PICK i \in 1..(Len(q) + 1) : e = Append(q, x)[i]
      BY <1>2, <2>1
    <3>2. i \in 1..Len(q) \/ i = Len(q) + 1
      BY <1>1
    <3>3. QED
      BY <1>1, <1>2, <2>1, <3>1, <3>2
  <2>2. CASE e \in ToSet(q)
    <3>1. PICK i \in 1..Len(q) : e = q[i]
      BY <1>2, <2>2
    <3>2. i \in 1..(Len(q) + 1)
      BY <1>1
    <3>3. QED
      BY <1>1, <1>2, <2>2, <3>1, <3>2
  <2>3. CASE e = x
    <3>1. Len(q) + 1 \in 1..(Len(q) + 1)
      BY <1>1
    <3>2. QED
      BY <1>1, <1>2, <2>3, <3>1
  <2>4. QED
    BY <2>1, <2>2, <2>3
<1>4. QED
  BY <1>1, <1>3

LEMMA TakenFirst ==
    ASSUME NEW S, NEW q \in Seq(S), q # <<>>
    PROVE  /\ Head(q) \in S /\ Tail(q) \in Seq(S)
           /\ Len(q) \in Nat \ {0} /\ Len(Tail(q)) = Len(q) - 1
           /\ \A i \in 1..Len(Tail(q)) : Tail(q)[i] = q[i + 1]
           /\ ToSet(q) = ToSet(Tail(q)) \cup {Head(q)}
<1>1. /\ Head(q) \in S /\ Tail(q) \in Seq(S)
      /\ Len(q) \in Nat \ {0} /\ Len(Tail(q)) = Len(q) - 1
      /\ \A i \in 1..Len(Tail(q)) : Tail(q)[i] = q[i + 1]
      /\ Head(q) = q[1]
  BY HeadTailProperties, EmptySeq
<1> DEFINE r == Tail(q)
<1>2. /\ \A e : e \in ToSet(q) <=> \E i \in 1..Len(q) : e = q[i]
      /\ \A e : e \in ToSet(r) <=> \E i \in 1..Len(r) : e = r[i]
  <2>1. \A e : e \in ToSet(q) <=> \E i \in 1..Len(q) : e = q[i]
    BY ToSetMember
  <2>2. r \in Seq(S)
    BY <1>1
  <2> HIDE DEF r
  <2>3. \A e : e \in ToSet(r) <=> \E i \in 1..Len(r) : e = r[i]
    BY <2>2, ToSetMember
  <2>4. QED
    BY <2>1, <2>3
<1>3. ASSUME NEW e
      PROVE  e \in ToSet(q) <=> e \in ToSet(Tail(q)) \/ e = Head(q)
  <2>1. CASE e \in ToSet(q)
    <3>1. PICK i \in 1..Len(q) : e = q[i]
      BY <1>2, <2>1
    <3>2. i = 1 \/ (i - 1 \in 1..Len(Tail(q)) /\ (i - 1) + 1 = i)
      BY <1>1
    <3>3. QED
      BY <1>1, <1>2, <2>1, <3>1, <3>2
  <2>2. CASE e \in ToSet(Tail(q))
    <3>1. PICK i \in 1..Len(Tail(q)) : e = Tail(q)[i]
      BY <1>2, <2>2
    <3>2. i + 1 \in 1..Len(q)
      BY <1>1
    <3>3. QED
      BY <1>1, <1>2, <2>2, <3>1, <3>2
  <2>3. CASE e = Head(q)
    <3>1. 1 \in 1..Len(q)
      BY <1>1
    <3>2. QED
      BY <1>1, <1>2, <2>3, <3>1
  <2>4. QED
    BY <2>1, <2>2, <2>3
<1>4. QED
  BY <1>1, <1>3

LEMMA NothingIn ==
    ASSUME NEW S
    PROVE  <<>> \in Seq(S) /\ Len(<<>>) = 0 /\ ToSet(<<>>) = {}
  BY EmptySeq DEF ToSet
-----------------------------------------------------------------------------
\* StreamBars and the fan-out that feeds it.

\* Pipeline.mu: only one producer is between its looks at the channel.
Holding(g) == fan[g] \in {"drop", "retry"}
OneHolder == \A g, h \in Producers : Holding(g) /\ Holding(h) => g = h

\* What a producer has in hand, and what it found when it took the lock.
FanShape ==
    \A g \in Producers :
        /\ fan[g] # "idle" => offer[g] \in Snapshots
        /\ Holding(g) => Attached /\ Wants(offer[g])
        /\ fan[g] = "retry" => Room

CallShape ==
    /\ stage = "begin" => newest = NoOffer
    /\ stage \in {"begin", "subscribed"} => uncopied = asked

OwnBars == \A s \in Symbols : \A bar \in ToSet(bars[s]) : bar.symbol = s

\* A bar on its way to the client, or that has reached it, or gave way.
Underway(bar) ==
    \/ bar \in delivered \/ bar \in displaced
    \/ bar \in ToSet(channel) \/ bar \in ToSet(backlog)
    \/ \E g \in Producers : fan[g] # "idle" /\ offer[g] = bar

\* The windows that have been copied hold no wanted bar that went past the
\* call.
NoHole ==
    stage # "ended" =>
        \A s \in asked \ uncopied : \A bar \in ToSet(bars[s]) :
            Wants(bar) => Underway(bar)

BarInv ==
    /\ WindowInv /\ BarStreamTypeOK /\ OneHolder /\ FanShape /\ CallShape
    /\ NewestKept /\ OwnBars /\ NoHole

LEMMA InitBarInv == BarStreamInit => BarInv
<1> SUFFICES ASSUME BarStreamInit PROVE BarInv
  OBVIOUS
<1>1. WindowInv /\ WindowTypeOK
  BY InitWindowInv, WindowInvTyped DEF BarStreamInit
<1>2. <<>> \in Seq(Snapshots) /\ Len(<<>>) = 0 /\ ToSet(<<>>) = {}
  BY NothingIn
<1>3. BarStreamTypeOK
  <2>1. 0 \in 0..MaxOffers /\ 0 <= BarBuffer
    BY BarStreamAssumption
  <2>2. QED
    BY <1>1, <1>2, <2>1 DEF BarStreamInit, BarStreamTypeOK
<1>4. OneHolder /\ FanShape /\ CallShape /\ NewestKept
  BY DEF BarStreamInit, OneHolder, FanShape, CallShape, NewestKept, Holding
<1>5. OwnBars
  BY <1>2 DEF BarStreamInit, WindowInit, OwnBars
<1>6. NoHole
  BY DEF BarStreamInit, NoHole
<1>7. QED
  BY <1>1, <1>3, <1>4, <1>5, <1>6 DEF BarInv

\* Only Offer touches the windows.
LEMMA WindowsStill ==
    ASSUME BarInv, UNCHANGED windowVars
    PROVE  WindowInv' /\ WindowTypeOK' /\ OwnBars'
<1>1. WindowInv'
  BY NextWindowInv DEF BarInv
<1>2. WindowTypeOK'
  BY DEF BarInv, BarStreamTypeOK, windowVars, WindowTypeOK
<1>3. OwnBars'
  BY DEF BarInv, OwnBars, windowVars
<1>4. QED
  BY <1>1, <1>2, <1>3

\* The window takes a bar: it holds no other bar that it did not hold before.
LEMMA OfferKeepsBarInv ==
    ASSUME BarInv, NEW g \in Producers, Offer(g)
    PROVE  BarInv'
<1>1. PICK bar \in LiveBars \cup RestBars :
         Add(bar) /\ offer' = [offer EXCEPT ![g] = bar]
  BY DEF Offer
<1>2. /\ fan[g] = "idle" /\ offers < MaxOffers /\ offers' = offers + 1
      /\ fan' = [fan EXCEPT ![g] = "lock"]
      /\ UNCHANGED <<newest, inferClear, streamCallVars>>
  BY DEF Offer, OfferInScope
<1>3. bar \in Snapshots /\ bar.symbol \in Symbols
  BY <1>1, ArrivingBar, StartIsTime DEF Snapshots
<1>4. WindowInv' /\ WindowTypeOK'
  <2>1. WindowInv'
    BY <1>1, <1>3, AddKeepsInv DEF Snapshots, BarInv
  <2>2. QED
    BY <2>1, WindowInvTyped, PTL
<1>5. \A s \in Symbols : \A b \in ToSet(bars'[s]) :
         b \in ToSet(bars[s]) \/ (b = bar /\ s = bar.symbol)
  <2>1. ToSet(WindowWith(bar)) \subseteq ToSet(bars[bar.symbol]) \cup {bar}
    BY <1>1, <1>3, AfterAdd DEF Snapshots, Add, BarInv
  <2>2. /\ bars'[bar.symbol] = WindowWith(bar)
        /\ \A s \in Symbols : s # bar.symbol => bars'[s] = bars[s]
    BY <1>1, <1>3 DEF Add, BarInv, WindowInv
  <2>3. QED
    BY <2>1, <2>2
<1>6. /\ fan'[g] = "lock" /\ offer'[g] = bar
      /\ \A h \in Producers \ {g} : fan'[h] = fan[h] /\ offer'[h] = offer[h]
  BY <1>1, <1>2 DEF BarInv, BarStreamTypeOK
<1>7. BarStreamTypeOK'
  <2>1. BarStreamTypeOK
    BY DEF BarInv
  <2>2. offers' \in 0..MaxOffers
    BY <1>2, <2>1, BarStreamAssumption DEF BarStreamTypeOK
  <2>3. fan' \in [Producers -> {"idle", "lock", "drop", "retry"}]
    BY <1>2, <2>1 DEF BarStreamTypeOK
  <2>4. offer' \in [Producers -> Snapshots \cup {NoOffer}]
    BY <1>1, <1>3, <2>1 DEF BarStreamTypeOK
  <2>5. QED
    BY <1>2, <1>4, <2>1, <2>2, <2>3, <2>4
       DEF BarStreamTypeOK, streamCallVars, Snapshots
<1>8. OneHolder' /\ FanShape' /\ CallShape' /\ NewestKept'
  BY <1>2, <1>3, <1>6 DEF BarInv, OneHolder, FanShape, CallShape, NewestKept,
     Holding, streamCallVars, Attached, Wants, Room, Snapshots
<1>9. OwnBars'
  BY <1>5 DEF BarInv, OwnBars
<1>10. NoHole'
  <2> SUFFICES ASSUME stage # "ended", NEW s \in asked \ uncopied,
                      NEW b \in ToSet(bars'[s]), Wants(b)
               PROVE  Underway(b)'
    BY <1>2 DEF NoHole, streamCallVars, Wants
  <2>1. s \in Symbols
    BY DEF BarInv, BarStreamTypeOK
  <2>2. CASE b \in ToSet(bars[s])
    <3>1. Underway(b)
      BY <2>2 DEF BarInv, NoHole
    <3>2. \A h \in Producers : fan[h] # "idle" =>
             fan'[h] = fan[h] /\ offer'[h] = offer[h]
      BY <1>2, <1>6
    <3>3. QED
      BY <1>2, <3>1, <3>2 DEF Underway, streamCallVars
  <2>3. CASE b = bar
    BY <1>6, <2>3 DEF Underway
  <2>4. QED
    BY <1>5, <2>1, <2>2, <2>3
<1>11. QED
  BY <1>4, <1>7, <1>8, <1>9, <1>10 DEF BarInv
\* What a bar that is underway when another one moves stays.
LEMMA UnderwayStays ==
    ASSUME NEW g \in Producers, NEW bar, Underway(bar),
           delivered \subseteq delivered', displaced \subseteq displaced',
           \A b \in ToSet(channel) \cup ToSet(backlog) :
              b = bar => Underway(b)',
           \A h \in Producers \ {g} : fan'[h] = fan[h] /\ offer'[h] = offer[h],
           fan[g] # "idle" => offer[g] # bar \/ Underway(bar)'
    PROVE  Underway(bar)'
  BY DEF Underway

\* The windows and the call stand still while a producer fans out.
LEMMA FanOutFrame ==
    ASSUME BarInv, NEW g \in Producers,
           UNCHANGED <<windowVars, stage, asked, finalOnly, uncopied, backlog,
                       delivered>>,
           NEW next \in {"idle", "drop", "retry"},
           fan' = [fan EXCEPT ![g] = next],
           offer' \in {offer, [offer EXCEPT ![g] = NoOffer]},
           next # "idle" => offer' = offer
    PROVE  /\ fan'[g] = next /\ next # "idle" => offer'[g] = offer[g]
           /\ \A h \in Producers \ {g} :
                 fan'[h] = fan[h] /\ offer'[h] = offer[h]
           /\ fan' \in [Producers -> {"idle", "lock", "drop", "retry"}]
           /\ offer' \in [Producers -> Snapshots \cup {NoOffer}]
           /\ WindowInv' /\ WindowTypeOK' /\ OwnBars'
<1>1. BarStreamTypeOK /\ WindowInv' /\ WindowTypeOK' /\ OwnBars'
  BY WindowsStill DEF BarInv
<1>2. QED
  BY <1>1 DEF BarStreamTypeOK

\* With a new bar at the end of the channel, or without.
LEMMA FannedOutKeepsBarInv ==
    ASSUME BarInv, NEW g \in Producers, FannedOut(g),
           (fan[g] = "lock" /\ Free) \/ fan[g] = "retry",
           UNCHANGED <<windowVars, offers, inferClear, stage, asked, finalOnly,
                       uncopied, backlog, delivered, displaced, grpcServer>>,
           \/ Room /\ PutIn(g) /\ Attached
           \/ /\ fan[g] = "lock" /\ (~Attached \/ ~Wants(offer[g]))
              /\ UNCHANGED <<channel, newest>>
    PROVE  BarInv'
<1>1. /\ fan' = [fan EXCEPT ![g] = "idle"]
      /\ offer' = [offer EXCEPT ![g] = NoOffer]
      /\ BarStreamTypeOK
  BY DEF FannedOut, BarInv
<1>2. /\ fan'[g] = "idle"
      /\ \A h \in Producers \ {g} : fan'[h] = fan[h] /\ offer'[h] = offer[h]
      /\ fan' \in [Producers -> {"idle", "lock", "drop", "retry"}]
      /\ offer' \in [Producers -> Snapshots \cup {NoOffer}]
      /\ WindowInv' /\ WindowTypeOK' /\ OwnBars'
  BY <1>1, FanOutFrame
<1>3. /\ fan[g] # "idle" /\ offer[g] \in Snapshots
      /\ \A h \in Producers \ {g} : ~Holding(h)
  BY DEF BarInv, FanShape, Free, OneHolder, Holding
<1>4. channel \in Seq(Snapshots) /\ Len(channel) <= BarBuffer
  BY <1>1 DEF BarStreamTypeOK
<1>5. /\ channel' \in Seq(Snapshots) /\ Len(channel') <= BarBuffer
      /\ newest' \in Snapshots \cup {NoOffer}
      /\ \/ /\ UNCHANGED <<channel, newest>> /\ fan[g] = "lock"
            /\ ~Attached \/ ~Wants(offer[g])
         \/ /\ newest' = offer[g] /\ Attached
            /\ ToSet(channel') = ToSet(channel) \cup {offer[g]}
  <2>1. CASE Room /\ PutIn(g) /\ Attached
    <3>1. /\ channel' = Append(channel, offer[g]) /\ newest' = offer[g]
          /\ Len(channel) < BarBuffer
      BY <2>1 DEF PutIn, Room
    <3>2. /\ channel' \in Seq(Snapshots) /\ Len(channel') = Len(channel) + 1
          /\ Len(channel) \in Nat
          /\ ToSet(channel') = ToSet(channel) \cup {offer[g]}
      BY <1>3, <1>4, <3>1, PutLast
    <3>3. QED
      BY <1>3, <2>1, <3>1, <3>2, BarStreamAssumption
  <2>2. CASE /\ fan[g] = "lock" /\ (~Attached \/ ~Wants(offer[g]))
             /\ UNCHANGED <<channel, newest>>
    BY <1>1, <1>4, <2>2 DEF BarStreamTypeOK
  <2>3. QED
    BY <2>1, <2>2
<1>6. BarStreamTypeOK'
  BY <1>1, <1>2, <1>5 DEF BarStreamTypeOK, Snapshots
<1>7. OneHolder' /\ FanShape' /\ CallShape'
  BY <1>2, <1>3, <1>5 DEF BarInv, OneHolder, FanShape, CallShape, Holding,
     Attached, Wants, Snapshots
<1>8. NewestKept'
  <2>1. \A h \in Producers : fan'[h] # "retry"
    BY <1>2, <1>3 DEF Holding
  <2>2. CASE UNCHANGED <<channel, newest>> /\ fan[g] = "lock"
    BY <1>3, <2>1, <2>2 DEF BarInv, NewestKept, Holding
  <2>3. CASE newest' = offer[g] /\ offer[g] \in ToSet(channel')
    BY <2>1, <2>3 DEF BarInv, NewestKept
  <2>4. QED
    BY <1>5, <2>2, <2>3
<1>9. NoHole'
  <2> SUFFICES ASSUME stage # "ended", NEW s \in asked \ uncopied,
                      NEW b \in ToSet(bars[s]), Wants(b)
               PROVE  Underway(b)'
    BY DEF NoHole, Wants, windowVars
  <2>1. Underway(b)
    BY DEF BarInv, NoHole
  <2>2. stage # "begin" /\ Attached
    BY <1>1 DEF BarInv, CallShape, BarStreamTypeOK, Attached
  <2>3. offer[g] = b => b \in ToSet(channel')
    BY <1>5, <2>2
  <2>4. ToSet(channel) \subseteq ToSet(channel')
    BY <1>5
  <2>5. QED
    BY <1>2, <2>1, <2>3, <2>4, UnderwayStays DEF Underway
<1>10. QED
  BY <1>2, <1>6, <1>7, <1>8, <1>9 DEF BarInv
LEMMA FanOutKeepsBarInv ==
    ASSUME BarInv, NEW g \in Producers, FanOut(g)
    PROVE  BarInv'
<1>1. /\ fan[g] = "lock" /\ Free
      /\ UNCHANGED <<windowVars, offers, inferClear, stage, asked, finalOnly,
                     uncopied, backlog, delivered, displaced, grpcServer>>
  BY DEF FanOut
<1>2. CASE FannedOut(g)
  <2>1. \/ Room /\ PutIn(g) /\ Attached
        \/ /\ fan[g] = "lock" /\ (~Attached \/ ~Wants(offer[g]))
           /\ UNCHANGED <<channel, newest>>
    <3>1. fan' # [fan EXCEPT ![g] = "drop"]
      BY <1>2 DEF FannedOut, BarInv, BarStreamTypeOK
    <3>2. QED
      BY <1>1, <3>1 DEF FanOut
  <2>2. QED
    BY <1>1, <1>2, <2>1, FannedOutKeepsBarInv
<1>3. CASE /\ Attached /\ Wants(offer[g])
           /\ fan' = [fan EXCEPT ![g] = "drop"]
           /\ UNCHANGED <<offer, channel, newest>>
  <2>1. BarStreamTypeOK
    BY DEF BarInv
  <2>2. /\ fan'[g] = "drop"
        /\ \A h \in Producers \ {g} : fan'[h] = fan[h]
        /\ fan' \in [Producers -> {"idle", "lock", "drop", "retry"}]
        /\ WindowInv' /\ WindowTypeOK' /\ OwnBars'
    BY <1>1, <1>3, FanOutFrame
  <2>3. \A h \in Producers : ~Holding(h)
    BY <1>1 DEF Free, Holding
  <2>4. BarStreamTypeOK'
    BY <1>1, <1>3, <2>1, <2>2 DEF BarStreamTypeOK, Snapshots
  <2>5. OneHolder' /\ FanShape' /\ CallShape'
    BY <1>1, <1>3, <2>2, <2>3 DEF BarInv, OneHolder, FanShape, CallShape,
       Holding, Attached, Wants, Snapshots, Room
  <2>6. NewestKept'
    BY <1>1, <1>3, <2>2, <2>3 DEF BarInv, NewestKept, Holding, Room
  <2>7. NoHole'
    <3>1. \A b : Underway(b) => Underway(b)'
      BY <1>1, <1>3, <2>2 DEF Underway
    <3>2. QED
      BY <1>1, <3>1 DEF BarInv, NoHole, Wants, windowVars
  <2>8. QED
    BY <2>2, <2>4, <2>5, <2>6, <2>7 DEF BarInv
<1>4. QED
  BY <1>2, <1>3 DEF FanOut

\* The lock is held between the looks, so that the channel has room at the
\* last of them: nothing but the call has touched it, which only takes out.
LEMMA FanOutDropsKeepsBarInv ==
    ASSUME BarInv, NEW g \in Producers, FanOutDrops(g)
    PROVE  BarInv'
<1>1. /\ fan[g] = "drop" /\ DropOldest(g)
      /\ fan' = [fan EXCEPT ![g] = "retry"]
      /\ UNCHANGED <<windowVars, offers, offer, newest, inferClear, stage,
                     asked, finalOnly, uncopied, backlog, delivered,
                     grpcServer>>
      /\ BarStreamTypeOK
  BY DEF FanOutDrops, BarInv
<1>2. /\ fan'[g] = "retry"
      /\ \A h \in Producers \ {g} : fan'[h] = fan[h]
      /\ fan' \in [Producers -> {"idle", "lock", "drop", "retry"}]
      /\ WindowInv' /\ WindowTypeOK' /\ OwnBars'
  BY <1>1, FanOutFrame
<1>3. \A h \in Producers \ {g} : ~Holding(h)
  BY <1>1 DEF BarInv, OneHolder, Holding
<1>4. /\ channel' \in Seq(Snapshots) /\ Len(channel') < BarBuffer
      /\ displaced' \subseteq Snapshots /\ displaced \subseteq displaced'
      /\ ToSet(channel) \subseteq ToSet(channel') \cup displaced'
  <2>1. CASE channel = <<>>
    BY <1>1, <2>1, NothingIn, BarStreamAssumption
       DEF DropOldest, BarStreamTypeOK
  <2>2. CASE channel # <<>>
    <3>1. /\ channel' = Tail(channel)
          /\ displaced' = displaced \cup {Head(channel)}
          /\ channel \in Seq(Snapshots) /\ Len(channel) <= BarBuffer
          /\ displaced \subseteq Snapshots
      BY <1>1, <2>2 DEF DropOldest, BarStreamTypeOK
    <3>2. /\ Head(channel) \in Snapshots /\ Tail(channel) \in Seq(Snapshots)
          /\ Len(channel) \in Nat \ {0}
          /\ Len(Tail(channel)) = Len(channel) - 1
          /\ ToSet(channel) = ToSet(Tail(channel)) \cup {Head(channel)}
      BY <2>2, <3>1, TakenFirst
    <3>3. Len(channel) - 1 < BarBuffer
      BY <3>1, <3>2, BarStreamAssumption
    <3>4. QED
      BY <3>1, <3>2, <3>3
  <2>3. QED
    BY <2>1, <2>2
<1>5. BarStreamTypeOK'
  <2>1. Len(channel') <= BarBuffer
    <3>1. Len(channel') \in Nat
      BY <1>4, LenProperties
    <3>2. QED
      BY <1>4, <3>1, BarStreamAssumption
  <2>2. QED
    BY <1>1, <1>2, <1>4, <2>1 DEF BarStreamTypeOK, Snapshots
<1>6. OneHolder' /\ FanShape' /\ CallShape'
  BY <1>1, <1>2, <1>3, <1>4 DEF BarInv, OneHolder, FanShape, CallShape,
     Holding, Attached, Wants, Snapshots, Room
<1>7. NewestKept'
  BY <1>1, <1>2, <1>3, <1>4 DEF BarInv, NewestKept, Holding, Room
<1>8. NoHole'
  <2>1. \A b : Underway(b) => Underway(b)'
    BY <1>1, <1>2, <1>4 DEF Underway
  <2>2. QED
    BY <1>1, <2>1 DEF BarInv, NoHole, Wants, windowVars
<1>9. QED
  BY <1>2, <1>5, <1>6, <1>7, <1>8 DEF BarInv

LEMMA FanOutRetriesKeepsBarInv ==
    ASSUME BarInv, NEW g \in Producers, FanOutRetries(g)
    PROVE  BarInv'
<1>1. fan[g] = "retry" /\ Room /\ Attached
  BY DEF FanOutRetries, BarInv, FanShape, Holding
<1>2. /\ FannedOut(g) /\ PutIn(g)
      /\ UNCHANGED <<windowVars, offers, inferClear, stage, asked, finalOnly,
                     uncopied, backlog, delivered, displaced, grpcServer>>
  BY <1>1 DEF FanOutRetries
<1>3. QED
  BY <1>1, <1>2, FannedOutKeepsBarInv

-----------------------------------------------------------------------------
\* The call.

\* What a step of the call has to see to, which leaves windows and producers
\* alone.
LEMMA CallKeepsBarInv ==
    ASSUME BarInv, UNCHANGED <<windowVars, fanVars, asked, finalOnly>>,
           stage' \in {"begin", "subscribed", "catchup", "ended"},
           grpcServer' \in {"serving", "stopping", "stopped"},
           Attached /\ ~Attached' => Free,
           stage' = "begin" => stage = "begin",
           channel' \in Seq(Snapshots), Len(channel') <= Len(channel),
           uncopied' \subseteq uncopied, backlog' \in Seq(Snapshots),
           delivered' \subseteq Snapshots, displaced' = displaced,
           stage' \in {"begin", "subscribed"} =>
              stage \in {"begin", "subscribed"} /\ uncopied' = uncopied,
           Attached' =>
              \/ stage = "begin"
              \/ /\ Attached /\ delivered \subseteq delivered'
                 /\ \A b \in ToSet(channel) :
                       \/ b \in delivered' \cup ToSet(channel')
                       \/ b.symbol \notin asked,
           NoHole'
    PROVE  BarInv'
<1>1. /\ BarStreamTypeOK /\ OneHolder /\ FanShape /\ CallShape /\ NewestKept
      /\ WindowInv' /\ WindowTypeOK' /\ OwnBars'
  BY WindowsStill DEF BarInv
<1>2. /\ Len(channel) \in Nat /\ Len(channel') \in Nat
      /\ Len(channel) <= BarBuffer
  BY <1>1, LenProperties DEF BarStreamTypeOK
<1>3. BarStreamTypeOK'
  <2>1. Len(channel') <= BarBuffer
    BY <1>2, BarStreamAssumption
  <2>2. QED
    BY <1>1, <2>1 DEF BarStreamTypeOK, Snapshots, fanVars
<1>4. Room => Room'
  BY <1>2, BarStreamAssumption DEF Room
<1>5. OneHolder' /\ CallShape'
  BY <1>1 DEF OneHolder, CallShape, Holding, fanVars
<1>6. FanShape'
  <2>1. \A g \in Producers : Holding(g) => Attached'
    BY <1>1 DEF FanShape, Free, Holding
  <2>2. QED
    BY <1>1, <1>4, <2>1 DEF FanShape, Holding, Wants, Snapshots, fanVars
<1>7. NewestKept'
  <2>1. ~inferClear' /\ \A g \in Producers : fan'[g] = "retry" => Room'
    BY <1>1, <1>4 DEF NewestKept, fanVars
  <2>2. ASSUME Attached', newest # NoOffer
        PROVE  \/ newest \in delivered' \cup ToSet(channel')
               \/ newest.symbol \notin asked
               \/ \E g \in Producers : fan[g] = "retry"
    <3>1. Attached /\ delivered \subseteq delivered'
      BY <1>1, <2>2 DEF CallShape
    <3>2. \/ newest \in delivered \cup ToSet(channel)
          \/ newest.symbol \notin asked
          \/ \E g \in Producers : fan[g] = "retry"
      BY <1>1, <2>2, <3>1 DEF NewestKept, Attached
    <3>3. \A b \in ToSet(channel) : \/ b \in delivered' \cup ToSet(channel')
                                    \/ b.symbol \notin asked
      BY <1>1, <2>2 DEF CallShape
    <3>4. QED
      BY <3>1, <3>2, <3>3
  <2>3. QED
    BY <2>1, <2>2 DEF NewestKept, Attached, fanVars
<1>8. QED
  BY <1>1, <1>3, <1>5, <1>6, <1>7 DEF BarInv
LEMMA NoHoleKept ==
    ASSUME BarInv,
           UNCHANGED <<windowVars, fanVars, asked, finalOnly, displaced>>,
           stage' # "ended" => stage # "ended" /\ uncopied' = uncopied,
           delivered \subseteq delivered',
           \A b \in ToSet(channel) \cup ToSet(backlog) :
              (Wants(b) /\ b.symbol \in asked) =>
                 b \in delivered' \cup ToSet(channel') \cup ToSet(backlog')
    PROVE  NoHole'
<1> SUFFICES ASSUME stage # "ended", NEW s \in asked \ uncopied,
                    NEW b \in ToSet(bars[s]), Wants(b)
             PROVE  Underway(b)'
  BY DEF NoHole, Wants, windowVars
<1>1. Underway(b)
  BY DEF BarInv, NoHole
<1>2. b.symbol \in asked
  BY DEF BarInv, BarStreamTypeOK, OwnBars
<1>3. QED
  BY <1>1, <1>2 DEF Underway, fanVars

LEMMA CallStepKeepsBarInv == BarInv /\ StreamCallStep => BarInv'
<1> SUFFICES ASSUME BarInv, StreamCallStep PROVE BarInv'
  OBVIOUS
<1>1. BarStreamTypeOK
  BY DEF BarInv
<1>2. /\ channel \in Seq(Snapshots) /\ backlog \in Seq(Snapshots)
      /\ Len(channel) \in Nat /\ Len(channel) <= Len(channel)
      /\ delivered \subseteq Snapshots
  BY <1>1, LenProperties DEF BarStreamTypeOK
<1>3. CASE SubscribeBars
  <2>1. NoHole'
    BY <1>3, NoHoleKept DEF SubscribeBars
  <2>2. QED
    BY <1>1, <1>2, <1>3, <2>1, CallKeepsBarInv
       DEF SubscribeBars, BarStreamTypeOK, Attached
<1>4. CASE CopyWindow
  <2>1. PICK s \in uncopied : backlog' = bars[s] /\ uncopied' = uncopied \ {s}
    BY <1>4 DEF CopyWindow
  <2>2. /\ stage \in {"subscribed", "catchup"} /\ backlog = <<>>
        /\ stage' = "catchup"
        /\ UNCHANGED <<windowVars, fanVars, asked, finalOnly, channel,
                       delivered, displaced, grpcServer>>
    BY <1>4 DEF CopyWindow
  <2>3. s \in Symbols /\ bars[s] \in Seq(Snapshots)
    BY <1>1, <2>1 DEF BarInv, WindowInv, BarStreamTypeOK, Snapshots
  <2>4. NoHole'
    <3> SUFFICES ASSUME NEW r \in asked \ uncopied',
                        NEW b \in ToSet(bars[r]), Wants(b)
                 PROVE  Underway(b)'
      BY <2>2 DEF NoHole, Wants, windowVars
    <3>1. CASE r = s
      BY <2>1, <3>1 DEF Underway
    <3>2. CASE r # s
      <4>1. Underway(b)
        BY <2>1, <2>2, <3>2 DEF BarInv, NoHole
      <4>2. b \notin ToSet(backlog)
        BY <2>2, NothingIn
      <4>3. QED
        BY <2>2, <4>1, <4>2 DEF Underway, fanVars
    <3>3. QED
      BY <3>1, <3>2
  <2>5. QED
    BY <1>1, <1>2, <2>1, <2>2, <2>3, <2>4, CallKeepsBarInv
       DEF BarStreamTypeOK, Attached
<1>5. CASE SendAhead
  <2>1. /\ Head(backlog) \in Snapshots /\ Tail(backlog) \in Seq(Snapshots)
        /\ ToSet(backlog) = ToSet(Tail(backlog)) \cup {Head(backlog)}
    BY <1>2, <1>5, TakenFirst DEF SendAhead
  <2>2. /\ stage = "catchup" /\ stage' = stage /\ backlog' = Tail(backlog)
        /\ delivered' \in {delivered, delivered \cup {Head(backlog)}}
        /\ Wants(Head(backlog)) => Head(backlog) \in delivered'
        /\ UNCHANGED <<windowVars, fanVars, stage, asked, finalOnly, channel,
                       uncopied, displaced, grpcServer>>
    BY <1>5 DEF SendAhead
  <2>3. NoHole'
    BY <2>1, <2>2, NoHoleKept
  <2>4. QED
    BY <1>1, <1>2, <2>1, <2>2, <2>3, CallKeepsBarInv
       DEF BarStreamTypeOK, Attached
<1>6. CASE SendBar
  <2>1. /\ Head(channel) \in Snapshots /\ Tail(channel) \in Seq(Snapshots)
        /\ Len(Tail(channel)) = Len(channel) - 1
        /\ ToSet(channel) = ToSet(Tail(channel)) \cup {Head(channel)}
    BY <1>2, <1>6, TakenFirst DEF SendBar
  <2>2. Len(Tail(channel)) <= Len(channel)
    BY <1>2, <2>1
  <2>3. /\ stage = "catchup" /\ channel' = Tail(channel)
        /\ delivered' \in {delivered, delivered \cup {Head(channel)}}
        /\ Head(channel).symbol \in asked => Head(channel) \in delivered'
        /\ UNCHANGED <<windowVars, fanVars, stage, asked, finalOnly, uncopied,
                       backlog, displaced, grpcServer>>
    BY <1>6 DEF SendBar, WindowsSent
  <2>4. NoHole'
    BY <2>1, <2>3, NoHoleKept
  <2>5. QED
    BY <1>1, <1>2, <2>1, <2>2, <2>3, <2>4, CallKeepsBarInv
       DEF BarStreamTypeOK, Attached
<1>7. QED
  BY <1>3, <1>4, <1>5, <1>6 DEF StreamCallStep

\* The call ends, or the server goes down around it.
LEMMA EndKeepsBarInv ==
    BarInv /\ (ClientLeaves \/ CallStopped \/ SignalReceived \/ GracefulStop
                 \/ ForceStop) => BarInv'
<1> SUFFICES ASSUME BarInv,
                    \/ ClientLeaves \/ CallStopped
                    \/ SignalReceived \/ GracefulStop \/ ForceStop
             PROVE  BarInv'
  OBVIOUS
<1>1. /\ BarStreamTypeOK /\ Len(channel) \in Nat
      /\ <<>> \in Seq(Snapshots) /\ Len(<<>>) = 0
  BY NothingIn, LenProperties DEF BarInv, BarStreamTypeOK
<1>2. CASE EndStream
  <2>1. NoHole'
    BY <1>2 DEF EndStream, NoHole
  <2>2. Len(<<>>) <= Len(channel)
    BY <1>1
  <2>3. QED
    BY <1>1, <1>2, <2>1, <2>2, CallKeepsBarInv
       DEF EndStream, BarStreamTypeOK, Attached
<1>3. CASE \E from, to \in {"serving", "stopping", "stopped"} :
              GrpcServer(from, to)
           /\ (stage' = stage \/ (stage = "begin" /\ stage' = "ended"))
  <2>1. /\ grpcServer' \in {"serving", "stopping", "stopped"}
        /\ UNCHANGED <<windowVars, fanVars, asked, finalOnly, channel,
                       uncopied, backlog, delivered, displaced>>
        /\ stage' = stage \/ (stage = "begin" /\ stage' = "ended")
    BY <1>3 DEF GrpcServer
  <2>2. NoHole'
    BY <2>1, NoHoleKept
  <2>3. Len(channel) <= Len(channel)
    BY <1>1
  <2>4. QED
    BY <1>1, <2>1, <2>2, <2>3, CallKeepsBarInv DEF BarStreamTypeOK, Attached
<1>4. QED
  BY <1>2, <1>3 DEF ClientLeaves, CallStopped, SignalReceived, GracefulStop,
     ForceStop

LEMMA NextBarInv == BarInv /\ [BarStreamNext]_barStreamVars => BarInv'
<1> SUFFICES ASSUME BarInv, [BarStreamNext]_barStreamVars PROVE BarInv'
  OBVIOUS
<1>1. CASE \E g \in Producers : Offer(g) \/ FanOutStep(g)
  BY <1>1, OfferKeepsBarInv, FanOutKeepsBarInv, FanOutDropsKeepsBarInv,
     FanOutRetriesKeepsBarInv DEF FanOutStep
<1>2. CASE StreamCallStep
  BY <1>2, CallStepKeepsBarInv
<1>3. CASE \/ ClientLeaves \/ CallStopped
           \/ SignalReceived \/ GracefulStop \/ ForceStop
  BY <1>3, EndKeepsBarInv
<1>4. CASE UNCHANGED barStreamVars
  <2>1. UNCHANGED <<windowVars, fanVars, stage, asked, finalOnly, channel,
                    uncopied, backlog, delivered, displaced, grpcServer>>
    BY <1>4 DEF barStreamVars, streamCallVars
  <2>2. NoHole'
    BY <2>1, NoHoleKept
  <2>3. Len(channel) \in Nat /\ Len(channel) <= Len(channel)
    BY LenProperties DEF BarInv, BarStreamTypeOK
  <2>4. QED
    BY <2>1, <2>2, <2>3, CallKeepsBarInv DEF BarInv, BarStreamTypeOK, Attached
<1>5. QED
  BY <1>1, <1>2, <1>3, <1>4 DEF BarStreamNext

LEMMA BarAlwaysInv == BarStreamSpec => []BarInv
  BY InitBarInv, NextBarInv, PTL DEF BarStreamSpec

\* The call, its fan-out and the server around it keep their types; no window
\* and no channel grows over its limit.
THEOREM BarStreamTypeCorrect == BarStreamSpec => []BarStreamTypeOK
<1>1. BarInv => BarStreamTypeOK
  BY DEF BarInv
<1>2. QED
  BY <1>1, BarAlwaysInv, PTL

\* For any number of symbols, any capacity of the channel and any pace of the
\* client: a slow client loses old bars, never the last one, and the branch
\* that gives the newest bar up is dead (fanout, pipeline.go 181-197).
THEOREM BarStreamNewestKept == BarStreamSpec => []NewestKept
<1>1. BarInv => NewestKept
  BY DEF BarInv
<1>2. QED
  BY <1>1, BarAlwaysInv, PTL

\* However the fan-outs fall around Subscribe and the copies of the windows, a
\* client that has been sent all there is has every wanted bar the windows
\* hold, or had it displaced (StreamBars, server.go 85-135).
THEOREM BarStreamWindowReachesClient == BarStreamSpec => []WindowReachesClient
<1>1. ASSUME BarInv
      PROVE  WindowReachesClient
  <2> SUFFICES ASSUME WindowsSent, channel = <<>>,
                      \A g \in Producers : fan[g] = "idle",
                      NEW s \in asked, NEW i \in DOMAIN bars[s],
                      Wants(bars[s][i])
               PROVE  bars[s][i] \in delivered \cup displaced
    BY DEF WindowReachesClient
  <2>1. bars[s][i] \in ToSet(bars[s])
    BY DEF ToSet
  <2>2. Underway(bars[s][i])
    BY <1>1, <2>1 DEF BarInv, NoHole, WindowsSent
  <2>3. ToSet(channel) = {} /\ ToSet(backlog) = {}
    BY NothingIn DEF WindowsSent
  <2>4. QED
    BY <2>2, <2>3 DEF Underway
<1>2. QED
  BY <1>1, BarAlwaysInv, PTL

\* The fan-out and the call only read the windows: what WindowStoreProofs says
\* of them holds with both producers at work.
THEOREM BarStreamKeepsWindow == BarStreamSpec => WindowSpec
<1>1. BarStreamInit => WindowInit
  BY DEF BarStreamInit
<1>2. [BarStreamNext]_barStreamVars => [WindowNext]_windowVars
  <2> SUFFICES ASSUME [BarStreamNext]_barStreamVars
               PROVE  WindowNext \/ UNCHANGED windowVars
    OBVIOUS
  <2>1. CASE \E g \in Producers : Offer(g)
    BY <2>1 DEF Offer, WindowNext
  <2>2. CASE \E g \in Producers : FanOutStep(g)
    BY <2>2 DEF FanOutStep, FanOut, FanOutDrops, FanOutRetries
  <2>3. CASE StreamCallStep
    BY <2>3 DEF StreamCallStep, SubscribeBars, CopyWindow, SendAhead, SendBar
  <2>4. CASE ClientLeaves \/ CallStopped
    BY <2>4 DEF ClientLeaves, CallStopped, EndStream
  <2>5. CASE SignalReceived \/ GracefulStop \/ ForceStop
    BY <2>5 DEF SignalReceived, GracefulStop, ForceStop, GrpcServer
  <2>6. CASE UNCHANGED barStreamVars
    BY <2>6 DEF barStreamVars
  <2>7. QED
    BY <2>1, <2>2, <2>3, <2>4, <2>5, <2>6 DEF BarStreamNext
<1>3. QED
  BY <1>1, <1>2, PTL DEF BarStreamSpec, WindowSpec

-----------------------------------------------------------------------------
\* StreamDecisions and the part of the host that feeds it.

\* The engines number their events from one, and no event is lost from the
\* history; a call that is still sending has not reached its limit.
NumbersInScope ==
    /\ \A s \in EventSymbols : eventSeq[s] <= Len(emitted)
    /\ call # "ended" => (limit > 0 => Len(sent) < limit)

LastOfSymbol ==
    \A s \in EventSymbols : lastBySym[s] # 0 => SymbolOf(lastBySym[s]) = s

\* What is passed over has been sent, or shares the id of one that has.
SkippedWasSent == skipIds \subseteq {IdOf(p) : p \in ToSet(sent)}

\* Until LastEvents has been taken nothing is sent; after it, the last event
\* of a wanted symbol is sent, waiting or overflown.
LastUnderway ==
    /\ call \in {"begin", "subscribed"} => sent = <<>> /\ ahead = {}
    /\ call = "catchup" =>
         \A s \in wanted : lastBySym[s] # 0 =>
            \/ lastBySym[s] \in ToSet(sent) \cup overflown
            \/ lastBySym[s] \in ahead \cup ToSet(queue)
            \/ Reused(lastBySym[s])

\* An event waits once, and if it has been sent before, its id is known.
WaitsOnce ==
    /\ \A i, j \in 1..Len(queue) : queue[i] = queue[j] => i = j
    /\ ahead \cap ToSet(sent) = {}
    /\ \A p \in ToSet(queue) \cap ToSet(sent) :
          IdOf(p) \in skipIds \/ Reused(p)

SentOnce ==
    \A i, j \in 1..Len(sent) :
        (i # j /\ sent[i] = sent[j]) => Reused(sent[i])

EventInv ==
    /\ EventTypeOK /\ NumbersInScope /\ LastOfSymbol /\ SkippedWasSent
    /\ LastUnderway /\ WaitsOnce /\ SentOnce

LEMMA InitEventInv == EventInit => EventInv
<1> SUFFICES ASSUME EventInit PROVE EventInv
  OBVIOUS
<1>1. /\ \A S : <<>> \in Seq(S)
      /\ Len(<<>>) = 0 /\ ToSet(<<>>) = {} /\ 1..0 = {}
  BY EmptySeq, NothingIn
<1>2. /\ 0 \in 0..MaxEmitted /\ 1 \in 1..MaxEngines /\ 0 \in 0..0
      /\ 0 <= MaxEmitted /\ 0 <= EventBuffer
      /\ \A l \in Limits : l > 0 => 0 <= l /\ 0 < l
  BY EventAssumption
<1>3. EventTypeOK
  BY <1>1, <1>2 DEF EventInit, EventTypeOK
<1>4. NumbersInScope
  BY <1>1, <1>2 DEF EventInit, NumbersInScope
<1>5. LastOfSymbol /\ SkippedWasSent /\ LastUnderway /\ WaitsOnce /\ SentOnce
  BY <1>1 DEF EventInit, LastOfSymbol, SkippedWasSent, LastUnderway,
     WaitsOnce, SentOnce
<1>6. QED
  BY <1>3, <1>4, <1>5 DEF EventInv

-----------------------------------------------------------------------------
\* The history only grows: an event keeps its place, its id and its symbol,
\* and an id that has been used twice stays so.
LEMMA HistoryGrows ==
    ASSUME EventTypeOK, NEW e \in Event, emitted' = Append(emitted, e),
           NEW place, place = Len(emitted) + 1
    PROVE  /\ emitted' \in Seq(Event) /\ Len(emitted') = place
           /\ Len(emitted) \in Nat
           /\ \A p \in 1..Len(emitted) :
                 /\ IdOf(p)' = IdOf(p) /\ SymbolOf(p)' = SymbolOf(p)
                 /\ Reused(p) => Reused(p)'
           /\ IdOf(place)' = e.id /\ SymbolOf(place)' = e.symbol
<1>1. emitted \in Seq(Event)
  BY DEF EventTypeOK
<1>2. /\ emitted' \in Seq(Event) /\ Len(emitted') = Len(emitted) + 1
      /\ Len(emitted) \in Nat
      /\ DOMAIN emitted = 1..Len(emitted)
      /\ DOMAIN emitted' = 1..(Len(emitted) + 1)
      /\ \A p \in 1..Len(emitted) : emitted'[p] = emitted[p]
      /\ emitted'[Len(emitted) + 1] = e
  <2>1. /\ emitted' \in Seq(Event) /\ Len(emitted') = Len(emitted) + 1
        /\ \A p \in 1..Len(emitted) : emitted'[p] = emitted[p]
        /\ emitted'[Len(emitted) + 1] = e
    BY <1>1, AppendProperties
  <2>2. /\ Len(emitted) \in Nat /\ DOMAIN emitted = 1..Len(emitted)
        /\ DOMAIN emitted' = 1..Len(emitted')
    BY <1>1, <2>1, LenProperties
  <2>3. QED
    BY <2>1, <2>2
<1>3. \A p \in 1..Len(emitted) :
         IdOf(p)' = IdOf(p) /\ SymbolOf(p)' = SymbolOf(p)
  BY <1>2 DEF IdOf, SymbolOf
<1>4. 1..Len(emitted) \subseteq 1..(Len(emitted) + 1)
  BY <1>2
<1>5. ASSUME NEW p \in 1..Len(emitted), Reused(p)
      PROVE  Reused(p)'
  <2>1. PICK o \in 1..Len(emitted) :
           o # p /\ emitted[o].id = emitted[p].id
    BY <1>2, <1>5 DEF Reused, IdOf
  <2>2. o \in DOMAIN emitted' /\ emitted'[o].id = emitted'[p].id
    BY <1>2, <1>4, <2>1
  <2>3. QED
    BY <2>1, <2>2 DEF Reused, IdOf
<1>6. QED
  BY <1>2, <1>3, <1>5 DEF IdOf, SymbolOf
\* Nothing changes for what is behind in the history.
LEMMA SameHistory ==
    ASSUME emitted' = emitted
    PROVE  \A p : /\ IdOf(p)' = IdOf(p) /\ SymbolOf(p)' = SymbolOf(p)
                  /\ Reused(p)' = Reused(p)
  BY DEF IdOf, SymbolOf, Reused

-----------------------------------------------------------------------------
\* The host.

\* emit: the new event is the last of its symbol, and in the channel or noted
\* as overflown if the call listens.
LEMMA PublishKeepsEventInv ==
    ASSUME EventInv, NEW s \in EventSymbols, NEW id \in EventId,
           Publish(s, id),
           \/ eventSeq' = eventSeq
           \/ eventSeq' = [eventSeq EXCEPT ![s] = @ + 1]
    PROVE  EventInv'
<1> DEFINE e == [symbol |-> s, id |-> id]
<1>0. PICK place : place = Len(emitted) + 1
  OBVIOUS
<1>1. EventTypeOK /\ Len(emitted) < MaxEmitted /\ call # "ended"
  BY DEF EventInv, Publish, InScope
<1>2. /\ emitted' = Append(emitted, e)
      /\ lastBySym' = [lastBySym EXCEPT ![s] = place]
      /\ UNCHANGED <<engines, hostClosed, call, wanted, limit, ahead, skipIds,
                     sent>>
  BY <1>0 DEF Publish
<1>3. e \in Event
  BY DEF Event
<1>4. /\ emitted' \in Seq(Event) /\ Len(emitted') = place
      /\ Len(emitted) \in Nat /\ place \in Nat \ {0} /\ place <= MaxEmitted
      /\ \A p \in 1..Len(emitted) :
            /\ IdOf(p)' = IdOf(p) /\ SymbolOf(p)' = SymbolOf(p)
            /\ Reused(p) => Reused(p)'
      /\ SymbolOf(place)' = s
  <2>1. Len(emitted) \in Nat
    BY <1>1, LenProperties DEF EventTypeOK
  <2>2. place \in Nat \ {0} /\ place <= MaxEmitted
    BY <1>0, <1>1, <2>1, EventAssumption
  <2>3. QED
    BY <1>0, <1>1, <1>2, <1>3, <2>1, <2>2, HistoryGrows
<1> HIDE DEF e
<1>5. /\ place \in 1..place /\ place \notin 1..Len(emitted)
      /\ 1..Len(emitted) \subseteq 1..place
      /\ \A n \in 0..Len(emitted) : n # 0 => n \in 1..Len(emitted)
      /\ 0..Len(emitted) \subseteq 0..place
  BY <1>0, <1>4
<1>6. /\ queue \in Seq(1..Len(emitted)) /\ Len(queue) <= EventBuffer
      /\ sent \in Seq(1..Len(emitted))
      /\ overflown \subseteq 1..Len(emitted) /\ ahead \subseteq 1..Len(emitted)
      /\ Len(queue) \in Nat /\ Len(sent) \in Nat
      /\ ToSet(queue) \subseteq 1..Len(emitted)
      /\ ToSet(sent) \subseteq 1..Len(emitted)
      /\ DOMAIN sent = 1..Len(sent)
  BY <1>1, ToSetMember, LenProperties DEF EventTypeOK
<1>7. /\ queue' \in Seq(1..place) /\ Len(queue') <= EventBuffer
      /\ overflown' \subseteq 1..place /\ overflown \subseteq overflown'
      /\ \A i, j \in 1..Len(queue') : queue'[i] = queue'[j] => i = j
      /\ ToSet(queue) \subseteq ToSet(queue')
      /\ ToSet(queue') \subseteq ToSet(queue) \cup {place}
      /\ Listening => place \in ToSet(queue') \cup overflown'
  <2>1. queue \in Seq(1..place) /\ overflown \subseteq 1..place
    BY <1>5, <1>6, SeqMonotonic
  <2>2. CASE Listening /\ Len(queue) < EventBuffer
    <3>1. queue' = Append(queue, place) /\ overflown' = overflown
      BY <1>0, <2>2 DEF Publish
    <3>2. /\ queue' \in Seq(1..place) /\ Len(queue') = Len(queue) + 1
          /\ ToSet(queue') = ToSet(queue) \cup {place}
      BY <1>5, <2>1, <3>1, PutLast
    <3>3. /\ \A i \in 1..Len(queue) :
                queue'[i] = queue[i] /\ queue[i] \in 1..Len(emitted)
          /\ queue'[Len(queue) + 1] = place
      BY <1>5, <1>6, <2>1, <3>1, AppendProperties, ElementOfSeq
    <3>4. ASSUME NEW i \in 1..Len(queue'), NEW j \in 1..Len(queue'),
                 queue'[i] = queue'[j]
          PROVE  i = j
      <4>1. /\ i \in 1..Len(queue) \/ i = Len(queue) + 1
            /\ j \in 1..Len(queue) \/ j = Len(queue) + 1
        BY <1>6, <3>2
      <4>2. \A k \in 1..Len(queue) : queue'[k] # place
        BY <1>5, <3>3
      <4>3. i \in 1..Len(queue) /\ j \in 1..Len(queue) => i = j
        BY <3>3, <3>4 DEF EventInv, WaitsOnce
      <4>4. QED
        BY <3>3, <3>4, <4>1, <4>2, <4>3
    <3>5. Len(queue') <= EventBuffer
      BY <1>6, <2>2, <3>2, EventAssumption
    <3>6. QED
      BY <2>1, <3>1, <3>2, <3>4, <3>5
  <2>3. CASE ~(Listening /\ Len(queue) < EventBuffer)
    <3>1. /\ queue' = queue
          /\ overflown' = IF Listening THEN overflown \cup {place}
                          ELSE overflown
      BY <1>0, <2>3 DEF Publish
    <3>2. QED
      BY <1>5, <1>6, <2>1, <3>1 DEF EventInv, WaitsOnce
  <2>4. QED
    BY <2>2, <2>3
<1>8. EventTypeOK'
  <2>1. \A r \in EventSymbols : eventSeq[r] <= Len(emitted)
    BY DEF EventInv, NumbersInScope
  <2>2. eventSeq' \in [EventSymbols -> 0..MaxEmitted]
    <3>1. eventSeq \in [EventSymbols -> 0..MaxEmitted]
      BY <1>1 DEF EventTypeOK
    <3>2. eventSeq[s] + 1 \in 0..MaxEmitted
      BY <1>1, <1>4, <2>1, <3>1, EventAssumption
    <3>3. QED
      BY <3>1, <3>2
  <2>3. lastBySym' \in [EventSymbols -> 0..place]
    <3>1. lastBySym \in [EventSymbols -> 0..place] /\ place \in 0..place
      BY <1>1, <1>4, <1>5 DEF EventTypeOK
    <3>2. QED
      BY <1>2, <3>1
  <2>4. sent \in Seq(1..place) /\ ahead \subseteq 1..place
    BY <1>5, <1>6, SeqMonotonic
  <2>5. skipIds' \subseteq {IdOf(p)' : p \in 1..place}
    BY <1>1, <1>2, <1>4, <1>5 DEF EventTypeOK
  <2>6. Len(emitted') <= MaxEmitted
    BY <1>4
  <2>7. QED
    BY <1>1, <1>2, <1>4, <1>7, <2>2, <2>3, <2>4, <2>5, <2>6
       DEF EventTypeOK, Event, EventId, Places
<1>9. NumbersInScope'
  <2>1. \A r \in EventSymbols : eventSeq'[r] <= place
    <3> SUFFICES ASSUME NEW r \in EventSymbols PROVE eventSeq'[r] <= place
      OBVIOUS
    <3>1. /\ eventSeq[r] \in Nat /\ eventSeq[r] <= Len(emitted)
          /\ eventSeq'[r] \in {eventSeq[r], eventSeq[r] + 1}
      BY <1>1 DEF EventInv, NumbersInScope, EventTypeOK
    <3>2. QED
      BY <1>0, <1>4, <3>1
  <2>2. QED
    BY <1>2, <1>4, <2>1 DEF EventInv, NumbersInScope
<1>10. /\ \A r \in EventSymbols :
             lastBySym'[r] = IF r = s THEN place ELSE lastBySym[r]
       /\ \A r \in EventSymbols : lastBySym[r] \in 0..Len(emitted)
  BY <1>1, <1>2 DEF EventTypeOK
<1>11. LastOfSymbol'
  <2> SUFFICES ASSUME NEW r \in EventSymbols, NEW q, q = lastBySym'[r], q # 0
               PROVE  SymbolOf(q)' = r
    BY DEF LastOfSymbol
  <2>1. CASE r = s
    BY <1>4, <1>10, <2>1
  <2>2. CASE r # s
    <3>1. q = lastBySym[r] /\ q \in 1..Len(emitted) /\ SymbolOf(q) = r
      BY <1>5, <1>10, <2>2 DEF EventInv, LastOfSymbol
    <3>2. QED
      BY <1>4, <3>1
  <2>3. QED
    BY <2>1, <2>2
<1>12. SkippedWasSent'
  BY <1>2, <1>4, <1>6 DEF EventInv, SkippedWasSent
<1>13. LastUnderway'
  <2>1. wanted \subseteq EventSymbols
    BY <1>1 DEF EventTypeOK
  <2>2. ASSUME call = "catchup", NEW r \in wanted,
               NEW q, q = lastBySym'[r], q # 0
        PROVE  \/ q \in ToSet(sent) \cup overflown'
               \/ q \in ahead \cup ToSet(queue')
               \/ Reused(q)'
    <3>1. CASE r = s
      BY <1>7, <1>10, <2>1, <2>2, <3>1 DEF Listening
    <3>2. CASE r # s
      <4>1. q = lastBySym[r] /\ q \in 1..Len(emitted)
        BY <1>5, <1>10, <2>1, <2>2, <3>2
      <4>2. \/ q \in ToSet(sent) \cup overflown
            \/ q \in ahead \cup ToSet(queue)
            \/ Reused(q)
        BY <2>2, <4>1 DEF EventInv, LastUnderway
      <4>3. QED
        BY <1>4, <1>7, <4>1, <4>2
    <3>3. QED
      BY <3>1, <3>2
  <2>3. QED
    BY <1>2, <2>2 DEF EventInv, LastUnderway
<1>14. WaitsOnce'
  <2>1. ASSUME NEW p \in ToSet(queue') \cap ToSet(sent)
        PROVE  IdOf(p)' \in skipIds \/ Reused(p)'
    <3>1. p \in ToSet(queue) \cap ToSet(sent) /\ p \in 1..Len(emitted)
      BY <1>5, <1>6, <1>7, <2>1
    <3>2. IdOf(p) \in skipIds \/ Reused(p)
      BY <3>1 DEF EventInv, WaitsOnce
    <3>3. QED
      BY <1>4, <3>1, <3>2
  <2>2. QED
    BY <1>2, <1>7, <2>1 DEF EventInv, WaitsOnce
<1>15. SentOnce'
  <2> SUFFICES ASSUME NEW i \in 1..Len(sent), NEW j \in 1..Len(sent),
                      i # j, NEW q, q = sent[i], q = sent[j]
               PROVE  Reused(q)'
    BY <1>2 DEF SentOnce
  <2>1. q \in 1..Len(emitted)
    BY <1>6, ElementOfSeq
  <2>2. Reused(q)
    BY DEF EventInv, SentOnce
  <2>3. QED
    BY <1>4, <2>1, <2>2
<1>16. QED
  BY <1>8, <1>9, <1>11, <1>12, <1>13, <1>14, <1>15 DEF EventInv
LEMMA EmitKeepsEventInv ==
    ASSUME EventInv, NEW s \in EventSymbols,
           EmitEngineEvent(s) \/ EmitHostEvent(s)
    PROVE  EventInv'
<1>1. /\ EventTypeOK /\ Len(emitted) \in Nat
      /\ eventSeq[s] \in Nat /\ eventSeq[s] <= Len(emitted)
  BY LenProperties DEF EventInv, EventTypeOK, NumbersInScope
<1>2. CASE EmitEngineEvent(s)
  <2>1. eventSeq[s] + 1 \in Places
    BY <1>1, <1>2, EventAssumption DEF EmitEngineEvent, Publish, InScope, Places
  <2>2. [kind |-> "evt", of |-> s, n |-> eventSeq[s] + 1] \in EventId
    BY <2>1 DEF EventId
  <2>3. QED
    BY <1>2, <2>2, PublishKeepsEventInv DEF EmitEngineEvent
<1>3. CASE EmitHostEvent(s)
  <2>1. Len(emitted) + 1 \in Places
    BY <1>1, <1>3, EventAssumption DEF EmitHostEvent, Publish, InScope, Places
  <2>2. [kind |-> "host", of |-> s, n |-> Len(emitted) + 1] \in EventId
    BY <2>1 DEF EventId
  <2>3. QED
    BY <1>3, <2>2, PublishKeepsEventInv DEF EmitHostEvent
<1>4. QED
  BY <1>2, <1>3

\* A new engine counts from one again; what has been published stays.
LEMMA QuietHostKeepsEventInv ==
    ASSUME EventInv,
           \/ \E s \in EventSymbols : ResetEngine(s)
           \/ CloseHost
    PROVE  EventInv'
<1>1. /\ EventTypeOK /\ Len(emitted) \in Nat
      /\ \A r \in EventSymbols :
            eventSeq[r] \in Nat /\ eventSeq[r] <= Len(emitted)
  BY LenProperties DEF EventInv, EventTypeOK, NumbersInScope
<1>2. /\ UNCHANGED <<emitted, lastBySym, callVars>>
      /\ engines' \in [EventSymbols -> 1..MaxEngines]
      /\ hostClosed' \in BOOLEAN
      /\ eventSeq' \in [EventSymbols -> 0..MaxEmitted]
      /\ \A r \in EventSymbols : eventSeq'[r] <= Len(emitted)
  <2>1. CASE \E s \in EventSymbols : ResetEngine(s)
    <3>1. PICK s \in EventSymbols : ResetEngine(s)
      BY <2>1
    <3>2. engines[s] + 1 \in 1..MaxEngines
      BY <1>1, <3>1, EventAssumption DEF ResetEngine, EventTypeOK
    <3>3. 0 \in 0..MaxEmitted /\ 0 <= Len(emitted)
      BY <1>1, EventAssumption
    <3>4. QED
      BY <1>1, <3>1, <3>2, <3>3 DEF ResetEngine, EventTypeOK
  <2>2. CASE CloseHost
    BY <1>1, <2>2 DEF CloseHost, EventTypeOK
  <2>3. QED
    BY <2>1, <2>2
<1>3. \A p : /\ IdOf(p)' = IdOf(p) /\ SymbolOf(p)' = SymbolOf(p)
             /\ Reused(p)' = Reused(p)
  BY <1>2, SameHistory
<1>4. EventTypeOK' /\ NumbersInScope'
  BY <1>1, <1>2, <1>3 DEF EventInv, EventTypeOK, NumbersInScope, callVars
<1>5. LastOfSymbol' /\ SkippedWasSent'
  BY <1>2, <1>3 DEF EventInv, LastOfSymbol, SkippedWasSent, callVars
<1>6. LastUnderway' /\ WaitsOnce' /\ SentOnce'
  BY <1>2, <1>3 DEF EventInv, LastUnderway, WaitsOnce, SentOnce, callVars
<1>7. QED
  BY <1>4, <1>5, <1>6 DEF EventInv

-----------------------------------------------------------------------------
\* The call.

\* What Send does to what has been sent, whoever sends.
LEMMA SendSends ==
    ASSUME EventInv, NEW p \in 1..Len(emitted), call = "catchup", Send(p)
    PROVE  /\ sent' \in Seq(1..Len(emitted))
           /\ ToSet(sent') = ToSet(sent) \cup {p}
           /\ call' \in {"catchup", "ended"}
           /\ limit > 0 => Len(sent') <= limit
           /\ call' # "ended" => (limit > 0 => Len(sent') < limit)
           /\ (p \notin ToSet(sent) \/ Reused(p)) =>
                 \A i, j \in 1..Len(sent') :
                    (i # j /\ sent'[i] = sent'[j]) =>
                       \E q : q = sent'[i] /\ Reused(q)
<1>1. /\ sent' = Append(sent, p)
      /\ call' = IF limit > 0 /\ Len(sent') >= limit THEN "ended" ELSE call
  BY DEF Send, LimitReached
<1>2. /\ sent \in Seq(1..Len(emitted)) /\ limit \in Nat
      /\ limit > 0 => Len(sent) < limit
  BY EventAssumption DEF EventInv, EventTypeOK, NumbersInScope
<1>3. /\ sent' \in Seq(1..Len(emitted)) /\ Len(sent') = Len(sent) + 1
      /\ Len(sent) \in Nat
      /\ ToSet(sent') = ToSet(sent) \cup {p}
      /\ \A i \in 1..Len(sent) : sent'[i] = sent[i] /\ sent[i] \in ToSet(sent)
      /\ sent'[Len(sent) + 1] = p
  BY <1>1, <1>2, PutLast, AppendProperties, ToSetMember
<1>4. ASSUME p \notin ToSet(sent) \/ Reused(p),
             NEW i \in 1..Len(sent'), NEW j \in 1..Len(sent'),
             i # j, sent'[i] = sent'[j]
      PROVE  \E q : q = sent'[i] /\ Reused(q)
  <2>1. /\ i \in 1..Len(sent) \/ i = Len(sent) + 1
        /\ j \in 1..Len(sent) \/ j = Len(sent) + 1
    BY <1>3
  <2>2. CASE i \in 1..Len(sent) /\ j \in 1..Len(sent)
    <3>1. Reused(sent[i])
      BY <1>3, <1>4, <2>2 DEF EventInv, SentOnce
    <3>2. QED
      BY <1>3, <2>2, <3>1
  <2>3. CASE sent'[i] = p /\ p \in ToSet(sent)
    BY <1>4, <2>3
  <2>4. QED
    BY <1>3, <1>4, <2>1, <2>2, <2>3
<1>5. /\ limit > 0 => Len(sent') <= limit
      /\ ~(limit > 0 /\ Len(sent') >= limit) =>
            (limit > 0 => Len(sent') < limit)
  BY <1>2, <1>3
<1>6. QED
  BY <1>1, <1>3, <1>4, <1>5

\* What the call takes in before it sends: nothing is sent twice of it.
LEMMA BeforeSending ==
    ASSUME EventInv, SubscribeEvents \/ LastEvents \/ HostGone \/ ClientGone
    PROVE  EventInv'
<1>1. /\ EventTypeOK
      /\ UNCHANGED <<hostVars, wanted, limit, queue, skipIds, sent, overflown>>
  BY DEF EventInv, SubscribeEvents, LastEvents, HostGone, ClientGone, EndCall
<1>2. \A p : /\ IdOf(p)' = IdOf(p) /\ SymbolOf(p)' = SymbolOf(p)
             /\ Reused(p)' = Reused(p)
  BY <1>1, SameHistory DEF hostVars
<1>3. \/ UNCHANGED ahead /\ call' \in {"subscribed", "ended"}
           /\ (call' = "subscribed" => call = "begin") /\ call # "ended"
      \/ /\ call = "subscribed" /\ call' = "catchup"
         /\ ahead' = {lastBySym[s] : s \in wanted} \ {0}
  BY DEF SubscribeEvents, LastEvents, HostGone, ClientGone, EndCall, CaughtUp
<1>4. ahead' \subseteq 1..Len(emitted)
  <2>1. \A s \in wanted : lastBySym[s] = 0 \/ lastBySym[s] \in 1..Len(emitted)
    BY <1>1, LenProperties DEF EventTypeOK
  <2>2. {lastBySym[s] : s \in wanted} \ {0} \subseteq 1..Len(emitted)
    BY <2>1
  <2>3. ahead \subseteq 1..Len(emitted)
    BY <1>1 DEF EventTypeOK
  <2>4. QED
    BY <1>3, <2>2, <2>3
<1>5. EventTypeOK' /\ NumbersInScope'
  BY <1>1, <1>2, <1>3, <1>4 DEF EventInv, EventTypeOK, NumbersInScope, hostVars
<1>6. LastOfSymbol' /\ SkippedWasSent' /\ SentOnce'
  BY <1>1, <1>2 DEF EventInv, LastOfSymbol, SkippedWasSent, SentOnce, hostVars
<1>7. LastUnderway'
  BY <1>1, <1>2, <1>3 DEF EventInv, LastUnderway, hostVars
<1>8. WaitsOnce'
  <2>1. call = "subscribed" => ToSet(sent) = {}
    BY NothingIn DEF EventInv, LastUnderway
  <2>2. ahead' \cap ToSet(sent) = {}
    BY <1>3, <2>1 DEF EventInv, WaitsOnce
  <2>3. QED
    BY <1>1, <1>2, <2>2 DEF EventInv, WaitsOnce
<1>9. QED
  BY <1>5, <1>6, <1>7, <1>8 DEF EventInv
\* One of the catch-up: it is not in what has been sent, and noted for when
\* it comes out of the channel.
LEMMA CatchUpKeepsEventInv ==
    ASSUME EventInv, NEW p \in ahead, CatchUp(p)
    PROVE  EventInv'
<1>1. /\ EventTypeOK /\ call = "catchup" /\ Send(p)
      /\ ahead' = ahead \ {p} /\ skipIds' = skipIds \cup {IdOf(p)}
      /\ UNCHANGED <<hostVars, wanted, limit, queue, overflown>>
  BY DEF EventInv, CatchUp, NoteSent
<1>2. p \in 1..Len(emitted) /\ p \notin ToSet(sent)
  BY <1>1 DEF EventInv, EventTypeOK, WaitsOnce
<1>3. /\ sent' \in Seq(1..Len(emitted))
      /\ ToSet(sent') = ToSet(sent) \cup {p}
      /\ call' \in {"catchup", "ended"}
      /\ limit > 0 => Len(sent') <= limit
      /\ call' # "ended" => (limit > 0 => Len(sent') < limit)
      /\ \A i, j \in 1..Len(sent') :
            (i # j /\ sent'[i] = sent'[j]) =>
               \E q : q = sent'[i] /\ Reused(q)
  BY <1>1, <1>2, SendSends
<1>4. \A q : /\ IdOf(q)' = IdOf(q) /\ SymbolOf(q)' = SymbolOf(q)
             /\ Reused(q)' = Reused(q)
  BY <1>1, SameHistory DEF hostVars
<1>5. EventTypeOK'
  BY <1>1, <1>2, <1>3, <1>4 DEF EventTypeOK, hostVars
<1>6. NumbersInScope' /\ LastOfSymbol'
  BY <1>1, <1>3, <1>4 DEF EventInv, NumbersInScope, LastOfSymbol, hostVars
<1>7. SkippedWasSent'
  BY <1>1, <1>3, <1>4 DEF EventInv, SkippedWasSent
<1>8. LastUnderway'
  BY <1>1, <1>3, <1>4 DEF EventInv, LastUnderway, hostVars
<1>9. WaitsOnce'
  <2>1. ahead' \cap ToSet(sent') = {}
    BY <1>1, <1>3 DEF EventInv, WaitsOnce
  <2>2. \A q \in ToSet(queue) \cap ToSet(sent') :
           IdOf(q) \in skipIds' \/ Reused(q)
    BY <1>1, <1>3 DEF EventInv, WaitsOnce
  <2>3. QED
    BY <1>1, <1>4, <2>1, <2>2 DEF EventInv, WaitsOnce
<1>10. SentOnce'
  BY <1>3, <1>4 DEF SentOnce
<1>11. QED
  BY <1>5, <1>6, <1>7, <1>8, <1>9, <1>10 DEF EventInv

\* One of the channel: what is passed over has been sent, unless another
\* event has its id.
LEMMA ReceiveKeepsEventInv ==
    ASSUME EventInv, Receive
    PROVE  EventInv'
<1>1. /\ EventTypeOK /\ call = "catchup" /\ ahead = {} /\ queue # <<>>
      /\ queue' = Tail(queue)
      /\ UNCHANGED <<hostVars, wanted, limit, ahead, overflown>>
  BY DEF EventInv, Receive, CaughtUp
<1>2. PICK p : p = Head(queue)
  OBVIOUS
<1>3. \/ /\ IdOf(p) \in skipIds /\ skipIds' = skipIds \ {IdOf(p)}
         /\ UNCHANGED <<call, sent>>
      \/ /\ IdOf(p) \notin skipIds /\ skipIds' = skipIds
         /\ SymbolOf(p) \in wanted /\ Send(p)
      \/ /\ IdOf(p) \notin skipIds /\ skipIds' = skipIds
         /\ SymbolOf(p) \notin wanted /\ UNCHANGED <<call, sent>>
  BY <1>2 DEF Receive
<1>4. /\ p \in 1..Len(emitted) /\ queue' \in Seq(1..Len(emitted))
      /\ Len(queue) \in Nat \ {0} /\ Len(queue') = Len(queue) - 1
      /\ \A i \in 1..Len(queue') : queue'[i] = queue[i + 1]
      /\ ToSet(queue) = ToSet(queue') \cup {p}
      /\ queue[1] = p
  BY <1>1, <1>2, TakenFirst DEF EventTypeOK
<1>5. /\ \A i, j \in 1..Len(queue') : queue'[i] = queue'[j] => i = j
      /\ p \notin ToSet(queue')
  <2>1. /\ \A i \in 1..Len(queue') : i + 1 \in 1..Len(queue) /\ i + 1 # 1
        /\ 1 \in 1..Len(queue)
    BY <1>4
  <2>2. \A i, j \in 1..Len(queue) : queue[i] = queue[j] => i = j
    BY DEF EventInv, WaitsOnce
  <2>3. \A i \in 1..Len(queue') : queue'[i] # p
    BY <1>4, <2>1, <2>2
  <2>4. p \notin ToSet(queue')
    BY <1>4, <2>3, ToSetMember
  <2>5. ASSUME NEW i \in 1..Len(queue'), NEW j \in 1..Len(queue'),
               queue'[i] = queue'[j]
        PROVE  i = j
    <3>1. i + 1 = j + 1
      BY <1>4, <2>1, <2>2, <2>5
    <3>2. QED
      BY <1>4, <3>1
  <2>6. QED
    BY <2>4, <2>5
<1>6. /\ sent \in Seq(1..Len(emitted)) /\ limit \in Nat
      /\ limit > 0 => Len(sent) < limit
      /\ limit > 0 => Len(sent) <= limit
  BY <1>1, LenProperties, EventAssumption
     DEF EventInv, EventTypeOK, NumbersInScope
<1>7. /\ sent' \in Seq(1..Len(emitted))
      /\ \/ sent' = sent
         \/ IdOf(p) \notin skipIds /\ ToSet(sent') = ToSet(sent) \cup {p}
      /\ call' \in {"catchup", "ended"}
      /\ limit > 0 => Len(sent') <= limit
      /\ call' # "ended" => (limit > 0 => Len(sent') < limit)
      /\ \A i, j \in 1..Len(sent') :
            (i # j /\ sent'[i] = sent'[j]) =>
               \E q : q = sent'[i] /\ Reused(q)
  <2>1. CASE UNCHANGED <<call, sent>>
    BY <1>1, <1>6, <2>1 DEF EventInv, SentOnce
  <2>2. CASE IdOf(p) \notin skipIds /\ Send(p)
    <3>1. p \notin ToSet(sent) \/ Reused(p)
      BY <1>4, <2>2 DEF EventInv, WaitsOnce
    <3>2. QED
      BY <1>1, <1>4, <2>2, <3>1, SendSends
  <2>3. QED
    BY <1>3, <2>1, <2>2
<1>8. \A q : /\ IdOf(q)' = IdOf(q) /\ SymbolOf(q)' = SymbolOf(q)
             /\ Reused(q)' = Reused(q)
  BY <1>1, SameHistory DEF hostVars
<1>9. EventTypeOK'
  <2>1. Len(queue') <= EventBuffer
    BY <1>1, <1>4, EventAssumption DEF EventTypeOK
  <2>2. skipIds' \subseteq skipIds
    BY <1>3
  <2>3. QED
    BY <1>1, <1>4, <1>7, <1>8, <2>1, <2>2 DEF EventTypeOK, hostVars
<1>10. NumbersInScope' /\ LastOfSymbol'
  BY <1>1, <1>7, <1>8 DEF EventInv, NumbersInScope, LastOfSymbol, hostVars
<1>11. SkippedWasSent'
  BY <1>1, <1>3, <1>7, <1>8 DEF EventInv, SkippedWasSent
<1>12. LastUnderway'
  <2> SUFFICES ASSUME NEW s \in wanted, NEW q, q = lastBySym[s], q # 0
               PROVE  \/ q \in ToSet(sent') \cup overflown
                      \/ q \in ToSet(queue') \/ Reused(q)
    BY <1>1, <1>7, <1>8 DEF LastUnderway, hostVars
  <2>1. \/ q \in ToSet(sent) \cup overflown
        \/ q \in ToSet(queue) \/ Reused(q)
    BY <1>1 DEF EventInv, LastUnderway
  <2>2. CASE q # p
    BY <1>4, <1>7, <2>1, <2>2
  <2>3. CASE q = p
    <3>1. SymbolOf(p) \in wanted
      BY <1>1, <2>3 DEF EventInv, LastOfSymbol, EventTypeOK
    <3>2. CASE IdOf(p) \in skipIds
      <4>1. PICK o \in ToSet(sent) : IdOf(o) = IdOf(p)
        BY <3>2 DEF EventInv, SkippedWasSent
      <4>2. o \in DOMAIN emitted
        BY <1>1, <1>6, <4>1, ToSetMember, LenProperties DEF EventTypeOK
      <4>3. o = p \/ Reused(p)
        BY <4>1, <4>2 DEF Reused
      <4>4. QED
        BY <1>3, <2>3, <3>2, <4>1, <4>3
    <3>3. CASE IdOf(p) \notin skipIds
      <4>1. Send(p)
        BY <1>3, <3>1, <3>3
      <4>2. p \in ToSet(sent')
        BY <1>1, <1>4, <4>1, SendSends
      <4>3. QED
        BY <2>3, <4>2
    <3>4. QED
      BY <3>2, <3>3
  <2>4. QED
    BY <2>2, <2>3
<1>13. WaitsOnce'
  <2>1. ASSUME NEW q \in ToSet(queue') \cap ToSet(sent')
        PROVE  IdOf(q) \in skipIds' \/ Reused(q)
    <3>1. q # p /\ q \in ToSet(queue) \cap ToSet(sent)
      BY <1>4, <1>5, <1>7, <2>1
    <3>2. IdOf(q) \in skipIds \/ Reused(q)
      BY <3>1 DEF EventInv, WaitsOnce
    <3>3. p \in DOMAIN emitted /\ q \in DOMAIN emitted
      BY <1>1, <1>4, <1>6, <3>1, ToSetMember, LenProperties DEF EventTypeOK
    <3>4. IdOf(q) = IdOf(p) => Reused(q)
      BY <3>1, <3>3 DEF Reused
    <3>5. QED
      BY <1>3, <3>2, <3>4
  <2>2. QED
    BY <1>1, <1>5, <1>8, <2>1 DEF WaitsOnce
<1>14. SentOnce'
  BY <1>7, <1>8 DEF SentOnce
<1>15. QED
  BY <1>9, <1>10, <1>11, <1>12, <1>13, <1>14 DEF EventInv

LEMMA NextEventInv == EventInv /\ [EventNext]_eventVars => EventInv'
<1> SUFFICES ASSUME EventInv, [EventNext]_eventVars PROVE EventInv'
  OBVIOUS
<1>1. CASE \E s \in EventSymbols : EmitEngineEvent(s) \/ EmitHostEvent(s)
  BY <1>1, EmitKeepsEventInv
<1>2. CASE \/ \E s \in EventSymbols : ResetEngine(s)
           \/ CloseHost
  BY <1>2, QuietHostKeepsEventInv
<1>3. CASE ClientGone \/ SubscribeEvents \/ LastEvents \/ HostGone
  BY <1>3, BeforeSending
<1>4. CASE Receive \/ \E p \in ahead : CatchUp(p)
  BY <1>4, ReceiveKeepsEventInv, CatchUpKeepsEventInv
<1>5. CASE UNCHANGED eventVars
  <2>1. \A p : /\ IdOf(p)' = IdOf(p) /\ SymbolOf(p)' = SymbolOf(p)
               /\ Reused(p)' = Reused(p)
    BY <1>5, SameHistory DEF eventVars, hostVars
  <2>2. QED
    BY <1>5, <2>1 DEF EventInv, EventTypeOK, NumbersInScope, LastOfSymbol,
       SkippedWasSent, LastUnderway, WaitsOnce, SentOnce, eventVars, hostVars,
       callVars
<1>6. QED
  BY <1>1, <1>2, <1>3, <1>4, <1>5 DEF EventNext, CallStep

LEMMA EventAlwaysInv == EventSpec => []EventInv
  BY InitEventInv, NextEventInv, PTL DEF EventSpec

\* The host's history, its counters and the call keep their types; a call never
\* sends more than its limit.
THEOREM EventTypeCorrect == EventSpec => []EventTypeOK
<1>1. EventInv => EventTypeOK
  BY DEF EventInv
<1>2. QED
  BY <1>1, EventAlwaysInv, PTL

\* Wherever the emits fall around the subscription and LastEvents, and however
\* often an engine starts over: the last event of every wanted symbol reaches
\* the client and nothing is sent twice, but for a reused id
\* (StreamDecisions, decision.go 14-69).
THEOREM EventCatchUpExact == EventSpec => []CatchUpExact
<1>1. ASSUME EventInv
      PROVE  CatchUpExact
  <2>1. ASSUME CaughtUp, queue = <<>>, NEW s \in wanted, lastBySym[s] # 0
        PROVE  \/ lastBySym[s] \in ToSet(sent) \cup overflown
               \/ Reused(lastBySym[s])
    <3>1. ToSet(queue) = {}
      BY <2>1, NothingIn
    <3>2. QED
      BY <1>1, <2>1, <3>1 DEF EventInv, LastUnderway, CaughtUp
  <2>2. DOMAIN sent = 1..Len(sent)
    BY <1>1, LenProperties DEF EventInv, EventTypeOK
  <2>3. QED
    BY <1>1, <2>1, <2>2 DEF CatchUpExact, EventInv, SentOnce
<1>2. QED
  BY <1>1, EventAlwaysInv, PTL
-----------------------------------------------------------------------------
\* The three streams side by side.

LEMMA PartsKeepStill ==
    [Next]_all => /\ [StreamNext]_streamVars /\ [EventNext]_eventVars
                  /\ [BarStreamNext]_barStreamVars
  BY DEF Next, OfFeed, OfEvents, OfBars, all

\* Each stream is in a state its code can hold, at any time.
THEOREM StreamsTypeCorrect == Spec => []StreamsTypeOK
<1>1. Init => StreamInv /\ EventInv /\ BarInv
  BY InitStreamInv, InitEventInv, InitBarInv DEF Init
<1>2. StreamInv /\ EventInv /\ BarInv /\ [Next]_all
        => (StreamInv /\ EventInv /\ BarInv)'
  BY PartsKeepStill, NextStreamInv, NextEventInv, NextBarInv
<1>3. StreamInv /\ EventInv /\ BarInv => StreamsTypeOK
  BY DEF StreamInv, EventInv, BarInv, StreamsTypeOK
<1>4. QED
  BY <1>1, <1>2, <1>3, PTL DEF Spec
=============================================================================

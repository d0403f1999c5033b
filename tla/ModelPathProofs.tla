-------------------------- MODULE ModelPathProofs --------------------------
(***************************************************************************)
(* What the P-02 model path promises, for any number of symbols and        *)
(* subscribers, any capacity, any length of a minute and any history.      *)
(*                                                                         *)
(* NoSilentDrop and NothingSentPastALoss are not inductive on their own:   *)
(* both need to know where the bars sent so far lie relative to the last   *)
(* interval the path remembers and to the latest one it was ever offered.  *)
(***************************************************************************)
EXTENDS ModelPath, TLAPS

-----------------------------------------------------------------------------
\* Arithmetic of the minute grid.

LEMMA Multiple ==
    ASSUME NEW k \in Nat, NEW m \in Nat \ {0}
    PROVE  (m * k) % m = 0
  BY SMT

LEMMA GridDifference ==
    ASSUME NEW a \in Nat, NEW b \in Nat, NEW m \in Nat \ {0},
           a % m = 0, b % m = 0, a > b
    PROVE  (a - b) % m = 0
<1> DEFINE k == a \div m
           l == b \div m
<1>1. k \in Int /\ l \in Int /\ a = m * k /\ b = m * l
  BY SMT
<1> HIDE DEF k, l
<1>2. a - b = m * (k - l)
  BY <1>1, SMT
<1>3. k - l \in Nat
  BY <1>1, <1>2, SMT
<1>4. QED
  BY <1>2, <1>3, Multiple

\* On the grid, going on after an interval means nothing but starting later.
LEMMA ContinuesIsLater ==
    ASSUME NEW prev \in Times \cup {NoTime}, NEW curr \in Times
    PROVE  /\ Continues(prev, curr) => MinuteAligned(curr) /\ curr > prev
           /\ MinuteAligned(prev) /\ MinuteAligned(curr) /\ curr > prev =>
                Continues(prev, curr)
<1>1. prev \in Nat /\ curr \in Nat /\ curr # NoTime /\ curr > 0
  BY BarsAssumption DEF Times, NoTime
<1>2. Continues(prev, curr) => MinuteAligned(curr) /\ curr > prev
  BY <1>1 DEF Continues, ClassifyBarContinuity, NoTime
<1>3. ASSUME MinuteAligned(prev), MinuteAligned(curr), curr > prev
      PROVE  Continues(prev, curr)
  <2>1. (curr - prev) % Minute = 0
    BY <1>1, <1>3, GridDifference, BarsAssumption DEF MinuteAligned
  <2>2. QED
    BY <1>1, <1>3, <2>1 DEF Continues, ClassifyBarContinuity
<1>4. QED
  BY <1>2, <1>3

\* The order test of the path, and what it lets through.
LEMMA InOrderIsLater ==
    ASSUME PathTypeOK, NEW bar \in Bar, InOrder(bar)
    PROVE  /\ MinuteAligned(bar.start)
           /\ bar.start > modelLast[bar.symbol]
<1>1. /\ bar.symbol \in Symbols /\ bar.start \in Times
      /\ modelLast[bar.symbol] \in Times \cup {NoTime}
  BY DEF Bar, PathTypeOK
<1>2. QED
  BY <1>1, ContinuesIsLater DEF InOrder

-----------------------------------------------------------------------------
\* The inductive invariant.

\* The last interval sent on for a symbol is on the grid, or there is none.
LastOnGrid == \A s \in Symbols : MinuteAligned(modelLast[s])

\* Nothing was ever sent that is later than the latest interval offered.
FrontierCovers ==
    \A s \in Symbols :
        /\ modelLast[s] <= frontier[s]
        /\ \A c \in Subs : \A t \in got[c][s] : t <= frontier[s]

\* Unless the symbol is latched, nothing was sent later than the last
\* interval remembered (a latch may leave some channel one bar ahead).
SentUpToLast ==
    \A s \in Symbols, c \in Subs :
        modelDisc[s] \/ \A t \in got[c][s] : t <= modelLast[s]

\* A channel is owed nothing before it joins.
OwedOnceOpen ==
    \A c \in Subs, s \in Symbols : modelSubs[c] = "none" => owed[c][s] = {}

PathInv ==
    /\ PathTypeOK
    /\ OwedOnceOpen
    /\ LastOnGrid
    /\ FrontierCovers
    /\ SentUpToLast
    /\ NoSilentDrop
    /\ NothingSentPastALoss

\* A bar the path skips without a latch is never a new one.
LEMMA SkippedIsNotFresh ==
    ASSUME PathTypeOK, LastOnGrid, FrontierCovers,
           NEW bar \in Bar, ~InOrder(bar)
    PROVE  ~Fresh(bar)
<1>1. /\ bar.symbol \in Symbols /\ bar.start \in Times
      /\ modelLast[bar.symbol] \in Times \cup {NoTime}
      /\ frontier[bar.symbol] \in Times \cup {NoTime}
  BY DEF Bar, PathTypeOK
<1>2. SUFFICES ASSUME MinuteAligned(bar.start), bar.start > frontier[bar.symbol]
               PROVE  FALSE
  BY DEF Fresh
<1>3. bar.start > modelLast[bar.symbol]
  BY <1>1, <1>2 DEF FrontierCovers, Times, NoTime
<1>4. Continues(modelLast[bar.symbol], bar.start)
  BY <1>1, <1>2, <1>3, ContinuesIsLater DEF LastOnGrid
<1>5. QED
  BY <1>4 DEF InOrder

LEMMA PathInitInv == PathInit => PathInv
<1> SUFFICES ASSUME PathInit PROVE PathInv
  OBVIOUS
<1>1. PathTypeOK
  BY PathAssumption DEF PathInit, PathTypeOK
<1>2. MinuteAligned(NoTime)
  BY Multiple, BarsAssumption DEF MinuteAligned, NoTime
<1>3. LastOnGrid
  BY <1>2 DEF PathInit, LastOnGrid
<1>4. FrontierCovers /\ SentUpToLast /\ OwedOnceOpen
  BY DEF PathInit, FrontierCovers, SentUpToLast, OwedOnceOpen, NoTime
<1>5. NoSilentDrop /\ NothingSentPastALoss
  BY DEF PathInit, NoSilentDrop, NothingSentPastALoss, Open
<1>6. QED
  BY <1>1, <1>3, <1>4, <1>5 DEF PathInv

-----------------------------------------------------------------------------
\* What offering a bar and sending it change.

LEMMA RecordOfferEffect ==
    ASSUME PathTypeOK, NEW bar \in Bar, RecordOffer(bar)
    PROVE  /\ frontier' \in [Symbols -> Times \cup {NoTime}]
           /\ owed' \in [Subs -> [Symbols -> SUBSET Times]]
           /\ \A s \in Symbols : /\ frontier[s] \in Int /\ frontier'[s] \in Int
                                 /\ frontier[s] <= frontier'[s]
           /\ MinuteAligned(bar.start) => bar.start <= frontier'[bar.symbol]
           /\ \A c \in Subs, s \in Symbols : \A u \in owed'[c][s] :
                 \/ u \in owed[c][s]
                 \/ c \in Open /\ s = bar.symbol /\ u = bar.start /\ Fresh(bar)
<1>1. /\ bar.symbol \in Symbols /\ bar.start \in Times
      /\ frontier \in [Symbols -> Times \cup {NoTime}]
      /\ owed \in [Subs -> [Symbols -> SUBSET Times]]
      /\ bar.start \in Int
      /\ \A s \in Symbols : frontier[s] \in Int
  BY DEF Bar, PathTypeOK, Times, NoTime
<1>2. CASE Fresh(bar)
  <2>1. /\ frontier' = [frontier EXCEPT ![bar.symbol] = bar.start]
        /\ owed' = [c \in Subs |->
                      IF c \in Open
                      THEN [owed[c] EXCEPT ![bar.symbol] = @ \cup {bar.start}]
                      ELSE owed[c]]
    BY <1>2 DEF RecordOffer
  <2>2. bar.start > frontier[bar.symbol]
    BY <1>2 DEF Fresh
  <2>3. \A c \in Subs, s \in Symbols :
          \/ owed'[c][s] = owed[c][s]
          \/ /\ c \in Open /\ s = bar.symbol
             /\ owed'[c][s] = owed[c][s] \cup {bar.start}
    BY <1>1, <2>1
  <2>4. owed' \in [Subs -> [Symbols -> SUBSET Times]]
    BY <1>1, <2>1
  <2>5. frontier' \in [Symbols -> Times \cup {NoTime}]
    BY <1>1, <2>1
  <2>6. \A s \in Symbols : frontier'[s] = IF s = bar.symbol THEN bar.start
                                           ELSE frontier[s]
    BY <1>1, <2>1
  <2>7. \A s \in Symbols : /\ frontier[s] \in Int /\ frontier'[s] \in Int
                           /\ frontier[s] <= frontier'[s]
    BY <1>1, <2>2, <2>6
  <2>8. bar.start <= frontier'[bar.symbol]
    BY <1>1, <2>6
  <2>9. \A c \in Subs, s \in Symbols : \A u \in owed'[c][s] :
           u \in owed[c][s] \/ (c \in Open /\ s = bar.symbol /\ u = bar.start)
    BY <2>3
  <2>10. QED
    BY <1>2, <2>4, <2>5, <2>7, <2>8, <2>9
<1>3. CASE ~Fresh(bar)
  <2>1. frontier' = frontier /\ owed' = owed
    BY <1>3 DEF RecordOffer
  <2>2. MinuteAligned(bar.start) => bar.start <= frontier[bar.symbol]
    BY <1>1, <1>3 DEF Fresh
  <2>3. \A s \in Symbols : frontier[s] \in Int /\ frontier[s] <= frontier[s]
    <3>1. \A x \in Int : x <= x
      OBVIOUS
    <3>2. QED
      BY <1>1, <3>1, Zenon
  <2>4. QED
    BY <1>1, <1>3, <2>1, <2>2, <2>3
<1>4. QED
  BY <1>2, <1>3

LEMMA SendToEffect ==
    ASSUME PathTypeOK, NEW bar \in Bar, NEW D,
           \A c \in D : c \in Open /\ ~Full(c),
           SendTo(D, bar)
    PROVE  /\ queue' \in [Subs -> Seq(Bar)]
           /\ \A c \in Subs : Len(queue'[c]) <= Buffer
           /\ \A c \in Subs :
                 Len(queue'[c]) > Len(queue[c]) =>
                    c \in D /\ queue'[c][Len(queue'[c])] = bar
           /\ got' \in [Subs -> [Symbols -> SUBSET Times]]
           /\ \A c \in Subs, s \in Symbols : got[c][s] \subseteq got'[c][s]
           /\ \A c \in D : bar.start \in got'[c][bar.symbol]
           /\ \A c \in Subs, s \in Symbols : \A u \in got'[c][s] :
                 \/ u \in got[c][s]
                 \/ c \in D /\ s = bar.symbol /\ u = bar.start
<1>1. /\ bar.symbol \in Symbols /\ bar.start \in Times
      /\ queue \in [Subs -> Seq(Bar)]
      /\ \A c \in Subs : Len(queue[c]) <= Buffer
      /\ got \in [Subs -> [Symbols -> SUBSET Times]]
  BY DEF Bar, PathTypeOK
<1>2. ASSUME NEW c \in Subs
      PROVE  /\ queue'[c] \in Seq(Bar)
             /\ Len(queue'[c]) <= Buffer
             /\ Len(queue'[c]) > Len(queue[c]) =>
                   c \in D /\ queue'[c][Len(queue'[c])] = bar
  <2>1. CASE c \in D
    <3>1. queue'[c] = Append(queue[c], bar)
      BY <2>1 DEF SendTo
    <3>2. Len(queue[c]) < Buffer
      BY <1>1, <2>1, PathAssumption DEF Full
    <3>3. QED
      BY <1>1, <2>1, <3>1, <3>2, PathAssumption
  <2>2. CASE c \notin D
    BY <1>1, <2>2 DEF SendTo
  <2>3. QED
    BY <2>1, <2>2
<1>3. queue' \in [Subs -> Seq(Bar)]
  BY <1>2 DEF SendTo
<1>4. got' = [c \in Subs |->
                IF c \in D
                THEN [got[c] EXCEPT ![bar.symbol] = @ \cup {bar.start}]
                ELSE got[c]]
  BY DEF SendTo
<1>5. \A c \in Subs, s \in Symbols :
         \/ /\ ~(c \in D /\ s = bar.symbol)
            /\ got'[c][s] = got[c][s]
         \/ /\ c \in D /\ s = bar.symbol
            /\ got'[c][s] = got[c][s] \cup {bar.start}
  BY <1>1, <1>4
<1>6. got' \in [Subs -> [Symbols -> SUBSET Times]]
  BY <1>1, <1>4
<1>7. D \subseteq Subs
  BY DEF Open
<1>8. /\ \A c \in Subs, s \in Symbols : got[c][s] \subseteq got'[c][s]
      /\ \A c \in D : bar.start \in got'[c][bar.symbol]
      /\ \A c \in Subs, s \in Symbols : \A u \in got'[c][s] :
            u \in got[c][s] \/ (c \in D /\ s = bar.symbol /\ u = bar.start)
  BY <1>1, <1>5, <1>7
<1>9. QED
  BY <1>2, <1>3, <1>6, <1>8

-----------------------------------------------------------------------------
\* Each step keeps the invariant.

LEMMA SkipKeepsInv ==
    ASSUME PathInv, NEW bar \in Bar, FanoutSkip(bar)
    PROVE  PathInv'
<1> DEFINE b == bar.symbol
<1>1. /\ RecordOffer(bar)
      /\ modelDisc[b] \/ ~Fresh(bar)
      /\ UNCHANGED <<modelSubs, queue, modelLast, modelDisc, got>>
  BY SkippedIsNotFresh DEF FanoutSkip, PathInv
<1>2. /\ b \in Symbols /\ bar.start \in Int
      /\ \A s \in Symbols : modelLast[s] \in Int
      /\ \A c \in Subs, s \in Symbols : got[c][s] \subseteq Int
  BY DEF Bar, PathInv, PathTypeOK, Times, NoTime
<1>3. /\ PathTypeOK'
      /\ \A s \in Symbols : /\ frontier[s] \in Int /\ frontier'[s] \in Int
                            /\ frontier[s] <= frontier'[s]
      /\ \A c \in Subs, s \in Symbols : \A u \in owed'[c][s] :
            u \in owed[c][s]
               \/ (c \in Open /\ s = b /\ u = bar.start /\ Fresh(bar))
  BY <1>1, RecordOfferEffect DEF PathInv, PathTypeOK
<1> HIDE DEF b
<1>4. LastOnGrid' /\ SentUpToLast'
  BY <1>1 DEF PathInv, LastOnGrid, SentUpToLast, MinuteAligned
<1>5. FrontierCovers'
  <2>1. \A s \in Symbols : modelLast'[s] <= frontier'[s]
    BY <1>1, <1>2, <1>3 DEF PathInv, FrontierCovers
  <2>2. \A s \in Symbols, c \in Subs : \A t \in got'[c][s] : t <= frontier'[s]
    BY <1>1, <1>2, <1>3 DEF PathInv, FrontierCovers
  <2>3. QED
    BY <2>1, <2>2 DEF FrontierCovers
<1>6. NoSilentDrop'
  BY <1>1, <1>2, <1>3 DEF PathInv, NoSilentDrop, Open
<1>7. NothingSentPastALoss'
  <2>1. ASSUME NEW c \in Subs, NEW s \in Symbols,
               NEW lost \in owed'[c][s] \ got'[c][s], NEW sent \in got'[c][s]
        PROVE  sent < lost
    <3>1. CASE lost \in owed[c][s]
      BY <1>1, <2>1, <3>1 DEF PathInv, NothingSentPastALoss
    <3>2. CASE lost \notin owed[c][s]
      <4>1. s = b /\ Fresh(bar) /\ lost = bar.start
        BY <1>3, <2>1, <3>2
      <4>2. sent <= frontier[b] /\ frontier[b] < lost
        BY <1>1, <2>1, <4>1 DEF PathInv, FrontierCovers, Fresh, b
      <4>3. sent \in Int /\ frontier[b] \in Int /\ lost \in Int
        BY <1>1, <1>2, <1>3, <2>1, <4>1
      <4>4. QED
        BY <4>2, <4>3
    <3>3. QED
      BY <3>1, <3>2
  <2>2. QED
    BY <2>1 DEF NothingSentPastALoss
<1>8. OwedOnceOpen'
  BY <1>1, <1>3 DEF PathInv, PathTypeOK, OwedOnceOpen, Open
<1>9. QED
  BY <1>3, <1>4, <1>5, <1>6, <1>7, <1>8 DEF PathInv

LEMMA DeliverKeepsInv ==
    ASSUME PathInv, NEW bar \in Bar, FanoutDeliver(bar)
    PROVE  PathInv'
<1> DEFINE b == bar.symbol
<1>1. /\ RecordOffer(bar) /\ SendTo(Open, bar)
      /\ ~modelDisc[b]
      /\ MinuteAligned(bar.start)
      /\ bar.start > modelLast[b]
      /\ modelLast' = [modelLast EXCEPT ![b] = bar.start]
      /\ UNCHANGED <<modelSubs, modelDisc>>
  BY InOrderIsLater DEF FanoutDeliver, PathInv
<1>2. /\ b \in Symbols /\ bar.start \in Times /\ bar.start \in Int
      /\ modelLast \in [Symbols -> Times \cup {NoTime}]
      /\ \A s \in Symbols : modelLast[s] \in Int
      /\ \A c \in Subs, s \in Symbols : got[c][s] \subseteq Int
  BY DEF Bar, PathInv, PathTypeOK, Times, NoTime
<1>3. /\ frontier' \in [Symbols -> Times \cup {NoTime}]
      /\ owed' \in [Subs -> [Symbols -> SUBSET Times]]
      /\ \A s \in Symbols : /\ frontier[s] \in Int /\ frontier'[s] \in Int
                            /\ frontier[s] <= frontier'[s]
      /\ bar.start <= frontier'[b]
      /\ \A c \in Subs, s \in Symbols : \A u \in owed'[c][s] :
            u \in owed[c][s]
               \/ (c \in Open /\ s = b /\ u = bar.start /\ Fresh(bar))
  BY <1>1, RecordOfferEffect DEF PathInv
<1>4. /\ queue' \in [Subs -> Seq(Bar)]
      /\ \A c \in Subs : Len(queue'[c]) <= Buffer
      /\ got' \in [Subs -> [Symbols -> SUBSET Times]]
      /\ \A c \in Subs, s \in Symbols : got[c][s] \subseteq got'[c][s]
      /\ \A c \in Open : bar.start \in got'[c][b]
      /\ \A c \in Subs, s \in Symbols : \A u \in got'[c][s] :
            u \in got[c][s] \/ (c \in Open /\ s = b /\ u = bar.start)
  <2>1. \A c \in Open : c \in Open /\ ~Full(c)
    BY DEF FanoutDeliver
  <2>2. QED
    BY <1>1, <2>1, SendToEffect DEF PathInv
<1> HIDE DEF b
<1>5. /\ modelLast' \in [Symbols -> Times \cup {NoTime}]
      /\ modelLast'[b] = bar.start
      /\ \A s \in Symbols \ {b} : modelLast'[s] = modelLast[s]
  BY <1>1, <1>2
<1>6. PathTypeOK'
  BY <1>1, <1>3, <1>4, <1>5 DEF PathInv, PathTypeOK
<1>7. LastOnGrid'
  BY <1>1, <1>2, <1>5 DEF PathInv, LastOnGrid, MinuteAligned
<1>8. FrontierCovers'
  <2>1. \A s \in Symbols : modelLast'[s] <= frontier'[s]
    BY <1>2, <1>3, <1>5 DEF PathInv, FrontierCovers
  <2>2. ASSUME NEW s \in Symbols, NEW c \in Subs, NEW t \in got'[c][s]
        PROVE  t <= frontier'[s]
    <3>1. CASE t \in got[c][s]
      <4>1. t \in Int /\ t <= frontier[s]
        BY <1>2, <3>1 DEF PathInv, FrontierCovers
      <4>2. QED
        BY <1>3, <4>1
    <3>2. CASE t \notin got[c][s]
      BY <1>3, <1>4, <2>2, <3>2
    <3>3. QED
      BY <3>1, <3>2
  <2>3. QED
    BY <2>1, <2>2 DEF FrontierCovers
<1>9. SentUpToLast'
  <2>1. ASSUME NEW s \in Symbols, NEW c \in Subs, ~modelDisc'[s],
               NEW t \in got'[c][s]
        PROVE  t <= modelLast'[s]
    <3>1. CASE s = b /\ t \in got[c][b]
      <4>1. t <= modelLast[b] /\ t \in Int
        BY <1>1, <1>2, <3>1 DEF PathInv, SentUpToLast
      <4>2. QED
        BY <1>1, <1>2, <1>5, <3>1, <4>1
    <3>2. CASE s = b /\ t \notin got[c][b]
      BY <1>2, <1>4, <1>5, <2>1, <3>2
    <3>3. CASE s # b
      BY <1>1, <1>4, <1>5, <2>1, <3>3 DEF PathInv, SentUpToLast
    <3>4. QED
      BY <3>1, <3>2, <3>3
  <2>2. QED
    BY <2>1 DEF SentUpToLast
<1>10. NoSilentDrop'
  <2>1. ASSUME NEW c \in Open', NEW s \in Symbols, ~modelDisc'[s],
               NEW u \in owed'[c][s]
        PROVE  u \in got'[c][s]
    <3>1. c \in Open /\ c \in Subs /\ ~modelDisc[s]
      BY <1>1, <2>1 DEF Open
    <3>2. CASE u \in owed[c][s]
      BY <1>4, <3>1, <3>2 DEF PathInv, NoSilentDrop
    <3>3. CASE u \notin owed[c][s]
      BY <1>3, <1>4, <2>1, <3>1, <3>3
    <3>4. QED
      BY <3>2, <3>3
  <2>2. QED
    BY <2>1 DEF NoSilentDrop
<1>11. NothingSentPastALoss'
  <2>1. ASSUME NEW c \in Subs, NEW s \in Symbols,
               NEW lost \in owed'[c][s] \ got'[c][s], NEW sent \in got'[c][s]
        PROVE  sent < lost
    <3>1. CASE c \in Open /\ s = b
      <4>1. owed[c][b] \subseteq got[c][b]
        BY <1>1, <1>2, <3>1 DEF PathInv, NoSilentDrop
      <4>2. CASE lost \in owed[c][b]
        BY <1>2, <1>4, <2>1, <3>1, <4>1, <4>2
      <4>3. CASE lost \notin owed[c][b]
        BY <1>2, <1>3, <1>4, <2>1, <3>1, <4>3
      <4>4. QED
        BY <4>2, <4>3
    <3>2. CASE ~(c \in Open /\ s = b)
      BY <1>2, <1>3, <1>4, <2>1, <3>2 DEF PathInv, NothingSentPastALoss
    <3>3. QED
      BY <3>1, <3>2
  <2>2. QED
    BY <2>1 DEF NothingSentPastALoss
<1>12. OwedOnceOpen'
  BY <1>1, <1>3 DEF PathInv, PathTypeOK, OwedOnceOpen, Open
<1>13. QED
  BY <1>6, <1>7, <1>8, <1>9, <1>10, <1>11, <1>12 DEF PathInv

LEMMA OverflowKeepsInv ==
    ASSUME PathInv, NEW bar \in Bar, FanoutOverflow(bar)
    PROVE  PathInv'
<1> DEFINE b == bar.symbol
<1>1. PICK D \in SUBSET {c \in Open : ~Full(c)} : SendTo(D, bar)
  BY DEF FanoutOverflow
<1>2. /\ RecordOffer(bar)
      /\ ~modelDisc[b]
      /\ MinuteAligned(bar.start)
      /\ bar.start > modelLast[b]
      /\ modelDisc' = [modelDisc EXCEPT ![b] = TRUE]
      /\ UNCHANGED <<modelSubs, modelLast>>
  BY InOrderIsLater DEF FanoutOverflow, LatchPath, PathInv
<1>3. /\ b \in Symbols /\ bar.start \in Times /\ bar.start \in Int
      /\ \A s \in Symbols : modelLast[s] \in Int
      /\ modelDisc \in [Symbols -> BOOLEAN]
      /\ \A c \in Subs, s \in Symbols : got[c][s] \subseteq Int
  BY DEF Bar, PathInv, PathTypeOK, Times, NoTime
<1>4. /\ frontier' \in [Symbols -> Times \cup {NoTime}]
      /\ owed' \in [Subs -> [Symbols -> SUBSET Times]]
      /\ \A s \in Symbols : /\ frontier[s] \in Int /\ frontier'[s] \in Int
                            /\ frontier[s] <= frontier'[s]
      /\ bar.start <= frontier'[b]
      /\ \A c \in Subs, s \in Symbols : \A u \in owed'[c][s] :
            u \in owed[c][s]
               \/ (c \in Open /\ s = b /\ u = bar.start /\ Fresh(bar))
  BY <1>2, RecordOfferEffect DEF PathInv
<1>5. /\ queue' \in [Subs -> Seq(Bar)]
      /\ \A c \in Subs : Len(queue'[c]) <= Buffer
      /\ got' \in [Subs -> [Symbols -> SUBSET Times]]
      /\ \A c \in Subs, s \in Symbols : got[c][s] \subseteq got'[c][s]
      /\ \A c \in D : bar.start \in got'[c][b]
      /\ \A c \in Subs, s \in Symbols : \A u \in got'[c][s] :
            u \in got[c][s] \/ (c \in D /\ s = b /\ u = bar.start)
  <2>1. \A c \in D : c \in Open /\ ~Full(c)
    BY <1>1
  <2>2. QED
    BY <1>1, <2>1, SendToEffect DEF PathInv
<1> HIDE DEF b
<1>6. /\ modelDisc' \in [Symbols -> BOOLEAN]
      /\ modelDisc'[b]
      /\ \A s \in Symbols \ {b} : modelDisc'[s] = modelDisc[s]
  BY <1>2, <1>3
<1>7. PathTypeOK'
  BY <1>2, <1>4, <1>5, <1>6 DEF PathInv, PathTypeOK
<1>8. LastOnGrid'
  BY <1>2 DEF PathInv, LastOnGrid, MinuteAligned
<1>9. FrontierCovers'
  <2>1. \A s \in Symbols : modelLast'[s] <= frontier'[s]
    BY <1>2, <1>3, <1>4 DEF PathInv, FrontierCovers
  <2>2. ASSUME NEW s \in Symbols, NEW c \in Subs, NEW t \in got'[c][s]
        PROVE  t <= frontier'[s]
    <3>1. CASE t \in got[c][s]
      <4>1. t \in Int /\ t <= frontier[s]
        BY <1>3, <3>1 DEF PathInv, FrontierCovers
      <4>2. QED
        BY <1>4, <4>1
    <3>2. CASE t \notin got[c][s]
      BY <1>4, <1>5, <2>2, <3>2
    <3>3. QED
      BY <3>1, <3>2
  <2>3. QED
    BY <2>1, <2>2 DEF FrontierCovers
<1>10. SentUpToLast'
  BY <1>2, <1>5, <1>6 DEF PathInv, SentUpToLast
<1>11. NoSilentDrop'
  BY <1>2, <1>4, <1>5, <1>6 DEF PathInv, NoSilentDrop, Open
<1>12. NothingSentPastALoss'
  <2>1. ASSUME NEW c \in Subs, NEW s \in Symbols,
               NEW lost \in owed'[c][s] \ got'[c][s], NEW sent \in got'[c][s]
        PROVE  sent < lost
    <3>1. CASE c \in Open /\ s = b
      <4>1. owed[c][b] \subseteq got[c][b]
        BY <1>2, <1>3, <3>1 DEF PathInv, NoSilentDrop
      <4>2. lost = bar.start /\ c \notin D
        <5>1. lost \notin got[c][b]
          BY <1>3, <1>5, <2>1, <3>1
        <5>2. lost = bar.start
          BY <1>3, <1>4, <2>1, <3>1, <4>1, <5>1
        <5>3. QED
          BY <1>5, <2>1, <3>1, <5>2
      <4>3. sent \in got[c][b]
        BY <1>5, <2>1, <3>1, <4>2
      <4>4. sent <= modelLast[b] /\ sent \in Int
        BY <1>2, <1>3, <4>3 DEF PathInv, SentUpToLast
      <4>5. QED
        BY <1>2, <1>3, <4>2, <4>4
    <3>2. CASE ~(c \in Open /\ s = b)
      <4>1. c \in D => c \in Open
        BY <1>1
      <4>2. QED
        BY <1>3, <1>4, <1>5, <2>1, <3>2, <4>1 DEF PathInv, NothingSentPastALoss
    <3>3. QED
      BY <3>1, <3>2
  <2>2. QED
    BY <2>1 DEF NothingSentPastALoss
<1>13. OwedOnceOpen'
  BY <1>2, <1>4 DEF PathInv, PathTypeOK, OwedOnceOpen, Open
<1>14. QED
  BY <1>7, <1>8, <1>9, <1>10, <1>11, <1>12, <1>13 DEF PathInv

LEMMA FanoutKeepsInv ==
    ASSUME PathInv, NEW bar \in Bar, FanoutModel(bar)
    PROVE  PathInv'
  BY SkipKeepsInv, DeliverKeepsInv, OverflowKeepsInv DEF FanoutModel

LEMMA SubscriptionKeepsInv ==
    ASSUME PathInv, NEW c \in Subs, SubscribeModelBars(c) \/ Unsubscribe(c)
    PROVE  PathInv'
<1>1. /\ modelSubs' \in [Subs -> {"none", "open", "closed"}]
      /\ UNCHANGED <<queue, modelLast, modelDisc, frontier, owed, got>>
  BY DEF SubscribeModelBars, Unsubscribe, PathInv, PathTypeOK
<1>2. PathTypeOK' /\ LastOnGrid' /\ FrontierCovers' /\ SentUpToLast'
  BY <1>1 DEF PathInv, PathTypeOK, LastOnGrid, FrontierCovers, SentUpToLast,
              MinuteAligned
<1>3. NothingSentPastALoss'
  BY <1>1 DEF PathInv, NothingSentPastALoss
<1>4. NoSilentDrop'
  <2>1. CASE Unsubscribe(c)
    BY <1>1, <2>1 DEF Unsubscribe, PathInv, PathTypeOK, NoSilentDrop, Open
  <2>2. CASE SubscribeModelBars(c)
    BY <1>1, <2>2 DEF SubscribeModelBars, PathInv, PathTypeOK, NoSilentDrop,
                      OwedOnceOpen, Open
  <2>3. QED
    BY <2>1, <2>2
<1>5. OwedOnceOpen'
  BY <1>1 DEF SubscribeModelBars, Unsubscribe, PathInv, PathTypeOK, OwedOnceOpen
<1>6. QED
  BY <1>2, <1>3, <1>4, <1>5 DEF PathInv

LEMMA ReceiveKeepsInv ==
    ASSUME PathInv, NEW c \in Subs, Receive(c)
    PROVE  PathInv'
<1>1. /\ queue' = [queue EXCEPT ![c] = Tail(@)]
      /\ queue[c] # <<>>
      /\ UNCHANGED <<modelSubs, modelLast, modelDisc, frontier, owed, got>>
  BY DEF Receive
<1>2. queue' \in [Subs -> Seq(Bar)] /\ \A d \in Subs : Len(queue'[d]) <= Buffer
  BY <1>1, PathAssumption DEF PathInv, PathTypeOK
<1>3. PathTypeOK' /\ LastOnGrid' /\ FrontierCovers' /\ SentUpToLast'
  BY <1>1, <1>2 DEF PathInv, PathTypeOK, LastOnGrid, FrontierCovers,
                    SentUpToLast, MinuteAligned
<1>4. NoSilentDrop' /\ NothingSentPastALoss' /\ OwedOnceOpen'
  BY <1>1 DEF PathInv, NoSilentDrop, NothingSentPastALoss, OwedOnceOpen, Open
<1>5. QED
  BY <1>3, <1>4 DEF PathInv

LEMMA ResetKeepsInv ==
    ASSUME PathInv, NEW s \in Symbols, ResetModelPath(s)
    PROVE  PathInv'
<1>1. /\ modelDisc' = [modelDisc EXCEPT ![s] = FALSE]
      /\ modelLast' = [modelLast EXCEPT ![s] = NoTime]
      /\ owed' = [c \in Subs |-> [owed[c] EXCEPT ![s] = {}]]
      /\ got' = [c \in Subs |-> [got[c] EXCEPT ![s] = {}]]
      /\ UNCHANGED <<modelSubs, queue, frontier>>
  BY DEF ResetModelPath
<1>2. PathTypeOK'
  BY <1>1 DEF PathInv, PathTypeOK
<1>3. /\ \A r \in Symbols \ {s} : /\ modelDisc'[r] = modelDisc[r]
                                  /\ modelLast'[r] = modelLast[r]
      /\ modelLast'[s] = NoTime
      /\ \A c \in Subs : owed'[c][s] = {} /\ got'[c][s] = {}
      /\ \A c \in Subs, r \in Symbols \ {s} :
            owed'[c][r] = owed[c][r] /\ got'[c][r] = got[c][r]
  BY <1>1 DEF PathInv, PathTypeOK
<1>4. LastOnGrid'
  <2>1. MinuteAligned(NoTime)
    BY Multiple, BarsAssumption DEF MinuteAligned, NoTime
  <2>2. QED
    BY <1>3, <2>1 DEF PathInv, LastOnGrid, MinuteAligned
<1>5. FrontierCovers'
  <2>1. NoTime <= frontier[s]
    BY DEF PathInv, PathTypeOK, Times, NoTime
  <2>2. QED
    BY <1>1, <1>3, <2>1 DEF PathInv, FrontierCovers
<1>6. SentUpToLast'
  BY <1>3 DEF PathInv, SentUpToLast
<1>7. NoSilentDrop'
  <2>1. ASSUME NEW c \in Open', NEW r \in Symbols
        PROVE  owed'[c][r] \subseteq got'[c][r] \/ modelDisc'[r]
    <3>1. c \in Open /\ c \in Subs
      BY <1>1 DEF Open
    <3>2. CASE r = s
      BY <1>3, <3>1, <3>2
    <3>3. CASE r # s
      BY <1>3, <3>1, <3>3 DEF PathInv, NoSilentDrop
    <3>4. QED
      BY <3>2, <3>3
  <2>2. QED
    BY <2>1 DEF NoSilentDrop
<1>8. NothingSentPastALoss'
  BY <1>3 DEF PathInv, NothingSentPastALoss
<1>9. OwedOnceOpen'
  BY <1>1, <1>3 DEF PathInv, OwedOnceOpen
<1>10. QED
  BY <1>2, <1>4, <1>5, <1>6, <1>7, <1>8, <1>9 DEF PathInv

LEMMA PathNextInv == PathInv /\ [PathNext]_pathVars => PathInv'
<1> SUFFICES ASSUME PathInv, [PathNext]_pathVars PROVE PathInv'
  OBVIOUS
<1>1. CASE \E c \in Subs : SubscribeModelBars(c) \/ Unsubscribe(c) \/ Receive(c)
  BY <1>1, SubscriptionKeepsInv, ReceiveKeepsInv
<1>2. CASE \E bar \in Bar : FanoutModel(bar)
  BY <1>2, FanoutKeepsInv
<1>3. CASE \E s \in Symbols : ResetModelPath(s)
  BY <1>3, ResetKeepsInv
<1>4. CASE UNCHANGED pathVars
  BY <1>4 DEF pathVars, PathInv, PathTypeOK, LastOnGrid, FrontierCovers,
              SentUpToLast, NoSilentDrop, NothingSentPastALoss,
              OwedOnceOpen, Open, MinuteAligned
<1>5. QED
  BY <1>1, <1>2, <1>3, <1>4 DEF PathNext

-----------------------------------------------------------------------------
\* The results.

\* The path's variables keep their types and no channel outgrows its capacity.
THEOREM PathTypeCorrect == PathSpec => []PathTypeOK
<1>1. PathInv => PathTypeOK
  BY DEF PathInv
<1>2. QED
  BY <1>1, PathInitInv, PathNextInv, PTL DEF PathSpec

\* However the channels are served, no new eligible bar is kept from an open
\* subscriber without the symbol being latched (fanoutModel).
THEOREM PathNoSilentDrop == PathSpec => []NoSilentDrop
<1>1. PathInv => NoSilentDrop
  BY DEF PathInv
<1>2. QED
  BY <1>1, PathInitInv, PathNextInv, PTL DEF PathSpec

\* Between two resets of a symbol, no subscriber that has missed one of its
\* bars is sent a later one (the latch that fanoutModel sets and tests).
THEOREM PathNothingSentPastALoss == PathSpec => []NothingSentPastALoss
<1>1. PathInv => NothingSentPastALoss
  BY DEF PathInv
<1>2. QED
  BY <1>1, PathInitInv, PathNextInv, PTL DEF PathSpec

LEMMA StepSendsInOrder ==
    ASSUME PathInv, [PathNext]_pathVars
    PROVE  \A c \in Subs :
             Len(queue'[c]) > Len(queue[c]) =>
                LET bar == queue'[c][Len(queue'[c])] IN
                \A t \in got[c][bar.symbol] : t < bar.start
<1> SUFFICES ASSUME NEW c \in Subs, Len(queue'[c]) > Len(queue[c])
             PROVE  \A t \in got[c][queue'[c][Len(queue'[c])].symbol] :
                       t < queue'[c][Len(queue'[c])].start
  OBVIOUS
<1>1. Len(queue[c]) \in Nat /\ queue[c] \in Seq(Bar)
  BY DEF PathInv, PathTypeOK
<1>2. queue' # queue
  BY <1>1
<1>3. ASSUME NEW d \in Subs PROVE ~Receive(d)
  BY <1>1 DEF Receive, PathInv, PathTypeOK
<1>4. PICK bar \in Bar : FanoutModel(bar)
  BY <1>2, <1>3 DEF PathNext, pathVars, SubscribeModelBars, Unsubscribe,
                    ResetModelPath
<1>5. PICK D : /\ SendTo(D, bar)
               /\ \A d \in D : d \in Open /\ ~Full(d)
               /\ ~modelDisc[bar.symbol] /\ InOrder(bar)
  BY <1>2, <1>4 DEF FanoutModel, FanoutSkip, FanoutDeliver, FanoutOverflow
<1>6. queue'[c][Len(queue'[c])] = bar
  BY <1>5, SendToEffect DEF PathInv
<1>7. bar.start > modelLast[bar.symbol]
  BY <1>5, InOrderIsLater DEF PathInv
<1>8. \A t \in got[c][bar.symbol] : t <= modelLast[bar.symbol] /\ t \in Int
  BY <1>5 DEF PathInv, PathTypeOK, SentUpToLast, Bar, Times
<1>9. modelLast[bar.symbol] \in Int /\ bar.start \in Int
  BY DEF PathInv, PathTypeOK, Bar, Times, NoTime
<1>10. QED
  BY <1>6, <1>7, <1>8, <1>9

\* A channel receives the bars of a symbol in strictly increasing interval
\* order between two resets (ClassifyBarContinuity before every send).
THEOREM PathSentInOrder == PathSpec => SentInOrder
<1>1. PathInv /\ [PathNext]_pathVars =>
        [\A c \in Subs :
           Len(queue'[c]) > Len(queue[c]) =>
              LET bar == queue'[c][Len(queue'[c])] IN
              \A t \in got[c][bar.symbol] : t < bar.start]_pathVars
  BY StepSendsInOrder
<1>2. QED
  BY <1>1, PathInitInv, PathNextInv, PTL DEF PathSpec, SentInOrder
=============================================================================

------------------------ MODULE StageTransitionProofs ------------------------
(***************************************************************************)
(* What the Hub promises for any number of callers, stages, symbols,       *)
(* states and subscribers; and the diagnostic as one user of it, driven by *)
(* the Hub's own steps alone, so that what the Hub promises holds with it. *)
(*                                                                         *)
(* That a subscriber can rebuild the detector's state is not inductive on  *)
(* its own: one needs that the state held for a key is the one of the      *)
(* event carrying the last number given out, and that this number names    *)
(* one event only.  That the counters are exact needs to know where an     *)
(* event in flight stands, and that the footer is complete needs the       *)
(* accounts of the loop at each of its steps.                              *)
(***************************************************************************)
EXTENDS Diagnostic, TLAPS, FiniteSetTheorems, SequenceTheorems

-----------------------------------------------------------------------------
\* The inductive invariant.

\* A call that has copied the subscriber list has an event to send.
CallsCarryEvents == \A g \in Callers : copied[g] => hand[g] # NoEvent

\* No event carries a number that has not been given out for its key.
NumbersGivenOut == \A ev \in issued : ev.seq <= seq[ev.key]

\* A number names one event of its key.
NumbersUnique ==
    \A e, f \in issued : (e.key = f.key /\ e.seq = f.seq) => e = f

\* The state held for a key is that of its latest event.
LastIsLatest ==
    \A k \in Keys :
        last[k] # Absent =>
            \E ev \in issued : ev.key = k /\ ev.seq = seq[k] /\ ev.cur = last[k]

HubInv ==
    /\ HubTypeOK
    /\ CallsCarryEvents
    /\ NumbersGivenOut
    /\ NumbersUnique
    /\ LastIsLatest

LEMMA HubInvInit == HubInit => HubInv
<1> SUFFICES ASSUME HubInit PROVE HubInv
  OBVIOUS
<1> USE DEF HubInit
<1>1. HubTypeOK
  <2>1. /\ queue \in [Subs -> Seq(Event)]
        /\ \A c \in Subs : Len(queue[c]) = 0
    OBVIOUS
  <2>2. \A c \in Subs : Len(queue[c]) <= Buffer
    BY <2>1, HubAssumption
  <2>3. /\ last \in [Keys -> States \cup {Absent}]
        /\ seq \in [Keys -> Nat]
        /\ hand \in [Callers -> Event \cup {NoEvent}]
        /\ copied \in [Callers -> BOOLEAN]
        /\ targets \in [Callers -> SUBSET Subs]
        /\ subs \in [Subs -> {"none", "open", "removed", "closed"}]
        /\ issued \in SUBSET Event
        /\ due \in [Subs -> SUBSET Event]
        /\ got \in [Subs -> SUBSET Event]
    OBVIOUS
  <2>4. QED
    BY <2>1, <2>2, <2>3 DEF HubTypeOK
<1>2. CallsCarryEvents /\ NumbersGivenOut /\ NumbersUnique /\ LastIsLatest
  BY DEF CallsCarryEvents, NumbersGivenOut, NumbersUnique, LastIsLatest
<1>3. QED
  BY <1>1, <1>2 DEF HubInv

\* Detecting a change: the one step that hands out a number.
LEMMA ConsiderKeepsInv ==
    ASSUME HubInv, NEW g \in Callers, NEW k \in Keys, NEW st \in States,
           Consider(g, k, st)
    PROVE  HubInv'
<1> DEFINE ev == [key |-> k, seq |-> seq[k] + 1, prev |-> last[k], cur |-> st]
<1>1. /\ hand' = [hand EXCEPT ![g] = ev]
      /\ issued' = issued \cup {ev}
      /\ seq' = [seq EXCEPT ![k] = ev.seq]
      /\ last' = [last EXCEPT ![k] = st]
      /\ hand[g] = NoEvent
      /\ UNCHANGED <<copied, targets, busVars, countVars, sentVars,
                      panicked, due>>
  BY DEF Consider, NextSequence
<1>2. HubTypeOK
  BY DEF HubInv
<1>3. ev \in Event /\ ev.key = k /\ ev.seq = seq[k] + 1 /\ ev.cur = st
  BY <1>2 DEF HubTypeOK, Event
<1> HIDE DEF ev
<1>4. HubTypeOK'
  <2>1. /\ last' \in [Keys -> States \cup {Absent}]
        /\ seq' \in [Keys -> Nat]
        /\ hand' \in [Callers -> Event \cup {NoEvent}]
        /\ issued' \in SUBSET Event
    BY <1>1, <1>2, <1>3 DEF HubTypeOK
  <2>2. QED
    BY <1>1, <1>2, <2>1 DEF HubTypeOK, busVars, countVars, sentVars
<1>5. CallsCarryEvents'
  <2>1. \A h \in Callers : copied[h] => h # g
    BY <1>1 DEF HubInv, CallsCarryEvents
  <2>2. QED
    BY <1>1, <1>2, <2>1 DEF HubInv, CallsCarryEvents, HubTypeOK
<1>6. \A old \in issued :
          old.key \in Keys /\ old.seq \in Nat /\ old.seq <= seq[old.key]
  BY <1>2 DEF HubTypeOK, HubInv, NumbersGivenOut, Event
<1>7. NumbersGivenOut'
  <2> SUFFICES ASSUME NEW old \in issued' PROVE old.seq <= seq'[old.key]
    BY DEF NumbersGivenOut
  <2>1. CASE old = ev
    BY <1>1, <1>2, <1>3, <2>1 DEF HubTypeOK
  <2>2. CASE old \in issued
    BY <1>1, <1>2, <1>3, <1>6, <2>2 DEF HubTypeOK
  <2>3. QED
    BY <1>1, <2>1, <2>2
<1>8. NumbersUnique'
  <2>1. \A old \in issued : old.key = k => old.seq # ev.seq
    BY <1>2, <1>3, <1>6 DEF HubTypeOK
  <2>2. QED
    BY <1>1, <1>3, <2>1 DEF HubInv, NumbersUnique
<1>9. LastIsLatest'
  <2> SUFFICES ASSUME NEW j \in Keys, last'[j] # Absent
               PROVE  \E e \in issued' :
                        e.key = j /\ e.seq = seq'[j] /\ e.cur = last'[j]
    BY DEF LastIsLatest
  <2>1. CASE j = k
    BY <1>1, <1>2, <1>3, <2>1 DEF HubTypeOK
  <2>2. CASE j # k
    <3>1. last'[j] = last[j] /\ seq'[j] = seq[j]
      BY <1>1, <1>2, <2>2 DEF HubTypeOK
    <3>2. QED
      BY <1>1, <3>1 DEF HubInv, LastIsLatest
  <2>3. QED
    BY <2>1, <2>2
<1>10. QED
  BY <1>4, <1>5, <1>7, <1>8, <1>9 DEF HubInv

\* A symbol's reset forgets states and nothing else.
LEMMA ResetKeepsInv ==
    ASSUME HubInv, NEW s \in Symbols, ResetEntity(s)
    PROVE  HubInv'
<1>1. /\ \A k \in Keys : last'[k] = Absent \/ last'[k] = last[k]
      /\ last' \in [Keys -> States \cup {Absent}]
      /\ UNCHANGED <<seq, issued, callVars, busVars, countVars, sentVars,
                     panicked, due>>
  BY DEF ResetEntity, KeepNumbers, HubInv, HubTypeOK
<1>2. HubTypeOK'
  BY <1>1 DEF HubInv, HubTypeOK, callVars, busVars, countVars, sentVars
<1>3. CallsCarryEvents'
  BY <1>1 DEF HubInv, CallsCarryEvents, callVars
<1>4. NumbersGivenOut' /\ NumbersUnique'
  BY <1>1 DEF HubInv, NumbersGivenOut, NumbersUnique
<1>5. LastIsLatest'
  BY <1>1 DEF HubInv, LastIsLatest
<1>6. QED
  BY <1>2, <1>3, <1>4, <1>5 DEF HubInv

\* Every other step leaves the detector alone.
LEMMA DetectorUntouched ==
    ASSUME HubInv, HubTypeOK', CallsCarryEvents', UNCHANGED detectorVars
    PROVE  HubInv'
  BY DEF HubInv, detectorVars, NumbersGivenOut, NumbersUnique, LastIsLatest

LEMMA PublishKeepsInv ==
    ASSUME HubInv, NEW g \in Callers, PublishStep(g)
    PROVE  HubInv'
<1> USE DEF detectorVars, callVars, busVars, countVars, sentVars
<1>1. HubTypeOK /\ CallsCarryEvents
  BY DEF HubInv
<1>2. ASSUME PublishIgnored(g) PROVE HubInv'
  <2>1. HubTypeOK' /\ CallsCarryEvents'
    BY <1>1, <1>2 DEF PublishIgnored, Return, HubTypeOK, CallsCarryEvents
  <2>2. QED
    BY <1>2, <2>1, DetectorUntouched DEF PublishIgnored
<1>3. ASSUME CopySubscribers(g) PROVE HubInv'
  <2>1. hand[g] \in Event
    BY <1>1, <1>3 DEF CopySubscribers, HubTypeOK
  <2>2. due' \in [Subs -> SUBSET Event] /\ targets' \in [Callers -> SUBSET Subs]
    BY <1>1, <1>3, <2>1 DEF CopySubscribers, HubTypeOK, Registered
  <2>3. HubTypeOK'
    BY <1>1, <1>3, <2>2 DEF CopySubscribers, HubTypeOK
  <2>4. CallsCarryEvents'
    BY <1>1, <1>3 DEF CopySubscribers, CallsCarryEvents, HubTypeOK
  <2>5. QED
    BY <1>3, <2>3, <2>4, DetectorUntouched DEF CopySubscribers
<1>4. ASSUME PublishReturns(g) PROVE HubInv'
  <2>1. HubTypeOK' /\ CallsCarryEvents'
    BY <1>1, <1>4 DEF PublishReturns, Return, HubTypeOK, CallsCarryEvents
  <2>2. QED
    BY <1>4, <2>1, DetectorUntouched DEF PublishReturns
<1>5. ASSUME NEW c \in Subs, SendDelivers(g, c) PROVE HubInv'
  <2>1. hand[g] \in Event
    BY <1>1, <1>5 DEF SendDelivers, Sending, HubTypeOK, CallsCarryEvents
  <2>2. /\ queue' \in [Subs -> Seq(Event)]
        /\ got' \in [Subs -> SUBSET Event]
        /\ targets' \in [Callers -> SUBSET Subs]
    BY <1>1, <1>5, <2>1 DEF SendDelivers, Offered, HubTypeOK
  <2>3. \A d \in Subs : Len(queue'[d]) <= Buffer
    <3>1. CASE Len(queue[c]) < Buffer
      BY <1>1, <1>5, <2>1, <3>1, HubAssumption DEF SendDelivers, HubTypeOK
    <3>2. QED
      BY <1>5, <3>1 DEF SendDelivers, Roomy
  <2>4. HubTypeOK' /\ CallsCarryEvents'
    BY <1>1, <1>5, <2>2, <2>3 DEF SendDelivers, HubTypeOK, CallsCarryEvents
  <2>5. QED
    BY <1>5, <2>4, DetectorUntouched DEF SendDelivers
<1>6. ASSUME NEW c \in Subs, SendDrops(g, c) PROVE HubInv'
  <2>1. HubTypeOK' /\ CallsCarryEvents'
    BY <1>1, <1>6 DEF SendDrops, Offered, HubTypeOK, CallsCarryEvents
  <2>2. QED
    BY <1>6, <2>1, DetectorUntouched DEF SendDrops
<1>7. ASSUME NEW c \in Subs, SendPanics(g, c) PROVE HubInv'
  <2>1. HubTypeOK' /\ CallsCarryEvents'
    BY <1>1, <1>7 DEF SendPanics, HubTypeOK, CallsCarryEvents
  <2>2. QED
    BY <1>7, <2>1, DetectorUntouched DEF SendPanics
<1>8. QED
  BY <1>2, <1>3, <1>4, <1>5, <1>6, <1>7 DEF PublishStep

\* Subscriptions and receives.
LEMMA SubscriberKeepsInv ==
    ASSUME HubInv, NEW c \in Subs,
           Subscribe(c) \/ Remove(c) \/ CloseChannel(c) \/ Receive(c)
    PROVE  HubInv'
<1> USE DEF detectorVars, callVars, busVars, countVars, sentVars
<1>1. HubTypeOK /\ CallsCarryEvents
  BY DEF HubInv
<1>2. ASSUME Subscribe(c) \/ Remove(c) \/ CloseChannel(c) PROVE HubInv'
  <2>1. subs' \in [Subs -> {"none", "open", "removed", "closed"}]
    BY <1>1, <1>2 DEF Subscribe, Remove, CloseChannel, HubTypeOK
  <2>2. HubTypeOK' /\ CallsCarryEvents'
    BY <1>1, <1>2, <2>1
       DEF Subscribe, Remove, CloseChannel, HubTypeOK, CallsCarryEvents
  <2>3. QED
    BY <1>2, <2>2, DetectorUntouched DEF Subscribe, Remove, CloseChannel
<1>3. ASSUME Receive(c) PROVE HubInv'
  <2>1. /\ queue[c] \in Seq(Event) /\ queue[c] # <<>> /\ Len(queue[c]) <= Buffer
        /\ queue' = [queue EXCEPT ![c] = Tail(queue[c])]
    BY <1>1, <1>3 DEF Receive, HubTypeOK
  <2>2. Tail(queue[c]) \in Seq(Event) /\ Len(Tail(queue[c])) <= Buffer
    BY <2>1, HubAssumption
  <2>3. /\ queue' \in [Subs -> Seq(Event)]
        /\ \A d \in Subs : Len(queue'[d]) <= Buffer
    BY <1>1, <2>1, <2>2 DEF HubTypeOK
  <2>4. HubTypeOK' /\ CallsCarryEvents'
    BY <1>1, <1>3, <2>3 DEF Receive, HubTypeOK, CallsCarryEvents
  <2>5. QED
    BY <1>3, <2>4, DetectorUntouched DEF Receive
<1>4. QED
  BY <1>2, <1>3

LEMMA HubInvStep == HubInv /\ [HubNext]_hubVars => HubInv'
<1> SUFFICES ASSUME HubInv, [HubNext]_hubVars PROVE HubInv'
  OBVIOUS
<1>1. ASSUME NEW g \in Callers, Call(g) PROVE HubInv'
  BY <1>1, ConsiderKeepsInv, PublishKeepsInv DEF Call
<1>2. ASSUME NEW s \in Symbols, ResetEntity(s) PROVE HubInv'
  BY <1>2, ResetKeepsInv
<1>3. ASSUME NEW c \in Subs,
             Subscribe(c) \/ Remove(c) \/ CloseChannel(c) \/ Receive(c)
      PROVE  HubInv'
  BY <1>3, SubscriberKeepsInv
<1>4. CASE CloseHub
  <2>1. HubTypeOK' /\ CallsCarryEvents'
    BY <1>4 DEF HubInv, CloseHub, HubTypeOK, CallsCarryEvents, detectorVars,
                callVars, countVars, sentVars
  <2>2. QED
    BY <1>4, <2>1, DetectorUntouched DEF CloseHub
<1>5. CASE UNCHANGED hubVars
  <2>1. HubTypeOK' /\ CallsCarryEvents' /\ UNCHANGED detectorVars
    BY <1>5 DEF HubInv, HubTypeOK, CallsCarryEvents, hubVars, detectorVars,
                callVars, busVars, countVars, sentVars
  <2>2. QED
    BY <2>1, DetectorUntouched
<1>6. QED
  BY <1>1, <1>2, <1>3, <1>4, <1>5 DEF HubNext

LEMMA HubInvariant == HubSpec => []HubInv
<1>1. QED
  BY HubInvInit, HubInvStep, PTL DEF HubSpec

-----------------------------------------------------------------------------
\* Type correctness; in particular no channel ever holds more than it may.
THEOREM HubTypeCorrect == HubSpec => []HubTypeOK
<1>1. HubInv => HubTypeOK
  BY DEF HubInv
<1>2. QED
  BY <1>1, HubInvariant, PTL

\* A subscriber that was sent every event of a key holds the detector's state
\* in the event with the highest number.
THEOREM HubReconstructs == HubSpec => []Reconstructs
<1>1. HubInv => Reconstructs
  <2> SUFFICES ASSUME HubInv, NEW c \in Subs, NEW k \in Keys,
                      {ev \in issued : ev.key = k} \subseteq got[c],
                      last[k] # Absent
               PROVE  Latest({ev \in issued : ev.key = k}).cur = last[k]
    BY DEF Reconstructs
  <2> DEFINE all == {ev \in issued : ev.key = k}
  <2>1. PICK w \in issued : w.key = k /\ w.seq = seq[k] /\ w.cur = last[k]
    BY DEF HubInv, LastIsLatest
  <2>2. \A e \in all :
           e \in issued /\ e.key = k /\ e.seq \in Nat /\ e.seq <= w.seq
    BY <2>1 DEF HubInv, HubTypeOK, NumbersGivenOut, Event
  <2>3. w \in all /\ w.seq \in Nat
    BY <2>1, <2>2
  <2> HIDE DEF all
  <2>4. /\ Latest(all) \in all
        /\ \A e \in all : e.seq <= Latest(all).seq
    BY <2>2, <2>3 DEF Latest
  <2>5. Latest(all).seq = w.seq
    BY <2>2, <2>3, <2>4
  <2>6. Latest(all) = w
    BY <2>1, <2>2, <2>4, <2>5 DEF HubInv, NumbersUnique
  <2>7. QED
    BY <2>1, <2>6 DEF all
<1>2. QED
  BY <1>1, HubInvariant, PTL

\* A number is never given out twice for a key.
THEOREM HubNumbersNeverReused == HubSpec => NumbersNeverReused
<1> DEFINE Growing ==
      \A g \in Callers :
         (hand'[g] # hand[g] /\ hand'[g] # NoEvent) =>
            \A old \in issued :
                old.key = hand'[g].key => old.seq < hand'[g].seq
<1>1. ASSUME HubInv, [HubNext]_hubVars PROVE [Growing]_hubVars
  <2> SUFFICES ASSUME NEW g \in Callers, hand'[g] # hand[g], hand'[g] # NoEvent,
                      NEW old \in issued, old.key = hand'[g].key
               PROVE  old.seq < hand'[g].seq
    OBVIOUS
  <2> USE DEF callVars
  <2>1. \E h \in Callers, k \in Keys, st \in States : Consider(h, k, st)
    <3>1. CASE \E h \in Callers : PublishStep(h)
      BY <1>1, <3>1
          DEF PublishStep, PublishIgnored, CopySubscribers, SendDelivers,
              SendDrops, SendPanics, PublishReturns, Return, HubInv, HubTypeOK
    <3>2. CASE \E s \in Symbols : ResetEntity(s)
      BY <3>2 DEF ResetEntity
    <3>3. CASE \E c \in Subs :
                 Subscribe(c) \/ Remove(c) \/ CloseChannel(c) \/ Receive(c)
      BY <3>3 DEF Subscribe, Remove, CloseChannel, Receive
    <3>4. CASE CloseHub \/ UNCHANGED hubVars
      BY <3>4 DEF CloseHub, hubVars
    <3>5. QED
      BY <1>1, <3>1, <3>2, <3>3, <3>4 DEF HubNext, Call
  <2>2. PICK h \in Callers, k \in Keys, st \in States : Consider(h, k, st)
    BY <2>1
  <2>3. /\ h = g
        /\ hand'[g] = [key |-> k, seq |-> seq[k] + 1, prev |-> last[k],
                       cur |-> st]
    BY <1>1, <2>2 DEF Consider, NextSequence, HubInv, HubTypeOK
  <2>4. old.seq \in Nat /\ old.seq <= seq[k] /\ seq[k] \in Nat
    BY <1>1, <2>3 DEF HubInv, HubTypeOK, NumbersGivenOut, Event
  <2>5. QED
    BY <2>3, <2>4
<1>2. HubSpec => [][Growing]_hubVars
  BY <1>1, HubInvariant, PTL DEF HubSpec
<1>3. QED
  BY <1>2 DEF NumbersNeverReused


-----------------------------------------------------------------------------
\* Every offer is counted once.  One has to know where an event that is being
\* published stands: in one caller's hand only, not yet due to anybody before
\* the subscribers are copied, and not yet sent to those still to be served.

TargetsWhileSending == \A g \in Callers : targets[g] # {} => copied[g]

\* An event in hand has been issued, to one caller.
HandsIssued ==
    /\ \A g \in Callers : hand[g] # NoEvent => hand[g] \in issued
    /\ \A g, h \in Callers : hand[g] = hand[h] /\ hand[g] # NoEvent => g = h

SentWereDue ==
    \A c \in Subs : got[c] \subseteq due[c] /\ due[c] \subseteq issued

UnsentInHand ==
    \A g \in Callers, c \in Subs :
        /\ hand[g] # NoEvent /\ ~copied[g] => hand[g] \notin due[c]
        /\ c \in targets[g] => hand[g] \in due[c] \ got[c]

CountInv ==
    /\ TargetsWhileSending
    /\ HandsIssued
    /\ SentWereDue
    /\ UnsentInHand
    /\ IsFiniteSet(Deliveries) /\ IsFiniteSet(Losses)
    /\ EveryOfferCounted

LEMMA CountInit == HubInit => CountInv
<1> SUFFICES ASSUME HubInit PROVE CountInv
  OBVIOUS
<1>1. TargetsWhileSending /\ HandsIssued /\ SentWereDue /\ UnsentInHand
  BY DEF HubInit, TargetsWhileSending, HandsIssued, SentWereDue, UnsentInHand
<1>2. Deliveries = {} /\ Losses = {}
  BY DEF HubInit, Deliveries, Losses
<1>3. IsFiniteSet({}) /\ Cardinality({}) = 0
  BY FS_EmptySet
<1>4. EveryOfferCounted
  BY <1>2, <1>3 DEF HubInit, EveryOfferCounted
<1>5. QED
  BY <1>1, <1>2, <1>3, <1>4 DEF CountInv

\* The counters follow when the offers made stay the same ...
LEMMA SameOffers ==
    ASSUME CountInv, Deliveries' = Deliveries, Losses' = Losses,
           delivered' = delivered, dropped' = dropped
    PROVE  /\ IsFiniteSet(Deliveries') /\ IsFiniteSet(Losses')
           /\ EveryOfferCounted'
<1>1. /\ IsFiniteSet(Deliveries) /\ IsFiniteSet(Losses)
      /\ delivered = Cardinality(Deliveries) /\ dropped = Cardinality(Losses)
  BY DEF CountInv, EveryOfferCounted
<1>2. delivered' = Cardinality(Deliveries') /\ dropped' = Cardinality(Losses')
  BY <1>1
<1>3. QED
  BY <1>1, <1>2 DEF EveryOfferCounted

\* ... as they do when the subscribers have been sent the same, are missing
\* the same, and no event they were due is new.
LEMMA SameForAll ==
    ASSUME CountInv,
           issued \subseteq issued',
           \A c \in Subs : got'[c] = got[c] /\ Missed(c)' = Missed(c)
    PROVE  Deliveries' = Deliveries /\ Losses' = Losses
<1>1. \A c \in Subs : got[c] \subseteq issued /\ Missed(c) \subseteq issued
  BY DEF CountInv, SentWereDue, Missed
<1>2. Deliveries' = Deliveries
  BY <1>1 DEF Deliveries
<1>3. \A c \in Subs : Missed(c)' = Missed(c)
  OBVIOUS
<1>4. Losses' = {offer \in Subs \X issued' : offer[2] \in Missed(offer[1])}
  BY <1>3 DEF Losses
<1>5. Losses' = Losses
  BY <1>1, <1>4 DEF Losses
<1>6. QED
  BY <1>2, <1>5

LEMMA SameTransit ==
    ASSUME NEW c,
           \A g \in Callers :
              /\ c \in targets'[g] <=> c \in targets[g]
              /\ c \in targets[g] => hand'[g] = hand[g],
           got'[c] = got[c], due'[c] = due[c]
    PROVE  Missed(c)' = Missed(c)
<1>1. InTransit(c)' = InTransit(c)
  BY DEF InTransit
<1>2. QED
  BY <1>1 DEF Missed

\* Steps that no offer notices.
LEMMA QuietKeepsCount ==
    ASSUME CountInv,
           UNCHANGED <<issued, hand, copied, targets, got, due, delivered,
                       dropped>>
    PROVE  CountInv'
  BY DEF CountInv, TargetsWhileSending, HandsIssued, SentWereDue, UnsentInHand,
         EveryOfferCounted, Deliveries, Losses, Missed, InTransit

\* A new event is due to nobody yet.
LEMMA ConsiderKeepsCount ==
    ASSUME HubInv, CountInv, NEW g \in Callers, NEW k \in Keys,
           NEW st \in States, Consider(g, k, st)
    PROVE  CountInv'
<1> DEFINE ev == [key |-> k, seq |-> seq[k] + 1, prev |-> last[k], cur |-> st]
<1>1. /\ hand' = [hand EXCEPT ![g] = ev] /\ hand[g] = NoEvent
      /\ issued' = issued \cup {ev}
      /\ UNCHANGED <<copied, targets, got, due, delivered, dropped>>
  BY DEF Consider, NextSequence, countVars, sentVars
<1>2. /\ HubTypeOK /\ TargetsWhileSending /\ HandsIssued /\ SentWereDue
      /\ UnsentInHand
  BY DEF HubInv, CountInv
<1>3. /\ seq[k] \in Nat /\ ev.key = k /\ ev.seq = seq[k] + 1
      /\ \A old \in issued : old.key = k => old.seq <= seq[k] /\ old.seq \in Nat
  BY <1>2 DEF HubInv, HubTypeOK, NumbersGivenOut, Event
<1>4. ev \notin issued
  BY <1>3
<1>5. ~copied[g] /\ targets[g] = {}
  BY <1>1, <1>2 DEF HubInv, CallsCarryEvents, TargetsWhileSending, HubTypeOK
<1> HIDE DEF ev
<1>6. hand'[g] = ev /\ \A h \in Callers \ {g} : hand'[h] = hand[h]
  BY <1>1, <1>2 DEF HubTypeOK
<1>7. TargetsWhileSending' /\ SentWereDue'
  BY <1>1, <1>2 DEF TargetsWhileSending, SentWereDue
<1>8. HandsIssued'
  BY <1>1, <1>2, <1>4, <1>6 DEF HandsIssued
<1>9. UnsentInHand'
  <2> SUFFICES ASSUME NEW h \in Callers, NEW c \in Subs
        PROVE  /\ hand'[h] # NoEvent /\ ~copied[h] => hand'[h] \notin due[c]
               /\ c \in targets[h] => hand'[h] \in due[c] \ got[c]
    BY <1>1 DEF UnsentInHand
  <2>1. CASE h = g
    BY <1>2, <1>4, <1>5, <1>6, <2>1 DEF SentWereDue
  <2>2. CASE h # g
    BY <1>2, <1>6, <2>2 DEF UnsentInHand
  <2>3. QED
    BY <2>1, <2>2
<1>10. ASSUME NEW c \in Subs
       PROVE  got'[c] = got[c] /\ Missed(c)' = Missed(c)
  BY <1>1, <1>5, <1>6, SameTransit
<1>11. Deliveries' = Deliveries /\ Losses' = Losses
  BY <1>1, <1>10, SameForAll
<1>12. QED
  BY <1>1, <1>7, <1>8, <1>9, <1>11, SameOffers DEF CountInv

\* A call that has no subscriber left to serve, or none at all, returns.
LEMMA ReturnKeepsCount ==
    ASSUME HubInv, CountInv, NEW g \in Callers,
           PublishIgnored(g) \/ PublishReturns(g)
    PROVE  CountInv'
<1>1. /\ HubTypeOK /\ TargetsWhileSending /\ HandsIssued /\ SentWereDue
      /\ UnsentInHand
  BY DEF HubInv, CountInv
<1>2. /\ targets[g] = {}
      /\ hand' = [hand EXCEPT ![g] = NoEvent]
      /\ UNCHANGED <<issued, targets, got, due, delivered, dropped>>
      /\ \A h \in Callers \ {g} : copied'[h] = copied[h]
  BY <1>1 DEF PublishIgnored, PublishReturns, Return, detectorVars, countVars,
     sentVars, TargetsWhileSending, HubTypeOK
<1>3. hand'[g] = NoEvent /\ \A h \in Callers \ {g} : hand'[h] = hand[h]
  BY <1>1, <1>2 DEF HubTypeOK
<1>4. TargetsWhileSending' /\ SentWereDue'
  BY <1>1, <1>2 DEF TargetsWhileSending, SentWereDue
<1>5. HandsIssued'
  BY <1>1, <1>2, <1>3 DEF HandsIssued
<1>6. UnsentInHand'
  BY <1>1, <1>2, <1>3 DEF UnsentInHand
<1>7. ASSUME NEW c \in Subs
      PROVE  got'[c] = got[c] /\ Missed(c)' = Missed(c)
  BY <1>2, <1>3, SameTransit
<1>8. Deliveries' = Deliveries /\ Losses' = Losses
  BY <1>2, <1>7, SameForAll
<1>9. QED
  BY <1>2, <1>4, <1>5, <1>6, <1>8, SameOffers DEF CountInv

\* Copying the subscribers makes the event due to them, and on its way.
LEMMA CopyKeepsCount ==
    ASSUME HubInv, CountInv, NEW g \in Callers, CopySubscribers(g)
    PROVE  CountInv'
<1>1. /\ HubTypeOK /\ TargetsWhileSending /\ HandsIssued /\ SentWereDue
      /\ UnsentInHand
  BY DEF HubInv, CountInv
<1>2. /\ hand[g] # NoEvent /\ ~copied[g] /\ targets[g] = {}
      /\ targets' = [targets EXCEPT ![g] = Registered]
      /\ copied' = [copied EXCEPT ![g] = TRUE]
      /\ due' = [c \in Subs |->
                   IF c \in Registered THEN due[c] \cup {hand[g]} ELSE due[c]]
      /\ UNCHANGED <<issued, hand, got, delivered, dropped>>
  BY <1>1 DEF CopySubscribers, detectorVars, sentVars, TargetsWhileSending
<1>3. /\ targets'[g] = Registered /\ copied'[g]
      /\ \A h \in Callers \ {g} : /\ targets'[h] = targets[h]
                                 /\ copied'[h] = copied[h]
  BY <1>1, <1>2 DEF HubTypeOK
<1>4. \A c \in Subs :
         due'[c] = IF c \in Registered THEN due[c] \cup {hand[g]} ELSE due[c]
  BY <1>2
<1>5. hand[g] \in issued /\ \A c \in Subs : hand[g] \notin due[c]
  BY <1>1, <1>2 DEF HandsIssued, UnsentInHand
<1>6. TargetsWhileSending'
  BY <1>1, <1>3 DEF TargetsWhileSending
<1>7. HandsIssued'
  BY <1>1, <1>2 DEF HandsIssued
<1>8. SentWereDue'
  BY <1>1, <1>2, <1>4, <1>5 DEF SentWereDue
<1>9. UnsentInHand'
  <2> SUFFICES ASSUME NEW h \in Callers, NEW c \in Subs
        PROVE  /\ hand[h] # NoEvent /\ ~copied'[h] => hand[h] \notin due'[c]
               /\ c \in targets'[h] => hand[h] \in due'[c] \ got[c]
    BY <1>2 DEF UnsentInHand
  <2>1. CASE h = g
    BY <1>1, <1>3, <1>4, <1>5, <2>1 DEF SentWereDue
  <2>2. CASE h # g
    <3>1. hand[h] # NoEvent => hand[h] # hand[g]
      BY <1>1, <2>2 DEF HandsIssued
    <3>2. due'[c] \in {due[c], due[c] \cup {hand[g]}}
      BY <1>4
    <3>3. targets'[h] = targets[h] /\ copied'[h] = copied[h]
      BY <1>3, <2>2
    <3>4. /\ hand[h] # NoEvent /\ ~copied[h] => hand[h] \notin due[c]
          /\ c \in targets[h] => hand[h] \in due[c] \ got[c]
      BY <1>1 DEF UnsentInHand
    <3>5. QED
      BY <3>1, <3>2, <3>3, <3>4
  <2>3. QED
    BY <2>1, <2>2
<1>10. ASSUME NEW c \in Subs
       PROVE  got'[c] = got[c] /\ Missed(c)' = Missed(c)
  <2>1. CASE c \in Registered
    <3>1. InTransit(c)' = InTransit(c) \cup {hand[g]}
      BY <1>2, <1>3, <2>1 DEF InTransit
    <3>2. QED
      BY <1>2, <1>4, <1>5, <2>1, <3>1 DEF Missed
  <2>2. CASE c \notin Registered
    <3>1. due'[c] = due[c] /\ got'[c] = got[c]
      BY <1>2, <1>4, <2>2
    <3>2. \A h \in Callers : /\ c \in targets'[h] <=> c \in targets[h]
                            /\ hand'[h] = hand[h]
      BY <1>2, <1>3, <2>2
    <3>3. QED
      BY <3>1, <3>2, SameTransit
  <2>3. QED
    BY <2>1, <2>2
<1>11. Deliveries' = Deliveries /\ Losses' = Losses
  BY <1>2, <1>10, SameForAll
<1>12. QED
  BY <1>2, <1>6, <1>7, <1>8, <1>9, <1>11, SameOffers DEF CountInv

\* The shape of the state is kept when a subscriber has been served.
LEMMA OfferKeepsShape ==
    ASSUME HubInv, CountInv, NEW g \in Callers, NEW c \in Subs,
           Sending(g, c), Offered(g, c),
           UNCHANGED <<issued, hand, copied, due>>,
           \/ got' = got
           \/ got' = [got EXCEPT ![c] = @ \cup {hand[g]}]
    PROVE  /\ TargetsWhileSending' /\ HandsIssued' /\ SentWereDue'
           /\ UnsentInHand'
           /\ InTransit(c)' = InTransit(c) \ {hand[g]}
           /\ hand[g] \in InTransit(c)
           /\ \A d \in Subs \ {c} : InTransit(d)' = InTransit(d)
<1>1. /\ HubTypeOK /\ TargetsWhileSending /\ HandsIssued /\ SentWereDue
      /\ UnsentInHand
  BY DEF HubInv, CountInv
<1>2. /\ targets'[g] = targets[g] \ {c}
      /\ \A h \in Callers \ {g} : targets'[h] = targets[h]
  BY <1>1 DEF Offered, HubTypeOK
<1>3. /\ copied[g] /\ c \in targets[g] /\ hand[g] # NoEvent
      /\ hand[g] \in due[c] \ got[c]
  BY <1>1 DEF Sending, UnsentInHand, HubInv, CallsCarryEvents
<1>4. /\ got'[c] = got[c] \/ got'[c] = got[c] \cup {hand[g]}
      /\ \A d \in Subs \ {c} : got'[d] = got[d]
  BY <1>1 DEF HubTypeOK
<1>5. \A h \in Callers : hand[h] = hand[g] => h = g
  BY <1>1, <1>3 DEF HandsIssued
<1>6. TargetsWhileSending'
  BY <1>1, <1>2 DEF TargetsWhileSending
<1>7. HandsIssued'
  BY <1>1 DEF HandsIssued
<1>8. SentWereDue'
  BY <1>1, <1>3, <1>4 DEF SentWereDue
<1>9. UnsentInHand'
  <2> SUFFICES ASSUME NEW h \in Callers, NEW d \in Subs
        PROVE  /\ hand[h] # NoEvent /\ ~copied[h] => hand[h] \notin due[d]
               /\ d \in targets'[h] => hand[h] \in due[d] \ got'[d]
    BY DEF UnsentInHand
  <2>1. hand[h] # NoEvent /\ ~copied[h] => hand[h] \notin due[d]
    BY <1>1 DEF UnsentInHand
  <2>2. d \in targets'[h] => d \in targets[h] /\ ~(h = g /\ d = c)
    BY <1>2
  <2>3. QED
    BY <1>1, <1>4, <1>5, <2>1, <2>2 DEF UnsentInHand
<1>10. hand[g] \in InTransit(c)
  BY <1>3 DEF InTransit
<1>11. InTransit(c)' = InTransit(c) \ {hand[g]}
  BY <1>2, <1>5 DEF InTransit
<1>12. \A d \in Subs \ {c} : InTransit(d)' = InTransit(d)
  BY <1>2 DEF InTransit
<1>13. QED
  BY <1>6, <1>7, <1>8, <1>9, <1>10, <1>11, <1>12

LEMMA DeliverKeepsCount ==
    ASSUME HubInv, CountInv, NEW g \in Callers, NEW c \in Subs,
           SendDelivers(g, c)
    PROVE  CountInv'
<1>1. /\ Sending(g, c) /\ Offered(g, c)
      /\ got' = [got EXCEPT ![c] = @ \cup {hand[g]}]
      /\ delivered' = delivered + 1
      /\ UNCHANGED <<issued, hand, copied, due, dropped>>
  BY DEF SendDelivers, detectorVars
<1>2. /\ TargetsWhileSending' /\ HandsIssued' /\ SentWereDue' /\ UnsentInHand'
      /\ InTransit(c)' = InTransit(c) \ {hand[g]}
      /\ hand[g] \in InTransit(c)
      /\ \A d \in Subs \ {c} : InTransit(d)' = InTransit(d)
  BY <1>1, OfferKeepsShape
<1>3. /\ got'[c] = got[c] \cup {hand[g]} /\ hand[g] \notin got[c]
      /\ hand[g] \in issued
      /\ \A d \in Subs \ {c} : got'[d] = got[d]
  BY <1>1 DEF HubInv, HubTypeOK, CountInv, SentWereDue, UnsentInHand, Sending
<1>4. \A d \in Subs : Missed(d)' = Missed(d)
  BY <1>1, <1>2, <1>3 DEF Missed
<1>5. Losses' = Losses
  BY <1>1, <1>4 DEF Losses
<1>6. Deliveries' = Deliveries \cup {<<c, hand[g]>>}
  BY <1>1, <1>3 DEF Deliveries
<1>7. <<c, hand[g]>> \notin Deliveries
  BY <1>3 DEF Deliveries
<1>8. /\ IsFiniteSet(Deliveries) /\ IsFiniteSet(Losses)
      /\ delivered = Cardinality(Deliveries) /\ dropped = Cardinality(Losses)
  BY DEF CountInv, EveryOfferCounted
<1>9. IsFiniteSet(Deliveries') /\ delivered' = Cardinality(Deliveries')
  BY <1>1, <1>6, <1>7, <1>8, FS_AddElement
<1>10. IsFiniteSet(Losses') /\ dropped' = Cardinality(Losses')
  BY <1>1, <1>5, <1>8
<1>11. QED
  BY <1>2, <1>9, <1>10 DEF CountInv, EveryOfferCounted

LEMMA DropKeepsCount ==
    ASSUME HubInv, CountInv, NEW g \in Callers, NEW c \in Subs,
           SendDrops(g, c)
    PROVE  CountInv'
<1>1. /\ Sending(g, c) /\ Offered(g, c)
      /\ dropped' = dropped + 1
      /\ UNCHANGED <<issued, hand, copied, due, got, delivered>>
  BY DEF SendDrops, detectorVars, sentVars
<1>2. /\ TargetsWhileSending' /\ HandsIssued' /\ SentWereDue' /\ UnsentInHand'
      /\ InTransit(c)' = InTransit(c) \ {hand[g]}
      /\ hand[g] \in InTransit(c)
      /\ \A d \in Subs \ {c} : InTransit(d)' = InTransit(d)
  BY <1>1, OfferKeepsShape
<1>3. hand[g] \in due[c] \ got[c] /\ hand[g] \in issued
  BY <1>1 DEF CountInv, SentWereDue, UnsentInHand, Sending
<1>4. /\ Missed(c)' = Missed(c) \cup {hand[g]} /\ hand[g] \notin Missed(c)
      /\ \A d \in Subs \ {c} : Missed(d)' = Missed(d)
  BY <1>1, <1>2, <1>3 DEF Missed
<1>5. Deliveries' = Deliveries
  BY <1>1 DEF Deliveries
<1>6. Losses' = Losses \cup {<<c, hand[g]>>}
  BY <1>1, <1>3, <1>4 DEF Losses
<1>7. <<c, hand[g]>> \notin Losses
  BY <1>4 DEF Losses
<1>8. /\ IsFiniteSet(Deliveries) /\ IsFiniteSet(Losses)
      /\ delivered = Cardinality(Deliveries) /\ dropped = Cardinality(Losses)
  BY DEF CountInv, EveryOfferCounted
<1>9. IsFiniteSet(Losses') /\ dropped' = Cardinality(Losses')
  BY <1>1, <1>6, <1>7, <1>8, FS_AddElement
<1>10. IsFiniteSet(Deliveries') /\ delivered' = Cardinality(Deliveries')
  BY <1>1, <1>5, <1>8
<1>11. QED
  BY <1>2, <1>9, <1>10 DEF CountInv, EveryOfferCounted

LEMMA CountStep == HubInv /\ CountInv /\ [HubNext]_hubVars => CountInv'
<1> SUFFICES ASSUME HubInv, CountInv, [HubNext]_hubVars PROVE CountInv'
  OBVIOUS
<1> USE DEF detectorVars, callVars, busVars, countVars, sentVars
<1>1. ASSUME NEW g \in Callers, Call(g)
      PROVE  CountInv'
  <2>1. CASE \E k \in Keys, st \in States : Consider(g, k, st)
    BY <2>1, ConsiderKeepsCount
  <2>2. CASE PublishIgnored(g) \/ PublishReturns(g)
    BY <2>2, ReturnKeepsCount
  <2>3. CASE CopySubscribers(g)
    BY <2>3, CopyKeepsCount
  <2>4. CASE \E c \in Subs : SendDelivers(g, c)
    BY <2>4, DeliverKeepsCount
  <2>5. CASE \E c \in Subs : SendDrops(g, c)
    BY <2>5, DropKeepsCount
  <2>6. CASE \E c \in Subs : SendPanics(g, c)
    BY <2>6, QuietKeepsCount DEF SendPanics
  <2>7. QED
    BY <1>1, <2>1, <2>2, <2>3, <2>4, <2>5, <2>6 DEF Call, PublishStep
<1>2. CASE \E s \in Symbols : ResetEntity(s)
  BY <1>2, QuietKeepsCount DEF ResetEntity
<1>3. CASE \E c \in Subs :
             Subscribe(c) \/ Remove(c) \/ CloseChannel(c) \/ Receive(c)
  BY <1>3, QuietKeepsCount DEF Subscribe, Remove, CloseChannel, Receive
<1>4. CASE CloseHub \/ UNCHANGED hubVars
  BY <1>4, QuietKeepsCount DEF CloseHub, hubVars
<1>5. QED
  BY <1>1, <1>2, <1>3, <1>4 DEF HubNext

\* Stats are exact: whatever the interleaving of publishers, subscribers and
\* shutdown, each event published to a subscriber has been counted once, as
\* delivered or as dropped, when it has been offered (Publish counts each
\* outcome of its select under the publisher's lock).
THEOREM HubEveryOfferCounted == HubSpec => []EveryOfferCounted
<1>1. CountInv => EveryOfferCounted
  BY DEF CountInv
<1>2. QED
  BY <1>1, HubInvariant, CountInit, CountStep, PTL DEF HubSpec


-----------------------------------------------------------------------------
\* The diagnostic: its footer leaves nothing out that was delivered to it.

\* Every step of the Hub with its diagnostic is a step of the Hub or leaves
\* the Hub alone.
LEMMA NextIsHubNext == [Next]_vars => [HubNext]_hubVars
<1> SUFFICES ASSUME [Next]_vars PROVE [HubNext]_hubVars
  OBVIOUS
<1> USE DiagnosticAssumption
<1>1. CASE HubStep
  BY <1>1 DEF HubStep, OtherSubscriber, HubNext
<1>2. CASE NewDiagnostic
  BY <1>2 DEF NewDiagnostic, HubNext
<1>3. CASE LoopStep
  BY <1>3 DEF LoopStep, LoopEvent, LoopTick, LoopStop, LoopFooter, HubNext
<1>4. CASE CloseDiagnostic \/ CloseUnsubscribes \/ CloseReturn
  BY <1>4 DEF CloseDiagnostic, CloseUnsubscribes, CloseReturn, HubNext
<1>5. CASE \E c \in Subs : CloseSubscription(c)
  BY <1>5 DEF CloseSubscription, HubNext
<1>6. CASE MainClosesHub
  BY <1>6 DEF MainClosesHub, HubNext
<1>7. CASE UNCHANGED vars
  BY <1>7 DEF vars
<1>8. QED
  BY <1>1, <1>2, <1>3, <1>4, <1>5, <1>6, <1>7 DEF Next

\* The diagnostic and main's shutdown implement the Hub.
THEOREM DiagnosticImplementsHub == Spec => HubSpec
<1>1. Init => HubInit
  BY DEF Init
<1>2. QED
  BY <1>1, NextIsHubNext, PTL DEF Spec, HubSpec

-----------------------------------------------------------------------------
\* Arithmetic of the counters: an event written or counted as an error makes
\* up for the one that left the channel, and counting more loses nothing.
LEMMA OneTaken ==
    ASSUME NEW w \in Nat, NEW e \in Nat, NEW v \in Nat, NEW f \in Nat,
           NEW n \in Nat, NEW l \in Nat,
           n <= w + e + l, v + f = w + e + 1
    PROVE  n <= v + f + (l - 1)
  OBVIOUS

LEMMA MoreErrors ==
    ASSUME NEW w \in Nat, NEW e \in Nat, NEW f \in Nat,
           NEW n \in Nat, NEW l \in Nat,
           n <= w + e + l, f >= e
    PROVE  n <= w + f + l
  OBVIOUS

DiagTypeOK ==
    /\ loop \in {"none", "running", "done"}
    /\ closer \in {"none", "stopped", "waiting", "returned"}
    /\ stopSeen \in BOOLEAN /\ broken \in BOOLEAN
    /\ written \in Nat /\ writeErr \in Nat /\ diagDropped \in Nat
    /\ footer \in [written : Nat, writeErr : Nat, dropped : Nat] \cup {NoFooter}

\* What was delivered to the diagnostic is written, counted as a write error,
\* or still in its channel.
Accounted ==
    /\ IsFiniteSet(got[Diag])
    /\ Cardinality(got[Diag]) <= written + writeErr + Len(queue[Diag])

\* The loop ends on a closed and empty channel, which stays that way.
DoneIsDrained == loop = "done" => Drained

FooterIsLast == footer # NoFooter => loop = "done"

DiagInv ==
    /\ DiagTypeOK
    /\ Accounted
    /\ DoneIsDrained
    /\ FooterIsLast
    /\ FooterCoversDelivered

LEMMA DiagInvInit == Init => DiagInv
<1> SUFFICES ASSUME Init PROVE DiagInv
  OBVIOUS
<1> USE DiagnosticAssumption DEF Init, HubInit
<1>1. DiagTypeOK /\ DoneIsDrained /\ FooterIsLast /\ FooterCoversDelivered
  BY DEF DiagTypeOK, DoneIsDrained, FooterIsLast, FooterCoversDelivered
<1>2. Accounted
  <2>1. got[Diag] = {} /\ queue[Diag] = <<>>
    OBVIOUS
  <2>2. IsFiniteSet({}) /\ Cardinality({}) = 0
    BY FS_EmptySet
  <2>3. QED
    BY <2>1, <2>2 DEF Accounted
<1>3. QED
  BY <1>1, <1>2 DEF DiagInv

\* A step that leaves the diagnostic, its channel and its subscription alone.
LEMMA Elsewhere ==
    ASSUME DiagInv, UNCHANGED diagVars,
           got'[Diag] = got[Diag], queue'[Diag] = queue[Diag],
           subs[Diag] = "closed" => subs'[Diag] = "closed"
    PROVE  DiagInv'
<1>1. DiagTypeOK' /\ FooterIsLast'
  BY DEF DiagInv, DiagTypeOK, FooterIsLast, diagVars
<1>2. Accounted'
  BY DEF DiagInv, Accounted, diagVars
<1>3. DoneIsDrained'
  BY DEF DiagInv, DoneIsDrained, Drained, diagVars
<1>4. FooterCoversDelivered'
  BY DEF DiagInv, FooterCoversDelivered, diagVars
<1>5. QED
  BY <1>1, <1>2, <1>3, <1>4 DEF DiagInv

\* An event delivered to the diagnostic joins its channel.
LEMMA DeliveryKeepsInv ==
    ASSUME HubInv, DiagInv, NEW g \in Callers, NEW c \in Subs,
           SendDelivers(g, c), UNCHANGED diagVars
    PROVE  DiagInv'
<1> USE DiagnosticAssumption
<1>1. /\ queue \in [Subs -> Seq(Event)] /\ got \in [Subs -> SUBSET Event]
      /\ queue' = [queue EXCEPT ![c] = Append(queue[c], hand[g])]
      /\ got' = [got EXCEPT ![c] = got[c] \cup {hand[g]}]
      /\ subs' = subs /\ subs[c] # "closed"
  BY DEF SendDelivers, HubInv, HubTypeOK, busVars
<1>2. CASE c # Diag
  BY <1>1, <1>2, Elsewhere
<1>3. CASE c = Diag
  <2>1. /\ got'[Diag] = got[Diag] \cup {hand[g]}
        /\ Len(queue'[Diag]) = Len(queue[Diag]) + 1
        /\ Len(queue[Diag]) \in Nat
    <3>1. hand[g] \in Event
      BY DEF SendDelivers, Sending, HubInv, HubTypeOK, CallsCarryEvents
    <3>2. QED
      BY <1>1, <1>3, <3>1
  <2>2. loop # "done"
    BY <1>1, <1>3 DEF DiagInv, DoneIsDrained, Drained
  <2>3. DiagTypeOK' /\ DoneIsDrained' /\ FooterIsLast' /\ FooterCoversDelivered'
    BY <2>2 DEF DiagInv, DiagTypeOK, DoneIsDrained, FooterIsLast,
                FooterCoversDelivered, diagVars
  <2>4. Accounted'
    <3> DEFINE before == got[Diag]
               after == got'[Diag]
    <3>1. IsFiniteSet(before) /\ after = before \cup {hand[g]}
      BY <2>1 DEF DiagInv, Accounted
    <3> HIDE DEF before, after
    <3>2. /\ IsFiniteSet(after)
          /\ \/ Cardinality(after) = Cardinality(before)
             \/ Cardinality(after) = Cardinality(before) + 1
      BY <3>1, FS_AddElement
    <3>3. Cardinality(before) \in Nat /\ Cardinality(after) \in Nat
      BY <3>1, <3>2, FS_CardinalityType
    <3>4. written' = written /\ writeErr' = writeErr
          /\ written \in Nat /\ writeErr \in Nat
      BY DEF DiagInv, DiagTypeOK, diagVars
    <3>5. Cardinality(before) <= written + writeErr + Len(queue[Diag])
      BY DEF DiagInv, Accounted, before
    <3>6. Cardinality(after) <= written' + writeErr' + Len(queue'[Diag])
      <4> DEFINE m == Cardinality(before)
                 n == Cardinality(after)
                 l == Len(queue[Diag])
                 k == Len(queue'[Diag])
      <4>1. m \in Nat /\ n \in Nat /\ (n = m \/ n = m + 1)
            /\ m <= written + writeErr + l
        BY <3>2, <3>3, <3>5
      <4>2. l \in Nat /\ k = l + 1
        BY <2>1
      <4> HIDE DEF m, n, l, k
      <4>3. n <= written' + writeErr' + k
        BY <3>4, <4>1, <4>2
      <4>4. QED
        BY <4>3 DEF n, k
    <3>7. QED
      BY <3>2, <3>6 DEF Accounted, after
  <2>5. QED
    BY <2>3, <2>4 DEF DiagInv
<1>4. QED
  BY <1>2, <1>3

\* The steps taken by the Hub's callers and by the other subscribers.
LEMMA HubStepKeepsInv ==
    ASSUME HubInv, DiagInv, HubStep
    PROVE  DiagInv'
<1> USE DiagnosticAssumption DEF busVars, sentVars
<1>1. UNCHANGED diagVars
  BY DEF HubStep
<1>2. /\ subs \in [Subs -> {"none", "open", "removed", "closed"}]
      /\ queue \in [Subs -> Seq(Event)]
  BY DEF HubInv, HubTypeOK
<1>3. ASSUME NEW g \in Callers, Call(g) PROVE DiagInv'
  <2>1. CASE \E c \in Subs : SendDelivers(g, c)
    BY <1>1, <2>1, DeliveryKeepsInv
  <2>2. CASE \E k \in Keys, st \in States : Consider(g, k, st)
    BY <1>1, <2>2, Elsewhere DEF Consider
  <2>3. CASE PublishIgnored(g) \/ CopySubscribers(g) \/ PublishReturns(g)
    BY <1>1, <2>3, Elsewhere DEF PublishIgnored, CopySubscribers, PublishReturns
  <2>4. CASE \E c \in Subs : SendDrops(g, c) \/ SendPanics(g, c)
    BY <1>1, <2>4, Elsewhere DEF SendDrops, SendPanics
  <2>5. QED
    BY <1>3, <2>1, <2>2, <2>3, <2>4 DEF Call, PublishStep
<1>4. ASSUME NEW s \in Symbols, ResetEntity(s) PROVE DiagInv'
  BY <1>1, <1>4, Elsewhere DEF ResetEntity
<1>5. ASSUME NEW c \in Subs \ {Diag}, OtherSubscriber(c) PROVE DiagInv'
  BY <1>1, <1>2, <1>5, Elsewhere DEF OtherSubscriber, Subscribe, Remove, Receive
<1>6. QED
  BY <1>3, <1>4, <1>5 DEF HubStep

\* The loop's own steps.
LEMMA LoopKeepsInv ==
    ASSUME HubInv, DiagInv, LoopStep
    PROVE  DiagInv'
<1> USE DiagnosticAssumption DEF busVars, sentVars, hubVars
<1>1. /\ DiagTypeOK /\ Accounted /\ DoneIsDrained
      /\ FooterIsLast /\ FooterCoversDelivered
  BY DEF DiagInv
<1>2. /\ written \in Nat /\ writeErr \in Nat
      /\ Cardinality(got[Diag]) \in Nat
      /\ queue[Diag] \in Seq(Event) /\ Len(queue[Diag]) \in Nat
  <2>1. Cardinality(got[Diag]) \in Nat
    BY <1>1, FS_CardinalityType DEF Accounted
  <2>2. QED
    BY <1>1, <2>1 DEF DiagTypeOK, HubInv, HubTypeOK
<1>3. ASSUME LoopEvent PROVE DiagInv'
  <2>1. /\ loop = "running" /\ loop' = loop /\ footer' = footer
        /\ got' = got /\ subs' = subs
        /\ broken' \in BOOLEAN
        /\ UNCHANGED <<closer, stopSeen, diagDropped>>
    BY <1>3 DEF LoopEvent, Receive, WriteFails
  <2>2. /\ written' \in Nat /\ writeErr' \in Nat
        /\ written' + writeErr' = written + writeErr + 1
    BY <1>2, <1>3 DEF LoopEvent
  <2>3. Len(queue'[Diag]) = Len(queue[Diag]) - 1
    <3> DEFINE q == queue[Diag]
    <3>1. queue' = [queue EXCEPT ![Diag] = Tail(q)] /\ q # <<>>
      BY <1>3 DEF LoopEvent, Receive
    <3>2. queue'[Diag] = Tail(q) /\ q \in Seq(Event)
      BY <3>1 DEF HubInv, HubTypeOK
    <3> HIDE DEF q
    <3>3. Len(Tail(q)) = Len(q) - 1
      BY <3>1, <3>2, HeadTailProperties
    <3>4. QED
      BY <3>2, <3>3 DEF q
  <2>4. DiagTypeOK'
    BY <1>1, <2>1, <2>2 DEF DiagTypeOK
  <2>5. Cardinality(got'[Diag]) <= written' + writeErr' + Len(queue'[Diag])
    <3> DEFINE n == Cardinality(got[Diag])
               l == Len(queue[Diag])
               m == Len(queue'[Diag])
    <3>1. n \in Nat /\ l \in Nat /\ m = l - 1 /\ n <= written + writeErr + l
      BY <1>1, <1>2, <2>3 DEF Accounted
    <3>2. n = Cardinality(got'[Diag])
      BY <2>1
    <3> HIDE DEF n, l, m
    <3>3. written \in Nat /\ writeErr \in Nat
      BY <1>2
    <3>4. n <= written' + writeErr' + (l - 1)
      BY <2>2, <3>1, <3>3, OneTaken, Zenon
    <3>5. QED
      BY <3>1, <3>2, <3>4 DEF m
  <2>6. Accounted'
    BY <1>1, <2>1, <2>5 DEF Accounted
  <2>7. DoneIsDrained' /\ FooterIsLast' /\ FooterCoversDelivered'
    BY <1>1, <2>1 DEF DoneIsDrained, FooterIsLast, FooterCoversDelivered
  <2>8. QED
    BY <2>4, <2>6, <2>7 DEF DiagInv
<1>4. ASSUME LoopTick PROVE DiagInv'
  <2>1. /\ loop = "running" /\ loop' = loop /\ footer' = footer
        /\ got' = got /\ queue' = queue /\ written' = written
        /\ broken' \in BOOLEAN
        /\ UNCHANGED <<closer, stopSeen, diagDropped>>
    BY <1>4 DEF LoopTick, WriteFails
  <2>2. writeErr' \in Nat /\ writeErr' >= writeErr
    BY <1>2, <1>4 DEF LoopTick
  <2>3. DiagTypeOK'
    BY <1>1, <2>1, <2>2 DEF DiagTypeOK
  <2>4. Accounted'
    <3>1. /\ got'[Diag] = got[Diag] /\ IsFiniteSet(got[Diag])
          /\ Cardinality(got'[Diag]) = Cardinality(got[Diag])
      BY <1>1, <2>1 DEF Accounted
    <3>2. Cardinality(got[Diag]) <= written + writeErr + Len(queue[Diag])
      BY <1>1 DEF Accounted
    <3> DEFINE n == Cardinality(got[Diag])
               l == Len(queue[Diag])
    <3>3. n \in Nat /\ l \in Nat /\ n <= written + writeErr + l
      BY <1>2, <3>2
    <3> HIDE DEF n, l
    <3>4. written' = written /\ written \in Nat /\ writeErr \in Nat
      BY <1>2, <2>1
    <3>5. n <= written' + writeErr' + l
      BY <2>2, <3>3, <3>4, MoreErrors, Zenon
    <3>6. l = Len(queue'[Diag])
      BY <2>1 DEF l
    <3>7. QED
      BY <3>1, <3>5, <3>6 DEF Accounted, n
  <2>5. DoneIsDrained' /\ FooterIsLast' /\ FooterCoversDelivered'
    BY <1>1, <2>1 DEF DoneIsDrained, FooterIsLast, FooterCoversDelivered
  <2>6. QED
    BY <2>3, <2>4, <2>5 DEF DiagInv
<1>5. ASSUME LoopStop PROVE DiagInv'
  <2>1. /\ loop = "running" /\ loop' = loop /\ footer' = footer
        /\ got' = got /\ queue' = queue
        /\ UNCHANGED <<closer, broken, written, writeErr>>
        /\ stopSeen' = TRUE
    BY <1>5 DEF LoopStop
  <2>2. diagDropped' \in Nat
    BY <1>1, <1>5 DEF LoopStop, DiagTypeOK, HubInv, HubTypeOK
  <2>3. DiagTypeOK'
    BY <1>1, <2>1, <2>2 DEF DiagTypeOK
  <2>4. Accounted'
    BY <1>1, <2>1 DEF Accounted
  <2>5. DoneIsDrained' /\ FooterIsLast' /\ FooterCoversDelivered'
    BY <1>1, <2>1 DEF DoneIsDrained, FooterIsLast, FooterCoversDelivered
  <2>6. QED
    BY <2>3, <2>4, <2>5 DEF DiagInv
<1>6. ASSUME LoopFooter PROVE DiagInv'
  <2>1. /\ Drained /\ loop' = "done"
        /\ footer' = [written |-> written, writeErr |-> writeErr,
                      dropped |-> diagDropped]
        /\ got' = got /\ queue' = queue /\ subs' = subs /\ written' = written
        /\ broken' \in BOOLEAN
        /\ UNCHANGED <<closer, stopSeen, diagDropped>>
    BY <1>6 DEF LoopFooter, WriteFails
  <2>2. writeErr' \in Nat /\ writeErr' >= writeErr
    BY <1>2, <1>6 DEF LoopFooter
  <2>3. DiagTypeOK'
    BY <1>1, <2>1, <2>2 DEF DiagTypeOK
  <2>4. Accounted'
    <3>1. /\ got'[Diag] = got[Diag] /\ IsFiniteSet(got[Diag])
          /\ Cardinality(got'[Diag]) = Cardinality(got[Diag])
      BY <1>1, <2>1 DEF Accounted
    <3>2. Cardinality(got[Diag]) <= written + writeErr + Len(queue[Diag])
      BY <1>1 DEF Accounted
    <3> DEFINE n == Cardinality(got[Diag])
               l == Len(queue[Diag])
    <3>3. n \in Nat /\ l \in Nat /\ n <= written + writeErr + l
      BY <1>2, <3>2
    <3> HIDE DEF n, l
    <3>4. written' = written /\ written \in Nat /\ writeErr \in Nat
      BY <1>2, <2>1
    <3>5. n <= written' + writeErr' + l
      BY <2>2, <3>3, <3>4, MoreErrors, Zenon
    <3>6. l = Len(queue'[Diag])
      BY <2>1 DEF l
    <3>7. QED
      BY <3>1, <3>5, <3>6 DEF Accounted, n
  <2>5. DoneIsDrained' /\ FooterIsLast'
    BY <2>1 DEF DoneIsDrained, FooterIsLast, Drained
  <2>6. FooterCoversDelivered'
    <3>1. Len(queue[Diag]) = 0
      BY <2>1 DEF Drained
    <3>2. Cardinality(got[Diag]) <= written + writeErr
      BY <1>1, <1>2, <3>1 DEF Accounted
    <3>3. QED
      BY <1>2, <2>1, <3>2 DEF FooterCoversDelivered
  <2>7. QED
    BY <2>3, <2>4, <2>5, <2>6 DEF DiagInv
<1>7. QED
  BY <1>3, <1>4, <1>5, <1>6 DEF LoopStep

LEMMA DiagInvStep == HubInv /\ DiagInv /\ [Next]_vars => DiagInv'
<1> SUFFICES ASSUME HubInv, DiagInv, [Next]_vars PROVE DiagInv'
  OBVIOUS
<1> USE DiagnosticAssumption DEF sentVars
<1>1. subs \in [Subs -> {"none", "open", "removed", "closed"}]
  BY DEF HubInv, HubTypeOK
<1>2. CASE HubStep
  BY <1>2, HubStepKeepsInv
<1>3. CASE LoopStep
  BY <1>3, LoopKeepsInv
<1>4. CASE NewDiagnostic
  <2>1. /\ loop = "none" /\ loop' = "running" /\ broken' \in BOOLEAN
        /\ got' = got /\ queue' = queue
        /\ UNCHANGED <<closer, stopSeen, written, writeErr,
                        diagDropped, footer>>
    BY <1>4 DEF NewDiagnostic, Subscribe
  <2>2. QED
    BY <2>1 DEF DiagInv, DiagTypeOK, Accounted, DoneIsDrained, FooterIsLast,
                FooterCoversDelivered
<1>5. CASE CloseDiagnostic \/ CloseUnsubscribes \/ CloseReturn
  <2>1. /\ closer' \in {"none", "stopped", "waiting", "returned"}
        /\ got' = got /\ queue' = queue
        /\ subs[Diag] = "closed" => subs'[Diag] = "closed"
        /\ UNCHANGED <<loop, stopSeen, broken, written, writeErr, diagDropped,
                       footer>>
    BY <1>1, <1>5 DEF CloseDiagnostic, CloseUnsubscribes, CloseReturn, Remove,
                      hubVars, busVars
  <2>2. QED
    BY <2>1 DEF DiagInv, DiagTypeOK, Accounted, DoneIsDrained, Drained,
                FooterIsLast, FooterCoversDelivered
<1>6. CASE \E c \in Subs : CloseSubscription(c)
  BY <1>1, <1>6, Elsewhere DEF CloseSubscription, CloseChannel
<1>7. CASE MainClosesHub
  BY <1>1, <1>7, Elsewhere DEF MainClosesHub, CloseHub
<1>8. CASE UNCHANGED vars
  BY <1>8, Elsewhere DEF vars, hubVars, busVars
<1>9. QED
  BY <1>2, <1>3, <1>4, <1>5, <1>6, <1>7, <1>8 DEF Next

LEMMA DiagInvariant == Spec => [](HubInv /\ DiagInv)
<1>1. Spec => []HubInv
  BY DiagnosticImplementsHub, HubInvariant, PTL
<1>2. QED
  BY <1>1, DiagInvInit, DiagInvStep, PTL DEF Spec

\* Type correctness of the Hub together with its diagnostic.
THEOREM DiagnosticTypeCorrect == Spec => []TypeOK
<1>1. HubInv /\ DiagInv => TypeOK
  BY DEF HubInv, DiagInv, DiagTypeOK, TypeOK
<1>2. QED
  BY <1>1, DiagInvariant, PTL

\* The footer accounts for every event delivered to the diagnostic.
THEOREM DiagnosticFooterCoversDelivered == Spec => []FooterCoversDelivered
<1>1. DiagInv => FooterCoversDelivered
  BY DEF DiagInv
<1>2. QED
  BY <1>1, DiagInvariant, PTL
=============================================================================

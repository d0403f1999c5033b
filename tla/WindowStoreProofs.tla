-------------------------- MODULE WindowStoreProofs --------------------------
(***************************************************************************)
(* What the bar window promises for any symbols, contents and limit.       *)
(*                                                                         *)
(* All of it rests on the order of the window: because of it the position  *)
(* Add computes splits the window into earlier and later bars, the first   *)
(* bar is the oldest and the last one the newest.  What happens to the     *)
(* sequence is told element by element first, and then as what happens to  *)
(* the set of held snapshots, which is what WindowMap speaks of.           *)
(***************************************************************************)
EXTENDS WindowStore, FiniteSetTheorems, SequenceTheorems, TLAPS

\* A window in interval order.
Ordered(q) == \A i, j \in 1..Len(q) : i < j => q[i].start < q[j].start

\* Last is kept up to date.
LastIsNewest ==
    lastAt = [s \in Symbols |-> IF bars[s] = <<>> THEN Abstract!NoBar
                                ELSE Last(bars[s])]

WindowInv ==
    /\ bars \in [Symbols -> Seq(Abstract!Snapshot)]
    /\ \A s \in Symbols : Len(bars[s]) <= Limit /\ Ordered(bars[s])
    /\ LastIsNewest

LEMMA StartIsTime ==
    ASSUME NEW bar \in Abstract!Snapshot
    PROVE  bar.start \in Int /\ bar.symbol \in Symbols
  BY BarsAssumption DEF Abstract!Snapshot, Abstract!Times

-----------------------------------------------------------------------------
\* Sequences, element by element.

LEMMA ToSetMember ==
    ASSUME NEW S, NEW q \in Seq(S)
    PROVE  /\ \A x : x \in ToSet(q) <=> \E i \in 1..Len(q) : x = q[i]
           /\ ToSet(q) \subseteq S
  BY LenProperties, ElementOfSeq DEF ToSet

LEMMA InsertAtElements ==
    ASSUME NEW S, NEW q \in Seq(S), NEW e \in S, NEW p \in 1..Len(q) + 1
    PROVE  /\ InsertAt(q, p, e) \in Seq(S)
           /\ Len(InsertAt(q, p, e)) = Len(q) + 1
           /\ \A j \in 1..Len(q) + 1 :
                InsertAt(q, p, e)[j] =
                    IF j < p THEN q[j] ELSE IF j = p THEN e ELSE q[j - 1]
<1> DEFINE l == SubSeq(q, 1, p - 1)
           m == <<e>>
           r == SubSeq(q, p, Len(q))
<1>1. Len(q) \in Nat /\ p \in Int /\ \A i \in 1..Len(q) : q[i] \in S
  BY LenProperties, ElementOfSeq
<1>2. /\ l \in Seq(S) /\ Len(l) = p - 1
      /\ \A i \in 1..p - 1 : l[i] = q[i]
  <2>1. \A i \in 1..p - 1 : q[i] \in S
    BY <1>1
  <2>2. /\ l \in Seq(S)
        /\ Len(l) = IF 1 <= p - 1 THEN (p - 1) - 1 + 1 ELSE 0
        /\ \A i \in 1..(p - 1) - 1 + 1 : l[i] = q[1 + i - 1]
    <3>1. p - 1 \in Int
      BY <1>1
    <3>2. QED
      BY <2>1, <3>1, SubSeqProperties
  <2> HIDE DEF l
  <2>3. QED
    BY <1>1, <2>2
<1>3. m \in Seq(S) /\ Len(m) = 1 /\ m[1] = e
  OBVIOUS
<1>4. /\ r \in Seq(S) /\ Len(r) = Len(q) - p + 1
      /\ \A i \in 1..Len(q) - p + 1 : r[i] = q[p + i - 1]
  <2>1. \A i \in p..Len(q) : q[i] \in S
    BY <1>1
  <2>2. /\ r \in Seq(S)
        /\ Len(r) = IF p <= Len(q) THEN Len(q) - p + 1 ELSE 0
        /\ \A i \in 1..Len(q) - p + 1 : r[i] = q[p + i - 1]
    BY <1>1, <2>1, SubSeqProperties
  <2> HIDE DEF r
  <2>3. QED
    BY <1>1, <2>2
<1> HIDE DEF l, m, r
<1>5. /\ l \o m \in Seq(S) /\ Len(l \o m) = p
      /\ \A i \in 1..p :
            (l \o m)[i] = IF i <= p - 1 THEN l[i] ELSE m[i - (p - 1)]
  <2>1. /\ l \o m \in Seq(S) /\ Len(l \o m) = Len(l) + Len(m)
        /\ \A i \in 1..Len(l) + Len(m) :
             (l \o m)[i] = IF i <= Len(l) THEN l[i] ELSE m[i - Len(l)]
    BY <1>2, <1>3, ConcatProperties
  <2>2. QED
    BY <1>1, <1>2, <1>3, <2>1
<1> DEFINE lm == l \o m
<1>6. /\ lm \o r \in Seq(S) /\ Len(lm \o r) = Len(q) + 1
      /\ \A i \in 1..Len(q) + 1 :
            (lm \o r)[i] = IF i <= p THEN lm[i] ELSE r[i - p]
  <2>0. lm \in Seq(S) /\ Len(lm) = p
    BY <1>5
  <2> HIDE DEF lm
  <2>1. /\ lm \o r \in Seq(S) /\ Len(lm \o r) = Len(lm) + Len(r)
        /\ \A i \in 1..Len(lm) + Len(r) :
             (lm \o r)[i] = IF i <= Len(lm) THEN lm[i] ELSE r[i - Len(lm)]
    BY <1>4, <2>0, ConcatProperties
  <2>2. QED
    BY <1>1, <1>4, <2>0, <2>1
<1>7. InsertAt(q, p, e) = lm \o r
  BY DEF InsertAt, l, m, r
<1>8. ASSUME NEW j \in 1..Len(q) + 1
      PROVE  (lm \o r)[j] =
                 IF j < p THEN q[j] ELSE IF j = p THEN e ELSE q[j - 1]
  <2>1. CASE j < p
    BY <1>1, <1>2, <1>5, <1>6, <2>1
  <2>2. CASE j = p
    BY <1>1, <1>3, <1>5, <1>6, <2>2
  <2>3. CASE j > p
    <3>1. (lm \o r)[j] = r[j - p]
      BY <1>1, <1>6, <2>3
    <3>2. j - p \in 1..Len(q) - p + 1
      BY <1>1, <2>3
    <3>3. r[j - p] = q[p + (j - p) - 1]
      BY <1>4, <3>2
    <3>4. p + (j - p) - 1 = j - 1
      BY <1>1
    <3>5. QED
      BY <1>1, <2>3, <3>1, <3>3, <3>4
  <2>4. j < p \/ j = p \/ j > p
    BY <1>1
  <2>5. QED
    BY <2>1, <2>2, <2>3, <2>4, Zenon
<1> HIDE DEF lm
<1>9. QED
  BY <1>6, <1>7, <1>8

-----------------------------------------------------------------------------
\* What the order gives.

LEMMA IntervalFromOne ==
    ASSUME NEW n \in Nat
    PROVE  IsFiniteSet(1..n) /\ Cardinality(1..n) = n
<1>1. 1 \in Int /\ n \in Int
  OBVIOUS
<1>2. IsFiniteSet(1..n)
  BY <1>1, FS_Interval, Zenon
<1>3. Cardinality(1..n) = IF 1 > n THEN 0 ELSE n - 1 + 1
  BY <1>1, FS_Interval
<1>4. (IF 1 > n THEN 0 ELSE n - 1 + 1) = n
  OBVIOUS
<1>5. QED
  BY <1>2, <1>3, <1>4

\* The position Add computes: the earlier bars are those before it.
LEMMA EarlierBars ==
    ASSUME NEW q \in Seq(Abstract!Snapshot), Ordered(q), NEW t \in Int
    PROVE  LET k == Cardinality({i \in DOMAIN q : q[i].start < t})
           IN  /\ k \in 0..Len(q)
               /\ \A i \in 1..Len(q) : i <= k <=> q[i].start < t
<1> DEFINE A == {i \in DOMAIN q : q[i].start < t}
           k == Cardinality(A)
<1>1. /\ Len(q) \in Nat /\ DOMAIN q = 1..Len(q)
      /\ \A i \in 1..Len(q) : q[i].start \in Int
  BY LenProperties, ElementOfSeq, StartIsTime
<1>2. IsFiniteSet(1..Len(q)) /\ Cardinality(1..Len(q)) = Len(q)
  BY <1>1, IntervalFromOne
<1>3. A \in SUBSET (1..Len(q))
  BY <1>1
<1> HIDE DEF A
<1>4. IsFiniteSet(A) /\ k \in Nat /\ k <= Len(q)
  BY <1>2, <1>3, FS_Subset, FS_CardinalityType
<1>5. ASSUME NEW i \in A
      PROVE  i \in 1..k
  <2>1. i \in 1..Len(q) /\ i \in Nat
    BY <1>3
  <2>2. 1..i \in SUBSET A
    BY <1>1, <2>1 DEF A, Ordered
  <2>3. Cardinality(1..i) <= k
    BY <1>4, <2>2, FS_Subset
  <2>4. Cardinality(1..i) = i
    BY <2>1, IntervalFromOne
  <2>5. QED
    BY <1>4, <2>1, <2>3, <2>4
<1>6. A = 1..k
  <2>1. IsFiniteSet(1..k) /\ Cardinality(1..k) = k
    BY <1>4, IntervalFromOne
  <2>2. A \in SUBSET (1..k)
    BY <1>5
  <2>3. QED
    BY <2>1, <2>2, FS_Subset
<1>7. ASSUME NEW i \in 1..Len(q)
      PROVE  i <= k <=> q[i].start < t
  <2>1. i <= k <=> i \in A
    BY <1>1, <1>4, <1>6
  <2>2. i \in A <=> q[i].start < t
    BY <1>1 DEF A
  <2>3. QED
    BY <2>1, <2>2
<1>8. k \in 0..Len(q)
  BY <1>1, <1>4
<1>9. QED
  BY <1>7, <1>8 DEF A

\* The last bar is the newest.
LEMMA LastIsNewestOf ==
    ASSUME NEW q \in Seq(Abstract!Snapshot), q # <<>>, Ordered(q)
    PROVE  /\ Abstract!NewestOf(ToSet(q)) = Last(q)
            /\ Last(q) \in Abstract!Snapshot
<1>1. /\ Len(q) \in Nat /\ Len(q) > 0
      /\ \A i \in 1..Len(q) : q[i] \in Abstract!Snapshot /\ q[i].start \in Int
  BY LenProperties, ElementOfSeq, EmptySeq, StartIsTime
<1> DEFINE n == Len(q)
<1>2. Last(q) = q[n] /\ q[n] \in ToSet(q)
  BY <1>1, ToSetMember DEF Last
<1>3. \A x \in ToSet(q) : x.start <= q[n].start
  <2>1. ASSUME NEW i \in 1..n
        PROVE  q[i].start <= q[n].start
    BY <1>1, <2>1 DEF Ordered
  <2>2. QED
    BY <2>1, ToSetMember
<1>4. ASSUME NEW y \in ToSet(q), \A x \in ToSet(q) : x.start <= y.start
      PROVE  y = q[n]
  <2>1. PICK i \in 1..n : y = q[i]
    BY ToSetMember
  <2>2. q[n].start <= q[i].start
    BY <1>2, <1>4, <2>1
  <2>3. QED
    BY <1>1, <2>1, <2>2 DEF Ordered
<1>5. Abstract!NewestOf(ToSet(q)) = q[n]
  BY <1>2, <1>3, <1>4 DEF Abstract!NewestOf
<1>6. QED
  BY <1>1, <1>2, <1>5

\* One snapshot of each interval: the window is as long as its set is big.
LEMMA AsManyAsHeld ==
    ASSUME NEW q \in Seq(Abstract!Snapshot), Ordered(q)
    PROVE  IsFiniteSet(ToSet(q)) /\ Cardinality(ToSet(q)) = Len(q)
<1>1. /\ Len(q) \in Nat /\ q \in [1..Len(q) -> Abstract!Snapshot]
      /\ \A i \in 1..Len(q) : q[i].start \in Int
  BY LenProperties, ElementOfSeq, StartIsTime
<1>2. IsFiniteSet(1..Len(q)) /\ Cardinality(1..Len(q)) = Len(q)
  BY <1>1, IntervalFromOne
<1>3. q \in [1..Len(q) -> ToSet(q)]
  BY <1>1, ToSetMember
<1>4. q \in Surjection(1..Len(q), ToSet(q))
  BY <1>3, ToSetMember DEF Surjection
<1>5. q \in Injection(1..Len(q), ToSet(q))
  <2>1. ASSUME NEW i \in 1..Len(q), NEW j \in 1..Len(q), q[i] = q[j]
        PROVE  i = j
    <3>1. ~(i < j) /\ ~(j < i)
      BY <1>1, <2>1 DEF Ordered
    <3>2. QED
      BY <1>1, <3>1
  <2>2. QED
    BY <1>3, <2>1 DEF Injection, IsInjective
<1>6. QED
  BY <1>2, <1>4, <1>5, FS_Surjection

-----------------------------------------------------------------------------
\* Add.

\* A better snapshot takes the place of the one of its interval.
LEMMA Replaced ==
    ASSUME NEW bar \in Abstract!Snapshot, NEW q \in Seq(Abstract!Snapshot),
           Ordered(q), NEW i \in 1..Len(q), q[i].start = bar.start
    PROVE  LET w == [q EXCEPT ![i] = bar]
           IN  /\ w \in Seq(Abstract!Snapshot) /\ Len(w) = Len(q)
               /\ Ordered(w)
               /\ ToSet(w) = (ToSet(q) \ {q[i]}) \cup {bar}
<1> DEFINE w == [q EXCEPT ![i] = bar]
<1>1. /\ Len(q) \in Nat
      /\ \A j \in 1..Len(q) : q[j].start \in Int
  BY LenProperties, ElementOfSeq, StartIsTime
<1>2. /\ w \in Seq(Abstract!Snapshot) /\ Len(w) = Len(q)
      /\ \A j \in 1..Len(q) : w[j] = IF j = i THEN bar ELSE q[j]
  BY ExceptSeq
<1> HIDE DEF w
<1>3. \A j \in 1..Len(q) : w[j].start = q[j].start
  BY <1>2
<1>4. Ordered(w)
  BY <1>2, <1>3 DEF Ordered
<1>5. \A j \in 1..Len(q) : j # i => q[j] # q[i]
  BY <1>1 DEF Ordered
<1>6. ToSet(w) = (ToSet(q) \ {q[i]}) \cup {bar}
  <2>1. ASSUME NEW x \in ToSet(w)
        PROVE  x \in (ToSet(q) \ {q[i]}) \cup {bar}
    <3>1. PICK j \in 1..Len(q) : x = w[j]
      BY <1>2, <2>1, ToSetMember
    <3>2. CASE j = i
      BY <1>2, <3>1, <3>2
    <3>3. CASE j # i
      <4>1. x = q[j] /\ q[j] # q[i]
        BY <1>2, <1>5, <3>1, <3>3
      <4>2. q[j] \in ToSet(q)
        BY ToSetMember
      <4>3. QED
        BY <4>1, <4>2
    <3>4. QED
      BY <3>2, <3>3
  <2>2. ASSUME NEW x \in (ToSet(q) \ {q[i]}) \cup {bar}
        PROVE  x \in ToSet(w)
    <3>1. CASE x = bar
      BY <1>2, <3>1, ToSetMember
    <3>2. CASE x \in ToSet(q) /\ x # q[i]
      <4>1. PICK j \in 1..Len(q) : x = q[j]
        BY <3>2, ToSetMember
      <4>2. x = w[j]
        BY <1>2, <3>2, <4>1
      <4>3. QED
        BY <1>2, <4>2, ToSetMember
    <3>3. QED
      BY <2>2, <3>1, <3>2
  <2>3. QED
    BY <2>1, <2>2
<1>7. QED
  BY <1>2, <1>4, <1>6 DEF w

\* A bar of an interval that is not held goes between the earlier and the
\* later ones.
LEMMA Inserted ==
    ASSUME NEW bar \in Abstract!Snapshot, NEW q \in Seq(Abstract!Snapshot),
           Ordered(q), \A i \in 1..Len(q) : q[i].start # bar.start,
           NEW k \in 0..Len(q),
           \A i \in 1..Len(q) : i <= k <=> q[i].start < bar.start
    PROVE  LET w == InsertAt(q, 1 + k, bar)
           IN  /\ w \in Seq(Abstract!Snapshot) /\ Len(w) = Len(q) + 1
               /\ Ordered(w)
               /\ ToSet(w) = ToSet(q) \cup {bar}
               /\ w[1] = IF k = 0 THEN bar ELSE q[1]
               /\ k = 0 => Tail(w) = q
<1> DEFINE p == 1 + k
           w == InsertAt(q, p, bar)
<1>1. /\ Len(q) \in Nat /\ k \in Nat /\ k <= Len(q) /\ p \in 1..Len(q) + 1
      /\ \A j \in 1..Len(q) : q[j] \in Abstract!Snapshot /\ q[j].start \in Int
      /\ bar.start \in Int
  BY LenProperties, ElementOfSeq, StartIsTime
<1> HIDE DEF p
<1>2. /\ w \in Seq(Abstract!Snapshot) /\ Len(w) = Len(q) + 1
      /\ \A j \in 1..Len(q) + 1 :
           w[j] = IF j < p THEN q[j] ELSE IF j = p THEN bar ELSE q[j - 1]
  BY <1>1, InsertAtElements
<1> HIDE DEF w
<1>3. \A j \in 1..Len(q) : /\ j < p => q[j].start < bar.start
                           /\ j >= p => bar.start < q[j].start
  BY <1>1 DEF p
<1>4. Ordered(w)
  <2>1. ASSUME NEW i \in 1..Len(q) + 1, NEW j \in 1..Len(q) + 1, i < j
        PROVE  w[i].start < w[j].start
    <3>1. CASE j < p
      <4>1. i < p /\ i \in 1..Len(q) /\ j \in 1..Len(q)
        BY <1>1, <2>1, <3>1
      <4>2. w[i] = q[i] /\ w[j] = q[j]
        BY <1>2, <3>1, <4>1
      <4>3. QED
        BY <2>1, <4>1, <4>2 DEF Ordered
    <3>2. CASE j = p
      <4>1. i < p /\ i \in 1..Len(q)
        BY <1>1, <2>1, <3>2
      <4>2. w[i] = q[i] /\ w[j] = bar
        BY <1>1, <1>2, <3>2, <4>1
      <4>3. QED
        BY <1>3, <4>1, <4>2
    <3>3. CASE j > p
      <4>1. j - 1 \in 1..Len(q) /\ j - 1 >= p /\ w[j] = q[j - 1]
        BY <1>1, <1>2, <3>3
      <4>2. bar.start < q[j - 1].start
        BY <1>3, <4>1
      <4>3. CASE i = p
        BY <1>1, <1>2, <4>1, <4>2, <4>3
      <4>4. CASE i < p
        <5>1. i \in 1..Len(q) /\ w[i] = q[i]
          BY <1>1, <1>2, <4>4
        <5>2. q[i].start < bar.start
          BY <1>3, <4>4, <5>1
        <5>3. QED
          BY <1>1, <4>1, <4>2, <5>1, <5>2
      <4>5. CASE i > p
        <5>1. i - 1 \in 1..Len(q) /\ i - 1 < j - 1 /\ w[i] = q[i - 1]
          BY <1>1, <1>2, <2>1, <4>5
        <5>2. QED
          BY <4>1, <5>1 DEF Ordered
      <4>6. i = p \/ i < p \/ i > p
        BY <1>1
      <4>7. QED
        BY <4>3, <4>4, <4>5, <4>6, Zenon
    <3>4. j < p \/ j = p \/ j > p
      BY <1>1
    <3>5. QED
      BY <3>1, <3>2, <3>3, <3>4, Zenon
  <2>2. QED
    BY <1>2, <2>1 DEF Ordered
<1>5. ToSet(w) = ToSet(q) \cup {bar}
  <2>1. ASSUME NEW x \in ToSet(w)
        PROVE  x \in ToSet(q) \cup {bar}
    <3>1. PICK j \in 1..Len(q) + 1 : x = w[j]
      BY <1>2, <2>1, ToSetMember
    <3>2. CASE j < p
      <4>1. j \in 1..Len(q) /\ x = q[j]
        BY <1>1, <1>2, <3>1, <3>2
      <4>2. QED
        BY <4>1, ToSetMember
    <3>3. CASE j = p
      BY <1>1, <1>2, <3>1, <3>3
    <3>4. CASE j > p
      <4>1. j - 1 \in 1..Len(q) /\ x = q[j - 1]
        BY <1>1, <1>2, <3>1, <3>4
      <4>2. QED
        BY <4>1, ToSetMember
    <3>5. j < p \/ j = p \/ j > p
      BY <1>1
    <3>6. QED
      BY <3>2, <3>3, <3>4, <3>5, Zenon
  <2>2. ASSUME NEW x \in ToSet(q) \cup {bar}
        PROVE  x \in ToSet(w)
    <3>1. CASE x = bar
      <4>1. x = w[p] /\ p \in 1..Len(w)
        BY <1>1, <1>2, <3>1
      <4>2. QED
        BY <1>2, <4>1, ToSetMember
    <3>2. CASE x \in ToSet(q)
      <4>1. PICK j \in 1..Len(q) : x = q[j]
        BY <3>2, ToSetMember
      <4>2. CASE j < p
        <5>1. j \in 1..Len(w) /\ x = w[j]
          BY <1>1, <1>2, <4>1, <4>2
        <5>2. QED
          BY <1>2, <5>1, ToSetMember
      <4>3. CASE j >= p
        <5>1. j + 1 \in 1..Len(q) + 1 /\ j + 1 > p /\ (j + 1) - 1 = j
          BY <1>1, <4>3
        <5>2. w[j + 1] = q[(j + 1) - 1]
          BY <1>1, <1>2, <5>1
        <5>3. j + 1 \in 1..Len(w) /\ x = w[j + 1]
          BY <1>2, <4>1, <5>1, <5>2
        <5>4. QED
          BY <1>2, <5>3, ToSetMember
      <4>4. j < p \/ j >= p
        BY <1>1
      <4>5. QED
        BY <4>2, <4>3, <4>4, Zenon
    <3>3. QED
      BY <2>2, <3>1, <3>2
  <2>3. QED
    BY <2>1, <2>2
<1>6. w[1] = IF k = 0 THEN bar ELSE q[1]
  BY <1>1, <1>2 DEF p
<1>7. k = 0 => Tail(w) = q
  <2>1. SUFFICES ASSUME k = 0
                 PROVE  Tail(w) = q
    OBVIOUS
  <2>2. w # <<>>
    BY <1>1, <1>2, EmptySeq
  <2>3. /\ Tail(w) \in Seq(Abstract!Snapshot) /\ Len(Tail(w)) = Len(q)
        /\ \A j \in 1..Len(q) : Tail(w)[j] = w[j + 1]
    <3>1. /\ Tail(w) \in Seq(Abstract!Snapshot) /\ Len(Tail(w)) = Len(w) - 1
          /\ \A j \in 1..Len(Tail(w)) : Tail(w)[j] = w[j + 1]
      BY <1>2, <2>2, HeadTailProperties
    <3>2. Len(Tail(w)) = Len(q)
      BY <1>1, <1>2, <3>1
    <3>3. QED
      BY <3>1, <3>2
  <2>4. ASSUME NEW j \in 1..Len(q)
        PROVE  Tail(w)[j] = q[j]
    <3>1. j + 1 \in 1..Len(q) + 1 /\ j + 1 > p /\ (j + 1) - 1 = j
      BY <1>1, <2>1 DEF p
    <3>2. w[j + 1] = q[(j + 1) - 1]
      BY <1>1, <1>2, <3>1
    <3>3. QED
      BY <2>3, <3>1, <3>2
  <2>5. QED
    BY <2>3, <2>4, SeqEqual
<1>8. QED
  BY <1>2, <1>4, <1>5, <1>6, <1>7 DEF w, p

\* Without its first bar a window is still in order, and holds one bar less.
LEMMA WithoutFirst ==
    ASSUME NEW q \in Seq(Abstract!Snapshot), q # <<>>, Ordered(q)
    PROVE  /\ Tail(q) \in Seq(Abstract!Snapshot)
           /\ Len(Tail(q)) = Len(q) - 1
           /\ Ordered(Tail(q))
           /\ ToSet(Tail(q)) = ToSet(q) \ {q[1]}
<1> DEFINE w == Tail(q)
<1>1. /\ w \in Seq(Abstract!Snapshot) /\ Len(w) = Len(q) - 1
      /\ \A j \in 1..Len(w) : w[j] = q[j + 1]
  BY HeadTailProperties
<1>2. /\ Len(q) \in Nat /\ Len(q) > 0
      /\ \A j \in 1..Len(q) : q[j].start \in Int
  BY LenProperties, ElementOfSeq, EmptySeq, StartIsTime
<1> HIDE DEF w
<1>3. Ordered(w)
  <2>1. ASSUME NEW i \in 1..Len(w), NEW j \in 1..Len(w), i < j
        PROVE  w[i].start < w[j].start
    <3>1. /\ i + 1 \in 1..Len(q) /\ j + 1 \in 1..Len(q) /\ i + 1 < j + 1
          /\ w[i] = q[i + 1] /\ w[j] = q[j + 1]
      BY <1>1, <1>2, <2>1
    <3>2. QED
      BY <3>1 DEF Ordered
  <2>2. QED
    BY <2>1 DEF Ordered
<1>4. ToSet(w) = ToSet(q) \ {q[1]}
  <2>1. ASSUME NEW x \in ToSet(w)
        PROVE  x \in ToSet(q) \ {q[1]}
    <3>1. PICK j \in 1..Len(w) : x = w[j]
      BY <1>1, <2>1, ToSetMember
    <3>2. j + 1 \in 1..Len(q) /\ 1 \in 1..Len(q) /\ 1 < j + 1 /\ x = q[j + 1]
      BY <1>1, <1>2, <3>1
    <3>3. q[1].start < q[j + 1].start
      BY <3>2 DEF Ordered
    <3>4. q[j + 1] # q[1]
      BY <1>2, <3>2, <3>3
    <3>5. QED
      BY <3>2, <3>4, ToSetMember
  <2>2. ASSUME NEW x \in ToSet(q) \ {q[1]}
        PROVE  x \in ToSet(w)
    <3>1. PICK j \in 1..Len(q) : x = q[j]
      BY <2>2, ToSetMember
    <3>2. j # 1
      BY <2>2, <3>1
    <3>3. j - 1 \in 1..Len(w) /\ (j - 1) + 1 = j
      BY <1>1, <1>2, <3>2
    <3>4. x = w[j - 1]
      BY <1>1, <3>1, <3>3
    <3>5. QED
      BY <1>1, <3>3, <3>4, ToSetMember
  <2>3. QED
    BY <2>1, <2>2
<1>5. QED
  BY <1>1, <1>3, <1>4 DEF w

\* The window after Add: what has become of the set that is held.
LEMMA AfterAdd ==
    ASSUME WindowInv, NEW bar \in Abstract!Snapshot, Accepts(bar)
    PROVE  LET q == bars[bar.symbol]
               w == WindowWith(bar)
           IN  /\ w \in Seq(Abstract!Snapshot) /\ Len(w) <= Limit
               /\ Ordered(w) /\ w # <<>>
               /\ \/ w = q
                  \/ \E old \in ToSet(q) :
                        /\ old.start = bar.start /\ shouldReplace(old, bar)
                        /\ ToSet(w) = (ToSet(q) \ {old}) \cup {bar}
                  \/ /\ \A old \in ToSet(q) : old.start # bar.start
                     /\ Len(q) < Limit
                     /\ ToSet(w) = ToSet(q) \cup {bar}
                  \/ /\ \A old \in ToSet(q) : old.start # bar.start
                     /\ Len(q) = Limit /\ q # <<>>
                     /\ q[1].start < bar.start
                     /\ ToSet(w) = (ToSet(q) \ {q[1]}) \cup {bar}
<1> DEFINE q == bars[bar.symbol]
           w == WindowWith(bar)
<1>1. /\ q \in Seq(Abstract!Snapshot) /\ Ordered(q)
      /\ Len(q) \in Nat /\ Len(q) <= Limit /\ DOMAIN q = 1..Len(q)
      /\ bar.start \in Int
      /\ \A j \in 1..Len(q) : q[j].start \in Int
  <2>1. q \in Seq(Abstract!Snapshot) /\ Ordered(q) /\ Len(q) <= Limit
    BY StartIsTime DEF WindowInv
  <2>2. QED
    BY <2>1, LenProperties, ElementOfSeq, StartIsTime
<1>2. Limit \in Nat /\ Limit > 0
  BY StoreAssumption
<1> HIDE DEF q, w
<1>3. CASE Holds(bar)
  <2> DEFINE i == indexOfKey(bar)
  <2>1. i \in 1..Len(q) /\ q[i].start = bar.start
    BY <1>1, <1>3 DEF Holds, indexOfKey, q
  <2>2. shouldReplace(q[i], bar)
    BY <1>3 DEF Accepts, q
  <2>3. w = [q EXCEPT ![i] = bar]
    BY <1>3 DEF WindowWith, q, w
  <2>4. q[i] \in ToSet(q)
    BY <1>1, <2>1, ToSetMember
  <2> HIDE DEF i
  <2>5. /\ w \in Seq(Abstract!Snapshot) /\ Len(w) = Len(q) /\ Ordered(w)
        /\ ToSet(w) = (ToSet(q) \ {q[i]}) \cup {bar}
    BY <1>1, <2>1, <2>3, Replaced
  <2>6. w # <<>>
    BY <1>1, <2>1, <2>5, EmptySeq
  <2>7. QED
    BY <1>1, <2>1, <2>2, <2>4, <2>5, <2>6 DEF q, w
<1>4. CASE ~Holds(bar)
  <2> DEFINE k == Cardinality({i \in DOMAIN q : q[i].start < bar.start})
             v == InsertAt(q, 1 + k, bar)
  <2>1. \A i \in 1..Len(q) : q[i].start # bar.start
    BY <1>1, <1>4 DEF Holds, q
  <2>2. /\ k \in 0..Len(q)
        /\ \A i \in 1..Len(q) : i <= k <=> q[i].start < bar.start
    BY <1>1, EarlierBars
  <2>3. w = IF Len(v) > Limit THEN Tail(v) ELSE v
    BY <1>4 DEF WindowWith, InsertPosition, Evict, q, w
  <2>4. \A old \in ToSet(q) : old.start # bar.start
    BY <1>1, <2>1, ToSetMember
  <2> HIDE DEF k
  <2>5. /\ v \in Seq(Abstract!Snapshot) /\ Len(v) = Len(q) + 1 /\ Ordered(v)
        /\ ToSet(v) = ToSet(q) \cup {bar}
        /\ v[1] = IF k = 0 THEN bar ELSE q[1]
        /\ k = 0 => Tail(v) = q
    <3>1. q \in Seq(Abstract!Snapshot) /\ Ordered(q)
      BY <1>1
    <3>2. QED
      BY <2>1, <2>2, <3>1, Inserted DEF v
  <2> HIDE DEF v
  <2>6. v # <<>>
    BY <1>1, <2>5, EmptySeq
  <2>7. CASE Len(q) < Limit
    <3>1. w = v
      BY <1>1, <1>2, <2>3, <2>5, <2>7
    <3>2. Len(w) <= Limit
      BY <1>1, <1>2, <2>5, <2>7, <3>1
    <3>3. QED
      BY <2>4, <2>5, <2>6, <2>7, <3>1, <3>2 DEF q, w
  <2>8. CASE Len(q) = Limit
    <3>1. w = Tail(v)
      BY <1>1, <1>2, <2>3, <2>5, <2>8
    <3>2. /\ w \in Seq(Abstract!Snapshot) /\ Len(w) = Limit /\ Ordered(w)
          /\ ToSet(w) = ToSet(v) \ {v[1]}
      <4>1. /\ w \in Seq(Abstract!Snapshot) /\ Len(w) = Len(v) - 1 /\ Ordered(w)
            /\ ToSet(w) = ToSet(v) \ {v[1]}
        BY <2>5, <2>6, <3>1, WithoutFirst
      <4>2. Len(w) = Limit
        BY <1>1, <2>5, <2>8, <4>1
      <4>3. QED
        BY <4>1, <4>2
    <3>3. w # <<>> /\ q # <<>>
      BY <1>1, <1>2, <2>8, <3>2, EmptySeq
    <3>4. CASE k = 0
      BY <1>2, <2>5, <3>1, <3>2, <3>3, <3>4 DEF q, w
    <3>5. CASE k # 0
      <4>1. 1 \in 1..Len(q) /\ 1 <= k
        BY <1>1, <1>2, <2>2, <2>8, <3>5
      <4>2. q[1].start < bar.start /\ q[1] # bar
        BY <1>1, <2>1, <2>2, <4>1
      <4>3. ToSet(w) = (ToSet(q) \ {q[1]}) \cup {bar}
        BY <2>5, <3>2, <3>5, <4>2
      <4>4. QED
        BY <1>2, <2>4, <2>8, <3>2, <3>3, <4>2, <4>3 DEF q, w
    <3>6. QED
      BY <3>4, <3>5
  <2>9. Len(q) < Limit \/ Len(q) = Limit
    <3>1. \A a, b \in Nat : a <= b => a < b \/ a = b
      OBVIOUS
    <3>2. QED
      BY <1>1, <1>2, <3>1, Zenon
  <2>10. QED
    BY <2>7, <2>8, <2>9, Zenon
<1>5. QED
  BY <1>3, <1>4

-----------------------------------------------------------------------------
\* The invariant.

LEMMA InitWindowInv == WindowInit => WindowInv
<1> SUFFICES ASSUME WindowInit
             PROVE  WindowInv
  OBVIOUS
<1>1. \A s \in Symbols : bars[s] = <<>>
  BY DEF WindowInit
<1>2. Len(<<>>) = 0 /\ <<>> \in Seq(Abstract!Snapshot)
  BY EmptySeq
<1>3. bars \in [Symbols -> Seq(Abstract!Snapshot)]
  BY <1>2 DEF WindowInit
<1>4. \A s \in Symbols : Len(bars[s]) <= Limit /\ Ordered(bars[s])
  <2>1. 0 <= Limit /\ 1..0 = {}
    BY StoreAssumption
  <2>2. Ordered(<<>>)
    BY <1>2, <2>1 DEF Ordered
  <2>3. QED
    BY <1>1, <1>2, <2>1, <2>2
<1>5. LastIsNewest
  BY <1>1 DEF WindowInit, LastIsNewest
<1>6. QED
  BY <1>3, <1>4, <1>5 DEF WindowInv

LEMMA ArrivingBar ==
    ASSUME NEW bar \in LiveBars \cup RestBars
    PROVE  bar \in Abstract!Snapshot
  BY DEF LiveBars, RestBars

LEMMA AddKeepsInv ==
    ASSUME WindowInv, NEW bar \in Abstract!Snapshot, Add(bar)
    PROVE  WindowInv'
<1> DEFINE s == bar.symbol
           w == WindowWith(bar)
<1>1. s \in Symbols
  BY StartIsTime
<1>2. w \in Seq(Abstract!Snapshot) /\ Len(w) <= Limit /\ Ordered(w) /\ w # <<>>
  BY AfterAdd DEF Add
<1>3. /\ bars' = [bars EXCEPT ![s] = w]
      /\ lastAt' = [lastAt EXCEPT ![s] = Last(bars'[s])]
  BY DEF Add
<1> HIDE DEF s, w
<1>4. bars'[s] = w /\ \A x \in Symbols : x # s => bars'[x] = bars[x]
  BY <1>1, <1>3 DEF WindowInv
<1>5. bars' \in [Symbols -> Seq(Abstract!Snapshot)]
  BY <1>1, <1>2, <1>3 DEF WindowInv
<1>6. \A x \in Symbols : Len(bars'[x]) <= Limit /\ Ordered(bars'[x])
  BY <1>2, <1>4 DEF WindowInv
<1>7. lastAt' = [x \in Symbols |-> IF bars'[x] = <<>> THEN Abstract!NoBar
                                  ELSE Last(bars'[x])]
  <2>1. lastAt' = [lastAt EXCEPT ![s] = Last(bars'[s])]
    BY <1>3
  <2>2. lastAt = [x \in Symbols |-> IF bars[x] = <<>> THEN Abstract!NoBar
                                   ELSE Last(bars[x])]
    BY DEF WindowInv, LastIsNewest
  <2>3. bars'[s] # <<>>
    BY <1>2, <1>4
  <2>4. QED
    BY <1>1, <1>4, <2>1, <2>2, <2>3
<1>8. QED
  BY <1>5, <1>6, <1>7 DEF WindowInv, LastIsNewest

LEMMA NextWindowInv == WindowInv /\ [WindowNext]_windowVars => WindowInv'
<1> SUFFICES ASSUME WindowInv, [WindowNext]_windowVars
             PROVE  WindowInv'
  OBVIOUS
<1>1. CASE WindowNext
  BY <1>1, ArrivingBar, AddKeepsInv DEF WindowNext
<1>2. CASE UNCHANGED windowVars
  BY <1>2 DEF windowVars, WindowInv, LastIsNewest
<1>3. QED
  BY <1>1, <1>2

LEMMA WindowAlwaysInv == WindowSpec => []WindowInv
  BY InitWindowInv, NextWindowInv, PTL DEF WindowSpec

LEMMA WindowInvTyped == WindowInv => WindowTypeOK
<1> SUFFICES ASSUME WindowInv
             PROVE  WindowTypeOK
  OBVIOUS
<1>1. ASSUME NEW s \in Symbols, bars[s] # <<>>
      PROVE  Last(bars[s]) \in Abstract!Snapshot
  <2>1. bars[s] \in Seq(Abstract!Snapshot) /\ Ordered(bars[s])
    BY DEF WindowInv
  <2>2. QED
    BY <1>1, <2>1, LastIsNewestOf
<1>2. lastAt \in [Symbols -> Abstract!Snapshot \cup {Abstract!NoBar}]
  BY <1>1 DEF WindowInv, LastIsNewest
<1>3. QED
  BY <1>2 DEF WindowInv, WindowTypeOK

LEMMA WindowInvChronological == WindowInv => Chronological
<1> SUFFICES ASSUME WindowInv, NEW s \in Symbols
             PROVE  Ordered(bars[s]) /\ DOMAIN bars[s] = 1..Len(bars[s])
  BY DEF Chronological, Ordered
<1> QED
  BY LenProperties DEF WindowInv

\* The windows stay within their limit and Last is a held bar or none.
THEOREM WindowTypeCorrect == WindowSpec => []WindowTypeOK
  BY WindowInvTyped, WindowAlwaysInv, PTL

\* The window is in strictly increasing interval order, whatever arrives and
\* in whatever order: what Add's binary search (window.go 46-57) takes for
\* granted, and what makes the first bar the one to evict.
THEOREM WindowChronological == WindowSpec => []Chronological
  BY WindowInvChronological, WindowAlwaysInv, PTL

-----------------------------------------------------------------------------
\* The refinement.

\* A better snapshot in the code's sense is one in WindowMap's.
LEMMA ReplacementImproves ==
    ASSUME NEW old, NEW bar, shouldReplace(old, bar)
    PROVE  Abstract!MayImprove(old, bar) /\ old # bar
  BY DEF shouldReplace, Abstract!MayImprove, Abstract!LiveComplete,
         liveComplete, sameGeneration, SnapshotID

\* WindowMap counts with its own instance of the library's definition.
LEMMA SameCardinality ==
    ASSUME NEW S
    PROVE  Abstract!Cardinality(S) = Cardinality(S)
  BY DEF Cardinality, Abstract!Cardinality

LEMMA AddSimulates ==
    ASSUME WindowInv, NEW bar \in Abstract!Snapshot, Add(bar)
    PROVE  Abstract!MapNext \/ UNCHANGED Abstract!mapVars
<1> DEFINE s == bar.symbol
           q == bars[s]
           w == WindowWith(bar)
           S == ToSet(w)
<1>1. s \in Symbols /\ bar.start \in Int
  BY StartIsTime
<1>2. /\ q \in Seq(Abstract!Snapshot) /\ Ordered(q)
      /\ bars \in [Symbols -> Seq(Abstract!Snapshot)]
      /\ lastAt = [x \in Symbols |-> IF bars[x] = <<>> THEN Abstract!NoBar
                                     ELSE Last(bars[x])]
  BY <1>1 DEF WindowInv, LastIsNewest
<1>3. /\ bars' = [bars EXCEPT ![s] = w]
      /\ lastAt' = [lastAt EXCEPT ![s] = Last(bars'[s])]
  BY DEF Add
<1>4. /\ w \in Seq(Abstract!Snapshot) /\ Ordered(w) /\ w # <<>>
      /\ \/ w = q
         \/ \E old \in ToSet(q) :
               /\ old.start = bar.start /\ shouldReplace(old, bar)
               /\ S = (ToSet(q) \ {old}) \cup {bar}
         \/ /\ \A old \in ToSet(q) : old.start # bar.start
            /\ Len(q) < Limit
            /\ S = ToSet(q) \cup {bar}
         \/ /\ \A old \in ToSet(q) : old.start # bar.start
            /\ Len(q) = Limit /\ q # <<>>
            /\ q[1].start < bar.start
            /\ S = (ToSet(q) \ {q[1]}) \cup {bar}
  BY AfterAdd DEF Add
<1>5. Abstract!NewestOf(S) = Last(w)
  BY <1>4, LastIsNewestOf
<1>6. Cardinality(ToSet(q)) = Len(q)
  BY <1>2, AsManyAsHeld
<1> DEFINE held == [x \in Symbols |-> ToSet(bars[x])]
           heldNext == [x \in Symbols |-> ToSet(bars'[x])]
<1>7. held[s] = ToSet(q) /\ heldNext[s] = S
  BY <1>1, <1>2, <1>3
<1>8. bars'[s] = w
  BY <1>1, <1>2, <1>3
<1> HIDE DEF q, w, S
<1>9. Abstract!Becomes(s, S)
  <2>1. heldNext = [held EXCEPT ![s] = S]
    BY <1>1, <1>2, <1>3, <1>7 DEF S
  <2>2. lastAt' = [lastAt EXCEPT ![s] = Abstract!NewestOf(S)]
    BY <1>3, <1>5, <1>8
  <2>3. QED
    BY <2>1, <2>2 DEF Abstract!Becomes
<1>10. CASE w = q
  <2>1. bars' = bars
    BY <1>1, <1>2, <1>3, <1>10 DEF q
  <2>2. lastAt' = lastAt
    BY <1>1, <1>2, <1>3, <1>4, <1>8, <1>10 DEF q
  <2>3. QED
    BY <2>1, <2>2 DEF Abstract!mapVars
<1>11. ASSUME NEW old \in ToSet(q), old.start = bar.start,
              shouldReplace(old, bar), S = (ToSet(q) \ {old}) \cup {bar}
       PROVE  Abstract!MapNext
  <2>1. Abstract!MayImprove(old, bar) /\ old # bar
    BY <1>11, ReplacementImproves
  <2>2. bar \notin ToSet(q)
    <3>1. SUFFICES ASSUME bar \in ToSet(q)
                   PROVE  FALSE
      OBVIOUS
    <3>2. PICK i \in 1..Len(q) : bar = q[i]
      BY <1>2, <3>1, ToSetMember
    <3>3. PICK j \in 1..Len(q) : old = q[j]
      BY <1>2, <1>11, ToSetMember
    <3>4. Len(q) \in Nat /\ q[i].start \in Int
      BY <1>1, <1>2, <3>2, LenProperties
    <3>5. i # j
      BY <2>1, <3>2, <3>3
    <3>6. i < j \/ j < i
      BY <3>4, <3>5
    <3>7. QED
      BY <1>2, <1>11, <3>2, <3>3, <3>4, <3>6 DEF Ordered
  <2>3. bar \in heldNext[s] \ held[s]
    BY <1>7, <1>11, <2>2
  <2>4. Abstract!Improve(bar)
    BY <1>7, <1>9, <1>11, <2>1 DEF Abstract!Improve
  <2>5. QED
    BY <1>1, <2>3, <2>4 DEF Abstract!MapNext
<1>12. CASE /\ \A old \in ToSet(q) : old.start # bar.start
            /\ Len(q) < Limit
            /\ S = ToSet(q) \cup {bar}
  <2>1. bar \in heldNext[s] \ held[s]
    BY <1>7, <1>12
  <2>2. Abstract!Extend(bar)
    BY <1>6, <1>7, <1>9, <1>12, SameCardinality DEF Abstract!Extend
  <2>3. QED
    BY <1>1, <2>1, <2>2 DEF Abstract!MapNext
<1>13. CASE /\ \A old \in ToSet(q) : old.start # bar.start
            /\ Len(q) = Limit /\ q # <<>>
            /\ q[1].start < bar.start
            /\ S = (ToSet(q) \ {q[1]}) \cup {bar}
  <2>1. bar \in heldNext[s] \ held[s]
    BY <1>7, <1>13
  <2>2. Len(q) \in Nat /\ 1 \in 1..Len(q) /\ q[1] \in ToSet(q)
    <3>1. Len(q) \in Nat \ {0}
      BY <1>2, <1>13, EmptySeq
    <3>2. 1 \in 1..Len(q)
      BY <3>1
    <3>3. QED
      BY <1>2, <3>1, <3>2, ToSetMember
  <2>3. \A other \in ToSet(q) : q[1].start <= other.start
    <3>1. ASSUME NEW i \in 1..Len(q)
          PROVE  q[1].start <= q[i].start
      <4>1. q[i].start \in Int
        BY <1>2, ElementOfSeq, StartIsTime
      <4>2. i = 1 \/ 1 < i
        BY <2>2
      <4>3. QED
        BY <1>2, <2>2, <4>1, <4>2, ElementOfSeq, StartIsTime DEF Ordered
    <3>2. QED
      BY <1>2, <3>1, ToSetMember
  <2>4. Abstract!Displace(bar)
    BY <1>6, <1>7, <1>9, <1>13, <2>2, <2>3, SameCardinality
    DEF Abstract!Displace
  <2>5. QED
    BY <1>1, <2>1, <2>4 DEF Abstract!MapNext
<1>14. QED
  BY <1>4, <1>10, <1>11, <1>12, <1>13

LEMMA WindowStepSimulates ==
    ASSUME WindowInv, [WindowNext]_windowVars
    PROVE  [Abstract!MapNext]_(Abstract!mapVars)
<1>1. CASE WindowNext
  <2>1. PICK bar \in LiveBars \cup RestBars : Add(bar)
    BY <1>1 DEF WindowNext
  <2>2. bar \in Abstract!Snapshot
    BY ArrivingBar
  <2>3. QED
    BY <2>1, <2>2, AddSimulates
<1>2. CASE UNCHANGED windowVars
  BY <1>2 DEF windowVars, Abstract!mapVars
<1>3. QED
  BY <1>1, <1>2

\* The sorted, bounded slice implements the map of best snapshots, for every
\* limit, every set of symbols and contents, and every order of arrival.
THEOREM WindowImplementsMap == WindowSpec => ImplementsWindowMap
<1>1. ASSUME WindowInit
      PROVE  Abstract!MapInit
  <2>1. ToSet(<<>>) = {}
    BY DEF ToSet
  <2>2. QED
    BY <1>1, <2>1 DEF WindowInit, Abstract!MapInit
<1>2. WindowInv /\ [WindowNext]_windowVars
        => [Abstract!MapNext]_(Abstract!mapVars)
  BY WindowStepSimulates
<1>3. QED
  BY <1>1, <1>2, WindowAlwaysInv, PTL
  DEF WindowSpec, ImplementsWindowMap, Abstract!MapSpec

-----------------------------------------------------------------------------
(* Readiness, told by starts: in an ordered window the last finalized bar is *)
(* the latest one.                                                         *)

LatestFinal(S, bar) ==
    /\ bar \in S /\ bar.isFinal
    /\ \A other \in S : other.isFinal => other.start <= bar.start

ReadyHead(S, bar) ==
    /\ LatestFinal(S, bar) /\ ModelEligible(bar)
    /\ \E other \in S : other.isFinal /\ other.start < bar.start

LEMMA FinalizedOf ==
    ASSUME NEW q \in Seq(Abstract!Snapshot)
    PROVE  /\ \A i : i \in Finalized(q) <=> i \in 1..Len(q) /\ q[i].isFinal
           /\ \A i \in 1..Len(q) : q[i] \in Abstract!Snapshot
                                   /\ q[i] \in ToSet(q) /\ q[i].start \in Int
           /\ DOMAIN q = 1..Len(q) /\ Len(q) \in Nat
<1>1. DOMAIN q = 1..Len(q) /\ Len(q) \in Nat
  BY LenProperties
<1>2. \A i \in 1..Len(q) : q[i] \in Abstract!Snapshot
  BY ElementOfSeq
<1>3. \A i \in 1..Len(q) : q[i] \in ToSet(q)
  BY ToSetMember
<1>4. \A i \in 1..Len(q) : q[i].start \in Int
  BY <1>2, StartIsTime
<1>5. \A i : i \in Finalized(q) <=> i \in 1..Len(q) /\ q[i].isFinal
  BY <1>1 DEF Finalized
<1> QED
  BY <1>1, <1>2, <1>3, <1>4, <1>5

LEMMA LastIsLatest ==
    ASSUME NEW q \in Seq(Abstract!Snapshot), Ordered(q), NEW i \in 1..Len(q)
    PROVE  LastFinalized(q, i) <=> LatestFinal(ToSet(q), q[i])
<1>1. /\ Len(q) \in Nat /\ q[i] \in ToSet(q)
      /\ \A j \in 1..Len(q) : q[j].start \in Int
  BY FinalizedOf
<1>2. ASSUME LastFinalized(q, i)
      PROVE  LatestFinal(ToSet(q), q[i])
  <2>1. q[i].isFinal
    BY <1>2, FinalizedOf DEF LastFinalized
  <2>2. ASSUME NEW other \in ToSet(q), other.isFinal
        PROVE  other.start <= q[i].start
    <3>1. PICK j \in 1..Len(q) : other = q[j]
      BY ToSetMember
    <3>2. j <= i
      BY <1>2, <2>2, <3>1, FinalizedOf DEF LastFinalized
    <3>3. CASE j = i
      BY <1>1, <3>1, <3>3
    <3>4. CASE j < i
      <4>1. q[j].start < q[i].start
        BY <3>4 DEF Ordered
      <4> QED
        BY <1>1, <3>1, <4>1
    <3> QED
      BY <1>1, <3>2, <3>3, <3>4
  <2> QED
    BY <1>1, <2>1, <2>2 DEF LatestFinal
<1>3. ASSUME LatestFinal(ToSet(q), q[i])
      PROVE  LastFinalized(q, i)
  <2>1. i \in Finalized(q)
    BY <1>3, FinalizedOf DEF LatestFinal
  <2>2. ASSUME NEW j \in Finalized(q)
        PROVE  j <= i
    <3>1. j \in 1..Len(q) /\ q[j].isFinal /\ q[j] \in ToSet(q)
      BY FinalizedOf
    <3>2. q[j].start <= q[i].start
      BY <1>3, <3>1 DEF LatestFinal
    <3>3. i < j => q[i].start < q[j].start
      BY <3>1 DEF Ordered
    <3> QED
      BY <1>1, <3>1, <3>2, <3>3
  <2> QED
    BY <2>1, <2>2 DEF LastFinalized
<1> QED
  BY <1>2, <1>3

LEMMA ReadyByStarts ==
    ASSUME NEW q \in Seq(Abstract!Snapshot), Ordered(q)
    PROVE  InferReady(q) <=> \E bar \in ToSet(q) : ReadyHead(ToSet(q), bar)
<1>1. /\ Len(q) \in Nat /\ DOMAIN q = 1..Len(q)
      /\ \A j \in 1..Len(q) : q[j].start \in Int /\ q[j] \in ToSet(q)
  BY FinalizedOf
<1>2. ASSUME NEW i \in 1..Len(q), LastFinalized(q, i)
      PROVE  ContiguousFinalized(q, i)
               <=> \E other \in ToSet(q) :
                      other.isFinal /\ other.start < q[i].start
  <2>1. \A j \in Finalized(q) : j \in 1..Len(q) /\ q[j].isFinal /\ j <= i
    BY <1>2, FinalizedOf DEF LastFinalized
  <2>2. \A j \in Finalized(q) \ {i} : j < i /\ q[j].start < q[i].start
    <3>1. \A j \in Finalized(q) \ {i} : j < i
      BY <1>1, <2>1
    <3> QED
      BY <2>1, <3>1 DEF Ordered
  <2>3. ContiguousFinalized(q, i) <=> \E j \in Finalized(q) : j < i
    BY <2>2 DEF ContiguousFinalized
  <2>4. ASSUME NEW j \in Finalized(q), j < i
        PROVE  \E other \in ToSet(q) :
                  other.isFinal /\ other.start < q[i].start
    <3>1. q[j].start < q[i].start
      BY <2>1, <2>4 DEF Ordered
    <3> QED
      BY <1>1, <2>1, <3>1
  <2>5. ASSUME NEW other \in ToSet(q), other.isFinal,
               other.start < q[i].start
        PROVE  \E j \in Finalized(q) : j < i
    <3>1. PICK j \in 1..Len(q) : other = q[j]
      BY ToSetMember
    <3>2. j \in Finalized(q)
      BY <2>5, <3>1, FinalizedOf
    <3>3. j # i
      BY <1>1, <2>5, <3>1
    <3> QED
      BY <2>2, <3>2, <3>3
  <2> QED
    BY <2>3, <2>4, <2>5
<1>3. ASSUME InferReady(q)
      PROVE  \E bar \in ToSet(q) : ReadyHead(ToSet(q), bar)
  <2>1. PICK i \in 1..Len(q) : /\ LastFinalized(q, i)
                               /\ ContiguousFinalized(q, i)
                               /\ ModelEligible(q[i])
    BY <1>1, <1>3 DEF InferReady
  <2>2. ReadyHead(ToSet(q), q[i])
    BY <1>2, <2>1, LastIsLatest DEF ReadyHead
  <2> QED
    BY <1>1, <2>2
<1>4. ASSUME NEW bar \in ToSet(q), ReadyHead(ToSet(q), bar)
      PROVE  InferReady(q)
  <2>1. PICK i \in 1..Len(q) : bar = q[i]
    BY ToSetMember
  <2>2. LastFinalized(q, i)
    BY <1>4, <2>1, LastIsLatest DEF ReadyHead
  <2>3. ContiguousFinalized(q, i) /\ ModelEligible(q[i])
    BY <1>2, <1>4, <2>1, <2>2 DEF ReadyHead
  <2> QED
    BY <1>1, <2>2, <2>3 DEF InferReady
<1> QED
  BY <1>3, <1>4

\* A bar that takes readiness from a set of snapshots, one of each interval.
LEMMA UnreadyingBar ==
    ASSUME NEW S, NEW W, S \subseteq Abstract!Snapshot,
           NEW bar \in LiveBars \cup RestBars,
           NEW head, ReadyHead(S, head),
           \A a, b \in S : a.start = b.start => a = b,
           \/ \E old \in S : /\ old.start = bar.start
                             /\ shouldReplace(old, bar)
                             /\ W = (S \ {old}) \cup {bar}
           \/ /\ \A old \in S : old.start # bar.start
              /\ W = S \cup {bar},
           ~\E any \in W : ReadyHead(W, any)
    PROVE  /\ LatestFinal(W, bar) /\ bar.backfilled
           /\ bar.start > head.start
<1>1. /\ bar \in Abstract!Snapshot /\ bar.start \in Int
      /\ \A b \in S : b.start \in Int
      /\ bar.isFinal \in BOOLEAN
  BY ArrivingBar, StartIsTime DEF Abstract!Snapshot
<1>2. /\ head \in S /\ head.isFinal /\ ModelEligible(head)
      /\ \A b \in S : b.isFinal => b.start <= head.start
  BY DEF ReadyHead, LatestFinal
<1>3. PICK other \in S : other.isFinal /\ other.start < head.start
  BY DEF ReadyHead
<1>4. bar.isFinal /\ ~bar.backfilled => ModelEligible(bar)
  BY DEF LiveBars, RestBars, ModelEligible
<1>5. \A b \in W : b \in S \/ b = bar
  OBVIOUS
<1>6. bar \in W /\ \A b \in S : b.start # bar.start => b \in W
  OBVIOUS
<1>7. CASE ~bar.isFinal
  <2>1. \A b \in S : b.isFinal => b \in W
    BY <1>7 DEF shouldReplace
  <2>2. \A b \in W : b.isFinal => b.start <= head.start
    BY <1>2, <1>5, <1>7
  <2>3. ReadyHead(W, head)
    BY <1>2, <1>3, <2>1, <2>2 DEF ReadyHead, LatestFinal
  <2> QED
    BY <1>2, <2>1, <2>3
<1>8. CASE bar.isFinal /\ bar.start < head.start
  <2>1. head \in W
    BY <1>1, <1>2, <1>6, <1>8
  <2>2. \A b \in W : b.isFinal => b.start <= head.start
    BY <1>1, <1>2, <1>5, <1>8
  <2>3. ReadyHead(W, head)
    BY <1>2, <1>6, <1>8, <2>1, <2>2 DEF ReadyHead, LatestFinal
  <2> QED
    BY <2>1, <2>3
<1>9. CASE bar.isFinal /\ bar.start = head.start
  <2>1. shouldReplace(head, bar)
    BY <1>2, <1>9
  <2>2. ModelEligible(bar)
    BY <1>2, <1>4, <1>9, <2>1 DEF shouldReplace, liveComplete, ModelEligible
  <2>3. \A b \in W : b.isFinal => b.start <= bar.start
    BY <1>1, <1>2, <1>5, <1>9
  <2>4. other \in W /\ other.start < bar.start
    BY <1>1, <1>3, <1>6, <1>9
  <2>5. ReadyHead(W, bar)
    BY <1>3, <1>6, <1>9, <2>2, <2>3, <2>4 DEF ReadyHead, LatestFinal
  <2> QED
    BY <1>6, <2>5
<1>10. CASE bar.isFinal /\ bar.start > head.start
  <2>1. \A b \in W : b.isFinal => b.start <= bar.start
    BY <1>1, <1>2, <1>5, <1>10
  <2>2. LatestFinal(W, bar)
    BY <1>6, <1>10, <2>1 DEF LatestFinal
  <2>3. head \in W /\ head.start < bar.start
    BY <1>1, <1>2, <1>6, <1>10
  <2>4. ModelEligible(bar) => ReadyHead(W, bar)
    BY <1>2, <2>2, <2>3 DEF ReadyHead
  <2>5. bar.backfilled
    BY <1>4, <1>6, <1>10, <2>4
  <2> QED
    BY <1>10, <2>2, <2>5
<1>11. \/ bar.start < head.start \/ bar.start = head.start
       \/ bar.start > head.start
  BY <1>1, <1>2
<1> QED
  BY <1>7, <1>8, <1>9, <1>10, <1>11

LEMMA AddUnreadies ==
    ASSUME WindowInv, NEW bar \in LiveBars \cup RestBars, Accepts(bar),
           NEW q, q = bars[bar.symbol], NEW w, w = WindowWith(bar),
           InferReady(q), Len(q) < Limit, ~InferReady(w)
    PROVE  \E i \in DOMAIN q, j \in DOMAIN w :
              /\ LastFinalized(q, i) /\ LastFinalized(w, j)
              /\ w[j].backfilled /\ w[j].start > q[i].start
<1>1. bar \in Abstract!Snapshot /\ bar.symbol \in Symbols
  BY ArrivingBar, StartIsTime
<1>2. q \in Seq(Abstract!Snapshot) /\ Ordered(q)
  BY <1>1 DEF WindowInv
<1>3. /\ w \in Seq(Abstract!Snapshot) /\ Ordered(w)
      /\ \/ w = q
         \/ \E old \in ToSet(q) :
               /\ old.start = bar.start /\ shouldReplace(old, bar)
               /\ ToSet(w) = (ToSet(q) \ {old}) \cup {bar}
         \/ /\ \A old \in ToSet(q) : old.start # bar.start
            /\ ToSet(w) = ToSet(q) \cup {bar}
         \/ Len(q) = Limit
  BY <1>1, AfterAdd
<1>4. /\ w # q /\ Len(q) # Limit
  <2>1. Len(q) \in Nat /\ Limit \in Nat
    BY <1>2, LenProperties, StoreAssumption
  <2> QED
    BY <2>1
<1>5. PICK head \in ToSet(q) : ReadyHead(ToSet(q), head)
  BY <1>2, ReadyByStarts
<1>6. ~\E any \in ToSet(w) : ReadyHead(ToSet(w), any)
  BY <1>3, ReadyByStarts
<1>7. \A a, b \in ToSet(q) : a.start = b.start => a = b
  <2> SUFFICES ASSUME NEW a \in ToSet(q), NEW b \in ToSet(q),
                      a.start = b.start
               PROVE  a = b
    OBVIOUS
  <2>1. PICK i \in 1..Len(q), j \in 1..Len(q) : a = q[i] /\ b = q[j]
    BY <1>2, ToSetMember
  <2>2. q[i].start \in Int /\ q[j].start \in Int /\ Len(q) \in Nat
    BY <1>2, FinalizedOf
  <2>3. ~(i < j) /\ ~(j < i)
    BY <1>2, <2>1, <2>2 DEF Ordered
  <2> QED
    BY <2>1, <2>2, <2>3
<1>8. ToSet(q) \subseteq Abstract!Snapshot
  BY <1>2, ToSetMember
<1>9. /\ LatestFinal(ToSet(w), bar) /\ bar.backfilled
      /\ bar.start > head.start
  BY <1>3, <1>4, <1>5, <1>6, <1>7, <1>8, UnreadyingBar
<1>10. LatestFinal(ToSet(q), head)
  BY <1>5 DEF ReadyHead
<1>11. PICK i \in 1..Len(q) : head = q[i]
  BY <1>2, ToSetMember
<1>12. PICK j \in 1..Len(w) : bar = w[j]
  BY <1>3, <1>9, ToSetMember DEF LatestFinal
<1>13. LastFinalized(q, i) /\ LastFinalized(w, j)
  BY <1>2, <1>3, <1>9, <1>10, <1>11, <1>12, LastIsLatest
<1>14. DOMAIN q = 1..Len(q) /\ DOMAIN w = 1..Len(w)
  BY <1>2, <1>3, FinalizedOf
<1> QED
  BY <1>9, <1>11, <1>12, <1>13, <1>14

\* Only a later interval that arrives reconstructed takes readiness from a
\* window with room in it: no forming bar, no correction, no gap fill of
\* minutes the window has (P02_DATA_QUALITY, section 3).
THEOREM WindowOnlyReconstructedUnreadies ==
    WindowSpec => OnlyReconstructedHeadUnreadies
<1>1. ASSUME WindowInv, WindowNext, NEW s \in Symbols, InferReady(bars[s]),
             Len(bars[s]) < Limit, ~InferReady(bars'[s])
      PROVE  \E i \in DOMAIN bars[s], j \in DOMAIN bars'[s] :
                /\ LastFinalized(bars[s], i) /\ LastFinalized(bars'[s], j)
                /\ bars'[s][j].backfilled
                /\ bars'[s][j].start > bars[s][i].start
  <2>1. PICK bar \in LiveBars \cup RestBars : Add(bar)
    BY <1>1 DEF WindowNext
  <2>2. bar.symbol \in Symbols
    BY ArrivingBar, StartIsTime
  <2>3. /\ bars'[bar.symbol] = WindowWith(bar)
        /\ bar.symbol # s => bars'[s] = bars[s]
    BY <1>1, <2>1, <2>2 DEF Add, WindowInv
  <2>4. bar.symbol = s
    BY <1>1, <2>3
  <2>5. PICK q, w : q = bars[s] /\ w = WindowWith(bar)
    OBVIOUS
  <2>6. \E i \in DOMAIN q, j \in DOMAIN w :
              /\ LastFinalized(q, i) /\ LastFinalized(w, j)
              /\ w[j].backfilled /\ w[j].start > q[i].start
    <3>1. Accepts(bar) /\ InferReady(q) /\ Len(q) < Limit /\ ~InferReady(w)
      BY <1>1, <2>1, <2>3, <2>4, <2>5 DEF Add
    <3> QED
      BY <1>1, <2>4, <2>5, <3>1, AddUnreadies
  <2> QED
    BY <2>3, <2>4, <2>5, <2>6
<1>2. WindowInv /\ [WindowNext]_windowVars =>
        [\A s \in Symbols :
         InferReady(bars[s]) /\ Len(bars[s]) < Limit /\ ~InferReady(bars'[s]) =>
            \E i \in DOMAIN bars[s], j \in DOMAIN bars'[s] :
                /\ LastFinalized(bars[s], i) /\ LastFinalized(bars'[s], j)
                /\ bars'[s][j].backfilled
                /\ bars'[s][j].start > bars[s][i].start
        ]_windowVars
  BY <1>1
<1> QED
  BY <1>2, WindowAlwaysInv, PTL
     DEF WindowSpec, OnlyReconstructedHeadUnreadies
=============================================================================

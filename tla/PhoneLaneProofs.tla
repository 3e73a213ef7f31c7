--------------------------- MODULE PhoneLaneProofs ---------------------------
(* The phone's positions, for any cars, store, queues, places and number of *)
(* batches: every batch is booked once, as what became of it, its place     *)
(* comes free, and no pending car is passed over.                           *)
EXTENDS PhoneLane, FiniteSetTheorems, SequenceTheorems, TLAPS

LEMMA Least == \A T \in SUBSET Nat : T # {} => \E x \in T : \A y \in T : x <= y
<1> SUFFICES ASSUME NEW T \in SUBSET Nat, NEW t \in T PROVE \E x \in T : \A y \in T : x <= y
  OBVIOUS
<1> DEFINE W == {S \in SUBSET (0 .. t) : \E x \in T : S = 0 .. x}
           R == StrictSubsetOrdering(0 .. t)
<1>1. W \subseteq FiniteSubsetsOf(0 .. t)
  BY FS_Interval, FS_FiniteSubsetsOfFinite
<1>2. 0 .. t \in W
  OBVIOUS
<1>3. IsWellFoundedOn(R, FiniteSubsetsOf(0 .. t))
  BY FS_StrictSubsetOrderingWellFounded
<1>4. PICK S \in W : \A U \in W : ~(<<U, S>> \in R)
  <2> HIDE DEF R, W
  <2> QED BY <1>1, <1>2, <1>3, WFMin
<1>5. PICK x \in T : S = 0 .. x
  OBVIOUS
<1>6. ASSUME NEW y \in T, y < x PROVE FALSE
  <2>1. 0 .. y \subseteq 0 .. x /\ 0 .. y # 0 .. x
    BY <1>6
  <2>2. 0 .. y \in W
    BY <2>1, <1>5
  <2> QED BY <2>1, <2>2, <1>4, <1>5 DEF StrictSubsetOrdering
<1> QED BY <1>6
-----------------------------------------------------------------------------
(* The inductive invariant.                                                *)

InHand == main.step \in {"offer", "put", "send"}

Ends == {"none", "read", "lost"}

\* What TypeOK leaves out, the history above all.
Shape ==
    /\ TypeOK
    /\ IsFiniteSet(inFlight)
    /\ fate \in [Batches -> Ends] /\ booked \in [Batches -> Ends]
    /\ missed \in [Cars -> Nat]

\* A pending car that batches have gone by has moved up by as many records.
TurnsKept ==
    /\ \A i \in 1 .. Len(store) : i + missed[store[i]] * Fit <= Slots
    /\ \A c \in Cars : ~Contains(store, c) => missed[c] = 0

\* The batch the main task has in hand is new: in no queue, counted nowhere,
\* and there is a place for it.
HandNew ==
    /\ InHand =>
        /\ main.batch = last /\ last # 0
        /\ fate[last] = "none" /\ booked[last] = "none"
        /\ ~Contains(queue, last) /\ \A e \in inFlight : e.batch # last
        /\ Cardinality(inFlight) < MaxInFlight
    /\ ~InHand => main.batch = NoBatch
    /\ main.step \in {"offer", "put"} => Preloaded(inFlight) = {}

\* Entries are of batches packed and not booked, one for each.
EntriesApart ==
    /\ \A e \in inFlight : e.batch <= last /\ booked[e.batch] = "none"
    /\ \A e, f \in inFlight :
          e.batch = f.batch \/ (e.preloaded /\ f.preloaded) => e = f
    /\ \A b \in Batches : b > last => fate[b] = "none" /\ booked[b] = "none"

\* A batch is in the phone queue once, and as long as it is not lost.
QueueKnown ==
    /\ \A i \in 1 .. Len(queue) : queue[i] \in Batches =>
          \E e \in inFlight : e.batch = queue[i] /\ ~e.preloaded
    /\ \A i, j \in 1 .. Len(queue) : queue[i] \in Batches /\ queue[i] = queue[j] => i = j
    /\ \A e \in inFlight : ~e.preloaded =>
          fate[e.batch] = IF Contains(queue, e.batch) THEN "none" ELSE "lost"

\* Of a pre-encoded batch the counters tell what became of it, and of nothing
\* else.
PreloadKnown ==
    /\ Preloaded(inFlight) = {} => offered = 0 /\ counts = seen
    /\ \A e \in inFlight : e.preloaded =>
          \/ /\ offered # 0 /\ readQueue[offered] = e.batch
             /\ fate[e.batch] = "none" /\ counts = seen
          \/ /\ offered = 0 /\ fate[e.batch] = "read"
             /\ counts = [seen EXCEPT !.read = @ + 1]
          \/ /\ offered = 0 /\ fate[e.batch] = "lost"
             /\ counts = [seen EXCEPT !.lost = @ + 1]

\* Room for a pre-encoded batch and for the answer to a read that waits.
ReadRoom == waiting => offered <= 1 /\ Len(readQueue) = offered

\* No more is counted than was packed, one for the batch that is offered, or
\* about to be.
ToCount == IF offered # 0 \/ main.step \in {"offer", "put"} THEN 1 ELSE 0

CountsBounded ==
    /\ counts.read + counts.lost + ToCount <= last
    /\ seen.read <= counts.read /\ seen.lost <= counts.lost

IInv ==
    /\ Shape /\ TurnsKept /\ HandNew /\ EntriesApart /\ QueueKnown
    /\ PreloadKnown /\ ReadRoom /\ CountsBounded

-----------------------------------------------------------------------------
(* Constants and sequences.                                                *)

LEMMA Numbers ==
    /\ Slots \in Nat \ {0} /\ Fit \in Nat \ {0} /\ MaxInFlight \in Nat \ {0}
    /\ QueueSize \in Nat \ {0} /\ MaxBatch \in Nat \ {0}
    /\ ReadQueueSize \in Nat /\ ReadQueueSize > 2
BY LaneAssumption

LEMMA Packets ==
    /\ Text \notin Batches /\ Pos \notin Batches /\ Answer \notin Batches
    /\ Text # Pos /\ NoBatch \notin Batches /\ Batches \subseteq Nat
BY LaneAssumption DEF Batches, NoBatch

\* The places behind the one removed move up by one.
LEMMA Removed ==
    ASSUME NEW S, NEW s \in Seq(S), NEW k \in 1 .. Len(s)
    PROVE  /\ RemoveAt(s, k) \in Seq(S) /\ Len(RemoveAt(s, k)) = Len(s) - 1
           /\ \A i \in 1 .. Len(s) - 1 :
                 RemoveAt(s, k)[i] = IF i < k THEN s[i] ELSE s[i + 1]
<1> DEFINE a == SubSeq(s, 1, k - 1)
           b == SubSeq(s, k + 1, Len(s))
<1>1. a \in Seq(S) /\ Len(a) = k - 1 /\ \A i \in 1 .. k - 1 : a[i] = s[i]
  OBVIOUS
<1>2. b \in Seq(S) /\ Len(b) = Len(s) - k /\ \A i \in 1 .. Len(s) - k : b[i] = s[i + k]
  OBVIOUS
<1>3. RemoveAt(s, k) = a \o b
  BY DEF RemoveAt
<1> HIDE DEF a, b
<1>4. /\ a \o b \in Seq(S) /\ Len(a \o b) = Len(s) - 1
      /\ \A i \in 1 .. Len(a) + Len(b) :
            (a \o b)[i] = IF i <= Len(a) THEN a[i] ELSE b[i - Len(a)]
  <2>1. a \in Seq(S) /\ b \in Seq(S) /\ Len(a) + Len(b) = Len(s) - 1
    BY <1>1, <1>2
  <2> QED BY <2>1, ConcatProperties
<1>5. ASSUME NEW i \in 1 .. Len(s) - 1
      PROVE  (a \o b)[i] = IF i < k THEN s[i] ELSE s[i + 1]
  <2>1. CASE i < k
    BY <1>1, <1>2, <1>4, <2>1
  <2>2. CASE ~(i < k)
    <3>1. i - (k - 1) \in 1 .. Len(s) - k /\ i \in 1 .. Len(a) + Len(b) /\ ~(i <= Len(a))
      BY <1>1, <1>2, <2>2
    <3>2. (a \o b)[i] = b[i - (k - 1)]
      BY <1>1, <1>4, <3>1
    <3>3. b[i - (k - 1)] = s[i - (k - 1) + k]
      BY <1>2, <3>1
    <3>4. i - (k - 1) + k = i + 1
      OBVIOUS
    <3> QED BY <2>2, <3>2, <3>3, <3>4
  <2> QED BY <2>1, <2>2
<1> QED BY <1>3, <1>4, <1>5

\* RemoveFirst takes out one place that holds e.
LEMMA RemovedFirst ==
    ASSUME NEW S, NEW s \in Seq(S), NEW e, Contains(s, e)
    PROVE  \E k \in 1 .. Len(s) : s[k] = e /\ RemoveFirst(s, e) = RemoveAt(s, k)
<1> DEFINE I == {i \in 1 .. Len(s) : s[i] = e}
           k == SelectInSeq(s, LAMBDA v : v = e)
<1>1. I # {} /\ I \in SUBSET Nat
  BY DEF Contains
<1>2. k = Min(I)
  BY <1>1 DEF SelectInSeq
<1>3. PICK x \in I : \A y \in I : x <= y
  BY <1>1, Least
<1>4. Min(I) \in I
  BY <1>3 DEF Min
<1>5. RemoveFirst(s, e) = RemoveAt(s, k)
  BY DEF RemoveFirst, Contains
<1> QED BY <1>2, <1>4, <1>5

-----------------------------------------------------------------------------
(* The operators of the lane.                                              *)

Packet == Batches \union {Text, Pos}

\* Where each place of the phone queue was before `packet` was sent: 0 is the
\* packet's own.
LEMMA QueuedFrom ==
    ASSUME queue \in Seq(Packet), Len(queue) <= QueueSize, NEW packet \in Packet
    PROVE  /\ Queued(packet) \in Seq(Packet) /\ Len(Queued(packet)) <= QueueSize
           /\ \E from \in [1 .. Len(Queued(packet)) -> 0 .. Len(queue)] :
                 /\ \A i, j \in 1 .. Len(Queued(packet)) : from[i] = from[j] => i = j
                 /\ \A i \in 1 .. Len(Queued(packet)) : Queued(packet)[i] =
                       IF from[i] = 0 THEN packet ELSE queue[from[i]]
<1> DEFINE q == Queued(packet)
           P(from) == /\ from \in [1 .. Len(q) -> 0 .. Len(queue)]
                      /\ \A i, j \in 1 .. Len(q) : from[i] = from[j] => i = j
                      /\ \A i \in 1 .. Len(q) :
                            q[i] = IF from[i] = 0 THEN packet ELSE queue[from[i]]
<1> SUFFICES q \in Seq(Packet) /\ Len(q) <= QueueSize /\ \E from : P(from)
  OBVIOUS
<1>1. CASE q = queue
  <2> DEFINE from == [i \in 1 .. Len(q) |-> i]
  <2>1. P(from)
    BY <1>1
  <2> QED BY <1>1, <2>1
<1>2. CASE q = Append(queue, packet) /\ Len(queue) < QueueSize
  <2> DEFINE from == [i \in 1 .. Len(q) |-> IF i = Len(q) THEN 0 ELSE i]
  <2>1. /\ q \in Seq(Packet) /\ Len(q) = Len(queue) + 1
        /\ q[Len(q)] = packet /\ \A i \in 1 .. Len(queue) : q[i] = queue[i]
    BY <1>2
  <2> HIDE DEF q
  <2>2. P(from)
    BY <2>1
  <2>3. Len(q) <= QueueSize
    BY <1>2, <2>1, Numbers
  <2> QED BY <2>1, <2>2, <2>3
<1>3. CASE q = Append(Tail(queue), packet) /\ queue # << >>
  <2> DEFINE from == [i \in 1 .. Len(q) |-> IF i = Len(q) THEN 0 ELSE i + 1]
             t == Tail(queue)
  <2>1. t \in Seq(Packet) /\ Len(t) = Len(queue) - 1 /\ \A i \in 1 .. Len(t) : t[i] = queue[i + 1]
    BY <1>3
  <2> HIDE DEF t
  <2>2. /\ q \in Seq(Packet) /\ Len(q) = Len(queue)
        /\ q[Len(q)] = packet /\ \A i \in 1 .. Len(queue) - 1 : q[i] = queue[i + 1]
    <3> HIDE DEF q
    <3>1. q = Append(t, packet)
      BY <1>3 DEF t
    <3> QED BY <2>1, <3>1
  <2> HIDE DEF q
  <2>3. P(from)
    BY <2>2
  <2> QED BY <2>2, <2>3
<1>4. CASE q = Append(RemoveFirst(queue, Pos), packet) /\ Contains(queue, Pos)
  <2>1. PICK k \in 1 .. Len(queue) : RemoveFirst(queue, Pos) = RemoveAt(queue, k)
    BY <1>4, RemovedFirst
  <2> DEFINE from == [i \in 1 .. Len(q) |->
                        IF i = Len(q) THEN 0 ELSE IF i < k THEN i ELSE i + 1]
             t == RemoveAt(queue, k)
  <2>2. /\ t \in Seq(Packet) /\ Len(t) = Len(queue) - 1
        /\ \A i \in 1 .. Len(queue) - 1 : t[i] = IF i < k THEN queue[i] ELSE queue[i + 1]
    BY Removed
  <2> HIDE DEF t
  <2>3. /\ q \in Seq(Packet) /\ Len(q) = Len(queue) /\ q[Len(q)] = packet
        /\ \A i \in 1 .. Len(queue) - 1 : q[i] = IF i < k THEN queue[i] ELSE queue[i + 1]
    <3> HIDE DEF q
    <3>1. q = Append(t, packet)
      BY <1>4, <2>1 DEF t
    <3> QED BY <2>2, <3>1
  <2> HIDE DEF q
  <2>4. P(from)
    BY <2>3
  <2> QED BY <2>3, <2>4
<1>5. Len(queue) >= QueueSize => queue # << >>
  BY Numbers
<1>6. \/ q = queue
      \/ q = Append(queue, packet) /\ Len(queue) < QueueSize
      \/ q = Append(Tail(queue), packet) /\ ~(Len(queue) < QueueSize)
      \/ q = Append(RemoveFirst(queue, Pos), packet) /\ Contains(queue, Pos)
  BY Zenon DEF Queued
<1>7. Len(queue) \in Nat
  OBVIOUS
<1> HIDE DEF P, q
<1>8. ~(Len(queue) < QueueSize) => queue # << >>
  BY <1>5, <1>7, Numbers
<1> QED BY <1>1, <1>2, <1>3, <1>4, <1>6, <1>8

\* Each further place adds at most one fresh record.
LEMMA FreshStep ==
    ASSUME NEW old
    PROVE  /\ FreshOf(old, 0) = 0
           /\ \A n \in Nat : /\ FreshOf(old, n) \in 0 .. n
                             /\ FreshOf(old, n + 1) <= FreshOf(old, n) + 1
<1> DEFINE F(n) == {i \in 1 .. n : store[i] \notin old}
<1>1. FreshOf(old, 0) = 0
  <2>1. F(0) = {}
    OBVIOUS
  <2> QED BY <2>1, FS_EmptySet DEF FreshOf
<1>2. ASSUME NEW n \in Nat
      PROVE  IsFiniteSet(F(n)) /\ Cardinality(F(n)) \in Nat /\ Cardinality(F(n)) <= n
  <2>1. IsFiniteSet(1 .. n) /\ Cardinality(1 .. n) = n
    BY FS_Interval
  <2>2. F(n) \subseteq 1 .. n
    OBVIOUS
  <2> HIDE DEF F
  <2> QED BY <2>1, <2>2, FS_Subset, FS_CardinalityType
<1>3. ASSUME NEW n \in Nat
      PROVE  Cardinality(F(n + 1)) <= Cardinality(F(n)) + 1
  <2>1. F(n + 1) \subseteq F(n) \union {n + 1}
    OBVIOUS
  <2> HIDE DEF F
  <2>2. IsFiniteSet(F(n) \union {n + 1}) /\ Cardinality(F(n) \union {n + 1}) <= Cardinality(F(n)) + 1
    <3>1. IsFiniteSet(F(n)) /\ Cardinality(F(n)) \in Nat
      BY <1>2
    <3>2. /\ IsFiniteSet(F(n) \union {n + 1})
          /\ Cardinality(F(n) \union {n + 1}) =
                IF n + 1 \in F(n) THEN Cardinality(F(n)) ELSE Cardinality(F(n)) + 1
      BY <3>1, FS_AddElement
    <3> QED BY <3>1, <3>2
  <2>3. Cardinality(F(n + 1)) <= Cardinality(F(n) \union {n + 1})
    BY <2>1, <2>2, FS_Subset
  <2> QED BY <1>2, <2>2, <2>3, FS_CardinalityType
<1> QED BY <1>1, <1>2, <1>3 DEF FreshOf

\* takeBatch stops at the end of the store, or as soon as the batch is full.
LEMMA ReachEnds ==
    ASSUME store \in Seq(Cars), NEW old
    PROVE  /\ Reach(old) \in 0 .. Len(store)
           /\ FreshOf(old, Reach(old)) <= Fit
           /\ FreshOf(old, Reach(old)) <= Reach(old)
           /\ Reach(old) = Len(store) \/ FreshOf(old, Reach(old)) = Fit
<1> DEFINE T == {n \in 0 .. Len(store) : n = Len(store) \/ Fit <= FreshOf(old, n)}
<1>0. Len(store) \in Nat
  OBVIOUS
<1>a. /\ FreshOf(old, 0) = 0
      /\ \A n \in Nat : /\ FreshOf(old, n) \in 0 .. n
                        /\ FreshOf(old, n + 1) <= FreshOf(old, n) + 1
  BY FreshStep, Zenon
<1>1. T \in SUBSET Nat /\ Len(store) \in T
  BY <1>0
<1>2. PICK x \in T : \A y \in T : x <= y
  BY <1>1, Least
<1>3. \A m \in 0 .. x - 1 : FreshOf(old, m) < Fit
  <2> SUFFICES ASSUME NEW m \in 0 .. x - 1 PROVE FreshOf(old, m) < Fit
    OBVIOUS
  <2>1. m \in 0 .. Len(store) /\ m \notin T
    BY <1>0, <1>1, <1>2
  <2>2. FreshOf(old, m) \in Nat
    BY <1>0, <1>a, <2>1
  <2> QED BY <1>0, <2>1, <2>2, Numbers
<1>4. FreshOf(old, x) <= Fit
  <2>1. CASE x = 0
    BY <2>1, <1>a, Numbers
  <2>2. CASE x # 0
    <3>1. PICK y \in Nat : x = y + 1
      <4>1. x - 1 \in Nat /\ x = (x - 1) + 1
        BY <1>0, <1>1, <2>2
      <4> QED BY <4>1
    <3>2. FreshOf(old, y + 1) <= FreshOf(old, y) + 1 /\ FreshOf(old, y) \in 0 .. y
      BY <1>a
    <3>3. x \in Nat /\ FreshOf(old, x) \in 0 .. x
      BY <1>0, <1>1, <1>a
    <3>4. FreshOf(old, y) < Fit
      BY <1>3, <3>1
    <3> QED BY <3>1, <3>2, <3>3, <3>4, Numbers
  <2> QED BY <2>1, <2>2
<1>5. x = Len(store) \/ FreshOf(old, x) = Fit
  BY <1>4, <1>1, <1>a, Numbers
<1> HIDE DEF T
<1>6. /\ Reach(old) \in 0 .. Len(store)
      /\ FreshOf(old, Reach(old)) <= Fit
      /\ Reach(old) = Len(store) \/ FreshOf(old, Reach(old)) = Fit
  BY <1>3, <1>4, <1>5 DEF Reach, T
<1> QED BY <1>0, <1>6, <1>a

\* What sending a packet does to the batches: those in the queue, or sent, are
\* in it still or lost, and nothing else changes.
LEMMA Sent ==
    ASSUME IInv, NEW packet \in Packet, packet \in Batches => ~Contains(queue, packet),
           SendToPhone(packet)
    PROVE  /\ queue' \in Seq(Packet) /\ Len(queue') <= QueueSize
           /\ fate' \in [Batches -> Ends]
           /\ \A i \in 1 .. Len(queue') : queue'[i] \in Batches =>
                 Contains(queue, queue'[i]) \/ queue'[i] = packet
           /\ \A i, j \in 1 .. Len(queue') :
                 queue'[i] \in Batches /\ queue'[i] = queue'[j] => i = j
           /\ \A b \in Batches : Contains(queue, b) \/ b = packet =>
                 fate'[b] = IF Contains(queue', b) THEN fate[b] ELSE "lost"
           /\ \A b \in Batches : ~Contains(queue, b) /\ b # packet =>
                 fate'[b] = fate[b] /\ ~Contains(queue', b)
<1>1. queue \in Seq(Packet) /\ Len(queue) <= QueueSize /\ fate \in [Batches -> Ends]
  BY DEF IInv, Shape, TypeOK, Packet
<1>2. /\ queue' \in Seq(Packet) /\ Len(queue') <= QueueSize
      /\ \E from \in [1 .. Len(queue') -> 0 .. Len(queue)] :
            /\ \A i, j \in 1 .. Len(queue') : from[i] = from[j] => i = j
            /\ \A i \in 1 .. Len(queue') : queue'[i] =
                  IF from[i] = 0 THEN packet ELSE queue[from[i]]
  BY <1>1, QueuedFrom DEF SendToPhone
<1>3. PICK from \in [1 .. Len(queue') -> 0 .. Len(queue)] :
            /\ \A i, j \in 1 .. Len(queue') : from[i] = from[j] => i = j
            /\ \A i \in 1 .. Len(queue') : queue'[i] =
                  IF from[i] = 0 THEN packet ELSE queue[from[i]]
  BY <1>2
<1>4. Len(queue) \in Nat /\ Len(queue') \in Nat
  BY <1>1, <1>2
<1>5. \A i \in 1 .. Len(queue') : from[i] # 0 => from[i] \in 1 .. Len(queue)
  BY <1>4
<1>6. \A i \in 1 .. Len(queue') : queue'[i] \in Batches =>
         Contains(queue, queue'[i]) \/ queue'[i] = packet
  BY <1>3, <1>5 DEF Contains
<1>7. \A i, j \in 1 .. Len(queue) : queue[i] \in Batches /\ queue[i] = queue[j] => i = j
  BY DEF IInv, QueueKnown
<1>8. ASSUME NEW i \in 1 .. Len(queue'), NEW j \in 1 .. Len(queue'),
             queue'[i] \in Batches, queue'[i] = queue'[j]
      PROVE  i = j
  <2>1. CASE from[i] = 0 /\ from[j] = 0
    BY <1>3, <2>1
  <2>2. CASE from[i] # 0 /\ from[j] # 0
    <3>1. from[i] = from[j]
      BY <1>3, <1>5, <1>7, <1>8, <2>2
    <3> QED BY <1>3, <3>1
  <2>3. CASE from[i] = 0 /\ from[j] # 0
    BY <1>3, <1>5, <1>8, <2>3 DEF Contains
  <2>4. CASE from[i] # 0 /\ from[j] = 0
    BY <1>3, <1>5, <1>8, <2>4 DEF Contains
  <2> QED BY <2>1, <2>2, <2>3, <2>4
<1>9. /\ \A b : b \in ToSet(queue) <=> Contains(queue, b)
      /\ \A b : b \in ToSet(queue') <=> Contains(queue', b)
  BY <1>1, <1>2 DEF ToSet, Contains
<1>10. fate' = EndAs(fate, ((ToSet(queue) \union {packet}) \intersect Batches) \ ToSet(queue'), "lost")
  BY DEF SendToPhone, PushedOut
<1>11. \A b \in Batches : fate'[b] =
          IF (Contains(queue, b) \/ b = packet) /\ ~Contains(queue', b)
          THEN "lost" ELSE fate[b]
  BY <1>9, <1>10 DEF EndAs
<1>12. fate' \in [Batches -> Ends]
  <2>1. fate' = [b \in Batches |-> fate'[b]]
    BY <1>10 DEF EndAs
  <2> QED BY <1>1, <1>11, <2>1 DEF Ends
<1>13. \A b \in Batches : ~Contains(queue, b) /\ b # packet => ~Contains(queue', b)
  BY <1>6 DEF Contains
<1> QED BY <1>2, <1>6, <1>8, <1>11, <1>12, <1>13

\* The entries that are pre-encoded, and those that are not.
LEMMA PreloadedOnes ==
    ASSUME NEW flight
    PROVE  /\ Preloaded(flight) = {} <=> \A e \in flight : ~e.preloaded
           /\ \A b : b \in Preloaded(flight) <=> \E e \in flight : e.preloaded /\ e.batch = b
BY DEF Preloaded

\* Entries taken out leave as many places as before, or more.
LEMMA FewerEntries ==
    ASSUME Shape, NEW flight \in SUBSET inFlight
    PROVE  /\ flight \subseteq [batch : Batches, preloaded : BOOLEAN]
           /\ IsFiniteSet(flight) /\ Cardinality(flight) \in Nat
           /\ Cardinality(flight) <= Cardinality(inFlight)
           /\ Cardinality(inFlight) \in Nat /\ Cardinality(inFlight) <= MaxInFlight
           /\ Cardinality(flight) <= MaxInFlight
<1>1. IsFiniteSet(inFlight) /\ Cardinality(inFlight) <= MaxInFlight
  BY DEF Shape, TypeOK
<1>2. IsFiniteSet(flight) /\ Cardinality(flight) <= Cardinality(inFlight)
  BY <1>1, FS_Subset
<1>3. Cardinality(flight) \in Nat /\ Cardinality(inFlight) \in Nat
  BY <1>1, <1>2, FS_CardinalityType
<1> QED BY <1>1, <1>2, <1>3, Numbers DEF Shape, TypeOK

\* The records of inFlight have their shape.
LEMMA Entry ==
    ASSUME Shape, NEW e \in inFlight
    PROVE  e.batch \in Batches /\ e.preloaded \in BOOLEAN
           /\ e = [batch |-> e.batch, preloaded |-> e.preloaded]
BY DEF Shape, TypeOK

-----------------------------------------------------------------------------
(* The invariant holds at the start,                                       *)

LEMMA IInvInit == Init => IInv
<1> SUFFICES ASSUME Init PROVE IInv
  OBVIOUS
<1> USE DEF Init
<1>1. IsFiniteSet({}) /\ Cardinality({}) = 0
  BY FS_EmptySet
<1>2. Shape
  <2>1. store \in Seq(Cars) /\ Len(store) <= Slots /\ IsInjective(store)
    BY Numbers DEF IsInjective
  <2>2. inFlight \subseteq [batch : Batches, preloaded : BOOLEAN] /\ Cardinality(inFlight) <= MaxInFlight
    BY <1>1, Numbers
  <2>3. last \in 0 .. MaxBatch /\ size \in [Batches -> 0 .. Fit] /\ layout \in 0 .. Fit
    BY Numbers
  <2>4. queue \in Seq(Batches \union {Text, Pos}) /\ Len(queue) <= QueueSize
    BY Numbers
  <2>5. readQueue \in Seq(Batches \union {Answer}) /\ Len(readQueue) < ReadQueueSize
    BY Numbers
  <2>6. {seen, counts} \subseteq [read : 0 .. MaxBatch, lost : 0 .. MaxBatch]
    BY Numbers
  <2>7. /\ offered \in 0 .. Len(readQueue) /\ offered = 0
        /\ main \in [step : {"idle", "flush", "offer", "put", "send"}, batch : Batches \union {NoBatch}]
        /\ reading \in Batches \union {NoBatch}
    BY <2>5 DEF Idle
  <2>8. hello = "none" /\ link = "down" /\ waiting = FALSE
    OBVIOUS
  <2> HIDE DEF Init
  <2>9. TypeOK
    BY <2>1, <2>2, <2>3, <2>4, <2>5, <2>6, <2>7, <2>8, Zenon DEF TypeOK
  <2> QED BY <1>1, <2>9 DEF Shape, Ends, Init
<1>3. TurnsKept
  BY DEF TurnsKept, Contains
<1>4. HandNew
  BY DEF HandNew, InHand, Idle
<1>5. EntriesApart
  BY DEF EntriesApart
<1>6. QueueKnown
  BY DEF QueueKnown
<1>7. PreloadKnown
  BY DEF PreloadKnown, Preloaded
<1>8. ReadRoom /\ CountsBounded
  BY DEF ReadRoom, CountsBounded, ToCount, Idle
<1> QED BY <1>2, <1>3, <1>4, <1>5, <1>6, <1>7, <1>8 DEF IInv

-----------------------------------------------------------------------------
(* and every step of the main task keeps it: first those before a batch,   *)

LEMMA KeptByOtherPacket == IInv /\ OtherPacket => IInv'
<1> SUFFICES ASSUME IInv, NEW packet \in {Text, Pos}, main = Idle, SendToPhone(packet),
                    UNCHANGED <<module, nimble, booked, missed>>
             PROVE  IInv'
  BY DEF OtherPacket
<1> USE DEF module, nimble
<1>0. packet \in Packet /\ packet \notin Batches
  BY Packets DEF Packet
<1>1. /\ queue' \in Seq(Packet) /\ Len(queue') <= QueueSize
      /\ fate' \in [Batches -> Ends]
      /\ \A i \in 1 .. Len(queue') : queue'[i] \in Batches => Contains(queue, queue'[i])
      /\ \A i, j \in 1 .. Len(queue') :
            queue'[i] \in Batches /\ queue'[i] = queue'[j] => i = j
      /\ \A b \in Batches : Contains(queue, b) =>
            fate'[b] = IF Contains(queue', b) THEN fate[b] ELSE "lost"
      /\ \A b \in Batches : ~Contains(queue, b) =>
            fate'[b] = fate[b] /\ ~Contains(queue', b)
  BY <1>0, Sent
<1>2. Shape'
  BY <1>1 DEF IInv, Shape, TypeOK, Packet
<1>3. TurnsKept'
  BY DEF IInv, TurnsKept
<1>4. HandNew'
  BY DEF IInv, HandNew, InHand, Idle
<1>5. \A b \in Batches : Contains(queue, b) => \E e \in inFlight : e.batch = b /\ ~e.preloaded
  BY DEF IInv, QueueKnown, Contains
<1>6. EntriesApart'
  <2>1. \A b \in Batches : b > last => fate'[b] = "none"
    <3> SUFFICES ASSUME NEW b \in Batches, b > last PROVE fate'[b] = "none"
      OBVIOUS
    <3>1. last \in Nat /\ b \in Nat
      BY Packets DEF IInv, Shape, TypeOK
    <3>2. ~Contains(queue, b)
      BY <1>5, <3>1 DEF IInv, EntriesApart
    <3> QED BY <1>1, <3>2 DEF IInv, EntriesApart
  <2> QED BY <2>1 DEF IInv, EntriesApart
<1>7. QueueKnown'
  <2>1. \A e \in inFlight : ~e.preloaded =>
           fate'[e.batch] = IF Contains(queue', e.batch) THEN "none" ELSE "lost"
    BY <1>1, Entry DEF IInv, QueueKnown
  <2>2. \A i \in 1 .. Len(queue') : queue'[i] \in Batches =>
           \E e \in inFlight : e.batch = queue'[i] /\ ~e.preloaded
    BY <1>1, <1>5
  <2> QED BY <1>1, <2>1, <2>2 DEF QueueKnown
<1>8. PreloadKnown'
  <2>1. \A e \in inFlight : e.preloaded => fate'[e.batch] = fate[e.batch]
    BY <1>1, <1>5, Entry DEF IInv, EntriesApart
  <2> QED BY <2>1 DEF IInv, PreloadKnown
<1>9. ReadRoom' /\ CountsBounded'
  BY DEF IInv, ReadRoom, CountsBounded, ToCount
<1> QED BY <1>2, <1>3, <1>4, <1>6, <1>7, <1>8, <1>9 DEF IInv

LEMMA KeptByHello == IInv /\ Hello => IInv'
<1> SUFFICES ASSUME IInv, Hello PROVE IInv'
  OBVIOUS
<1> USE DEF Hello, nimble
<1>1. Shape'
  BY DEF IInv, Shape, TypeOK
<1>2. TurnsKept' /\ HandNew'
  BY DEF IInv, TurnsKept, HandNew, InHand
<1>3. EntriesApart' /\ QueueKnown'
  BY DEF IInv, EntriesApart, QueueKnown
<1>4. PreloadKnown' /\ ReadRoom' /\ CountsBounded'
  BY DEF IInv, PreloadKnown, ReadRoom, CountsBounded, ToCount
<1> QED BY <1>1, <1>2, <1>3, <1>4 DEF IInv

LEMMA KeptByOfferToPhone == ASSUME NEW c \in Cars PROVE IInv /\ OfferToPhone(c) => IInv'
<1> SUFFICES ASSUME IInv, OfferToPhone(c) PROVE IInv'
  OBVIOUS
<1> USE DEF OfferToPhone, nimble
<1>t. /\ store \in Seq(Cars) /\ Len(store) \in Nat /\ Len(store) <= Slots
      /\ \A i, j \in 1 .. Len(store) : store[i] = store[j] => i = j
      /\ missed \in [Cars -> Nat]
  <2>1. store \in Seq(Cars) /\ Len(store) \in Nat /\ Len(store) <= Slots /\ IsInjective(store)
    BY DEF IInv, Shape, TypeOK
  <2>2. DOMAIN store = 1 .. Len(store)
    BY <2>1
  <2> QED BY <2>1, <2>2 DEF IInv, Shape, IsInjective
\* Each place of the store is one of before, no further back, or c's own.
<1>1. /\ store' \in Seq(Cars) /\ Len(store') \in Nat /\ Len(store') <= Slots
      /\ \A i, j \in 1 .. Len(store') : store'[i] = store'[j] => i = j
      /\ \A i \in 1 .. Len(store') :
            \/ \E k \in 1 .. Len(store) : i <= k /\ store'[i] = store[k]
            \/ store'[i] = c /\ ~Contains(store, c)
  <2>1. CASE Contains(store, c)
    BY <1>t, <2>1 DEF Offered
  <2>2. CASE ~Contains(store, c) /\ Len(store) < Slots
    <3>1. store' = Append(store, c)
      BY <2>2 DEF Offered
    <3>2. /\ store' \in Seq(Cars) /\ Len(store') = Len(store) + 1
          /\ store'[Len(store) + 1] = c /\ \A i \in 1 .. Len(store) : store'[i] = store[i]
      BY <1>t, <3>1
    <3>3. \A i \in 1 .. Len(store') : i # Len(store) + 1 => i \in 1 .. Len(store)
      BY <1>t, <3>2
    <3>4. \A k \in 1 .. Len(store) : store[k] # c
      BY <2>2 DEF Contains
    <3>5. \A i, j \in 1 .. Len(store') : store'[i] = store'[j] => i = j
      BY <1>t, <3>2, <3>3, <3>4
    <3>6. \A i \in 1 .. Len(store') :
            \/ \E k \in 1 .. Len(store) : i <= k /\ store'[i] = store[k]
            \/ store'[i] = c
      <4>1. \A i \in 1 .. Len(store') : i # Len(store) + 1 =>
               i \in 1 .. Len(store) /\ i <= i /\ store'[i] = store[i]
        BY <1>t, <3>2, <3>3
      <4> QED BY <3>2, <4>1
    <3> QED BY <1>t, <2>2, <3>2, <3>5, <3>6, Numbers
  <2>3. CASE ~Contains(store, c) /\ ~(Len(store) < Slots)
    <3>1. store' = Append(Tail(store), c) /\ store # << >>
      BY <1>t, <2>3, Numbers DEF Offered
    <3>2. /\ Tail(store) \in Seq(Cars) /\ Len(Tail(store)) = Len(store) - 1
          /\ \A i \in 1 .. Len(store) - 1 : Tail(store)[i] = store[i + 1]
      BY <1>t, <3>1
    <3>3. /\ store' \in Seq(Cars) /\ Len(store') = Len(store)
          /\ store'[Len(store)] = c
          /\ \A i \in 1 .. Len(store) - 1 : store'[i] = store[i + 1]
      <4> DEFINE t == Tail(store)
      <4> HIDE DEF t
      <4>1. t \in Seq(Cars) /\ Len(t) = Len(store) - 1 /\ store' = Append(t, c)
            /\ \A i \in 1 .. Len(store) - 1 : t[i] = store[i + 1]
        BY <3>1, <3>2 DEF t
      <4>2. store' \in Seq(Cars) /\ Len(store') = Len(t) + 1 /\ store'[Len(t) + 1] = c
            /\ \A i \in 1 .. Len(t) : store'[i] = t[i]
        BY <4>1
      <4> QED BY <1>t, <4>1, <4>2
    <3>4. \A i \in 1 .. Len(store') :
             i # Len(store) => i \in 1 .. Len(store) - 1 /\ i + 1 \in 1 .. Len(store)
      BY <1>t, <3>3
    <3>5. \A k \in 1 .. Len(store) : store[k] # c
      BY <2>3 DEF Contains
    <3>6. ASSUME NEW i \in 1 .. Len(store'), NEW j \in 1 .. Len(store'), store'[i] = store'[j]
          PROVE  i = j
      <4>1. CASE i # Len(store) /\ j # Len(store)
        <5>1. store[i + 1] = store[j + 1]
          BY <3>3, <3>4, <3>6, <4>1
        <5>2. i + 1 = j + 1
          BY <1>t, <3>4, <4>1, <5>1
        <5> QED BY <1>t, <3>3, <5>2
      <4>2. CASE i = Len(store) \/ j = Len(store)
        BY <1>t, <3>3, <3>4, <3>5, <3>6, <4>2
      <4> QED BY <4>1, <4>2
    <3>7. \A i \in 1 .. Len(store') :
            \/ \E k \in 1 .. Len(store) : i <= k /\ store'[i] = store[k]
            \/ store'[i] = c
      <4>1. \A i \in 1 .. Len(store') : i # Len(store) =>
               i + 1 \in 1 .. Len(store) /\ i <= i + 1 /\ store'[i] = store[i + 1]
        BY <1>t, <3>3, <3>4
      <4> QED BY <3>3, <4>1
    <3> QED BY <1>t, <2>3, <3>3, <3>6, <3>7, Numbers
  <2> QED BY <2>1, <2>2, <2>3
<1>2. Shape'
  <2>1. missed' \in [Cars -> Nat]
    BY <1>t
  <2>2. IsInjective(store')
    BY <1>1 DEF IsInjective
  <2> QED BY <1>1, <2>1, <2>2 DEF IInv, Shape, TypeOK
<1>3. TurnsKept'
  <2>1. ASSUME NEW i \in 1 .. Len(store') PROVE i + missed'[store'[i]] * Fit <= Slots
    <3>1. store'[i] \in Cars /\ missed'[store'[i]] = missed[store'[i]]
      BY <1>1 DEF Contains
    <3>2. CASE \E k \in 1 .. Len(store) : i <= k /\ store'[i] = store[k]
      <4>1. PICK k \in 1 .. Len(store) : i <= k /\ store'[i] = store[k]
        BY <3>2
      <4>2. k + missed[store[k]] * Fit <= Slots
        BY DEF IInv, TurnsKept
      <4>3. missed[store[k]] * Fit \in Nat
        BY <1>t, Numbers
      <4>4. missed'[store'[i]] * Fit = missed[store[k]] * Fit
        BY <3>1, <4>1
      <4> DEFINE w == missed[store[k]] * Fit
      <4>5. w \in Nat /\ k + w <= Slots /\ i <= k /\ i \in Nat /\ k \in Nat
        BY <1>t, <1>1, <4>1, <4>2, <4>3
      <4> HIDE DEF w
      <4>6. i + w <= Slots
        BY <4>5, Numbers
      <4> QED BY <4>4, <4>6 DEF w
    <3>3. CASE store'[i] = c /\ ~Contains(store, c)
      BY <1>1, <3>1, <3>3, Numbers DEF IInv, TurnsKept
    <3> QED BY <1>1, <3>2, <3>3
  <2>2. \A d \in Cars : ~Contains(store', d) => missed'[d] = 0
    OBVIOUS
  <2> QED BY <2>1, <2>2 DEF TurnsKept
<1>4. HandNew' /\ EntriesApart'
  BY DEF IInv, HandNew, InHand, EntriesApart
<1>5. QueueKnown' /\ PreloadKnown'
  BY DEF IInv, QueueKnown, PreloadKnown
<1>6. ReadRoom' /\ CountsBounded'
  BY DEF IInv, ReadRoom, CountsBounded, ToCount
<1> QED BY <1>2, <1>3, <1>4, <1>5, <1>6 DEF IInv

\* A link that is down, or just lost, forgets what was pending.
LEMMA KeptByTrackPhoneLink == IInv /\ TrackPhoneLink => IInv'
<1> SUFFICES ASSUME IInv, TrackPhoneLink PROVE IInv'
  OBVIOUS
<1> DEFINE read == EndedBy("read")
           lost == LostWithLink \union Reconciled
<1>1. /\ main = Idle /\ main' = [step |-> "flush", batch |-> NoBatch] /\ seen' = counts
      /\ inFlight' = {e \in inFlight : e.batch \notin read \union lost}
      /\ booked' = EndAs(EndAs(booked, lost, "lost"), read, "read")
      /\ UNCHANGED <<last, size, layout, queue, readQueue, offered, counts, reading,
                     waiting, link, fate>>
  BY DEF TrackPhoneLink, nimble, Idle
<1>2. \/ UNCHANGED <<hello, store, missed>>
      \/ hello' = "none" /\ store' = << >> /\ missed' = [c \in Cars |-> 0]
  BY DEF TrackPhoneLink
<1>3. inFlight' \in SUBSET inFlight
  BY <1>1
<1>4. \A e \in inFlight : e.batch \in Reconciled <=> ~e.preloaded /\ ~Contains(queue, e.batch)
  BY DEF Reconciled, IInv, EntriesApart
<1>5. \A e \in inFlight : e.batch \in Preloaded(inFlight) <=> e.preloaded
  BY DEF Preloaded, IInv, EntriesApart
<1>6. \A e \in inFlight : e.preloaded =>
         (e \in inFlight' <=> offered # 0)
  <2> SUFFICES ASSUME NEW e \in inFlight, e.preloaded PROVE e \in inFlight' <=> offered # 0
    OBVIOUS
  <2>1. e.batch \notin Reconciled /\ e.batch \in Preloaded(inFlight)
    BY <1>4, <1>5
  <2>2. {seen, counts} \subseteq [read : Nat, lost : Nat]
    BY Numbers DEF IInv, Shape, TypeOK
  <2>3. CASE offered # 0 /\ counts = seen
    BY <1>1, <2>1, <2>3 DEF EndedBy, LostWithLink
  <2>4. CASE offered = 0 /\ counts = [seen EXCEPT !.read = @ + 1]
    <3>1. counts["read"] # seen["read"]
      BY <2>2, <2>4
    <3> QED BY <1>1, <2>1, <2>4, <3>1 DEF EndedBy
  <2>5. CASE offered = 0 /\ counts = [seen EXCEPT !.lost = @ + 1]
    <3>1. counts["lost"] # seen["lost"]
      BY <2>2, <2>5
    <3> QED BY <1>1, <2>1, <2>5, <3>1 DEF EndedBy, LostWithLink
  <2> QED BY <2>3, <2>4, <2>5 DEF IInv, PreloadKnown
<1>7. \A e \in inFlight : ~e.preloaded => (e \in inFlight' <=> Contains(queue, e.batch))
  <2> SUFFICES ASSUME NEW e \in inFlight, ~e.preloaded
               PROVE  e \in inFlight' <=> Contains(queue, e.batch)
    OBVIOUS
  <2>1. e.batch \notin Preloaded(inFlight)
    BY <1>5
  <2>2. e.batch \notin read /\ e.batch \notin LostWithLink
    BY <2>1 DEF EndedBy, LostWithLink
  <2> QED BY <1>1, <1>4, <2>2
<1>8. \A b \in Batches : booked'[b] =
         IF b \in read THEN "read" ELSE IF b \in lost THEN "lost" ELSE booked[b]
  BY <1>1 DEF EndAs
<1>9. Shape'
  <2>1. inFlight' \subseteq [batch : Batches, preloaded : BOOLEAN] /\ IsFiniteSet(inFlight')
        /\ Cardinality(inFlight') <= MaxInFlight
    BY <1>3, FewerEntries DEF IInv
  <2>2. booked' \in [Batches -> Ends]
    <3>1. booked' = [b \in Batches |-> booked'[b]]
      BY <1>1 DEF EndAs
    <3>2. \A b \in Batches : booked'[b] \in Ends
      BY <1>8 DEF IInv, Shape, Ends
    <3> QED BY <3>1, <3>2
  <2>3. /\ store' \in Seq(Cars) /\ Len(store') <= Slots /\ IsInjective(store')
        /\ hello' \in {"none", "plain", "preload"} /\ missed' \in [Cars -> Nat]
    <3>1. CASE UNCHANGED <<hello, store, missed>>
      BY <3>1 DEF IInv, Shape, TypeOK, IsInjective
    <3>2. CASE hello' = "none" /\ store' = << >> /\ missed' = [c \in Cars |-> 0]
      BY <3>2, Numbers DEF IsInjective
    <3> QED BY <1>2, <3>1, <3>2
  <2>4. {seen, counts}' \subseteq [read : 0 .. MaxBatch, lost : 0 .. MaxBatch]
    BY <1>1 DEF IInv, Shape, TypeOK
  <2>5. main' \in [step : {"idle", "flush", "offer", "put", "send"}, batch : Batches \union {NoBatch}]
    BY <1>1
  <2> HIDE DEF read, lost
  <2> QED BY <1>1, <2>1, <2>2, <2>3, <2>4, <2>5 DEF IInv, Shape, TypeOK
<1>10. TurnsKept'
  BY <1>2, Numbers DEF IInv, TurnsKept, Contains
<1>11. HandNew'
  BY <1>1 DEF HandNew, InHand
<1>12. EntriesApart'
  <2>1. \A e \in inFlight' : booked'[e.batch] = "none"
    BY <1>1, <1>8, Entry DEF IInv, EntriesApart
  <2>2. \A b \in Batches : b \in read \union lost => \E e \in inFlight : e.batch = b
    BY DEF EndedBy, LostWithLink, Reconciled, Preloaded
  <2>3. \A b \in Batches : b > last => b \notin read \union lost
    <3>1. last \in Nat /\ \A b \in Batches : b \in Nat
      BY Packets DEF IInv, Shape, TypeOK
    <3>2. \A e \in inFlight : e.batch <= last
      BY DEF IInv, EntriesApart
    <3> HIDE DEF read, lost
    <3> QED BY <2>2, <3>1, <3>2
  <2>4. \A b \in Batches : b > last => fate[b] = "none" /\ booked'[b] = "none"
    BY <1>8, <2>3 DEF IInv, EntriesApart
  <2> QED BY <1>1, <1>3, <2>1, <2>4 DEF IInv, EntriesApart
<1>13. QueueKnown'
  <2>1. \A i \in 1 .. Len(queue) : queue[i] \in Batches =>
           \E e \in inFlight' : e.batch = queue[i] /\ ~e.preloaded
    BY <1>7 DEF IInv, QueueKnown, Contains
  <2> QED BY <1>1, <1>3, <2>1 DEF IInv, QueueKnown
<1>14. PreloadKnown'
  <2>1. Preloaded(inFlight') = {} => offered = 0
    BY <1>6, PreloadedOnes DEF IInv, PreloadKnown
  <2>2. \A e \in inFlight' : e.preloaded =>
           offered # 0 /\ readQueue[offered] = e.batch /\ fate[e.batch] = "none"
    BY <1>3, <1>6 DEF IInv, PreloadKnown
  <2> QED BY <1>1, <2>1, <2>2 DEF PreloadKnown
<1>15. ReadRoom' /\ CountsBounded'
  <2>1. counts.read \in Nat /\ counts.lost \in Nat
    BY Numbers DEF IInv, Shape, TypeOK
  <2> QED BY <1>1, <2>1 DEF IInv, ReadRoom, CountsBounded, ToCount, Idle
<1> QED BY <1>9, <1>10, <1>11, <1>12, <1>13, <1>14, <1>15 DEF IInv

LEMMA KeptByNoFlush == IInv /\ NoFlush => IInv'
<1> SUFFICES ASSUME IInv, NoFlush PROVE IInv'
  OBVIOUS
<1> USE DEF NoFlush, nimble, Idle
<1>1. Shape'
  BY DEF IInv, Shape, TypeOK
<1>2. TurnsKept' /\ HandNew'
  BY DEF IInv, TurnsKept, HandNew, InHand
<1>3. EntriesApart' /\ QueueKnown'
  BY DEF IInv, EntriesApart, QueueKnown
<1>4. PreloadKnown' /\ ReadRoom' /\ CountsBounded'
  BY DEF IInv, PreloadKnown, ReadRoom, CountsBounded, ToCount
<1> QED BY <1>1, <1>2, <1>3, <1>4 DEF IInv

\* What packing does to the store and to the turns of those still in it.
LEMMA Packed ==
    ASSUME IInv, NEW old, NEW taken \in Nat, Pack(old, taken)
    PROVE  /\ taken \in 0 .. Fit
           /\ store' \in Seq(Cars) /\ Len(store') <= Slots /\ IsInjective(store')
           /\ missed' \in [Cars -> Nat] /\ TurnsKept'
<1>1. /\ store \in Seq(Cars) /\ Len(store) \in Nat /\ Len(store) <= Slots
      /\ \A i, j \in 1 .. Len(store) : store[i] = store[j] => i = j
      /\ missed \in [Cars -> Nat]
  <2>1. store \in Seq(Cars) /\ Len(store) \in Nat /\ Len(store) <= Slots /\ IsInjective(store)
    BY DEF IInv, Shape, TypeOK
  <2>2. DOMAIN store = 1 .. Len(store)
    BY <2>1
  <2> QED BY <2>1, <2>2 DEF IInv, Shape, IsInjective
<1>2. PICK gone \in 0 .. Len(store) :
        /\ store' = SubSeq(store, gone + 1, Len(store))
        /\ taken <= Fit /\ taken <= gone
        /\ gone = Len(store) \/ taken = Fit
  BY <1>1, ReachEnds, Zenon DEF Pack
<1>3. store' = SubSeq(store, gone + 1, Len(store))
  BY <1>2
<1>4. missed' = [c \in Cars |->
         IF Contains(store', c) THEN missed[c] + (IF taken > 0 THEN 1 ELSE 0) ELSE 0]
  BY DEF Pack
<1>5. /\ store' \in Seq(Cars) /\ Len(store') = Len(store) - gone
      /\ \A i \in 1 .. Len(store') : i + gone \in 1 .. Len(store) /\ store'[i] = store[i + gone]
  <2>1. gone + 1 \in 1 .. Len(store) + 1
    BY <1>1, <1>2
  <2>2. store' \in Seq(Cars) /\ Len(store') = Len(store) - gone
    BY <1>1, <1>2, <1>3, <2>1
  <2>3. ASSUME NEW i \in 1 .. Len(store')
        PROVE  i + gone \in 1 .. Len(store) /\ store'[i] = store[i + gone]
    <3>1. i + gone \in 1 .. Len(store) /\ i \in 1 .. Len(store) - gone /\ i + gone = gone + 1 + i - 1
      BY <1>1, <1>2, <2>2
    <3>2. store'[i] = store[gone + 1 + i - 1]
      BY <1>1, <1>2, <1>3, <3>1
    <3> QED BY <3>1, <3>2
  <2> QED BY <2>2, <2>3
<1>6. \A i, j \in 1 .. Len(store') : store'[i] = store'[j] => i = j
  <2> SUFFICES ASSUME NEW i \in 1 .. Len(store'), NEW j \in 1 .. Len(store'), store'[i] = store'[j]
               PROVE  i = j
    OBVIOUS
  <2>1. i + gone = j + gone
    BY <1>1, <1>5
  <2> QED BY <1>1, <1>2, <1>5, <2>1
<1>7. IsInjective(store')
  <2>1. DOMAIN store' = 1 .. Len(store')
    BY <1>5
  <2> QED BY <1>6, <2>1 DEF IsInjective
<1>8. missed' \in [Cars -> Nat]
  BY <1>1, <1>4
<1>9. ASSUME NEW i \in 1 .. Len(store') PROVE i + missed'[store'[i]] * Fit <= Slots
  <2> DEFINE c == store'[i]
             m == missed[c]
  <2>1. c \in Cars /\ Contains(store', c) /\ c = store[i + gone] /\ i + gone \in 1 .. Len(store)
    BY <1>5 DEF Contains
  <2>2. missed'[c] = m + (IF taken > 0 THEN 1 ELSE 0) /\ m \in Nat
    BY <1>1, <1>4, <2>1
  <2>3. i + gone + m * Fit <= Slots
    BY <2>1 DEF IInv, TurnsKept
  <2>4. i \in Nat /\ gone \in Nat /\ gone # Len(store)
    BY <1>1, <1>2, <1>5
  <2>5. taken = Fit /\ Fit <= gone /\ Fit \in Nat /\ Fit > 0 /\ Slots \in Nat
    BY <1>2, <2>4, Numbers
  <2> HIDE DEF c, m
  <2>6. missed'[c] = m + 1
    BY <2>2, <2>5
  <2>7. (m + 1) * Fit = m * Fit + Fit /\ m * Fit \in Nat
    BY <2>2, <2>5
  <2> DEFINE w == m * Fit
  <2>8. w \in Nat /\ i + gone + w <= Slots
    BY <2>3, <2>7
  <2> HIDE DEF w
  <2>9. i + (w + Fit) <= Slots
    BY <2>4, <2>5, <2>8
  <2> QED BY <2>6, <2>7, <2>9 DEF c, w
<1>10. \A c \in Cars : ~Contains(store', c) => missed'[c] = 0
  BY <1>4
<1> QED BY <1>1, <1>2, <1>5, <1>7, <1>8, <1>9, <1>10, Numbers DEF TurnsKept

LEMMA KeptByFlushNothing == IInv /\ FlushNothing => IInv'
<1> SUFFICES ASSUME IInv, FlushNothing PROVE IInv'
  OBVIOUS
<1>1. /\ store' \in Seq(Cars) /\ Len(store') <= Slots /\ IsInjective(store')
      /\ missed' \in [Cars -> Nat] /\ TurnsKept'
  BY Packed DEF FlushNothing
<1> USE DEF FlushNothing, CanFlush, nimble, Idle
<1>2. Shape'
  BY <1>1 DEF IInv, Shape, TypeOK
<1>3. HandNew'
  BY DEF IInv, HandNew, InHand
<1>4. EntriesApart' /\ QueueKnown'
  BY DEF IInv, EntriesApart, QueueKnown
<1>5. PreloadKnown' /\ ReadRoom' /\ CountsBounded'
  BY DEF IInv, PreloadKnown, ReadRoom, CountsBounded, ToCount
<1> QED BY <1>1, <1>2, <1>3, <1>4, <1>5 DEF IInv

-----------------------------------------------------------------------------
(* then a batch is packed and handed over,                                 *)

\* The number after the last has been used for nothing yet.
LEMMA NextIsNew ==
    ASSUME IInv, last < MaxBatch
    PROVE  /\ last \in Nat /\ last + 1 \in Batches /\ last + 1 \in 0 .. MaxBatch
           /\ fate[last + 1] = "none" /\ booked[last + 1] = "none"
           /\ ~Contains(queue, last + 1) /\ \A e \in inFlight : e.batch # last + 1
           /\ \A b \in Batches : b > last + 1 => b > last
<1>1. last \in Nat /\ last + 1 \in Batches /\ last + 1 > last /\ ~(last + 1 <= last)
  BY Numbers DEF IInv, Shape, TypeOK, Batches
<1>2. \A e \in inFlight : e.batch # last + 1
  BY <1>1 DEF IInv, EntriesApart
<1>3. ~Contains(queue, last + 1)
  BY <1>1, <1>2 DEF IInv, QueueKnown, Contains
<1>4. \A b \in Batches : b > last + 1 => b > last
  BY <1>1, Packets
<1>5. fate[last + 1] = "none" /\ booked[last + 1] = "none"
  BY <1>1 DEF IInv, EntriesApart
<1> QED BY <1>1, <1>2, <1>3, <1>4, <1>5, Numbers DEF Batches

LEMMA KeptByFlushPhoneBatch == IInv /\ FlushPhoneBatch => IInv'
<1> SUFFICES ASSUME IInv, FlushPhoneBatch PROVE IInv'
  OBVIOUS
<1> DEFINE preload == hello = "preload" /\ Preloaded(inFlight) = {}
<1>1. PICK taken \in 1 .. Fit :
        /\ last' = last + 1 /\ size' = [size EXCEPT ![last + 1] = taken]
        /\ main' = [step |-> IF preload THEN "offer" ELSE "send", batch |-> last + 1]
        /\ layout' = IF preload THEN taken ELSE layout
        /\ store' \in Seq(Cars) /\ Len(store') <= Slots /\ IsInjective(store')
        /\ missed' \in [Cars -> Nat] /\ TurnsKept'
  <2>1. PICK old \in SUBSET ToSet(store), taken \in 1 .. Fit :
          /\ Pack(old, taken)
          /\ last' = last + 1 /\ size' = [size EXCEPT ![last + 1] = taken]
          /\ main' = [step |-> IF preload THEN "offer" ELSE "send", batch |-> last + 1]
          /\ layout' = IF preload THEN taken ELSE layout
    BY DEF FlushPhoneBatch
  <2>2. taken \in Nat
    BY Numbers
  <2>3. /\ store' \in Seq(Cars) /\ Len(store') <= Slots /\ IsInjective(store')
        /\ missed' \in [Cars -> Nat] /\ TurnsKept'
    BY <2>1, <2>2, Packed
  <2> QED BY <2>1, <2>3
<1>2. /\ last < MaxBatch /\ main.step = "flush" /\ Cardinality(inFlight) < MaxInFlight
      /\ UNCHANGED <<hello, inFlight, seen, queue, readQueue, offered, counts, reading,
                     waiting, link, fate, booked>>
  BY DEF FlushPhoneBatch, CanFlush, nimble
<1>3. /\ last \in Nat /\ last + 1 \in Batches /\ last + 1 \in 0 .. MaxBatch
      /\ fate[last + 1] = "none" /\ booked[last + 1] = "none"
      /\ ~Contains(queue, last + 1) /\ \A e \in inFlight : e.batch # last + 1
      /\ \A b \in Batches : b > last + 1 => b > last
  BY <1>2, NextIsNew
<1>4. /\ main'.batch = last + 1 /\ main'.step \in {"offer", "send"}
      /\ main'.step = "offer" => Preloaded(inFlight) = {}
      /\ main' \in [step : {"idle", "flush", "offer", "put", "send"}, batch : Batches \union {NoBatch}]
  BY <1>1, <1>3
<1>5. size' \in [Batches -> 0 .. Fit] /\ layout' \in 0 .. Fit
  BY <1>1, <1>3, Numbers DEF IInv, Shape, TypeOK
<1> HIDE DEF preload
<1>6. Shape'
  BY <1>1, <1>2, <1>3, <1>4, <1>5 DEF IInv, Shape, TypeOK
<1>7. HandNew'
  BY <1>1, <1>2, <1>3, <1>4 DEF HandNew, InHand
<1>8. EntriesApart'
  <2>1. \A e \in inFlight : e.batch <= last + 1
    BY <1>3, Entry, Packets DEF IInv, EntriesApart, Shape
  <2> QED BY <1>1, <1>2, <1>3, <2>1 DEF IInv, EntriesApart
<1>9. QueueKnown' /\ PreloadKnown'
  BY <1>2 DEF IInv, QueueKnown, PreloadKnown
<1>10. ReadRoom'
  BY <1>2 DEF IInv, ReadRoom
<1>11. CountsBounded'
  <2>1. counts.read \in Nat /\ counts.lost \in Nat
    BY Numbers DEF IInv, Shape, TypeOK
  <2>2. ToCount' <= ToCount + 1 /\ ToCount \in Nat /\ ToCount' \in Nat
    BY DEF ToCount
  <2> QED BY <1>1, <1>2, <1>3, <2>1, <2>2 DEF IInv, CountsBounded
<1> QED BY <1>1, <1>6, <1>7, <1>8, <1>9, <1>10, <1>11 DEF IInv

LEMMA KeptByAllocFails == IInv /\ AllocFails => IInv'
<1> SUFFICES ASSUME IInv, AllocFails PROVE IInv'
  OBVIOUS
<1>1. PICK old \in SUBSET ToSet(store), taken \in 1 .. Fit : Pack(old, taken)
  BY DEF AllocFails
<1>2. taken \in Nat
  BY Numbers
<1>3. /\ store' \in Seq(Cars) /\ Len(store') <= Slots /\ IsInjective(store')
      /\ missed' \in [Cars -> Nat] /\ TurnsKept'
  BY <1>1, <1>2, Packed
<1>4. /\ last < MaxBatch /\ main.step = "flush" /\ main' = Idle /\ last' = last + 1
      /\ UNCHANGED <<hello, inFlight, size, layout, seen, queue, readQueue, offered,
                     counts, reading, waiting, link, fate, booked>>
  BY DEF AllocFails, CanFlush, nimble
<1>5. /\ last \in Nat /\ last + 1 \in 0 .. MaxBatch
      /\ \A b \in Batches : b > last + 1 => b > last
  BY <1>4, NextIsNew
<1>6. Shape'
  BY <1>3, <1>4, <1>5 DEF IInv, Shape, TypeOK, Idle
<1>7. HandNew'
  BY <1>4 DEF HandNew, InHand, Idle
<1>8. EntriesApart'
  <2>1. \A e \in inFlight : e.batch <= last + 1
    BY <1>5, Entry, Packets DEF IInv, EntriesApart, Shape
  <2> QED BY <1>4, <1>5, <2>1 DEF IInv, EntriesApart
<1>9. QueueKnown' /\ PreloadKnown'
  BY <1>4 DEF IInv, QueueKnown, PreloadKnown
<1>10. ReadRoom'
  BY <1>4 DEF IInv, ReadRoom
<1>11. CountsBounded'
  <2>1. counts.read \in Nat /\ counts.lost \in Nat
    BY Numbers DEF IInv, Shape, TypeOK
  <2> QED BY <1>4, <1>5, <2>1 DEF IInv, CountsBounded, ToCount, Idle
<1> QED BY <1>3, <1>6, <1>7, <1>8, <1>9, <1>10, <1>11 DEF IInv

LEMMA KeptByOfferLooksAtLink == IInv /\ OfferLooksAtLink => IInv'
<1> SUFFICES ASSUME IInv, OfferLooksAtLink PROVE IInv'
  OBVIOUS
<1> USE DEF OfferLooksAtLink, nimble
<1>1. main.step = "offer" /\ main'.batch = main.batch /\ main'.step \in {"put", "send"}
      /\ main' \in [step : {"idle", "flush", "offer", "put", "send"}, batch : Batches \union {NoBatch}]
  BY DEF IInv, Shape, TypeOK
<1>2. Shape'
  BY <1>1 DEF IInv, Shape, TypeOK
<1>3. TurnsKept' /\ HandNew'
  BY <1>1 DEF IInv, TurnsKept, HandNew, InHand
<1>4. EntriesApart' /\ QueueKnown'
  BY DEF IInv, EntriesApart, QueueKnown
<1>5. PreloadKnown' /\ ReadRoom'
  BY DEF IInv, PreloadKnown, ReadRoom
<1>6. CountsBounded'
  <2>1. counts.read \in Nat /\ counts.lost \in Nat /\ last \in Nat
    BY Numbers DEF IInv, Shape, TypeOK
  <2> QED BY <1>1, <2>1 DEF IInv, CountsBounded, ToCount
<1> QED BY <1>2, <1>3, <1>4, <1>5, <1>6 DEF IInv

\* The batch in hand gets an entry of its own.
LEMMA PlaceTaken ==
    ASSUME IInv, InHand, NEW preloaded \in BOOLEAN, TakePlace(preloaded)
    PROVE  /\ last \in Batches /\ main.batch = last /\ main' = Idle
           /\ inFlight' = inFlight \union {[batch |-> last, preloaded |-> preloaded]}
           /\ inFlight' \subseteq [batch : Batches, preloaded : BOOLEAN]
           /\ IsFiniteSet(inFlight') /\ Cardinality(inFlight') <= MaxInFlight
           /\ HandNew'
<1>1. main.batch = last /\ last # 0 /\ last \in 0 .. MaxBatch /\ Cardinality(inFlight) < MaxInFlight
  BY DEF IInv, HandNew, Shape, TypeOK
<1>2. last \in Batches
  BY <1>1, Numbers DEF Batches
<1>3. inFlight' = inFlight \union {[batch |-> last, preloaded |-> preloaded]} /\ main' = Idle
  BY <1>1 DEF TakePlace
<1>4. IsFiniteSet(inFlight) /\ Cardinality(inFlight) \in Nat
  BY FS_CardinalityType DEF IInv, Shape
<1>5. /\ IsFiniteSet(inFlight')
      /\ Cardinality(inFlight') <= Cardinality(inFlight) + 1
  BY <1>3, <1>4, FS_AddElement
<1>6. Cardinality(inFlight') <= MaxInFlight
  BY <1>1, <1>4, <1>5, FS_CardinalityType, Numbers
<1>7. HandNew'
  BY <1>3 DEF HandNew, InHand, Idle
<1> QED BY <1>1, <1>2, <1>3, <1>5, <1>6, <1>7 DEF IInv, Shape, TypeOK

LEMMA KeptByOfferPut == IInv /\ OfferPut => IInv'
<1> SUFFICES ASSUME IInv, OfferPut PROVE IInv'
  OBVIOUS
<1> DEFINE new == [batch |-> last, preloaded |-> TRUE]
<1>1. /\ last \in Batches /\ main.batch = last /\ main' = Idle
      /\ inFlight' = inFlight \union {new}
      /\ inFlight' \subseteq [batch : Batches, preloaded : BOOLEAN]
      /\ IsFiniteSet(inFlight') /\ Cardinality(inFlight') <= MaxInFlight
      /\ HandNew'
  BY PlaceTaken DEF OfferPut, InHand
<1>2. /\ main.step = "put" /\ offered = 0 /\ Len(readQueue) + 1 < ReadQueueSize
      /\ readQueue' = Append(readQueue, last) /\ offered' = Len(readQueue) + 1
      /\ UNCHANGED <<store, hello, last, size, layout, seen, queue, counts, reading,
                     waiting, link, fate, booked, missed>>
  BY <1>1 DEF OfferPut, OfferFits
<1>3. /\ readQueue \in Seq(Batches \union {Answer}) /\ Len(readQueue) \in Nat
  BY DEF IInv, Shape, TypeOK
<1>4. /\ readQueue' \in Seq(Batches \union {Answer}) /\ Len(readQueue') = Len(readQueue) + 1
      /\ readQueue'[offered'] = last /\ offered' \in 0 .. Len(readQueue') /\ offered' # 0
  BY <1>1, <1>2, <1>3
<1>5. /\ fate[last] = "none" /\ booked[last] = "none" /\ ~Contains(queue, last)
      /\ \A e \in inFlight : e.batch # last /\ ~e.preloaded
  BY <1>2, PreloadedOnes DEF IInv, HandNew, InHand
<1>6. Shape'
  <2> HIDE DEF new
  <2>1. main' \in [step : {"idle", "flush", "offer", "put", "send"}, batch : Batches \union {NoBatch}]
    BY <1>1 DEF Idle
  <2>2. Len(readQueue') < ReadQueueSize
    BY <1>2, <1>4
  <2> QED BY <1>1, <1>2, <1>4, <2>1, <2>2 DEF IInv, Shape, TypeOK
<1>7. TurnsKept'
  BY <1>2 DEF IInv, TurnsKept
<1>8. EntriesApart'
  <2>1. last <= last
    BY <1>1, Packets
  <2> QED BY <1>1, <1>2, <1>5, <2>1 DEF IInv, EntriesApart
<1>9. QueueKnown'
  BY <1>1, <1>2, <1>5 DEF IInv, QueueKnown
<1>10. PreloadKnown'
  <2>1. counts = seen
    BY <1>5, PreloadedOnes DEF IInv, PreloadKnown
  <2>2. Preloaded(inFlight') # {}
    <3>1. new \in inFlight' /\ new.preloaded
      BY <1>1
    <3> QED BY <3>1 DEF Preloaded
  <2>3. \A e \in inFlight' : e.preloaded => e = new
    BY <1>1, <1>5
  <2> QED BY <1>2, <1>4, <1>5, <2>1, <2>2, <2>3 DEF PreloadKnown
<1>11. ReadRoom'
  BY <1>2, <1>3, <1>4 DEF IInv, ReadRoom
<1>12. CountsBounded'
  BY <1>1, <1>2, <1>4 DEF IInv, CountsBounded, ToCount
<1> QED BY <1>1, <1>6, <1>7, <1>8, <1>9, <1>10, <1>11, <1>12 DEF IInv

LEMMA KeptBySendBatch == IInv /\ SendBatch => IInv'
<1> SUFFICES ASSUME IInv, SendBatch PROVE IInv'
  OBVIOUS
<1> DEFINE new == [batch |-> last, preloaded |-> FALSE]
<1>1. /\ last \in Batches /\ main.batch = last /\ main' = Idle
      /\ inFlight' = inFlight \union {new}
      /\ inFlight' \subseteq [batch : Batches, preloaded : BOOLEAN]
      /\ IsFiniteSet(inFlight') /\ Cardinality(inFlight') <= MaxInFlight
      /\ HandNew'
  BY PlaceTaken DEF SendBatch, InHand
<1>2. /\ main.step \in {"put", "send"} /\ SendToPhone(last)
      /\ UNCHANGED <<store, hello, last, size, layout, seen, readQueue, offered, counts,
                     reading, waiting, link, booked, missed>>
  BY <1>1 DEF SendBatch, nimble
<1>3. /\ fate[last] = "none" /\ booked[last] = "none" /\ ~Contains(queue, last)
      /\ \A e \in inFlight : e.batch # last
  BY <1>2 DEF IInv, HandNew, InHand
<1>4. /\ queue' \in Seq(Packet) /\ Len(queue') <= QueueSize
      /\ fate' \in [Batches -> Ends]
      /\ \A i \in 1 .. Len(queue') : queue'[i] \in Batches =>
            Contains(queue, queue'[i]) \/ queue'[i] = last
      /\ \A i, j \in 1 .. Len(queue') :
            queue'[i] \in Batches /\ queue'[i] = queue'[j] => i = j
      /\ \A b \in Batches : Contains(queue, b) \/ b = last =>
            fate'[b] = IF Contains(queue', b) THEN fate[b] ELSE "lost"
      /\ \A b \in Batches : ~Contains(queue, b) /\ b # last =>
            fate'[b] = fate[b] /\ ~Contains(queue', b)
  <2>1. last \in Packet
    BY <1>1 DEF Packet
  <2> QED BY <1>2, <1>3, <2>1, Sent
<1>5. \A b \in Batches : Contains(queue, b) => \E e \in inFlight : e.batch = b /\ ~e.preloaded
  BY DEF IInv, QueueKnown, Contains
<1>6. Shape'
  <2> HIDE DEF new
  <2>1. main' \in [step : {"idle", "flush", "offer", "put", "send"}, batch : Batches \union {NoBatch}]
    BY <1>1 DEF Idle
  <2> QED BY <1>1, <1>2, <1>4, <2>1 DEF IInv, Shape, TypeOK, Packet
<1>7. TurnsKept'
  BY <1>2 DEF IInv, TurnsKept
<1>8. EntriesApart'
  <2>1. last <= last
    BY <1>1, Packets
  <2>2. \A b \in Batches : b > last => fate'[b] = "none"
    <3> SUFFICES ASSUME NEW b \in Batches, b > last PROVE fate'[b] = "none"
      OBVIOUS
    <3>1. last \in Nat /\ b \in Nat
      BY <1>1, Packets
    <3>2. ~Contains(queue, b) /\ b # last
      BY <1>5, <3>1 DEF IInv, EntriesApart
    <3> QED BY <1>4, <3>2 DEF IInv, EntriesApart
  <2> QED BY <1>1, <1>2, <1>3, <2>1, <2>2 DEF IInv, EntriesApart
<1>9. QueueKnown'
  <2>1. \A e \in inFlight : ~e.preloaded =>
           fate'[e.batch] = IF Contains(queue', e.batch) THEN "none" ELSE "lost"
    BY <1>3, <1>4, Entry DEF IInv, QueueKnown
  <2>2. fate'[last] = IF Contains(queue', last) THEN "none" ELSE "lost"
    BY <1>1, <1>3, <1>4
  <2>3. \A i \in 1 .. Len(queue') : queue'[i] \in Batches =>
           \E e \in inFlight' : e.batch = queue'[i] /\ ~e.preloaded
    BY <1>1, <1>4, <1>5
  <2> QED BY <1>1, <1>4, <2>1, <2>2, <2>3 DEF QueueKnown
<1>10. PreloadKnown'
  <2>1. \A e \in inFlight : e.preloaded => fate'[e.batch] = fate[e.batch]
    BY <1>3, <1>4, <1>5, Entry DEF IInv, EntriesApart
  <2>2. \A e \in inFlight' : e.preloaded => e \in inFlight
    BY <1>1
  <2>3. Preloaded(inFlight') = {} => Preloaded(inFlight) = {}
    BY <1>1, PreloadedOnes
  <2> QED BY <1>2, <2>1, <2>2, <2>3 DEF IInv, PreloadKnown
<1>11. ReadRoom'
  BY <1>2 DEF IInv, ReadRoom
<1>12. CountsBounded'
  <2>1. counts.read \in Nat /\ counts.lost \in Nat /\ last \in Nat
    BY Numbers DEF IInv, Shape, TypeOK
  <2> QED BY <1>1, <1>2, <2>1 DEF IInv, CountsBounded, ToCount, Idle
<1> QED BY <1>1, <1>6, <1>7, <1>8, <1>9, <1>10, <1>11, <1>12 DEF IInv

-----------------------------------------------------------------------------
(* and the phone reads, or goes, and every step of it keeps the invariant. *)

LEMMA KeptByWaitForData == IInv /\ WaitForData => IInv'
<1> SUFFICES ASSUME IInv, WaitForData PROVE IInv'
  OBVIOUS
<1> USE DEF WaitForData, module
<1>1. Shape'
  BY DEF IInv, Shape, TypeOK
<1>2. TurnsKept' /\ HandNew'
  BY DEF IInv, TurnsKept, HandNew, InHand
<1>3. EntriesApart' /\ QueueKnown' /\ PreloadKnown'
  BY DEF IInv, EntriesApart, QueueKnown, PreloadKnown
<1>4. ReadRoom'
  BY DEF IInv, Shape, TypeOK, ReadRoom
<1>5. CountsBounded'
  BY DEF IInv, CountsBounded, ToCount
<1> QED BY <1>1, <1>2, <1>3, <1>4, <1>5 DEF IInv

\* With the batch at the head of the phone queue goes its entry, and no other.
LEMMA KeptByGetFromRadio == IInv /\ GetFromRadio => IInv'
<1> SUFFICES ASSUME IInv, GetFromRadio PROVE IInv'
  OBVIOUS
<1> DEFINE read == {Head(queue)} \intersect Batches
<1>1. /\ main = Idle /\ waiting /\ queue # << >> /\ waiting' = FALSE
      /\ queue' = Tail(queue) /\ readQueue' = Append(readQueue, Answer)
      /\ fate' = EndAs(fate, read, "read") /\ booked' = EndAs(booked, read, "read")
      /\ inFlight' = {e \in inFlight : e.batch \notin read}
      /\ UNCHANGED <<store, hello, last, size, layout, seen, main, offered, counts,
                     reading, link, missed>>
  BY DEF GetFromRadio
<1>2. /\ queue \in Seq(Packet) /\ Len(queue) \in Nat /\ Len(queue) <= QueueSize
      /\ readQueue \in Seq(Batches \union {Answer}) /\ Len(readQueue) \in Nat
      /\ offered \in 0 .. Len(readQueue)
  BY DEF IInv, Shape, TypeOK, Packet
<1>3. /\ queue' \in Seq(Packet) /\ Len(queue') = Len(queue) - 1
      /\ \A i \in 1 .. Len(queue') : i + 1 \in 1 .. Len(queue) /\ queue'[i] = queue[i + 1]
      /\ Head(queue) = queue[1] /\ 1 \in 1 .. Len(queue)
  BY <1>1, <1>2
<1>4. /\ readQueue' \in Seq(Batches \union {Answer}) /\ Len(readQueue') = Len(readQueue) + 1
      /\ \A i \in 1 .. Len(readQueue) : readQueue'[i] = readQueue[i]
  BY <1>1, <1>2
<1>5. \A b \in read : \E e \in inFlight : e.batch = b /\ ~e.preloaded
  BY <1>3 DEF IInv, QueueKnown
<1>6. \A b \in Batches : Contains(queue', b) <=> Contains(queue, b) /\ b \notin read
  <2> SUFFICES ASSUME NEW b \in Batches
               PROVE  Contains(queue', b) <=> Contains(queue, b) /\ b \notin read
    OBVIOUS
  <2>1. ASSUME NEW i \in 1 .. Len(queue'), queue'[i] = b
        PROVE  Contains(queue, b) /\ b \notin read
    <3>1. i + 1 \in 1 .. Len(queue) /\ queue[i + 1] = b /\ i + 1 # 1
      BY <1>2, <1>3, <2>1
    <3> QED BY <1>3, <3>1 DEF Contains, IInv, QueueKnown
  <2>2. ASSUME NEW i \in 1 .. Len(queue), queue[i] = b, b \notin read
        PROVE  Contains(queue', b)
    <3>1. i # 1
      BY <1>3, <2>2
    <3>2. i - 1 \in 1 .. Len(queue') /\ (i - 1) + 1 = i
      BY <1>2, <1>3, <3>1
    <3>3. queue'[i - 1] = b
      BY <1>3, <2>2, <3>2
    <3> QED BY <3>2, <3>3 DEF Contains
  <2> QED BY <2>1, <2>2 DEF Contains
<1>7. \A i, j \in 1 .. Len(queue') : queue'[i] \in Batches /\ queue'[i] = queue'[j] => i = j
  <2> SUFFICES ASSUME NEW i \in 1 .. Len(queue'), NEW j \in 1 .. Len(queue'),
                      queue'[i] \in Batches, queue'[i] = queue'[j]
               PROVE  i = j
    OBVIOUS
  <2>1. i + 1 = j + 1
    BY <1>3 DEF IInv, QueueKnown
  <2> QED BY <1>2, <1>3, <2>1
<1>8. /\ \A b \in Batches : b \in read => fate'[b] = "read" /\ booked'[b] = "read"
      /\ \A b \in Batches : b \notin read => fate'[b] = fate[b] /\ booked'[b] = booked[b]
      /\ fate' \in [Batches -> Ends] /\ booked' \in [Batches -> Ends]
  <2>1. fate \in [Batches -> Ends] /\ booked \in [Batches -> Ends]
    BY DEF IInv, Shape
  <2> HIDE DEF read
  <2> QED BY <1>1, <2>1 DEF EndAs, Ends
<1>9. inFlight' \in SUBSET inFlight /\ \A e \in inFlight' : e.batch \notin read
  BY <1>1
<1>10. \A e \in inFlight : e.preloaded => e \in inFlight'
  BY <1>1, <1>5 DEF IInv, EntriesApart
<1>11. \A e \in inFlight : e.batch \notin read => e \in inFlight'
  BY <1>1
<1>12. read \in SUBSET Batches
  OBVIOUS
<1> HIDE DEF read
<1>13. Shape'
  <2>1. inFlight' \subseteq [batch : Batches, preloaded : BOOLEAN] /\ IsFiniteSet(inFlight')
        /\ Cardinality(inFlight') <= MaxInFlight
    BY <1>9, FewerEntries DEF IInv
  <2>2. Len(queue') <= QueueSize
    BY <1>2, <1>3, Numbers
  <2>3. Len(readQueue') < ReadQueueSize
    BY <1>1, <1>2, <1>4, Numbers DEF IInv, ReadRoom
  <2>4. offered \in 0 .. Len(readQueue') /\ (offered # 0 => readQueue'[offered] \in Batches)
    <3>1. offered \in 0 .. Len(readQueue')
      BY <1>2, <1>4
    <3>2. offered # 0 => offered \in 1 .. Len(readQueue) /\ readQueue[offered] \in Batches
      BY <1>2 DEF IInv, Shape, TypeOK
    <3> QED BY <1>4, <3>1, <3>2
  <2> QED BY <1>1, <1>3, <1>4, <1>8, <2>1, <2>2, <2>3, <2>4 DEF IInv, Shape, TypeOK, Packet
<1>14. TurnsKept' /\ HandNew'
  BY <1>1 DEF IInv, TurnsKept, HandNew, InHand, Idle
<1>15. EntriesApart'
  <2>1. \A b \in Batches : b > last => b \notin read
    <3>1. last \in Nat /\ \A b \in Batches : b \in Nat
      BY Packets DEF IInv, Shape, TypeOK
    <3> QED BY <1>5, <3>1 DEF IInv, EntriesApart
  <2>2. \A e \in inFlight' : booked'[e.batch] = "none"
    BY <1>8, <1>9, Entry DEF IInv, EntriesApart
  <2> QED BY <1>1, <1>8, <1>9, <2>1, <2>2 DEF IInv, EntriesApart
<1>16. QueueKnown'
  <2>1. \A i \in 1 .. Len(queue') : queue'[i] \in Batches =>
           \E e \in inFlight' : e.batch = queue'[i] /\ ~e.preloaded
    <3> SUFFICES ASSUME NEW i \in 1 .. Len(queue'), queue'[i] \in Batches
                 PROVE  \E e \in inFlight' : e.batch = queue'[i] /\ ~e.preloaded
      OBVIOUS
    <3>1. queue'[i] \notin read
      BY <1>6 DEF Contains
    <3>2. \E e \in inFlight : e.batch = queue'[i] /\ ~e.preloaded
      BY <1>3 DEF IInv, QueueKnown
    <3> QED BY <1>11, <3>1, <3>2
  <2>2. \A e \in inFlight' : ~e.preloaded =>
           fate'[e.batch] = IF Contains(queue', e.batch) THEN "none" ELSE "lost"
    BY <1>6, <1>8, <1>9, Entry DEF IInv, QueueKnown
  <2> QED BY <1>7, <2>1, <2>2 DEF QueueKnown
<1>17. PreloadKnown'
  <2>1. \A e \in inFlight' : fate'[e.batch] = fate[e.batch]
    BY <1>8, <1>9, Entry DEF IInv
  <2>2. offered # 0 => readQueue'[offered] = readQueue[offered]
    BY <1>2, <1>4
  <2>3. Preloaded(inFlight') = {} => Preloaded(inFlight) = {}
    BY <1>10, PreloadedOnes
  <2> QED BY <1>1, <1>9, <2>1, <2>2, <2>3 DEF IInv, PreloadKnown
<1>18. ReadRoom'
  BY <1>1 DEF ReadRoom
<1>19. CountsBounded'
  BY <1>1 DEF IInv, CountsBounded, ToCount
<1> QED BY <1>13, <1>14, <1>15, <1>16, <1>17, <1>18, <1>19 DEF IInv

LEMMA KeptByNothingForPhone == IInv /\ NothingForPhone => IInv'
<1> SUFFICES ASSUME IInv, NothingForPhone PROVE IInv'
  OBVIOUS
<1> USE DEF NothingForPhone, module
<1>1. Shape'
  BY DEF IInv, Shape, TypeOK
<1>2. TurnsKept' /\ HandNew'
  BY DEF IInv, TurnsKept, HandNew, InHand
<1>3. EntriesApart' /\ QueueKnown' /\ PreloadKnown'
  BY DEF IInv, EntriesApart, QueueKnown, PreloadKnown
<1>4. ReadRoom' /\ CountsBounded'
  BY DEF IInv, ReadRoom, CountsBounded, ToCount
<1> QED BY <1>1, <1>2, <1>3, <1>4 DEF IInv

\* The offered batch has an entry, the only pre-encoded one.
LEMMA OfferedOne ==
    ASSUME IInv, offered # 0
    PROVE  \E e \in inFlight : /\ e.preloaded /\ e.batch = readQueue[offered]
                               /\ fate[e.batch] = "none" /\ counts = seen
                               /\ \A f \in inFlight : f.preloaded \/ f.batch = e.batch => f = e
<1>1. PICK e \in inFlight : e.preloaded
  BY PreloadedOnes DEF IInv, PreloadKnown
<1>2. e.batch = readQueue[offered] /\ fate[e.batch] = "none" /\ counts = seen
  BY <1>1 DEF IInv, PreloadKnown
<1> QED BY <1>1, <1>2 DEF IInv, EntriesApart

\* The offered batch ends, read or lost, and is counted: no entry changes.
LEMMA OfferedEnds ==
    ASSUME IInv, offered # 0, NEW how \in {"read", "lost"},
           counts' = IF how = "read" THEN [counts EXCEPT !.read = @ + 1]
                                     ELSE [counts EXCEPT !.lost = @ + 1],
           fate' = EndAs(fate, {readQueue[offered]}, how), offered' = 0,
           UNCHANGED <<module, queue, booked>>
    PROVE  /\ fate' \in [Batches -> Ends]
           /\ counts' \in [read : 0 .. MaxBatch, lost : 0 .. MaxBatch]
           /\ HandNew' /\ EntriesApart' /\ QueueKnown' /\ PreloadKnown' /\ CountsBounded'
<1> USE DEF module
<1>1. PICK e \in inFlight : /\ e.preloaded /\ e.batch = readQueue[offered]
                            /\ fate[e.batch] = "none" /\ counts = seen
                            /\ \A f \in inFlight : f.preloaded \/ f.batch = e.batch => f = e
  BY OfferedOne
<1>2. e.batch \in Batches /\ e.batch <= last /\ last \in Nat
  BY <1>1, Entry DEF IInv, EntriesApart, Shape, TypeOK
<1>3. fate \in [Batches -> Ends]
  BY DEF IInv, Shape
<1>4. /\ fate'[e.batch] = how /\ \A b \in Batches : b # e.batch => fate'[b] = fate[b]
      /\ fate' \in [Batches -> Ends]
  BY <1>1, <1>2, <1>3 DEF EndAs, Ends
<1>5. seen \in [read : Nat, lost : Nat] /\ last <= MaxBatch
  BY Numbers DEF IInv, Shape, TypeOK
<1>6. /\ counts'.read \in Nat /\ counts'.lost \in Nat
      /\ counts' = [read |-> counts'.read, lost |-> counts'.lost]
      /\ counts'.read + counts'.lost = counts.read + counts.lost + 1
      /\ seen.read <= counts'.read /\ seen.lost <= counts'.lost
      /\ counts' = IF how = "read" THEN [seen EXCEPT !.read = @ + 1]
                                   ELSE [seen EXCEPT !.lost = @ + 1]
  BY <1>1, <1>5
<1>7. CountsBounded'
  <2>1. main.step \notin {"offer", "put"}
    BY <1>1, PreloadedOnes DEF IInv, HandNew
  <2>2. counts.read + counts.lost + 1 <= last
    BY DEF IInv, CountsBounded, ToCount
  <2>3. ToCount' = 0
    BY <2>1 DEF ToCount
  <2> QED BY <1>2, <1>6, <2>2, <2>3 DEF CountsBounded
<1>8. counts' \in [read : 0 .. MaxBatch, lost : 0 .. MaxBatch]
  <2>1. counts'.read + counts'.lost <= last
    BY <1>6 DEF IInv, CountsBounded, ToCount
  <2>2. counts'.read \in 0 .. MaxBatch /\ counts'.lost \in 0 .. MaxBatch
    BY <1>2, <1>5, <1>6, <2>1, Numbers
  <2> QED BY <1>6, <2>2
<1>9. HandNew'
  <2>1. InHand => e.batch # last /\ last \in Batches
    BY <1>1, <1>2, Numbers DEF IInv, HandNew, Batches, Shape, TypeOK
  <2> QED BY <1>4, <2>1 DEF IInv, HandNew, InHand
<1>10. EntriesApart'
  <2>1. \A b \in Batches : b > last => b # e.batch
    BY <1>2, Packets
  <2> QED BY <1>4, <2>1 DEF IInv, EntriesApart
<1>11. QueueKnown'
  <2>1. \A f \in inFlight : ~f.preloaded => fate'[f.batch] = fate[f.batch]
    BY <1>1, <1>4, Entry DEF IInv
  <2> QED BY <2>1 DEF IInv, QueueKnown
<1>12. PreloadKnown'
  <2>1. Preloaded(inFlight) # {}
    BY <1>1, PreloadedOnes
  <2> QED BY <1>1, <1>4, <1>6, <2>1 DEF PreloadKnown
<1> QED BY <1>4, <1>7, <1>8, <1>9, <1>10, <1>11, <1>12

LEMMA KeptByOnRead == IInv /\ OnRead => IInv'
<1> SUFFICES ASSUME IInv, OnRead PROVE IInv'
  OBVIOUS
<1>1. /\ ~waiting /\ readQueue # << >> /\ readQueue' = Tail(readQueue)
      /\ offered' = IF offered > 0 THEN offered - 1 ELSE 0
      /\ UNCHANGED <<store, hello, inFlight, last, size, layout, seen, main, queue,
                     waiting, link, booked, missed>>
  BY DEF OnRead, PlaceAfterPop, module
<1>2. readQueue \in Seq(Batches \union {Answer}) /\ Len(readQueue) \in Nat
      /\ Len(readQueue) < ReadQueueSize /\ offered \in 0 .. Len(readQueue)
      /\ (offered # 0 => readQueue[offered] \in Batches)
  BY DEF IInv, Shape, TypeOK
<1>3. /\ readQueue' \in Seq(Batches \union {Answer}) /\ Len(readQueue') = Len(readQueue) - 1
      /\ \A i \in 1 .. Len(readQueue) - 1 : readQueue'[i] = readQueue[i + 1]
      /\ Head(readQueue) = readQueue[1] /\ Len(readQueue) > 0
  BY <1>1, <1>2
<1>4. Len(readQueue') < ReadQueueSize
  BY <1>2, <1>3, Numbers
<1>5. TurnsKept' /\ ReadRoom'
  BY <1>1 DEF IInv, TurnsKept, ReadRoom
<1>6. CASE offered = 1
  <2>1. /\ counts' = [counts EXCEPT !.read = @ + 1] /\ reading' = readQueue[1]
        /\ fate' = EndAs(fate, {readQueue[offered]}, "read") /\ offered' = 0
        /\ UNCHANGED <<module, queue, booked>>
    BY <1>1, <1>3, <1>6 DEF OnRead
  <2>2. /\ fate' \in [Batches -> Ends]
        /\ counts' \in [read : 0 .. MaxBatch, lost : 0 .. MaxBatch]
        /\ HandNew' /\ EntriesApart' /\ QueueKnown' /\ PreloadKnown' /\ CountsBounded'
    <3>1. offered # 0
      BY <1>6
    <3> QED BY <2>1, <3>1, OfferedEnds
  <2>3. Shape'
    <3>1. reading' \in Batches
      BY <1>2, <1>6, <2>1
    <3>2. offered' \in 0 .. Len(readQueue') /\ offered' = 0
      BY <1>2, <1>3, <2>1
    <3> QED BY <1>1, <1>3, <1>4, <2>2, <3>1, <3>2 DEF IInv, Shape, TypeOK
  <2> QED BY <1>5, <2>2, <2>3 DEF IInv
<1>7. CASE offered # 1
  <2>1. UNCHANGED <<counts, reading, fate>>
    BY <1>7 DEF OnRead
  <2>2. /\ offered' \in 0 .. Len(readQueue') /\ (offered' = 0 <=> offered = 0)
        /\ (offered # 0 => readQueue'[offered'] = readQueue[offered])
    <3>1. CASE offered = 0
      BY <1>1, <1>2, <1>3, <3>1
    <3>2. CASE offered # 0
      <4>1. /\ offered' = offered - 1 /\ offered' \in 1 .. Len(readQueue) - 1
            /\ offered' + 1 = offered
        BY <1>1, <1>2, <1>7, <3>2
      <4> QED BY <1>2, <1>3, <3>2, <4>1
    <3> QED BY <3>1, <3>2
  <2>3. Shape'
    BY <1>1, <1>2, <1>3, <1>4, <2>1, <2>2 DEF IInv, Shape, TypeOK
  <2>4. HandNew' /\ EntriesApart' /\ QueueKnown'
    BY <1>1, <2>1 DEF IInv, HandNew, InHand, EntriesApart, QueueKnown
  <2>5. PreloadKnown'
    BY <1>1, <2>1, <2>2 DEF IInv, PreloadKnown
  <2>6. CountsBounded'
    BY <1>1, <2>1, <2>2 DEF IInv, CountsBounded, ToCount
  <2> QED BY <1>5, <2>3, <2>4, <2>5, <2>6 DEF IInv
<1> QED BY <1>6, <1>7

LEMMA KeptByClearReadQueue == IInv /\ ClearReadQueue => IInv'
<1> SUFFICES ASSUME IInv, ClearReadQueue PROVE IInv'
  OBVIOUS
<1>1. /\ link' = "down" /\ readQueue' = << >> /\ offered' = 0
      /\ UNCHANGED <<store, hello, inFlight, last, size, layout, seen, main, queue,
                     reading, waiting, booked, missed>>
  BY DEF ClearReadQueue, module
<1>2. /\ readQueue' \in Seq(Batches \union {Answer}) /\ Len(readQueue') = 0
      /\ Len(readQueue') < ReadQueueSize
  BY <1>1, Numbers
<1>3. offered \in Nat
  BY DEF IInv, Shape, TypeOK
<1>4. TurnsKept' /\ ReadRoom'
  BY <1>1, <1>2 DEF IInv, TurnsKept, ReadRoom
<1>5. CASE offered # 0
  <2>1. /\ counts' = [counts EXCEPT !.lost = @ + 1]
        /\ fate' = EndAs(fate, {readQueue[offered]}, "lost") /\ offered' = 0
        /\ UNCHANGED <<module, queue, booked>>
    BY <1>1, <1>3, <1>5 DEF ClearReadQueue
  <2>2. /\ fate' \in [Batches -> Ends]
        /\ counts' \in [read : 0 .. MaxBatch, lost : 0 .. MaxBatch]
        /\ HandNew' /\ EntriesApart' /\ QueueKnown' /\ PreloadKnown' /\ CountsBounded'
    BY <1>5, <2>1, OfferedEnds
  <2>3. Shape'
    BY <1>1, <1>2, <2>2 DEF IInv, Shape, TypeOK
  <2> QED BY <1>4, <2>2, <2>3 DEF IInv
<1>6. CASE offered = 0
  <2>1. UNCHANGED <<counts, fate>>
    BY <1>6 DEF ClearReadQueue
  <2>2. Shape'
    BY <1>1, <1>2, <2>1 DEF IInv, Shape, TypeOK
  <2>3. HandNew' /\ EntriesApart' /\ QueueKnown'
    BY <1>1, <2>1 DEF IInv, HandNew, InHand, EntriesApart, QueueKnown
  <2>4. PreloadKnown' /\ CountsBounded'
    BY <1>1, <1>6, <2>1 DEF IInv, PreloadKnown, CountsBounded, ToCount
  <2> QED BY <1>4, <2>2, <2>3, <2>4 DEF IInv
<1> QED BY <1>5, <1>6

\* The steps that change nothing the invariant speaks of but the link or what
\* NimBLE's task has in hand.
LEMMA KeptByLink == IInv /\ (ReadyPreloaded \/ Connect \/ Close) => IInv'
<1> SUFFICES ASSUME IInv, ReadyPreloaded \/ Connect \/ Close PROVE IInv'
  OBVIOUS
<1>1. /\ UNCHANGED <<module, queue, readQueue, offered, counts, waiting, fate, booked, missed>>
      /\ reading' \in {reading, NoBatch} /\ link' \in {link, "up", "closing"}
  BY DEF ReadyPreloaded, Connect, Close
<1> USE DEF module
<1>2. Shape'
  BY <1>1 DEF IInv, Shape, TypeOK
<1>3. TurnsKept' /\ HandNew'
  BY <1>1 DEF IInv, TurnsKept, HandNew, InHand
<1>4. EntriesApart' /\ QueueKnown' /\ PreloadKnown'
  BY <1>1 DEF IInv, EntriesApart, QueueKnown, PreloadKnown
<1>5. ReadRoom' /\ CountsBounded'
  BY <1>1 DEF IInv, ReadRoom, CountsBounded, ToCount
<1> QED BY <1>2, <1>3, <1>4, <1>5 DEF IInv

\* Each batch is in one place, and what became of it is known from where it is,
\* at every step of the two tasks.
THEOREM IInvHolds == Spec => []IInv
<1>1. Init => IInv
  BY IInvInit
<1>2. IInv /\ [Next]_vars => IInv'
  <2> SUFFICES ASSUME IInv, [Next]_vars PROVE IInv'
    OBVIOUS
  <2>1. CASE Main
    BY <2>1, KeptByOtherPacket, KeptByHello, KeptByOfferToPhone, KeptByTrackPhoneLink,
       KeptByNoFlush, KeptByFlushNothing, KeptByFlushPhoneBatch, KeptByAllocFails,
       KeptByOfferLooksAtLink, KeptByOfferPut, KeptBySendBatch, KeptByGetFromRadio,
       KeptByNothingForPhone DEF Main
  <2>2. CASE NimbleTask
    BY <2>2, KeptByWaitForData, KeptByOnRead, KeptByLink, KeptByClearReadQueue DEF NimbleTask
  <2>3. CASE UNCHANGED vars
    <3> USE <2>3 DEF vars, module, nimble
    <3>1. Shape'
      BY DEF IInv, Shape, TypeOK
    <3>2. TurnsKept' /\ HandNew'
      BY DEF IInv, TurnsKept, HandNew, InHand
    <3>3. EntriesApart' /\ QueueKnown' /\ PreloadKnown'
      BY DEF IInv, EntriesApart, QueueKnown, PreloadKnown
    <3>4. ReadRoom' /\ CountsBounded'
      BY DEF IInv, ReadRoom, CountsBounded, ToCount
    <3> QED BY <3>1, <3>2, <3>3, <3>4 DEF IInv
  <2> QED BY <2>1, <2>2, <2>3 DEF Next
<1> QED BY <1>1, <1>2, PTL DEF Spec

-----------------------------------------------------------------------------
(* What follows from it.                                                   *)

\* For any cars, store, queues and places: the state has its shape, at most
\* MaxInFlight batches are out, and tougeOfferedIndex is the place of a batch
\* in the read queue whatever is popped from in front of it.
THEOREM TypeCorrect == Spec => []TypeOK
<1>1. IInv => TypeOK
  BY DEF IInv, Shape
<1> QED BY <1>1, IInvHolds, PTL

\* No more batches go by a pending car than the store can hold records
\* (PhoneStore::takeBatch takes the longest waiting; offer keeps the turn).
THEOREM PassedOverNobody == Spec => []NobodyPassedOver
<1>1. IInv => NobodyPassedOver
  <2> SUFFICES ASSUME IInv, NEW c \in Cars PROVE missed[c] * Fit < Slots
    BY DEF NobodyPassedOver
  <2>1. CASE ~Contains(store, c)
    <3>1. missed[c] = 0
      BY <2>1 DEF IInv, TurnsKept
    <3> QED BY <3>1, Numbers
  <2>2. CASE Contains(store, c)
    <3>1. PICK i \in 1 .. Len(store) : store[i] = c
      BY <2>2 DEF Contains
    <3>2. i + missed[c] * Fit <= Slots
      BY <3>1 DEF IInv, TurnsKept
    <3>3. missed[c] * Fit \in Nat /\ i \in Nat /\ i > 0
      <4>1. missed[c] \in Nat
        BY DEF IInv, Shape
      <4> QED BY <4>1, Numbers
    <3> DEFINE w == missed[c] * Fit
    <3> HIDE DEF w
    <3> QED BY <3>2, <3>3, Numbers DEF w
  <2> QED BY <2>1, <2>2
<1> QED BY <1>1, IInvHolds, PTL

\* Once trackPhoneLink has run, every place is held by a batch that is still
\* on its way: what was read, lost with the link or pushed out of the phone
\* queue holds none, however NimBLE's task interleaves.
THEOREM NoPlaceIsLost == Spec => PlacesComeFree
<1>1. IInv /\ [Next]_vars => (TrackPhoneLink => \A e \in inFlight' : fate[e.batch] = "none") \/ UNCHANGED vars
  <2> SUFFICES ASSUME IInv, TrackPhoneLink, NEW e \in inFlight' PROVE fate[e.batch] = "none"
    OBVIOUS
  <2>1. IInv' /\ fate' = fate /\ seen' = counts' /\ queue' = queue
    BY KeptByTrackPhoneLink DEF TrackPhoneLink, nimble
  <2>2. {seen', counts'} \subseteq [read : Nat, lost : Nat]
    BY <2>1, Numbers DEF IInv, Shape, TypeOK
  <2>3. CASE e.preloaded
    <3>1. counts' # [seen' EXCEPT !.read = @ + 1] /\ counts' # [seen' EXCEPT !.lost = @ + 1]
      BY <2>1, <2>2
    <3> QED BY <2>1, <2>3, <3>1 DEF IInv, PreloadKnown
  <2>4. CASE ~e.preloaded
    <3>1. e \in inFlight /\ e.batch \notin Reconciled
      BY DEF TrackPhoneLink
    <3>2. Contains(queue, e.batch)
      BY <2>4, <3>1 DEF Reconciled
    <3> QED BY <2>4, <3>1, <3>2 DEF IInv, QueueKnown
  <2> QED BY <2>3, <2>4
<1>2. QED
  BY <1>1, IInvHolds, PTL DEF Spec, PlacesComeFree

-----------------------------------------------------------------------------
(* The refinement: what PhoneLane does to the batches, BatchPlaces allows. *)

\* The batches that hold a place, as ImplementsBatchPlaces has them.
Held == ({main.batch} \ {NoBatch}) \union {e.batch : e \in inFlight}

\* Each entry holds one place.
LEMMA HeldBounded ==
    ASSUME IInv, main.batch = NoBatch
    PROVE  /\ IsFiniteSet(Held) /\ Cardinality(Held) <= Cardinality(inFlight)
           /\ Cardinality(Held) \in Nat /\ Cardinality(inFlight) \in Nat
<1>1. IsFiniteSet(inFlight)
  BY DEF IInv, Shape
<1>2. [e \in inFlight |-> e.batch] \in Surjection(inFlight, Held)
  BY DEF Held, Surjection
<1>3. IsFiniteSet(Held) /\ Cardinality(Held) <= Cardinality(inFlight)
  BY <1>1, <1>2, FS_Surjection DEF ExistsSurjection
<1> QED BY <1>1, <1>3, FS_CardinalityType

\* Nothing changes of what the places are about.
LEMMA Stutters ==
    ASSUME Held' = Held, UNCHANGED <<fate, booked>>
    PROVE  UNCHANGED Places!vars
BY DEF Places!vars, Held

\* Batches that leave the queues.
LEMMA Leaves ==
    ASSUME NEW ended \in SUBSET Batches, NEW how \in {"read", "lost"},
           \A b \in ended : b \in Held /\ fate[b] = "none",
           fate' = EndAs(fate, ended, how), Held' = Held, UNCHANGED booked
    PROVE  Places!Next
<1>1. Places!Leave(ended, how)
  BY DEF Places!Leave, Held, EndAs
<1> QED BY <1>1 DEF Places!Next

\* BatchPlaces counts with the same Cardinality.
LEMMA SameCardinality == ASSUME NEW S PROVE Places!Cardinality(S) = Cardinality(S)
BY DEF Places!Cardinality, Cardinality

\* A batch takes a place.
LEMMA TakesPlace ==
    ASSUME NEW b \in Batches, b \notin Held, fate[b] = "none", Cardinality(Held) < MaxInFlight,
           Held' = Held \union {b}, UNCHANGED <<fate, booked>>
    PROVE  Places!Next
<1>1. Places!Hand(b)
  BY SameCardinality DEF Places!Hand, Held
<1> QED BY <1>1 DEF Places!Next

\* Places come free.
LEMMA Frees ==
    ASSUME NEW ended \in SUBSET Batches, \A b \in ended : b \in Held /\ fate[b] # "none",
           booked' = [b \in Batches |-> IF b \in ended THEN fate[b] ELSE booked[b]],
           Held' = Held \ ended, UNCHANGED fate
    PROVE  Places!Next
<1>1. Places!Book(ended)
  BY DEF Places!Book, Held
<1> QED BY <1>1 DEF Places!Next

\* A batch is read, and booked with it.
LEMMA FreesRead ==
    ASSUME NEW b \in Batches, b \in Held, fate[b] = "none",
           fate' = [fate EXCEPT ![b] = "read"], booked' = [booked EXCEPT ![b] = "read"],
           Held' = Held \ {b}
    PROVE  Places!Next
<1>1. Places!LeaveBooked(b)
  BY DEF Places!LeaveBooked, Held
<1> QED BY <1>1 DEF Places!Next

\* The batch in hand holds the place its entry then holds.
LEMMA HeldByEntry ==
    ASSUME NEW preloaded, last # NoBatch, main.batch = last, main' = Idle,
           inFlight' = inFlight \union {[batch |-> last, preloaded |-> preloaded]}
    PROVE  Held' = Held
<1>1. Held = {last} \union {e.batch : e \in inFlight}
  BY DEF Held
<1>2. Held' = {e.batch : e \in inFlight'}
  BY DEF Held, Idle
<1>3. ASSUME NEW b PROVE b \in Held' <=> b \in Held
  <2> DEFINE new == [batch |-> last, preloaded |-> preloaded]
  <2>1. \A e : e \in inFlight' <=> e \in inFlight \/ e = new
    OBVIOUS
  <2>2. new.batch = last
    OBVIOUS
  <2> HIDE DEF new
  <2>3. b \in Held <=> b = last \/ \E e \in inFlight : e.batch = b
    BY <1>1
  <2>4. b \in Held' <=> \E e \in inFlight' : e.batch = b
    BY <1>2
  <2> QED BY <2>1, <2>2, <2>3, <2>4
<1> QED BY <1>3

\* A packet pushes out batches that hold a place and have not ended.
LEMMA PushedOutHeld ==
    ASSUME IInv, NEW packet \in Packet,
           packet \in Batches => packet = last /\ InHand
    PROVE  /\ PushedOut(packet) \in SUBSET Batches
           /\ \A b \in PushedOut(packet) : b \in Held /\ fate[b] = "none"
<1> SUFFICES ASSUME NEW b \in PushedOut(packet) PROVE b \in Held /\ fate[b] = "none"
  BY DEF PushedOut
<1>1. b \in Batches /\ (Contains(queue, b) \/ b = packet)
  <2>1. queue \in Seq(Packet)
    BY DEF IInv, Shape, TypeOK, Packet
  <2> QED BY <2>1 DEF PushedOut, ToSet, Contains
<1>2. CASE Contains(queue, b)
  <2>1. \E e \in inFlight : e.batch = b /\ ~e.preloaded
    BY <1>1, <1>2 DEF IInv, QueueKnown, Contains
  <2> QED BY <1>2, <2>1 DEF IInv, QueueKnown, Held
<1>3. CASE b = packet
  BY <1>1, <1>3, Packets DEF IInv, HandNew, Held
<1> QED BY <1>1, <1>2, <1>3

LEMMA OtherPacketLeaves == IInv /\ OtherPacket => Places!Next
<1> SUFFICES ASSUME IInv, NEW packet \in {Text, Pos}, SendToPhone(packet),
                    UNCHANGED <<module, booked>>
             PROVE  Places!Next
  BY DEF OtherPacket
<1>1. packet \in Packet /\ packet \notin Batches
  BY Packets DEF Packet
<1>2. Held' = Held
  BY DEF Held, module
<1> QED BY <1>1, <1>2, PushedOutHeld, Leaves DEF SendToPhone

LEMMA SendBatchLeaves == IInv /\ SendBatch => Places!Next
<1> SUFFICES ASSUME IInv, SendBatch PROVE Places!Next
  OBVIOUS
<1>1. InHand /\ TakePlace(FALSE)
  BY DEF SendBatch, InHand
<1>2. /\ last \in Batches /\ main.batch = last /\ main' = Idle
      /\ inFlight' = inFlight \union {[batch |-> last, preloaded |-> FALSE]}
  BY <1>1, PlaceTaken
<1>3. Held' = Held
  BY <1>2, Packets, HeldByEntry
<1>4. last \in Packet /\ fate' = EndAs(fate, PushedOut(last), "lost") /\ booked' = booked
  BY <1>2 DEF SendBatch, SendToPhone, Packet
<1>5. /\ PushedOut(last) \in SUBSET Batches
      /\ \A b \in PushedOut(last) : b \in Held /\ fate[b] = "none"
  BY <1>1, <1>4, PushedOutHeld
<1> QED BY <1>3, <1>4, <1>5, Leaves

LEMMA OfferPutStutters == IInv /\ OfferPut => UNCHANGED Places!vars
<1> SUFFICES ASSUME IInv, OfferPut PROVE UNCHANGED Places!vars
  OBVIOUS
<1>1. InHand /\ TakePlace(TRUE) /\ UNCHANGED <<fate, booked>>
  BY DEF OfferPut, InHand
<1>2. /\ last \in Batches /\ main.batch = last /\ main' = Idle
      /\ inFlight' = inFlight \union {[batch |-> last, preloaded |-> TRUE]}
  BY <1>1, PlaceTaken
<1>3. Held' = Held
  BY <1>2, Packets, HeldByEntry
<1> QED BY <1>1, <1>3, Stutters

LEMMA FlushPhoneBatchHands == IInv /\ FlushPhoneBatch => Places!Next
<1> SUFFICES ASSUME IInv, FlushPhoneBatch PROVE Places!Next
  OBVIOUS
<1>1. /\ last < MaxBatch /\ main.step = "flush" /\ Cardinality(inFlight) < MaxInFlight
      /\ main'.batch = last + 1 /\ UNCHANGED <<inFlight, fate, booked>>
  BY DEF FlushPhoneBatch, CanFlush
<1>2. /\ last + 1 \in Batches /\ fate[last + 1] = "none"
      /\ \A e \in inFlight : e.batch # last + 1
  BY <1>1, NextIsNew
<1>3. main.batch = NoBatch
  BY <1>1 DEF IInv, HandNew, InHand
<1>4. last + 1 \notin Held /\ Held' = Held \union {last + 1}
  BY <1>1, <1>2, <1>3, Packets DEF Held
<1>5. Cardinality(Held) < MaxInFlight
  BY <1>1, <1>3, HeldBounded, Numbers
<1> QED BY <1>1, <1>2, <1>4, <1>5, TakesPlace

LEMMA TrackPhoneLinkBooks == IInv /\ TrackPhoneLink => Places!Next
<1> SUFFICES ASSUME IInv, TrackPhoneLink PROVE Places!Next
  OBVIOUS
<1> DEFINE read == EndedBy("read")
           lost == LostWithLink \union Reconciled
           ended == read \union lost
<1>1. /\ main.batch = NoBatch /\ main'.batch = NoBatch
      /\ inFlight' = {e \in inFlight : e.batch \notin ended}
      /\ booked' = EndAs(EndAs(booked, lost, "lost"), read, "read") /\ fate' = fate
  BY DEF TrackPhoneLink, Idle
<1>2. \A b \in ended : \E e \in inFlight : e.batch = b
  BY DEF EndedBy, LostWithLink, Reconciled, Preloaded
<1>3. ended \in SUBSET Batches
  BY <1>2, Entry DEF IInv
<1>4. Held = {e.batch : e \in inFlight} /\ Held' = {e.batch : e \in inFlight'}
  BY <1>1 DEF Held
<1>5. Held' = Held \ ended /\ ended \subseteq Held
  <2> HIDE DEF ended
  <2> QED BY <1>1, <1>2, <1>4
<1>6. {seen, counts} \subseteq [read : Nat, lost : Nat]
  BY Numbers DEF IInv, Shape, TypeOK
<1>7. \A b \in read : fate[b] = "read"
  <2> SUFFICES ASSUME NEW b \in read PROVE fate[b] = "read"
    OBVIOUS
  <2>1. PICK e \in inFlight : e.preloaded /\ e.batch = b
    BY PreloadedOnes DEF EndedBy
  <2>2. counts.read # seen.read
    BY DEF EndedBy
  <2>3. counts # seen /\ counts # [seen EXCEPT !.lost = @ + 1]
    BY <1>6, <2>2
  <2> QED BY <2>1, <2>3 DEF IInv, PreloadKnown
<1>8. \A b \in lost : fate[b] = "lost"
  <2> SUFFICES ASSUME NEW b \in lost PROVE fate[b] = "lost"
    OBVIOUS
  <2>1. CASE b \in LostWithLink
    <3>1. PICK e \in inFlight : e.preloaded /\ e.batch = b
      BY <2>1, PreloadedOnes DEF LostWithLink, EndedBy
    <3>2. counts.lost # seen.lost
      BY <2>1 DEF LostWithLink, EndedBy
    <3>3. counts # seen /\ counts # [seen EXCEPT !.read = @ + 1]
      BY <1>6, <3>2
    <3> QED BY <3>1, <3>3 DEF IInv, PreloadKnown
  <2>2. CASE b \in Reconciled
    <3>1. PICK e \in inFlight : ~e.preloaded /\ ~Contains(queue, e.batch) /\ e.batch = b
      BY <2>2 DEF Reconciled
    <3> QED BY <3>1 DEF IInv, QueueKnown
  <2> QED BY <2>1, <2>2
<1>9. booked' = [b \in Batches |-> IF b \in ended THEN fate[b] ELSE booked[b]]
  <2> HIDE DEF read, lost
  <2> QED BY <1>1, <1>7, <1>8 DEF EndAs
<1>10. \A b \in ended : b \in Held /\ fate[b] # "none"
  BY <1>5, <1>7, <1>8
<1> HIDE DEF ended
<1> QED BY <1>1, <1>3, <1>5, <1>9, <1>10, Frees

LEMMA GetFromRadioLeaves == IInv /\ GetFromRadio => [Places!Next]_(Places!vars)
<1> SUFFICES ASSUME IInv, GetFromRadio PROVE Places!Next \/ UNCHANGED Places!vars
  OBVIOUS
<1> DEFINE b == Head(queue)
           read == {b} \intersect Batches
<1>1. /\ main = Idle /\ main' = main /\ queue # << >>
      /\ inFlight' = {e \in inFlight : e.batch \notin read}
      /\ fate' = EndAs(fate, read, "read") /\ booked' = EndAs(booked, read, "read")
  BY DEF GetFromRadio
<1>2. fate \in [Batches -> Ends] /\ booked \in [Batches -> Ends]
  BY DEF IInv, Shape
<1>3. b = queue[1] /\ 1 \in 1 .. Len(queue)
  <2>1. queue \in Seq(Packet)
    BY DEF IInv, Shape, TypeOK, Packet
  <2> QED BY <1>1, <2>1
<1>4. Held = {e.batch : e \in inFlight} /\ Held' = {e.batch : e \in inFlight'}
  BY <1>1 DEF Held, Idle
<1>5. CASE b \in Batches
  <2>1. PICK e \in inFlight : e.batch = b /\ ~e.preloaded
    BY <1>3, <1>5 DEF IInv, QueueKnown
  <2>2. fate[b] = "none"
    BY <1>3, <2>1 DEF IInv, QueueKnown, Contains
  <2> HIDE DEF b
  <2>3. b \in Held /\ Held' = Held \ {b}
    BY <1>1, <1>4, <1>5, <2>1
  <2>4. fate' = [fate EXCEPT ![b] = "read"] /\ booked' = [booked EXCEPT ![b] = "read"]
    BY <1>1, <1>2, <1>5 DEF EndAs
  <2> QED BY <1>5, <2>2, <2>3, <2>4, FreesRead
<1>6. CASE b \notin Batches
  <2>1. inFlight' = inFlight /\ fate' = fate /\ booked' = booked
    <3>1. read = {}
      BY <1>6
    <3> HIDE DEF read
    <3> QED BY <1>1, <1>2, <3>1 DEF EndAs
  <2>2. Held' = Held
    BY <1>4, <2>1
  <2> QED BY <2>1, <2>2, Stutters
<1> QED BY <1>5, <1>6

\* The offered batch is read, or lost with the link.
LEMMA OfferedLeaves ==
    ASSUME IInv, offered # 0, NEW how \in {"read", "lost"},
           fate' = EndAs(fate, {readQueue[offered]}, how), UNCHANGED <<module, booked>>
    PROVE  Places!Next
<1>1. PICK e \in inFlight : e.batch = readQueue[offered] /\ fate[e.batch] = "none"
  BY OfferedOne
<1>2. e.batch \in Batches /\ e.batch \in Held
  BY <1>1, Entry DEF Held, IInv
<1>3. Held' = Held
  BY DEF Held, module
<1> QED BY <1>1, <1>2, <1>3, Leaves

LEMMA OnReadLeaves == IInv /\ OnRead => [Places!Next]_(Places!vars)
<1> SUFFICES ASSUME IInv, OnRead PROVE Places!Next \/ UNCHANGED Places!vars
  OBVIOUS
<1>1. UNCHANGED <<module, booked>> /\ readQueue # << >> /\ readQueue \in Seq(Batches \union {Answer})
  BY DEF OnRead, IInv, Shape, TypeOK
<1>2. CASE offered = 1
  <2>1. offered # 0 /\ Head(readQueue) = readQueue[offered]
    BY <1>1, <1>2
  <2>2. fate' = EndAs(fate, {readQueue[offered]}, "read")
    BY <1>2, <2>1 DEF OnRead
  <2> QED BY <1>1, <2>1, <2>2, OfferedLeaves
<1>3. CASE offered # 1
  <2>1. fate' = fate /\ Held' = Held
    BY <1>1, <1>3 DEF OnRead, Held, module
  <2> QED BY <1>1, <2>1, Stutters
<1> QED BY <1>2, <1>3

LEMMA ClearReadQueueLeaves == IInv /\ ClearReadQueue => [Places!Next]_(Places!vars)
<1> SUFFICES ASSUME IInv, ClearReadQueue PROVE Places!Next \/ UNCHANGED Places!vars
  OBVIOUS
<1>1. UNCHANGED <<module, booked>> /\ offered \in Nat
  BY DEF ClearReadQueue, IInv, Shape, TypeOK
<1>2. CASE offered # 0
  <2>1. fate' = EndAs(fate, {readQueue[offered]}, "lost")
    BY <1>1, <1>2 DEF ClearReadQueue
  <2> QED BY <1>1, <1>2, <2>1, OfferedLeaves
<1>3. CASE offered = 0
  <2>1. fate' = fate /\ Held' = Held
    BY <1>1, <1>3 DEF ClearReadQueue, Held, module
  <2> QED BY <1>1, <2>1, Stutters
<1> QED BY <1>2, <1>3

\* The other steps move no batch.
LEMMA OthersStutter ==
    ASSUME IInv,
           \/ Hello \/ (\E c \in Cars : OfferToPhone(c)) \/ NoFlush \/ FlushNothing
           \/ AllocFails \/ OfferLooksAtLink \/ NothingForPhone
           \/ WaitForData \/ ReadyPreloaded \/ Connect \/ Close \/ UNCHANGED vars
    PROVE  UNCHANGED Places!vars
<1>1. UNCHANGED <<inFlight, fate, booked>>
  BY DEF Hello, OfferToPhone, NoFlush, FlushNothing, AllocFails, OfferLooksAtLink,
         NothingForPhone, WaitForData, ReadyPreloaded, Connect, Close, vars, module
<1>2. main'.batch = main.batch
  <2>1. CASE NoFlush \/ FlushNothing \/ AllocFails
    BY <2>1 DEF NoFlush, FlushNothing, AllocFails, CanFlush, Idle, IInv, HandNew, InHand
  <2>2. CASE OfferLooksAtLink
    BY <2>2 DEF OfferLooksAtLink, IInv, Shape, TypeOK
  <2>3. CASE UNCHANGED main
    BY <2>3
  <2> QED BY <2>1, <2>2, <2>3 DEF Hello, OfferToPhone, NothingForPhone, WaitForData,
             ReadyPreloaded, Connect, Close, vars, module
<1>3. Held' = Held
  BY <1>1, <1>2 DEF Held
<1> QED BY <1>1, <1>3, Stutters

\* PhoneLane implements BatchPlaces: for any number of places, queues and
\* batches, each batch holds a place from before it is handed over until its
\* end is booked, once, and as what it was.
THEOREM BatchesKeepTheirPlaces == Spec => ImplementsBatchPlaces
<1>1. Init => Places!Init
  BY DEF Init, Places!Init, Idle
<1>2. IInv /\ [Next]_vars => [Places!Next]_(Places!vars)
  <2> SUFFICES ASSUME IInv, [Next]_vars PROVE Places!Next \/ UNCHANGED Places!vars
    OBVIOUS
  <2> QED BY OtherPacketLeaves, SendBatchLeaves, OfferPutStutters, FlushPhoneBatchHands,
             TrackPhoneLinkBooks, GetFromRadioLeaves, OnReadLeaves, ClearReadQueueLeaves,
             OthersStutter DEF Next, Main, NimbleTask
<1> QED BY <1>1, <1>2, IInvHolds, PTL DEF Spec, ImplementsBatchPlaces, Places!Spec
=============================================================================

--------------------------- MODULE LoraLaneProofs ---------------------------
(* The LoRa lane for any cars, traffic, sizes and fix numbers: a seat for   *)
(* every queued position, one position of each car, none that goes back or  *)
(* loses its turn, and no row kept from LoRa once 2.4 GHz has stopped.  And  *)
(* the interval and the send grid, for every load and moment of the clock.  *)
EXTENDS LoraLane, FiniteSetTheorems, SequenceTheorems, TLAPS

(* The interval and the grid: nothing of the queue.                        *)

\* Rounding up to whole seconds adds less than a second and takes nothing
\* away.
LEMMA RoundUp ==
    ASSUME NEW n \in Nat
    PROVE  LET up == ((n + (Round - 1)) \div Round) * Round IN
           /\ up \in Nat /\ n <= up /\ up < n + Round /\ up % Round = 0
<1> Round \in Nat \ {0}
  BY GridAssumption
<1> DEFINE q == (n + (Round - 1)) \div Round
           r == (n + (Round - 1)) % Round
<1>1. q \in Nat /\ r \in 0 .. Round - 1 /\ n + (Round - 1) = Round * q + r
  OBVIOUS
<1>2. q * Round \in Nat /\ n <= q * Round /\ q * Round < n + Round
  BY <1>1
<1>3. (q * Round) % Round = 0
  BY <1>1
<1> QED
  BY <1>2, <1>3

\* Rounding up never goes past a whole second that was not passed before.
LEMMA RoundUpTo ==
    ASSUME NEW n \in Nat, NEW m \in Nat, n <= m, m % Round = 0
    PROVE  ((n + (Round - 1)) \div Round) * Round <= m
<1> Round \in Nat \ {0}
  BY GridAssumption
<1> DEFINE k == m \div Round
<1>1. k \in Nat /\ m = k * Round
  <2>1. k \in Nat /\ m = Round * k + (m % Round)
    OBVIOUS
  <2> QED BY <2>1
<1> DEFINE q == (n + (Round - 1)) \div Round
<1>2. q \in Nat /\ q * Round <= n + (Round - 1)
  OBVIOUS
<1>3. q * Round < (k + 1) * Round
  BY <1>1, <1>2
<1>4. q < k + 1
  BY <1>2, <1>3
<1> QED
  BY <1>1, <1>2, <1>4

\* The step before clamping is a natural number.
LEMMA SteppedType ==
    ASSUME NEW interval \in Nat, NEW busy \in Nat
    PROVE  Wanted(interval, busy) \in Nat /\ Stepped(interval, busy) \in Nat
<1> BusyTarget \in Nat \ {0}
  BY GridAssumption
<1>1. Wanted(interval, busy) \in Nat
  BY DEF Wanted
<1>2. (interval * 3) \div 4 \in Nat /\ 2 * interval \in Nat
  OBVIOUS
<1> QED
  BY <1>1, <1>2 DEF Stepped, Lower, Higher

\* Whatever the load, the interval stays in range and a whole number of
\* seconds, so that cars on the same air land on the same grids.
THEOREM IntervalInRange ==
    ASSUME NEW interval \in Intervals, NEW busy \in 0 .. Whole
    PROVE  Judge(interval, busy) \in Intervals
<1> USE GridAssumption
<1> DEFINE c == Clamped(Stepped(interval, busy))
<1>1. interval \in Nat /\ busy \in Nat
  BY DEF Intervals
<1>2. Stepped(interval, busy) \in Nat
  BY <1>1, SteppedType
<1>3. c \in Nat /\ Shortest <= c /\ c <= Longest
  BY <1>2 DEF Clamped, Lower, Higher
<1> HIDE DEF c
<1>4. Judge(interval, busy) = ((c + (Round - 1)) \div Round) * Round
  BY DEF Judge, c
<1>5. /\ Judge(interval, busy) \in Nat /\ c <= Judge(interval, busy)
      /\ Judge(interval, busy) % Round = 0
  BY <1>3, <1>4, RoundUp
<1>6. Judge(interval, busy) <= Longest
  BY <1>3, <1>4, RoundUpTo
<1> QED
  BY <1>3, <1>5, <1>6 DEF Intervals

\* The interval does not stick short of its limits: over the target it grows,
\* well under the target it shrinks, each by at least a second.
THEOREM NeverSticks ==
    ASSUME NEW interval \in Intervals, NEW busy \in 0 .. Whole
    PROVE  /\ busy > BusyTarget /\ interval < Longest => Judge(interval, busy) > interval
           /\ busy * 4 < BusyTarget * 3 /\ interval > Shortest => Judge(interval, busy) < interval
<1> USE GridAssumption
<1> DEFINE s == Stepped(interval, busy)
           c == Clamped(s)
           w == Wanted(interval, busy)
<1>1. /\ interval \in Nat /\ busy \in Nat /\ Shortest <= interval /\ interval <= Longest
      /\ interval % Round = 0
  BY DEF Intervals
<1>2. s \in Nat /\ w \in Nat
  BY <1>1, SteppedType
<1>3. /\ BusyTarget * w <= interval * busy
      /\ interval * busy < BusyTarget * (w + 1)
  BY <1>1, <1>2 DEF Wanted
<1>4. Judge(interval, busy) = ((c + (Round - 1)) \div Round) * Round
  BY DEF Judge
<1>c. c \in Nat
  BY <1>2 DEF Clamped, Lower, Higher
<1>5. ASSUME busy > BusyTarget, interval < Longest
      PROVE  Judge(interval, busy) > interval
  <2>1. interval * busy >= interval * (BusyTarget + 1)
    BY <1>1, <1>5
  <2>2. interval * busy >= BusyTarget * (interval + 1)
    BY <2>1, <1>1
  <2>3. BusyTarget * (w + 1) > BusyTarget * (interval + 1)
    BY <2>2, <1>1, <1>2, <1>3
  <2>4. w >= interval + 1
    BY <2>3, <1>1, <1>2
  <2>5. s >= interval + 1
    BY <2>4, <1>1, <1>2, <1>5 DEF Stepped, Lower
  <2>6. c >= interval + 1
    BY <2>5, <1>1, <1>2, <1>5 DEF Clamped, Lower, Higher
  <2> HIDE DEF s, c, w
  <2>7. Judge(interval, busy) >= c
    BY <1>4, <1>c, RoundUp
  <2>8. Judge(interval, busy) \in Nat
    BY <1>4, <1>c, RoundUp
  <2> QED
    BY <2>6, <2>7, <2>8, <1>1, <1>c
<1>6. ASSUME busy * 4 < BusyTarget * 3, interval > Shortest
      PROVE  Judge(interval, busy) < interval
  <2> DEFINE d == (interval * 3) \div 4
  <2>0. d \in Nat /\ 4 * d <= interval * 3
    BY <1>1
  <2>1. interval * (busy * 4) <= interval * (BusyTarget * 3)
    BY <1>1, <1>6
  <2>2. BusyTarget * (4 * w) <= BusyTarget * (3 * interval)
    BY <2>1, <1>1, <1>2, <1>3
  <2>3. 4 * w <= 3 * interval
    BY <2>2, <1>1, <1>2
  <2>4. s = Higher(w, d)
    BY <1>1, <1>6 DEF Stepped
  <2>5. 4 * s <= 3 * interval
    <3> HIDE DEF s, w, d
    <3> QED BY <2>0, <2>3, <2>4, <1>1, <1>2 DEF Higher
  <2>6. CASE s >= Shortest
    <3>1. c <= s
      BY <2>6, <1>2 DEF Clamped, Lower, Higher
    <3>2. 4 * c + 4 * Round <= 4 * interval
      BY <3>1, <2>5, <1>1, <1>2, <1>c
    <3> HIDE DEF s, c, w, d
    <3>3. Judge(interval, busy) < c + Round /\ Judge(interval, busy) \in Nat
      BY <1>4, <1>c, RoundUp
    <3> QED
      BY <3>2, <3>3, <1>1, <1>c
  <2>7. CASE s < Shortest
    <3>1. c = Shortest
      BY <2>7, <1>2 DEF Clamped, Lower, Higher
    <3>2. Judge(interval, busy) <= Shortest /\ Judge(interval, busy) \in Nat
      <4> HIDE DEF s, w
      <4> QED BY <3>1, <1>4, RoundUp, RoundUpTo
    <3> QED
      BY <3>2, <1>1, <1>6
  <2> QED
    BY <2>6, <2>7, <1>2
<1> QED
  BY <1>5, <1>6

\* A car's place on the grid is inside one interval.
LEMMA OffsetInInterval ==
    ASSUME NEW interval \in Nat \ {0}, NEW rank \in Nat, NEW cars \in Nat \ {0},
           NEW jitter \in Nat
    PROVE  /\ Offset(interval, rank, cars, jitter) \in Nat
           /\ Offset(interval, rank, cars, jitter) < interval
<1> DEFINE share == Share(interval, cars)
           r == rank % cars
           j == Jittered(share, jitter)
<1>1. share \in Nat /\ cars * share <= interval
  BY DEF Share
<1>2. r \in Nat /\ r <= cars - 1
  OBVIOUS
<1>3. share \div 2 \in Nat /\ 2 * (share \div 2) <= share
  BY <1>1
<1>4. j \in Nat /\ (j < share \div 2 \/ j = 0)
  BY <1>1, <1>3 DEF Jittered
<1>5. Offset(interval, rank, cars, jitter) = r * share + j
  BY DEF Offset
<1> HIDE DEF share, r, j
<1>6. r * share \in Nat /\ r * share <= (cars - 1) * share
  BY <1>1, <1>2
<1>7. (cars - 1) * share + share <= interval
  BY <1>1
<1>8. CASE share = 0
  BY <1>8, <1>1, <1>2, <1>3, <1>4, <1>5, <1>6
<1>9. CASE share > 0
  <2>1. j < share
    BY <1>9, <1>1, <1>3, <1>4
  <2> QED
    BY <2>1, <1>1, <1>4, <1>5, <1>6, <1>7
<1> QED
  BY <1>1, <1>8, <1>9

\* The next position is due after the moment asked for and at most one
\* interval later, at this car's place on the grid.
THEOREM DueWithinAnInterval ==
    ASSUME NEW after \in Nat, NEW interval \in Nat \ {0}, NEW rank \in Nat,
           NEW cars \in Nat \ {0}, NEW jitter \in Nat
    PROVE  LET at == NextLoraSendAt(after, interval, rank, cars, jitter) IN
           /\ at \in Nat /\ after < at /\ at <= after + interval
           /\ at % interval = Offset(interval, rank, cars, jitter)
<1> DEFINE q == after \div interval
           o == Offset(interval, rank, cars, jitter)
           at == NextLoraSendAt(after, interval, rank, cars, jitter)
<1>1. o \in Nat /\ o < interval
  BY OffsetInInterval
<1>2. q \in Nat /\ q * interval <= after /\ after < q * interval + interval
  OBVIOUS
<1>3. at = IF q * interval + o <= after THEN q * interval + o + interval
           ELSE q * interval + o
  BY DEF NextLoraSendAt
<1> HIDE DEF o, q, at
<1>4. at \in Nat /\ after < at /\ at <= after + interval
  BY <1>1, <1>2, <1>3
<1>5. at % interval = o
  <2>1. PICK k \in Nat : at = interval * k + o
    <3>1. CASE q * interval + o <= after
      BY <3>1, <1>1, <1>2, <1>3, at = interval * (q + 1) + o
    <3>2. CASE ~(q * interval + o <= after)
      BY <3>2, <1>1, <1>2, <1>3
    <3> QED BY <3>1, <3>2
  <2> QED BY <2>1, <1>1
<1> QED
  BY <1>4, <1>5 DEF o, at

\* Two cars that agree on the interval and on the number of cars, and differ
\* in rank, are due more than half a share apart at any grid points of theirs,
\* whatever their jitter: each car's relays have that much air to finish in.
THEOREM SharesApart ==
    ASSUME NEW interval \in Nat \ {0}, NEW cars \in Nat \ {0},
           NEW a \in 0 .. cars - 1, NEW b \in 0 .. cars - 1, a < b,
           NEW ja \in Nat, NEW jb \in Nat
    PROVE  2 * (Offset(interval, b, cars, jb) - Offset(interval, a, cars, ja)) >=
               Share(interval, cars)
<1> DEFINE share == Share(interval, cars)
           oa == Jittered(share, ja)
           ob == Jittered(share, jb)
<1>1. share \in Nat
  BY DEF Share
<1>2. share \div 2 \in Nat /\ 2 * (share \div 2) <= share
  BY <1>1
<1>3. /\ oa \in Nat /\ ob \in Nat /\ oa <= share \div 2
  BY <1>1, <1>2 DEF Jittered
<1>4. a % cars = a /\ b % cars = b
  OBVIOUS
<1>5. Offset(interval, a, cars, ja) = a * share + oa /\ Offset(interval, b, cars, jb) = b * share + ob
  BY <1>4 DEF Offset
<1> HIDE DEF share, oa, ob
<1>6. b * share >= a * share + share
  BY <1>1
<1>7. a * share \in Nat /\ b * share \in Nat
  BY <1>1
<1> QED
  BY <1>1, <1>2, <1>3, <1>5, <1>6, <1>7 DEF share

-----------------------------------------------------------------------------
(* The inductive invariant.                                                *)

Packets ==
    [from : Cars \union {Self}, id : 0 .. QueueLen + 2, hops : 0 .. MaxHops, fix : FixIds]

Fixes ==
    [seq : 0 .. SeqSpan - 1, reading : Readings[setting] \union {NoReading},
     fed : 0 .. Stale, phoneFed : 0 .. PhoneFresh]

LoadStates == [before : Intervals, now : Intervals, judged : 0 .. Rounds[setting]]

Shape ==
    /\ setting \in Settings /\ phone \in {"gone", "due", "written"} /\ ran \in BOOLEAN
    /\ own \in Fixes /\ wait \in 0 .. MaxWait
    /\ load \in LoadStates /\ traffic \in Loads[setting]
    /\ air \in Packets
    /\ age \in [Cars -> 0 .. Forgotten] /\ row \in [Cars -> {"fast", "lora"}]
    /\ restore \in Seq(Cars) /\ Len(restore) <= RestoreSlots

\* A packet carries a fix that its car has sent.
WasHeard(p) ==
    p.from \in Cars => \E t \in Traffic[setting] : t.from = p.from /\ t.fix = p.fix

\* A queue of packets under ids of their own, one position of each car.
QueueOk(q) ==
    /\ q \in Seq(Packets) /\ Len(q) <= QueueLen
    /\ \A i \in 1 .. Len(q) : q[i].id \in Ids /\ WasHeard(q[i])
    /\ \A i, j \in 1 .. Len(q) : q[i].from = q[j].from /\ q[i].id = q[j].id => i = j
    /\ \A i, j \in 1 .. Len(q) :
          IsPosition(q[i]) /\ IsPosition(q[j]) /\ q[i].from = q[j].from => i = j

Seat(p) == [from |-> p.from, id |-> p.id, fix |-> p.fix]
Seats(q) == {Seat(q[i]) : i \in {j \in 1 .. Len(q) : IsPosition(q[j])}}

\* Every queued position is noted, and nothing else is.
SeatsKept == tags = Seats(queue)

\* A row noted in the ring was noted in this tick, or late in the one before,
\* while 2.4 GHz carried its car.
RingFresh ==
    \A c \in Cars :
        Contains(restore, c) => age[c] <= Precedence /\ (ran => age[c] < Precedence)

IInv == Shape /\ QueueOk(queue) /\ SeatsKept /\ RingFresh

-----------------------------------------------------------------------------
(* Numbers and sequences.                                                  *)

LEMMA Numbers ==
    /\ {SeqSpan, PhoneFresh, Stale, Precedence, QueueLen, MaxHops, RestoreSlots,
        MaxWait} \subseteq Nat \ {0}
    /\ Forgotten \in Nat /\ Precedence < Forgotten
BY LaneAssumption DEF Forgotten

LEMMA UpTo ==
    ASSUME NEW n \in Nat
    PROVE  IsFiniteSet(1 .. n) /\ Cardinality(1 .. n) = n
BY FS_Interval

LEMMA Inserting ==
    ASSUME NEW S, NEW q \in Seq(S), NEW p \in S, NEW k \in 1 .. Len(q) + 1
    PROVE  /\ InsertAt(q, k, p) \in Seq(S) /\ Len(InsertAt(q, k, p)) = Len(q) + 1
           /\ \A j \in 1 .. Len(q) + 1 : InsertAt(q, k, p)[j] =
                 IF j < k THEN q[j] ELSE IF j = k THEN p ELSE q[j - 1]
<1> DEFINE a == SubSeq(q, 1, k - 1)
           b == SubSeq(q, k, Len(q))
           c == a \o <<p>>
<1>1. a \in Seq(S) /\ Len(a) = k - 1 /\ \A i \in 1 .. k - 1 : a[i] = q[i]
  OBVIOUS
<1>2. b \in Seq(S) /\ Len(b) = Len(q) - k + 1 /\ \A i \in 1 .. Len(q) - k + 1 : b[i] = q[k + i - 1]
  OBVIOUS
<1>3. InsertAt(q, k, p) = c \o b
  BY DEF InsertAt
<1> HIDE DEF a, b
<1>4. c \in Seq(S) /\ Len(c) = k /\ \A i \in 1 .. k : c[i] = IF i < k THEN q[i] ELSE p
  <2>1. <<p>> \in Seq(S) /\ Len(<<p>>) = 1 /\ <<p>>[1] = p
    OBVIOUS
  <2>2. /\ c \in Seq(S) /\ Len(c) = k
        /\ \A i \in 1 .. k : c[i] = IF i <= k - 1 THEN a[i] ELSE <<p>>[i - (k - 1)]
    BY <1>1, <2>1, ConcatProperties
  <2> HIDE DEF c
  <2>3. ASSUME NEW i \in 1 .. k PROVE c[i] = IF i < k THEN q[i] ELSE p
    <3>1. CASE i < k
      BY <1>1, <2>2, <3>1
    <3>2. CASE i = k
      <4>1. i - (k - 1) = 1 /\ ~(i <= k - 1)
        BY <3>2
      <4> QED BY <2>1, <2>2, <3>2, <4>1
    <3> QED BY <3>1, <3>2
  <2> QED BY <2>2, <2>3
<1> HIDE DEF c
<1>5. /\ c \o b \in Seq(S) /\ Len(c \o b) = Len(q) + 1
      /\ \A i \in 1 .. Len(q) + 1 : (c \o b)[i] = IF i <= k THEN c[i] ELSE b[i - k]
  <2>1. Len(c) = k /\ Len(c) + Len(b) = Len(q) + 1
    BY <1>2, <1>4
  <2> QED BY <1>2, <1>4, <2>1, ConcatProperties
<1>6. ASSUME NEW j \in 1 .. Len(q) + 1
      PROVE  (c \o b)[j] = IF j < k THEN q[j] ELSE IF j = k THEN p ELSE q[j - 1]
  <2>1. CASE j <= k
    BY <1>4, <1>5, <2>1
  <2>2. CASE ~(j <= k)
    <3>1. j - k \in 1 .. Len(q) - k + 1 /\ k + (j - k) - 1 = j - 1
      BY <2>2
    <3>2. (c \o b)[j] = b[j - k] /\ b[j - k] = q[k + (j - k) - 1]
      BY <1>2, <1>5, <2>2, <3>1
    <3> QED BY <2>2, <3>1, <3>2
  <2> QED BY <2>1, <2>2
<1> QED BY <1>3, <1>5, <1>6

-----------------------------------------------------------------------------
(* What becomes of the queue.  m tells where each place was before, 0 for  *)
(* that of the packet p that came.                                         *)

Moved(q, r, p, m) ==
    /\ m \in [1 .. Len(r) -> 0 .. Len(q)]
    /\ \A j \in 1 .. Len(r) : r[j] = IF m[j] = 0 THEN p ELSE q[m[j]]
    /\ \A i, j \in 1 .. Len(r) : m[i] = m[j] => i = j

\* The packets that were there keep their order, and only our own goes ahead
\* of any.
InTurn(r, p, m) ==
    \A i, j \in 1 .. Len(r) : i < j =>
        /\ m[i] # 0 /\ m[j] # 0 => m[i] < m[j]
        /\ m[i] = 0 => p.from = Self

\* An empty place is filled only if no position of the car is queued.
Lone(q, r, p, m) ==
    IsPosition(p) =>
        \A i, j \in 1 .. Len(r) :
            m[i] = 0 /\ m[j] # 0 /\ IsPosition(r[j]) => r[j].from # p.from

LEMMA InsertedMoves ==
    ASSUME NEW q \in Seq(Packets), NEW p \in Packets
    PROVE  /\ Inserted(q, p) \in Seq(Packets) /\ Len(Inserted(q, p)) = Len(q) + 1
           /\ \E m : Moved(q, Inserted(q, p), p, m) /\ InTurn(Inserted(q, p), p, m)
<1> DEFINE B == {i \in DOMAIN q : ~Ahead(p, q[i])}
           k == Cardinality(B) + 1
           r == InsertAt(q, k, p)
           m == [j \in 1 .. Len(r) |-> IF j < k THEN j ELSE IF j = k THEN 0 ELSE j - 1]
<1>0. Len(q) \in Nat
  OBVIOUS
<1>1. DOMAIN q = 1 .. Len(q)
  OBVIOUS
<1>2. IsFiniteSet(1 .. Len(q)) /\ Cardinality(1 .. Len(q)) = Len(q)
  BY <1>0, UpTo
<1>3. B \subseteq 1 .. Len(q)
  BY <1>1
<1>4. Cardinality(B) \in 0 .. Len(q)
  <2> HIDE DEF B
  <2>1. Cardinality(B) \in Nat /\ Cardinality(B) <= Cardinality(1 .. Len(q))
    BY <1>2, <1>3, FS_Subset, FS_CardinalityType
  <2> QED BY <1>0, <1>2, <2>1
<1>5. p.from # Self => Cardinality(B) = Len(q)
  <2> SUFFICES ASSUME p.from # Self PROVE B = 1 .. Len(q)
    BY <1>2
  <2> QED BY <1>1 DEF Ahead
<1>6. Inserted(q, p) = r
  BY DEF Inserted
<1> HIDE DEF B
<1>7. k \in 1 .. Len(q) + 1 /\ (p.from # Self => k = Len(q) + 1)
  BY <1>0, <1>4, <1>5
<1> HIDE DEF k
<1>8. /\ r \in Seq(Packets) /\ Len(r) = Len(q) + 1
      /\ \A j \in 1 .. Len(q) + 1 : r[j] = IF j < k THEN q[j] ELSE IF j = k THEN p ELSE q[j - 1]
  BY <1>7, Inserting
<1> HIDE DEF r
<1>9. Moved(q, r, p, m) /\ InTurn(r, p, m)
  BY <1>0, <1>7, <1>8 DEF Moved, InTurn
<1> QED BY <1>6, <1>8, <1>9

LEMMA FrontMoves ==
    ASSUME NEW q \in Seq(Packets), q # << >>
    PROVE  /\ Front(q) \in Seq(Packets) /\ Len(Front(q)) = Len(q) - 1
           /\ \A i \in 1 .. Len(q) - 1 : Front(q)[i] = q[i]
<1>1. Len(q) \in Nat /\ Len(q) # 0
  BY EmptySeq
<1>2. \A i \in 1 .. Len(q) - 1 : q[i] \in Packets
  BY <1>1, ElementOfSeq
<1> DEFINE n == Len(q) - 1
<1>3. n \in Nat /\ 1 \in Int /\ n \in Int /\ \A i \in 1 .. n : q[i] \in Packets
  BY <1>1, <1>2
<1> HIDE DEF n
<1>4. /\ SubSeq(q, 1, n) \in Seq(Packets)
      /\ Len(SubSeq(q, 1, n)) = IF 1 <= n THEN n - 1 + 1 ELSE 0
      /\ \A i \in 1 .. n - 1 + 1 : SubSeq(q, 1, n)[i] = q[1 + i - 1]
  BY <1>3, SubSeqProperties
<1>5. n - 1 + 1 = n /\ \A i \in 1 .. n : 1 + i - 1 = i
  BY <1>3
<1>6. Len(SubSeq(q, 1, n)) = n /\ \A i \in 1 .. n : SubSeq(q, 1, n)[i] = q[i]
  BY <1>3, <1>4, <1>5
<1> QED BY <1>4, <1>6 DEF Front, n

\* A stock queue takes the packet in, in place of its last perhaps, or stays.
LEMMA StockMoves ==
    ASSUME NEW q \in Seq(Packets), NEW p \in Packets, Len(q) <= QueueLen
    PROVE  /\ StockQueued(q, p) \in Seq(Packets) /\ Len(StockQueued(q, p)) <= QueueLen
           /\ \E m : Moved(q, StockQueued(q, p), p, m) /\ InTurn(StockQueued(q, p), p, m)
<1> DEFINE r == StockQueued(q, p)
<1>0. Len(q) \in Nat /\ QueueLen \in Nat \ {0}
  BY Numbers
<1>1. CASE Len(q) < QueueLen
  <2>1. r = Inserted(q, p)
    BY <1>1 DEF StockQueued
  <2>2. Inserted(q, p) \in Seq(Packets) /\ Len(Inserted(q, p)) = Len(q) + 1
    BY InsertedMoves
  <2>3. \E m : Moved(q, Inserted(q, p), p, m) /\ InTurn(Inserted(q, p), p, m)
    BY InsertedMoves
  <2>4. Len(q) + 1 <= QueueLen
    BY <1>0, <1>1
  <2> HIDE DEF r
  <2>5. r \in Seq(Packets) /\ Len(r) <= QueueLen
    BY <2>1, <2>2, <2>4
  <2>6. \E m : Moved(q, r, p, m) /\ InTurn(r, p, m)
    BY <2>1, <2>3
  <2> QED BY <2>5, <2>6 DEF r
<1>2. CASE ~(Len(q) < QueueLen) /\ Ahead(p, Last(q))
  <2> DEFINE f == Front(q)
  <2>1. r = Inserted(f, p) /\ q # << >>
    BY <1>0, <1>2 DEF StockQueued
  <2>2. f \in Seq(Packets) /\ Len(f) = Len(q) - 1 /\ \A i \in 1 .. Len(q) - 1 : f[i] = q[i]
    BY <2>1, FrontMoves
  <2> HIDE DEF f
  <2>3. PICK m : Moved(f, Inserted(f, p), p, m) /\ InTurn(Inserted(f, p), p, m)
    BY <2>2, InsertedMoves
  <2>4. Inserted(f, p) \in Seq(Packets) /\ Len(Inserted(f, p)) = Len(q)
    BY <2>2, InsertedMoves
  <2> HIDE DEF r
  <2>5. Moved(q, r, p, m)
    <3>1. /\ m \in [1 .. Len(r) -> 0 .. Len(f)]
          /\ \A j \in 1 .. Len(r) : r[j] = IF m[j] = 0 THEN p ELSE f[m[j]]
          /\ \A i, j \in 1 .. Len(r) : m[i] = m[j] => i = j
      BY <2>1, <2>3 DEF Moved
    <3>2. m \in [1 .. Len(r) -> 0 .. Len(q)]
      BY <1>0, <2>2, <3>1
    <3>3. ASSUME NEW j \in 1 .. Len(r), m[j] # 0 PROVE f[m[j]] = q[m[j]]
      <4>1. m[j] \in 1 .. Len(q) - 1
        BY <2>2, <3>1, <3>3
      <4> QED BY <2>2, <4>1
    <3> QED BY <3>1, <3>2, <3>3 DEF Moved
  <2>6. r \in Seq(Packets) /\ Len(r) <= QueueLen
    BY <2>1, <2>4
  <2>7. InTurn(r, p, m)
    BY <2>1, <2>3
  <2> QED BY <2>5, <2>6, <2>7 DEF r
<1>3. CASE ~(Len(q) < QueueLen) /\ ~Ahead(p, Last(q))
  <2> DEFINE m == [j \in 1 .. Len(q) |-> j]
  <2>1. r = q
    BY <1>3 DEF StockQueued
  <2>2. Moved(q, q, p, m) /\ InTurn(q, p, m)
    BY <1>0 DEF Moved, InTurn
  <2> QED BY <2>1, <2>2
<1> QED BY <1>1, <1>2, <1>3
-----------------------------------------------------------------------------
(* Seats and numbers of packets.                                           *)

\* A packet that comes is new to the queue, and its fix one that was heard.
Newcomer(p) ==
    /\ p \in Packets /\ p.id \in Ids /\ WasHeard(p)
    /\ \A i \in 1 .. Len(queue) : ~(queue[i].from = p.from /\ queue[i].id = p.id)

\* The seats with one for the newcomer.
WithSeat(p) == IF IsPosition(p) THEN Seats(queue) \union {Seat(p)} ELSE Seats(queue)

LEMMA InQueueAt ==
    ASSUME NEW q \in Seq(Packets), NEW f, NEW n
    PROVE  InQueue(q, f, n) <=> \E i \in 1 .. Len(q) : q[i].from = f /\ q[i].id = n
<1>1. DOMAIN q = 1 .. Len(q)
  OBVIOUS
<1> QED BY <1>1 DEF InQueue

\* There are more numbers than packets.
LEMMA FreshIds ==
    ASSUME QueueOk(queue), air \in Packets, NEW from
    PROVE  /\ FreshId(from) \in Ids
           /\ \A i \in 1 .. Len(queue) : ~(queue[i].from = from /\ queue[i].id = FreshId(from))
<1> DEFINE I == {queue[i].id : i \in 1 .. Len(queue)}
           U == I \union {air.id}
           P(i) == ~InQueue(queue, from, i) /\ ~(air.from = from /\ air.id = i)
<1>0. Len(queue) \in Nat /\ QueueLen \in Nat \ {0} /\ Len(queue) <= QueueLen
  BY Numbers DEF QueueOk
<1>1. IsFiniteSet(1 .. Len(queue)) /\ Cardinality(1 .. Len(queue)) = Len(queue)
  BY <1>0, UpTo
<1>2. IsFiniteSet(I) /\ Cardinality(I) <= Len(queue)
  <2> DEFINE f == [i \in 1 .. Len(queue) |-> queue[i].id]
  <2>1. f \in Surjection(1 .. Len(queue), I)
    BY DEF Surjection
  <2> HIDE DEF f, I
  <2> QED BY <1>1, <2>1, FS_Surjection
<1>3. IsFiniteSet(U) /\ Cardinality(U) <= QueueLen + 1
  <2> HIDE DEF I
  <2>1. /\ IsFiniteSet(U)
        /\ Cardinality(U) = IF air.id \in I THEN Cardinality(I) ELSE Cardinality(I) + 1
    BY <1>2, FS_AddElement
  <2>2. Cardinality(I) \in Nat
    BY <1>2, FS_CardinalityType
  <2> QED BY <1>0, <1>2, <2>1, <2>2
<1>4. IsFiniteSet(Ids) /\ Cardinality(Ids) = QueueLen + 2
  <2>1. 1 \in Int /\ QueueLen + 2 \in Int /\ ~(1 > QueueLen + 2) /\ QueueLen + 2 - 1 + 1 = QueueLen + 2
    BY <1>0
  <2> QED BY <2>1, FS_Interval DEF Ids
<1>5. PICK i \in Ids : i \notin U
  <2> HIDE DEF U
  <2> SUFFICES ASSUME Ids \subseteq U PROVE FALSE
    OBVIOUS
  <2>1. Cardinality(Ids) <= Cardinality(U) /\ Cardinality(U) \in Nat
    BY <1>3, FS_Subset, FS_CardinalityType
  <2> QED BY <1>0, <1>3, <1>4, <2>1
<1>6. queue \in Seq(Packets)
  BY DEF QueueOk
<1>7. P(i)
  BY <1>5, <1>6, InQueueAt
<1>8. FreshId(from) \in Ids /\ P(FreshId(from))
  <2>1. FreshId(from) = CHOOSE n \in Ids : P(n)
    BY DEF FreshId
  <2> HIDE DEF P
  <2> QED BY <1>7, <2>1
<1> QED BY <1>6, <1>8, InQueueAt

\* There is a seat for every newcomer.
LEMMA NotedSeats ==
    ASSUME QueueOk(queue), SeatsKept, NEW p \in Packets
    PROVE  Noted(p.from, p.id, p.fix) = WithSeat(p)
<1> DEFINE P == {j \in 1 .. Len(queue) : IsPosition(queue[j])}
           f == [i \in P |-> Seat(queue[i])]
<1>0. Len(queue) \in Nat /\ QueueLen \in Nat \ {0} /\ Len(queue) <= QueueLen
  BY Numbers DEF QueueOk
<1>1. IsFiniteSet(P) /\ Cardinality(P) <= Len(queue)
  <2>1. IsFiniteSet(1 .. Len(queue)) /\ Cardinality(1 .. Len(queue)) = Len(queue)
    BY <1>0, UpTo
  <2>2. P \subseteq 1 .. Len(queue)
    OBVIOUS
  <2> HIDE DEF P
  <2> QED BY <2>1, <2>2, FS_Subset
<1>2. f \in Surjection(P, Seats(queue))
  BY DEF Surjection, Seats
<1>3. Cardinality(Seats(queue)) \in Nat /\ Cardinality(Seats(queue)) <= Len(queue)
  <2> HIDE DEF P, f
  <2>1. IsFiniteSet(Seats(queue)) /\ Cardinality(Seats(queue)) <= Cardinality(P)
    BY <1>1, <1>2, FS_Surjection
  <2> QED BY <1>0, <1>1, <2>1, FS_CardinalityType
<1>4. ~(Cardinality(Seats(queue)) >= QueueLen + 1)
  BY <1>0, <1>3
<1> QED BY <1>4 DEF Noted, SeatsKept, WithSeat, Seat, IsPosition

LEMMA FoundSeats ==
    ASSUME QueueOk(queue), NEW p, Newcomer(p)
    PROVE  /\ Found(WithSeat(p), p) = IF IsPosition(p) THEN {p.fix} ELSE {}
           /\ \A i \in 1 .. Len(queue) :
                 Found(WithSeat(p), queue[i]) =
                    IF IsPosition(queue[i]) THEN {queue[i].fix} ELSE {}
<1> DEFINE S == WithSeat(p)
<1>1. \A t \in S : \/ t = Seat(p) /\ IsPosition(p)
                   \/ \E j \in 1 .. Len(queue) : IsPosition(queue[j]) /\ t = Seat(queue[j])
  BY DEF WithSeat, Seats
<1>2. IsPosition(p) => Seat(p) \in S
  BY DEF WithSeat
<1>3. \A j \in 1 .. Len(queue) : IsPosition(queue[j]) => Seat(queue[j]) \in S
  BY DEF WithSeat, Seats
<1>4. \A r : /\ Seat(r).from = r.from /\ Seat(r).id = r.id /\ Seat(r).fix = r.fix
  BY DEF Seat
<1>5. \A j \in 1 .. Len(queue) : ~(queue[j].from = p.from /\ queue[j].id = p.id)
  BY DEF Newcomer
<1>6. \A i, j \in 1 .. Len(queue) :
         queue[i].from = queue[j].from /\ queue[i].id = queue[j].id => i = j
  BY DEF QueueOk
<1> HIDE DEF S
<1>7. \A r : Found(S, r) = {t.fix : t \in {u \in S : u.from = r.from /\ u.id = r.id}}
  BY DEF Found
<1>8. Found(S, p) = IF IsPosition(p) THEN {p.fix} ELSE {}
  <2>1. \A u \in S : u.from = p.from /\ u.id = p.id => u = Seat(p) /\ IsPosition(p)
    BY <1>1, <1>4, <1>5
  <2> QED BY <1>2, <1>4, <1>7, <2>1
<1>9. ASSUME NEW i \in 1 .. Len(queue)
      PROVE  Found(S, queue[i]) = IF IsPosition(queue[i]) THEN {queue[i].fix} ELSE {}
  <2>1. \A u \in S : u.from = queue[i].from /\ u.id = queue[i].id =>
           u = Seat(queue[i]) /\ IsPosition(queue[i])
    BY <1>1, <1>4, <1>5, <1>6
  <2>2. CASE IsPosition(queue[i])
    <3>1. {u \in S : u.from = queue[i].from /\ u.id = queue[i].id} = {Seat(queue[i])}
      BY <1>3, <1>4, <2>1, <2>2
    <3> QED BY <1>4, <1>7, <2>2, <3>1
  <2>3. CASE ~IsPosition(queue[i])
    <3>1. {u \in S : u.from = queue[i].from /\ u.id = queue[i].id} = {}
      BY <2>1, <2>3
    <3> QED BY <1>7, <2>3, <3>1
  <2> QED BY <2>2, <2>3
<1> QED BY <1>8, <1>9 DEF S
-----------------------------------------------------------------------------
(* What a newcomer does to the queue.                                      *)

\* It takes the place of its car's position, which it may replace.
InPlace(q, r, p, k) ==
    /\ k \in 1 .. Len(q) /\ Len(r) = Len(q)
    /\ r[k] = p /\ \A j \in 1 .. Len(q) : j # k => r[j] = q[j]
    /\ IsPosition(p) /\ IsPosition(q[k]) /\ q[k].from = p.from
    /\ RankFix(p.fix, q[k].fix) \in {"newer", "same"}

\* It takes a place of its own: its car had no position queued.
Alone(q, r, p, m) ==
    IsPosition(p) /\ (\E i \in 1 .. Len(r) : m[i] = 0) =>
        \A i \in 1 .. Len(q) : IsPosition(q[i]) => q[i].from # p.from

\* A queue after a newcomer has come, or has been turned away.
Came(q, r, p) ==
    /\ r \in Seq(Packets) /\ Len(r) <= QueueLen
    /\ \E m : /\ Moved(q, r, p, m) /\ Lone(q, r, p, m)
              /\ (InTurn(r, p, m) /\ Alone(q, r, p, m)) \/ \E k : InPlace(q, r, p, k)

LEMMA Stays ==
    ASSUME QueueOk(queue), NEW p
    PROVE  Came(queue, queue, p)
<1> DEFINE m == [j \in 1 .. Len(queue) |-> j]
<1>1. queue \in Seq(Packets) /\ Len(queue) <= QueueLen /\ Len(queue) \in Nat
  BY DEF QueueOk
<1>2. /\ Moved(queue, queue, p, m) /\ InTurn(queue, p, m)
      /\ Lone(queue, queue, p, m) /\ Alone(queue, queue, p, m)
  BY <1>1 DEF Moved, InTurn, Lone, Alone
<1> HIDE DEF m
<1> QED BY <1>1, <1>2 DEF Came

LEMMA Comes ==
    ASSUME QueueOk(queue), SeatsKept, NEW p, Newcomer(p)
    PROVE  Came(queue, Enqueued(Noted(p.from, p.id, p.fix), p), p)
<1> DEFINE S == WithSeat(p)
           R == Rival(S, p)
           r == Enqueued(S, p)
<1>0. queue \in Seq(Packets) /\ Len(queue) <= QueueLen /\ Len(queue) \in Nat /\ p \in Packets
  BY DEF QueueOk, Newcomer
<1>1. Noted(p.from, p.id, p.fix) = S
  BY <1>0, NotedSeats
<1>2. /\ Found(S, p) = IF IsPosition(p) THEN {p.fix} ELSE {}
      /\ \A i \in 1 .. Len(queue) :
            Found(S, queue[i]) = IF IsPosition(queue[i]) THEN {queue[i].fix} ELSE {}
  BY FoundSeats
<1> HIDE DEF S
<1>3. R = {i \in 1 .. Len(queue) : queue[i].from = p.from /\ IsPosition(queue[i])}
  <2>1. DOMAIN queue = 1 .. Len(queue)
    BY <1>0
  <2>2. \A i \in 1 .. Len(queue) : ~(queue[i].from = p.from /\ queue[i].id = p.id)
    BY DEF Newcomer
  <2> QED BY <1>2, <2>1, <2>2 DEF Rival
<1> HIDE DEF R
<1>4. CASE ~IsPosition(p) \/ R = {}
  <2>1. r = StockQueued(queue, p)
    BY <1>2, <1>4 DEF Enqueued, R
  <2> HIDE DEF r
  <2>2. r \in Seq(Packets) /\ Len(r) <= QueueLen
    BY <1>0, <2>1, StockMoves
  <2>3. PICK m : Moved(queue, r, p, m) /\ InTurn(r, p, m)
    BY <1>0, <2>1, StockMoves
  <2>4. Lone(queue, r, p, m)
    <3>1. ASSUME IsPosition(p), NEW j \in 1 .. Len(r), m[j] # 0, IsPosition(r[j])
          PROVE  r[j].from # p.from
      <4>1. m[j] \in 1 .. Len(queue) /\ r[j] = queue[m[j]]
        BY <1>0, <2>3, <3>1 DEF Moved
      <4> QED BY <1>3, <1>4, <3>1, <4>1
    <3> QED BY <3>1 DEF Lone
  <2>5. Alone(queue, r, p, m)
    BY <1>3, <1>4 DEF Alone
  <2> QED BY <1>1, <2>2, <2>3, <2>4, <2>5 DEF Came, r
<1>5. CASE IsPosition(p) /\ R # {}
  <2>1. PICK k \in R : TRUE
    BY <1>5
  <2>2. \A i \in R : i = k
    BY <1>3 DEF QueueOk
  <2>3. R = {k} /\ k \in 1 .. Len(queue) /\ queue[k].from = p.from /\ IsPosition(queue[k])
    BY <1>3, <2>1, <2>2
  <2>4. Min(R) = k
    <3>1. \E x \in R : \A y \in R : x <= y
      BY <1>0, <2>3
    <3>2. Min(R) \in R
      BY <3>1 DEF Min
    <3> QED BY <2>2, <3>2
  <2>5. CASE ~Replaces(S, p, queue[k])
    <3>1. r = queue
      BY <1>2, <1>5, <2>4, <2>5 DEF Enqueued, R
    <3> QED BY <1>1, <3>1, Stays
  <2>6. CASE Replaces(S, p, queue[k])
    <3> DEFINE m == [j \in 1 .. Len(queue) |-> IF j = k THEN 0 ELSE j]
    <3>1. r = [queue EXCEPT ![k] = p]
      BY <1>2, <1>5, <2>4, <2>6 DEF Enqueued, R
    <3> HIDE DEF r
    <3>2. /\ r \in Seq(Packets) /\ Len(r) = Len(queue)
          /\ \A j \in 1 .. Len(queue) : r[j] = IF j = k THEN p ELSE queue[j]
      BY <1>0, <2>3, <3>1
    <3>3. (CHOOSE f \in Found(S, p) : TRUE) = p.fix
      BY <1>2, <1>5
    <3>4. (CHOOSE f \in Found(S, queue[k]) : TRUE) = queue[k].fix
      BY <1>2, <2>3
    <3>5. RankFix(p.fix, queue[k].fix) \in {"newer", "same"}
      BY <2>6, <3>3, <3>4 DEF Replaces
    <3>6. InPlace(queue, r, p, k)
      BY <1>5, <2>3, <3>2, <3>5 DEF InPlace
    <3>7. Moved(queue, r, p, m)
      BY <1>0, <2>3, <3>2 DEF Moved
    <3>8. Lone(queue, r, p, m)
      <4>1. \A j \in 1 .. Len(queue) : queue[j].from = p.from /\ IsPosition(queue[j]) => j = k
        BY <1>3, <2>2
      <4> QED BY <1>0, <3>2, <4>1 DEF Lone
    <3> HIDE DEF m
    <3> QED BY <1>0, <1>1, <3>2, <3>6, <3>7, <3>8 DEF Came, r
  <2> QED BY <2>5, <2>6
<1> QED BY <1>4, <1>5

\* Whatever comes, or leaves, the queue is as it should be.
LEMMA CameOk ==
    ASSUME QueueOk(queue), NEW p, Newcomer(p), NEW r, Came(queue, r, p)
    PROVE  QueueOk(r)
<1>1. PICK m : Moved(queue, r, p, m) /\ Lone(queue, r, p, m)
  BY Zenon DEF Came
<1>2. /\ r \in Seq(Packets) /\ Len(r) <= QueueLen /\ Len(r) \in Nat
      /\ Len(queue) \in Nat
  BY DEF Came, QueueOk
<1>3. \A j \in 1 .. Len(r) :
         \/ m[j] = 0 /\ r[j] = p
         \/ m[j] \in 1 .. Len(queue) /\ m[j] # 0 /\ r[j] = queue[m[j]]
  BY <1>1, <1>2 DEF Moved
<1>4. \A i, j \in 1 .. Len(r) : m[i] = m[j] => i = j
  BY <1>1 DEF Moved
<1>5. /\ p.id \in Ids /\ WasHeard(p)
      /\ \A i \in 1 .. Len(queue) : ~(queue[i].from = p.from /\ queue[i].id = p.id)
  BY DEF Newcomer
<1>6. \A i \in 1 .. Len(queue) : queue[i].id \in Ids /\ WasHeard(queue[i])
  BY DEF QueueOk
<1>7. ASSUME NEW i \in 1 .. Len(r) PROVE r[i].id \in Ids /\ WasHeard(r[i])
  BY <1>3, <1>5, <1>6
<1>8. ASSUME NEW i \in 1 .. Len(r), NEW j \in 1 .. Len(r),
             r[i].from = r[j].from, r[i].id = r[j].id
      PROVE  i = j
  <2>1. \A a, b \in 1 .. Len(queue) :
           queue[a].from = queue[b].from /\ queue[a].id = queue[b].id => a = b
    BY DEF QueueOk
  <2>2. m[i] = m[j]
    <3>1. \/ m[i] = 0 /\ r[i] = p
          \/ m[i] \in 1 .. Len(queue) /\ m[i] # 0 /\ r[i] = queue[m[i]]
      BY <1>3
    <3>2. \/ m[j] = 0 /\ r[j] = p
          \/ m[j] \in 1 .. Len(queue) /\ m[j] # 0 /\ r[j] = queue[m[j]]
      BY <1>3
    <3> QED BY <1>5, <1>8, <2>1, <3>1, <3>2
  <2> QED BY <1>4, <2>2
<1>9. ASSUME NEW i \in 1 .. Len(r), NEW j \in 1 .. Len(r),
             IsPosition(r[i]), IsPosition(r[j]), r[i].from = r[j].from
      PROVE  i = j
  <2>1. \A a, b \in 1 .. Len(queue) :
           /\ IsPosition(queue[a]) /\ IsPosition(queue[b]) /\ queue[a].from = queue[b].from
           => a = b
    BY DEF QueueOk
  <2>2. IsPosition(p) =>
           \A a, b \in 1 .. Len(r) : m[a] = 0 /\ m[b] # 0 /\ IsPosition(r[b]) => r[b].from # p.from
    BY <1>1 DEF Lone
  <2>3. m[i] = m[j]
    <3>1. \/ m[i] = 0 /\ r[i] = p
          \/ m[i] \in 1 .. Len(queue) /\ m[i] # 0 /\ r[i] = queue[m[i]]
      BY <1>3
    <3>2. \/ m[j] = 0 /\ r[j] = p
          \/ m[j] \in 1 .. Len(queue) /\ m[j] # 0 /\ r[j] = queue[m[j]]
      BY <1>3
    <3> QED BY <1>9, <2>1, <2>2, <3>1, <3>2
  <2> QED BY <1>4, <2>3
<1> QED BY <1>2, <1>7, <1>8, <1>9 DEF QueueOk

\* What is still queued has its seat, and nothing else has.
LEMMA CameSeats ==
    ASSUME QueueOk(queue), NEW p, Newcomer(p), NEW r, Came(queue, r, p)
    PROVE  OfQueued(WithSeat(p), r) = Seats(r)
<1> DEFINE S == WithSeat(p)
<1>1. PICK m : Moved(queue, r, p, m)
  BY Zenon DEF Came
<1>2. r \in Seq(Packets) /\ Len(r) \in Nat /\ Len(queue) \in Nat
  BY DEF Came, QueueOk
<1>3. \A j \in 1 .. Len(r) :
         r[j] = p \/ (m[j] \in 1 .. Len(queue) /\ r[j] = queue[m[j]])
  BY <1>1, <1>2 DEF Moved
<1>4. /\ \A t \in S : \/ t = Seat(p) /\ IsPosition(p)
                      \/ \E j \in 1 .. Len(queue) : IsPosition(queue[j]) /\ t = Seat(queue[j])
      /\ IsPosition(p) => Seat(p) \in S
      /\ \A j \in 1 .. Len(queue) : IsPosition(queue[j]) => Seat(queue[j]) \in S
  BY DEF WithSeat, Seats
<1>5. \A v : Seat(v).from = v.from /\ Seat(v).id = v.id
  BY DEF Seat
<1>6. /\ \A j \in 1 .. Len(queue) : ~(queue[j].from = p.from /\ queue[j].id = p.id)
      /\ \A i, j \in 1 .. Len(queue) :
            queue[i].from = queue[j].from /\ queue[i].id = queue[j].id => i = j
  BY DEF Newcomer, QueueOk
<1>7. \A t : InQueue(r, t.from, t.id) <=> \E j \in 1 .. Len(r) : r[j].from = t.from /\ r[j].id = t.id
  BY <1>2, InQueueAt
<1> HIDE DEF S
<1>8. ASSUME NEW t \in S, InQueue(r, t.from, t.id)
      PROVE  t \in Seats(r)
  <2>1. PICK j \in 1 .. Len(r) : r[j].from = t.from /\ r[j].id = t.id
    BY <1>7, <1>8
  <2>2. IsPosition(r[j]) /\ t = Seat(r[j])
    BY <1>3, <1>4, <1>5, <1>6, <2>1
  <2> QED BY <2>2 DEF Seats
<1>9. ASSUME NEW t \in Seats(r) PROVE t \in S /\ InQueue(r, t.from, t.id)
  <2>1. PICK j \in 1 .. Len(r) : IsPosition(r[j]) /\ t = Seat(r[j])
    BY DEF Seats
  <2> QED BY <1>3, <1>4, <1>5, <1>7, <2>1
<1> QED BY <1>8, <1>9 DEF OfQueued, S
\* The radio takes the first.
LEMMA HeadGoes ==
    ASSUME QueueOk(queue), queue # << >>, NEW p
    PROVE  Came(queue, Tail(queue), p)
<1> DEFINE m == [j \in 1 .. Len(queue) - 1 |-> j + 1]
           r == Tail(queue)
<1>1. queue \in Seq(Packets) /\ Len(queue) <= QueueLen /\ Len(queue) \in Nat /\ Len(queue) # 0
  BY EmptySeq DEF QueueOk
<1>2. /\ r \in Seq(Packets) /\ Len(r) = Len(queue) - 1
      /\ \A i \in 1 .. Len(queue) - 1 : r[i] = queue[i + 1]
  BY <1>1, HeadTailProperties
<1> HIDE DEF r
<1>3. Moved(queue, r, p, m)
  BY <1>1, <1>2 DEF Moved
<1>4. InTurn(r, p, m) /\ Lone(queue, r, p, m) /\ Alone(queue, r, p, m)
  BY <1>1, <1>2 DEF InTurn, Lone, Alone
<1> HIDE DEF m
<1>5. Len(r) <= QueueLen
  BY <1>1, <1>2, Numbers
<1>6. Came(queue, r, p)
  BY <1>2, <1>3, <1>4, <1>5 DEF Came
<1> QED BY <1>6 DEF r

\* Where nothing comes: a packet that is no position.
LEMMA Nobody ==
    ASSUME QueueOk(queue), air \in Packets
    PROVE  \E p : Newcomer(p) /\ ~IsPosition(p)
<1> DEFINE p == [from |-> Self, id |-> FreshId(Self), hops |-> 0, fix |-> StockFix]
<1>1. /\ FreshId(Self) \in Ids
      /\ \A i \in 1 .. Len(queue) : ~(queue[i].from = Self /\ queue[i].id = FreshId(Self))
  BY FreshIds
<1>2. Ids \subseteq 0 .. QueueLen + 2 /\ 0 \in 0 .. MaxHops /\ StockFix \in FixIds
  BY Numbers DEF Ids, FixIds, StockFix
<1>3. p \in Packets
  BY <1>1, <1>2 DEF Packets
<1>4. Newcomer(p)
  BY <1>1, <1>3, TrafficAssumption DEF Newcomer, WasHeard
<1>5. ~IsPosition(p)
  BY DEF IsPosition, StockFix
<1> QED BY <1>4, <1>5

LEMMA Nothing ==
    ASSUME QueueOk(queue), air \in Packets, SeatsKept,
           NEW r, r = queue \/ (queue # << >> /\ r = Tail(queue))
    PROVE  \E p : Newcomer(p) /\ Came(queue, r, p) /\ OfQueued(tags, r) = Seats(r)
<1>1. PICK p : Newcomer(p) /\ ~IsPosition(p)
  BY Nobody
<1>2. Came(queue, r, p)
  BY Stays, HeadGoes
<1>3. OfQueued(WithSeat(p), r) = Seats(r)
  BY <1>1, <1>2, CameSeats
<1> QED BY <1>1, <1>2, <1>3 DEF WithSeat, SeatsKept

LEMMA Something ==
    ASSUME QueueOk(queue), SeatsKept, NEW p, Newcomer(p),
           NEW r, r = queue \/ r = Enqueued(Noted(p.from, p.id, p.fix), p)
    PROVE  Came(queue, r, p) /\ OfQueued(Noted(p.from, p.id, p.fix), r) = Seats(r)
<1>1. Came(queue, r, p)
  BY Stays, Comes
<1>2. OfQueued(WithSeat(p), r) = Seats(r)
  BY <1>1, CameSeats
<1>3. p \in Packets
  BY DEF Newcomer
<1> QED BY <1>1, <1>2, <1>3, NotedSeats

\* Seats are not kept without need.
LEMMA SeatsSettled ==
    ASSUME QueueOk(queue), SeatsKept
    PROVE  OfQueued(tags, queue) = tags
<1>1. queue \in Seq(Packets)
  BY DEF QueueOk
<1>2. ASSUME NEW t \in tags PROVE InQueue(queue, t.from, t.id)
  <2>1. PICK i \in 1 .. Len(queue) : t = Seat(queue[i])
    BY DEF SeatsKept, Seats
  <2> QED BY <1>1, <2>1, InQueueAt DEF Seat
<1> QED BY <1>2 DEF OfQueued

-----------------------------------------------------------------------------
(* A step and the queue.                                                   *)

LEMMA ReadingTypes ==
    ASSUME NEW fix \in Fixes
    PROVE  /\ \A reading \in Readings[setting] : FromPhone(fix, reading) \in Fixes
           /\ \A reading \in Readings[setting] \union {NoReading} : FromGnss(fix, reading) \in Fixes
<1>1. SeqSpan \in Nat \ {0} /\ Stale \in Nat /\ PhoneFresh \in Nat
  BY Numbers
<1>2. (fix.seq + 1) % SeqSpan \in 0 .. SeqSpan - 1
  BY <1>1 DEF Fixes
<1>3. 0 \in 0 .. Stale /\ 0 \in 0 .. PhoneFresh
  BY <1>1
<1>4. \A reading \in Readings[setting] \union {NoReading} : Taken(fix, reading) \in Fixes
  BY <1>2 DEF Taken, Fixes
<1> QED BY <1>3, <1>4 DEF FromPhone, FromGnss, Fixes

\* Each step leaves the queue as a newcomer leaves it, or one that is nobody,
\* and every seat taken by what is in it.
QueueStep ==
    \E p : Newcomer(p) /\ Came(queue, queue', p) /\ tags' = Seats(queue')

LEMMA StillQueue ==
    ASSUME IInv, UNCHANGED <<queue, tags>>
    PROVE  QueueStep
<1>1. QueueOk(queue) /\ air \in Packets /\ SeatsKept
  BY DEF IInv, Shape
<1>2. PICK p : Newcomer(p) /\ Came(queue, queue, p) /\ OfQueued(tags, queue) = Seats(queue)
  BY <1>1, Nothing
<1>3. OfQueued(tags, queue) = tags
  BY <1>1, SeatsSettled
<1> QED BY <1>2, <1>3 DEF QueueStep

LEMMA HearQueue ==
    ASSUME IInv, NEW t \in Traffic[setting], HearLora(t.from, t.fix, t.hops)
    PROVE  QueueStep
<1> DEFINE relay == [from |-> t.from, id |-> FreshId(t.from), hops |-> t.hops - 1, fix |-> t.fix]
<1>1. QueueOk(queue) /\ air \in Packets /\ SeatsKept /\ setting \in Settings
  BY DEF IInv, Shape
<1>2. t \in [from : Cars, fix : FixIds, hops : 0 .. MaxHops]
  BY <1>1, TrafficAssumption
<1>3. t.from \in Cars /\ t.fix \in FixIds /\ t.hops \in 0 .. MaxHops
  BY <1>2
<1>4. CASE t.hops = 0
  <2>1. queue' = queue /\ tags' = OfQueued(tags, queue')
    BY <1>4 DEF HearLora
  <2> QED BY <1>1, <2>1, Nothing DEF QueueStep
<1>5. CASE t.hops # 0
  <2>1. /\ FreshId(t.from) \in Ids
        /\ \A i \in 1 .. Len(queue) : ~(queue[i].from = t.from /\ queue[i].id = FreshId(t.from))
    BY <1>1, FreshIds
  <2>2. Ids \subseteq 0 .. QueueLen + 2 /\ t.hops - 1 \in 0 .. MaxHops
    BY <1>3, <1>5, Numbers DEF Ids
  <2>3. relay \in Packets
    BY <1>3, <2>1, <2>2 DEF Packets
  <2>4. Newcomer(relay)
    BY <2>1, <2>3 DEF Newcomer, WasHeard
  <2>5. /\ queue' = queue \/ queue' = Enqueued(Noted(relay.from, relay.id, relay.fix), relay)
        /\ tags' = OfQueued(Noted(relay.from, relay.id, relay.fix), queue')
    BY <1>5 DEF HearLora
  <2> HIDE DEF relay
  <2>6. Came(queue, queue', relay) /\ tags' = Seats(queue')
    BY <1>1, <2>4, <2>5, Something
  <2> QED BY <2>4, <2>6 DEF QueueStep
<1> QED BY <1>4, <1>5

LEMMA RunQueue ==
    ASSUME IInv, RunOnce
    PROVE  QueueStep
<1>1. QueueOk(queue) /\ air \in Packets /\ SeatsKept /\ own \in Fixes
  BY DEF IInv, Shape
<1>2. PICK reading \in Readings[setting] \union {NoReading} : SendLoraPosition(FromGnss(own, reading))
  BY DEF RunOnce
<1> DEFINE fix == FromGnss(own, reading)
           p == [from |-> Self, id |-> FreshId(Self), hops |-> MaxHops, fix |-> OwnFixId(fix)]
<1>3. fix \in Fixes
  BY <1>1, ReadingTypes
<1> HIDE DEF fix
<1>4. CASE Fresh(fix) /\ wait = 0
  <2>1. /\ FreshId(Self) \in Ids
        /\ \A i \in 1 .. Len(queue) : ~(queue[i].from = Self /\ queue[i].id = FreshId(Self))
    BY <1>1, FreshIds
  <2>2. Ids \subseteq 0 .. QueueLen + 2 /\ MaxHops \in 0 .. MaxHops
    BY Numbers DEF Ids
  <2>3. OwnFixId(fix) \in FixIds
    BY <1>3 DEF OwnFixId, FixIds, Fixes
  <2>4. p \in Packets
    BY <2>1, <2>2, <2>3 DEF Packets
  <2>5. Newcomer(p)
    BY <2>1, <2>4, TrafficAssumption DEF Newcomer, WasHeard
  <2>6. /\ queue' = Enqueued(Noted(p.from, p.id, p.fix), p)
        /\ tags' = OfQueued(Noted(p.from, p.id, p.fix), queue')
    BY <1>2, <1>4 DEF SendLoraPosition, fix
  <2> HIDE DEF p
  <2>7. Came(queue, queue', p) /\ tags' = Seats(queue')
    BY <1>1, <2>5, <2>6, Something
  <2> QED BY <2>5, <2>7 DEF QueueStep
<1>5. CASE ~(Fresh(fix) /\ wait = 0)
  BY <1>2, <1>5, StillQueue DEF SendLoraPosition, fix
<1> QED BY <1>4, <1>5

LEMMA NextQueue ==
    ASSUME IInv, [Next]_vars
    PROVE  QueueStep
<1>1. CASE PhoneComes \/ PhoneGoes \/ PhoneWrites \/ SendDone \/ Tick \/ TrafficChanges \/ UNCHANGED vars
  BY <1>1, StillQueue DEF PhoneComes, PhoneGoes, PhoneWrites, SendDone, Tick, TrafficChanges, vars, txVars
<1>2. CASE \E t \in Traffic[setting] : HearLora(t.from, t.fix, t.hops)
  BY <1>2, HearQueue
<1>3. CASE StartSend
  <2>1. QueueOk(queue) /\ air \in Packets /\ SeatsKept
    BY DEF IInv, Shape
  <2>2. queue # << >> /\ queue' = Tail(queue) /\ tags' = OfQueued(tags, queue')
    BY <1>3 DEF StartSend
  <2> QED BY <2>1, <2>2, Nothing DEF QueueStep
<1>4. CASE RunOnce
  BY <1>4, RunQueue
<1> QED BY <1>1, <1>2, <1>3, <1>4 DEF Next
-----------------------------------------------------------------------------
(* The rest of the state.                                                  *)

LEMMA BusyType ==
    ASSUME NEW l \in LoadStates, NEW n \in Nat,
           NEW b, b = Lower((n \div l.before + n \div l.now) \div 2, Whole)
    PROVE  b \in 0 .. Whole
<1>1. l.before \in Nat \ {0} /\ l.now \in Nat \ {0} /\ Whole \in Nat
  BY GridAssumption DEF LoadStates, Intervals
<1> DEFINE x == n \div l.before
           y == n \div l.now
<1>2. x \in Nat /\ y \in Nat
  BY <1>1
<1> HIDE DEF x, y
<1>3. (x + y) \div 2 \in Nat
  BY <1>2
<1> QED BY <1>1, <1>3 DEF Lower, x, y

LEMMA JudgedType ==
    ASSUME setting \in Settings, load \in LoadStates, traffic \in Loads[setting]
    PROVE  Judged \in LoadStates
<1>1. Rounds[setting] \in Nat /\ traffic \in Nat
  BY TrafficAssumption
<1>2. Busy \in 0 .. Whole
  BY <1>1, BusyType DEF Busy
<1>3. load.now \in Intervals /\ load.judged \in 0 .. Rounds[setting]
  BY DEF LoadStates
<1>4. Judge(load.now, Busy) \in Intervals
  BY <1>2, <1>3, IntervalInRange
<1>5. Lower(load.judged + 1, Rounds[setting]) \in 0 .. Rounds[setting]
  BY <1>1, <1>3 DEF Lower
<1> QED BY <1>3, <1>4, <1>5 DEF Judged, LoadStates

LEMMA ShapeStep ==
    ASSUME IInv, [Next]_vars
    PROVE  Shape'
<1> USE DEF fixVars, loadVars, txVars, rowVars
<1>0. Shape /\ QueueOk(queue)
  BY DEF IInv
<1>1. setting' = setting
  BY DEF Next, vars, PhoneComes, PhoneGoes, PhoneWrites, HearLora, StartSend, SendDone, RunOnce,
         Tick, TrafficChanges
<1>2. Fixes' = Fixes /\ LoadStates' = LoadStates
  BY <1>1 DEF Fixes, LoadStates
<1> HIDE DEF fixVars, loadVars, txVars, rowVars
<1>3. MaxWait \in Nat \ {0} /\ Precedence \in Nat \ {0} /\ Forgotten \in Nat /\ RestoreSlots \in Nat \ {0}
  BY Numbers
<1> USE <1>0, <1>1, <1>2, <1>3
<1> USE DEF Shape
<1>4. CASE PhoneComes \/ PhoneGoes \/ UNCHANGED vars
  BY <1>4 DEF PhoneComes, PhoneGoes, vars, fixVars, loadVars, txVars, rowVars
<1>5. CASE PhoneWrites
  <2>1. own' \in Fixes
    BY <1>5, ReadingTypes DEF PhoneWrites
  <2> QED BY <1>5, <2>1 DEF PhoneWrites, loadVars, txVars, rowVars
<1>6. CASE \E t \in Traffic[setting] : HearLora(t.from, t.fix, t.hops)
  <2>1. PICK t \in Traffic[setting] : HearLora(t.from, t.fix, t.hops)
    BY <1>6
  <2>2. t.from \in Cars
    BY TrafficAssumption
  <2>3. restore' \in Seq(Cars) /\ Len(restore') <= RestoreSlots
    <3>1. restore' = restore \/ restore' = Restoring(t.from)
      BY <2>1 DEF HearLora
    <3>2. Restoring(t.from) \in Seq(Cars) /\ Len(Restoring(t.from)) <= RestoreSlots
      <4>1. Append(restore, t.from) \in Seq(Cars) /\ Len(Append(restore, t.from)) = Len(restore) + 1
        BY <2>2, AppendProperties
      <4> QED BY <4>1 DEF Restoring
    <3> QED BY <3>1, <3>2
  <2>4. row' \in [Cars -> {"fast", "lora"}]
    BY <2>1, <2>2 DEF HearLora
  <2> QED BY <2>1, <2>3, <2>4 DEF HearLora, fixVars, loadVars
<1>7. CASE StartSend
  <2>1. Head(queue) \in Packets
    BY <1>7, HeadTailProperties DEF StartSend, QueueOk
  <2> QED BY <1>7, <2>1 DEF StartSend, fixVars, loadVars, rowVars
<1>8. CASE SendDone
  <2>1. NoPacket \in Packets
    BY Numbers DEF NoPacket, Packets, FixIds, StockFix
  <2> QED BY <1>8, <2>1 DEF SendDone, fixVars, loadVars, rowVars
<1>9. CASE RunOnce
  <2>1. PICK reading \in Readings[setting] \union {NoReading} :
           own' = FromGnss(own, reading) /\ SendLoraPosition(FromGnss(own, reading))
    BY <1>9 DEF RunOnce
  <2>2. own' \in Fixes
    BY <2>1, ReadingTypes
  <2>3. load' \in LoadStates /\ wait' \in 0 .. MaxWait
    BY <2>1, JudgedType DEF SendLoraPosition
  <2>4. PICK cars \in SUBSET OnFast[setting] :
           /\ age' = [c \in Cars |-> IF c \in cars THEN 0 ELSE age[c]]
           /\ row' = [c \in Cars |-> IF c \in cars THEN "fast" ELSE Restored[c]]
    BY <1>9 DEF RunOnce
  <2>5. age' \in [Cars -> 0 .. Forgotten]
    BY <2>4
  <2>6. row' \in [Cars -> {"fast", "lora"}]
    BY <2>4 DEF Restored
  <2>7. /\ ran' = TRUE /\ restore' = << >>
        /\ UNCHANGED <<setting, phone, traffic, air>>
    BY <1>9 DEF RunOnce
  <2>8. restore' \in Seq(Cars) /\ Len(restore') <= RestoreSlots
    BY <2>7
  <2> QED BY <2>2, <2>3, <2>5, <2>6, <2>7, <2>8
<1>10. CASE Tick
  <2>1. own' = [own EXCEPT !.fed = Older(own.fed, Stale), !.phoneFed = Older(own.phoneFed, PhoneFresh)]
    BY <1>10 DEF Tick
  <2>2. own' \in Fixes
    <3>1. Older(own.fed, Stale) \in 0 .. Stale /\ Older(own.phoneFed, PhoneFresh) \in 0 .. PhoneFresh
      BY Numbers DEF Older, Fixes
    <3> QED BY <2>1, <3>1 DEF Fixes
  <2>3. wait' \in 0 .. MaxWait
    BY <1>10 DEF Tick
  <2>4. age' \in [Cars -> 0 .. Forgotten]
    BY <1>10 DEF Tick, Older
  <2>5. /\ ran' = FALSE /\ phone' \in {"gone", "due"}
        /\ UNCHANGED <<setting, loadVars, txVars, row, restore>>
    BY <1>10 DEF Tick
  <2> QED BY <2>2, <2>3, <2>4, <2>5 DEF loadVars, txVars
<1>11. CASE TrafficChanges
  <2>1. load' \in LoadStates
    <3>1. Rounds[setting] \in Nat
      BY TrafficAssumption
    <3>2. load' = [load EXCEPT !.judged = 0] /\ 0 \in 0 .. Rounds[setting]
      BY <1>11, <3>1 DEF TrafficChanges
    <3> QED BY <3>2 DEF LoadStates
  <2> QED BY <1>11, <2>1 DEF TrafficChanges, txVars, rowVars
<1> QED BY <1>4, <1>5, <1>6, <1>7, <1>8, <1>9, <1>10, <1>11 DEF Next

\* The pass empties the ring before the car's last frame is two ticks older.
LEMMA RingStep ==
    ASSUME IInv, [Next]_vars
    PROVE  RingFresh'
<1>0. /\ RingFresh /\ setting \in Settings /\ ran \in BOOLEAN
      /\ age \in [Cars -> 0 .. Forgotten] /\ restore \in Seq(Cars)
  BY DEF IInv, Shape
<1>1. Precedence \in Nat /\ Forgotten \in Nat /\ Precedence < Forgotten
  BY Numbers
<1>2. CASE UNCHANGED <<age, restore, ran>>
  BY <1>0, <1>2 DEF RingFresh, Contains
<1>3. CASE \E t \in Traffic[setting] : HearLora(t.from, t.fix, t.hops)
  <2>1. PICK t \in Traffic[setting] : HearLora(t.from, t.fix, t.hops)
    BY <1>3
  <2> DEFINE d == t.from
  <2>2. d \in Cars
    BY <1>0, TrafficAssumption
  <2> HIDE DEF d
  <2>3. /\ age' = age /\ ran' = ran
        /\ restore' = IF HeardOnFast(d) THEN Restoring(d) ELSE restore
    BY <2>1 DEF HearLora, fixVars, d
  <2>4. ASSUME NEW c \in Cars, Contains(restore', c)
        PROVE  Contains(restore, c) \/ (c = d /\ age[d] < Precedence)
    <3>1. CASE restore' = restore
      BY <2>4, <3>1
    <3>2. CASE HeardOnFast(d) /\ restore' = Append(restore, d)
      <4>1. /\ Len(restore) \in Nat /\ Len(Append(restore, d)) = Len(restore) + 1
            /\ \A i \in 1 .. Len(restore) : Append(restore, d)[i] = restore[i]
            /\ Append(restore, d)[Len(restore) + 1] = d
        BY <1>0, <2>2, AppendProperties
      <4>2. PICK i \in 1 .. Len(restore) + 1 : Append(restore, d)[i] = c
        BY <2>4, <3>2, <4>1 DEF Contains
      <4>3. CASE i = Len(restore) + 1
        BY <3>2, <4>1, <4>2, <4>3 DEF HeardOnFast
      <4>4. CASE i \in 1 .. Len(restore)
        BY <4>1, <4>2, <4>4 DEF Contains
      <4> QED BY <4>1, <4>3, <4>4
    <3> QED BY <2>3, <3>1, <3>2 DEF Restoring
  <2>5. ASSUME NEW c \in Cars, Contains(restore', c)
        PROVE  age'[c] <= Precedence /\ (ran' => age'[c] < Precedence)
    BY <1>0, <1>1, <2>3, <2>4, <2>5 DEF RingFresh
  <2> QED BY <2>5 DEF RingFresh
<1>4. CASE RunOnce
  <2>1. restore' = << >>
    BY <1>4 DEF RunOnce
  <2> QED BY <2>1 DEF RingFresh, Contains
<1>5. CASE Tick
  <2>1. /\ ran /\ ran' = FALSE /\ restore' = restore
        /\ age' = [c \in Cars |-> Older(age[c], Forgotten)]
    BY <1>5 DEF Tick
  <2>2. ASSUME NEW c \in Cars, Contains(restore, c)
        PROVE  age'[c] <= Precedence
    <3>1. age[c] < Precedence /\ age[c] \in Nat
      BY <1>0, <2>1, <2>2 DEF RingFresh
    <3> QED BY <1>1, <2>1, <3>1 DEF Older
  <2> QED BY <2>1, <2>2 DEF RingFresh, Contains
<1>6. CASE PhoneComes \/ PhoneGoes \/ PhoneWrites \/ StartSend \/ SendDone \/ TrafficChanges \/ UNCHANGED vars
  BY <1>2, <1>6 DEF PhoneComes, PhoneGoes, PhoneWrites, StartSend, SendDone, TrafficChanges, vars,
     rowVars, fixVars
<1> QED BY <1>3, <1>4, <1>5, <1>6 DEF Next

-----------------------------------------------------------------------------
(* The invariant.                                                          *)

LEMMA IInvInit == Init => IInv
<1> SUFFICES ASSUME Init PROVE IInv
  OBVIOUS
<1>1. /\ 0 \in 0 .. MaxWait /\ 0 \in 0 .. SeqSpan - 1 /\ Stale \in 0 .. Stale /\ PhoneFresh \in 0 .. PhoneFresh
      /\ RestoreSlots \in Nat /\ QueueLen \in Nat /\ Forgotten \in Nat /\ Precedence < Forgotten
      /\ Precedence \in Nat
  BY Numbers
<1>2. own \in Fixes
  BY <1>1 DEF Init, Fixes
<1>3. load \in LoadStates
  <2>1. Shortest \in Intervals
    BY GridAssumption DEF Intervals
  <2>2. 0 \in 0 .. Rounds[setting]
    BY TrafficAssumption DEF Init
  <2> QED BY <2>1, <2>2 DEF Init, LoadStates
<1>4. air \in Packets
  BY Numbers DEF Init, NoPacket, Packets, FixIds, StockFix
<1>5. Shape
  <2>1. /\ setting \in Settings /\ phone = "gone" /\ ran = FALSE /\ wait = 0
        /\ traffic \in Loads[setting] /\ restore = << >>
        /\ age = [c \in Cars |-> Forgotten] /\ row = [c \in Cars |-> "lora"]
    BY DEF Init
  <2>2. restore \in Seq(Cars) /\ Len(restore) <= RestoreSlots
    BY <1>1, <2>1
  <2>3. age \in [Cars -> 0 .. Forgotten] /\ row \in [Cars -> {"fast", "lora"}]
    BY <1>1, <2>1
  <2> QED BY <1>1, <1>2, <1>3, <1>4, <2>1, <2>2, <2>3 DEF Shape
<1>6. QueueOk(queue)
  BY <1>1 DEF Init, QueueOk
<1>7. SeatsKept
  BY DEF Init, SeatsKept, Seats
<1>8. RingFresh
  BY DEF Init, RingFresh, Contains
<1> QED BY <1>5, <1>6, <1>7, <1>8 DEF IInv

LEMMA IInvNext == IInv /\ [Next]_vars => IInv'
<1> SUFFICES ASSUME IInv, [Next]_vars PROVE IInv'
  OBVIOUS
<1>1. Shape' /\ RingFresh'
  BY ShapeStep, RingStep
<1>2. PICK p : Newcomer(p) /\ Came(queue, queue', p) /\ tags' = Seats(queue')
  BY NextQueue DEF QueueStep
<1>3. QueueOk(queue')
  BY <1>2, CameOk DEF IInv
<1>4. setting' = setting
  BY DEF Next, vars, PhoneComes, PhoneGoes, PhoneWrites, HearLora, StartSend, SendDone, RunOnce,
         Tick, TrafficChanges, fixVars
<1>5. QueueOk(queue)'
  BY <1>3, <1>4 DEF QueueOk, WasHeard, Packets, FixIds, Ids, IsPosition
<1> QED BY <1>1, <1>2, <1>5 DEF IInv, SeatsKept, Seats, Seat, IsPosition

\* Every queued position has its seat, in every state.
THEOREM IInvHolds == Spec => []IInv
BY IInvInit, IInvNext, PTL DEF Spec

\* TypeOK: whatever is heard and whenever, the lane keeps its shape.
THEOREM TypeCorrect == Spec => []TypeOK
<1>1. ASSUME IInv PROVE TypeOK
  <2>1. Shape /\ QueueOk(queue)
    BY <1>1 DEF IInv
  <2>2. queue \in Seq(Packets) /\ DOMAIN queue = 1 .. Len(queue)
    BY <2>1 DEF QueueOk
  <2>3. \A i \in DOMAIN queue : queue[i].id \in Ids /\ queue[i].hops \in 0 .. MaxHops
    <3>1. \A i \in 1 .. Len(queue) : queue[i] \in Packets /\ queue[i].id \in Ids
      BY <2>1 DEF QueueOk
    <3>2. \A p \in Packets : p.hops \in 0 .. MaxHops
      BY DEF Packets
    <3> QED BY <2>2, <3>1, <3>2
  <2>4. \A i, j \in DOMAIN queue :
           queue[i].from = queue[j].from /\ queue[i].id = queue[j].id => i = j
    BY <2>1, <2>2 DEF QueueOk
  <2>5. Len(queue) <= QueueLen
    BY <2>1 DEF QueueOk
  <2> QED BY <2>1, <2>3, <2>4, <2>5 DEF TypeOK, Shape, Fixes, LoadStates
<1> QED BY <1>1, IInvHolds, PTL

\* OnePerCar: however the positions of a car arrive, and however full the
\* queue and the table are, one of them is queued at most (lorapos.h).
THEOREM OneEach == Spec => []OnePerCar
<1>1. ASSUME IInv PROVE OnePerCar
  <2>1. QueueOk(queue)
    BY <1>1 DEF IInv
  <2>2. DOMAIN queue = 1 .. Len(queue)
    BY <2>1 DEF QueueOk
  <2> QED BY <2>1, <2>2 DEF QueueOk, OnePerCar
<1> QED BY <1>1, IInvHolds, PTL

\* LoraTakesOver: a row that LoRa has taken over goes back to a 2.4 GHz
\* position only if it was taken while 2.4 GHz carried the car.
THEOREM LoraHasTheRow == Spec => LoraTakesOver
<1> DEFINE Step == \A c \in Cars : row[c] = "lora" /\ row'[c] = "fast" => age'[c] <= Precedence
<1>1. ASSUME IInv, [Next]_vars PROVE [Step]_vars
  <2>0. /\ RingFresh /\ Precedence \in Nat
        /\ age \in [Cars -> 0 .. Forgotten] /\ row \in [Cars -> {"fast", "lora"}]
    BY <1>1, Numbers DEF IInv, Shape
  <2>1. CASE RunOnce
    <3>1. PICK cars \in SUBSET OnFast[setting] :
             /\ age' = [c \in Cars |-> IF c \in cars THEN 0 ELSE age[c]]
             /\ row' = [c \in Cars |-> IF c \in cars THEN "fast" ELSE Restored[c]]
      BY <2>1 DEF RunOnce
    <3>2. ASSUME NEW c \in Cars, row[c] = "lora", row'[c] = "fast" PROVE age'[c] <= Precedence
      <4>1. CASE c \in cars
        BY <2>0, <3>1, <4>1
      <4>2. CASE c \notin cars
        <5>1. Restored[c] = "fast" /\ age'[c] = age[c]
          BY <3>1, <3>2, <4>2
        <5>2. Contains(restore, c)
          BY <3>2, <5>1 DEF Restored
        <5> QED BY <2>0, <5>1, <5>2 DEF RingFresh
      <4> QED BY <4>1, <4>2
    <3> QED BY <3>2
  <2>2. CASE \E t \in Traffic[setting] : HearLora(t.from, t.fix, t.hops)
    <3>1. PICK t \in Traffic[setting] : HearLora(t.from, t.fix, t.hops)
      BY <2>2
    <3>2. row' = [row EXCEPT ![t.from] = "lora"]
      BY <3>1 DEF HearLora
    <3> QED BY <2>0, <3>2
  <2>3. CASE UNCHANGED row
    BY <2>3
  <2> QED BY <1>1, <2>1, <2>2, <2>3 DEF Next, vars, rowVars, PhoneComes, PhoneGoes, PhoneWrites,
         StartSend, SendDone, Tick, TrafficChanges
<1>2. IInv /\ [Next]_vars => [Step]_vars
  BY <1>1
<1> QED BY <1>2, IInvHolds, PTL DEF Spec, LoraTakesOver
-----------------------------------------------------------------------------
(* Turns.                                                                  *)

\* The packets of other cars, not our own, ahead of place n.
AheadOf(q, c, n) == {k \in Others(q, c) : k < n /\ q[k].from # Self}

LEMMA PlacesAt ==
    ASSUME NEW q \in Seq(Packets), NEW c
    PROVE  /\ Positions(q, c) = {i \in 1 .. Len(q) : q[i].from = c /\ IsPosition(q[i])}
           /\ \A n : AheadOf(q, c, n) =
                 {k \in 1 .. Len(q) : q[k].from # c /\ k < n /\ q[k].from # Self}
           /\ \A n : IsFiniteSet(AheadOf(q, c, n))
<1>1. DOMAIN q = 1 .. Len(q)
  OBVIOUS
<1>2. Positions(q, c) = {i \in 1 .. Len(q) : q[i].from = c /\ IsPosition(q[i])}
  BY <1>1 DEF Positions
<1>3. ASSUME NEW n
      PROVE  AheadOf(q, c, n) = {k \in 1 .. Len(q) : q[k].from # c /\ k < n /\ q[k].from # Self}
  BY <1>1 DEF AheadOf, Others
<1>4. ASSUME NEW n PROVE IsFiniteSet(AheadOf(q, c, n))
  <2>1. AheadOf(q, c, n) \subseteq 1 .. Len(q)
    BY <1>3
  <2>2. Len(q) \in Nat
    OBVIOUS
  <2> QED BY <2>1, <2>2, UpTo, FS_Subset
<1> QED BY <1>2, <1>3, <1>4

\* A newcomer costs no queued position its turn.
LEMMA TurnStep ==
    ASSUME QueueOk(queue), NEW p, Newcomer(p), NEW r, Came(queue, r, p), NEW c \in Cars,
           NEW i \in Positions(queue, c), NEW j \in Positions(r, c)
    PROVE  /\ Cardinality(AheadOf(r, c, j)) <= Cardinality(AheadOf(queue, c, i))
           /\ r[j] = queue[i] \/ (InPlace(queue, r, p, i) /\ r[j] = p)
<1>1. PICK m : /\ Moved(queue, r, p, m)
               /\ (InTurn(r, p, m) /\ Alone(queue, r, p, m)) \/ \E k : InPlace(queue, r, p, k)
  BY Zenon DEF Came
<1>2. /\ queue \in Seq(Packets) /\ Len(queue) \in Nat /\ r \in Seq(Packets) /\ Len(r) \in Nat
      /\ c # Self
  BY TrafficAssumption DEF Came, QueueOk
<1>3. /\ i \in 1 .. Len(queue) /\ queue[i].from = c /\ IsPosition(queue[i])
      /\ j \in 1 .. Len(r) /\ r[j].from = c /\ IsPosition(r[j])
  BY <1>2, PlacesAt
<1>4. \A a \in 1 .. Len(queue) : queue[a].from = c /\ IsPosition(queue[a]) => a = i
  BY <1>3 DEF QueueOk
<1> DEFINE A == AheadOf(r, c, j)
           B == AheadOf(queue, c, i)
<1>5. /\ A = {k \in 1 .. Len(r) : r[k].from # c /\ k < j /\ r[k].from # Self}
      /\ B = {k \in 1 .. Len(queue) : queue[k].from # c /\ k < i /\ queue[k].from # Self}
      /\ IsFiniteSet(A) /\ IsFiniteSet(B)
  BY <1>2, PlacesAt
<1> HIDE DEF A, B
<1>6. CASE InTurn(r, p, m) /\ Alone(queue, r, p, m)
  <2>1. m \in [1 .. Len(r) -> 0 .. Len(queue)]
    BY <1>1 DEF Moved
  <2>2. \A k \in 1 .. Len(r) :
           \/ m[k] = 0 /\ r[k] = p
           \/ m[k] \in 1 .. Len(queue) /\ m[k] # 0 /\ r[k] = queue[m[k]]
    BY <1>1, <1>2, <2>1 DEF Moved
  <2>3. m[j] # 0
    <3> SUFFICES ASSUME m[j] = 0 PROVE FALSE
      OBVIOUS
    <3>1. r[j] = p
      BY <1>3, <2>2
    <3> QED BY <1>3, <1>6, <3>1 DEF Alone
  <2>4. m[j] = i /\ r[j] = queue[i]
    BY <1>3, <1>4, <2>2, <2>3
  <2>5. ASSUME NEW k \in A PROVE m[k] \in B
    <3>1. k \in 1 .. Len(r) /\ r[k].from # c /\ k < j /\ r[k].from # Self
      BY <1>5
    <3>2. m[k] # 0
      BY <1>3, <1>6, <2>2, <3>1 DEF InTurn
    <3>3. m[k] < m[j]
      BY <1>3, <1>6, <2>3, <3>1, <3>2 DEF InTurn
    <3> QED BY <1>5, <2>2, <2>4, <3>1, <3>2, <3>3
  <2> DEFINE f == [k \in A |-> m[k]]
  <2>6. f \in Injection(A, B)
    <3>1. f \in [A -> B]
      BY <2>5
    <3>2. \A a, b \in A : f[a] = f[b] => a = b
      BY <1>1, <1>5 DEF Moved
    <3> QED BY <3>1, <3>2 DEF Injection, IsInjective
  <2> HIDE DEF f
  <2>7. Cardinality(A) <= Cardinality(B)
    BY <1>5, <2>6, FS_Injection
  <2> QED BY <2>4, <2>7 DEF A, B
<1>7. CASE \E k : InPlace(queue, r, p, k)
  <2>1. PICK k : InPlace(queue, r, p, k)
    BY <1>7
  <2>2. /\ k \in 1 .. Len(queue) /\ Len(r) = Len(queue) /\ r[k] = p
        /\ \A a \in 1 .. Len(queue) : a # k => r[a] = queue[a]
        /\ IsPosition(queue[k]) /\ queue[k].from = p.from
    BY <2>1 DEF InPlace
  <2>3. j = i
    BY <1>3, <1>4, <2>2
  <2>4. r[j] = queue[i] \/ (k = i /\ r[j] = p)
    BY <1>3, <2>2, <2>3
  <2>5. \A a \in 1 .. Len(queue) : r[a].from = queue[a].from
    BY <2>2
  <2>6. A = B
    BY <1>5, <2>2, <2>3, <2>5
  <2>7. Cardinality(A) \in Nat
    BY <1>5, FS_CardinalityType
  <2> QED BY <2>1, <2>4, <2>6, <2>7 DEF A, B
<1> QED BY <1>1, <1>6, <1>7

\* TurnKept: however often its car sends, and whatever else comes, the packets
\* of other cars ahead of a queued position only become fewer.
THEOREM TurnsAreKept == Spec => TurnKept
<1> DEFINE P == \A c \in Cars :
          \A i \in Positions(queue, c), j \in Positions(queue', c) :
              Cardinality({k \in Others(queue', c) : k < j /\ queue'[k].from # Self}) <=
              Cardinality({k \in Others(queue, c) : k < i /\ queue[k].from # Self})
<1>1. ASSUME IInv, [Next]_vars PROVE P
  <2>1. PICK p : Newcomer(p) /\ Came(queue, queue', p)
    BY <1>1, NextQueue DEF QueueStep
  <2>2. QueueOk(queue)
    BY <1>1 DEF IInv
  <2>3. ASSUME NEW c \in Cars, NEW i \in Positions(queue, c), NEW j \in Positions(queue', c)
        PROVE  Cardinality(AheadOf(queue', c, j)) <= Cardinality(AheadOf(queue, c, i))
    BY <2>1, <2>2, TurnStep
  <2> QED BY <2>3 DEF AheadOf
<1>2. IInv /\ [Next]_vars => [P]_vars
  BY <1>1
<1> QED BY <1>2, IInvHolds, PTL DEF Spec, TurnKept

-----------------------------------------------------------------------------
(* Ranks.                                                                  *)

LEMMA Wrapped ==
    ASSUME NEW n \in Nat \ {0}, NEW x \in 1 .. 2 * n - 1
    PROVE  x % n = IF x < n THEN x ELSE x - n
<1>1. CASE x < n
  BY <1>1
<1>2. CASE ~(x < n)
  <2> DEFINE q == x \div n
             z == x % n
  <2>1. q \in Nat /\ z \in 0 .. n - 1 /\ x = n * q + z
    OBVIOUS
  <2> HIDE DEF q, z
  <2>2. q = 1
    <3>1. CASE q = 0
      BY <1>2, <2>1, <3>1
    <3>2. CASE q >= 2
      <4>1. n * q >= n * 2
        BY <2>1, <3>2
      <4> QED BY <2>1, <4>1
    <3> QED BY <2>1, <3>1, <3>2
  <2>3. n * q = n
    BY <2>2
  <2> QED BY <1>2, <2>1, <2>3 DEF z
<1> QED BY <1>1, <1>2

\* Of a car that knows the time rankFix takes no fix for newer, or the same,
\* that was measured before.
LEMMA RankIsTime ==
    ASSUME NEW heard, CarsKeepTime(heard), NEW t \in heard, NEW u \in heard,
           t.from = u.from, t.fix \in FixIds, u.fix \in FixIds,
           t.fix.session # 0, u.fix.session # 0,
           RankFix(t.fix, u.fix) \in {"newer", "same"}
    PROVE  u.fix.at <= t.fix.at
<1> SUFFICES ASSUME u.fix.at > t.fix.at PROVE FALSE
  BY DEF FixIds
<1>1. /\ t.fix.at \in Nat /\ u.fix.at \in Nat
      /\ t.fix.seq \in 0 .. SeqSpan - 1 /\ u.fix.seq \in 0 .. SeqSpan - 1
      /\ SeqSpan \in Nat \ {0}
  BY Numbers DEF FixIds
<1>2. t.fix.at # 0 /\ u.fix.at # 0
  BY DEF CarsKeepTime
<1>3. t.fix.session = u.fix.session
  BY <1>1, <1>2 DEF RankFix
<1> DEFINE h == SeqSpan \div 2
           x == u.fix.seq + SeqSpan - t.fix.seq
           y == t.fix.seq + SeqSpan - u.fix.seq
<1>4. x % SeqSpan \in 1 .. h - 1
  BY <1>1, <1>3 DEF CarsKeepTime
<1>5. h \in Nat /\ 2 * h <= SeqSpan
  BY <1>1
<1>6. y % SeqSpan # 0 /\ y % SeqSpan \notin 1 .. h - 1
  <2>1. /\ x \in 1 .. 2 * SeqSpan - 1 /\ y \in 1 .. 2 * SeqSpan - 1
        /\ x + y = 2 * SeqSpan
    BY <1>1
  <2> HIDE DEF x, y, h
  <2>2. /\ x % SeqSpan = IF x < SeqSpan THEN x ELSE x - SeqSpan
        /\ y % SeqSpan = IF y < SeqSpan THEN y ELSE y - SeqSpan
    BY <1>1, <2>1, Wrapped
  <2> QED BY <1>1, <1>4, <1>5, <2>1, <2>2
<1>7. RankFix(t.fix, u.fix) = "older"
  <2> DEFINE ahead == (t.fix.seq + SeqSpan - u.fix.seq) % SeqSpan
  <2>1. ahead # 0 /\ ahead \notin 1 .. SeqSpan \div 2 - 1
    BY <1>6
  <2>2. ~(t.fix.at > u.fix.at)
    BY <1>1
  <2> QED BY <1>3, <2>1, <2>2 DEF RankFix
<1> QED BY <1>7

\* NeverGoesBack: where the cars know the time, a queued position gives way
\* to none of its car's that was measured earlier, over reboots and positions
\* that overtake one another (rankFix, placeTxPacket).
THEOREM NoneGoesBack ==
    ASSUME \A s \in Settings : CarsKeepTime(Traffic[s])
    PROVE  Spec => NeverGoesBack
<1> DEFINE P == \A c \in Cars :
          \A i \in Positions(queue, c), j \in Positions(queue', c) :
              queue[i].fix.at <= queue'[j].fix.at
<1>1. ASSUME IInv, [Next]_vars PROVE P
  <2>1. PICK p : Newcomer(p) /\ Came(queue, queue', p)
    BY <1>1, NextQueue DEF QueueStep
  <2>2. QueueOk(queue) /\ setting \in Settings
    BY <1>1 DEF IInv, Shape
  <2>3. ASSUME NEW c \in Cars, NEW i \in Positions(queue, c), NEW j \in Positions(queue', c)
        PROVE  queue[i].fix.at <= queue'[j].fix.at
    <3>1. queue'[j] = queue[i] \/ (InPlace(queue, queue', p, i) /\ queue'[j] = p)
      BY <2>1, <2>2, TurnStep
    <3>2. i \in 1 .. Len(queue) /\ queue[i].from = c /\ IsPosition(queue[i]) /\ queue[i] \in Packets
      BY <2>2, PlacesAt, ElementOfSeq DEF QueueOk
    <3>3. queue[i].fix \in FixIds /\ p.fix \in FixIds
      BY <2>1, <3>2 DEF Newcomer, Packets
    <3>4. CASE queue'[j] = queue[i]
      BY <3>3, <3>4 DEF FixIds
    <3>5. CASE InPlace(queue, queue', p, i) /\ queue'[j] = p
      <4>1. /\ IsPosition(p) /\ p.from = c
            /\ RankFix(p.fix, queue[i].fix) \in {"newer", "same"}
        BY <3>2, <3>5 DEF InPlace
      <4>2. PICK t \in Traffic[setting] : t.from = c /\ t.fix = p.fix
        BY <2>1, <4>1 DEF Newcomer, WasHeard
      <4>3. PICK u \in Traffic[setting] : u.from = c /\ u.fix = queue[i].fix
        BY <2>2, <3>2 DEF QueueOk, WasHeard
      <4>4. CarsKeepTime(Traffic[setting])
        BY <2>2
      <4>5. t.fix.session # 0 /\ u.fix.session # 0
        BY <3>2, <4>1, <4>2, <4>3 DEF IsPosition
      <4>6. u.fix.at <= t.fix.at
        BY <3>3, <4>1, <4>2, <4>3, <4>4, <4>5, RankIsTime
      <4> QED BY <3>5, <4>2, <4>3, <4>6
    <3> QED BY <3>1, <3>4, <3>5
  <2> QED BY <2>3
<1>2. IInv /\ [Next]_vars => [P]_vars
  BY <1>1
<1> QED BY <1>2, IInvHolds, PTL DEF Spec, NeverGoesBack
=============================================================================

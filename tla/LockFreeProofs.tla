---------------------------- MODULE LockFreeProofs ----------------------------
(***************************************************************************)
(* The two places where tasks share memory without a lock.                 *)
(*                                                                         *)
(* The ring of dropped writes is a queue, for every number of its slots    *)
(* and wherever its counters wrap.                                         *)
(*                                                                         *)
(* RideClock implements PulseLock, for every period, tolerance, run        *)
(* length, word size and number of tries.  seq counts two for every edge   *)
(* finished and one more while an edge is being stored, so a reader that   *)
(* finds it even and unmoved has loaded from memory nobody was storing to  *)
(* (ReaderOK); and memory nobody is storing to holds the last edge and the *)
(* length of the run that ends with it (WriterOK).                         *)
(***************************************************************************)
EXTENDS RideClock, DroppedWrites, SequenceTheorems, TLAPS

-----------------------------------------------------------------------------
(* Counters that wrap at a multiple of the ring's length.                  *)

LEMMA Division ==
    ASSUME NEW n \in Nat, NEW m \in Nat \ {0}
    PROVE  /\ n \div m \in Nat /\ n % m \in 0 .. m - 1
           /\ n = ((n \div m) * m) + (n % m)
<1>1. n \div m \in Nat /\ n % m \in 0 .. m - 1 /\ n = (m * (n \div m)) + (n % m)
  OBVIOUS
<1> QED BY <1>1

\* A remainder is the only one in its range.
LEMMA RemainderIs ==
    ASSUME NEW m \in Nat \ {0}, NEW q \in Nat, NEW r \in 0 .. m - 1
    PROVE  (q * m + r) % m = r
<1> DEFINE n == q * m + r
<1>1. n \in Nat
  OBVIOUS
<1>0. n = q * m + r
  OBVIOUS
<1> HIDE DEF n
<1> DEFINE k == n \div m
           o == n % m
<1>2. n = (k * m) + o /\ o \in 0 .. m - 1 /\ k \in Nat
  BY <1>1, Division
<1> HIDE DEF k
<1>3. CASE k = q
  BY <1>0, <1>2, <1>3
<1>4. CASE k < q
  <2>1. PICK d \in Nat : q = k + (1 + d)
    BY <1>2, <1>4
  <2>2. (k + (1 + d)) * m = (k * m) + m + (d * m) /\ d * m \in Nat /\ k * m \in Nat
    BY <1>2
  <2>3. q * m >= (k * m) + m
    BY <2>1, <2>2
  <2> QED BY <1>0, <1>2, <2>2, <2>3
<1>5. CASE k > q
  <2>1. PICK d \in Nat : k = q + (1 + d)
    BY <1>2, <1>5
  <2>2. (q + (1 + d)) * m = (q * m) + m + (d * m) /\ d * m \in Nat /\ q * m \in Nat
    OBVIOUS
  <2>3. k * m >= (q * m) + m
    BY <2>1, <2>2
  <2> QED BY <1>0, <1>2, <2>2, <2>3
<1> QED BY <1>0, <1>2, <1>3, <1>4, <1>5 DEF n

\* A whole ring further is the same place.
LEMMA WholeRing ==
    ASSUME NEW m \in Nat \ {0}, NEW q \in Nat, NEW n \in Nat
    PROVE  (q * m + n) % m = n % m
<1>1. n = ((n \div m) * m) + (n % m) /\ n % m \in 0 .. m - 1 /\ n \div m \in Nat
  BY Division
<1> DEFINE k == n \div m
           r == n % m
<1>2. q + k \in Nat /\ r \in 0 .. m - 1 /\ n = k * m + r
  BY <1>1
<1>t. k \in Nat /\ q + k \in Nat
  BY <1>2
<1> HIDE DEF k, r
<1>3. q * m + n = (q + k) * m + r
  <2>1. (q + k) * m = (q * m) + (k * m) /\ q * m \in Nat /\ k * m \in Nat
    BY <1>t
  <2> QED BY <1>2, <2>1
<1>4. ((q + k) * m + r) % m = r
  BY <1>2, RemainderIs
<1>5. (q * m + n) % m = r
  BY <1>3, <1>4
<1> QED BY <1>5 DEF r

\* Places less than a ring apart are different places.
LEMMA PlacesApart ==
    ASSUME NEW m \in Nat \ {0}, NEW n \in Nat, NEW d \in 1 .. m - 1
    PROVE  (n + d) % m # n % m
<1>1. n = ((n \div m) * m) + (n % m) /\ n % m \in 0 .. m - 1 /\ n \div m \in Nat
  BY Division
<1> DEFINE q == n \div m
           r == n % m
<1>2. q \in Nat /\ r \in 0 .. m - 1 /\ n = q * m + r
  BY <1>1
<1>3. r = n % m
  OBVIOUS
<1> HIDE DEF q, r
<1>4. CASE r + d < m
  <2>1. n + d = q * m + (r + d) /\ r + d \in 0 .. m - 1
    BY <1>2, <1>4
  <2>2. (q * m + (r + d)) % m = r + d
    BY <2>1, <1>2, RemainderIs
  <2> QED BY <2>1, <2>2, <1>2, <1>3
<1>5. CASE r + d >= m
  <2>1. n + d = (q + 1) * m + (r + d - m) /\ r + d - m \in 0 .. m - 1
    BY <1>2, <1>5
  <2>q. q + 1 \in Nat
    BY <1>2
  <2>2. ((q + 1) * m + (r + d - m)) % m = r + d - m
    BY <2>1, <2>q, RemainderIs
  <2> QED BY <2>1, <2>2, <1>2, <1>3
<1> QED BY <1>2, <1>4, <1>5

LEMMA WrapType == Wrap \in Nat /\ Wrap > Slots /\ Slots \in Nat \ {0}
<1>1. Rounds * Slots > Slots
  <2>1. PICK k \in Nat : Rounds = 2 + k
    BY DropAssumption
  <2>2. (2 + k) * Slots = (2 * Slots) + (k * Slots) /\ k * Slots \in Nat
    BY DropAssumption
  <2> QED BY <2>1, <2>2, DropAssumption
<1> QED BY <1>1, DropAssumption DEF Wrap

\* What wraps keeps its place in the ring.
LEMMA PlaceKept ==
    ASSUME NEW n \in Nat
    PROVE  (Wrap + n) % Slots = n % Slots
BY DropAssumption, WholeRing DEF Wrap

\* The next value of a counter.
LEMMA NextCounter ==
    ASSUME NEW c \in 0 .. Wrap - 1
    PROVE  /\ (c + 1) % Wrap \in 0 .. Wrap - 1
           /\ c + 1 < Wrap => (c + 1) % Wrap = c + 1
           /\ c + 1 = Wrap => (c + 1) % Wrap = 0
<1>1. CASE c + 1 < Wrap
  <2>1. (0 * Wrap + (c + 1)) % Wrap = c + 1
    BY <1>1, WrapType, RemainderIs
  <2>2. 0 * Wrap + (c + 1) = c + 1
    BY WrapType
  <2>3. (c + 1) % Wrap = c + 1
    BY <2>1, <2>2
  <2> QED BY <2>3, <1>1, WrapType
<1>2. CASE c + 1 = Wrap
  <2>1. (1 * Wrap + 0) % Wrap = 0
    BY WrapType, RemainderIs
  <2>2. 1 * Wrap + 0 = c + 1
    BY <1>2, WrapType
  <2> QED BY <2>1, <2>2, <1>2, WrapType
<1> QED BY <1>1, <1>2, WrapType

\* The unsigned difference of two counters.
Between(h, t) == (t + Wrap - h) % Wrap

LEMMA Difference ==
    ASSUME NEW h \in 0 .. Wrap - 1, NEW t \in 0 .. Wrap - 1
    PROVE  /\ h <= t => Between(h, t) = t - h
           /\ t < h => Between(h, t) = t + Wrap - h
           /\ Between(h, t) \in 0 .. Wrap - 1
<1>1. CASE h <= t
  <2>1. (1 * Wrap + (t - h)) % Wrap = t - h
    BY <1>1, WrapType, RemainderIs
  <2>2. 1 * Wrap + (t - h) = t + Wrap - h
    BY WrapType
  <2> QED BY <2>1, <2>2, <1>1, WrapType DEF Between
<1>2. CASE t < h
  <2>1. (0 * Wrap + (t + Wrap - h)) % Wrap = t + Wrap - h
    BY <1>2, WrapType, RemainderIs
  <2>2. 0 * Wrap + (t + Wrap - h) = t + Wrap - h
    BY WrapType
  <2> QED BY <2>1, <2>2, <1>2, WrapType DEF Between
<1> QED BY <1>1, <1>2, WrapType

\* tail moves on: one more, as long as the counters can tell.
LEMMA TailOn ==
    ASSUME NEW h \in 0 .. Wrap - 1, NEW t \in 0 .. Wrap - 1, Between(h, t) < Slots
    PROVE  Between(h, (t + 1) % Wrap) = Between(h, t) + 1
<1> DEFINE n == (t + 1) % Wrap
<1>1. /\ n \in 0 .. Wrap - 1
      /\ t + 1 < Wrap => n = t + 1
      /\ t + 1 = Wrap => n = 0
  BY NextCounter
<1> HIDE DEF n
<1>2. /\ h <= n => Between(h, n) = n - h
      /\ n < h => Between(h, n) = n + Wrap - h
  BY <1>1, Difference
<1>3. /\ h <= t => Between(h, t) = t - h
      /\ t < h => Between(h, t) = t + Wrap - h
  BY Difference
<1>4. Between(h, n) = Between(h, t) + 1
  BY <1>1, <1>2, <1>3, WrapType
<1> QED BY <1>4 DEF n

\* head moves on: one less.
LEMMA HeadOn ==
    ASSUME NEW h \in 0 .. Wrap - 1, NEW t \in 0 .. Wrap - 1, Between(h, t) > 0
    PROVE  Between((h + 1) % Wrap, t) = Between(h, t) - 1
<1> DEFINE n == (h + 1) % Wrap
<1>1. /\ n \in 0 .. Wrap - 1
      /\ h + 1 < Wrap => n = h + 1
      /\ h + 1 = Wrap => n = 0
  BY NextCounter
<1> HIDE DEF n
<1>2. /\ n <= t => Between(n, t) = t - n
      /\ t < n => Between(n, t) = t + Wrap - n
  BY <1>1, Difference
<1>3. /\ h <= t => Between(h, t) = t - h
      /\ t < h => Between(h, t) = t + Wrap - h
  BY Difference
<1>4. Between(n, t) = Between(h, t) - 1
  BY <1>1, <1>2, <1>3, WrapType
<1> QED BY <1>4 DEF n

\* tail's place is as far from head's as there are ids between them.
LEMMA TailPlace ==
    ASSUME NEW h \in 0 .. Wrap - 1, NEW t \in 0 .. Wrap - 1
    PROVE  t % Slots = (h + Between(h, t)) % Slots
<1>1. CASE h <= t
  BY <1>1, Difference, WrapType
<1>2. CASE t < h
  <2>1. h + Between(h, t) = Wrap + t
    BY <1>2, Difference, WrapType
  <2> QED BY <2>1, PlaceKept, WrapType
<1> QED BY <1>1, <1>2, WrapType

\* The i-th place from head is the one before it once head has moved on.
LEMMA HeadPlace ==
    ASSUME NEW h \in 0 .. Wrap - 1, NEW i \in Nat
    PROVE  (((h + 1) % Wrap) + i) % Slots = (h + (i + 1)) % Slots
<1>1. CASE h + 1 < Wrap
  <2>1. (h + 1) % Wrap = h + 1
    BY <1>1, NextCounter
  <2>2. (h + 1) + i = h + (i + 1)
    BY WrapType
  <2> QED BY <2>1, <2>2
<1>2. CASE h + 1 = Wrap
  <2>1. h + (i + 1) = Wrap + i
    BY <1>2, WrapType
  <2>2. (h + 1) % Wrap = 0 /\ 0 + i = i
    BY <1>2, NextCounter
  <2> QED BY <2>1, <2>2, PlaceKept
<1> QED BY <1>1, <1>2, WrapType

\* Counters that differ have ids between them.
LEMMA NotEmpty ==
    ASSUME NEW h \in 0 .. Wrap - 1, NEW t \in 0 .. Wrap - 1, h # t
    PROVE  Between(h, t) > 0
<1> h \in Nat /\ t \in Nat /\ Wrap \in Nat /\ h < Wrap
  BY WrapType
<1>1. CASE h < t
  BY <1>1, Difference
<1>2. CASE t < h
  <2>1. Between(h, t) = t + Wrap - h
    BY <1>2, Difference
  <2> QED BY <2>1
<1> QED BY <1>1, <1>2

-----------------------------------------------------------------------------
(* The ids in the ring, as a sequence.                                     *)

Held(r, h, n) == [i \in 1 .. n |-> r[(h + (i - 1)) % Slots]]

LEMMA PlaceInRing ==
    ASSUME NEW n \in Nat
    PROVE  n % Slots \in 0 .. Slots - 1
BY WrapType, Division

LEMMA HeldIsASeq ==
    ASSUME NEW r \in [0 .. Slots - 1 -> Nat], NEW h \in Nat, NEW n \in Nat
    PROVE  /\ Held(r, h, n) \in Seq(Nat)
           /\ Len(Held(r, h, n)) = n
           /\ \A i \in 1 .. n : Held(r, h, n)[i] = r[(h + (i - 1)) % Slots]
<1>1. \A i \in 1 .. n : r[(h + (i - 1)) % Slots] \in Nat
  <2> TAKE i \in 1 .. n
  <2>1. h + (i - 1) \in Nat
    OBVIOUS
  <2>2. (h + (i - 1)) % Slots \in 0 .. Slots - 1
    BY <2>1, PlaceInRing
  <2> QED BY <2>2
<1>2. Held(r, h, n) \in [1 .. n -> Nat]
  BY <1>1 DEF Held
<1>3. Held(r, h, n) \in Seq(Nat)
  BY <1>2, SeqDef
<1>4. DOMAIN Held(r, h, n) = 1 .. n
  BY <1>2
<1>5. Len(Held(r, h, n)) = n
  BY <1>3, <1>4, LenProperties
<1> QED BY <1>3, <1>5 DEF Held

\* One id more, at tail's place.
LEMMA HeldMore ==
    ASSUME NEW r \in [0 .. Slots - 1 -> Nat], NEW h \in Nat, NEW n \in Nat
    PROVE  Held(r, h, n + 1) = Append(Held(r, h, n), r[(h + n) % Slots])
<1> DEFINE s == Held(r, h, n)
           e == r[(h + n) % Slots]
           t == Held(r, h, n + 1)
<1>n. h + n \in Nat /\ n + 1 \in Nat
  OBVIOUS
<1>1. e \in Nat
  BY <1>n, PlaceInRing
<1>2. /\ s \in Seq(Nat) /\ Len(s) = n
      /\ \A i \in 1 .. n : s[i] = r[(h + (i - 1)) % Slots]
  BY HeldIsASeq
<1>3. /\ t \in Seq(Nat) /\ Len(t) = n + 1
      /\ \A i \in 1 .. n + 1 : t[i] = r[(h + (i - 1)) % Slots]
  BY <1>n, HeldIsASeq
<1>4. /\ Append(s, e) \in Seq(Nat) /\ Len(Append(s, e)) = n + 1
      /\ \A i \in 1 .. n : Append(s, e)[i] = s[i]
      /\ Append(s, e)[n + 1] = e
  BY <1>1, <1>2, AppendProperties
<1>5. t[n + 1] = e
  <2>1. n + 1 \in 1 .. n + 1 /\ h + ((n + 1) - 1) = h + n
    OBVIOUS
  <2> QED BY <2>1, <1>3
<1> HIDE DEF s, e, t
<1>6. \A i \in 1 .. n + 1 : t[i] = Append(s, e)[i]
  <2>1. ASSUME NEW i \in 1 .. n
        PROVE  t[i] = Append(s, e)[i]
    <3>1. i \in 1 .. n + 1
      OBVIOUS
    <3>2. t[i] = r[(h + (i - 1)) % Slots]
      BY <3>1, <1>3
    <3>3. s[i] = r[(h + (i - 1)) % Slots]
      BY <1>2
    <3> QED BY <3>2, <3>3, <1>4
  <2>2. t[n + 1] = Append(s, e)[n + 1]
    BY <1>4, <1>5
  <2>3. \A i \in 1 .. n + 1 : i \in 1 .. n \/ i = n + 1
    OBVIOUS
  <2> QED BY <2>1, <2>2, <2>3
<1>7. t = Append(s, e)
  BY <1>3, <1>4, <1>6, SeqEqual
<1> QED BY <1>7 DEF s, e, t

\* One id fewer, from head's place.
LEMMA HeldLess ==
    ASSUME NEW r \in [0 .. Slots - 1 -> Nat], NEW h \in 0 .. Wrap - 1, NEW n \in Nat, n > 0
    PROVE  /\ Held(r, h, n) # << >>
           /\ Head(Held(r, h, n)) = r[h % Slots]
           /\ Tail(Held(r, h, n)) = Held(r, (h + 1) % Wrap, n - 1)
<1> DEFINE s == Held(r, h, n)
           t == Held(r, (h + 1) % Wrap, n - 1)
<1>h. h \in Nat /\ (h + 1) % Wrap \in Nat /\ n - 1 \in Nat
  BY WrapType, NextCounter
<1>1. /\ s \in Seq(Nat) /\ Len(s) = n
      /\ \A i \in 1 .. n : s[i] = r[(h + (i - 1)) % Slots]
  BY <1>h, HeldIsASeq
<1>2. /\ t \in Seq(Nat) /\ Len(t) = n - 1
      /\ \A i \in 1 .. n - 1 : t[i] = r[(((h + 1) % Wrap) + (i - 1)) % Slots]
  BY <1>h, HeldIsASeq
<1>3. s # << >>
  BY <1>1, EmptySeq
<1>4. s[1] = r[h % Slots]
  <2>1. 1 \in 1 .. n /\ h + (1 - 1) = h
    BY <1>h
  <2> QED BY <2>1, <1>1
<1>5. /\ Tail(s) \in Seq(Nat) /\ Len(Tail(s)) = n - 1
      /\ \A i \in 1 .. n - 1 : Tail(s)[i] = s[i + 1]
  BY <1>1, <1>3, HeadTailProperties
<1>6. ASSUME NEW i \in 1 .. n - 1
      PROVE  Tail(s)[i] = t[i]
  <2>1. i + 1 \in 1 .. n /\ h + ((i + 1) - 1) = h + ((i - 1) + 1) /\ i - 1 \in Nat
    BY <1>h
  <2>2. s[i + 1] = r[(h + ((i - 1) + 1)) % Slots]
    BY <2>1, <1>1
  <2>3. (((h + 1) % Wrap) + (i - 1)) % Slots = (h + ((i - 1) + 1)) % Slots
    BY <2>1, HeadPlace
  <2> QED BY <2>2, <2>3, <1>2, <1>5
<1>7. Head(s) = s[1]
  OBVIOUS
<1> HIDE DEF s, t
<1>8. Tail(s) = t
  BY <1>2, <1>5, <1>6, SeqEqual
<1> QED BY <1>3, <1>4, <1>7, <1>8 DEF s, t

\* What is stored past the last id disturbs none of them.
LEMMA HeldKept ==
    ASSUME NEW r \in [0 .. Slots - 1 -> Nat], NEW h \in Nat, NEW n \in 0 .. Slots - 1,
           NEW x
    PROVE  Held([r EXCEPT ![(h + n) % Slots] = x], h, n) = Held(r, h, n)
<1> DEFINE q == [r EXCEPT ![(h + n) % Slots] = x]
<1>1. ASSUME NEW i \in 1 .. n
      PROVE  q[(h + (i - 1)) % Slots] = r[(h + (i - 1)) % Slots]
  <2> DEFINE p == h + (i - 1)
             d == n - (i - 1)
  <2>1. p \in Nat /\ d \in 1 .. Slots - 1 /\ p + d = h + n
    BY WrapType
  <2>2. (p + d) % Slots # p % Slots
    BY <2>1, WrapType, PlacesApart
  <2>3. p % Slots \in 0 .. Slots - 1
    BY <2>1, PlaceInRing
  <2> QED BY <2>1, <2>2, <2>3
<1> QED BY <1>1 DEF Held

-----------------------------------------------------------------------------
(* The invariant: what each task may rely on between its accesses.          *)

\* What push found out stays true until it has published its id.
PushOK ==
    /\ pusher.step \in {"store", "publish"} => Used < Slots
    /\ pusher.step = "publish" => ids[tail % Slots] = pusher.id
    /\ pusher.step # "idle" => pusher.id = dropped /\ dropped > 0

\* What pop found out stays true until it has freed the place.
PopOK ==
    /\ popper.step \in {"load", "free"} => Used > 0 /\ Len(report) < Slots
    /\ popper.step = "free" => popper.id = ids[head % Slots]

DropIInv == DropTypeOK /\ PushOK /\ PopOK

LEMMA UsedIsBetween == Used = Between(head, tail)
BY DEF Used, Between

\* While push stores its id, the places from head to tail stay as they were.
LEMMA StoreIdKeeps ==
    ASSUME DropIInv, StoreId
    PROVE  /\ ids' \in [0 .. Slots - 1 -> Nat]
           /\ ids'[tail % Slots] = pusher.id
           /\ popper.step = "free" => ids'[head % Slots] = ids[head % Slots]
           /\ Waiting' = Waiting
<1> USE DEF DropIInv, DropTypeOK
<1>1. /\ ids' = [ids EXCEPT ![tail % Slots] = pusher.id]
      /\ head' = head /\ tail' = tail /\ popper' = popper /\ pusher.id \in Nat
  BY DEF StoreId
<1>2. Used \in Nat /\ Used < Slots /\ tail \in Nat /\ head \in Nat
  BY WrapType, UsedIsBetween, Difference DEF PushOK, StoreId
<1>3. tail % Slots = (head + Used) % Slots
  BY TailPlace, UsedIsBetween
<1>4. tail % Slots \in 0 .. Slots - 1 /\ head % Slots \in 0 .. Slots - 1
  BY <1>2, PlaceInRing
<1>5. popper.step = "free" => ids'[head % Slots] = ids[head % Slots]
  <2>1. SUFFICES ASSUME popper.step = "free"
                 PROVE  ids'[head % Slots] = ids[head % Slots]
    OBVIOUS
  <2>2. Used \in 1 .. Slots - 1
    BY <1>2, <2>1, WrapType DEF PopOK
  <2>3. (head + Used) % Slots # head % Slots
    BY <1>2, <2>2, WrapType, PlacesApart
  <2> QED BY <1>1, <1>3, <1>4, <2>3
<1>6. Waiting' = Waiting
  <2>1. Used' = Used
    BY <1>1 DEF Used
  <2>2. Used \in 0 .. Slots - 1
    BY <1>2, WrapType
  <2>3. Held([ids EXCEPT ![(head + Used) % Slots] = pusher.id], head, Used)
            = Held(ids, head, Used)
    <3>1. ids \in [0 .. Slots - 1 -> Nat]
      OBVIOUS
    <3> HIDE DEF DropIInv, DropTypeOK
    <3> QED BY <3>1, <1>2, <2>2, HeldKept
  <2>4. Held(ids', head, Used) = Held(ids, head, Used)
    BY <1>1, <1>3, <2>3
  <2> QED BY <1>1, <2>1, <2>4 DEF Waiting, Held
<1> QED BY <1>1, <1>4, <1>5, <1>6

\* Publishing adds push's id to those that wait.
LEMMA StoreTailAdds ==
    ASSUME DropIInv, StoreTail
    PROVE  /\ tail' \in 0 .. Wrap - 1
           /\ Used' = Used + 1 /\ Used \in Nat /\ Used < Slots
           /\ Waiting' = Append(Waiting, pusher.id)
           /\ Len(Waiting) = Used
<1> USE DEF DropIInv, DropTypeOK
<1>1. tail' = (tail + 1) % Wrap /\ ids' = ids /\ head' = head
  BY DEF StoreTail
<1>2. Used \in Nat /\ Used < Slots /\ tail \in Nat /\ head \in Nat
  BY WrapType, UsedIsBetween, Difference DEF PushOK, StoreTail
<1>3. tail' \in 0 .. Wrap - 1
  BY <1>1, NextCounter
<1>4. Used' = Used + 1
  <2>3. Between(head, tail) < Slots
    BY <1>2, UsedIsBetween
  <2>1. Between(head, (tail + 1) % Wrap) = Between(head, tail) + 1
    BY <2>3, TailOn
  <2>2. Used' = Between(head', tail')
    BY DEF Used, Between
  <2> QED BY <1>1, <2>1, <2>2, UsedIsBetween
<1>5. ids[(head + Used) % Slots] = pusher.id
  <2>1. tail % Slots = (head + Used) % Slots
    BY TailPlace, UsedIsBetween
  <2> QED BY <2>1 DEF PushOK, StoreTail
<1>6. Held(ids, head, Used + 1) = Append(Held(ids, head, Used), pusher.id)
  <2>1. ids \in [0 .. Slots - 1 -> Nat]
    OBVIOUS
  <2> HIDE DEF DropIInv, DropTypeOK
  <2>2. Held(ids, head, Used + 1) = Append(Held(ids, head, Used), ids[(head + Used) % Slots])
    BY <2>1, <1>2, HeldMore
  <2> QED BY <2>2, <1>5
<1>7. Waiting' = Append(Waiting, pusher.id)
  BY <1>1, <1>4, <1>6 DEF Waiting, Held
<1>8. Len(Waiting) = Used
  <2>1. Len(Held(ids, head, Used)) = Used
    BY <1>2, HeldIsASeq
  <2> QED BY <2>1 DEF Waiting, Held
<1> QED BY <1>2, <1>3, <1>4, <1>7, <1>8

\* Freeing a place takes the id that pop has read, which is the first.
LEMMA StoreHeadTakes ==
    ASSUME DropIInv, StoreHead
    PROVE  /\ head' \in 0 .. Wrap - 1
           /\ Used' = Used - 1 /\ Used \in 1 .. Slots
           /\ Waiting # << >> /\ popper.id = Head(Waiting) /\ Waiting' = Tail(Waiting)
<1> USE DEF DropIInv, DropTypeOK
<1>1. head' = (head + 1) % Wrap /\ ids' = ids /\ tail' = tail
  BY DEF StoreHead
<1>2. Used \in Nat /\ Used > 0 /\ Used <= Slots /\ tail \in Nat /\ head \in Nat
  BY WrapType, UsedIsBetween, Difference DEF PopOK, StoreHead
<1>3. head' \in 0 .. Wrap - 1
  BY <1>1, NextCounter
<1>4. Used' = Used - 1
  <2>1. Between((head + 1) % Wrap, tail) = Between(head, tail) - 1
    BY <1>2, UsedIsBetween, HeadOn
  <2>2. Used' = Between(head', tail')
    BY DEF Used, Between
  <2> QED BY <1>1, <2>1, <2>2, UsedIsBetween
<1>5. popper.id = ids[head % Slots]
  BY DEF PopOK, StoreHead
<1>6. /\ Held(ids, head, Used) # << >>
      /\ Head(Held(ids, head, Used)) = ids[head % Slots]
      /\ Tail(Held(ids, head, Used)) = Held(ids, (head + 1) % Wrap, Used - 1)
  BY <1>2, HeldLess
<1>7. Waiting = Held(ids, head, Used) /\ Waiting' = Held(ids', head', Used')
  BY DEF Waiting, Held
<1>8. Waiting # << >> /\ popper.id = Head(Waiting)
  BY <1>5, <1>6, <1>7, Zenon
<1>9. Waiting' = Tail(Waiting)
  BY <1>1, <1>4, <1>6, <1>7, Zenon
<1>10. Used \in 1 .. Slots
  BY <1>2, WrapType
<1> QED BY <1>3, <1>4, <1>8, <1>9, <1>10, Zenon

LEMMA InitOK == DropInit => DropIInv
<1> SUFFICES ASSUME DropInit PROVE DropIInv
  OBVIOUS
<1> USE DEF DropInit
<1>1. Used = 0
  <2>1. 0 \in 0 .. Wrap - 1 /\ (0 <= 0 => Between(0, 0) = 0 - 0)
    BY WrapType, Difference
  <2> QED BY <2>1, UsedIsBetween
<1>2. DropTypeOK
  BY <1>1, WrapType DEF DropTypeOK, NoId, Idle
<1> QED BY <1>1, <1>2 DEF DropIInv, PushOK, PopOK, Idle

LEMMA NextOK == DropIInv /\ [DropNext]_dropVars => DropIInv'
<1> SUFFICES ASSUME DropIInv, [DropNext]_dropVars PROVE DropIInv'
  OBVIOUS
<1> USE DEF DropIInv
<1>t. DropTypeOK /\ PushOK /\ PopOK
  OBVIOUS
<1>u. Used \in Nat
  BY WrapType, UsedIsBetween, Difference DEF DropTypeOK
<1>1. CASE OnWriteDropped
  <2>1. DropTypeOK'
    BY <1>1, <1>t DEF OnWriteDropped, DropTypeOK, ring, Used
  <2>2. PushOK' /\ PopOK'
    BY <1>1, <1>t DEF OnWriteDropped, DropTypeOK, PushOK, PopOK, ring, Used
  <2> QED BY <2>1, <2>2
<1>2. CASE LoadHead
  <2>1. Used' = Used
    BY <1>2 DEF LoadHead, ring, Used
  <2>2. DropTypeOK'
    BY <1>2, <1>t, <2>1 DEF LoadHead, DropTypeOK, ring
  <2>3. PushOK' /\ PopOK'
    BY <1>2, <1>t, <1>u, <2>1, WrapType DEF LoadHead, DropTypeOK, PushOK, PopOK, ring, Full
  <2> QED BY <2>2, <2>3
<1>3. CASE CountOverflow
  <2>1. Used' = Used
    BY <1>3 DEF CountOverflow, Used
  <2>2. DropTypeOK'
    BY <1>3, <1>t, <2>1 DEF CountOverflow, DropTypeOK, Idle, NoId
  <2>3. PushOK' /\ PopOK'
    BY <1>3, <1>t, <2>1 DEF CountOverflow, PushOK, PopOK, Idle
  <2> QED BY <2>2, <2>3
<1>4. CASE StoreId
  <2>1. Used' = Used /\ head' = head /\ tail' = tail
    BY <1>4 DEF StoreId, Used
  <2>2. DropTypeOK'
    BY <1>4, <1>t, <2>1, StoreIdKeeps DEF StoreId, DropTypeOK
  <2>3. PushOK'
    BY <1>4, <1>t, <2>1, StoreIdKeeps DEF StoreId, PushOK, DropTypeOK
  <2>4. PopOK'
    BY <1>4, <1>t, <2>1, StoreIdKeeps DEF StoreId, PopOK
  <2> QED BY <2>2, <2>3, <2>4
<1>5. CASE StoreTail
  <2>1. tail' \in 0 .. Wrap - 1 /\ Used' = Used + 1 /\ Used < Slots
    BY <1>5, StoreTailAdds
  <2>2. DropTypeOK'
    BY <1>5, <1>t, <1>u, <2>1, WrapType DEF StoreTail, DropTypeOK, Idle, NoId
  <2>3. PushOK'
    BY <1>5 DEF StoreTail, PushOK, Idle
  <2>4. PopOK'
    BY <1>5, <1>t, <1>u, <2>1 DEF StoreTail, PopOK
  <2> QED BY <2>2, <2>3, <2>4
<1>6. CASE LoadTail
  <2>1. Used' = Used
    BY <1>6 DEF LoadTail, ring, Used
  <2>2. Used > 0
    BY <1>6, <1>t, NotEmpty, UsedIsBetween DEF LoadTail, DropTypeOK
  <2>3. DropTypeOK'
    BY <1>6, <1>t, <2>1 DEF LoadTail, DropTypeOK, ring
  <2>4. PushOK' /\ PopOK'
    BY <1>6, <1>t, <2>1, <2>2
    DEF LoadTail, PushOK, PopOK, DropTypeOK, ring, ReportHasRoom
  <2> QED BY <2>3, <2>4
<1>7. CASE LoadId
  <2>1. Used' = Used
    BY <1>7 DEF LoadId, ring, Used
  <2>2. ids[head % Slots] \in Nat
    <3>1. head \in Nat /\ ids \in [0 .. Slots - 1 -> Nat]
      BY <1>t, WrapType DEF DropTypeOK
    <3>2. head % Slots \in 0 .. Slots - 1
      BY <3>1, PlaceInRing
    <3> QED BY <3>1, <3>2
  <2>3. DropTypeOK'
    BY <1>7, <1>t, <2>1, <2>2 DEF LoadId, DropTypeOK, ring
  <2>4. PushOK' /\ PopOK'
    <3>1. popper' = [step |-> "free", id |-> ids[head % Slots]] /\ popper.step = "load"
      BY <1>7 DEF LoadId
    <3>2. ids' = ids /\ head' = head /\ tail' = tail /\ report' = report
          /\ pusher' = pusher /\ dropped' = dropped
      BY <1>7 DEF LoadId, ring
    <3> QED BY <3>1, <3>2, <1>t, <2>1 DEF PushOK, PopOK
  <2> QED BY <2>3, <2>4
<1>8. CASE StoreHead
  <2>1. head' \in 0 .. Wrap - 1 /\ Used' = Used - 1 /\ Used \in 1 .. Slots
    BY <1>8, StoreHeadTakes
  <2>2. report' \in Seq(Nat) /\ Len(report') <= Slots
    <3>1. popper.id \in Nat /\ report \in Seq(Nat) /\ Len(report) < Slots
      BY <1>8, <1>t DEF StoreHead, DropTypeOK, PopOK
    <3>2. Len(Append(report, popper.id)) = Len(report) + 1
          /\ Append(report, popper.id) \in Seq(Nat) /\ Len(report) \in Nat
      BY <3>1, AppendProperties, LenProperties
    <3> QED BY <1>8, <3>1, <3>2, WrapType DEF StoreHead
  <2>3. DropTypeOK'
    <3>1. Used' <= Slots
      BY <2>1, WrapType
    <3>2. popper' \in [step : {"idle", "load", "free"}, id : Nat]
      BY <1>8 DEF StoreHead, Idle, NoId
    <3> QED BY <1>8, <1>t, <2>1, <2>2, <3>1, <3>2 DEF StoreHead, DropTypeOK
  <2>4. PushOK'
    <3>1. pusher' = pusher /\ ids' = ids /\ tail' = tail /\ dropped' = dropped
      BY <1>8 DEF StoreHead
    <3>2. Used < Slots => Used' < Slots
      BY <2>1, WrapType
    <3> QED BY <3>1, <3>2, <1>t DEF PushOK
  <2>5. PopOK'
    BY <1>8 DEF StoreHead, PopOK, Idle
  <2> QED BY <2>3, <2>4, <2>5
<1>9. CASE ReportDroppedWrites
  <2>1. Used' = Used
    BY <1>9 DEF ReportDroppedWrites, ring, Used
  <2>2. told' \in Seq(Nat) /\ report' \in Seq(Nat) /\ Len(report') = 0
    <3>1. told \in Seq(Nat) /\ told \o report \in Seq(Nat)
      BY <1>t, ConcatProperties DEF DropTypeOK
    <3>2. << >> \in Seq(Nat) /\ Len(<< >>) = 0
      BY EmptySeq
    <3> QED BY <1>9, <3>1, <3>2 DEF ReportDroppedWrites
  <2>3. DropTypeOK'
    BY <1>9, <1>t, <2>1, <2>2, WrapType DEF ReportDroppedWrites, DropTypeOK, ring
  <2>4. PushOK' /\ PopOK'
    BY <1>9, <1>t, <2>1 DEF ReportDroppedWrites, PushOK, PopOK, ring
  <2> QED BY <2>3, <2>4
<1>10. CASE UNCHANGED dropVars
  BY <1>10, <1>t DEF dropVars, ring, DropTypeOK, PushOK, PopOK, Used
<1> QED
  BY <1>1, <1>2, <1>3, <1>4, <1>5, <1>6, <1>7, <1>8, <1>9, <1>10 DEF DropNext

LEMMA DropInvariant == DropSpec => []DropIInv
BY InitOK, NextOK, PTL DEF DropSpec

\* The state keeps its shape, whatever the ring's length and wherever its
\* counters wrap: no more ids lie between head and tail than it has slots
\* (DroppedWriteIds::push), and no report outgrows its packet
\* (reportDroppedWrites).
THEOREM DropTypeCorrect == DropSpec => []DropTypeOK
<1>1. DropIInv => DropTypeOK
  BY DEF DropIInv
<1> QED BY DropInvariant, <1>1, PTL

-----------------------------------------------------------------------------
(* The ring is a queue.  A write counts as dropped when push looks at head   *)
(* and finds no room, or when it publishes its id; it is taken when pop      *)
(* frees its place.                                                          *)

LEMMA StartsEmpty == DropInit => Queue!Init
<1> SUFFICES ASSUME DropInit PROVE Queue!Init
  OBVIOUS
<1>1. Used = 0
  <2>1. 0 \in 0 .. Wrap - 1 /\ (0 <= 0 => Between(0, 0) = 0 - 0)
    BY WrapType, Difference
  <2> QED BY <2>1, UsedIsBetween DEF DropInit
<1>2. Waiting = << >>
  <2>1. ids \in [0 .. Slots - 1 -> Nat] /\ head \in Nat
    BY DEF DropInit, NoId
  <2>2. Held(ids, head, 0) \in Seq(Nat) /\ Len(Held(ids, head, 0)) = 0
    BY <2>1, HeldIsASeq
  <2>3. Held(ids, head, 0) = << >>
    BY <2>2, EmptySeq
  <2> QED BY <1>1, <2>3 DEF Waiting, Held
<1> QED BY <1>2 DEF DropInit, Queue!Init, InHand, Idle

\* The ring's own length is that of the queue.
LEMMA WaitingLength == DropIInv => Waiting \in Seq(Nat) /\ Len(Waiting) = Used /\ Used \in Nat
<1> SUFFICES ASSUME DropIInv PROVE Waiting \in Seq(Nat) /\ Len(Waiting) = Used /\ Used \in Nat
  OBVIOUS
<1>1. /\ ids \in [0 .. Slots - 1 -> Nat]
      /\ head \in 0 .. Wrap - 1 /\ tail \in 0 .. Wrap - 1
  BY DEF DropIInv, DropTypeOK
<1>2. Used \in Nat /\ head \in Nat
  BY <1>1, WrapType, UsedIsBetween, Difference
<1>3. Held(ids, head, Used) \in Seq(Nat) /\ Len(Held(ids, head, Used)) = Used
  BY <1>1, <1>2, HeldIsASeq
<1> QED BY <1>2, <1>3 DEF Waiting, Held

\* A step that touches neither the ring nor the history changes nothing here.
LEMMA WaitingSame ==
    ASSUME UNCHANGED <<ids, head, tail>>
    PROVE  Waiting' = Waiting
BY DEF Waiting, Used

LEMMA StepsQueue == DropIInv /\ [DropNext]_dropVars => [Queue!Next]_(Queue!dropVars)
<1> SUFFICES ASSUME DropIInv, [DropNext]_dropVars PROVE [Queue!Next]_(Queue!dropVars)
  OBVIOUS
<1> USE DEF DropIInv
<1>t. DropTypeOK /\ PushOK /\ PopOK
  OBVIOUS
<1>n. dropped \in Nat /\ overflowed \in Nat
  BY <1>t DEF DropTypeOK
<1>1. CASE OnWriteDropped
  <2>1. Waiting' = Waiting
    BY <1>1, WaitingSame DEF OnWriteDropped, ring
  <2>2. (IF InHand THEN dropped - 1 ELSE dropped)' = IF InHand THEN dropped - 1 ELSE dropped
    BY <1>1, <1>n DEF OnWriteDropped, InHand
  <2>3. (IF pusher.step = "count" THEN overflowed + 1 ELSE overflowed)'
            = IF pusher.step = "count" THEN overflowed + 1 ELSE overflowed
    BY <1>1 DEF OnWriteDropped, ring
  <2> QED BY <1>1, <2>1, <2>2, <2>3 DEF OnWriteDropped, Queue!dropVars
<1>2. CASE LoadHead
  <2>1. Waiting' = Waiting
    BY <1>2, WaitingSame DEF LoadHead, ring
  <2>2. CASE Full
    <3>1. pusher'.step = "count"
      BY <1>2, <2>2, <1>t DEF LoadHead, DropTypeOK
    <3>2. (IF InHand THEN dropped - 1 ELSE dropped)'
              = (IF InHand THEN dropped - 1 ELSE dropped) + 1
      BY <1>2, <3>1, <1>n DEF LoadHead, InHand
    <3>3. (IF pusher.step = "count" THEN overflowed + 1 ELSE overflowed)'
              = (IF pusher.step = "count" THEN overflowed + 1 ELSE overflowed) + 1
      BY <1>2, <3>1 DEF LoadHead, ring
    <3>4. ~(Len(Waiting) < Slots)
      BY <2>2, WaitingLength, WrapType DEF Full
    <3>5. report' = report /\ told' = told
      BY <1>2 DEF LoadHead
    <3>6. Queue!Drop
      BY <2>1, <3>2, <3>3, <3>4, <3>5 DEF Queue!Drop
    <3> QED BY <3>6 DEF Queue!Next
  <2>3. CASE ~Full
    <3>1. pusher'.step = "store" /\ pusher.step = "check"
      BY <1>2, <2>3, <1>t DEF LoadHead, DropTypeOK
    <3> QED BY <1>2, <2>1, <3>1 DEF LoadHead, InHand, ring, Queue!dropVars
  <2> QED BY <2>2, <2>3
<1>3. CASE CountOverflow
  <2>1. Waiting' = Waiting
    BY <1>3, WaitingSame DEF CountOverflow
  <2>2. pusher.step = "count" /\ pusher'.step = "idle"
    BY <1>3 DEF CountOverflow, Idle
  <2> QED BY <1>3, <2>1, <2>2 DEF CountOverflow, InHand, Queue!dropVars
<1>4. CASE StoreId
  <2>1. Waiting' = Waiting
    BY <1>4, StoreIdKeeps
  <2>2. pusher.step = "store" /\ pusher'.step = "publish"
    BY <1>4, <1>t DEF StoreId, DropTypeOK
  <2> QED BY <1>4, <2>1, <2>2 DEF StoreId, InHand, Queue!dropVars
<1>5. CASE StoreTail
  <2>1. pusher.step = "publish" /\ pusher'.step = "idle" /\ pusher.id = dropped
    BY <1>5, <1>t DEF StoreTail, Idle, PushOK
  <2>2. Len(Waiting) < Slots /\ Waiting' = Append(Waiting, dropped)
    BY <1>5, <2>1, StoreTailAdds
  <2>3. (IF InHand THEN dropped - 1 ELSE dropped)'
            = (IF InHand THEN dropped - 1 ELSE dropped) + 1
        /\ (IF InHand THEN dropped - 1 ELSE dropped)' = dropped
    BY <1>5, <2>1, <1>n DEF StoreTail, InHand
  <2>4. (IF pusher.step = "count" THEN overflowed + 1 ELSE overflowed)'
            = IF pusher.step = "count" THEN overflowed + 1 ELSE overflowed
    BY <1>5, <2>1 DEF StoreTail
  <2>5. report' = report /\ told' = told
    BY <1>5 DEF StoreTail
  <2>6. Queue!Drop
    BY <2>2, <2>3, <2>4, <2>5 DEF Queue!Drop
  <2> QED BY <2>6 DEF Queue!Next
<1>6. CASE LoadTail
  <2>1. Waiting' = Waiting
    BY <1>6, WaitingSame DEF LoadTail, ring
  <2> QED BY <1>6, <2>1 DEF LoadTail, InHand, ring, Queue!dropVars
<1>7. CASE LoadId
  <2>1. Waiting' = Waiting
    BY <1>7, WaitingSame DEF LoadId, ring
  <2> QED BY <1>7, <2>1 DEF LoadId, InHand, ring, Queue!dropVars
<1>8. CASE StoreHead
  <2>1. Waiting # << >> /\ popper.id = Head(Waiting) /\ Waiting' = Tail(Waiting)
    BY <1>8, StoreHeadTakes
  <2>2. Len(report) < Slots /\ report' = Append(report, popper.id)
    BY <1>8, <1>t DEF StoreHead, PopOK
  <2>3. Queue!Take
    BY <1>8, <2>1, <2>2 DEF StoreHead, InHand, Queue!Take
  <2> QED BY <2>3 DEF Queue!Next
<1>9. CASE ReportDroppedWrites
  <2>1. Waiting' = Waiting
    BY <1>9, WaitingSame DEF ReportDroppedWrites, ring
  <2>2. Queue!Tell
    BY <1>9, <2>1 DEF ReportDroppedWrites, InHand, ring, Queue!Tell
  <2> QED BY <2>2 DEF Queue!Next
<1>10. CASE UNCHANGED dropVars
  <2>1. Waiting' = Waiting
    BY <1>10, WaitingSame DEF dropVars, ring
  <2> QED BY <1>10, <2>1 DEF dropVars, ring, InHand, Queue!dropVars
<1> QED
  BY <1>1, <1>2, <1>3, <1>4, <1>5, <1>6, <1>7, <1>8, <1>9, <1>10 DEF DropNext

\* However the accesses of the radio's task and of the main one interleave,
\* the phone is told of its dropped writes in the order they were dropped, and
\* never of one twice: DroppedWriteIds is a queue.
THEOREM RingIsAQueue == DropSpec => ImplementsWriteDrops
BY DropInvariant, StartsEmpty, StepsQueue, PTL DEF DropSpec, ImplementsWriteDrops, Queue!Spec

-----------------------------------------------------------------------------
(* The pulse clock.                                                        *)

USE ClockAssumption DEF ClockAssumption

\* The last n of `es` all came when due.
InStepOf(es, n) ==
    /\ n < Len(es)
    /\ \A i \in Len(es) - n + 1 .. Len(es) : Lock!Due(es[i] - es[i - 1])

\* `run` is how many of the last edges came when due.
RunOf(es, run) == \A n \in Nat \ {0} : run >= n <=> InStepOf(es, n)

LastOf(es) == IF Len(es) = 0 THEN 0 ELSE es[Len(es)]

Storing == isr.step \in {"pulse", "good", "even"}

WriterOK ==
    /\ seq = 2 * Len(edges) + IF Storing THEN 1 ELSE 0
    /\ isr.step # "idle" => isr.at = now /\ RunOf(Append(edges, now), isr.run)
    /\ ~Storing => pulse = WordsOf(LastOf(edges)) /\ RunOf(edges, good)
    /\ isr.step = "pulse" => \A w \in Words \ isr.todo : pulse[w] = WordsOf(now)[w]
    /\ isr.step \in {"good", "even"} => pulse = WordsOf(now)
    /\ isr.step = "even" => good = isr.run
    /\ isr.step = "odd" => isr.todo = Words

ReaderOK ==
    /\ reader.step \in {"pulse", "good", "end"} =>
          /\ reader.seq % 2 = 0
          /\ reader.seq <= seq
          /\ reader.seq = seq => \A w \in Words \ reader.todo : reader.pulse[w] = pulse[w]
    /\ reader.step \in {"good", "end"} => reader.todo = {}
    /\ reader.step = "end" /\ reader.seq = seq => reader.good = good

IInv == TypeOK /\ WriterOK /\ ReaderOK

-----------------------------------------------------------------------------
(* Helpers. *)

\* A time split into words is a pair of naturals that join to it again.
LEMMA WordsJoin ==
    ASSUME NEW t \in Nat
    PROVE  WordsOf(t) \in Times /\ TimeOf(WordsOf(t)) = t
<1>1. t \div Word \in Nat /\ t % Word \in 0 .. Word - 1 /\ t = Word * (t \div Word) + (t % Word)
  OBVIOUS
<1>2. WordsOf(t) \in Times
  BY <1>1 DEF WordsOf, Times, Words
<1>3. TimeOf(WordsOf(t)) = (t \div Word) * Word + (t % Word)
  BY DEF WordsOf, TimeOf
<1> QED
  BY <1>1, <1>2, <1>3

\* The abstract clock counts the same run.
LEMMA SameRun == ASSUME NEW n PROVE Lock!InStep(n) <=> InStepOf(edges, n)
BY DEF Lock!InStep, InStepOf

\* An edge is due by the handler's arithmetic when it is due.
LEMMA DueByDistance ==
    ASSUME NEW gap \in Int
    PROVE  Lock!Due(gap) <=>
              gap > 0 /\ \E skip \in 1 .. MaxSkip : Abs(gap - Period * skip) <= Tolerance
<1>1. ASSUME NEW skip \in 1 .. MaxSkip
      PROVE  Abs(gap - Period * skip) <= Tolerance
             <=> gap \in Period * skip - Tolerance .. Period * skip + Tolerance
  <2>1. Period * skip \in Int
    OBVIOUS
  <2> QED
    BY <2>1 DEF Abs
<1> QED
  BY <1>1 DEF Lock!Due

\* One more edge that came when due makes the run one longer.
LEMMA RunGrows ==
    ASSUME NEW es \in Seq(Nat), es # << >>, NEW t \in Nat, NEW run \in Nat,
           RunOf(es, run), Lock!Due(t - es[Len(es)])
    PROVE  RunOf(Append(es, t), run + 1)
<1> DEFINE fs == Append(es, t)
<1>1. Len(fs) = Len(es) + 1 /\ fs[Len(fs)] = t /\ Len(es) \in Nat \ {0}
  OBVIOUS
<1>2. \A i \in 1 .. Len(es) : fs[i] = es[i]
  OBVIOUS
<1> SUFFICES ASSUME NEW n \in Nat \ {0} PROVE run + 1 >= n <=> InStepOf(fs, n)
  BY DEF RunOf
<1>3. CASE n = 1
  BY <1>1, <1>2, <1>3 DEF InStepOf
<1>4. CASE n > 1
  <2>1. run >= n - 1 <=> InStepOf(es, n - 1)
    BY <1>4 DEF RunOf
  <2>2. ASSUME n < Len(fs)
        PROVE  (\A i \in Len(es) - (n - 1) + 1 .. Len(es) : Lock!Due(es[i] - es[i - 1]))
               <=> (\A i \in Len(fs) - n + 1 .. Len(fs) : Lock!Due(fs[i] - fs[i - 1]))
    <3>1. Len(fs) - n + 1 = Len(es) - (n - 1) + 1 /\ Len(fs) - n + 1 > 1
      BY <1>1, <2>2
    <3>2. \A i \in Len(fs) - n + 1 .. Len(es) : fs[i] = es[i] /\ fs[i - 1] = es[i - 1]
      BY <1>1, <1>2, <2>2
    <3>3. Lock!Due(fs[Len(fs)] - fs[Len(fs) - 1])
      BY <1>1, <1>2
    <3>4. ASSUME NEW i \in Len(fs) - n + 1 .. Len(es)
          PROVE  Lock!Due(es[i] - es[i - 1]) <=> Lock!Due(fs[i] - fs[i - 1])
      BY <3>2
    <3>5. Len(fs) - n + 1 .. Len(fs) = (Len(fs) - n + 1 .. Len(es)) \union {Len(fs)}
      BY <1>1, <2>2
    <3>6. (\A i \in Len(fs) - n + 1 .. Len(es) : Lock!Due(es[i] - es[i - 1]))
          <=> (\A i \in Len(fs) - n + 1 .. Len(es) : Lock!Due(fs[i] - fs[i - 1]))
      BY <3>4, Zenon
    <3>7. (\A i \in Len(fs) - n + 1 .. Len(fs) : Lock!Due(fs[i] - fs[i - 1]))
          <=> (\A i \in Len(fs) - n + 1 .. Len(es) : Lock!Due(fs[i] - fs[i - 1]))
      <4> HIDE DEF fs
      <4> QED
        BY <3>3, <3>5, Zenon
    <3> QED
      BY <3>1, <3>6, <3>7, Zenon
  <2>3. n - 1 < Len(es) <=> n < Len(fs)
    BY <1>1
  <2>4. run + 1 >= n <=> run >= n - 1
    OBVIOUS
  <2>5. InStepOf(es, n - 1) <=> InStepOf(fs, n)
    BY <2>2, <2>3, Zenon DEF InStepOf
  <2> QED
    BY <2>1, <2>4, <2>5
<1> QED
  BY <1>3, <1>4

\* An edge that was not due ends the run.
LEMMA RunEnds ==
    ASSUME NEW es \in Seq(Nat), NEW t \in Nat,
           es = << >> \/ ~Lock!Due(t - es[Len(es)])
    PROVE  RunOf(Append(es, t), 0)
<1> DEFINE fs == Append(es, t)
<1>1. Len(fs) = Len(es) + 1 /\ fs[Len(fs)] = t /\ Len(es) \in Nat
  OBVIOUS
<1> SUFFICES ASSUME NEW n \in Nat \ {0}, InStepOf(fs, n) PROVE FALSE
  BY DEF RunOf
<1>2. Len(es) > 0 /\ Lock!Due(fs[Len(fs)] - fs[Len(fs) - 1])
  BY <1>1 DEF InStepOf
<1>3. fs[Len(fs) - 1] = es[Len(es)]
  BY <1>1, <1>2
<1> QED
  BY <1>1, <1>2, <1>3

\* What the handler counts at an edge is the run that ends with that edge.
LEMMA RunCounts ==
    ASSUME IInv, isr.step = "idle"
    PROVE  Run(now) \in Nat /\ RunOf(Append(edges, now), Run(now))
<1> USE DEF IInv, TypeOK
<1>1. seq > 0 <=> edges # << >>
  BY DEF WriterOK, Storing
<1>2. pulse = WordsOf(LastOf(edges)) /\ RunOf(edges, good)
  BY DEF WriterOK, Storing
<1>3. LastOf(edges) \in Nat
  BY DEF LastOf
<1>4. TimeOf(pulse) = LastOf(edges)
  BY <1>2, <1>3, WordsJoin
<1>5. Lock!Due(now - LastOf(edges)) <=>
        /\ now > TimeOf(pulse)
        /\ \E skip \in 1 .. MaxSkip : Abs(now - TimeOf(pulse) - Period * skip) <= Tolerance
  <2> DEFINE gap == now - LastOf(edges)
  <2>1. gap \in Int /\ (gap > 0 <=> now > TimeOf(pulse))
    BY <1>3, <1>4
  <2>2. Lock!Due(gap) <=>
           gap > 0 /\ \E skip \in 1 .. MaxSkip : Abs(gap - Period * skip) <= Tolerance
    BY <2>1, DueByDistance
  <2>3. gap = now - TimeOf(pulse)
    BY <1>4
  <2> QED
    BY <2>1, <2>2, <2>3, Zenon
<1>6. edges # << >> => LastOf(edges) = edges[Len(edges)]
  BY DEF LastOf
<1>7. CASE edges # << >> /\ Lock!Due(now - LastOf(edges))
  <2>1. Run(now) = good + 1
    BY <1>1, <1>5, <1>7 DEF Run
  <2> QED
    BY <1>2, <1>6, <1>7, <2>1, RunGrows
<1>8. CASE edges = << >> \/ ~Lock!Due(now - LastOf(edges))
  <2>1. Run(now) = 0
    BY <1>1, <1>5, <1>8 DEF Run
  <2> QED
    BY <1>6, <1>8, <2>1, RunEnds
<1> QED
  BY <1>7, <1>8

\* A reader that found seq even and finds it unmoved holds one edge, and
\* answers as the abstract clock does.
LEMMA AnswerIsPhase ==
    ASSUME IInv, reader.step = "end", seq = reader.seq
    PROVE  PhaseLoaded = Lock!Phase(reader.at)
<1> USE DEF IInv, TypeOK
<1>1. seq % 2 = 0 /\ reader.good = good /\ \A w \in Words : reader.pulse[w] = pulse[w]
  BY DEF ReaderOK
<1>2. ~Storing /\ (seq # 0 <=> edges # << >>)
  BY <1>1 DEF WriterOK
<1>3. pulse = WordsOf(LastOf(edges)) /\ RunOf(edges, good)
  BY <1>2 DEF WriterOK
<1>4. TimeOf(reader.pulse) = LastOf(edges) /\ LastOf(edges) \in Nat
  <2>1. LastOf(edges) \in Nat
    BY DEF LastOf
  <2>2. TimeOf(reader.pulse) = TimeOf(pulse)
    BY <1>1 DEF TimeOf, Words
  <2> QED
    BY <1>3, <2>1, <2>2, WordsJoin
<1>5. good >= LockRun <=> Lock!InStep(LockRun)
  BY <1>3, SameRun DEF RunOf
<1>6. Lock!InStep(LockRun) => edges # << >> /\ LastOf(edges) = edges[Len(edges)]
  BY SameRun DEF InStepOf, LastOf
<1> QED
  BY <1>1, <1>2, <1>4, <1>5, <1>6 DEF PhaseLoaded, Lock!Phase, ReaderType

\* A phase is a natural.
LEMMA PhaseTyped == ASSUME TypeOK PROVE PhaseLoaded \in Nat \union {NoPhase}
<1>1. TimeOf(reader.pulse) \in Int
  BY DEF TypeOK, ReaderType, Times, TimeOf, Words
<1> QED
  BY <1>1 DEF TypeOK, ReaderType, PhaseLoaded

-----------------------------------------------------------------------------
(* The inductive invariant. *)

LEMMA ReaderTyped ==
    ASSUME NEW s \in {"idle", "begin"}, NEW at \in Nat, NEW n \in 0 .. Attempts
    PROVE  Reader(s, at, n) \in ReaderType
BY WordsJoin DEF Reader, ReaderType

\* The state keeps its shape.
LEMMA TypeStep == IInv /\ [Next]_vars => TypeOK'
<1> SUFFICES ASSUME IInv, [Next]_vars PROVE TypeOK'
  OBVIOUS
<1> USE DEF IInv, TypeOK, memory
<1>1. CASE Tick
  BY <1>1 DEF Tick
<1>2. CASE OnPulse
  <2>1. Run(now) \in Nat
    BY <1>2, RunCounts DEF OnPulse
  <2>2. isr' \in IsrType
    BY <1>2, <2>1 DEF OnPulse, IsrType
  <2> QED
    BY <1>2, <2>2 DEF OnPulse
<1>3. CASE SeqOdd
  <2>1. isr' \in IsrType
    BY <1>3 DEF SeqOdd, IsrType
  <2> QED
    BY <1>3, <2>1 DEF SeqOdd
<1>4. ASSUME NEW w \in Words, StorePulse(w) PROVE TypeOK'
  <2>1. isr.at \in Nat /\ isr' \in IsrType
    BY <1>4 DEF StorePulse, IsrType
  <2>2. WordsOf(isr.at)[w] \in Nat
    BY <2>1, WordsJoin DEF Times
  <2>3. pulse' \in Times
    BY <1>4, <2>2 DEF StorePulse, Times
  <2> QED
    BY <1>4, <2>1, <2>3 DEF StorePulse
<1>5. CASE StoreGood
  <2>1. isr.run \in Nat /\ isr' \in IsrType
    BY <1>5 DEF StoreGood, IsrType
  <2> QED
    BY <1>5, <2>1 DEF StoreGood
<1>6. CASE SeqEven
  <2>1. isr' \in IsrType
    BY <1>6 DEF SeqEven, IdleIsr, IsrType
  <2>2. isr.at \in Nat
    BY DEF IsrType
  <2>3. edges' \in Seq(Nat)
    BY <1>6, <2>2 DEF SeqEven
  <2> QED
    BY <1>6, <2>1, <2>3 DEF SeqEven
<1>7. CASE Ask
  <2>1. reader' \in ReaderType
    BY <1>7, ReaderTyped DEF Ask
  <2> QED
    BY <1>7, <2>1 DEF Ask
<1>8. ASSUME TryAgain
      PROVE  reader' \in ReaderType /\ answer' \in Nat \union {NoPhase}
  <2>1. reader.at \in Nat /\ reader.attempt \in 0 .. Attempts
    BY DEF ReaderType
  <2>2. CASE reader.attempt = Attempts
    BY <1>8, <2>1, <2>2, ReaderTyped DEF TryAgain, Return
  <2>3. CASE reader.attempt # Attempts
    <3>1. reader.attempt + 1 \in 0 .. Attempts
      BY <2>1, <2>3
    <3> QED
      BY <1>8, <2>1, <2>3, <3>1, ReaderTyped DEF TryAgain
  <2> QED
    BY <2>2, <2>3
<1>9. CASE BeginRead
  <2>1. reader' \in ReaderType /\ answer' \in Nat \union {NoPhase}
    <3>1. CASE NoWriteSeen
      BY <1>9, <3>1 DEF BeginRead, ReaderType
    <3>2. CASE ~NoWriteSeen
      BY <1>8, <1>9, <3>2 DEF BeginRead
    <3> QED
      BY <3>1, <3>2
  <2> QED
    BY <1>9, <2>1 DEF BeginRead
<1>10. ASSUME NEW w \in Words, LoadPulse(w) PROVE TypeOK'
  <2>1. [reader.pulse EXCEPT ![w] = pulse[w]] \in Times
    BY DEF Times, ReaderType
  <2>2. reader' \in ReaderType
    BY <1>10, <2>1 DEF LoadPulse, ReaderType
  <2> QED
    BY <1>10, <2>2 DEF LoadPulse
<1>11. CASE LoadGood
  <2>1. reader' \in ReaderType
    BY <1>11 DEF LoadGood, ReaderType
  <2> QED
    BY <1>11, <2>1 DEF LoadGood
<1>12. CASE EndRead
  <2>1. reader.at \in Nat
    BY DEF ReaderType
  <2>2. reader' \in ReaderType /\ answer' \in Nat \union {NoPhase}
    BY <1>8, <1>12, <2>1, PhaseTyped, ReaderTyped DEF EndRead, Return
  <2> QED
    BY <1>12, <2>2 DEF EndRead
<1>13. CASE UNCHANGED vars
  BY <1>13 DEF vars
<1> QED
  BY <1>1, <1>2, <1>3, <1>4, <1>5, <1>6, <1>7, <1>9, <1>10, <1>11, <1>12, <1>13 DEF Next

\* What the handler has stored stays in step with the edges.
LEMMA WriterStep == IInv /\ [Next]_vars => WriterOK'
<1> SUFFICES ASSUME IInv, [Next]_vars PROVE WriterOK'
  OBVIOUS
<1> USE DEF IInv, TypeOK, IsrType, WriterOK, Storing, memory
<1>1. CASE Tick
  BY <1>1 DEF Tick
<1>2. CASE OnPulse
  BY <1>2, RunCounts DEF OnPulse
<1>3. CASE SeqOdd
  BY <1>3 DEF SeqOdd
<1>4. ASSUME NEW w \in Words, StorePulse(w) PROVE WriterOK'
  BY <1>4 DEF StorePulse, Words, Times, WordsOf
<1>5. CASE StoreGood
  BY <1>5 DEF StoreGood
<1>6. CASE SeqEven
  <2>1. LastOf(edges') = now /\ Len(edges') = Len(edges) + 1
    BY <1>6 DEF SeqEven, LastOf
  <2> QED
    BY <1>6, <2>1 DEF SeqEven, IdleIsr
<1>7. CASE UNCHANGED <<now, memory, isr, edges>>
  BY <1>7
<1>8. CASE UNCHANGED vars
  BY <1>8 DEF vars
<1> QED
  BY <1>1, <1>2, <1>3, <1>4, <1>5, <1>6, <1>7, <1>8
     DEF Next, Ask, BeginRead, LoadPulse, LoadGood, EndRead

\* While the handler stores the counter is odd, and a reader between its two
\* looks at it holds another value.
LEMMA NotWhileStoring ==
    ASSUME IInv, Storing
    PROVE  reader.step \in {"pulse", "good", "end"} => reader.seq # seq
<1>1. Len(edges) \in Nat
  BY DEF IInv, TypeOK
<1>2. seq = 2 * Len(edges) + 1
  BY DEF IInv, WriterOK
<1>3. seq % 2 = 1
  BY <1>1, <1>2
<1> QED
  BY <1>3 DEF IInv, ReaderOK

\* What the reader has loaded is in memory still, for as long as seq stands.
LEMMA ReaderStep == IInv /\ [Next]_vars => ReaderOK'
<1> SUFFICES ASSUME IInv, [Next]_vars PROVE ReaderOK'
  OBVIOUS
<1> USE DEF IInv, ReaderOK, memory
<1>1. CASE Tick
  BY <1>1 DEF Tick
<1>2. CASE OnPulse
  BY <1>2 DEF OnPulse
<1>3. CASE SeqOdd \/ SeqEven
  <2>1. reader' = reader /\ seq' = seq + 1
    BY <1>3 DEF SeqOdd, SeqEven
  <2>2. seq \in Nat /\ reader.seq \in Nat
    BY DEF TypeOK, ReaderType
  <2>3. reader.seq <= seq => reader.seq <= seq' /\ reader.seq # seq'
    BY <2>1, <2>2
  <2> QED
    BY <2>1, <2>3
<1>4. CASE StoreGood \/ \E w \in Words : StorePulse(w)
  <2>1. Storing /\ reader' = reader /\ seq' = seq
    BY <1>4 DEF Storing, StoreGood, StorePulse
  <2>2. reader.step \in {"pulse", "good", "end"} => reader.seq # seq
    BY <2>1, NotWhileStoring
  <2> QED
    BY <2>1, <2>2
<1>5. ASSUME reader'.step \in {"idle", "begin"} PROVE ReaderOK'
  BY <1>5
<1>6. CASE Ask
  BY <1>5, <1>6 DEF Ask, Reader
<1>7. TryAgain => reader'.step \in {"idle", "begin"}
  BY DEF TryAgain, Return, Reader
<1>8. CASE BeginRead
  <2>1. CASE NoWriteSeen
    <3>1. reader \in ReaderType /\ seq \in Nat
      BY DEF TypeOK
    <3>2. reader'.step = "pulse" /\ reader'.seq = seq /\ reader'.todo = Words /\ seq' = seq
      BY <1>8, <2>1, <3>1 DEF BeginRead, ReaderType
    <3> QED
      BY <2>1, <3>1, <3>2 DEF NoWriteSeen
  <2> QED
    BY <1>5, <1>7, <1>8, <2>1 DEF BeginRead
<1>9. ASSUME NEW w \in Words, LoadPulse(w) PROVE ReaderOK'
  BY <1>9 DEF LoadPulse, Words, Times, TypeOK, ReaderType
<1>10. CASE LoadGood
  BY <1>10 DEF LoadGood, TypeOK, ReaderType
<1>11. CASE EndRead
  BY <1>5, <1>7, <1>11 DEF EndRead, Return, Reader
<1>12. CASE UNCHANGED vars
  BY <1>12 DEF vars
<1> QED
  BY <1>1, <1>2, <1>3, <1>4, <1>6, <1>8, <1>9, <1>10, <1>11, <1>12 DEF Next

LEMMA InvInit == Init => IInv
<1> SUFFICES ASSUME Init PROVE IInv
  OBVIOUS
<1>1. WordsOf(0) \in Times
  BY WordsJoin
<1>2. TypeOK
  BY <1>1 DEF Init, TypeOK, IdleIsr, IsrType, Reader, ReaderType
<1>3. RunOf(edges, 0) /\ LastOf(edges) = 0
  BY DEF Init, RunOf, InStepOf, LastOf
<1> QED
  BY <1>2, <1>3 DEF Init, IInv, WriterOK, ReaderOK, Storing, IdleIsr, Reader

\* The inductive invariant holds throughout.
LEMMA Invariant == Spec => []IInv
BY InvInit, TypeStep, WriterStep, ReaderStep, PTL DEF Spec, IInv

\* phaseMs and onPulse keep the state in shape, and phaseMs never tries more
\* than Attempts times.
THEOREM TypeCorrect == Spec => []TypeOK
<1>1. IInv => TypeOK
  BY DEF IInv
<1> QED
  BY <1>1, Invariant, PTL

-----------------------------------------------------------------------------
(* Refinement. *)

\* Every step of the clock is a step of the abstract clock, or none.
LEMMA StepRefines == IInv /\ [Next]_vars => [Lock!Next]_(Lock!vars)
<1> SUFFICES ASSUME IInv, [Next]_vars PROVE [Lock!Next]_(Lock!vars)
  OBVIOUS
<1> USE DEF memory, Lock!vars, Lock!Next
<1>1. CASE Tick
  BY <1>1 DEF Tick, Lock!Tick
<1>2. CASE OnPulse \/ SeqOdd \/ StoreGood \/ \E w \in Words : StorePulse(w)
  BY <1>2 DEF OnPulse, SeqOdd, StoreGood, StorePulse
<1>3. CASE SeqEven
  BY <1>3 DEF SeqEven, Lock!Edge, IInv, WriterOK
<1>4. CASE Ask
  BY <1>4 DEF Ask, Reader, Lock!Ask
<1>5. TryAgain /\ UNCHANGED <<now, memory, isr, edges>> => [Lock!Next]_(Lock!vars)
  BY DEF TryAgain, Return, Reader, Lock!GiveUp
<1>6. CASE BeginRead
  BY <1>5, <1>6 DEF BeginRead, IInv, TypeOK, ReaderType
<1>7. CASE LoadGood \/ \E w \in Words : LoadPulse(w)
  BY <1>7 DEF LoadGood, LoadPulse, IInv, TypeOK, ReaderType
<1>8. CASE EndRead
  BY <1>5, <1>8, AnswerIsPhase DEF EndRead, Return, Reader, Lock!Answer
<1>9. CASE UNCHANGED vars
  BY <1>9 DEF vars
<1> QED
  BY <1>1, <1>2, <1>3, <1>4, <1>6, <1>7, <1>8, <1>9 DEF Next

\* Under every interleaving of the interrupt's stores and the task's loads,
\* phaseMs answers as if it looked at the pin at one instant.
THEOREM ClockIsAtomic == Spec => ImplementsPulseLock
<1>1. Init => Lock!Init
  BY DEF Init, Reader, Lock!Init
<1> QED
  BY <1>1, Invariant, StepRefines, PTL DEF Spec, ImplementsPulseLock, Lock!Spec
=============================================================================

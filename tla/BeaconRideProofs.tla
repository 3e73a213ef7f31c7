----------------------------- MODULE BeaconRideProofs -----------------------------
(***************************************************************************)
(* What the records that a car makes of the beacons it hears can be        *)
(* trusted for.  Of FastRelay: a forward is left out only for cars that    *)
(* did hear the origin, or the relayer.  Of Reference: no route is longer  *)
(* than the cap, and a reference that has gone is named by nobody after as *)
(* many lapses as the cap has hops.  Proved for any number of cars, seats, *)
(* slots, maps and windows, whatever is lost, whichever links die and      *)
(* whoever moves, leaves or restarts.                                      *)
(*                                                                         *)
(* In FastRelay the argument goes back from a verdict to the air.  A bit   *)
(* of the latest map, or of the one before, says how long ago at most the  *)
(* reporter heard the origin (Latest, Previous), since the map was made    *)
(* from what it had heard (HearsKnown).  And every car that the judge has  *)
(* heard lately is asked: it is on the roster, or its record is as young   *)
(* but for the spacing of maps, or its seat was taken and no forward is    *)
(* skipped for a lease (Listed).                                           *)
(*                                                                         *)
(* Where the air is clean, nothing is lost and nobody moves, it goes the   *)
(* other way, from the air to the verdict: the first beacon of a car puts  *)
(* it on every list, the second is counted, and every map made since shows *)
(* all the others, so that with room for all no forward is sent for want   *)
(* of evidence (Kept).                                                     *)
(*                                                                         *)
(* In Reference word of a car travels from roster to roster, one hop       *)
(* further each time, and lapses in each of them.  A word of h hops is     *)
(* therefore no further behind than h lapses (Told), whoever passed it on, *)
(* and one of as many hops as the cap is passed on no more.                *)
(***************************************************************************)
EXTENDS FastRelay, Reference, FiniteSetTheorems, SequenceTheorems, WellFoundedInduction, TLAPS

LEMMA Wellordered == \A T \in SUBSET Nat : T # {} => \E x \in T : \A y \in T : x <= y
<1> SUFFICES ASSUME NEW T \in SUBSET Nat, NEW t \in T PROVE \E x \in T : \A y \in T : x <= y
  OBVIOUS
<1> DEFINE W == {S \in SUBSET (0 .. t) : \E x \in T : S = 0 .. x}
           R == StrictSubsetOrdering(0 .. t)
<1>1. W \subseteq FiniteSubsetsOf(0 .. t)
  BY FS_Interval, FS_FiniteSubsetsOfFinite
<1>2. 0 .. t \in W
  OBVIOUS
<1>3. IsWellFoundedOn(R, FiniteSubsetsOf(0 .. t))
  BY FS_StrictSubsetOrderingWellFounded
<1>4. PICK S \in W : \A U \in W : ~(<<U, S>> \in R)
  <2> HIDE DEF R, W
  <2> QED BY <1>1, <1>2, <1>3, WFMin
<1>5. PICK x \in T : S = 0 .. x
  OBVIOUS
<1>6. ASSUME NEW y \in T, y < x PROVE FALSE
  <2>1. 0 .. y \subseteq 0 .. x /\ 0 .. y # 0 .. x
    BY <1>6
  <2>2. 0 .. y \in W
    BY <2>1, <1>5
  <2> QED BY <2>1, <2>2, <1>4, <1>5 DEF StrictSubsetOrdering
<1> QED BY <1>6

-----------------------------------------------------------------------------
(* The inductive invariant.                                                *)

HeardStates == [by : Senders \union {NoCar}, ago : 0 .. Window]
RecordStates == [slot : Slots \union {NoSlot, NoCar}, ago : 0 .. OnRideFor, gap : 0 .. NoGap]
RelayRiderStates == [slot : Slots \union {NoSlot, NoCar}, ago : 0 .. StaleAfter + 1]
Bits == [1 .. Maps -> BOOLEAN]

RelayShape ==
    /\ scene \in Scenes /\ phase \in Slots /\ due \subseteq Senders
    /\ slotOf \in [Senders -> Slots \union {NoSlot}]
    /\ hears \in [Senders -> [Slots -> HeardStates]]
    /\ heardAgo \in [Senders \union {Judge} -> [Senders -> 0 .. Long]]
    /\ losses \in 0 .. Losses[scene] /\ crowded \in 0 .. OnRideFor

Lists ==
    /\ record \in [Senders -> RecordStates] /\ riders \in [Senders -> RelayRiderStates]
    /\ shown \in [Senders -> [Senders -> Bits]]
    /\ Cardinality({c \in Senders : record[c] # NoRecord}) <= RecordSeats[scene]
    /\ Cardinality({c \in Senders : riders[c] # NoRider}) <= RosterSeats[scene]

\* A car of no slot has no seat, and nothing is said by anybody about it.
Blanks ==
    \A b \in Senders : record[b].slot = NoCar =>
        record[b] = NoRecord /\ \A a \in Senders : shown[a][b] = NeverShown

\* A car files what it has heard, and when.
HearsKnown ==
    \A n, c \in Senders : \A s \in Slots :
        hears[n][s].by = c => heardAgo[n][c] <= hears[n][s].ago

\* The latest map says what its sender had heard in the window before it,
Latest ==
    \A k \in Senders : \A o \in Senders \ {k} :
        shown[k][o][1] /\ record[k].ago < FreshFor => heardAgo[k][o] < Window + record[k].ago

\* and so does the one before, if the gap between them is known.
Previous ==
    \A k \in Senders : \A o \in Senders \ {k} :
        shown[k][o][2] /\ record[k].gap # NoGap /\ record[k].ago + record[k].gap < FreshFor =>
            heardAgo[k][o] < Window + record[k].ago + record[k].gap

\* A car heard lately is on the roster, or in the record, or no forward is
\* skipped since its seat was taken.
Listed ==
    \A k \in Senders :
        /\ riders[k] # NoRider =>
              riders[k].ago <= heardAgo[Judge][k] \/ heardAgo[Judge][k] >= OnRideFor
        /\ heardAgo[Judge][k] + Second <= OnRideFor =>
              record[k].ago < heardAgo[Judge][k] + Second \/ crowded <= heardAgo[Judge][k]

RelayIInv == RelayShape /\ Lists /\ Blanks /\ HearsKnown /\ Latest /\ Previous /\ Listed

-----------------------------------------------------------------------------
(* Numbers and the empty states.                                           *)

LEMMA RelayNumbers ==
    /\ {Second, Window, FreshFor, OnRideFor, StaleAfter} \subseteq Nat \ {0}
    /\ Maps \in Nat /\ Maps > 1
    /\ FreshFor < OnRideFor /\ OnRideFor <= StaleAfter
    /\ Long \in Nat /\ Long >= OnRideFor /\ Evidence = FreshFor + Window
    /\ NoGap = FreshFor /\ Second < NoCar /\ NoCar \in Nat
<1>1. /\ {Second, Window, FreshFor, OnRideFor, StaleAfter, Maps} \subseteq Nat \ {0}
      /\ FreshFor < OnRideFor /\ OnRideFor <= StaleAfter /\ Maps > 1 /\ Second < NoCar
  BY FastRelayAssumption
<1>2. NoCar \in Nat
  BY DEF NoCar
<1> QED BY <1>1, <1>2 DEF Long, Evidence, NoGap

LEMMA SenderFacts ==
    /\ Senders \subseteq Nat /\ IsFiniteSet(Senders) /\ NoCar \notin Senders /\ Judge \notin Senders
    /\ \A s \in Scenes :
          /\ FirstSlots[s] \in [Senders -> Slots \union {NoSlot}]
          /\ Losses[s] \in Nat /\ RecordSeats[s] \in Nat \ {0} /\ RosterSeats[s] \in Nat
BY FastRelayAssumption

\* A car with a seat says a slot; one without says none.
LEMMA Empties ==
    /\ NothingHeard \in HeardStates /\ NoRecord \in RecordStates /\ NoRider \in RelayRiderStates
    /\ NeverShown \in Bits /\ \A i \in 1 .. Maps : ~NeverShown[i]
    /\ NoRecord.ago = OnRideFor /\ NoRecord.slot = NoCar /\ NoRider.slot = NoCar
    /\ NothingHeard.by = NoCar
    /\ NoCar \notin Slots \union {NoSlot}
<1>1. NoCar \notin Slots \union {NoSlot}
  BY RelayNumbers DEF Slots, NoSlot
<1>2. 0 .. NoGap = 0 .. FreshFor /\ FreshFor \in 0 .. FreshFor
  BY RelayNumbers
<1>3. NoRecord \in RecordStates /\ NoRecord.ago = OnRideFor /\ NoRecord.slot = NoCar
  BY <1>2, RelayNumbers DEF NoRecord, RecordStates
<1>4. NothingHeard \in HeardStates /\ NothingHeard.by = NoCar
  BY RelayNumbers DEF NothingHeard, HeardStates
<1>5. NoRider \in RelayRiderStates /\ NoRider.slot = NoCar
  BY RelayNumbers DEF NoRider, RelayRiderStates
<1>6. NeverShown \in Bits /\ \A i \in 1 .. Maps : ~NeverShown[i]
  BY DEF NeverShown, Bits
<1> QED BY <1>1, <1>3, <1>4, <1>5, <1>6

\* Of any cars one was heard longest ago, the first of those.
LEMMA Oldest ==
    ASSUME NEW T \in SUBSET Senders, T # {}, NEW top \in Nat,
           NEW f, \A c \in T : f[c] \in 0 .. top
    PROVE  \E c \in T : \A d \in T \ {c} : f[c] > f[d] \/ (f[c] = f[d] /\ c < d)
<1>1. \A c \in T : top - f[c] \in Nat /\ f[c] \in Nat
  OBVIOUS
<1> DEFINE since == {top - f[c] : c \in T}
<1>2. since \in SUBSET Nat /\ since # {}
  BY <1>1
<1>3. PICK m \in since : \A x \in since : m <= x
  <2> HIDE DEF since
  <2> QED BY <1>2, Wellordered
<1> DEFINE first == {c \in T : top - f[c] = m}
<1>4. first \in SUBSET Nat /\ first # {}
  BY SenderFacts
<1>5. PICK c \in first : \A d \in first : c <= d
  <2> HIDE DEF first
  <2> QED BY <1>4, Wellordered
<1>6. c \in T /\ top - f[c] = m /\ c \in Nat
  BY SenderFacts
<1>7. ASSUME NEW d \in T \ {c} PROVE f[c] > f[d] \/ (f[c] = f[d] /\ c < d)
  <2>1. top - f[d] \in since /\ d \in Nat
    BY SenderFacts
  <2>2. m <= top - f[d]
    BY <1>3, <2>1
  <2>3. f[c] \in Nat /\ f[d] \in Nat /\ top - f[c] = m
    BY <1>1, <1>6
  <2>4. top - f[d] = m => c <= d
    BY <1>5
  <2> DEFINE fc == f[c]
             fd == f[d]
  <2>5. fc \in Nat /\ fd \in Nat /\ top - fc = m /\ m <= top - fd /\ (top - fd = m => c <= d)
    BY <2>2, <2>3, <2>4
  <2> HIDE DEF fc, fd, first, since
  <2>6. fc > fd \/ (fc = fd /\ c < d)
    BY <1>6, <2>1, <2>5
  <2> QED BY <2>6 DEF fc, fd
<1> QED BY <1>6, <1>7

\* The seats after one is given up for n, if there was none left.
LEMMA Seats ==
    ASSUME NEW taken \in SUBSET Senders, NEW out \in SUBSET Senders, NEW n \in Senders, NEW limit \in Nat,
           NEW now \in SUBSET Senders, now \subseteq (taken \ out) \union {n},
           Cardinality(taken) <= limit,
           n \in taken \/ Cardinality(taken) < limit \/ (\E c \in taken : out = {c} )
    PROVE  Cardinality(now) <= limit
<1>1. IsFiniteSet(taken) /\ IsFiniteSet(now) /\ Cardinality(taken) \in Nat /\ Cardinality(now) \in Nat
  BY SenderFacts, FS_Subset, FS_CardinalityType
<1>2. CASE n \in taken
  <2>1. now \subseteq taken
    BY <1>2
  <2> QED BY <1>1, <2>1, FS_Subset
<1>3. CASE Cardinality(taken) < limit
  <2>1. now \subseteq taken \union {n}
    OBVIOUS
  <2>2. IsFiniteSet(taken \union {n}) /\ Cardinality(taken \union {n}) <= Cardinality(taken) + 1
    BY <1>1, FS_AddElement
  <2>3. Cardinality(taken \union {n}) \in Nat /\ Cardinality(now) <= Cardinality(taken \union {n})
    BY <2>1, <2>2, FS_Subset, FS_CardinalityType
  <2> QED BY <1>1, <1>3, <2>2, <2>3
<1>4. CASE n \notin taken /\ \E c \in taken : out = {c}
  <2>1. PICK c \in taken : out = {c}
    BY <1>4
  <2> DEFINE rest == taken \ {c}
  <2>2. IsFiniteSet(rest) /\ Cardinality(rest) = Cardinality(taken) - 1
    BY <1>1, FS_RemoveElement
  <2>6. n \notin rest
    BY <1>4
  <2> HIDE DEF rest
  <2>7. Cardinality(rest) \in Nat
    BY <2>2, FS_CardinalityType
  <2>3. IsFiniteSet(rest \union {n}) /\ Cardinality(rest \union {n}) <= Cardinality(rest) + 1
    <3>1. /\ IsFiniteSet(rest \union {n})
          /\ Cardinality(rest \union {n}) = Cardinality(rest) + 1
      BY <2>2, <2>6, FS_AddElement
    <3> QED BY <2>7, <3>1
  <2>4. now \subseteq rest \union {n}
    BY <2>1 DEF rest
  <2>5. Cardinality(rest \union {n}) \in Nat /\ Cardinality(now) <= Cardinality(rest \union {n})
    BY <2>3, <2>4, FS_Subset, FS_CardinalityType
  <2> QED BY <1>1, <2>2, <2>3, <2>5
<1> QED BY <1>2, <1>3, <1>4

-----------------------------------------------------------------------------
(* What a map does to the record.                                          *)

LEMMA Shifts ==
    ASSUME NEW bits \in Bits, NEW bit \in BOOLEAN
    PROVE  /\ Shifted(bits, bit) \in Bits
           /\ Shifted(bits, bit)[1] = bit /\ Shifted(bits, bit)[2] = bits[1]
<1>1. Maps \in Nat /\ Maps > 1
  BY RelayNumbers
<1>2. bits \in Seq(BOOLEAN) /\ Len(bits) = Maps
  BY <1>1 DEF Bits
<1> DEFINE rest == SubSeq(bits, 1, Maps - 1)
<1>3. rest \in Seq(BOOLEAN) /\ Len(rest) = Maps - 1 /\ rest[1] = bits[1]
  BY <1>1, <1>2
<1> HIDE DEF rest
<1>4. <<bit>> \o rest \in Seq(BOOLEAN) /\ Len(<<bit>> \o rest) = Maps
  BY <1>1, <1>3
<1>5. (<<bit>> \o rest)[1] = bit /\ (<<bit>> \o rest)[2] = rest[1]
  BY <1>1, <1>3
<1>6. DOMAIN (<<bit>> \o rest) = 1 .. Maps
  BY <1>4
<1>7. <<bit>> \o rest \in Bits
  <2> DEFINE all == <<bit>> \o rest
  <2>1. all \in Seq(BOOLEAN) /\ Len(all) = Maps
    BY <1>4
  <2> HIDE DEF all
  <2>2. all \in [1 .. Len(all) -> BOOLEAN]
    BY <2>1
  <2> QED BY <2>1, <2>2 DEF Bits, all
<1> QED BY <1>3, <1>5, <1>7 DEF Shifted, rest

\* The car that loses its seat, if one does, was heard longest ago.
LEMMA Evicting ==
    ASSUME Lists, scene \in Scenes
    PROVE  LET taken == {c \in Senders : record[c] # NoRecord} IN
           /\ Evicted \in SUBSET taken
           /\ Cardinality(taken) < RecordSeats[scene] \/ \E c \in taken : Evicted = {c}
<1> DEFINE taken == {c \in Senders : record[c] # NoRecord}
           f == [c \in Senders |-> record[c].ago]
           Last(c) == \A d \in taken \ {c} :
               record[c].ago > record[d].ago \/ (record[c].ago = record[d].ago /\ c < d)
<1>1. taken = {c \in Senders : Seated(c)}
  BY DEF Seated
<1>2. CASE Cardinality(taken) < RecordSeats[scene]
  BY <1>1, <1>2 DEF Evicted
<1>3. CASE ~(Cardinality(taken) < RecordSeats[scene])
  <2>1. taken # {}
    <3> SUFFICES ASSUME taken = {} PROVE FALSE
      OBVIOUS
    <3>1. Cardinality(taken) = 0
      BY FS_EmptySet
    <3> QED BY <1>3, <3>1, SenderFacts
  <2>2. Evicted = {CHOOSE c \in taken : Last(c)}
    BY <1>1, <1>3 DEF Evicted
  <2>3. \E c \in taken : Last(c)
    <3>1. \A c \in taken : f[c] \in 0 .. OnRideFor
      BY DEF Lists, RecordStates
    <3>2. OnRideFor \in Nat /\ taken \in SUBSET Senders
      BY RelayNumbers
    <3> HIDE DEF f, taken
    <3>3. PICK c \in taken : \A d \in taken \ {c} : f[c] > f[d] \/ (f[c] = f[d] /\ c < d)
      BY <2>1, <3>1, <3>2, Oldest
    <3>4. \A d \in taken : f[d] = record[d].ago
      BY <3>2 DEF f
    <3> QED BY <3>3, <3>4
  <2>4. (CHOOSE c \in taken : Last(c)) \in taken
    <3> HIDE DEF taken, Last
    <3> QED BY <2>3
  <2> QED BY <2>2, <2>4
<1> QED BY <1>2, <1>3

\* A map that counts is the newest; nobody else's are touched, but for the
\* cars that lose their seat, and then no forward is skipped for a lease.
MapKept(n, slot) ==
    /\ record \in [Senders -> RecordStates]
    /\ UNCHANGED <<record, shown, crowded>>
    /\ record[n].ago < Second /\ record[n].slot = slot

MapTaken(n, slot, map) ==
    /\ record'[n].ago = 0 /\ record'[n].slot = slot
    /\ crowded' \in {0, crowded}
    /\ \A k \in Senders \ {n} :
          \/ record'[k] = record[k]
          \/ record'[k] = NoRecord /\ (crowded' = 0 \/ record[k].ago = OnRideFor)
    /\ \A k \in Senders \ {n}, o \in Senders : shown'[k][o] \in {shown[k][o], NeverShown}
    /\ \A o \in Senders \ {n} :
          /\ shown'[n][o][1] => \E s \in Slots : map[s] = o
          /\ shown'[n][o][2] /\ record'[n].gap # NoGap =>
                shown[n][o][1] /\ record'[n].gap = record[n].ago

LEMMA HeardMapTakes ==
    ASSUME Lists, Blanks, scene \in Scenes, crowded \in 0 .. OnRideFor, NEW n \in Senders,
           NEW slot \in Slots \union {NoSlot}, NEW map, HeardMap(n, slot, map)
    PROVE  /\ record' \in [Senders -> RecordStates] /\ shown' \in [Senders -> [Senders -> Bits]]
           /\ Cardinality({c \in Senders : record'[c] # NoRecord}) <= RecordSeats[scene]
           /\ Blanks' /\ crowded' \in 0 .. OnRideFor
           /\ MapKept(n, slot) \/ MapTaken(n, slot, map)
<1> DEFINE gap == record[n].ago
           new == ~Seated(n)
           moved == Seated(n) /\ record[n].slot # slot
           same == Seated(n) /\ record[n].slot = slot
           out == IF new THEN Evicted ELSE {}
           blank == IF new \/ moved THEN out \union {n} ELSE out
           seated == {t \in Senders : Seated(t)} \ out
           kept(a, b) == IF a \in blank \/ b \in blank \/ (a = n /\ gap >= Maps * Second)
                         THEN NeverShown ELSE shown[a][b]
           shows(t) == record[t].slot \in Slots /\ map[record[t].slot] = t
           taken == {c \in Senders : record[c] # NoRecord}
<1>0. /\ record \in [Senders -> RecordStates] /\ shown \in [Senders -> [Senders -> Bits]]
      /\ Cardinality(taken) <= RecordSeats[scene] /\ RecordSeats[scene] \in Nat
  BY SenderFacts DEF Lists
<1>1. CASE same /\ ~Spaced(gap)
  <2>1. UNCHANGED <<record, shown, crowded>>
    BY <1>1 DEF HeardMap
  <2>2. gap < Second
    <3>1. gap \in 0 .. OnRideFor
      BY <1>0 DEF RecordStates
    <3> QED BY <1>1, <3>1, RelayNumbers DEF Spaced
  <2>3. MapKept(n, slot)
    BY <1>0, <1>1, <2>1, <2>2 DEF MapKept
  <2> QED BY <1>0, <2>1, <2>3 DEF Blanks
<1>2. CASE ~(same /\ ~Spaced(gap))
  <2>1. /\ record' = [c \in Senders |->
                 IF c = n THEN [slot |-> slot, ago |-> 0,
                                gap |-> IF same THEN Least(gap, NoGap) ELSE NoGap]
                 ELSE IF c \in out THEN NoRecord ELSE record[c]]
        /\ shown' = [a \in Senders |-> [b \in Senders |->
                 IF a = n /\ b \in seated \ {n} THEN Shifted(kept(a, b), shows(b)) ELSE kept(a, b)]]
        /\ crowded' = IF \E c \in out : record[c].ago < OnRideFor THEN 0 ELSE crowded
    BY <1>2 DEF HeardMap
  <2>2. out \in SUBSET taken /\ n \notin out
    <3>1. CASE new
      <4>1. Evicted \in SUBSET taken
        BY Evicting
      <4> QED BY <3>1, <4>1 DEF Seated
    <3>2. CASE ~new
      BY <3>2
    <3> QED BY <3>1, <3>2
  <2>3. n \in taken \/ Cardinality(taken) < RecordSeats[scene] \/ \E c \in taken : out = {c}
    <3>1. CASE new
      BY <3>1, Evicting
    <3>2. CASE ~new
      BY <3>2 DEF Seated
    <3> QED BY <3>1, <3>2
  <2>4. (IF same THEN Least(gap, NoGap) ELSE NoGap) \in 0 .. NoGap
    <3>1. gap \in 0 .. OnRideFor /\ NoGap \in Nat
      BY <1>0, RelayNumbers DEF RecordStates
    <3> QED BY <3>1 DEF Least
  <2>5. record' \in [Senders -> RecordStates]
    <3>1. [slot |-> slot, ago |-> 0, gap |-> IF same THEN Least(gap, NoGap) ELSE NoGap] \in RecordStates
      BY <2>4, RelayNumbers DEF RecordStates
    <3> HIDE DEF same, gap, out
    <3> QED BY <1>0, <2>1, <3>1, Empties
  <2>6. seated \ {n} \subseteq Senders
    OBVIOUS
  <2> DEFINE reset(a, b) == a \in blank \/ b \in blank \/ (a = n /\ gap >= Maps * Second)
  <2>7. ASSUME NEW a \in Senders, NEW b \in Senders
        PROVE  /\ kept(a, b) \in Bits /\ kept(a, b) \in {shown[a][b], NeverShown}
               /\ kept(a, b)[1] => kept(a, b) = shown[a][b] /\ ~(a \in blank)
    <3>1. shown[a][b] \in Bits /\ NeverShown \in Bits /\ ~NeverShown[1]
      BY <1>0, Empties, RelayNumbers
    <3> HIDE DEF blank, gap
    <3> QED BY <3>1
  <2>8. \A b \in Senders : shows(b) \in BOOLEAN /\ (shows(b) => \E s \in Slots : map[s] = b)
    OBVIOUS
  <2>9. ASSUME NEW a \in Senders, NEW b \in Senders
        PROVE  shown'[a][b] = IF a = n /\ b \in seated \ {n} THEN Shifted(kept(a, b), shows(b))
                              ELSE kept(a, b)
    <3> HIDE DEF kept, shows, seated
    <3> QED BY <2>1
  <2>10. ASSUME NEW c \in Senders
         PROVE  record'[c] = IF c = n THEN [slot |-> slot, ago |-> 0,
                                            gap |-> IF same THEN Least(gap, NoGap) ELSE NoGap]
                             ELSE IF c \in out THEN NoRecord ELSE record[c]
    <3> HIDE DEF same, gap, out
    <3> QED BY <2>1
  <2>11. n \in blank <=> new \/ moved
    BY <2>2
  <2>12. blank = IF new \/ moved THEN out \union {n} ELSE out
    OBVIOUS
  <2>13. taken = {t \in Senders : Seated(t)}
    BY DEF Seated
  <2>14. seated = taken \ out
    BY <2>13
  <2> HIDE DEF kept, shows, seated, blank, out
  <2>15. shown' \in [Senders -> [Senders -> Bits]]
    <3>1. \A a, b \in Senders : (IF a = n /\ b \in seated \ {n} THEN Shifted(kept(a, b), shows(b))
                                 ELSE kept(a, b)) \in Bits
      BY <2>7, <2>8, Shifts
    <3> QED BY <2>1, <3>1
  <2>16. Cardinality({c \in Senders : record'[c] # NoRecord}) <= RecordSeats[scene]
    <3> DEFINE now == {c \in Senders : record'[c] # NoRecord}
    <3>1. now \subseteq (taken \ out) \union {n}
      BY <2>10
    <3>2. now \in SUBSET Senders /\ taken \in SUBSET Senders /\ out \in SUBSET Senders
      BY <2>2
    <3> HIDE DEF now, taken
    <3>3. Cardinality(now) <= RecordSeats[scene]
      BY <1>0, <2>3, <3>1, <3>2, Seats
    <3> QED BY <3>3 DEF now
  <2>18. Blanks'
    <3> SUFFICES ASSUME NEW b \in Senders, record'[b].slot = NoCar
                 PROVE  record'[b] = NoRecord /\ \A a \in Senders : shown'[a][b] = NeverShown
      BY DEF Blanks
    <3>1. b # n
      BY <2>10, Empties
    <3>2. CASE b \in out
      <4>1. b \in blank /\ b \notin seated
        BY <2>12, <2>14, <3>2
      <4>2. \A a \in Senders : kept(a, b) = NeverShown
        BY <4>1 DEF kept
      <4> QED BY <2>9, <2>10, <3>1, <3>2, <4>1, <4>2
    <3>3. CASE b \notin out
      <4>1. record'[b] = record[b]
        BY <2>10, <3>1, <3>3
      <4>2. record[b] = NoRecord /\ \A a \in Senders : shown[a][b] = NeverShown
        BY <3>1, <4>1 DEF Blanks
      <4>3. b \notin seated
        BY <2>14, <4>2
      <4>4. \A a \in Senders : kept(a, b) = NeverShown
        BY <2>7, <4>2
      <4> QED BY <2>9, <4>1, <4>2, <4>3, <4>4
    <3> QED BY <3>2, <3>3
  <2>19. crowded' \in {0, crowded} /\ crowded' \in 0 .. OnRideFor
    BY <2>1, RelayNumbers
  <2>20. \A k \in Senders \ {n} :
          \/ record'[k] = record[k]
          \/ record'[k] = NoRecord /\ (crowded' = 0 \/ record[k].ago = OnRideFor)
    <3> SUFFICES ASSUME NEW k \in Senders \ {n}, k \in out
                 PROVE  crowded' = 0 \/ record[k].ago = OnRideFor
      BY <2>10
    <3>1. record[k].ago \in 0 .. OnRideFor
      BY <1>0 DEF RecordStates
    <3>2. crowded' = 0 \/ ~(record[k].ago < OnRideFor)
      BY <2>1
    <3> QED BY <3>1, <3>2, RelayNumbers
  <2>21. \A k \in Senders \ {n}, o \in Senders : shown'[k][o] \in {shown[k][o], NeverShown}
    BY <2>7, <2>9
  <2>22. ASSUME NEW o \in Senders \ {n}
         PROVE  /\ shown'[n][o][1] => \E s \in Slots : map[s] = o
                /\ shown'[n][o][2] /\ record'[n].gap # NoGap =>
                      shown[n][o][1] /\ record'[n].gap = record[n].ago
    <3>1. CASE o \in seated
      <4>1. shown'[n][o] = Shifted(kept(n, o), shows(o))
        BY <2>9, <3>1
      <4>2. shown'[n][o][1] = shows(o) /\ shown'[n][o][2] = kept(n, o)[1]
        BY <2>7, <2>8, <4>1, Shifts
      <4>3. kept(n, o)[1] => shown[n][o][1] /\ same
        BY <2>7, <2>11
      <4>4. same /\ record'[n].gap # NoGap => record'[n].gap = record[n].ago
        BY <2>10 DEF Least
      <4> QED BY <2>8, <4>2, <4>3, <4>4
    <3>2. CASE o \notin seated
      <4>1. shown'[n][o] = kept(n, o)
        BY <2>9, <3>2
      <4>2. kept(n, o) = NeverShown
        <5>1. CASE o \in out
          BY <2>12, <5>1 DEF kept
        <5>2. CASE o \notin out
          BY <2>7, <2>14, <3>2, <5>2, Empties DEF Blanks
        <5> QED BY <5>1, <5>2
      <4> QED BY <4>1, <4>2, Empties, RelayNumbers
    <3> QED BY <3>1, <3>2
  <2>23. record'[n].ago = 0 /\ record'[n].slot = slot
    BY <2>10
  <2>24. MapTaken(n, slot, map)
    BY <2>19, <2>20, <2>21, <2>22, <2>23 DEF MapTaken
  <2> QED BY <2>5, <2>15, <2>16, <2>18, <2>19, <2>24
<1> QED BY <1>1, <1>2

\* A car that is noted is as new as can be; the others stay, or lose the seat.
LEMMA NoteTakes ==
    ASSUME Lists, scene \in Scenes, NEW n \in Senders, NEW slot \in Slots \union {NoSlot},
           Note(n, slot)
    PROVE  /\ riders' \in [Senders -> RelayRiderStates]
           /\ Cardinality({c \in Senders : riders'[c] # NoRider}) <= RosterSeats[scene]
           /\ riders'[n] # NoRider => riders'[n].ago = 0
           /\ \A k \in Senders \ {n} : riders'[k] \in {riders[k], NoRider}
<1> DEFINE taken == {c \in Senders : OnRoster(c)}
           stale == {c \in taken : riders[c].ago > StaleAfter}
           Last(c) == \A d \in stale : riders[d].ago <= riders[c].ago
           oldest == {CHOOSE c \in stale : Last(c)}
           full == Cardinality(taken) >= RosterSeats[scene]
           out == IF OnRoster(n) \/ ~full \/ stale = {} THEN {} ELSE oldest
           enters == OnRoster(n) \/ ~full \/ out # {}
           now == {c \in Senders : riders'[c] # NoRider}
<1>0. /\ riders \in [Senders -> RelayRiderStates] /\ Cardinality(taken) <= RosterSeats[scene]
      /\ RosterSeats[scene] \in Nat
  BY SenderFacts DEF Lists, OnRoster
<1>1. riders' = [c \in Senders |->
         IF c = n /\ enters THEN [slot |-> slot, ago |-> 0]
         ELSE IF c \in out THEN NoRider ELSE riders[c]]
  BY DEF Note
<1>2. out = {} \/ \E c \in taken : out = {c} /\ n \notin out
  <2>1. CASE out # {}
    <3>1. out = oldest /\ stale # {} /\ n \notin taken
      BY <2>1
    <3>2. \E c \in stale : Last(c)
      <4> DEFINE f == [c \in Senders |-> riders[c].ago]
      <4>1. \A c \in stale : f[c] \in 0 .. StaleAfter + 1 /\ f[c] = riders[c].ago
        BY <1>0 DEF RelayRiderStates
      <4> DEFINE top == StaleAfter + 1
      <4>2. top \in Nat /\ stale \in SUBSET Senders
        BY RelayNumbers
      <4>5. \A c \in stale : f[c] \in 0 .. top
        BY <4>1
      <4> HIDE DEF f, stale, top
      <4>3. PICK c \in stale : \A d \in stale \ {c} : f[c] > f[d] \/ (f[c] = f[d] /\ c < d)
        BY <3>1, <4>2, <4>5, Oldest
      <4>4. ASSUME NEW d \in stale PROVE f[d] <= f[c]
        <5>1. f[d] \in 0 .. top /\ f[c] \in 0 .. top
          BY <4>5
        <5> QED BY <4>2, <4>3, <5>1
      <4> QED BY <4>1, <4>4
    <3>3. (CHOOSE c \in stale : Last(c)) \in stale
      <4> HIDE DEF stale, Last
      <4> QED BY <3>2
    <3>4. stale \subseteq taken
      OBVIOUS
    <3> QED BY <3>1, <3>3, <3>4
  <2> QED BY <2>1
<1>3. full <=> ~(Cardinality(taken) < RosterSeats[scene])
  <2>1. IsFiniteSet(taken)
    BY SenderFacts, FS_Subset
  <2> HIDE DEF taken
  <2>2. Cardinality(taken) \in Nat
    BY <2>1, FS_CardinalityType
  <2> QED BY <1>0, <2>2
<1>4. enters => n \in taken \/ Cardinality(taken) < RosterSeats[scene] \/ \E c \in taken : out = {c}
  BY <1>2, <1>3
<1>5. n \in taken => enters
  OBVIOUS
<1>6. taken = {c \in Senders : riders[c] # NoRider} /\ taken \in SUBSET Senders
  BY DEF OnRoster
<1> HIDE DEF out, enters
<1>7. riders' \in [Senders -> RelayRiderStates]
  <2>1. [slot |-> slot, ago |-> 0] \in RelayRiderStates
    BY RelayNumbers DEF RelayRiderStates
  <2> QED BY <1>0, <1>1, <2>1, Empties
<1>8. ASSUME NEW k \in Senders
      PROVE  riders'[k] = IF k = n /\ enters THEN [slot |-> slot, ago |-> 0]
                          ELSE IF k \in out THEN NoRider ELSE riders[k]
  BY <1>1
<1>9. riders'[n] # NoRider => riders'[n].ago = 0
  BY <1>5, <1>6, <1>8
<1>10. \A k \in Senders \ {n} : riders'[k] \in {riders[k], NoRider}
  BY <1>8
<1>11. Cardinality(now) <= RosterSeats[scene]
  <2>1. now \subseteq taken \/ (enters /\ now \subseteq (taken \ out) \union {n})
    BY <1>6, <1>8
  <2>2. now \in SUBSET Senders /\ out \in SUBSET Senders
    BY <1>2, <1>6
  <2> HIDE DEF now, taken
  <2>3. CASE now \subseteq taken
    <3>1. IsFiniteSet(taken)
      BY <1>6, SenderFacts, FS_Subset
    <3>2. Cardinality(now) <= Cardinality(taken) /\ Cardinality(taken) \in Nat /\ Cardinality(now) \in Nat
      BY <2>3, <3>1, FS_Subset, FS_CardinalityType
    <3> QED BY <1>0, <3>2
  <2>4. CASE enters /\ now \subseteq (taken \ out) \union {n}
    BY <1>0, <1>4, <1>6, <2>2, <2>4, Seats
  <2> QED BY <2>1, <2>3, <2>4
<1> QED BY <1>7, <1>9, <1>10, <1>11 DEF now

-----------------------------------------------------------------------------
(* The steps.                                                              *)

LEMMA SendStep ==
    ASSUME RelayIInv, NEW c \in Senders, SendBeacon(c)
    PROVE  RelayIInv'
<1>0. /\ scene \in Scenes /\ slotOf[c] \in Slots \union {NoSlot} /\ crowded \in 0 .. OnRideFor
      /\ heardAgo \in [Senders \union {Judge} -> [Senders -> 0 .. Long]]
      /\ hears \in [Senders -> [Slots -> HeardStates]]
  BY DEF RelayIInv, RelayShape
<1>1. PICK missed \in SUBSET {d \in Senders \union {Judge} : <<c, d>> \in Lossy[scene] \ dead} :
        LET hearers == {d \in (Senders \union {Judge}) \ {c} : <<c, d>> \notin dead} \ missed IN
        /\ losses + Cardinality(missed) <= Losses[scene]
        /\ losses' = losses + Cardinality(missed)
        /\ hears' = [d \in Senders |-> [s \in Slots |->
             IF d \in hearers /\ s = slotOf[c] THEN [by |-> c, ago |-> 0] ELSE hears[d][s]]]
        /\ heardAgo' = [d \in Senders \union {Judge} |->
             IF d \in hearers THEN [heardAgo[d] EXCEPT ![c] = 0] ELSE heardAgo[d]]
        /\ IF Judge \in hearers
           THEN Note(c, slotOf[c]) /\ HeardMap(c, slotOf[c], MapOf(c))
           ELSE UNCHANGED judgeVars
  BY DEF SendBeacon
<1> DEFINE hearers == {d \in (Senders \union {Judge}) \ {c} : <<c, d>> \notin dead} \ missed
<1>2. UNCHANGED <<sceneVars, phase>> /\ due' = due \ {c} /\ c \notin hearers
  BY DEF SendBeacon
<1>3. scene' = scene /\ slotOf' = slotOf
  BY <1>2 DEF sceneVars
<1> HIDE DEF hearers
<1>4. ASSUME NEW d \in Senders \union {Judge}, NEW x \in Senders
      PROVE  heardAgo'[d][x] = IF d \in hearers /\ x = c THEN 0 ELSE heardAgo[d][x]
  BY <1>0, <1>1 DEF hearers
<1>5. \A d \in Senders \union {Judge}, x \in Senders :
         /\ heardAgo[d][x] \in Nat /\ heardAgo'[d][x] \in 0 .. Long
         /\ heardAgo'[d][x] <= heardAgo[d][x]
  <2>1. \A d \in Senders \union {Judge}, x \in Senders : heardAgo[d][x] \in 0 .. Long
    BY <1>0
  <2> QED BY <1>4, <2>1, RelayNumbers
<1>6. ASSUME NEW d \in Senders, NEW s \in Slots
      PROVE  hears'[d][s] = IF d \in hearers /\ s = slotOf[c] THEN [by |-> c, ago |-> 0] ELSE hears[d][s]
  BY <1>1 DEF hearers
<1>7. hears' \in [Senders -> [Slots -> HeardStates]]
  <2>1. [by |-> c, ago |-> 0] \in HeardStates
    BY RelayNumbers DEF HeardStates
  <2>2. \A d \in Senders, s \in Slots : hears[d][s] \in HeardStates
    BY <1>0
  <2> QED BY <1>1, <2>1, <2>2
<1>8. heardAgo' \in [Senders \union {Judge} -> [Senders -> 0 .. Long]]
  <2>1. \A d \in Senders \union {Judge} : heardAgo'[d] \in [Senders -> 0 .. Long]
    <3> SUFFICES ASSUME NEW d \in Senders \union {Judge} PROVE heardAgo'[d] \in [Senders -> 0 .. Long]
      OBVIOUS
    <3>1. heardAgo'[d] = heardAgo[d] \/ heardAgo'[d] = [heardAgo[d] EXCEPT ![c] = 0]
      BY <1>1
    <3>2. heardAgo[d] \in [Senders -> 0 .. Long] /\ 0 \in 0 .. Long
      BY <1>0, RelayNumbers
    <3> QED BY <3>1, <3>2
  <2>2. heardAgo' = [d \in Senders \union {Judge} |-> heardAgo'[d]]
    BY <1>1
  <2> QED BY <2>1, <2>2
<1>9. HearsKnown'
  <2> SUFFICES ASSUME NEW n \in Senders, NEW x \in Senders, NEW s \in Slots, hears'[n][s].by = x
               PROVE  heardAgo'[n][x] <= hears'[n][s].ago
    BY DEF HearsKnown
  <2>1. CASE n \in hearers /\ s = slotOf[c]
    BY <1>4, <1>6, <2>1
  <2>2. CASE ~(n \in hearers /\ s = slotOf[c])
    <3>1. hears'[n][s] = hears[n][s]
      BY <1>6, <2>2
    <3>2. heardAgo[n][x] <= hears[n][s].ago
      BY <3>1 DEF RelayIInv, HearsKnown
    <3>3. hears[n][s].ago \in 0 .. Window
      BY <1>0 DEF HeardStates
    <3>4. heardAgo'[n][x] <= heardAgo[n][x] /\ heardAgo[n][x] \in Nat /\ heardAgo'[n][x] \in Nat
      BY <1>5
    <3> QED BY <3>1, <3>2, <3>3, <3>4, RelayNumbers
  <2> QED BY <2>1, <2>2
<1>10. losses' \in 0 .. Losses[scene]
  <2>1. losses \in 0 .. Losses[scene] /\ Losses[scene] \in Nat
    BY <1>0, SenderFacts DEF RelayIInv, RelayShape
  <2>2. IsFiniteSet(Senders \union {Judge})
    BY SenderFacts, FS_AddElement
  <2>3. missed \subseteq Senders \union {Judge}
    OBVIOUS
  <2>4. Cardinality(missed) \in Nat
    BY <2>2, <2>3, FS_Subset, FS_CardinalityType
  <2> QED BY <1>1, <2>1, <2>4
<1>11. CASE Judge \notin hearers
  <2>1. UNCHANGED <<record, shown, riders, crowded>>
    BY <1>1, <1>11 DEF hearers, judgeVars
  <2>2. \A k \in Senders : heardAgo'[Judge][k] = heardAgo[Judge][k]
    BY <1>4, <1>11
  <2>3. Lists' /\ Blanks' /\ Listed'
    BY <1>3, <2>1, <2>2 DEF RelayIInv, Lists, Blanks, Listed
  <2>4. Latest' /\ Previous'
    <3> SUFFICES ASSUME NEW k \in Senders, NEW o \in Senders \ {k}
                 PROVE  /\ shown[k][o][1] /\ record[k].ago < FreshFor =>
                              heardAgo'[k][o] < Window + record[k].ago
                        /\ shown[k][o][2] /\ record[k].gap # NoGap /\ record[k].ago + record[k].gap < FreshFor =>
                              heardAgo'[k][o] < Window + record[k].ago + record[k].gap
      BY <2>1 DEF Latest, Previous
    <3>1. heardAgo'[k][o] <= heardAgo[k][o] /\ heardAgo[k][o] \in Nat /\ heardAgo'[k][o] \in Nat
      BY <1>5
    <3>2. record[k].ago \in Nat /\ record[k].gap \in Nat /\ Window \in Nat
      BY RelayNumbers DEF RelayIInv, Lists, RecordStates
    <3>3. /\ shown[k][o][1] /\ record[k].ago < FreshFor =>
                heardAgo[k][o] < Window + record[k].ago
          /\ shown[k][o][2] /\ record[k].gap # NoGap /\ record[k].ago + record[k].gap < FreshFor =>
                heardAgo[k][o] < Window + record[k].ago + record[k].gap
      BY DEF RelayIInv, Latest, Previous
    <3> QED BY <3>1, <3>2, <3>3
  <2>5. RelayShape'
    BY <1>2, <1>3, <1>7, <1>8, <1>10, <2>1 DEF RelayIInv, RelayShape
  <2> QED BY <1>9, <2>3, <2>4, <2>5 DEF RelayIInv
<1>12. CASE Judge \in hearers
  <2>1. Note(c, slotOf[c]) /\ HeardMap(c, slotOf[c], MapOf(c))
    BY <1>1, <1>12 DEF hearers
  <2>2. /\ riders' \in [Senders -> RelayRiderStates]
        /\ Cardinality({k \in Senders : riders'[k] # NoRider}) <= RosterSeats[scene]
        /\ riders'[c] # NoRider => riders'[c].ago = 0
        /\ \A k \in Senders \ {c} : riders'[k] \in {riders[k], NoRider}
    BY <1>0, <2>1, NoteTakes DEF RelayIInv
  <2>3. /\ record' \in [Senders -> RecordStates] /\ shown' \in [Senders -> [Senders -> Bits]]
        /\ Cardinality({k \in Senders : record'[k] # NoRecord}) <= RecordSeats[scene]
        /\ Blanks' /\ crowded' \in 0 .. OnRideFor
        /\ MapKept(c, slotOf[c]) \/ MapTaken(c, slotOf[c], MapOf(c))
    BY <1>0, <2>1, HeardMapTakes DEF RelayIInv
  <2>4. Lists'
    BY <1>3, <2>2, <2>3 DEF Lists
  <2>5. RelayShape'
    BY <1>2, <1>3, <1>7, <1>8, <1>10, <2>3 DEF RelayIInv, RelayShape
  <2>6. ASSUME NEW k \in Senders
        PROVE  /\ record[k].ago \in 0 .. OnRideFor /\ record[k].gap \in 0 .. NoGap
               /\ record'[k].ago \in 0 .. OnRideFor /\ record'[k].gap \in 0 .. NoGap
               /\ riders[k].ago \in Nat
    <3>1. record[k] \in RecordStates /\ riders[k] \in RelayRiderStates
      BY DEF RelayIInv, Lists
    <3>2. record'[k] \in RecordStates
      BY <2>3
    <3> QED BY <3>1, <3>2, RelayNumbers DEF RecordStates, RelayRiderStates
  <2>7. ASSUME NEW o \in Senders, \E s \in Slots : MapOf(c)[s] = o
        PROVE  heardAgo[c][o] < Window
    <3>1. PICK s \in Slots : MapOf(c)[s] = o
      BY <2>7
    <3>2. hears[c][s].ago < Window /\ hears[c][s].by = o
      BY <3>1, SenderFacts DEF MapOf
    <3>3. heardAgo[c][o] <= hears[c][s].ago
      BY <3>2 DEF RelayIInv, HearsKnown
    <3>4. hears[c][s].ago \in 0 .. Window /\ heardAgo[c][o] \in Nat
      BY <1>0, <1>5 DEF HeardStates
    <3> QED BY <3>2, <3>3, <3>4, RelayNumbers
  <2>8. Latest' /\ Previous'
    <3> SUFFICES ASSUME NEW k \in Senders, NEW o \in Senders \ {k}
                 PROVE  /\ shown'[k][o][1] /\ record'[k].ago < FreshFor =>
                              heardAgo'[k][o] < Window + record'[k].ago
                        /\ shown'[k][o][2] /\ record'[k].gap # NoGap /\ record'[k].ago + record'[k].gap < FreshFor =>
                              heardAgo'[k][o] < Window + record'[k].ago + record'[k].gap
      BY DEF Latest, Previous
    <3>1. heardAgo'[k][o] <= heardAgo[k][o] /\ heardAgo[k][o] \in Nat /\ heardAgo'[k][o] \in Nat
      BY <1>5
    <3>2. record[k].ago \in Nat /\ record[k].gap \in Nat /\ Window \in Nat /\ NoGap = FreshFor /\ FreshFor \in Nat
      BY <2>6, RelayNumbers
    <3>3. /\ shown[k][o][1] /\ record[k].ago < FreshFor =>
                heardAgo[k][o] < Window + record[k].ago
          /\ shown[k][o][2] /\ record[k].gap # NoGap /\ record[k].ago + record[k].gap < FreshFor =>
                heardAgo[k][o] < Window + record[k].ago + record[k].gap
      BY DEF RelayIInv, Latest, Previous
    <3>4. CASE record'[k] = record[k] /\ shown'[k][o] = shown[k][o]
      BY <3>1, <3>2, <3>3, <3>4
    <3>5. CASE shown'[k][o] = NeverShown
      BY <3>5, Empties, RelayNumbers
    <3>6. CASE record'[k] = NoRecord
      <4>1. record'[k].ago = OnRideFor
        BY <3>6, Empties
      <4>2. record'[k].gap \in 0 .. NoGap
        BY <2>6
      <4> QED BY <4>1, <4>2, RelayNumbers
    <3>7. CASE k = c /\ MapTaken(c, slotOf[c], MapOf(c))
      <4>1. /\ record'[k].ago = 0
            /\ shown'[k][o][1] => \E s \in Slots : MapOf(c)[s] = o
            /\ shown'[k][o][2] /\ record'[k].gap # NoGap =>
                  shown[k][o][1] /\ record'[k].gap = record[k].ago
        BY <3>7 DEF MapTaken
      <4>2. shown'[k][o][1] => heardAgo[k][o] < Window
        BY <2>7, <3>7, <4>1
      <4>3. shown'[k][o][2] /\ record'[k].gap # NoGap /\ record'[k].gap < FreshFor =>
               heardAgo[k][o] < Window + record'[k].gap
        BY <3>3, <4>1
      <4>4. record'[k].gap \in Nat
        BY <2>6, RelayNumbers
      <4> QED BY <3>1, <3>2, <4>1, <4>2, <4>3, <4>4
    <3> QED BY <2>3, <3>4, <3>5, <3>6, <3>7 DEF MapKept, MapTaken
  <2>9. Listed'
    <3> SUFFICES ASSUME NEW k \in Senders
                 PROVE  /\ riders'[k] # NoRider =>
                              riders'[k].ago <= heardAgo'[Judge][k] \/ heardAgo'[Judge][k] >= OnRideFor
                        /\ heardAgo'[Judge][k] + Second <= OnRideFor =>
                              record'[k].ago < heardAgo'[Judge][k] + Second \/ crowded' <= heardAgo'[Judge][k]
      BY DEF Listed
    <3>1. CASE k = c
      <4>1. heardAgo'[Judge][k] = 0
        BY <1>4, <1>12, <3>1
      <4>2. record'[k].ago < Second
        BY <2>3, <3>1, RelayNumbers DEF MapKept, MapTaken
      <4>3. riders'[k] # NoRider => riders'[k].ago = 0
        BY <2>2, <3>1
      <4> QED BY <4>1, <4>2, <4>3, RelayNumbers
    <3>2. CASE k # c
      <4>1. heardAgo'[Judge][k] = heardAgo[Judge][k] /\ heardAgo[Judge][k] \in Nat
        BY <1>4, <1>5, <3>2
      <4>2. riders'[k] # NoRider => riders'[k] = riders[k] /\ riders[k] # NoRider
        BY <2>2, <3>2
      <4>3. \/ record'[k] = record[k] /\ crowded' \in {0, crowded}
            \/ crowded' = 0
            \/ record[k].ago = OnRideFor /\ crowded' = crowded
        BY <2>3, <3>2 DEF MapKept, MapTaken
      <4>4. /\ riders[k] # NoRider =>
                  riders[k].ago <= heardAgo[Judge][k] \/ heardAgo[Judge][k] >= OnRideFor
            /\ heardAgo[Judge][k] + Second <= OnRideFor =>
                  record[k].ago < heardAgo[Judge][k] + Second \/ crowded <= heardAgo[Judge][k]
        BY DEF RelayIInv, Listed
      <4>5. /\ riders'[k] # NoRider =>
                  riders'[k].ago <= heardAgo'[Judge][k] \/ heardAgo'[Judge][k] >= OnRideFor
        BY <4>1, <4>2, <4>4
      <4>6. heardAgo[Judge][k] + Second <= OnRideFor =>
               record'[k].ago < heardAgo[Judge][k] + Second \/ crowded' <= heardAgo[Judge][k]
        <5>1. CASE record'[k] = record[k] /\ crowded' \in {0, crowded}
          BY <4>1, <4>4, <5>1
        <5>2. CASE crowded' = 0
          BY <4>1, <5>2
        <5>3. CASE record[k].ago = OnRideFor /\ crowded' = crowded
          BY <4>1, <4>4, <5>3, RelayNumbers
        <5> QED BY <4>3, <5>1, <5>2, <5>3
      <4> QED BY <4>1, <4>5, <4>6
    <3> QED BY <3>1, <3>2
  <2> QED BY <1>9, <2>3, <2>4, <2>5, <2>8, <2>9 DEF RelayIInv
<1> QED BY <1>11, <1>12


\* Everything is a tick older; what would not be is as old as it can matter.
LEMMA TickStep ==
    ASSUME RelayIInv, Tick
    PROVE  RelayIInv'
<1> DEFINE now(r) == Least(r.ago + 1, OnRideFor)
<1>0. /\ scene \in Scenes /\ record \in [Senders -> RecordStates] /\ riders \in [Senders -> RelayRiderStates]
      /\ hears \in [Senders -> [Slots -> HeardStates]]
      /\ heardAgo \in [Senders \union {Judge} -> [Senders -> 0 .. Long]]
      /\ crowded \in 0 .. OnRideFor /\ phase \in Slots /\ Judge \in Senders \union {Judge}
  BY DEF RelayIInv, RelayShape, Lists
<1>1. UNCHANGED <<scene, slotOf, shown, losses>>
  BY DEF Tick, sceneVars
<1>2. ASSUME NEW c \in Senders
      PROVE  /\ record'[c] \in RecordStates /\ record'[c].slot = record[c].slot
             /\ record'[c].gap = record[c].gap /\ record'[c].ago = Least(record[c].ago + 1, OnRideFor)
             /\ record[c].ago \in 0 .. OnRideFor /\ record[c].gap \in Nat
             /\ record[c] = NoRecord => record'[c] = NoRecord
  <2>1. record'[c] = [record[c] EXCEPT !.ago = Least(record[c].ago + 1, OnRideFor)]
    BY DEF Tick, RecordOlder
  <2>2. record[c] \in RecordStates /\ record[c].ago \in 0 .. OnRideFor /\ record[c].gap \in Nat
    BY <1>0, RelayNumbers DEF RecordStates
  <2>3. Least(record[c].ago + 1, OnRideFor) \in 0 .. OnRideFor
    BY <2>2, RelayNumbers DEF Least
  <2>4. Least(OnRideFor + 1, OnRideFor) = OnRideFor
    BY RelayNumbers DEF Least
  <2> QED BY <2>1, <2>2, <2>3, <2>4 DEF RecordStates, NoRecord
<1>3. ASSUME NEW c \in Senders
      PROVE  /\ riders'[c] \in RelayRiderStates /\ riders[c].ago \in 0 .. StaleAfter + 1
             /\ riders'[c].ago = Least(riders[c].ago + 1, StaleAfter + 1)
             /\ riders[c] = NoRider => riders'[c] = NoRider
  <2>1. riders'[c] = [riders[c] EXCEPT !.ago = Least(riders[c].ago + 1, StaleAfter + 1)]
    BY DEF Tick, RiderOlder
  <2>2. riders[c] \in RelayRiderStates /\ riders[c].ago \in 0 .. StaleAfter + 1
    BY <1>0 DEF RelayRiderStates
  <2>3. Least(riders[c].ago + 1, StaleAfter + 1) \in 0 .. StaleAfter + 1
    BY <2>2, RelayNumbers DEF Least
  <2>4. Least(StaleAfter + 1 + 1, StaleAfter + 1) = StaleAfter + 1
    BY RelayNumbers DEF Least
  <2> QED BY <2>1, <2>2, <2>3, <2>4 DEF RelayRiderStates, NoRider
<1>4. ASSUME NEW d \in Senders \union {Judge}, NEW x \in Senders
      PROVE  /\ heardAgo[d][x] \in 0 .. Long /\ heardAgo'[d][x] = Least(heardAgo[d][x] + 1, Long)
             /\ heardAgo'[d][x] \in 0 .. Long
  <2>1. heardAgo'[d][x] = Least(heardAgo[d][x] + 1, Long)
    BY DEF Tick
  <2>2. heardAgo[d][x] \in 0 .. Long
    BY <1>0
  <2> QED BY <2>1, <2>2, RelayNumbers DEF Least
<1>5. ASSUME NEW n \in Senders, NEW s \in Slots
      PROVE  /\ hears[n][s] \in HeardStates /\ hears'[n][s] = HeardOlder(hears[n][s])
             /\ hears'[n][s] \in HeardStates
  <2>1. hears[n][s] \in HeardStates /\ hears'[n][s] = HeardOlder(hears[n][s])
    BY <1>0 DEF Tick
  <2>2. hears[n][s].ago \in 0 .. Window
    BY <2>1 DEF HeardStates
  <2>3. CASE hears[n][s].ago + 1 >= Window
    BY <2>1, <2>3, Empties DEF HeardOlder
  <2>4. CASE ~(hears[n][s].ago + 1 >= Window)
    <3>1. hears'[n][s] = [hears[n][s] EXCEPT !.ago = hears[n][s].ago + 1]
      BY <2>1, <2>4 DEF HeardOlder
    <3>2. hears[n][s].ago + 1 \in 0 .. Window
      BY <2>2, <2>4, RelayNumbers
    <3> QED BY <2>1, <3>1, <3>2 DEF HeardStates
  <2> QED BY <2>1, <2>3, <2>4
<1>6. /\ record' \in [Senders -> RecordStates] /\ riders' \in [Senders -> RelayRiderStates]
      /\ hears' \in [Senders -> [Slots -> HeardStates]]
      /\ heardAgo' \in [Senders \union {Judge} -> [Senders -> 0 .. Long]]
  <2>1. /\ record' = [c \in Senders |-> RecordOlder(record[c])]
        /\ riders' = [c \in Senders |-> RiderOlder(riders[c])]
    BY DEF Tick
  <2>2. /\ hears' = [c \in Senders |-> [s \in Slots |-> HeardOlder(hears[c][s])]]
        /\ heardAgo' = [c \in Senders \union {Judge} |-> [d \in Senders |-> Least(heardAgo[c][d] + 1, Long)]]
    BY DEF Tick
  <2>3. record' \in [Senders -> RecordStates] /\ riders' \in [Senders -> RelayRiderStates]
    BY <1>2, <1>3, <2>1
  <2>4. hears' \in [Senders -> [Slots -> HeardStates]]
    BY <1>5, <2>2
  <2>5. heardAgo' \in [Senders \union {Judge} -> [Senders -> 0 .. Long]]
    BY <1>4, <2>2
  <2> QED BY <2>3, <2>4, <2>5
<1>7. RelayShape'
  <2>1. phase' \in Slots
    <3>1. phase \in Nat /\ phase' = (phase + 1) % Second
      BY <1>0, RelayNumbers DEF Tick, Slots
    <3> QED BY <3>1, RelayNumbers DEF Slots
  <2>2. due' \subseteq Senders
    BY DEF Tick, DueAt
  <2>3. crowded' \in 0 .. OnRideFor
    BY <1>0, RelayNumbers DEF Tick, Least
  <2> QED BY <1>1, <1>6, <2>1, <2>2, <2>3 DEF RelayIInv, RelayShape
<1>8. Lists'
  <2> DEFINE reporters == {c \in Senders : record[c] # NoRecord}
             onRoster == {c \in Senders : riders[c] # NoRider}
             reporters2 == {c \in Senders : record'[c] # NoRecord}
             onRoster2 == {c \in Senders : riders'[c] # NoRider}
  <2>1. reporters2 \subseteq reporters /\ onRoster2 \subseteq onRoster
    BY <1>2, <1>3
  <2>2. IsFiniteSet(reporters) /\ IsFiniteSet(onRoster)
    BY SenderFacts, FS_Subset
  <2>3. /\ Cardinality(reporters) <= RecordSeats[scene] /\ Cardinality(onRoster) <= RosterSeats[scene]
        /\ RecordSeats[scene] \in Nat /\ RosterSeats[scene] \in Nat
    BY <1>0, SenderFacts DEF RelayIInv, Lists
  <2> HIDE DEF reporters, onRoster, reporters2, onRoster2
  <2>4. /\ Cardinality(reporters2) <= Cardinality(reporters) /\ Cardinality(onRoster2) <= Cardinality(onRoster)
        /\ Cardinality(reporters2) \in Nat /\ Cardinality(onRoster2) \in Nat
        /\ Cardinality(reporters) \in Nat /\ Cardinality(onRoster) \in Nat
    BY <2>1, <2>2, FS_Subset, FS_CardinalityType
  <2>5. Cardinality(reporters2) <= RecordSeats[scene] /\ Cardinality(onRoster2) <= RosterSeats[scene]
    BY <2>3, <2>4
  <2> QED BY <1>1, <1>6, <2>5 DEF RelayIInv, Lists, reporters2, onRoster2
<1>9. Blanks'
  BY <1>1, <1>2 DEF RelayIInv, Blanks
<1>10. HearsKnown'
  <2> SUFFICES ASSUME NEW n \in Senders, NEW c \in Senders, NEW s \in Slots, hears'[n][s].by = c
               PROVE  heardAgo'[n][c] <= hears'[n][s].ago
    BY DEF HearsKnown
  <2>1. hears'[n][s] = [hears[n][s] EXCEPT !.ago = hears[n][s].ago + 1]
    BY <1>5, Empties, SenderFacts DEF HeardOlder
  <2>2. hears'[n][s].ago = hears[n][s].ago + 1 /\ hears[n][s].by = c /\ hears[n][s].ago \in Nat
    BY <1>5, <2>1, RelayNumbers DEF HeardStates
  <2>3. heardAgo[n][c] <= hears[n][s].ago
    BY <2>2 DEF RelayIInv, HearsKnown
  <2> QED BY <1>4, <2>2, <2>3, RelayNumbers DEF Least
<1>11. Latest' /\ Previous'
  <2> SUFFICES ASSUME NEW k \in Senders, NEW o \in Senders \ {k}
               PROVE  /\ shown[k][o][1] /\ record'[k].ago < FreshFor =>
                            heardAgo'[k][o] < Window + record'[k].ago
                      /\ shown[k][o][2] /\ record'[k].gap # NoGap /\ record'[k].ago + record'[k].gap < FreshFor =>
                            heardAgo'[k][o] < Window + record'[k].ago + record'[k].gap
    BY <1>1 DEF Latest, Previous
  <2>1. record'[k].ago < FreshFor => record'[k].ago = record[k].ago + 1
    BY <1>2, RelayNumbers DEF Least
  <2>2. heardAgo'[k][o] <= heardAgo[k][o] + 1 /\ heardAgo[k][o] \in Nat /\ heardAgo'[k][o] \in Nat
    BY <1>4, RelayNumbers DEF Least
  <2>3. /\ shown[k][o][1] /\ record[k].ago < FreshFor =>
              heardAgo[k][o] < Window + record[k].ago
        /\ shown[k][o][2] /\ record[k].gap # NoGap /\ record[k].ago + record[k].gap < FreshFor =>
              heardAgo[k][o] < Window + record[k].ago + record[k].gap
    BY DEF RelayIInv, Latest, Previous
  <2>4. /\ record'[k].gap = record[k].gap /\ record[k].gap \in Nat /\ record[k].ago \in Nat
        /\ record'[k].ago \in Nat /\ Window \in Nat /\ FreshFor \in Nat
    BY <1>2, RelayNumbers DEF RecordStates
  <2> QED BY <2>1, <2>2, <2>3, <2>4
<1>12. Listed'
  <2> SUFFICES ASSUME NEW k \in Senders
               PROVE  /\ riders'[k] # NoRider =>
                            riders'[k].ago <= heardAgo'[Judge][k] \/ heardAgo'[Judge][k] >= OnRideFor
                      /\ heardAgo'[Judge][k] + Second <= OnRideFor =>
                            record'[k].ago < heardAgo'[Judge][k] + Second \/ crowded' <= heardAgo'[Judge][k]
    BY DEF Listed
  <2> DEFINE h == heardAgo[Judge][k]
             hh == heardAgo'[Judge][k]
  <2>1. /\ riders[k] # NoRider => riders[k].ago <= h \/ h >= OnRideFor
        /\ h + Second <= OnRideFor => record[k].ago < h + Second \/ crowded <= h
    BY DEF RelayIInv, Listed
  <2>2. h \in 0 .. Long /\ hh = Least(h + 1, Long)
    BY <1>0, <1>4
  <2>3. crowded' = Least(crowded + 1, OnRideFor) /\ crowded \in Nat
    BY <1>0, RelayNumbers DEF Tick
  <2> HIDE DEF h, hh
  <2>4. riders'[k] # NoRider => riders'[k].ago <= hh \/ hh >= OnRideFor
    BY <1>3, <2>1, <2>2, RelayNumbers DEF Least
  <2>5. hh + Second <= OnRideFor => record'[k].ago < hh + Second \/ crowded' <= hh
    <3> SUFFICES ASSUME hh + Second <= OnRideFor PROVE record'[k].ago < hh + Second \/ crowded' <= hh
      OBVIOUS
    <3>1. hh = h + 1 /\ h + Second <= OnRideFor
      BY <2>2, RelayNumbers DEF Least
    <3>2. record'[k].ago <= record[k].ago + 1 /\ record[k].ago \in Nat /\ record'[k].ago \in Nat
      BY <1>2, RelayNumbers DEF Least
    <3>3. crowded' <= crowded + 1 /\ crowded' \in Nat
      <4>1. OnRideFor \in Nat
        BY RelayNumbers
      <4>2. CASE crowded + 1 < OnRideFor
        BY <2>3, <4>2 DEF Least
      <4>3. CASE ~(crowded + 1 < OnRideFor)
        <5>1. crowded' = OnRideFor
          BY <2>3, <4>3 DEF Least
        <5> QED BY <2>3, <4>1, <4>3, <5>1
      <4> QED BY <4>2, <4>3
    <3>4. h \in Nat /\ Second \in Nat /\ crowded \in Nat
      BY <2>2, <2>3, RelayNumbers
    <3>5. record[k].ago < h + Second \/ crowded <= h
      BY <2>1, <3>1
    <3>6. CASE record[k].ago < h + Second
      BY <3>1, <3>2, <3>4, <3>6
    <3>7. CASE crowded <= h
      BY <3>1, <3>3, <3>4, <3>7
    <3> QED BY <3>5, <3>6, <3>7
  <2> QED BY <2>4, <2>5 DEF h, hh
<1> QED BY <1>7, <1>8, <1>9, <1>10, <1>11, <1>12 DEF RelayIInv

\* A link that dies, a move and a wait leave the record and what was heard.
LEMMA RelayQuietStep ==
    ASSUME RelayIInv, UNCHANGED <<scene, phase, hears, judgeVars, losses, heardAgo>>,
           due' \subseteq Senders, slotOf' \in [Senders -> Slots \union {NoSlot}]
    PROVE  RelayIInv'
<1>1. UNCHANGED <<record, shown, riders, crowded>>
  BY DEF judgeVars
<1>2. RelayShape' /\ Lists'
  BY <1>1 DEF RelayIInv, RelayShape, Lists
<1>3. Blanks' /\ HearsKnown' /\ Latest' /\ Previous' /\ Listed'
  BY <1>1 DEF RelayIInv, Blanks, HearsKnown, Latest, Previous, Listed
<1> QED BY <1>2, <1>3 DEF RelayIInv

LEMMA RelayInitially == RelayInit => RelayIInv
<1> SUFFICES ASSUME RelayInit PROVE RelayIInv
  OBVIOUS
<1> USE DEF RelayInit
<1>1. RelayShape
  <2>1. slotOf \in [Senders -> Slots \union {NoSlot}] /\ 0 \in 0 .. Losses[scene]
    BY SenderFacts
  <2>2. due \subseteq Senders /\ phase \in Slots
    BY RelayNumbers DEF DueAt, Slots
  <2>3. hears \in [Senders -> [Slots -> HeardStates]]
    BY Empties
  <2>4. Long \in 0 .. Long /\ OnRideFor \in 0 .. OnRideFor
    BY RelayNumbers
  <2> QED BY <2>1, <2>2, <2>3, <2>4 DEF RelayShape
<1>2. Lists
  <2>1. /\ {c \in Senders : record[c] # NoRecord} = {} /\ {c \in Senders : riders[c] # NoRider} = {}
    OBVIOUS
  <2>2. Cardinality({}) = 0 /\ 0 <= RecordSeats[scene] /\ 0 <= RosterSeats[scene]
    BY FS_EmptySet, SenderFacts
  <2>3. /\ record \in [Senders -> RecordStates] /\ riders \in [Senders -> RelayRiderStates]
        /\ shown \in [Senders -> [Senders -> Bits]]
    <3>1. NoRecord \in RecordStates /\ NoRider \in RelayRiderStates /\ NeverShown \in Bits
      BY Empties
    <3> HIDE DEF RecordStates, RelayRiderStates, Bits
    <3> QED BY <3>1
  <2>4. /\ Cardinality({c \in Senders : record[c] # NoRecord}) <= RecordSeats[scene]
        /\ Cardinality({c \in Senders : riders[c] # NoRider}) <= RosterSeats[scene]
    BY <2>1, <2>2
  <2> QED BY <2>3, <2>4 DEF Lists
<1>3. Blanks
  BY DEF Blanks
<1>4. HearsKnown
  BY Empties, SenderFacts DEF HearsKnown
<1>5. Latest /\ Previous
  BY Empties, RelayNumbers DEF Latest, Previous
<1>6. Listed
  BY RelayNumbers DEF Listed
<1> QED BY <1>1, <1>2, <1>3, <1>4, <1>5, <1>6 DEF RelayIInv

LEMMA RelaySteps == RelayIInv /\ [RelayNext]_relayVars => RelayIInv'
<1> SUFFICES ASSUME RelayIInv, [RelayNext]_relayVars PROVE RelayIInv'
  OBVIOUS
<1>0. due \subseteq Senders /\ slotOf \in [Senders -> Slots \union {NoSlot}]
  BY DEF RelayIInv, RelayShape
<1>1. CASE Tick
  BY <1>1, TickStep
<1>2. CASE LinkDies
  BY <1>0, <1>2, RelayQuietStep DEF LinkDies, Changed
<1>3. ASSUME NEW c \in Senders, SendBeacon(c) PROVE RelayIInv'
  BY <1>3, SendStep
<1>4. ASSUME NEW c \in Senders, Wait(c) PROVE RelayIInv'
  BY <1>0, <1>4, RelayQuietStep DEF Wait, sceneVars
<1>5. ASSUME NEW c \in Senders, Move(c) PROVE RelayIInv'
  BY <1>0, <1>5, RelayQuietStep DEF Move, Changed
<1>6. CASE UNCHANGED relayVars
  BY <1>0, <1>6, RelayQuietStep DEF relayVars, sceneVars
<1> QED BY <1>1, <1>2, <1>3, <1>4, <1>5, <1>6 DEF RelayNext

-----------------------------------------------------------------------------
(* What a verdict rests on.                                                *)

\* A car that is said to hear another often has heard it lately.
LEMMA HeardLately ==
    ASSUME RelayIInv, NEW k \in Senders, NEW x \in Senders \ {k}, record[k].ago < FreshFor,
           HearsSteadily(k, x)
    PROVE  heardAgo[k][x] < Evidence
<1>1. /\ record[k].ago \in Nat /\ record[k].gap \in Nat /\ heardAgo[k][x] \in Nat
      /\ Window \in Nat /\ FreshFor \in Nat /\ Evidence = FreshFor + Window
  <2>1. record[k] \in RecordStates /\ heardAgo[k][x] \in 0 .. Long
    BY DEF RelayIInv, Lists, RelayShape
  <2> QED BY <2>1, RelayNumbers DEF RecordStates
<1>2. \/ shown[k][x][1]
      \/ shown[k][x][2] /\ record[k].gap # NoGap /\ record[k].ago + record[k].gap < FreshFor
  BY DEF HearsSteadily, PreviousMapFresh
<1>3. CASE shown[k][x][1]
  <2>1. heardAgo[k][x] < Window + record[k].ago
    BY <1>3 DEF RelayIInv, Latest
  <2> QED BY <1>1, <2>1
<1>4. CASE shown[k][x][2] /\ record[k].gap # NoGap /\ record[k].ago + record[k].gap < FreshFor
  <2>1. heardAgo[k][x] < Window + record[k].ago + record[k].gap
    BY <1>4 DEF RelayIInv, Previous
  <2> QED BY <1>1, <1>4, <2>1
<1> QED BY <1>2, <1>3, <1>4

\* A car that the judge has heard lately is asked, unless the record was short
\* of a seat, and then no forward is skipped.
LEMMA Asked ==
    ASSUME RelayIInv, NEW k \in Senders, heardAgo[Judge][k] < Counted(k), ~(crowded < OnRideFor)
    PROVE  OnRide(k) \/ OnRideHere(k)
<1> DEFINE h == heardAgo[Judge][k]
<1>1. /\ h \in Nat /\ crowded \in Nat /\ riders[k].ago \in Nat /\ record[k].ago \in Nat
      /\ OnRideFor \in Nat /\ Second \in Nat /\ Second > 0
  <2>1. record[k] \in RecordStates /\ riders[k] \in RelayRiderStates /\ crowded \in 0 .. OnRideFor
    BY DEF RelayIInv, Lists, RelayShape
  <2>2. heardAgo[Judge][k] \in 0 .. Long
    BY DEF RelayIInv, RelayShape
  <2> QED BY <2>1, <2>2, RelayNumbers DEF RecordStates, RelayRiderStates
<1>2. /\ riders[k] # NoRider => riders[k].ago <= h \/ h >= OnRideFor
      /\ h + Second <= OnRideFor => record[k].ago < h + Second \/ crowded <= h
  BY DEF RelayIInv, Listed
<1>3. h < (IF riders[k] # NoRider THEN OnRideFor ELSE OnRideFor - Second + 1)
  BY DEF Counted, OnRoster
<1> HIDE DEF h
<1>4. CASE riders[k] # NoRider
  BY <1>1, <1>2, <1>3, <1>4 DEF OnRide
<1>5. CASE ~(riders[k] # NoRider)
  <2>1. h + Second <= OnRideFor
    BY <1>1, <1>3, <1>5
  <2>2. ~(crowded <= h)
    BY <1>1, <2>1
  <2> QED BY <1>1, <1>2, <2>1, <2>2 DEF OnRideHere
<1> QED BY <1>4, <1>5

LEMMA Stands ==
    ASSUME RelayIInv, NEW k \in Senders, NEW o, NEW r
    PROVE  /\ Standing(k, o, r) \in {0, 1, 2, 3}
           /\ Standing(k, o, r) = Skip =>
                 /\ record[k].ago < FreshFor
                 /\ HearsSteadily(k, o) \/ (Placed(r) /\ HearsSteadily(k, r))
<1>1. record[k].ago \in Nat /\ FreshFor \in Nat
  <2>1. record[k] \in RecordStates
    BY DEF RelayIInv, Lists
  <2> QED BY <2>1, RelayNumbers DEF RecordStates
<1>2. CASE ~Seated(k)
  <2>1. Standing(k, o, r) = NoEvidence
    BY <1>2 DEF Standing
  <2> QED BY <2>1 DEF NoEvidence, Skip
<1>3. CASE Seated(k) /\ record[k].ago >= FreshFor
  <2>1. ~(record[k].ago < FreshFor)
    BY <1>1, <1>3
  <2>2. Standing(k, o, r) = Stale
    BY <1>3, <2>1 DEF Standing
  <2> QED BY <2>2 DEF Stale, Skip
<1>4. CASE Seated(k) /\ record[k].ago < FreshFor
  <2>1. ~(record[k].ago >= FreshFor)
    BY <1>1, <1>4
  <2>2. Standing(k, o, r) =
           IF HearsSteadily(k, o) \/ (Placed(r) /\ HearsSteadily(k, r)) THEN Skip ELSE Needed
    BY <1>4, <2>1 DEF Standing
  <2> QED BY <1>4, <2>2 DEF Skip, Needed
<1> QED BY <1>1, <1>2, <1>3, <1>4

\* The verdict is the worst that any car asked says.
LEMMA SkipMeansAll ==
    ASSUME RelayIInv, NEW o, NEW r, Verdict(o, r) = Skip, NEW k \in Senders,
           OnRide(k) \/ OnRideHere(k), k # o, k # r
    PROVE  Standing(k, o, r) = Skip
<1> DEFINE asked == {c \in Senders : OnRide(c) \/ OnRideHere(c)} \ {o, IF Placed(r) THEN r ELSE o}
           stands == {Standing(c, o, r) : c \in asked} \union {Skip}
           Worst(v) == \A w \in stands : w <= v
<1>1. Verdict(o, r) = (CHOOSE v \in stands : Worst(v))
  BY DEF Verdict, Skip, NoEvidence
<1>2. Standing(k, o, r) \in stands
  OBVIOUS
<1>3. \A w \in stands : w \in {0, 1, 2, 3}
  <2>1. \A c \in asked : Standing(c, o, r) \in {0, 1, 2, 3}
    BY Stands
  <2> QED BY <2>1 DEF Skip
<1> HIDE DEF stands
<1>4. \E v \in stands : Worst(v)
  <2>1. CASE 3 \in stands
    BY <1>3, <2>1
  <2>2. CASE 3 \notin stands /\ 2 \in stands
    BY <1>3, <2>2
  <2>3. CASE 3 \notin stands /\ 2 \notin stands /\ 1 \in stands
    BY <1>3, <2>3
  <2>4. CASE 3 \notin stands /\ 2 \notin stands /\ 1 \notin stands
    BY <1>2, <1>3, <2>4
  <2> QED BY <2>1, <2>2, <2>3, <2>4
<1>5. Worst(CHOOSE v \in stands : Worst(v))
  <2> HIDE DEF Worst
  <2> QED BY <1>4
<1>6. Standing(k, o, r) <= Skip
  BY <1>1, <1>2, <1>5
<1> QED BY <1>2, <1>3, <1>6 DEF Skip

LEMMA SkippedSoundly == RelayIInv => SkipsOnlyHeard
<1> SUFFICES ASSUME RelayIInv, NEW o \in Senders, NEW r \in Relayers(o), Verdict(o, r) = Skip,
                    NEW k \in Senders \ {o, r}, heardAgo[Judge][k] < Counted(k)
             PROVE  \/ heardAgo[k][o] < Evidence
                    \/ r # NoCar /\ heardAgo[k][r] < Evidence
  BY DEF SkipsOnlyHeard
<1>1. ~(crowded < OnRideFor)
  BY DEF Verdict, Skip, NoEvidence
<1>2. OnRide(k) \/ OnRideHere(k)
  BY <1>1, Asked
<1>3. Standing(k, o, r) = Skip
  BY <1>2, SkipMeansAll
<1>4. /\ record[k].ago < FreshFor
      /\ HearsSteadily(k, o) \/ (Placed(r) /\ HearsSteadily(k, r))
  <2>1. k \in Senders
    OBVIOUS
  <2> QED BY <1>3, <2>1, Stands, Zenon
<1>5. CASE HearsSteadily(k, o)
  BY <1>4, <1>5, HeardLately
<1>6. CASE Placed(r) /\ HearsSteadily(k, r)
  <2>1. r # NoCar /\ r \in Senders
    BY <1>6 DEF Placed, Relayers
  <2> QED BY <1>4, <1>6, <2>1, HeardLately
<1> QED BY <1>4, <1>5, <1>6

-----------------------------------------------------------------------------
(* The theorems.                                                           *)

\* Whatever is lost, whichever links die and whoever moves, the record says no
\* more than what was on the air: the maps in it bound how long ago their
\* senders heard those they show, and nobody who was heard is forgotten without
\* FastRelay::crowdedAtMs_ saying so.
THEOREM RelayIInvHolds == RelaySpec => []RelayIInv
<1>1. RelayInit => RelayIInv
  BY RelayInitially
<1>2. RelayIInv /\ [RelayNext]_relayVars => RelayIInv'
  BY RelaySteps
<1> QED BY <1>1, <1>2, PTL DEF RelaySpec

\* Neither list is ever longer than its seats (FastRelay::takeSeat and
\* Mesh::note), and every entry and every age is one that the code can hold.
THEOREM RelayTypeCorrect == RelaySpec => []RelayTypeOK
<1>1. RelayIInv => RelayTypeOK
  <2> SUFFICES ASSUME RelayIInv PROVE RelayTypeOK
    OBVIOUS
  <2>1. ASSUME NEW c \in Senders
        PROVE  /\ slotOf[c] \in Slots \union {NoSlot}
               /\ record[c].slot \in Slots \union {NoSlot, NoCar}
               /\ record[c].ago \in 0 .. OnRideFor /\ record[c].gap \in 0 .. NoGap
               /\ riders[c].ago \in 0 .. StaleAfter + 1
               /\ \A d \in Senders : shown[c][d] \in [1 .. Maps -> BOOLEAN]
    BY DEF RelayIInv, RelayShape, Lists, RecordStates, RelayRiderStates, Bits
  <2>2. /\ Cardinality({c \in Senders : Seated(c)}) <= RecordSeats[scene]
        /\ Cardinality({c \in Senders : OnRoster(c)}) <= RosterSeats[scene]
    BY DEF RelayIInv, Lists, Seated, OnRoster
  <2> QED BY <2>1, <2>2 DEF RelayIInv, RelayShape, RelayTypeOK
<1> QED BY <1>1, RelayIInvHolds, PTL

\* No forward is skipped on evidence that is gone: every car that the judge has
\* heard within a lease has heard the origin of the frame, or the car that
\* relayed the copy, within HEARD_WINDOW_MS and FAST_RELAY_FRESH_MS
\* (FastRelay::judge).
THEOREM OnlyHeardSkipped == RelaySpec => []SkipsOnlyHeard
BY SkippedSoundly, RelayIInvHolds, PTL

-----------------------------------------------------------------------------
(* Clean air.                                                              *)

\* Ticks since the car's turn, the one before if it has not sent in this one.
Behind(c) == IF c \in due THEN Second ELSE (phase + Second - slotOf[c]) % Second

\* A ride on which every car has a slot, a seat, and everybody's ear.
Clear ==
    /\ dead = {} /\ AllLeasedApart
    /\ RecordSeats[scene] >= Cardinality(Senders) /\ RosterSeats[scene] > Cardinality(Senders)

\* What one beacon since the trouble does to everybody's map and the lists.
Caught(c) ==
    /\ \A d \in Senders \ {c} : hears[d][slotOf[c]] = [by |-> c, ago |-> Behind(c)]
    /\ riders[c] = [slot |-> slotOf[c], ago |-> Behind(c)]
    /\ record[c].slot = slotOf[c]
    /\ record[c].ago \in Behind(c) .. Behind(c) + Second - 1

\* What beacons since the trouble have done for a car: one puts it on every list,
\* the second is counted and each from then on, and its map shows all the others.
Kept(c) ==
    /\ clean > Behind(c) => Caught(c)
    /\ clean > Behind(c) + Second => record[c].ago = Behind(c)
    /\ \A b \in Senders \ {c}, i \in 1 .. Maps :
          clean > Behind(c) + i * Second => shown[c][b][i]

\* Clean air puts the record right beacon by beacon.
CleanIInv ==
    /\ due \subseteq DueAt(phase)
    /\ clean \in 0 .. (Maps + 2) * Second
    /\ RecordSeats[scene] >= Cardinality(Senders) => crowded = OnRideFor
    /\ Clear => \A c \in Senders : Kept(c)

\* What is assumed of the numbers, as the lemmas below use it.
LEMMA CleanNumbers ==
    /\ Second \in Nat \ {0} /\ Window \in Nat /\ FreshFor \in Nat /\ OnRideFor \in Nat
    /\ StaleAfter \in Nat /\ Maps \in Nat /\ ShownOne \in Nat /\ ShownTwo \in Nat
    /\ Second < Window /\ Second < FreshFor /\ FreshFor < OnRideFor /\ OnRideFor <= StaleAfter
    /\ ShownOne <= ShownTwo /\ ShownTwo <= Maps /\ Maps > 1
    /\ Second \notin Slots /\ NoCar \notin Slots /\ NoSlot = Second /\ NoCar # NoSlot
BY FastRelayAssumption DEF Slots, NoSlot, NoCar

\* Seconds add up.
LEMMA Seconds ==
    /\ \A i \in Nat : i * Second \in Nat /\ (i + 1) * Second = i * Second + Second
    /\ \A i \in Nat \ {0} : i * Second >= Second
    /\ (Maps + 2) * Second = Maps * Second + 2 * Second /\ Maps * Second >= 2 * Second
<1>1. Second \in Nat \ {0} /\ Maps \in Nat /\ Maps > 1
  BY CleanNumbers
<1>2. \A i \in Nat : i * Second \in Nat /\ (i + 1) * Second = i * Second + Second
  BY <1>1
<1>3. \A i \in Nat \ {0} : i * Second >= Second
  <2> TAKE i \in Nat \ {0}
  <2>1. i - 1 \in Nat /\ i = (i - 1) + 1
    OBVIOUS
  <2>2. i * Second = (i - 1) * Second + Second /\ (i - 1) * Second \in Nat
    BY <1>2, <2>1
  <2> QED BY <1>1, <2>2
<1>4. (Maps + 2) * Second = Maps * Second + 2 * Second
  BY <1>1
<1>5. Maps * Second >= 2 * Second
  <2>1. Maps - 2 \in Nat
    BY <1>1
  <2>2. (Maps - 2) * Second \in Nat
    BY <1>2, <2>1
  <2>3. Maps * Second = (Maps - 2) * Second + 2 * Second
    BY <1>1, <2>1
  <2>4. 2 * Second \in Nat
    BY <1>1
  <2> QED BY <2>2, <2>3, <2>4
<1> QED BY <1>2, <1>3, <1>4, <1>5

\* How far a slot lies back.
LEMMA TurnLeft ==
    ASSUME NEW p \in Slots, NEW s \in Slots
    PROVE  /\ (p + Second - s) % Second = IF p < s THEN p + Second - s ELSE p - s
           /\ (p + 1) % Second = IF p + 1 = Second THEN 0 ELSE p + 1
<1>1. Second \in Nat \ {0} /\ p \in 0 .. Second - 1 /\ s \in 0 .. Second - 1
  BY CleanNumbers DEF Slots
<1>2. \A k \in 0 .. Second - 1 : k % Second = k /\ (k + Second) % Second = k
  BY <1>1
<1>3. (p + 1) % Second = IF p + 1 = Second THEN 0 ELSE p + 1
  <2>1. CASE p + 1 = Second
    <3>1. p + 1 = 0 + Second /\ 0 \in 0 .. Second - 1
      BY <1>1, <2>1
    <3> QED BY <1>2, <2>1, <3>1
  <2>2. CASE p + 1 # Second
    <3>1. p + 1 \in 0 .. Second - 1
      BY <1>1, <2>2
    <3> QED BY <1>2, <2>2, <3>1
  <2> QED BY <2>1, <2>2
<1>4. CASE p < s
  <2>1. p + Second - s \in 0 .. Second - 1
    BY <1>1, <1>4
  <2> QED BY <1>2, <1>3, <1>4, <2>1
<1>5. CASE ~(p < s)
  <2>1. p - s \in 0 .. Second - 1 /\ p + Second - s = (p - s) + Second
    BY <1>1, <1>5
  <2> QED BY <1>2, <1>3, <1>5, <2>1
<1> QED BY <1>4, <1>5

\* How far a car is behind, and how a tick adds to it.
LEMMA BehindIs ==
    ASSUME NEW c \in Senders, phase \in Slots, slotOf[c] \in Slots
    PROVE  /\ Behind(c) \in 0 .. Second
           /\ slotOf[c] = phase => Behind(c) = IF c \in due THEN Second ELSE 0
<1>1. (phase + Second - slotOf[c]) % Second =
         IF phase < slotOf[c] THEN phase + Second - slotOf[c] ELSE phase - slotOf[c]
  BY TurnLeft
<1> QED BY <1>1, CleanNumbers DEF Behind, Slots

\* A tick puts every car one further behind: the one whose turn comes is then due.
LEMMA BehindTicks ==
    ASSUME NEW c \in Senders, phase \in Slots, slotOf[c] \in Slots, slotOf' = slotOf, due = {},
           phase' = (phase + 1) % Second, due' = DueAt(phase')
    PROVE  Behind(c)' = Behind(c) + 1 /\ phase' \in Slots
<1> DEFINE p == phase
           q == phase'
           s == slotOf[c]
<1>1. q = IF p + 1 = Second THEN 0 ELSE p + 1
  BY TurnLeft
<1>2. Second \in Nat \ {0} /\ p \in 0 .. Second - 1 /\ s \in 0 .. Second - 1 /\ s # NoSlot
  BY CleanNumbers DEF Slots
<1>3. q \in 0 .. Second - 1 /\ q \in Slots
  <2>1. q \in 0 .. Second - 1
    BY <1>1, <1>2
  <2> QED BY <2>1 DEF Slots
<1>4. Behind(c) = IF p < s THEN p + Second - s ELSE p - s
  BY TurnLeft DEF Behind
<1>5. c \in due' <=> s = q
  <2>1. due' = {d \in Senders : slotOf[d] \in {q, NoSlot}}
    BY DEF DueAt
  <2> QED BY <1>2, <2>1
<1>6. Behind(c)' = IF s = q THEN Second ELSE (q + Second - s) % Second
  BY <1>5 DEF Behind
<1>7. (q + Second - s) % Second = IF q < s THEN q + Second - s ELSE q - s
  BY <1>3, TurnLeft
<1> HIDE DEF p, q, s
<1>8. Behind(c)' = Behind(c) + 1
  BY <1>1, <1>2, <1>4, <1>6, <1>7
<1> QED BY <1>3, <1>8 DEF q

\* A new map comes before the others, and the oldest goes.
LEMMA ShiftsAll ==
    ASSUME NEW bits \in Bits, NEW bit \in BOOLEAN
    PROVE  \A i \in 2 .. Maps : Shifted(bits, bit)[i] = bits[i - 1]
<1>1. Maps \in Nat /\ Maps > 1
  BY RelayNumbers
<1>2. bits \in Seq(BOOLEAN) /\ Len(bits) = Maps
  BY <1>1 DEF Bits
<1> DEFINE rest == SubSeq(bits, 1, Maps - 1)
<1>3. rest \in Seq(BOOLEAN) /\ Len(rest) = Maps - 1 /\ \A i \in 1 .. Maps - 1 : rest[i] = bits[i]
  BY <1>1, <1>2
<1> HIDE DEF rest
<1>4. \A i \in 2 .. Maps : (<<bit>> \o rest)[i] = rest[i - 1]
  BY <1>1, <1>3
<1>5. \A i \in 2 .. Maps : i - 1 \in 1 .. Maps - 1
  BY <1>1
<1> QED BY <1>3, <1>4, <1>5 DEF Shifted, rest

\* With a seat for every car nobody loses one.
LEMMA RoomForAll ==
    ASSUME RecordSeats[scene] >= Cardinality(Senders), scene \in Scenes, NEW n \in Senders, ~Seated(n)
    PROVE  Evicted = {}
<1> DEFINE taken == {c \in Senders : Seated(c)}
           rest == Senders \ {n}
<1>1. IsFiniteSet(Senders) /\ RecordSeats[scene] \in Nat /\ Cardinality(Senders) \in Nat
  BY SenderFacts, FS_CardinalityType
<1>2. IsFiniteSet(rest) /\ Cardinality(rest) = Cardinality(Senders) - 1
  BY <1>1, FS_RemoveElement
<1>3. taken \subseteq rest
  OBVIOUS
<1> HIDE DEF rest, taken
<1>4. /\ IsFiniteSet(taken) /\ Cardinality(taken) <= Cardinality(rest) /\ Cardinality(taken) \in Nat
  BY <1>2, <1>3, FS_Subset, FS_CardinalityType
<1>5. Cardinality(taken) < RecordSeats[scene]
  BY <1>1, <1>2, <1>4
<1> QED BY <1>5 DEF Evicted, taken

\* What a map does then: only its own car's part of the record changes, and of
\* a car that is due nothing is started again.
LEMMA MapGiven ==
    ASSUME Lists, scene \in Scenes, RecordSeats[scene] >= Cardinality(Senders), NEW n \in Senders,
           NEW slot \in Slots \union {NoSlot}, NEW map, HeardMap(n, slot, map)
    PROVE  /\ crowded' = crowded /\ record'[n].slot = slot
           /\ \A k \in Senders \ {n} : record'[k] = record[k]
           /\ record'[n].ago = 0 \/ record'[n].ago \in 0 .. Second - 1
           /\ record[n].slot = slot /\ record[n].ago \in Second .. 2 * Second - 1 =>
                 /\ record'[n].ago = 0
                 /\ \A k \in Senders \ {n}, b \in Senders : shown'[k][b] = shown[k][b]
                 /\ \A b \in Senders \ {n} : record[b].slot \in Slots =>
                       /\ map[record[b].slot] = b => shown'[n][b][1]
                       /\ \A i \in 2 .. Maps : shown[n][b][i - 1] => shown'[n][b][i]
<1> DEFINE gap == record[n].ago
           new == ~Seated(n)
           moved == Seated(n) /\ record[n].slot # slot
           same == Seated(n) /\ record[n].slot = slot
           out == IF new THEN Evicted ELSE {}
           blank == IF new \/ moved THEN out \union {n} ELSE out
           seated == {t \in Senders : Seated(t)} \ out
           kept(a, b) == IF a \in blank \/ b \in blank \/ (a = n /\ gap >= Maps * Second)
                         THEN NeverShown ELSE shown[a][b]
           shows(t) == record[t].slot \in Slots /\ map[record[t].slot] = t
<1>1. out = {}
  BY RoomForAll
<1>2. gap \in Nat /\ Second \in Nat \ {0} /\ Maps * Second \in Nat /\ Maps * Second >= 2 * Second
  BY CleanNumbers, Seconds DEF Lists, RecordStates
<1>3. CASE same /\ ~Spaced(gap)
  <2>1. UNCHANGED <<record, shown, crowded>>
    BY <1>3 DEF HeardMap
  <2>2. gap < Second
    BY <1>2, <1>3 DEF Spaced
  <2>3. gap \in 0 .. Second - 1 /\ ~(gap \in Second .. 2 * Second - 1)
    BY <1>2, <2>2
  <2> QED BY <1>3, <2>1, <2>3
<1>4. CASE ~(same /\ ~Spaced(gap))
  <2>1. /\ record' = [c \in Senders |->
             IF c = n THEN [slot |-> slot, ago |-> 0,
                            gap |-> IF same THEN Least(gap, NoGap) ELSE NoGap]
             ELSE IF c \in out THEN NoRecord ELSE record[c]]
        /\ shown' = [a \in Senders |-> [b \in Senders |->
             IF a = n /\ b \in seated \ {n} THEN Shifted(kept(a, b), shows(b)) ELSE kept(a, b)]]
        /\ crowded' = IF \E c \in out : record[c].ago < OnRideFor THEN 0 ELSE crowded
    BY <1>4 DEF HeardMap
  <2>2. crowded' = crowded
    BY <1>1, <2>1
  <2>3. record'[n].slot = slot /\ record'[n].ago = 0
    BY <2>1
  <2>4. \A k \in Senders \ {n} : record'[k] = record[k]
    BY <1>1, <2>1
  <2>5. ASSUME record[n].slot = slot, gap \in Second .. 2 * Second - 1
        PROVE  /\ \A k \in Senders \ {n}, b \in Senders : shown'[k][b] = shown[k][b]
               /\ \A b \in Senders \ {n} : record[b].slot \in Slots =>
                     /\ map[record[b].slot] = b => shown'[n][b][1]
                     /\ \A i \in 2 .. Maps : shown[n][b][i - 1] => shown'[n][b][i]
    <3>1. \A b \in Senders : record[b].slot \in Slots \union {NoSlot} => Seated(b)
      BY Empties DEF Seated
    <3>2. blank = {} /\ seated = {t \in Senders : Seated(t)}
      BY <1>1, <2>5, <3>1
    <3>3. ~(gap >= Maps * Second)
      BY <1>2, <2>5
    <3>4. \A a \in Senders, b \in Senders : kept(a, b) = shown[a][b]
      BY <3>2, <3>3
    <3> HIDE DEF kept, seated, blank, out, gap
    <3>5. \A k \in Senders \ {n}, b \in Senders : shown'[k][b] = shown[k][b]
      BY <2>1, <3>4
    <3>6. ASSUME NEW b \in Senders \ {n}, record[b].slot \in Slots
          PROVE  /\ map[record[b].slot] = b => shown'[n][b][1]
                 /\ \A i \in 2 .. Maps : shown[n][b][i - 1] => shown'[n][b][i]
      <4>1. b \in seated \ {n}
        BY <3>1, <3>2, <3>6
      <4>2. shown'[n][b] = Shifted(kept(n, b), shows(b))
        BY <2>1, <4>1
      <4>3. kept(n, b) = shown[n][b] /\ shown[n][b] \in Bits
        BY <3>4 DEF Lists
      <4> DEFINE bit == shows(b)
                 bits == shown[n][b]
      <4>4. bit \in BOOLEAN /\ (map[record[b].slot] = b => bit)
        BY <3>6
      <4>5. shown'[n][b] = Shifted(bits, bit) /\ bits \in Bits
        BY <4>2, <4>3
      <4> HIDE DEF bit, bits
      <4>6. Shifted(bits, bit)[1] = bit
        BY <4>4, <4>5, Shifts
      <4>7. \A i \in 2 .. Maps : Shifted(bits, bit)[i] = bits[i - 1]
        BY <4>4, <4>5, ShiftsAll
      <4> QED BY <4>4, <4>5, <4>6, <4>7 DEF bits
    <3> QED BY <3>5, <3>6
  <2> QED BY <2>2, <2>3, <2>4, <2>5
<1> QED BY <1>3, <1>4

\* With room for more than all every car that is heard has its seat on the roster.
LEMMA NoteGiven ==
    ASSUME Lists, scene \in Scenes, RosterSeats[scene] > Cardinality(Senders), NEW n \in Senders,
           NEW slot, Note(n, slot)
    PROVE  /\ riders'[n] = [slot |-> slot, ago |-> 0]
           /\ \A k \in Senders \ {n} : riders'[k] = riders[k]
<1> DEFINE taken == {c \in Senders : OnRoster(c)}
<1>1. ~(Cardinality(taken) >= RosterSeats[scene])
  <2>1. IsFiniteSet(taken) /\ Cardinality(taken) <= Cardinality(Senders)
    BY SenderFacts, FS_Subset
  <2>2. Cardinality(taken) \in Nat /\ Cardinality(Senders) \in Nat /\ RosterSeats[scene] \in Nat
    BY <2>1, SenderFacts, FS_CardinalityType
  <2> HIDE DEF taken
  <2> QED BY <2>1, <2>2
<1> QED BY <1>1 DEF Note

\* Just after trouble nothing is claimed of anybody.
LEMMA NothingKept ==
    ASSUME NEW b \in Nat, NEW i \in Nat PROVE ~(0 > b) /\ ~(0 > b + Second) /\ ~(0 > b + i * Second)
<1>1. Second \in Nat /\ i * Second \in Nat
  BY CleanNumbers, Seconds
<1> QED BY <1>1

\* The beacon of a car that everybody hears.
LEMMA BeaconKept ==
    ASSUME RelayIInv, CleanIInv, Clear, NEW c \in Senders, c \in due, due' = due \ {c},
           UNCHANGED <<sceneVars, phase, clean>>,
           hears' = [d \in Senders |-> [s \in Slots |->
              IF d # c /\ s = slotOf[c] THEN [by |-> c, ago |-> 0] ELSE hears[d][s]]],
           Note(c, slotOf[c]), HeardMap(c, slotOf[c], MapOf(c))
    PROVE  \A x \in Senders : Kept(x)'
<1>1. /\ scene \in Scenes /\ Lists /\ phase \in Slots /\ slotOf' = slotOf /\ phase' = phase /\ clean' = clean
      /\ hears \in [Senders -> [Slots -> HeardStates]]
  BY DEF RelayIInv, RelayShape, sceneVars
<1>2. \A x \in Senders : slotOf[x] \in Slots
  BY DEF RelayIInv, RelayShape, Clear, AllLeasedApart
<1>3. slotOf[c] = phase
  <2>1. slotOf[c] \in {phase, NoSlot}
    BY DEF CleanIInv, DueAt
  <2> QED BY <1>2, <2>1, CleanNumbers
<1>4. \A x \in Senders \ {c} : slotOf[x] # slotOf[c]
  BY DEF Clear, AllLeasedApart
<1>5. RecordSeats[scene] >= Cardinality(Senders) /\ RosterSeats[scene] > Cardinality(Senders)
  BY DEF Clear
<1> DEFINE map == MapOf(c)
           slot == slotOf[c]
<1>6. /\ record'[c].slot = slot
      /\ \A k \in Senders \ {c} : record'[k] = record[k]
      /\ record'[c].ago = 0 \/ record'[c].ago \in 0 .. Second - 1
      /\ record[c].slot = slot /\ record[c].ago \in Second .. 2 * Second - 1 =>
            /\ record'[c].ago = 0
            /\ \A k \in Senders \ {c}, b \in Senders : shown'[k][b] = shown[k][b]
            /\ \A b \in Senders \ {c} : record[b].slot \in Slots =>
                  /\ map[record[b].slot] = b => shown'[c][b][1]
                  /\ \A i \in 2 .. Maps : shown[c][b][i - 1] => shown'[c][b][i]
  <2>1. HeardMap(c, slot, map) /\ slot \in Slots \union {NoSlot}
    BY <1>2
  <2> HIDE DEF map, slot
  <2> QED BY <1>1, <1>5, <2>1, MapGiven
<1>7. riders'[c] = [slot |-> slot, ago |-> 0] /\ \A k \in Senders \ {c} : riders'[k] = riders[k]
  BY <1>1, <1>5, NoteGiven
<1>8. Behind(c) = Second /\ Behind(c)' = 0
  <2>1. Behind(c) = Second
    BY DEF Behind
  <2>2. Behind(c)' = (phase + Second - slotOf[c]) % Second
    BY <1>1 DEF Behind
  <2>3. (phase + Second - slotOf[c]) % Second = 0
    <3>1. ~(phase < slotOf[c]) /\ phase - slotOf[c] = 0
      BY <1>1, <1>3, CleanNumbers DEF Slots
    <3> QED BY <1>1, <1>2, <3>1, TurnLeft
  <2> QED BY <2>1, <2>2, <2>3
<1>9. \A x \in Senders \ {c} : Behind(x)' = Behind(x)
  BY <1>1 DEF Behind
<1>10. \A x \in Senders : Behind(x) \in 0 .. Second
  BY <1>1, <1>2, BehindIs
<1>11. Second \in Nat \ {0} /\ clean \in Nat /\ Window \in Nat /\ Second < Window
  <2>1. (Maps + 2) * Second \in Nat
    BY CleanNumbers, Seconds
  <2> QED BY <2>1, CleanNumbers DEF CleanIInv
<1>12. \A x \in Senders : Kept(x)
  BY DEF CleanIInv
<1>13. clean > Second => record[c].slot = slot /\ record[c].ago \in Second .. 2 * Second - 1
  <2> SUFFICES ASSUME clean > Second
               PROVE  record[c].slot = slot /\ record[c].ago \in Second .. 2 * Second - 1
    OBVIOUS
  <2>1. record[c].slot = slot /\ record[c].ago \in Second .. Second + Second - 1
    BY <1>8, <1>12 DEF Kept, Caught
  <2> QED BY <1>11, <2>1
<1> HIDE DEF map, slot
<1>14. ASSUME NEW x \in Senders \ {c} PROVE Kept(x)'
  <2>1. Behind(x)' = Behind(x) /\ Behind(x) \in 0 .. Second /\ record'[x] = record[x] /\ riders'[x] = riders[x] /\ Kept(x)
    BY <1>6, <1>7, <1>9, <1>10, <1>12
  <2>2. Caught(x) => Caught(x)'
    <3>1. \A d \in Senders \ {x} : hears'[d][slotOf[x]] = hears[d][slotOf[x]]
      BY <1>2, <1>4
    <3> QED BY <1>1, <2>1, <3>1 DEF Caught
  <2>3. ASSUME NEW b \in Senders \ {x}, NEW i \in 1 .. Maps, clean > Behind(x) + i * Second
        PROVE  shown'[x][b][i]
    <3>1. i \in Nat \ {0} /\ i * Second \in Nat /\ i * Second >= Second
      BY CleanNumbers, Seconds
    <3>2. clean > Second
      BY <1>11, <2>1, <2>3, <3>1
    <3>3. shown'[x][b] = shown[x][b]
      BY <1>6, <1>13, <3>2
    <3>4. shown[x][b][i]
      BY <2>1, <2>3 DEF Kept
    <3> QED BY <3>3, <3>4
  <2> QED BY <1>1, <2>1, <2>2, <2>3 DEF Kept
<1>15. Caught(c)'
  <2>1. \A d \in Senders \ {c} : hears'[d][slot] = [by |-> c, ago |-> 0]
    BY <1>2 DEF slot
  <2>2. record'[c].ago \in 0 .. 0 + Second - 1
    BY <1>6, <1>11
  <2> QED BY <1>1, <1>6, <1>7, <1>8, <2>1, <2>2 DEF Caught, slot
<1>16. clean > Behind(c)' + Second => record'[c].ago = Behind(c)'
  BY <1>6, <1>8, <1>11, <1>13
<1>17. ASSUME NEW b \in Senders \ {c}, NEW i \in 1 .. Maps, clean > Behind(c)' + i * Second
       PROVE  shown'[c][b][i]
  <2>1. i \in Nat \ {0} /\ i * Second \in Nat /\ i * Second >= Second
    BY CleanNumbers, Seconds
  <2>2. clean > Second /\ clean > i * Second
    <3> DEFINE m == i * Second
    <3>1. m \in Nat /\ m >= Second
      BY <2>1
    <3>2. clean > 0 + m
      BY <1>8, <1>17
    <3> HIDE DEF m
    <3>3. clean > Second /\ clean > m
      BY <1>11, <3>1, <3>2
    <3> QED BY <3>3 DEF m
  <2>3. Caught(b) /\ Behind(b) \in 0 .. Second
    BY <1>10, <1>11, <1>12, <2>2 DEF Kept
  <2>4. record[b].slot = slotOf[b] /\ slotOf[b] \in Slots
    BY <1>2, <2>3 DEF Caught
  <2>5. hears[c][slotOf[b]] = [by |-> b, ago |-> Behind(b)]
    BY <2>3 DEF Caught
  <2>6. map[slotOf[b]] = b
    <3>1. map[slotOf[b]] = IF hears[c][slotOf[b]].ago < Window THEN hears[c][slotOf[b]].by ELSE NoCar
      BY <2>4 DEF map, MapOf
    <3>2. Behind(b) < Window
      BY <1>11, <2>3
    <3> QED BY <2>5, <3>1, <3>2
  <2>7. /\ map[record[b].slot] = b => shown'[c][b][1]
        /\ \A j \in 2 .. Maps : shown[c][b][j - 1] => shown'[c][b][j]
    BY <1>6, <1>13, <2>2, <2>4
  <2>9. CASE i = 1
    BY <2>4, <2>6, <2>7, <2>9
  <2>10. CASE i # 1
    <3>1. i \in 2 .. Maps /\ i - 1 \in 1 .. Maps /\ i - 1 \in Nat /\ i = (i - 1) + 1
      BY <2>10, CleanNumbers
    <3>2. i * Second = (i - 1) * Second + Second /\ (i - 1) * Second \in Nat
      BY <3>1, Seconds
    <3>3. clean > Behind(c) + (i - 1) * Second
      BY <1>8, <1>11, <2>2, <3>2
    <3>4. shown[c][b][i - 1]
      BY <1>12, <3>1, <3>3 DEF Kept
    <3> QED BY <2>7, <3>1, <3>4
  <2> QED BY <2>9, <2>10
<1>18. Kept(c)'
  BY <1>1, <1>15, <1>16, <1>17 DEF Kept
<1> QED BY <1>14, <1>18

\* A beacon, missed by some or by nobody.
LEMMA SendClean == ASSUME RelayIInv, CleanIInv, NEW c \in Senders, SendBeacon(c) PROVE CleanIInv'
<1>1. PICK missed \in SUBSET {d \in Senders \union {Judge} : <<c, d>> \in Lossy[scene] \ dead} :
        LET hearers == {d \in (Senders \union {Judge}) \ {c} : <<c, d>> \notin dead} \ missed IN
        /\ clean' = IF missed = {} THEN clean ELSE 0
        /\ hears' = [d \in Senders |-> [s \in Slots |->
             IF d \in hearers /\ s = slotOf[c] THEN [by |-> c, ago |-> 0] ELSE hears[d][s]]]
        /\ IF Judge \in hearers
           THEN Note(c, slotOf[c]) /\ HeardMap(c, slotOf[c], MapOf(c))
           ELSE UNCHANGED judgeVars
  BY DEF SendBeacon
<1> DEFINE hearers == {d \in (Senders \union {Judge}) \ {c} : <<c, d>> \notin dead} \ missed
<1>2. /\ c \in due /\ due' = due \ {c} /\ UNCHANGED <<sceneVars, phase>>
      /\ scene' = scene /\ slotOf' = slotOf /\ dead' = dead /\ phase' = phase
  BY DEF SendBeacon, sceneVars
<1>3. due' \subseteq DueAt(phase)'
  BY <1>2 DEF CleanIInv, DueAt
<1>4. clean' \in 0 .. (Maps + 2) * Second
  <2>1. (Maps + 2) * Second \in Nat /\ clean \in 0 .. (Maps + 2) * Second
    BY CleanNumbers, Seconds DEF CleanIInv
  <2> QED BY <1>1, <2>1
<1>5. RecordSeats[scene'] >= Cardinality(Senders) => crowded' = OnRideFor
  <2> SUFFICES ASSUME RecordSeats[scene] >= Cardinality(Senders) PROVE crowded' = crowded
    BY <1>2 DEF CleanIInv
  <2>1. CASE Judge \in hearers
    <3>1. /\ HeardMap(c, slotOf[c], MapOf(c)) /\ Lists /\ scene \in Scenes
          /\ slotOf[c] \in Slots \union {NoSlot}
      BY <1>1, <2>1 DEF RelayIInv, RelayShape
    <3> DEFINE map == MapOf(c)
               slot == slotOf[c]
    <3>2. HeardMap(c, slot, map) /\ slot \in Slots \union {NoSlot}
      BY <3>1
    <3> HIDE DEF map, slot
    <3> QED BY <3>1, <3>2, MapGiven
  <2>2. CASE Judge \notin hearers
    BY <1>1, <2>2 DEF judgeVars
  <2> QED BY <2>1, <2>2
<1>6. ASSUME Clear' PROVE \A x \in Senders : Kept(x)'
  <2>1. Clear
    BY <1>2, <1>6 DEF Clear, AllLeasedApart
  <2>2. CASE missed = {}
    <3>1. hearers = (Senders \union {Judge}) \ {c}
      BY <2>1, <2>2 DEF Clear
    <3>2. Judge \in hearers
      BY <3>1, SenderFacts
    <3>3. hears' = [d \in Senders |-> [s \in Slots |->
              IF d # c /\ s = slotOf[c] THEN [by |-> c, ago |-> 0] ELSE hears[d][s]]]
      BY <1>1, <3>1
    <3>4. Note(c, slotOf[c]) /\ HeardMap(c, slotOf[c], MapOf(c)) /\ clean' = clean
      BY <1>1, <2>2, <3>2
    <3> HIDE DEF hearers
    <3> QED BY <1>2, <2>1, <3>3, <3>4, BeaconKept
  <2>3. CASE missed # {}
    <3> TAKE x \in Senders
    <3>1. clean' = 0
      BY <1>1, <2>3
    <3>2. Behind(x)' \in Nat
      <4>1. slotOf[x] \in Slots /\ phase \in Slots
        BY <2>1 DEF RelayIInv, RelayShape, Clear, AllLeasedApart
      <4>2. (phase + Second - slotOf[x]) % Second \in Nat
        BY <4>1, TurnLeft, CleanNumbers DEF Slots
      <4> QED BY <1>2, <4>2, CleanNumbers DEF Behind
    <3> QED BY <3>1, <3>2, NothingKept DEF Kept
  <2> QED BY <2>2, <2>3
<1> QED BY <1>3, <1>4, <1>5, <1>6 DEF CleanIInv

\* A tick, which waits for every car that is due.
LEMMA TickClean == ASSUME RelayIInv, CleanIInv, Tick PROVE CleanIInv'
<1> DEFINE cap == (Maps + 2) * Second
<1>1. /\ due = {} /\ phase' = (phase + 1) % Second /\ due' = DueAt(phase')
      /\ hears' = [c \in Senders |-> [s \in Slots |-> HeardOlder(hears[c][s])]]
      /\ record' = [c \in Senders |-> RecordOlder(record[c])]
      /\ riders' = [c \in Senders |-> RiderOlder(riders[c])]
      /\ crowded' = Least(crowded + 1, OnRideFor)
      /\ clean' = Least(clean + 1, cap)
      /\ scene' = scene /\ slotOf' = slotOf /\ dead' = dead /\ shown' = shown
  BY DEF Tick, sceneVars
<1>2. cap \in Nat /\ clean \in 0 .. cap
  BY CleanNumbers, Seconds DEF CleanIInv
<1>3. phase \in Slots /\ \A c \in Senders : slotOf[c] \in Slots \union {NoSlot}
  BY DEF RelayIInv, RelayShape
<1>4. due' \subseteq DueAt(phase)'
  BY <1>1 DEF DueAt
<1> HIDE DEF cap
<1>5. clean' \in 0 .. cap /\ (clean' > 0 => clean' <= clean + 1)
  BY <1>1, <1>2 DEF Least
<1>6. RecordSeats[scene'] >= Cardinality(Senders) => crowded' = OnRideFor
  BY <1>1, CleanNumbers DEF CleanIInv, Least
<1>7. ASSUME Clear', NEW c \in Senders PROVE Kept(c)'
  <2>1. Clear
    BY <1>1, <1>7 DEF Clear, AllLeasedApart
  <2>2. \A x \in Senders : slotOf[x] \in Slots
    BY <1>3, <2>1 DEF Clear, AllLeasedApart
  <2>3. Kept(c)
    BY <2>1 DEF CleanIInv
  <2>4. Behind(c)' = Behind(c) + 1 /\ Behind(c) \in 0 .. Second
    BY <1>1, <1>3, <2>2, BehindTicks, BehindIs
  <2>5. Behind(c) < Second
    <3>1. Behind(c) = (phase + Second - slotOf[c]) % Second
      BY <1>1 DEF Behind
    <3> QED BY <1>3, <2>2, <3>1, TurnLeft, CleanNumbers DEF Slots
  <2> DEFINE b == Behind(c)
             b2 == Behind(c)'
  <2>6. b2 = b + 1 /\ b \in Nat /\ b < Second
    BY <2>4, <2>5, CleanNumbers
  <2> HIDE DEF b, b2
  <2>7. \A k \in Nat : clean' > b2 + k => clean > b + k
    BY <1>2, <1>5, <2>6
  <2>8. ASSUME clean' > b2 PROVE Caught(c)'
    <3>1. Caught(c)
      <4>1. clean > b + 0
        <5>1. clean' > b2 + 0
          BY <2>6, <2>8
        <5> QED BY <2>7, <5>1
      <4> QED BY <2>3, <2>6, <4>1 DEF Kept, b
    <3>2. ASSUME NEW d \in Senders \ {c} PROVE hears'[d][slotOf[c]] = [by |-> c, ago |-> b2]
      <4>1. hears'[d][slotOf[c]] = HeardOlder(hears[d][slotOf[c]])
        BY <1>1, <2>2
      <4>2. hears[d][slotOf[c]] = [by |-> c, ago |-> b]
        BY <3>1 DEF Caught, b
      <4>3. ~(b + 1 >= Window)
        BY <2>6, CleanNumbers
      <4> QED BY <2>6, <4>1, <4>2, <4>3 DEF HeardOlder
    <3>3. riders'[c] = [slot |-> slotOf[c], ago |-> b2]
      <4>1. riders'[c] = RiderOlder([slot |-> slotOf[c], ago |-> b])
        BY <1>1, <3>1 DEF Caught, b
      <4>2. Least(b + 1, StaleAfter + 1) = b + 1
        BY <2>6, CleanNumbers DEF Least
      <4> QED BY <2>6, <4>1, <4>2 DEF RiderOlder
    <3>4. record'[c].slot = slotOf[c] /\ record'[c].ago = Least(record[c].ago + 1, OnRideFor)
      BY <1>1, <3>1 DEF Caught, RecordOlder, RelayIInv, Lists, RecordStates
    <3>5. record[c].ago \in b .. b + Second - 1
      BY <3>1 DEF Caught, b
    <3>6. record'[c].ago \in b2 .. b2 + Second - 1
      BY <2>6, <3>4, <3>5, CleanNumbers DEF Least
    <3> QED BY <1>1, <3>2, <3>3, <3>4, <3>6 DEF Caught, b2
  <2>9. ASSUME clean' > b2 + Second PROVE record'[c].ago = b2
    <3>1. record[c].ago = b
      BY <2>3, <2>7, <2>9, CleanNumbers DEF Kept, b
    <3>2. record'[c].ago = Least(record[c].ago + 1, OnRideFor)
      BY <1>1 DEF RecordOlder, RelayIInv, Lists, RecordStates
    <3> QED BY <2>6, <3>1, <3>2, CleanNumbers DEF Least
  <2>10. ASSUME NEW d \in Senders \ {c}, NEW i \in 1 .. Maps, clean' > b2 + i * Second
         PROVE  shown'[c][d][i]
    <3>1. i * Second \in Nat
      BY Seconds
    <3>2. clean > b + i * Second
      BY <2>7, <2>10, <3>1
    <3> QED BY <1>1, <2>3, <3>2 DEF Kept, b
  <2> QED BY <2>8, <2>9, <2>10 DEF Kept, b2
<1> QED BY <1>4, <1>5, <1>6, <1>7 DEF CleanIInv, cap

\* What is no beacon and no tick counts as trouble if it disturbs anything.
LEMMA QuietClean ==
    ASSUME RelayIInv, CleanIInv, UNCHANGED <<scene, phase, hears, judgeVars>>,
           due' \subseteq DueAt(phase)', slotOf' \in [Senders -> Slots \union {NoSlot}],
           \/ UNCHANGED <<due, slotOf, dead, clean>>
           \/ clean' = 0
           \/ UNCHANGED <<clean, slotOf>> /\ ~Clear'
    PROVE  CleanIInv'
<1>1. UNCHANGED <<record, shown, riders, crowded>>
  BY DEF judgeVars
<1>2. clean' \in 0 .. (Maps + 2) * Second
  <2>1. (Maps + 2) * Second \in Nat /\ clean \in 0 .. (Maps + 2) * Second
    BY CleanNumbers, Seconds DEF CleanIInv
  <2> QED BY <2>1
<1>3. RecordSeats[scene'] >= Cardinality(Senders) => crowded' = OnRideFor
  BY <1>1 DEF CleanIInv
<1>4. ASSUME Clear', NEW x \in Senders PROVE Kept(x)'
  <2>1. CASE UNCHANGED <<due, slotOf, dead, clean>>
    <3>1. Clear
      BY <1>4, <2>1 DEF Clear, AllLeasedApart
    <3>2. Kept(x)
      BY <3>1 DEF CleanIInv
    <3>3. Behind(x)' = Behind(x)
      BY <2>1 DEF Behind
    <3>4. Caught(x)' = Caught(x)
      BY <1>1, <2>1, <3>3 DEF Caught
    <3> QED BY <1>1, <2>1, <3>2, <3>3, <3>4 DEF Kept
  <2>2. CASE clean' = 0
    <3>1. Behind(x)' \in Nat
      <4>1. slotOf'[x] \in Slots /\ phase' \in Slots
        BY <1>4 DEF RelayIInv, RelayShape, Clear, AllLeasedApart
      <4>2. (phase' + Second - slotOf'[x]) % Second \in Nat
        BY <4>1, TurnLeft, CleanNumbers DEF Slots
      <4> QED BY <4>2, CleanNumbers DEF Behind
    <3> QED BY <2>2, <3>1, NothingKept DEF Kept
  <2> QED BY <1>4, <2>1, <2>2
<1> QED BY <1>2, <1>3, <1>4 DEF CleanIInv

\* At the start nothing has been clean yet.
LEMMA CleanInitially == RelayInit => CleanIInv
<1> SUFFICES ASSUME RelayInit PROVE CleanIInv
  OBVIOUS
<1>1. due \subseteq DueAt(phase) /\ clean = 0 /\ crowded = OnRideFor /\ scene \in Scenes
  BY DEF RelayInit
<1>2. clean \in 0 .. (Maps + 2) * Second
  BY <1>1, CleanNumbers, Seconds
<1>3. ASSUME Clear, NEW x \in Senders PROVE Kept(x)
  <2>1. slotOf[x] \in Slots /\ phase \in Slots
    <3>1. slotOf[x] \in Slots \union {NoSlot}
      BY <1>1, SenderFacts DEF RelayInit
    <3>2. phase \in Slots
      BY CleanNumbers DEF RelayInit, Slots
    <3> QED BY <1>3, <3>1, <3>2 DEF Clear, AllLeasedApart
  <2>2. Behind(x) \in Nat
    BY <2>1, BehindIs, CleanNumbers
  <2> QED BY <1>1, <2>2, NothingKept DEF Kept
<1> QED BY <1>1, <1>2, <1>3 DEF CleanIInv

\* Every step keeps it.
LEMMA CleanSteps == RelayIInv /\ CleanIInv /\ [RelayNext]_relayVars => CleanIInv'
<1> SUFFICES ASSUME RelayIInv, CleanIInv, [RelayNext]_relayVars PROVE CleanIInv'
  OBVIOUS
<1>1. CASE Tick
  BY <1>1, TickClean
<1>2. ASSUME NEW c \in Senders, SendBeacon(c) PROVE CleanIInv'
  BY <1>2, SendClean
<1>3. CASE LinkDies
  <2>1. clean' = 0 /\ UNCHANGED <<scene, phase, hears, judgeVars, slotOf, due>>
    BY <1>3 DEF LinkDies, Changed
  <2>2. due' \subseteq DueAt(phase)' /\ slotOf' \in [Senders -> Slots \union {NoSlot}]
    BY <2>1 DEF CleanIInv, DueAt, RelayIInv, RelayShape
  <2> QED BY <2>1, <2>2, QuietClean
<1>4. ASSUME NEW c \in Senders, Wait(c) PROVE CleanIInv'
  <2>1. slotOf[c] = NoSlot /\ due' = due \ {c}
        /\ UNCHANGED <<scene, phase, hears, judgeVars, slotOf, dead, clean>>
    BY <1>4 DEF Wait, sceneVars
  <2>2. due' \subseteq DueAt(phase)' /\ slotOf' \in [Senders -> Slots \union {NoSlot}]
    BY <2>1 DEF CleanIInv, DueAt, RelayIInv, RelayShape
  <2>3. ~Clear'
    BY <2>1 DEF Clear, AllLeasedApart
  <2> QED BY <2>1, <2>2, <2>3, QuietClean
<1>5. ASSUME NEW c \in Senders, Move(c) PROVE CleanIInv'
  <2>1. clean' = 0 /\ due = {} /\ due' = {} /\ UNCHANGED <<scene, phase, hears, judgeVars>>
    BY <1>5 DEF Move, Changed
  <2>2. slotOf' \in [Senders -> Slots \union {NoSlot}]
    BY <1>5 DEF Move, RelayIInv, RelayShape
  <2> QED BY <2>1, <2>2, QuietClean
<1>6. CASE UNCHANGED relayVars
  <2>1. UNCHANGED <<scene, phase, hears, judgeVars, due, slotOf, dead, clean>>
    BY <1>6 DEF relayVars, sceneVars
  <2>2. due' \subseteq DueAt(phase)' /\ slotOf' \in [Senders -> Slots \union {NoSlot}]
    BY <2>1 DEF CleanIInv, DueAt, RelayIInv, RelayShape
  <2> QED BY <2>1, <2>2, QuietClean
<1> QED BY <1>1, <1>2, <1>3, <1>4, <1>5, <1>6 DEF RelayNext

\* All maps of a record, all showing the origin, are enough.
LEMMA ShownByAll ==
    ASSUME NEW maps, \A i \in 1 .. Maps : maps[i]
    PROVE  \A n \in {ShownOne, ShownTwo} : Cardinality({i \in 1 .. Maps : maps[i]}) >= n
<1>1. {i \in 1 .. Maps : maps[i]} = 1 .. Maps
  OBVIOUS
<1>2. Cardinality(1 .. Maps) = Maps
  BY CleanNumbers, FS_Interval
<1>3. \A n \in {ShownOne, ShownTwo} : Maps >= n
  BY CleanNumbers
<1> QED BY <1>1, <1>2, <1>3

\* Every car the verdict asks has all its maps showing the origin.
LEMMA CleanSkips == RelayIInv /\ CleanIInv => CleanAirSkips
<1> SUFFICES ASSUME RelayIInv, CleanIInv, clean = (Maps + 2) * Second, Clear,
                    NEW o \in Senders, NEW r \in Relayers(o)
             PROVE  Verdict(o, r) = Skip
  BY DEF CleanAirSkips, Clear
<1>1. /\ Lists /\ phase \in Slots /\ \A c \in Senders : slotOf[c] \in Slots
      /\ RosterSeats[scene] > Cardinality(Senders) /\ crowded = OnRideFor /\ scene \in Scenes
  BY DEF RelayIInv, RelayShape, Clear, AllLeasedApart, CleanIInv
<1>2. \A c, d \in Senders : slotOf[c] = slotOf[d] => c = d
  BY DEF Clear, AllLeasedApart
<1>3. ASSUME NEW c \in Senders
      PROVE  /\ riders[c].slot = slotOf[c] /\ riders[c].ago < OnRideFor
             /\ record[c].slot = slotOf[c] /\ record[c].ago < FreshFor
             /\ \A b \in Senders \ {c}, i \in 1 .. Maps : shown[c][b][i]
  <2> DEFINE b == Behind(c)
  <2>1. b \in 0 .. Second
    BY <1>1, BehindIs
  <2> HIDE DEF b
  <2>2. clean > b /\ clean > b + Second /\ clean >= Maps * Second + 2 * Second
    BY <2>1, CleanNumbers, Seconds
  <2>3. Kept(c)
    BY DEF CleanIInv
  <2>4. Caught(c) /\ record[c].ago = b
    BY <2>2, <2>3 DEF Kept, b
  <2>5. ASSUME NEW d \in Senders \ {c}, NEW i \in 1 .. Maps PROVE shown[c][d][i]
    <3>1. i * Second <= Maps * Second
      <4>1. Maps - i \in Nat /\ i \in Nat /\ Maps \in Nat /\ Second \in Nat
        BY CleanNumbers
      <4>2. (Maps - i) * Second \in Nat /\ i * Second \in Nat
        BY <4>1, Seconds
      <4>3. Maps * Second = (Maps - i) * Second + i * Second
        BY <4>1
      <4> QED BY <4>2, <4>3
    <3>2. i * Second \in Nat /\ Maps * Second \in Nat
      BY Seconds, CleanNumbers
    <3>3. clean > b + i * Second
      BY <2>1, <2>2, <3>1, <3>2, CleanNumbers
    <3> QED BY <2>3, <3>3 DEF Kept, b
  <2>6. riders[c].slot = slotOf[c] /\ riders[c].ago = b /\ record[c].slot = slotOf[c]
    BY <2>4 DEF Caught, b
  <2>7. b < FreshFor /\ b < OnRideFor
    BY <2>1, CleanNumbers
  <2> QED BY <2>4, <2>5, <2>6, <2>7
<1>4. \A c \in Senders : Seated(c)
  BY <1>1, <1>3, Empties DEF Seated
<1>5. ASSUME NEW k \in Senders \ {o} PROVE Standing(k, o, r) = Skip
  <2>1. HearsSteadily(k, o)
    <3> DEFINE maps == shown[k][o]
               two == MapCoversTwoBeacons(record[k].slot, record[o].slot)
    <3>1. \A i \in 1 .. Maps : maps[i]
      BY <1>3
    <3>2. maps[1]
      BY <3>1, CleanNumbers
    <3>3. HearsSteadily(k, o) <=>
            /\ Cardinality({i \in 1 .. Maps : maps[i]}) >= (IF two THEN ShownTwo ELSE ShownOne)
            /\ maps[1] \/ (~two /\ maps[2] /\ PreviousMapFresh(k))
      BY DEF HearsSteadily
    <3> HIDE DEF maps, two
    <3>4. Cardinality({i \in 1 .. Maps : maps[i]}) >= (IF two THEN ShownTwo ELSE ShownOne)
      BY <3>1, ShownByAll
    <3> QED BY <3>2, <3>3, <3>4
  <2>2. Seated(k) /\ record[k].ago < FreshFor /\ ~(record[k].ago >= FreshFor)
    <3>1. record[k].ago \in Nat
      BY <1>1 DEF Lists, RecordStates
    <3> QED BY <1>3, <1>4, <3>1, CleanNumbers
  <2> QED BY <2>1, <2>2 DEF Standing
<1> DEFINE asked == {k \in Senders : OnRide(k) \/ OnRideHere(k)} \ {o, IF Placed(r) THEN r ELSE o}
           stands == {Standing(k, o, r) : k \in asked} \union {Skip}
<1>6. ~RosterMayMissCars
  <2> DEFINE taken == {c \in Senders : OnRoster(c)}
  <2>1. IsFiniteSet(taken) /\ Cardinality(taken) <= Cardinality(Senders)
    BY SenderFacts, FS_Subset
  <2>2. Cardinality(taken) \in Nat /\ Cardinality(Senders) \in Nat /\ RosterSeats[scene] \in Nat
    BY <1>1, <2>1, SenderFacts, FS_CardinalityType
  <2>3. RosterMayMissCars => Cardinality(taken) >= RosterSeats[scene]
    BY DEF RosterMayMissCars
  <2> HIDE DEF taken
  <2> QED BY <1>1, <2>1, <2>2, <2>3
<1>7. OnRide(o) /\ riders[o].slot # NoSlot /\ HoldersOf(riders[o].slot) = {o}
  BY <1>1, <1>2, <1>3, CleanNumbers DEF OnRide, HoldersOf
<1>8. Seated(o) /\ record[o].slot = riders[o].slot
  BY <1>3, <1>4
<1>9. ~(crowded < OnRideFor)
  BY <1>1, CleanNumbers
<1>10. Verdict(o, r) = (CHOOSE v \in stands : \A w \in stands : w <= v)
  BY <1>6, <1>7, <1>8, <1>9 DEF Verdict
<1>11. stands = {Skip}
  BY <1>5
<1> HIDE DEF stands
<1> QED BY <1>10, <1>11 DEF Skip

-----------------------------------------------------------------------------

\* Where nothing is lost and nobody moves the judge soon skips every forward:
\* a car's second beacon since the trouble is counted, and each from then on
\* (FAST_RELAY_MAP_SPACING_MS is under a second), and shows every other car.
THEOREM AirCleanSkips == RelaySpec => []CleanAirSkips
<1>1. RelayInit => CleanIInv
  BY CleanInitially
<1>2. RelayIInv /\ CleanIInv /\ [RelayNext]_relayVars => CleanIInv'
  BY CleanSteps
<1> QED BY <1>1, <1>2, RelayIInvHolds, CleanSkips, PTL DEF RelaySpec

-----------------------------------------------------------------------------
(* Reference.                                                              *)

LEMMA RefNumbers ==
    /\ {Lapse, Lease, Listen, MaxRefHops, Fade} \subseteq Nat \ {0}
    /\ Lapse < Lease /\ MaxRefHops < Unreachable /\ Unreachable = 15
    /\ Cars \subseteq Nat /\ Nobody \notin Cars /\ Nobody = 0
<1>1. /\ {Lapse, Lease, Listen, MaxRefHops, Fade} \subseteq Nat \ {0}
      /\ Lapse < Lease /\ MaxRefHops < Unreachable
      /\ Cars \subseteq Nat \ {Nobody}
  BY ReferenceAssumption
<1> QED BY <1>1 DEF Unreachable, Nobody

-----------------------------------------------------------------------------
(* The inductive invariant.                                                *)

RefRiderStates ==
    [age : 0 .. Lease, directAge : 0 .. Lease, direct : BOOLEAN, locked : BOOLEAN,
     fit : BOOLEAN, leased : BOOLEAN, refId : Cars \union {Nobody},
     refHops : 0 .. MaxRefHops \union {Unreachable}, refLocked : BOOLEAN, refFit : BOOLEAN]

Rosters == [Cars -> RefRiderStates]

Clocks == {NoClock, Pulse} \union (Cars \X (0 .. MaxFaults[ride]))

RefShape ==
    /\ ride \in Rides /\ on \subseteq Riders[ride]
    /\ turn \in Nat /\ turn > 0
    /\ listen \in [Cars -> 0 .. Listen]
    /\ roster \in [Cars -> Rosters]
    /\ gone \in [Cars -> 0 .. Fade + 1]

Beliefs ==
    /\ ref \in [Cars -> Candidates]
    /\ parent \in [Cars -> Cars \union {Nobody}]
    /\ hops \in [Cars -> 0 .. MaxRefHops \union {Unreachable}]
    /\ \A c \in Cars : (hops[c] = 0) = (ref[c].id = c)

\* A car starts again once for every fault at most.
Boots ==
    /\ clock \in [Cars -> Clocks]
    /\ faults \in 0 .. MaxFaults[ride]
    /\ boots \in [Cars -> 0 .. faults]

\* The news of a car is as old as its last beacon, and the word of others of
\* it older by a lapse for each hop at most.
Known(list) == \A d \in Cars : list[d].age < Lease => gone[d] <= list[d].age

Span(h) == h * (Lapse - 1)

Told(list) ==
    \A d \in Cars : list[d].refId # Nobody /\ list[d].refHops < MaxRefHops =>
        gone[list[d].refId] <= Span(list[d].refHops) + list[d].age

\* A car elects as its own turn comes, so once a second.
HadTurn(c) == \E i \in 1 .. turn - 1 : Order[ride][i] = c

Named ==
    \A c \in on : ref[c].id # Nobody =>
        gone[ref[c].id] <= Span(MaxRefHops) + (IF HadTurn(c) THEN 0 ELSE 1)

Present == \A c \in Cars : IF c \in on THEN gone[c] = 0 ELSE ref[c].id = Nobody

News == \A c \in Cars : Known(roster[c]) /\ Told(roster[c])

RefIInv == RefShape /\ Beliefs /\ Boots /\ Present /\ News /\ Named

-----------------------------------------------------------------------------
(* Electing and choosing.                                                  *)

\* betterReference orders any cars, so one of them is best.
LEMMA OneIsBest ==
    ASSUME NEW T, T \subseteq [locked : BOOLEAN, fit : BOOLEAN, id : Nat], T # {}
    PROVE  \E best \in T : \A other \in T \ {best} : Better(best, other)
<1> DEFINE L == IF \E t \in T : t.locked THEN {t \in T : t.locked} ELSE T
           F == IF \E t \in L : t.fit THEN {t \in L : t.fit} ELSE L
           ids == {t.id : t \in F}
<1>1. L \subseteq T /\ L # {} /\ \A t \in T, u \in L : t.locked => u.locked
  OBVIOUS
<1> HIDE DEF L
<1>2. F \subseteq L /\ F # {} /\ \A t \in L, u \in F : t.fit => u.fit
  BY <1>1
<1> HIDE DEF F
<1>3. ids \in SUBSET Nat /\ ids # {}
  BY <1>1, <1>2
<1>4. PICK n \in ids : \A m \in ids : n <= m
  <2> HIDE DEF ids
  <2> QED BY <1>3, Wellordered
<1>5. PICK best \in F : best.id = n
  OBVIOUS
<1>6. ASSUME NEW other \in T \ {best} PROVE Better(best, other)
  <2>0. /\ best \in [locked : BOOLEAN, fit : BOOLEAN, id : Nat]
        /\ other \in [locked : BOOLEAN, fit : BOOLEAN, id : Nat]
        /\ best \in L /\ other \in T /\ best # other
    BY <1>1, <1>2
  <2>1. other.locked => best.locked
    BY <1>1, <2>0
  <2>2. CASE best.locked /\ ~other.locked
    BY <2>2 DEF Better
  <2>3. CASE best.locked = other.locked
    <3>1. other \in L
      BY <2>0, <2>3 DEF L
    <3>2. other.fit => best.fit
      BY <1>2, <3>1
    <3>3. CASE best.fit /\ ~other.fit
      BY <2>3, <3>3 DEF Better
    <3>4. CASE best.fit = other.fit
      <4>1. other \in F
        BY <3>1, <3>4 DEF F
      <4>2. n <= other.id
        BY <1>4, <4>1
      <4>3. best.id # other.id
        BY <2>0, <2>3, <3>4
      <4>4. best.id < other.id
        BY <1>5, <2>0, <4>2, <4>3
      <4> QED BY <2>3, <3>4, <4>4 DEF Better
    <3> QED BY <2>0, <3>2, <3>3, <3>4
  <2> QED BY <2>0, <2>1, <2>2, <2>3
<1> QED BY <1>1, <1>2, <1>6

\* Who may be named: itself, a car heard within a lapse, or one of which such
\* a car says that it is fewer hops away than the cap.
MayName(c, list, id) ==
    \/ id = c
    \/ id \in Voting(list)
    \/ \E d \in Voting(list) :
          /\ list[d].refId = id /\ id # Nobody
          /\ list[d].refHops < MaxRefHops

LEMMA Elected ==
    ASSUME NEW c \in Cars, NEW list \in Rosters, NEW isLocked \in BOOLEAN, NEW leased \in BOOLEAN
    PROVE  /\ Elect(c, list, isLocked, leased) \in Candidates
           /\ Elect(c, list, isLocked, leased).id # Nobody
           /\ MayName(c, list, Elect(c, list, isLocked, leased).id)
<1> DEFINE self == [locked |-> isLocked, fit |-> c \in announced, id |-> c]
           able == {d \in Voting(list) : list[d].locked \/ list[d].leased}
           ableStand == Standers(c, list, IF isLocked \/ leased THEN {self} ELSE {}, able)
           stand == IF ableStand # {} THEN ableStand
                    ELSE Standers(c, list, {self}, Voting(list))
           Fair(best) ==
               /\ best \in [locked : BOOLEAN, fit : BOOLEAN, id : Cars]
               /\ MayName(c, list, best.id)
           Wins(best) == \A other \in stand \ {best} : Better(best, other)
<1>1. Voting(list) \subseteq Cars
  BY DEF Voting
<1>2. Fair(self)
  BY DEF MayName
<1>3. ASSUME NEW d \in Voting(list) PROVE Fair(Itself(list, d))
  <2>1. list[d] \in RefRiderStates
    BY <1>1 DEF Rosters
  <2> QED BY <1>1, <2>1 DEF Itself, MayName, RefRiderStates
<1>4. ASSUME NEW d \in Voting(list), Believed(c, list, d) PROVE Fair(Belief(list, d))
  <2>1. list[d] \in RefRiderStates
    BY <1>1 DEF Rosters
  <2>2. list[d].refId # Nobody /\ list[d].refHops < MaxRefHops
    BY <1>4 DEF Believed
  <2>3. /\ list[d].refId \in Cars
        /\ Belief(list, d) = [locked |-> list[d].refLocked, fit |-> list[d].refFit, id |-> list[d].refId]
        /\ list[d].refLocked \in BOOLEAN /\ list[d].refFit \in BOOLEAN
    BY <2>1, <2>2 DEF RefRiderStates, Belief
  <2>4. MayName(c, list, list[d].refId)
    BY <2>2 DEF MayName
  <2> QED BY <2>3, <2>4
<1> HIDE DEF Fair, self
<1>5. ASSUME NEW who \in SUBSET {self}, NEW voters \in SUBSET Voting(list),
             NEW t \in Standers(c, list, who, voters)
      PROVE  Fair(t)
  BY <1>2, <1>3, <1>4 DEF Standers
<1>6. self \in Standers(c, list, {self}, Voting(list))
  BY DEF Standers
<1>7. stand # {} /\ \A t \in stand : Fair(t)
  <2>1. able \in SUBSET Voting(list) /\ (IF isLocked \/ leased THEN {self} ELSE {}) \in SUBSET {self}
    OBVIOUS
  <2>2. \A t \in ableStand : Fair(t)
    <3> HIDE DEF able
    <3> QED BY <1>5, <2>1
  <2>3. \A t \in Standers(c, list, {self}, Voting(list)) : Fair(t)
    BY <1>5
  <2> HIDE DEF ableStand
  <2> QED BY <1>6, <2>2, <2>3
<1>8. Elect(c, list, isLocked, leased) = CHOOSE best \in stand : Wins(best)
  BY DEF Elect, self
<1> HIDE DEF stand
<1>9. \E best \in stand : Wins(best)
  <2>1. stand \subseteq [locked : BOOLEAN, fit : BOOLEAN, id : Nat]
    BY <1>7, RefNumbers DEF Fair
  <2> QED BY <1>7, <2>1, OneIsBest
<1>10. Elect(c, list, isLocked, leased) \in stand
  <2> HIDE DEF Wins
  <2> QED BY <1>8, <1>9
<1>11. Fair(Elect(c, list, isLocked, leased))
  BY <1>7, <1>10
<1> QED BY <1>11, RefNumbers DEF Fair, Candidates

\* A route is chosen if there is one.
LEMMA NearestIs ==
    ASSUME NEW list \in Rosters, NEW id
    PROVE  \/ Nearest(list, id) = Nobody
           \/ /\ Nearest(list, id) \in Voting(list)
              /\ Via(list, id, Nearest(list, id)) < Unreachable
<1> DEFINE routes == {d \in Markers(list) : Via(list, id, d) < Unreachable}
           Close(d) == \A e \in routes \ {d} :
               \/ Via(list, id, d) < Via(list, id, e)
               \/ Via(list, id, d) = Via(list, id, e) /\ d < e
           ways == {Via(list, id, d) : d \in routes}
<1>1. routes \subseteq Voting(list) /\ Voting(list) \subseteq Cars
  BY DEF Markers, Voting
<1>2. \A d \in Cars : Via(list, id, d) \in Nat
  <2> SUFFICES ASSUME NEW d \in Cars PROVE Via(list, id, d) \in Nat
    OBVIOUS
  <2>1. list[d].refHops \in Nat /\ Unreachable \in Nat
    BY RefNumbers DEF Rosters, RefRiderStates
  <2>2. CASE d = id
    BY <2>2 DEF Via
  <2>3. CASE d # id /\ list[d].refId = id /\ list[d].refHops < MaxRefHops
    BY <2>1, <2>3 DEF Via
  <2>4. CASE d # id /\ ~(list[d].refId = id /\ list[d].refHops < MaxRefHops)
    BY <2>1, <2>4 DEF Via
  <2> QED BY <2>2, <2>3, <2>4
<1>3. CASE routes = {}
  BY <1>3 DEF Nearest
<1>4. CASE routes # {}
  <2>1. Nearest(list, id) = CHOOSE d \in routes : Close(d)
    BY <1>4 DEF Nearest
  <2>2. \E d \in routes : Close(d)
    <3>1. ways \in SUBSET Nat /\ ways # {}
      BY <1>1, <1>2, <1>4
    <3>2. PICK m \in ways : \A n \in ways : m <= n
      <4> HIDE DEF ways
      <4> QED BY <3>1, Wellordered
    <3> DEFINE best == {d \in routes : Via(list, id, d) = m}
    <3>3. best \in SUBSET Nat /\ best # {}
      BY <1>1, <3>2, RefNumbers
    <3>4. PICK d \in best : \A e \in best : d <= e
      <4> HIDE DEF best
      <4> QED BY <3>3, Wellordered
    <3>5. ASSUME NEW e \in routes \ {d}
          PROVE  \/ Via(list, id, d) < Via(list, id, e)
                 \/ Via(list, id, d) = Via(list, id, e) /\ d < e
      <4>1. m <= Via(list, id, e) /\ Via(list, id, d) = m
        BY <3>2
      <4>2. m \in Nat /\ Via(list, id, e) \in Nat /\ e \in Nat /\ d \in Nat
        BY <1>1, <1>2, <3>3, <4>1, RefNumbers
      <4>3. Via(list, id, e) = m => d <= e
        BY <3>4
      <4> DEFINE v == Via(list, id, e)
      <4> HIDE DEF v, routes, best, ways
      <4>4. m < v \/ (m = v /\ d < e)
        <5>1. m <= v /\ v \in Nat /\ (v = m => d <= e) /\ d # e
          BY <3>5, <4>1, <4>2, <4>3 DEF v
        <5> QED BY <4>2, <5>1
      <4> QED BY <4>1, <4>4 DEF v
    <3> QED BY <3>4, <3>5
  <2>3. Nearest(list, id) \in routes
    <3> HIDE DEF routes, Close
    <3> QED BY <2>1, <2>2
  <2> QED BY <1>1, <2>3
<1> QED BY <1>3, <1>4

LEMMA RebuiltIs ==
    ASSUME NEW c \in Cars, NEW list \in Rosters, NEW leased \in BOOLEAN
    PROVE  LET now == Rebuilt(c, list, leased) IN
           /\ now.ref \in Candidates /\ now.ref.id # Nobody /\ MayName(c, list, now.ref.id)
           /\ now.parent \in Cars \union {Nobody}
           /\ now.hops \in 0 .. MaxRefHops \union {Unreachable}
           /\ (now.hops = 0) = (now.ref.id = c)
           /\ now.hops <= MaxRefHops /\ now.ref.id # c =>
                 \E d \in Voting(list) :
                    \/ d = now.ref.id /\ now.hops = 1
                    \/ /\ list[d].refId = now.ref.id /\ list[d].refHops < MaxRefHops
                       /\ now.hops = list[d].refHops + 1
<1> DEFINE best == Elect(c, list, c \in locked, leased)
           from == IF best.id = c THEN Nobody ELSE Nearest(list, best.id)
           far == CASE best.id = c -> 0
                    [] best.id # c /\ from = Nobody -> Unreachable
                    [] OTHER -> Via(list, best.id, from) + 1
<1>1. Rebuilt(c, list, leased) = [ref |-> best, parent |-> from, hops |-> far]
  BY DEF Rebuilt
<1>2. best \in Candidates /\ best.id # Nobody /\ MayName(c, list, best.id)
  <2> DEFINE holds == c \in locked
  <2>1. holds \in BOOLEAN
    OBVIOUS
  <2> HIDE DEF holds
  <2>2. /\ Elect(c, list, holds, leased) \in Candidates
        /\ Elect(c, list, holds, leased).id # Nobody
        /\ MayName(c, list, Elect(c, list, holds, leased).id)
    BY <2>1, Elected
  <2> QED BY <2>2 DEF holds
<1> HIDE DEF best
<1>3. \/ from = Nobody
      \/ best.id # c /\ from \in Voting(list) /\ Via(list, best.id, from) < Unreachable
  BY NearestIs
<1>4. Voting(list) \subseteq Cars
  BY DEF Voting
<1>5. CASE best.id = c
  <2>1. far = 0 /\ from = Nobody
    BY <1>5
  <2> HIDE DEF far, from
  <2> QED BY <1>1, <1>2, <1>5, <2>1, RefNumbers
<1>6. CASE best.id # c /\ from = Nobody
  <2>1. far = Unreachable
    BY <1>6
  <2> HIDE DEF far, from
  <2> QED BY <1>1, <1>2, <1>6, <2>1, RefNumbers
<1>7. CASE best.id # c /\ from # Nobody
  <2> DEFINE v == Via(list, best.id, from)
  <2>1. far = v + 1
    BY <1>7
  <2>2. from \in Voting(list) /\ v < Unreachable
    BY <1>3, <1>7
  <2> HIDE DEF far, from
  <2>3. list[from].refHops \in Nat /\ MaxRefHops \in Nat /\ MaxRefHops > 0
    <3>1. list[from] \in RefRiderStates
      BY <1>4, <2>2 DEF Rosters
    <3> QED BY <3>1, RefNumbers DEF RefRiderStates
  <2>4. \/ from = best.id /\ v = 0
        \/ list[from].refId = best.id /\ list[from].refHops < MaxRefHops /\ v = list[from].refHops
    <3>1. CASE from = best.id
      BY <3>1 DEF Via
    <3>2. CASE from # best.id /\ list[from].refId = best.id /\ list[from].refHops < MaxRefHops
      BY <3>2 DEF Via
    <3>3. CASE from # best.id /\ ~(list[from].refId = best.id /\ list[from].refHops < MaxRefHops)
      <4>1. v = Unreachable
        BY <3>3 DEF Via
      <4> QED BY <2>2, <4>1, RefNumbers
    <3> QED BY <3>1, <3>2, <3>3
  <2> HIDE DEF v
  <2>5. far \in 1 .. MaxRefHops
    BY <2>1, <2>3, <2>4
  <2>6. \/ from = best.id /\ far = 1
        \/ list[from].refId = best.id /\ list[from].refHops < MaxRefHops /\ far = list[from].refHops + 1
    BY <2>1, <2>4
  <2> QED BY <1>1, <1>2, <1>4, <1>7, <2>2, <2>5, <2>6
<1> QED BY <1>5, <1>6, <1>7

-----------------------------------------------------------------------------
(* How old a word may be.                                                  *)

LEMMA Spans ==
    /\ Lapse - 1 \in Nat
    /\ \A h \in Nat :
          /\ Span(h) \in Nat /\ Span(h + 1) = Span(h) + (Lapse - 1)
          /\ h < MaxRefHops => Span(h) + (Lapse - 1) <= Span(MaxRefHops)
    /\ Span(0) = 0 /\ Span(1) = Lapse - 1 /\ Lapse - 1 <= Span(MaxRefHops)
<1> DEFINE k == Lapse - 1
<1>1. k \in Nat /\ MaxRefHops \in Nat /\ MaxRefHops > 0
  BY RefNumbers
<1> HIDE DEF k
<1>2. ASSUME NEW h \in Nat PROVE h * k \in Nat /\ (h + 1) * k = h * k + k
  BY <1>1
<1>3. ASSUME NEW h \in Nat, h < MaxRefHops PROVE h * k + k <= MaxRefHops * k
  <2>1. PICK n \in Nat : MaxRefHops = (h + 1) + n
    <3>1. MaxRefHops - (h + 1) \in Nat /\ MaxRefHops = (h + 1) + (MaxRefHops - (h + 1))
      BY <1>1, <1>3
    <3> QED BY <3>1
  <2>2. MaxRefHops * k = (h * k + k) + n * k
    BY <1>1, <2>1
  <2>3. n * k \in Nat /\ h * k + k \in Nat
    BY <1>1, <1>2
  <2> QED BY <2>2, <2>3
<1>4. 0 * k = 0 /\ 1 * k = k /\ k <= MaxRefHops * k
  <2>1. 0 * k = 0 /\ 1 * k = k
    BY <1>1
  <2>2. 0 * k + k <= MaxRefHops * k
    BY <1>1, <1>3
  <2> QED BY <1>1, <2>1, <2>2
<1> QED BY <1>1, <1>2, <1>3, <1>4 DEF Span, k

\* Whom a car elects has not been gone longer than word of it may take, and
\* neither has one that it has a route to.
LEMMA Traced ==
    ASSUME gone \in [Cars -> 0 .. Fade + 1], NEW c \in Cars, gone[c] = 0,
           NEW list \in Rosters, Known(list), Told(list), NEW leased \in BOOLEAN
    PROVE  LET now == Rebuilt(c, list, leased) IN
           /\ gone[now.ref.id] <= Span(MaxRefHops)
           /\ now.hops < MaxRefHops => gone[now.ref.id] <= Span(now.hops)
<1> DEFINE now == Rebuilt(c, list, leased)
           id == now.ref.id
<1>1. /\ now.ref \in Candidates /\ id # Nobody /\ MayName(c, list, id)
      /\ now.hops \in 0 .. MaxRefHops \union {Unreachable}
      /\ (now.hops = 0) = (id = c)
      /\ now.hops <= MaxRefHops /\ id # c =>
            \E d \in Voting(list) :
               \/ d = id /\ now.hops = 1
               \/ /\ list[d].refId = id /\ list[d].refHops < MaxRefHops
                  /\ now.hops = list[d].refHops + 1
  BY RebuiltIs
<1>2. id \in Cars /\ gone[id] \in Nat
  BY <1>1, RefNumbers DEF Candidates
<1> HIDE DEF now
<1>3. ASSUME NEW d \in Voting(list)
      PROVE  /\ d \in Cars /\ list[d].age \in Nat /\ list[d].age <= Lapse - 1
             /\ list[d].refHops \in Nat
             /\ gone[d] <= Lapse - 1 /\ gone[d] \in Nat
  <2>1. d \in Cars /\ list[d].age < Lapse
    BY DEF Voting
  <2>2. list[d] \in RefRiderStates
    BY <2>1 DEF Rosters
  <2>3. list[d].age \in Nat /\ list[d].refHops \in Nat
    BY <2>2, RefNumbers DEF RefRiderStates
  <2>4. list[d].age < Lease /\ gone[d] \in Nat
    BY <2>1, <2>3, RefNumbers
  <2>5. gone[d] <= list[d].age
    BY <2>1, <2>4 DEF Known
  <2> QED BY <2>1, <2>3, <2>4, <2>5, RefNumbers
<1>4. ASSUME NEW d \in Voting(list), list[d].refId = id, list[d].refHops < MaxRefHops
      PROVE  /\ gone[id] <= Span(list[d].refHops + 1)
             /\ gone[id] <= Span(MaxRefHops)
  <2> DEFINE h == list[d].refHops
  <2>1. gone[id] <= Span(h) + list[d].age
    BY <1>1, <1>3, <1>4 DEF Told
  <2>2. h \in Nat /\ h < MaxRefHops /\ list[d].age \in Nat /\ list[d].age <= Lapse - 1
    BY <1>3, <1>4
  <2> HIDE DEF h
  <2>3. Span(h) \in Nat /\ Span(h + 1) = Span(h) + (Lapse - 1) /\ Span(h) + (Lapse - 1) <= Span(MaxRefHops)
    BY <2>2, Spans
  <2>4. Span(h) \in Nat /\ Span(h + 1) \in Nat /\ Span(MaxRefHops) \in Nat /\ Lapse - 1 \in Nat
    BY <2>2, Spans, RefNumbers
  <2>5. gone[id] <= Span(h + 1) /\ gone[id] <= Span(MaxRefHops)
    BY <1>2, <2>1, <2>2, <2>3, <2>4
  <2> QED BY <2>5 DEF h
<1>5. gone[id] <= Span(MaxRefHops)
  <2>0. Lapse - 1 \in Nat /\ Span(MaxRefHops) \in Nat /\ Lapse - 1 <= Span(MaxRefHops)
    BY Spans, RefNumbers
  <2>1. CASE id = c
    BY <2>0, <2>1
  <2>2. CASE id \in Voting(list)
    BY <1>3, <2>0, <2>2
  <2>3. CASE \E d \in Voting(list) :
                 list[d].refId = id /\ id # Nobody /\ list[d].refHops < MaxRefHops
    BY <1>4, <2>3
  <2> QED BY <1>1, <2>1, <2>2, <2>3 DEF MayName
<1>6. ASSUME now.hops < MaxRefHops PROVE gone[id] <= Span(now.hops)
  <2>1. CASE id = c
    <3>1. now.hops = 0
      BY <1>1, <2>1
    <3> QED BY <2>1, <3>1, Spans
  <2>2. CASE id # c
    <3>1. now.hops <= MaxRefHops
      BY <1>1, <1>6, RefNumbers
    <3>2. PICK d \in Voting(list) :
               \/ d = id /\ now.hops = 1
               \/ /\ list[d].refId = id /\ list[d].refHops < MaxRefHops
                  /\ now.hops = list[d].refHops + 1
      BY <1>1, <2>2, <3>1
    <3>3. CASE d = id /\ now.hops = 1
      BY <1>3, <3>3, Spans
    <3>4. CASE /\ list[d].refId = id /\ list[d].refHops < MaxRefHops
               /\ now.hops = list[d].refHops + 1
      BY <1>4, <3>4
    <3> QED BY <3>2, <3>3, <3>4
  <2> QED BY <2>1, <2>2
<1> QED BY <1>5, <1>6 DEF now

-----------------------------------------------------------------------------
(* A beacon.                                                               *)

LEMMA NewRiderIs ==
    /\ NewRider \in RefRiderStates /\ NewRider.age = Lease
    /\ NewRider.refId = Nobody
BY RefNumbers DEF NewRider, RefRiderStates

\* Its news, and what it is to each car that hears it.
Brings(rider, now) ==
    /\ rider \in RefRiderStates /\ rider.age = 0
    /\ rider.refId = now.ref.id /\ rider.refHops = now.hops

LEMMA BeaconSays ==
    ASSUME RefShape, Boots, NEW c \in Cars, NEW comes, BeaconFrom(c, comes)
    PROVE  /\ listen' \in [Cars -> 0 .. Listen]
           /\ clock' \in [Cars -> Clocks]
           /\ roster' \in [Cars -> Rosters]
           /\ ref' = [d \in Cars |-> ref'[d]] /\ parent' = [d \in Cars |-> parent'[d]]
           /\ hops' = [d \in Cars |-> hops'[d]]
           /\ \E own \in BOOLEAN :
                 LET now == Rebuilt(c, roster[c], own) IN
                 \A d \in Cars :
                    /\ \/ roster'[d] = roster[d]
                       \/ \E rider : Brings(rider, now) /\ roster'[d] = [roster[d] EXCEPT ![c] = rider]
                    /\ \/ d # c /\ ref'[d] = ref[d] /\ parent'[d] = parent[d] /\ hops'[d] = hops[d]
                       \/ /\ d \in on \union {c}
                          /\ \E leased \in BOOLEAN :
                                LET then == Rebuilt(d, roster'[d], leased) IN
                                ref'[d] = then.ref /\ parent'[d] = then.parent /\ hops'[d] = then.hops
<1> DEFINE leased == Leased(c) \/ (listen[c] = 1 /\ Heard(roster[c]) # {})
           now == Rebuilt(c, roster[c], leased)
           kept == KeptClock(c, now)
           told == IF kept = NoClock THEN OwnClock(c) ELSE kept
           isLocked == c \in locked
           isFit == c \in fit
           beacon == [age |-> 0, directAge |-> Lease, direct |-> FALSE, locked |-> isLocked,
                      fit |-> isFit, leased |-> leased, refId |-> now.ref.id, refHops |-> now.hops,
                      refLocked |-> now.ref.locked, refFit |-> now.ref.fit]
           hearers == {d \in on \ {c} : comes[d] # "lost"}
           rosters == [d \in Cars |-> IF d \in hearers THEN [roster[d] EXCEPT ![c] = Noted(@, comes[d], beacon)]
                                      ELSE roster[d]]
           after == [d \in Cars |->
               CASE d = c -> now
                 [] d \in hearers -> Rebuilt(d, rosters[d], Leased(d))
                 [] OTHER -> [ref |-> ref[d], parent |-> parent[d], hops |-> hops[d]]]
<1>1. /\ listen' = [listen EXCEPT ![c] = IF Heard(roster[c]) # {} /\ @ > 0 THEN @ - 1 ELSE @]
      /\ roster' = rosters
      /\ ref' = [d \in Cars |-> after[d].ref]
      /\ parent' = [d \in Cars |-> after[d].parent]
      /\ hops' = [d \in Cars |-> after[d].hops]
      /\ clock' = [d \in Cars |->
            IF d = c THEN kept
            ELSE IF d \in hearers /\ comes[d] = "direct" /\ leased /\ TakesClockFrom(d, c)
                 THEN told
                 ELSE clock[d]]
  BY DEF BeaconFrom
<1>2. /\ roster[c] \in Rosters /\ leased \in BOOLEAN
      /\ roster \in [Cars -> Rosters] /\ listen[c] \in 0 .. Listen
      /\ clock \in [Cars -> Clocks] /\ boots[c] \in 0 .. MaxFaults[ride]
  <2>1. boots[c] \in 0 .. faults /\ faults \in 0 .. MaxFaults[ride] /\ MaxFaults[ride] \in Nat
    BY ReferenceAssumption DEF Boots, RefShape
  <2>2. boots[c] \in 0 .. MaxFaults[ride]
    BY <2>1
  <2> QED BY <2>2 DEF RefShape, Boots
<1> HIDE DEF leased
<1>3. /\ now.ref \in Candidates /\ now.ref.id # Nobody
      /\ now.hops \in 0 .. MaxRefHops \union {Unreachable}
  BY <1>2, RebuiltIs
<1> HIDE DEF now
<1>4. /\ beacon \in RefRiderStates /\ beacon.age = 0 /\ beacon.refId = now.ref.id
      /\ beacon.refHops = now.hops
  <2>1. /\ isLocked \in BOOLEAN /\ isFit \in BOOLEAN
        /\ now.ref.id \in Cars \union {Nobody} /\ now.ref.locked \in BOOLEAN /\ now.ref.fit \in BOOLEAN
    BY <1>3 DEF Candidates
  <2>2. 0 \in 0 .. Lease /\ Lease \in 0 .. Lease
    BY RefNumbers
  <2> HIDE DEF isLocked, isFit
  <2> QED BY <1>2, <1>3, <2>1, <2>2 DEF RefRiderStates
<1> HIDE DEF beacon
<1>5. ASSUME NEW d \in Cars PROVE Brings(Noted(roster[d][c], comes[d], beacon), now)
  <2> DEFINE rider == roster[d][c]
             held == comes[d] = "relayed" /\ rider.direct /\ rider.directAge <= DirectHold
  <2>1. rider \in RefRiderStates
    BY <1>2 DEF Rosters
  <2>2. rider.directAge \in 0 .. Lease /\ 0 \in 0 .. Lease
    BY <2>1, RefNumbers DEF RefRiderStates
  <2>3. Noted(rider, comes[d], beacon) =
           [beacon EXCEPT !.direct = comes[d] = "direct" \/ held,
                          !.directAge = IF comes[d] = "direct" THEN 0 ELSE rider.directAge]
    BY DEF Noted
  <2> HIDE DEF rider, held
  <2>4. (comes[d] = "direct" \/ held) \in BOOLEAN
    OBVIOUS
  <2>5. (IF comes[d] = "direct" THEN 0 ELSE rider.directAge) \in 0 .. Lease
    BY <2>2
  <2>6. Brings(Noted(rider, comes[d], beacon), now)
    BY <1>4, <2>3, <2>4, <2>5 DEF Brings, RefRiderStates
  <2> QED BY <2>6 DEF rider
<1>6. ASSUME NEW d \in Cars
      PROVE  roster'[d] = IF d \in hearers THEN [roster[d] EXCEPT ![c] = Noted(roster[d][c], comes[d], beacon)]
                          ELSE roster[d]
  BY <1>1
<1>7. roster' \in [Cars -> Rosters]
  <2>1. \A d \in Cars : roster'[d] \in Rosters
    <3> SUFFICES ASSUME NEW d \in Cars PROVE roster'[d] \in Rosters
      OBVIOUS
    <3>1. roster[d] \in [Cars -> RefRiderStates] /\ Noted(roster[d][c], comes[d], beacon) \in RefRiderStates
      BY <1>2, <1>5 DEF Rosters, Brings
    <3> QED BY <1>6, <3>1 DEF Rosters
  <2>2. roster' = [d \in Cars |-> roster'[d]]
    BY <1>1
  <2> QED BY <2>1, <2>2
<1>8. listen' \in [Cars -> 0 .. Listen]
  <2>1. listen \in [Cars -> 0 .. Listen] /\ Listen \in Nat
    BY RefNumbers DEF RefShape
  <2>2. (IF Heard(roster[c]) # {} /\ listen[c] > 0 THEN listen[c] - 1 ELSE listen[c]) \in 0 .. Listen
    BY <1>2, <2>1
  <2> QED BY <1>1, <2>1, <2>2
<1>9. clock' \in [Cars -> Clocks]
  <2>1. OwnClock(c) \in Clocks /\ Pulse \in Clocks
    BY <1>2 DEF OwnClock, Clocks
  <2>2. kept \in Clocks
    <3>1. CASE c \in locked
      BY <2>1, <3>1 DEF KeptClock
    <3>2. CASE c \notin locked /\ StartsEpoch(c, now)
      BY <2>1, <3>2 DEF KeptClock
    <3>3. CASE c \notin locked /\ ~StartsEpoch(c, now)
      BY <1>2, <3>3 DEF KeptClock
    <3> QED BY <3>1, <3>2, <3>3
  <2>3. told \in Clocks
    BY <2>1, <2>2
  <2> HIDE DEF kept, told
  <2> QED BY <1>1, <1>2, <2>2, <2>3
<1>10. ASSUME NEW d \in Cars
       PROVE  /\ ref'[d] = after[d].ref /\ parent'[d] = after[d].parent /\ hops'[d] = after[d].hops
              /\ rosters[d] = roster'[d]
  BY <1>1
<1>11. ASSUME NEW d \in Cars
       PROVE  \/ d # c /\ ref'[d] = ref[d] /\ parent'[d] = parent[d] /\ hops'[d] = hops[d]
              \/ /\ d \in on \union {c}
                 /\ \E l \in BOOLEAN :
                       LET then == Rebuilt(d, roster'[d], l) IN
                       ref'[d] = then.ref /\ parent'[d] = then.parent /\ hops'[d] = then.hops
  <2>1. CASE d = c
    <3>1. after[d] = Rebuilt(d, roster'[d], leased)
      <4>1. after[d] = now /\ c \notin hearers
        BY <2>1
      <4>2. roster'[c] = roster[c]
        BY <1>6, <4>1
      <4> QED BY <2>1, <4>1, <4>2 DEF now
    <3>2. LET then == Rebuilt(d, roster'[d], leased) IN
          ref'[d] = then.ref /\ parent'[d] = then.parent /\ hops'[d] = then.hops
      BY <1>10, <3>1
    <3> HIDE DEF after
    <3> QED BY <1>2, <2>1, <3>2
  <2>2. CASE d # c /\ d \in hearers
    <3>1. after[d] = Rebuilt(d, roster'[d], Leased(d))
      BY <1>10, <2>2
    <3>2. d \in on /\ Leased(d) \in BOOLEAN
      BY <2>2 DEF Leased
    <3> QED BY <1>10, <3>1, <3>2
  <2>3. CASE d # c /\ d \notin hearers
    <3>1. after[d] = [ref |-> ref[d], parent |-> parent[d], hops |-> hops[d]]
      BY <2>3
    <3> QED BY <1>10, <2>3, <3>1
  <2> QED BY <2>1, <2>2, <2>3
<1>12. \A d \in Cars :
          \/ roster'[d] = roster[d]
          \/ \E rider : Brings(rider, now) /\ roster'[d] = [roster[d] EXCEPT ![c] = rider]
  BY <1>5, <1>6
<1>13. /\ ref' = [d \in Cars |-> ref'[d]] /\ parent' = [d \in Cars |-> parent'[d]]
       /\ hops' = [d \in Cars |-> hops'[d]]
  <2> HIDE DEF after
  <2> QED BY <1>1
<1> HIDE DEF hearers, rosters, after
<1> QED BY <1>2, <1>7, <1>8, <1>9, <1>11, <1>12, <1>13 DEF now

\* No car but the one whose slot it is has its turn.
LEMMA TurnPasses ==
    ASSUME ride' = ride, turn \in Nat, Next1, NEW d, d # Order[ride][turn]
    PROVE  HadTurn(d)' => HadTurn(d)
<1> SUFFICES ASSUME NEW i \in 1 .. turn' - 1, Order[ride][i] = d
             PROVE  HadTurn(d)
  BY DEF HadTurn
<1>1. i \in 1 .. turn /\ i # turn
  BY DEF Next1
<1>2. i \in 1 .. turn - 1
  BY <1>1
<1> QED BY <1>2 DEF HadTurn

LEMMA BeaconStep ==
    ASSUME RefIInv, NEW c \in Cars, c \in on, c = Order[ride][turn], NEW comes, BeaconFrom(c, comes), Next1,
           UNCHANGED <<ride, on, boots, gone>>, faults' \in {faults, faults + 1},
           faults' <= MaxFaults[ride]
    PROVE  RefIInv'
<1>1. PICK own \in BOOLEAN :
          LET now == Rebuilt(c, roster[c], own) IN
          \A d \in Cars :
             /\ \/ roster'[d] = roster[d]
                \/ \E rider : Brings(rider, now) /\ roster'[d] = [roster[d] EXCEPT ![c] = rider]
             /\ \/ d # c /\ ref'[d] = ref[d] /\ parent'[d] = parent[d] /\ hops'[d] = hops[d]
                \/ /\ d \in on \union {c}
                   /\ \E leased \in BOOLEAN :
                         LET then == Rebuilt(d, roster'[d], leased) IN
                         ref'[d] = then.ref /\ parent'[d] = then.parent /\ hops'[d] = then.hops
  BY BeaconSays DEF RefIInv
<1>2. /\ listen' \in [Cars -> 0 .. Listen]
      /\ clock' \in [Cars -> Clocks]
      /\ roster' \in [Cars -> Rosters]
      /\ ref' = [d \in Cars |-> ref'[d]] /\ parent' = [d \in Cars |-> parent'[d]]
      /\ hops' = [d \in Cars |-> hops'[d]]
  BY BeaconSays DEF RefIInv
<1> DEFINE now == Rebuilt(c, roster[c], own)
<1>3. /\ gone \in [Cars -> 0 .. Fade + 1] /\ roster \in [Cars -> Rosters]
      /\ \A d \in Cars : Known(roster[d]) /\ Told(roster[d])
      /\ \A d \in on : d \in Cars /\ gone[d] = 0
  <2>1. on \subseteq Cars
    BY ReferenceAssumption DEF RefIInv, RefShape
  <2> QED BY <2>1 DEF RefIInv, RefShape, News, Present
<1>4. /\ gone[now.ref.id] <= Span(MaxRefHops)
      /\ now.hops < MaxRefHops => gone[now.ref.id] <= Span(now.hops)
  BY <1>3, Traced
<1>5. now.ref \in Candidates /\ now.hops \in Nat /\ now.ref.id # Nobody
  BY <1>3, RebuiltIs, RefNumbers
<1>6. gone[now.ref.id] \in Nat /\ (now.hops < MaxRefHops => Span(now.hops) \in Nat)
  BY <1>3, <1>5, Spans DEF Candidates
<1> HIDE DEF now
<1>7. ASSUME NEW d \in Cars PROVE Known(roster'[d]) /\ Told(roster'[d])
  <2>1. CASE roster'[d] = roster[d]
    BY <1>3, <2>1
  <2>2. ASSUME NEW rider, Brings(rider, now), roster'[d] = [roster[d] EXCEPT ![c] = rider]
        PROVE  Known(roster'[d]) /\ Told(roster'[d])
    <3>1. roster[d] \in [Cars -> RefRiderStates]
      BY <1>3 DEF Rosters
    <3>2. roster'[d][c] = rider /\ \A e \in Cars \ {c} : roster'[d][e] = roster[d][e]
      BY <2>2, <3>1
    <3>3. /\ rider.age = 0 /\ rider.refId = now.ref.id /\ rider.refHops = now.hops
          /\ gone[c] = 0
      BY <1>3, <2>2 DEF Brings
    <3>4. ASSUME NEW e \in Cars, roster'[d][e].age < Lease PROVE gone[e] <= roster'[d][e].age
      <4>1. CASE e = c
        BY <3>2, <3>3, <4>1
      <4>2. CASE e # c
        BY <1>3, <3>2, <3>4, <4>2 DEF Known
      <4> QED BY <4>1, <4>2
    <3>5. ASSUME NEW e \in Cars, roster'[d][e].refId # Nobody, roster'[d][e].refHops < MaxRefHops
          PROVE  gone[roster'[d][e].refId] <= Span(roster'[d][e].refHops) + roster'[d][e].age
      <4>1. CASE e = c
        <5>1. now.hops < MaxRefHops
          BY <3>2, <3>3, <3>5, <4>1
        <5>2. gone[now.ref.id] <= Span(now.hops) + 0
          BY <1>4, <1>6, <5>1
        <5> QED BY <3>2, <3>3, <4>1, <5>2
      <4>2. CASE e # c
        BY <1>3, <3>2, <3>5, <4>2 DEF Told
      <4> QED BY <4>1, <4>2
    <3> QED BY <3>4, <3>5 DEF Known, Told
  <2> QED BY <1>1, <2>1, <2>2 DEF now
<1>8. ASSUME NEW d \in Cars
      PROVE  /\ ref'[d] \in Candidates /\ parent'[d] \in Cars \union {Nobody}
             /\ hops'[d] \in 0 .. MaxRefHops \union {Unreachable}
             /\ (hops'[d] = 0) = (ref'[d].id = d)
             /\ d \notin on => ref'[d] = ref[d]
             /\ d \in on => (d # c /\ ref'[d] = ref[d]) \/ gone[ref'[d].id] <= Span(MaxRefHops)
  <2>1. CASE d # c /\ ref'[d] = ref[d] /\ parent'[d] = parent[d] /\ hops'[d] = hops[d]
    <3>1. /\ ref[d] \in Candidates /\ parent[d] \in Cars \union {Nobody}
          /\ hops[d] \in 0 .. MaxRefHops \union {Unreachable}
          /\ (hops[d] = 0) = (ref[d].id = d)
      BY DEF RefIInv, Beliefs
    <3> QED BY <2>1, <3>1
  <2>2. ASSUME d \in on \union {c}, NEW leased \in BOOLEAN,
               ref'[d] = Rebuilt(d, roster'[d], leased).ref,
               parent'[d] = Rebuilt(d, roster'[d], leased).parent,
               hops'[d] = Rebuilt(d, roster'[d], leased).hops
        PROVE  /\ ref'[d] \in Candidates /\ parent'[d] \in Cars \union {Nobody}
               /\ hops'[d] \in 0 .. MaxRefHops \union {Unreachable}
               /\ (hops'[d] = 0) = (ref'[d].id = d)
               /\ d \in on /\ gone[ref'[d].id] <= Span(MaxRefHops)
    <3> DEFINE list == roster'[d]
               then == Rebuilt(d, list, leased)
    <3>1. list \in Rosters /\ d \in on /\ gone[d] = 0 /\ Known(list) /\ Told(list)
      BY <1>2, <1>3, <1>7, <2>2
    <3>2. ref'[d] = then.ref /\ parent'[d] = then.parent /\ hops'[d] = then.hops
      BY <2>2
    <3> HIDE DEF list
    <3>3. /\ then.ref \in Candidates /\ then.parent \in Cars \union {Nobody}
          /\ then.hops \in 0 .. MaxRefHops \union {Unreachable}
          /\ (then.hops = 0) = (then.ref.id = d)
      BY <3>1, RebuiltIs
    <3>4. gone[then.ref.id] <= Span(MaxRefHops)
      BY <1>3, <3>1, Traced
    <3> HIDE DEF then
    <3> QED BY <3>1, <3>2, <3>3, <3>4
  <2> QED BY <1>1, <2>1, <2>2
<1>9. RefShape'
  BY <1>2 DEF RefIInv, RefShape, Next1
<1>10. Beliefs'
  <2>1. /\ ref' \in [Cars -> Candidates]
        /\ parent' \in [Cars -> Cars \union {Nobody}]
        /\ hops' \in [Cars -> 0 .. MaxRefHops \union {Unreachable}]
    BY <1>2, <1>8
  <2> QED BY <1>8, <2>1 DEF Beliefs
<1>11. Boots'
  <2>1. faults' \in 0 .. MaxFaults[ride] /\ \A i \in 0 .. faults : i \in 0 .. faults'
    BY DEF RefIInv, Boots
  <2>2. Clocks' = Clocks
    BY DEF Clocks
  <2>3. boots' \in [Cars -> 0 .. faults']
    BY <2>1 DEF RefIInv, Boots
  <2> QED BY <1>2, <2>1, <2>2, <2>3 DEF Boots
<1>12. Present'
  BY <1>3, <1>8 DEF RefIInv, Present
<1>13. News'
  BY <1>7 DEF News, Known, Told
<1>14. Named'
  <2> SUFFICES ASSUME NEW d \in on, ref'[d].id # Nobody
               PROVE  gone[ref'[d].id] <= Span(MaxRefHops) + (IF HadTurn(d)' THEN 0 ELSE 1)
    BY DEF Named
  <2> DEFINE id == ref'[d].id
  <2>1. id \in Cars /\ gone[id] \in Nat /\ Span(MaxRefHops) \in Nat /\ d \in Cars
    <3>1. d \in Cars /\ ref'[d] \in Candidates
      BY <1>3, <1>8
    <3>2. id \in Cars
      BY <3>1 DEF Candidates
    <3>3. Span(MaxRefHops) \in Nat
      BY Spans, RefNumbers
    <3> QED BY <1>3, <3>1, <3>2, <3>3
  <2>2. CASE gone[id] <= Span(MaxRefHops)
    BY <2>1, <2>2
  <2>3. CASE d # c /\ ref'[d] = ref[d]
    <3>1. gone[id] <= Span(MaxRefHops) + (IF HadTurn(d) THEN 0 ELSE 1)
      BY <2>3 DEF RefIInv, Named
    <3>2. HadTurn(d)' => HadTurn(d)
      BY <2>3, TurnPasses DEF RefIInv, RefShape
    <3> HIDE DEF id
    <3>3. gone[id] <= Span(MaxRefHops) + (IF HadTurn(d)' THEN 0 ELSE 1)
      BY <2>1, <3>1, <3>2
    <3> QED BY <3>3 DEF id
  <2> QED BY <1>8, <2>1, <2>2, <2>3
<1> QED BY <1>9, <1>10, <1>11, <1>12, <1>13, <1>14 DEF RefIInv

-----------------------------------------------------------------------------
(* The other steps.                                                        *)

\* A step that hears nothing: each car keeps what it believes, or starts anew.
Keeps(c) ==
    /\ ref'[c] = ref[c] /\ parent'[c] = parent[c] /\ hops'[c] = hops[c]
    /\ clock'[c] = clock[c] /\ roster'[c] = roster[c]

StartsAnew(c) ==
    /\ ref'[c] = NewCar.ref /\ parent'[c] = Nobody /\ hops'[c] = Unreachable
    /\ clock'[c] = NoClock /\ roster'[c] = [d \in Cars |-> NewRider]

LEMMA NewCarIs ==
    /\ NewCar.ref \in Candidates /\ NewCar.ref.id = Nobody
    /\ Unreachable # 0 /\ \A c \in Cars : c # Nobody
BY RefNumbers DEF NewCar, Candidates

LEMMA RefQuietStep ==
    ASSUME RefIInv, ride' = ride, turn' \in {turn, turn + 1},
           turn' # turn => Order[ride][turn] \notin on /\ on' = on,
           on' \subseteq Riders[ride],
           listen' \in [Cars -> 0 .. Listen],
           roster' = [c \in Cars |-> roster'[c]], ref' = [c \in Cars |-> ref'[c]],
           parent' = [c \in Cars |-> parent'[c]], hops' = [c \in Cars |-> hops'[c]],
           clock' = [c \in Cars |-> clock'[c]],
           gone' = [c \in Cars |-> IF c \in on' THEN 0 ELSE gone[c]],
           faults' \in {faults, faults + 1}, faults' <= MaxFaults[ride],
           boots' \in [Cars -> 0 .. faults'],
           \A c \in Cars : StartsAnew(c) \/ (Keeps(c) /\ (c \notin on' => c \notin on))
    PROVE  RefIInv'
<1>1. on \subseteq Cars /\ on' \subseteq Cars
  BY ReferenceAssumption DEF RefIInv, RefShape
<1>2. /\ gone \in [Cars -> 0 .. Fade + 1] /\ 0 \in 0 .. Fade + 1 /\ Fade \in Nat
      /\ \A e \in Cars : gone[e] \in Nat /\ gone'[e] \in Nat /\ gone'[e] <= gone[e]
  BY RefNumbers DEF RefIInv, RefShape
<1>3. ASSUME NEW c \in Cars
      PROVE  /\ roster'[c] \in Rosters
             /\ ref'[c] \in Candidates /\ parent'[c] \in Cars \union {Nobody}
             /\ hops'[c] \in 0 .. MaxRefHops \union {Unreachable}
             /\ (hops'[c] = 0) = (ref'[c].id = c)
             /\ clock'[c] \in Clocks
  <2>1. CASE StartsAnew(c)
    <3>1. [d \in Cars |-> NewRider] \in Rosters
      BY NewRiderIs DEF Rosters
    <3>2. NoClock \in Clocks
      BY DEF Clocks
    <3>3. c # Nobody
      BY NewCarIs
    <3> QED BY <2>1, <3>1, <3>2, <3>3, NewCarIs DEF StartsAnew
  <2>2. CASE Keeps(c)
    BY <2>2 DEF Keeps, RefIInv, RefShape, Beliefs, Boots
  <2> QED BY <2>1, <2>2
<1>4. ASSUME NEW c \in Cars PROVE Known(roster[c])' /\ Told(roster[c])'
  <2>1. CASE StartsAnew(c)
    <3>1. \A d \in Cars : roster'[c][d].age = Lease /\ roster'[c][d].refId = Nobody
      BY <2>1, NewRiderIs DEF StartsAnew
    <3> QED BY <3>1, RefNumbers DEF Known, Told
  <2>2. CASE Keeps(c)
    <3>1. roster[c] \in [Cars -> RefRiderStates] /\ Known(roster[c]) /\ Told(roster[c]) /\ roster'[c] = roster[c]
      BY <2>2 DEF Keeps, RefIInv, RefShape, Rosters, News
    <3>2. ASSUME NEW d \in Cars, roster[c][d].age < Lease PROVE gone'[d] <= roster[c][d].age
      <4>1. gone[d] <= roster[c][d].age /\ roster[c][d].age \in Nat
        BY <3>1, <3>2, RefNumbers DEF Known, RefRiderStates
      <4> QED BY <1>2, <4>1
    <3>3. ASSUME NEW d \in Cars, roster[c][d].refId # Nobody, roster[c][d].refHops < MaxRefHops
          PROVE  gone'[roster[c][d].refId] <= Span(roster[c][d].refHops) + roster[c][d].age
      <4>1. gone[roster[c][d].refId] <= Span(roster[c][d].refHops) + roster[c][d].age
        BY <3>1, <3>3 DEF Told
      <4>2. /\ roster[c][d].refId \in Cars /\ roster[c][d].refHops \in Nat
            /\ roster[c][d].age \in Nat
        BY <3>1, <3>3, RefNumbers DEF RefRiderStates
      <4>3. Span(roster[c][d].refHops) \in Nat
        BY <4>2, Spans
      <4>4. gone'[roster[c][d].refId] <= gone[roster[c][d].refId]
        BY <1>2, <4>2
      <4> QED BY <1>2, <4>1, <4>2, <4>3, <4>4
    <3> QED BY <3>1, <3>2, <3>3 DEF Known, Told
  <2> QED BY <2>1, <2>2
<1>5. RefShape'
  <2>1. turn' \in Nat /\ turn' > 0
    BY DEF RefIInv, RefShape
  <2>2. gone' \in [Cars -> 0 .. Fade + 1]
    BY <1>2
  <2>3. roster' \in [Cars -> Rosters]
    BY <1>3
  <2> QED BY <2>1, <2>2, <2>3 DEF RefIInv, RefShape
<1>6. Beliefs'
  <2>1. /\ ref' \in [Cars -> Candidates] /\ parent' \in [Cars -> Cars \union {Nobody}]
        /\ hops' \in [Cars -> 0 .. MaxRefHops \union {Unreachable}]
    BY <1>3
  <2> QED BY <1>3, <2>1 DEF Beliefs
<1>7. Boots'
  <2>1. Clocks' = Clocks
    BY DEF Clocks
  <2>2. clock' \in [Cars -> Clocks]
    BY <1>3
  <2>3. faults' \in 0 .. MaxFaults[ride]
    BY DEF RefIInv, Boots
  <2> QED BY <2>1, <2>2, <2>3 DEF Boots
<1>8. Present'
  <2> SUFFICES ASSUME NEW c \in Cars
               PROVE  IF c \in on' THEN gone'[c] = 0 ELSE ref'[c].id = Nobody
    BY DEF Present
  <2>1. c \in on' => gone'[c] = 0
    OBVIOUS
  <2>2. c \notin on' => ref'[c].id = Nobody
    BY NewCarIs DEF StartsAnew, Keeps, RefIInv, Present
  <2> QED BY <2>1, <2>2
<1>9. News'
  BY <1>4 DEF News
<1>10. Named'
  <2> SUFFICES ASSUME NEW c \in on', ref'[c].id # Nobody
               PROVE  gone'[ref'[c].id] <= Span(MaxRefHops) + (IF HadTurn(c)' THEN 0 ELSE 1)
    BY DEF Named
  <2> DEFINE id == ref'[c].id
  <2>1. c \in Cars /\ ref'[c] \in Candidates
    BY <1>1, <1>3
  <2>2. Keeps(c)
    BY <2>1, NewCarIs DEF StartsAnew
  <2>3. c \in on
    BY <2>1, <2>2 DEF Keeps, RefIInv, Present
  <2>4. gone[id] <= Span(MaxRefHops) + (IF HadTurn(c) THEN 0 ELSE 1)
    BY <2>2, <2>3 DEF Keeps, RefIInv, Named
  <2>5. HadTurn(c)' => HadTurn(c)
    <3>1. CASE turn' = turn
      BY <3>1 DEF HadTurn
    <3>2. CASE turn' # turn
      BY <2>3, <3>2, TurnPasses DEF Next1, RefIInv, RefShape
    <3> QED BY <3>1, <3>2
  <2>6. id \in Cars /\ Span(MaxRefHops) \in Nat
    <3>1. id \in Cars
      BY <2>1 DEF Candidates
    <3>2. Span(MaxRefHops) \in Nat
      BY Spans, RefNumbers
    <3> QED BY <3>1, <3>2
  <2>7. gone[id] \in Nat /\ gone'[id] \in Nat /\ gone'[id] <= gone[id]
    BY <1>2, <2>6
  <2> HIDE DEF id
  <2>8. gone'[id] <= Span(MaxRefHops) + (IF HadTurn(c)' THEN 0 ELSE 1)
    BY <2>4, <2>5, <2>6, <2>7
  <2> QED BY <2>8 DEF id
<1> QED BY <1>5, <1>6, <1>7, <1>8, <1>9, <1>10 DEF RefIInv

\* A second later each rider is a second older, and who has gone, too.
LEMMA OlderIs ==
    ASSUME NEW rider \in RefRiderStates
    PROVE  /\ Older(rider) \in RefRiderStates
           /\ \/ Older(rider) = NewRider
              \/ /\ Older(rider).age = rider.age + 1 /\ rider.age + 1 < Lease
                 /\ Older(rider).refId = rider.refId /\ Older(rider).refHops = rider.refHops
<1>1. rider.age \in 0 .. Lease /\ rider.directAge \in 0 .. Lease /\ Lease \in Nat
  BY RefNumbers DEF RefRiderStates
<1>2. CASE rider.age + 1 >= Lease
  BY <1>2, NewRiderIs DEF Older
<1>3. CASE ~(rider.age + 1 >= Lease)
  <2> DEFINE older == Lesser(rider.directAge + 1, Lease)
             age == rider.age + 1
  <2>1. older \in 0 .. Lease /\ age \in 0 .. Lease /\ age < Lease
    BY <1>1, <1>3 DEF Lesser
  <2>2. Older(rider) = [rider EXCEPT !.age = age, !.directAge = older]
    BY <1>3 DEF Older
  <2> HIDE DEF older, age
  <2>3. /\ Older(rider) \in RefRiderStates /\ Older(rider).age = age
        /\ Older(rider).refId = rider.refId /\ Older(rider).refHops = rider.refHops
    BY <2>1, <2>2 DEF RefRiderStates
  <2> QED BY <2>1, <2>3 DEF age
<1> QED BY <1>2, <1>3

LEMMA SecondEnds == RefIInv /\ EndOfSecond => RefIInv'
<1> SUFFICES ASSUME RefIInv, EndOfSecond PROVE RefIInv'
  OBVIOUS
<1>1. /\ ride' = ride /\ on' = on /\ turn' = 1 /\ turn > Len(Order[ride])
      /\ UNCHANGED <<listen, ref, parent, hops, clock, boots, faults>>
      /\ roster' = [c \in Cars |-> [d \in Cars |-> Older(roster[c][d])]]
      /\ gone' = [c \in Cars |-> IF c \in on THEN 0 ELSE Lesser(gone[c] + 1, Fade + 1)]
  BY DEF EndOfSecond, Turns, carVars
<1>2. /\ gone \in [Cars -> 0 .. Fade + 1] /\ Fade \in Nat
      /\ roster \in [Cars -> Rosters]
  BY RefNumbers DEF RefIInv, RefShape
<1>3. ASSUME NEW e \in Cars
      PROVE  gone'[e] \in 0 .. Fade + 1 /\ gone[e] \in Nat /\ gone'[e] <= gone[e] + 1
  <2>1. gone[e] \in 0 .. Fade + 1 /\ gone'[e] = IF e \in on THEN 0 ELSE Lesser(gone[e] + 1, Fade + 1)
    BY <1>1, <1>2
  <2> QED BY <1>2, <2>1 DEF Lesser
<1>4. ASSUME NEW c \in Cars, NEW d \in Cars
      PROVE  roster[c][d] \in RefRiderStates /\ roster'[c][d] = Older(roster[c][d])
  BY <1>1, <1>2 DEF Rosters
<1>5. RefShape'
  <2>1. gone' \in [Cars -> 0 .. Fade + 1]
    BY <1>1, <1>3
  <2>2. roster' \in [Cars -> Rosters]
    <3>1. \A c \in Cars, d \in Cars : Older(roster[c][d]) \in RefRiderStates
      BY <1>4, OlderIs
    <3> QED BY <1>1, <3>1 DEF Rosters
  <2> QED BY <1>1, <2>1, <2>2 DEF RefIInv, RefShape
<1>6. Beliefs' /\ Boots'
  BY <1>1 DEF RefIInv, Beliefs, Boots, Clocks
<1>7. Present'
  BY <1>1 DEF RefIInv, Present
<1>8. News'
  <2> SUFFICES ASSUME NEW c \in Cars, NEW d \in Cars
               PROVE  /\ roster'[c][d].age < Lease => gone'[d] <= roster'[c][d].age
                      /\ roster'[c][d].refId # Nobody /\ roster'[c][d].refHops < MaxRefHops =>
                            gone'[roster'[c][d].refId] <= Span(roster'[c][d].refHops) + roster'[c][d].age
    BY DEF News, Known, Told
  <2> DEFINE rider == roster[c][d]
  <2>1. /\ rider \in RefRiderStates /\ roster'[c][d] = Older(rider)
        /\ rider.age < Lease => gone[d] <= rider.age
        /\ rider.refId # Nobody /\ rider.refHops < MaxRefHops =>
              gone[rider.refId] <= Span(rider.refHops) + rider.age
    BY <1>4 DEF RefIInv, News, Known, Told
  <2> HIDE DEF rider
  <2>2. CASE Older(rider) = NewRider
    BY <2>1, <2>2, NewRiderIs, RefNumbers
  <2>3. CASE /\ Older(rider).age = rider.age + 1 /\ rider.age + 1 < Lease
             /\ Older(rider).refId = rider.refId /\ Older(rider).refHops = rider.refHops
    <3>1. /\ rider.age \in Nat /\ rider.refId \in Cars \union {Nobody} /\ rider.refHops \in Nat
          /\ Lease \in Nat
      BY <2>1, RefNumbers DEF RefRiderStates
    <3>2. gone'[d] <= rider.age + 1
      <4>1. gone[d] <= rider.age
        BY <2>1, <2>3, <3>1
      <4>2. gone'[d] \in Nat
        BY <1>3
      <4> QED BY <1>3, <3>1, <4>1, <4>2
    <3>3. ASSUME rider.refId # Nobody, rider.refHops < MaxRefHops
          PROVE  gone'[rider.refId] <= Span(rider.refHops) + (rider.age + 1)
      <4> DEFINE id == rider.refId
                 span == Span(rider.refHops)
      <4>1. id \in Cars /\ span \in Nat /\ gone[id] <= span + rider.age
        BY <2>1, <3>1, <3>3, Spans
      <4>2. gone'[id] \in Nat /\ gone[id] \in Nat /\ gone'[id] <= gone[id] + 1
        BY <1>3, <4>1
      <4> HIDE DEF id, span
      <4>3. gone'[id] <= span + (rider.age + 1)
        BY <3>1, <4>1, <4>2
      <4> QED BY <4>3 DEF id, span
    <3> QED BY <2>1, <2>3, <3>2, <3>3
  <2> QED BY <2>1, <2>2, <2>3, OlderIs
<1>9. Named'
  <2> SUFFICES ASSUME NEW c \in on, ref[c].id # Nobody
               PROVE  gone'[ref[c].id] <= Span(MaxRefHops) + (IF HadTurn(c)' THEN 0 ELSE 1)
    BY <1>1 DEF Named
  <2> DEFINE id == ref[c].id
  <2>1. HadTurn(c)
    <3>1. c \in Riders[ride] /\ ride \in Rides
      BY DEF RefIInv, RefShape
    <3>2. PICK i \in 1 .. Len(Order[ride]) : Order[ride][i] = c
      BY <3>1, ReferenceAssumption
    <3>3. Len(Order[ride]) \in Nat /\ turn \in Nat
      BY <3>1, ReferenceAssumption DEF RefIInv, RefShape
    <3>4. i \in 1 .. turn - 1
      BY <1>1, <3>3
    <3> QED BY <3>2, <3>4 DEF HadTurn
  <2>2. ~HadTurn(c)'
    BY <1>1 DEF HadTurn
  <2>3. gone[id] <= Span(MaxRefHops) + 0
    BY <2>1 DEF RefIInv, Named
  <2>4. c \in Cars
    BY ReferenceAssumption DEF RefIInv, RefShape
  <2>5. id \in Cars
    BY <2>4 DEF RefIInv, Beliefs, Candidates
  <2>6. Span(MaxRefHops) \in Nat
    BY Spans, RefNumbers
  <2>7. gone'[id] \in Nat /\ gone[id] \in Nat /\ gone'[id] <= gone[id] + 1
    BY <1>3, <2>5
  <2> HIDE DEF id
  <2>8. gone'[id] <= Span(MaxRefHops) + 1
    BY <2>3, <2>6, <2>7
  <2> QED BY <2>2, <2>8 DEF id
<1> QED BY <1>5, <1>6, <1>7, <1>8, <1>9 DEF RefIInv

-----------------------------------------------------------------------------
(* Every step.                                                             *)

\* The functions that a step leaves, and the type of those it does not.
LEMMA Functions ==
    ASSUME RefIInv
    PROVE  /\ roster = [c \in Cars |-> roster[c]] /\ ref = [c \in Cars |-> ref[c]]
           /\ parent = [c \in Cars |-> parent[c]] /\ hops = [c \in Cars |-> hops[c]]
           /\ clock = [c \in Cars |-> clock[c]] /\ listen \in [Cars -> 0 .. Listen]
           /\ gone = [c \in Cars |-> IF c \in on THEN 0 ELSE gone[c]]
           /\ boots \in [Cars -> 0 .. faults] /\ faults \in Nat /\ Listen \in 0 .. Listen
           /\ faults <= MaxFaults[ride]
<1>1. /\ roster = [c \in Cars |-> roster[c]] /\ ref = [c \in Cars |-> ref[c]]
      /\ parent = [c \in Cars |-> parent[c]] /\ hops = [c \in Cars |-> hops[c]]
      /\ clock = [c \in Cars |-> clock[c]] /\ listen \in [Cars -> 0 .. Listen]
  BY DEF RefIInv, RefShape, Beliefs, Boots
<1>2. gone = [c \in Cars |-> IF c \in on THEN 0 ELSE gone[c]]
  <2>1. gone = [c \in Cars |-> gone[c]] /\ \A c \in Cars : c \in on => gone[c] = 0
    BY DEF RefIInv, RefShape, Present
  <2> QED BY <2>1
<1>3. boots \in [Cars -> 0 .. faults] /\ faults \in Nat /\ faults <= MaxFaults[ride]
  BY ReferenceAssumption DEF RefIInv, RefShape, Boots
<1> QED BY <1>1, <1>2, <1>3, RefNumbers

LEMMA Unheard == ASSUME UNCHANGED beliefVars PROVE \A c \in Cars : Keeps(c)
BY DEF beliefVars, Keeps

LEMMA Blanked ==
    ASSUME RefIInv, NEW c \in Cars, Blank(c)
    PROVE  /\ roster' = [d \in Cars |-> roster'[d]] /\ ref' = [d \in Cars |-> ref'[d]]
           /\ parent' = [d \in Cars |-> parent'[d]] /\ hops' = [d \in Cars |-> hops'[d]]
           /\ clock' = [d \in Cars |-> clock'[d]] /\ listen' \in [Cars -> 0 .. Listen]
           /\ StartsAnew(c) /\ \A d \in Cars \ {c} : Keeps(d)
<1>1. /\ roster = [d \in Cars |-> roster[d]] /\ ref = [d \in Cars |-> ref[d]]
      /\ parent = [d \in Cars |-> parent[d]] /\ hops = [d \in Cars |-> hops[d]]
      /\ clock = [d \in Cars |-> clock[d]] /\ listen \in [Cars -> 0 .. Listen]
      /\ Listen \in 0 .. Listen
  BY Functions
<1>2. listen' \in [Cars -> 0 .. Listen]
  BY <1>1 DEF Blank
<1>3. /\ roster' = [d \in Cars |-> roster'[d]] /\ ref' = [d \in Cars |-> ref'[d]]
      /\ parent' = [d \in Cars |-> parent'[d]] /\ hops' = [d \in Cars |-> hops'[d]]
      /\ clock' = [d \in Cars |-> clock'[d]]
  BY <1>1 DEF Blank
<1>4. StartsAnew(c) /\ \A d \in Cars \ {c} : Keeps(d)
  BY <1>1 DEF Blank, StartsAnew, Keeps
<1> QED BY <1>2, <1>3, <1>4

LEMMA RefInvariantInit == RefInit => RefIInv
<1> SUFFICES ASSUME RefInit PROVE RefIInv
  OBVIOUS
<1>1. ride \in Rides /\ on = Riders[ride] /\ MaxFaults[ride] \in Nat
  BY ReferenceAssumption DEF RefInit
<1>2. \A c \in Cars : roster[c] = [d \in Cars |-> NewRider]
  BY DEF RefInit
<1>3. [d \in Cars |-> NewRider] \in Rosters
  BY NewRiderIs DEF Rosters
<1>4. RefShape
  BY <1>1, <1>3, RefNumbers DEF RefInit, RefShape
<1>5. Beliefs
  <2>1. \A c \in Cars : hops[c] # 0 /\ ref[c].id # c
    BY NewCarIs DEF RefInit
  <2> QED BY <2>1, NewCarIs DEF RefInit, Beliefs
<1>6. Boots
  BY <1>1 DEF RefInit, Boots, Clocks
<1>7. Present
  BY NewCarIs DEF RefInit, Present
<1>8. News
  <2>1. \A c \in Cars, d \in Cars : roster[c][d].age = Lease /\ roster[c][d].refId = Nobody
    BY <1>2, NewRiderIs
  <2> QED BY <2>1, RefNumbers DEF News, Known, Told
<1>9. Named
  <2>1. \A c \in on : ref[c].id = Nobody
    BY <1>1, NewCarIs, ReferenceAssumption DEF RefInit
  <2> QED BY <2>1 DEF Named
<1> QED BY <1>4, <1>5, <1>6, <1>7, <1>8, <1>9 DEF RefIInv

LEMMA RefInvariantKept == RefIInv /\ [RefNext]_refVars => RefIInv'
<1> SUFFICES ASSUME RefIInv, [RefNext]_refVars PROVE RefIInv'
  OBVIOUS
<1>0. /\ roster = [c \in Cars |-> roster[c]] /\ ref = [c \in Cars |-> ref[c]]
      /\ parent = [c \in Cars |-> parent[c]] /\ hops = [c \in Cars |-> hops[c]]
      /\ clock = [c \in Cars |-> clock[c]] /\ listen \in [Cars -> 0 .. Listen]
      /\ gone = [c \in Cars |-> IF c \in on THEN 0 ELSE gone[c]]
      /\ boots \in [Cars -> 0 .. faults] /\ faults \in Nat /\ Listen \in 0 .. Listen
      /\ faults <= MaxFaults[ride]
  BY Functions
<1>1. on \subseteq Riders[ride] /\ on \subseteq Cars /\ Riders[ride] \subseteq Cars /\ MaxFaults[ride] \in Nat
  BY ReferenceAssumption DEF RefIInv, RefShape
<1>2. ASSUME NEW happens, Fault(happens)
      PROVE  happens /\ faults' = faults + 1 /\ faults' <= MaxFaults[ride] /\ boots \in [Cars -> 0 .. faults']
  <2>1. happens /\ faults' = faults + 1 /\ faults' <= MaxFaults[ride]
    BY <1>0, <1>1, <1>2 DEF Fault
  <2>2. \A i \in 0 .. faults : i \in 0 .. faults'
    BY <1>0, <2>1
  <2> QED BY <1>0, <2>1, <2>2
<1>3. CASE Beacon
  <2> DEFINE c == Order[ride][turn]
  <2>1. /\ c \in on /\ BeaconFrom(c, Carried(c)) /\ Next1 /\ UNCHANGED <<ride, on, boots, gone, faults>>
    BY <1>3 DEF Beacon, countVars
  <2>2. c \in Cars
    BY <1>1, <2>1
  <2> HIDE DEF c
  <2> QED BY <1>0, <2>1, <2>2, BeaconStep DEF c
<1>4. CASE BeaconMissed
  <2> DEFINE c == Order[ride][turn]
  <2>1. PICK d \in on \ {c}, how \in {"relayed", "lost"} :
           /\ Fault(<<c, d>> \in Deaf[ride])
           /\ BeaconFrom(c, [Carried(c) EXCEPT ![d] = how])
    BY <1>4 DEF BeaconMissed
  <2>2. c \in on /\ Next1 /\ UNCHANGED <<ride, on, boots, gone>>
    BY <1>4 DEF BeaconMissed
  <2>3. c \in Cars
    BY <1>1, <2>2
  <2>4. faults' = faults + 1 /\ faults' <= MaxFaults[ride]
    BY <1>2, <2>1
  <2> HIDE DEF c
  <2> QED BY <2>1, <2>2, <2>3, <2>4, BeaconStep DEF c
<1>5. CASE Silence
  <2>1. /\ Order[ride][turn] \notin on /\ turn' = turn + 1 /\ UNCHANGED beliefVars
        /\ UNCHANGED <<ride, on, boots, listen, gone, faults>>
    BY <1>5 DEF Silence, Next1, carVars, countVars
  <2>2. UNCHANGED <<roster, ref, parent, hops, clock>>
    BY <2>1 DEF beliefVars
  <2> QED BY <1>0, <1>1, <2>1, <2>2, Unheard, RefQuietStep
<1>6. CASE EndOfSecond
  BY <1>6, SecondEnds
<1>7. CASE Meet
  <2>1. /\ UNCHANGED beliefVars /\ UNCHANGED <<ride, turn, on, boots, listen, gone>>
    BY <1>7 DEF Meet, carVars
  <2>2. UNCHANGED <<roster, ref, parent, hops, clock>>
    BY <2>1 DEF beliefVars
  <2>3. faults' = faults + 1 /\ faults' <= MaxFaults[ride] /\ boots \in [Cars -> 0 .. faults']
    BY <1>2, <1>7 DEF Meet
  <2> QED BY <1>0, <1>1, <2>1, <2>2, <2>3, Unheard, RefQuietStep
<1>8. ASSUME NEW c \in Cars, SwitchOff(c) PROVE RefIInv'
  <2>1. /\ c \in on /\ faults' = faults + 1 /\ faults' <= MaxFaults[ride] /\ boots \in [Cars -> 0 .. faults']
    BY <1>2, <1>8 DEF SwitchOff
  <2>2. Blank(c) /\ on' = on \ {c} /\ UNCHANGED <<ride, turn, boots, gone>>
    BY <1>8 DEF SwitchOff, airVars
  <2>3. gone = [d \in Cars |-> IF d \in on' THEN 0 ELSE gone[d]]
    BY <1>0, <2>2
  <2>4. \A d \in Cars : StartsAnew(d) \/ (Keeps(d) /\ (d \notin on' => d \notin on))
    BY <2>2, Blanked
  <2> QED BY <1>1, <2>1, <2>2, <2>3, <2>4, Blanked, RefQuietStep
<1>9. ASSUME NEW c \in Cars, SwitchOn(c) PROVE RefIInv'
  <2>1. /\ c \in Riders[ride] \ on /\ faults' = faults + 1 /\ faults' <= MaxFaults[ride]
    BY <1>2, <1>9 DEF SwitchOn
  <2>2. /\ on' = on \union {c} /\ UNCHANGED beliefVars /\ UNCHANGED <<ride, turn, listen>>
        /\ boots' = [boots EXCEPT ![c] = @ + 1] /\ gone' = [gone EXCEPT ![c] = 0]
    BY <1>9 DEF SwitchOn, airVars
  <2>3. UNCHANGED <<roster, ref, parent, hops, clock>>
    BY <2>2 DEF beliefVars
  <2>4. boots' \in [Cars -> 0 .. faults']
    <3>1. boots[c] \in 0 .. faults /\ \A i \in 0 .. faults : i \in 0 .. faults' /\ i + 1 \in 0 .. faults'
      BY <1>0, <2>1
    <3> QED BY <1>0, <2>2, <3>1
  <2>5. gone' = [d \in Cars |-> IF d \in on' THEN 0 ELSE gone[d]]
    BY <1>0, <2>2
  <2> QED BY <1>0, <1>1, <2>1, <2>2, <2>3, <2>4, <2>5, Unheard, RefQuietStep
<1>10. ASSUME NEW c \in Cars, Restart(c) PROVE RefIInv'
  <2>1. /\ c \in on /\ faults' = faults + 1 /\ faults' <= MaxFaults[ride]
    BY <1>2, <1>10 DEF Restart
  <2>2. /\ Blank(c) /\ boots' = [boots EXCEPT ![c] = @ + 1] /\ UNCHANGED <<ride, turn, on, gone>>
    BY <1>10 DEF Restart, airVars
  <2>3. boots' \in [Cars -> 0 .. faults']
    <3>1. boots[c] \in 0 .. faults /\ \A i \in 0 .. faults : i \in 0 .. faults' /\ i + 1 \in 0 .. faults'
      BY <1>0, <2>1
    <3> QED BY <1>0, <2>2, <3>1
  <2>4. \A d \in Cars : StartsAnew(d) \/ (Keeps(d) /\ (d \notin on' => d \notin on))
    BY <2>2, Blanked
  <2> QED BY <1>0, <1>1, <2>1, <2>2, <2>3, <2>4, Blanked, RefQuietStep
<1>11. ASSUME NEW c \in Cars, LockChanges(c) \/ FitChanges(c) PROVE RefIInv'
  <2>1. /\ UNCHANGED beliefVars /\ UNCHANGED <<ride, turn, on, boots, listen, gone>>
    BY <1>11 DEF LockChanges, FitChanges, airVars
  <2>2. UNCHANGED <<roster, ref, parent, hops, clock>>
    BY <2>1 DEF beliefVars
  <2>3. faults' = faults + 1 /\ faults' <= MaxFaults[ride] /\ boots \in [Cars -> 0 .. faults']
    BY <1>2, <1>11 DEF LockChanges, FitChanges
  <2> QED BY <1>0, <1>1, <2>1, <2>2, <2>3, Unheard, RefQuietStep
<1>12. ASSUME NEW c \in Cars, LeaseLost(c) PROVE RefIInv'
  <2>1. /\ UNCHANGED beliefVars /\ UNCHANGED <<ride, turn, on, boots, gone>>
        /\ listen' = [listen EXCEPT ![c] = Listen]
    BY <1>12 DEF LeaseLost, airVars
  <2>2. UNCHANGED <<roster, ref, parent, hops, clock>> /\ listen' \in [Cars -> 0 .. Listen]
    BY <1>0, <2>1 DEF beliefVars
  <2>3. faults' = faults + 1 /\ faults' <= MaxFaults[ride] /\ boots \in [Cars -> 0 .. faults']
    BY <1>2, <1>12 DEF LeaseLost
  <2> QED BY <1>0, <1>1, <2>1, <2>2, <2>3, Unheard, RefQuietStep
<1>13. CASE UNCHANGED refVars
  <2>1. /\ UNCHANGED beliefVars /\ UNCHANGED <<ride, turn, on, boots, listen, gone, faults>>
    BY <1>13 DEF refVars, airVars, carVars, countVars
  <2>2. UNCHANGED <<roster, ref, parent, hops, clock>>
    BY <2>1 DEF beliefVars
  <2> QED BY <1>0, <1>1, <2>1, <2>2, Unheard, RefQuietStep
<1> QED BY <1>3, <1>4, <1>5, <1>6, <1>7, <1>8, <1>9, <1>10, <1>11, <1>12, <1>13 DEF RefNext

\* News of a car is no older than its last beacon, word of it is a lapse older
\* for each hop at most, and whom a car names is no further back than the cap.
THEOREM RefInvariant == RefSpec => []RefIInv
BY RefInvariantInit, RefInvariantKept, PTL DEF RefSpec

\* Every variable stays in its type, no route is longer than the cap, and a
\* car is no hops from the reference just when it is the reference.
THEOREM RefTypeCorrect == RefSpec => []RefTypeOK
<1>1. RefIInv => RefTypeOK
  <2> SUFFICES ASSUME RefIInv, NEW c \in Cars
               PROVE  /\ ride \in Rides /\ on \subseteq Riders[ride]
                      /\ listen[c] \in 0 .. Listen /\ ref[c] \in Candidates
                      /\ parent[c] \in Cars \union {Nobody}
                      /\ hops[c] \in 0 .. MaxRefHops \union {Unreachable}
                      /\ (hops[c] = 0) = (ref[c].id = c)
                      /\ clock[c] \in Clocks /\ gone[c] \in 0 .. Fade + 1
    BY DEF RefTypeOK, Clocks, RefIInv, RefShape
  <2> QED BY DEF RefIInv, RefShape, Beliefs, Boots
<1> QED BY <1>1, RefInvariant, PTL

\* If a car is to be named by nobody once it has been off for longer than one
\* lapse for each hop of the cap, then it is, however the beacons are lost.
THEOREM GhostsLaid ==
    ASSUME MaxRefHops * (Lapse - 1) < Fade
    PROVE  RefSpec => []GhostsFade
<1>1. RefIInv => GhostsFade
  <2> SUFFICES ASSUME RefIInv, NEW c \in on, ref[c].id # Nobody PROVE gone[ref[c].id] <= Fade
    BY DEF GhostsFade
  <2> DEFINE id == ref[c].id
  <2>1. id \in Cars
    <3>1. c \in Cars
      BY ReferenceAssumption DEF RefIInv, RefShape
    <3>2. ref[c] \in Candidates
      BY <3>1 DEF RefIInv, Beliefs
    <3> QED BY <3>2 DEF Candidates
  <2>2. gone[id] \in Nat /\ Span(MaxRefHops) \in Nat /\ Fade \in Nat
    <3>1. Span(MaxRefHops) \in Nat /\ Fade \in Nat
      BY Spans, RefNumbers
    <3> QED BY <2>1, <3>1 DEF RefIInv, RefShape
  <2>3. gone[id] <= Span(MaxRefHops) + (IF HadTurn(c) THEN 0 ELSE 1)
    BY DEF RefIInv, Named
  <2>4. Span(MaxRefHops) < Fade
    BY DEF Span
  <2> HIDE DEF id
  <2>5. gone[id] <= Fade
    BY <2>2, <2>3, <2>4
  <2> QED BY <2>5 DEF id
<1> QED BY <1>1, RefInvariant, PTL
=============================================================================

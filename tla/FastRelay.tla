------------------------------- MODULE FastRelay -------------------------------
(***************************************************************************)
(* Which forwards a car leaves out on the 2.4 GHz lane, and on what        *)
(* evidence (touge/fastrelay).                                             *)
(*                                                                         *)
(* Every beacon carries a map of whom its sender heard in which slot in    *)
(* the last HEARD_WINDOW_MS.  The judge, one car of the ride, keeps for    *)
(* every pair of the others which of the one's last maps showed the other, *)
(* and skips its forward once every other car has shown the origin, or the *)
(* relayer of the copy, often and lately.  A beacon may be lost on its way *)
(* to a car or to the judge, a link may die, and a car may move slot.      *)
(*                                                                         *)
(* A tick is a quarter of a second and has one slot, so a slot is the tick *)
(* of the second it comes in.                                              *)
(***************************************************************************)
EXTENDS Naturals, FiniteSets, Sequences

CONSTANTS
    Senders,        \* the other cars
    Judge,          \* the car that keeps the record
    Scenes,         \* kinds of ride, each with:
    FirstSlots,     \* [scene][car]: its lease
    Moves,          \* [scene]: <<car, slot>>, the leases a car may take later on
    Lossy,          \* [scene]: pairs whose second may miss a beacon of the first
    Mortal,         \* [scene]: pairs whose second may stop hearing the first
    Losses,         \* [scene]: bound, how many beacons are missed
    Changes,        \* [scene]: bound, how many links die and cars move
    RecordSeats,    \* [scene]: FAST_RELAY_CARS
    RosterSeats,    \* [scene]: MAX_RIDERS
    Second,         \* SCHEDULE_MS, in ticks; it is one more than the spacing of maps
    Window,         \* HEARD_WINDOW_MS, in ticks
    FreshFor,       \* FAST_RELAY_FRESH_MS, in ticks
    OnRideFor,      \* LEASE_MS, in ticks
    StaleAfter,     \* RIDER_STALE_MS, in ticks
    Maps,           \* FAST_RELAY_MAPS
    ShownOne,       \* FAST_RELAY_SHOWN_ONE
    ShownTwo        \* FAST_RELAY_SHOWN_TWO

NoCar == 99
NoSlot == Second            \* SLOT_NONE
Slots == 0 .. Second - 1

ASSUME FastRelayAssumption ==
    /\ Senders \subseteq Nat /\ IsFiniteSet(Senders)
    /\ NoCar \notin Senders /\ Judge \notin Senders
    /\ Second < NoCar
    /\ \A s \in Scenes :
          /\ FirstSlots[s] \in [Senders -> Slots \union {NoSlot}]
          /\ Losses[s] \in Nat /\ RecordSeats[s] \in Nat \ {0} /\ RosterSeats[s] \in Nat
    /\ {Second, Window, FreshFor, OnRideFor, StaleAfter, Maps, ShownOne, ShownTwo} \subseteq Nat \ {0}
    /\ Second < Window /\ Window < 2 * Second
    /\ Second < FreshFor /\ FreshFor < OnRideFor /\ FreshFor < Maps * Second
    /\ OnRideFor <= StaleAfter
    /\ ShownOne <= ShownTwo /\ ShownTwo <= Maps /\ Maps > 1

VARIABLES
    scene,      \* which of Scenes this is
    phase,      \* the tick of the second
    due,        \* the cars whose slot it is and that have not sent
    slotOf,     \* [car]: its lease, NoSlot without one
    dead,       \* the pairs whose second does not hear the first any more
    hears,      \* [car][slot]: slotHeardTag_ and the ticks since slotHeardMs_
    record,     \* [car]: carSlot_, mapAtMs_ and prevGap_, NoRecord without a seat
    shown,      \* [reporter][origin]: shown_, the newest map first
    riders,     \* [car]: the judge's roster, NoRider without a seat
    crowded,    \* ticks since crowdedAtMs_, OnRideFor if not crowded_
    losses,     \* history: how many beacons were missed
    changes,    \* history: how many links have died and cars have moved
    clean,      \* history: ticks since anything of that
    heardAgo    \* history, [hearer][car]: ticks since it heard a beacon of it

sceneVars == <<scene, slotOf, dead, changes>>
judgeVars == <<record, shown, riders, crowded>>
relayVars == <<sceneVars, phase, due, hears, judgeVars, losses, clean, heardAgo>>

NoGap == FreshFor           \* GAP_NONE: a gap too long to be fresh
NothingHeard == [by |-> NoCar, ago |-> Window]
NoRecord == [slot |-> NoCar, ago |-> OnRideFor, gap |-> NoGap]
NoRider == [slot |-> NoCar, ago |-> StaleAfter + 1]
NeverShown == [i \in 1 .. Maps |-> FALSE]
Evidence == FreshFor + Window   \* as long as any of it may last
Least(a, b) == IF a < b THEN a ELSE b
Long == IF Evidence < OnRideFor THEN OnRideFor ELSE Evidence

Seated(c) == record[c] # NoRecord
OnRoster(c) == riders[c] # NoRider

-----------------------------------------------------------------------------
(* The record (FastRelay::heardMap).                                       *)

\* Schedule::fillSlotMap: the car heard in each slot within the window.
MapOf(n) == [s \in Slots |-> IF hears[n][s].ago < Window THEN hears[n][s].by ELSE NoCar]

\* takeSeat, with every seat taken: the car whose latest map is oldest.
Evicted ==
    IF Cardinality({c \in Senders : Seated(c)}) < RecordSeats[scene] THEN {}
    ELSE LET taken == {c \in Senders : Seated(c)} IN
         {CHOOSE c \in taken : \A d \in taken \ {c} :
            record[c].ago > record[d].ago \/ (record[c].ago = record[d].ago /\ c < d)}

\* Fault: a map a whole second after the last one does not count.
SpacedOverASecond(gap) == gap > Second

\* At most one map a second counts (FAST_RELAY_MAP_SPACING_MS).
Spaced(gap) == gap >= Second

\* Fault: the oldest map is never dropped.
ShiftedOnly(bits, bit) == <<bit>> \o bits

Shifted(bits, bit) == <<bit>> \o SubSeq(bits, 1, Maps - 1)

\* What a map from n, which says it holds slot, does to the record: a car new
\* here takes a seat, a new lease or a long gap starts the record again.
HeardMap(n, slot, map) ==
    LET gap == record[n].ago
        new == ~Seated(n)
        moved == Seated(n) /\ record[n].slot # slot
        same == Seated(n) /\ record[n].slot = slot
        out == IF new THEN Evicted ELSE {}
        blank == IF new \/ moved THEN out \union {n} ELSE out
        seated == {t \in Senders : Seated(t)} \ out
        kept(a, b) == IF a \in blank \/ b \in blank \/ (a = n /\ gap >= Maps * Second)
                      THEN NeverShown ELSE shown[a][b]
        shows(t) == record[t].slot \in Slots /\ map[record[t].slot] = t
    IN IF same /\ ~Spaced(gap) THEN UNCHANGED <<record, shown, crowded>>
       ELSE /\ record' = [c \in Senders |->
                 IF c = n THEN [slot |-> slot, ago |-> 0,
                                gap |-> IF same THEN Least(gap, NoGap) ELSE NoGap]
                 ELSE IF c \in out THEN NoRecord ELSE record[c]]
            /\ shown' = [a \in Senders |-> [b \in Senders |->
                 IF a = n /\ b \in seated \ {n} THEN Shifted(kept(a, b), shows(b)) ELSE kept(a, b)]]
            /\ crowded' = IF \E c \in out : record[c].ago < OnRideFor THEN 0 ELSE crowded

\* Mesh::note: a full roster gives a seat up only once its car is stale.
Note(n, slot) ==
    LET taken == {c \in Senders : OnRoster(c)}
        stale == {c \in taken : riders[c].ago > StaleAfter}
        oldest == {CHOOSE c \in stale : \A d \in stale : riders[d].ago <= riders[c].ago}
        full == Cardinality(taken) >= RosterSeats[scene]
        out == IF OnRoster(n) \/ ~full \/ stale = {} THEN {} ELSE oldest
    IN riders' = [c \in Senders |->
         IF c = n /\ (OnRoster(n) \/ ~full \/ out # {}) THEN [slot |-> slot, ago |-> 0]
         ELSE IF c \in out THEN NoRider ELSE riders[c]]

-----------------------------------------------------------------------------
(* The verdict (FastRelay::judge), for a frame from o that came from r, or *)
(* from o itself if r is NoCar.                                           *)

Skip == 0
NoEvidence == 1
Stale == 2
Needed == 3

OnRide(c) == riders[c].ago < OnRideFor
OnRideHere(c) == record[c].ago < OnRideFor
HoldersOf(slot) == {c \in Senders : OnRide(c) /\ riders[c].slot = slot}
RosterMayMissCars ==
    /\ Cardinality({c \in Senders : OnRoster(c)}) >= RosterSeats[scene]
    /\ \A c \in Senders : OnRoster(c) => riders[c].ago <= StaleAfter

\* The origin's slot comes less than half a second before the reporter's, or
\* too close to that or to a whole second to tell.
MapCoversTwoBeacons(reporterSlot, originSlot) ==
    \/ NoSlot \in {reporterSlot, originSlot}
    \/ ((reporterSlot + Second - originSlot) % Second) <= Window - Second

\* Fault: the map before the latest counts, whenever it came.
PreviousOfAnyAge(k) == record[k].ago < FreshFor

PreviousMapFresh(k) ==
    record[k].gap # NoGap /\ record[k].ago + record[k].gap < FreshFor

HearsSteadily(k, o) ==
    LET two == MapCoversTwoBeacons(record[k].slot, record[o].slot)
        maps == shown[k][o]
    IN /\ Cardinality({i \in 1 .. Maps : maps[i]}) >= (IF two THEN ShownTwo ELSE ShownOne)
       /\ maps[1] \/ (~two /\ maps[2] /\ PreviousMapFresh(k))

\* placeRelayer: its column is read at the lease the roster has for it.
Placed(r) == r # NoCar /\ OnRide(r) /\ Seated(r) /\ record[r].slot = riders[r].slot

Standing(k, o, r) ==
    CASE ~Seated(k) -> NoEvidence
      [] Seated(k) /\ record[k].ago >= FreshFor -> Stale
      [] Seated(k) /\ record[k].ago < FreshFor ->
            IF HearsSteadily(k, o) \/ (Placed(r) /\ HearsSteadily(k, r)) THEN Skip ELSE Needed

Verdict(o, r) ==
    LET asked == {k \in Senders : OnRide(k) \/ OnRideHere(k)} \ {o, IF Placed(r) THEN r ELSE o}
        stands == {Standing(k, o, r) : k \in asked} \union {Skip}
    IN IF \/ RosterMayMissCars
          \/ crowded < OnRideFor
          \/ ~OnRide(o)
          \/ riders[o].slot = NoSlot \/ HoldersOf(riders[o].slot) # {o}
          \/ ~Seated(o) \/ record[o].slot # riders[o].slot
       THEN NoEvidence
       ELSE CHOOSE v \in stands : \A w \in stands : w <= v

-----------------------------------------------------------------------------
(* The ride.                                                               *)

\* An unleased car may beacon in the shared window of any tick.
DueAt(p) == {c \in Senders : slotOf[c] \in {p, NoSlot}}

RelayInit ==
    /\ scene \in Scenes
    /\ phase = 0
    /\ slotOf = FirstSlots[scene]
    /\ due = DueAt(0)
    /\ dead = {}
    /\ hears = [c \in Senders |-> [s \in Slots |-> NothingHeard]]
    /\ record = [c \in Senders |-> NoRecord]
    /\ shown = [c \in Senders |-> [d \in Senders |-> NeverShown]]
    /\ riders = [c \in Senders |-> NoRider]
    /\ crowded = OnRideFor
    /\ losses = 0
    /\ changes = 0
    /\ clean = 0
    /\ heardAgo = [c \in Senders \union {Judge} |-> [d \in Senders |-> Long]]

\* A beacon of c, which one of those that hear it may miss.  Each hearer files
\* it under the slot it names (Schedule::heardBeacon); the judge reads its map.
SendBeacon(c) ==
    /\ c \in due
    /\ due' = due \ {c}
    /\ \E missed \in SUBSET {d \in Senders \union {Judge} : <<c, d>> \in Lossy[scene] \ dead} :
        LET hearers == {d \in (Senders \union {Judge}) \ {c} : <<c, d>> \notin dead} \ missed IN
        /\ Cardinality(missed) <= 1
        /\ losses + Cardinality(missed) <= Losses[scene]
        /\ losses' = losses + Cardinality(missed)
        /\ clean' = IF missed = {} THEN clean ELSE 0
        /\ hears' = [d \in Senders |-> [s \in Slots |->
             IF d \in hearers /\ s = slotOf[c] THEN [by |-> c, ago |-> 0] ELSE hears[d][s]]]
        /\ heardAgo' = [d \in Senders \union {Judge} |->
             IF d \in hearers THEN [heardAgo[d] EXCEPT ![c] = 0] ELSE heardAgo[d]]
        /\ IF Judge \in hearers
           THEN Note(c, slotOf[c]) /\ HeardMap(c, slotOf[c], MapOf(c))
           ELSE UNCHANGED judgeVars
    /\ UNCHANGED <<sceneVars, phase>>

\* An unleased car has not moved, or has drawn another window.
Wait(c) ==
    /\ c \in due /\ slotOf[c] = NoSlot
    /\ due' = due \ {c}
    /\ UNCHANGED <<sceneVars, phase, hears, judgeVars, losses, clean, heardAgo>>

HeardOlder(h) == IF h.ago + 1 >= Window THEN NothingHeard ELSE [h EXCEPT !.ago = @ + 1]
\* A seat is never given up to time: its record stays, however old.
RecordOlder(r) == [r EXCEPT !.ago = Least(@ + 1, OnRideFor)]
RiderOlder(r) == [r EXCEPT !.ago = Least(@ + 1, StaleAfter + 1)]

Tick ==
    /\ due = {}
    /\ phase' = (phase + 1) % Second
    /\ due' = DueAt((phase + 1) % Second)
    /\ hears' = [c \in Senders |-> [s \in Slots |-> HeardOlder(hears[c][s])]]
    /\ record' = [c \in Senders |-> RecordOlder(record[c])]
    /\ riders' = [c \in Senders |-> RiderOlder(riders[c])]
    /\ crowded' = Least(crowded + 1, OnRideFor)
    /\ clean' = Least(clean + 1, (Maps + 2) * Second)
    /\ heardAgo' = [c \in Senders \union {Judge} |-> [d \in Senders |-> Least(heardAgo[c][d] + 1, Long)]]
    /\ UNCHANGED <<sceneVars, shown, losses>>

Changed ==
    /\ changes < Changes[scene]
    /\ changes' = changes + 1
    /\ clean' = 0
    /\ UNCHANGED <<scene, phase, hears, judgeVars, losses, heardAgo>>

LinkDies ==
    /\ Changed
    /\ \E pair \in Mortal[scene] \ dead : dead' = dead \union {pair}
    /\ UNCHANGED <<slotOf, due>>

Move(c) ==
    /\ Changed
    /\ due = {}
    /\ \E slot \in Slots \union {NoSlot} :
        <<c, slot>> \in Moves[scene] /\ slot # slotOf[c] /\ slotOf' = [slotOf EXCEPT ![c] = slot]
    /\ UNCHANGED <<dead, due>>

RelayNext ==
    \/ Tick
    \/ LinkDies
    \/ \E c \in Senders :
        \/ SendBeacon(c)
        \/ Wait(c)
        \/ Move(c)

RelaySpec == RelayInit /\ [][RelayNext]_relayVars

-----------------------------------------------------------------------------
(* Properties.                                                             *)

\* The record, the roster and the ages stay in their types.
RelayTypeOK ==
    /\ phase \in Slots /\ due \subseteq Senders
    /\ \A c \in Senders :
        /\ slotOf[c] \in Slots \union {NoSlot}
        /\ record[c].slot \in Slots \union {NoSlot, NoCar}
        /\ record[c].ago \in 0 .. OnRideFor /\ record[c].gap \in 0 .. NoGap
        /\ riders[c].ago \in 0 .. StaleAfter + 1
        /\ \A d \in Senders : shown[c][d] \in [1 .. Maps -> BOOLEAN]
    /\ Cardinality({c \in Senders : Seated(c)}) <= RecordSeats[scene]
    /\ Cardinality({c \in Senders : OnRoster(c)}) <= RosterSeats[scene]
    /\ crowded \in 0 .. OnRideFor /\ losses \in 0 .. Losses[scene]

Relayers(o) == (Senders \ {o}) \union {NoCar}

\* How long a car that the judge has heard is on the ride.  A car that the
\* roster turned away is known by its last map that counted, which may be up to
\* the spacing of maps older than its last beacon.
Counted(k) == IF OnRoster(k) THEN OnRideFor ELSE OnRideFor - Second + 1

\* A forward is skipped only if every car that the judge has heard within a
\* lease, on either list or turned away by both, has itself heard a beacon of
\* the origin, or of the car that relayed the copy, within HEARD_WINDOW_MS and
\* FAST_RELAY_FRESH_MS, whatever was lost, whoever moved and however old the
\* maps are (fastrelay.h: "a link that dies stops counting within" those).
SkipsOnlyHeard ==
    \A o \in Senders : \A r \in Relayers(o) : Verdict(o, r) = Skip =>
        \A k \in Senders \ {o, r} : heardAgo[Judge][k] < Counted(k) =>
            \/ heardAgo[k][o] < Evidence
            \/ r # NoCar /\ heardAgo[k][r] < Evidence

AllLeasedApart == \A c, d \in Senders : slotOf[c] # NoSlot /\ (slotOf[c] = slotOf[d] => c = d)

\* Where nothing was lost and nobody moved for two seconds more than the maps
\* of a record, and there are seats for all, no forward is sent for want of
\* evidence: the record is not put back by what does not count.
CleanAirSkips ==
    /\ clean = (Maps + 2) * Second /\ dead = {} /\ AllLeasedApart
    /\ RecordSeats[scene] >= Cardinality(Senders) /\ RosterSeats[scene] > Cardinality(Senders)
    => \A o \in Senders : \A r \in Relayers(o) : Verdict(o, r) = Skip
=============================================================================

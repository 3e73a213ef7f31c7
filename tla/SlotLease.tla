------------------------------ MODULE SlotLease ------------------------------
(***************************************************************************)
(* The slot rule of the 2.4 GHz lane (touge/schedule.cpp): which slot of   *)
(* the second a car holds, when it gives it up, and which free slots of    *)
(* its row it may add.  Every car applies the rule to its own roster; no   *)
(* car hands slots out.  TdmaRide puts several cars on the air with it.    *)
(*                                                                         *)
(* Time is counted in slots.  A second is Blocks blocks of Rows leased     *)
(* slots and one shared window; the windows below are given in slots and   *)
(* keep the order the source asserts.  Lease generations are naturals      *)
(* (16 bits and wrap-safe in the code; a ride makes far fewer claims than  *)
(* the 32768 at which the order would turn).                               *)
(***************************************************************************)
EXTENDS Integers, FiniteSets, FiniteSetsExt

CONSTANTS
    Cars,           \* node numbers
    Tag,            \* slotTag of each car: one byte, never 0, may collide
    Rows,           \* SLOTS_PER_BLOCK
    HeardWindow,    \* HEARD_WINDOW_MS
    MapTrust,       \* MAP_TRUST_MS
    JoinListen,     \* JOIN_LISTEN_MS
    Established,    \* ESTABLISHED_LEASE_MS
    ReferenceLapse, \* REFERENCE_LAPSE_MS
    Unheard,        \* UNHEARD_MS
    Lease,          \* LEASE_MS
    BackoffMax,     \* BACKOFF_MAX_MS
    LinkSeconds,    \* LINK_SECONDS
    MaxRiders       \* MAX_RIDERS

Blocks == 4
Second == Blocks * (Rows + 1)
MaxSlots == Blocks * Rows
Slots == 0 .. MaxSlots - 1
NoSlot == MaxSlots
ClashPatience == 2 * HeardWindow

ASSUME LeaseAssumption ==
    /\ Cars \subseteq Nat \ {0} /\ IsFiniteSet(Cars)
    /\ Tag \in [Cars -> Nat \ {0}]
    /\ Rows \in Nat \ {0} /\ LinkSeconds \in Nat /\ LinkSeconds >= 8
    /\ MaxRiders \in Nat /\ MaxSlots >= MaxRiders + 1
    /\ {HeardWindow, MapTrust, JoinListen, Established, ReferenceLapse,
        Unheard, Lease, BackoffMax} \subseteq Nat
    /\ Second < HeardWindow /\ HeardWindow < MapTrust
    /\ MapTrust < ReferenceLapse /\ ReferenceLapse < Lease
    /\ JoinListen >= 2 * Second
    /\ Established < Unheard /\ Unheard < Lease
    /\ BackoffMax # 0 /\ Unheard >= 5 * Second

-----------------------------------------------------------------------------
(* The second, laid out. *)

SlotStart(s) == (s % Blocks) * (Rows + 1) + s \div Blocks
RowOf(s) == s \div Blocks
BlockOf(s) == s % Blocks

\* Leases fill block 0 row by row, then block 1, 2, 3.
LeasedBefore(s, t) ==
    \/ BlockOf(s) < BlockOf(t)
    \/ BlockOf(s) = BlockOf(t) /\ RowOf(s) < RowOf(t)

\* Of two claims on one slot the older lease keeps it, then the lower number.
ClaimBeats(aGen, a, bGen, b) == IF aGen # bGen THEN aGen < bGen ELSE a < b

-----------------------------------------------------------------------------
(* The link record: for each slot the tag last heard there, when, and how  *)
(* many seconds ago each beacon remembered was heard.                      *)

Shift(seen, n) == {i \in {j + n : j \in seen} : i < LinkSeconds}

UpToNow(seen, since) ==
    IF since <= Second + Second \div 4
    THEN seen ELSE Shift(seen, (since - Second \div 4) \div Second)

SpanOf(seen) == IF seen = {} THEN 0 ELSE 1 + Max(seen)

NeverHeard == [tag |-> 0, at |-> 0, seen |-> {}]

HeardBeacon(s, sender, slot, now) ==
    IF slot = NoSlot THEN s
    ELSE LET h == s.heard[slot]
             beacons == (now - h.at + Second \div 2) \div Second
             kept == IF h.tag = Tag[sender] THEN Shift(h.seen, beacons) ELSE {}
         IN  [s EXCEPT !.heard[slot] =
                [tag |-> Tag[sender], at |-> now, seen |-> kept \union {0}]]

Record(s, slot, now) == UpToNow(s.heard[slot].seen, now - s.heard[slot].at)

\* Under half of the beacons due from the slots heard at all (hearingPoorly).
HearingPoorly(s, now) ==
    LET counted == {t \in Slots : /\ SpanOf(Record(s, t, now)) >= 2
                                  /\ \E i \in Record(s, t, now) : i < 8}
        heard == MapThenSumSet(LAMBDA t : Cardinality(Record(s, t, now)), counted)
        due == MapThenSumSet(LAMBDA t : SpanOf(Record(s, t, now)), counted)
    IN  heard * 2 < due

HearsPoorly(s, car, slot, now) ==
    /\ slot # NoSlot
    /\ s.heard[slot].tag = Tag[car]
    /\ LET r == Record(s, slot, now)
       IN  SpanOf(r) >= 4 /\ Cardinality(r) * 2 < SpanOf(r)

\* The map a beacon carries: who was heard in each slot within the window.
SlotMap(s, now) ==
    [t \in Slots |-> IF now - s.heard[t].at < HeardWindow THEN s.heard[t].tag ELSE 0]

-----------------------------------------------------------------------------
(* The roster, as the rule reads it.                                       *)

Live(riders, now) == {d \in DOMAIN riders : now - riders[d].at < Lease}

Claimants(riders, now, slot) == {d \in Live(riders, now) : riders[d].slot = slot}

Holder(riders, now, slot) ==
    CHOOSE d \in Claimants(riders, now, slot) :
        \A e \in Claimants(riders, now, slot) \ {d} :
            ClaimBeats(riders[d].leaseGen, d, riders[e].leaseGen, e)

HeldSlots(riders, now) == {t \in Slots : Claimants(riders, now, t) # {}}

\* Cars that hold no slot, or sit on one somebody else has won.
Waiting(riders, now) ==
    {d \in Live(riders, now) :
        riders[d].slot = NoSlot \/ Holder(riders, now, riders[d].slot) # d}

Direct(riders, now) == {d \in Live(riders, now) : riders[d].hops = 0}

\* Cars heard directly whose map is no older than `trust`.
MapsWithin(riders, now, trust) ==
    {d \in Direct(riders, now) : now - riders[d].at < trust}

ReportedBusy(riders, maps) == {t \in Slots : \E d \in maps : riders[d].map[t] # 0}

-----------------------------------------------------------------------------
(* settleLease.  s is the car's Schedule object before the pass.           *)

\* What every pass takes from the roster, whatever happens to the lease.
TakeView(id, s, riders, now) ==
    LET live == Live(riders, now)
        shown == {riders[d].at : d \in {e \in live :
                    s.slot # NoSlot /\ riders[e].map[s.slot] = Tag[id]}}
    IN  [s EXCEPT !.schedGen = Max({@} \union {riders[d].schedGen : d \in live}),
                  !.heardUs = Max({@} \union shown),
                  !.known = 1 + Cardinality(live),
                  !.waiting = Waiting(riders, now) # {}]

ListenAnew(s, now) == [s EXCEPT !.firstHeard = now, !.listen = JoinListen]

\* The first car heard opens the listening period.
Greet(s, now) ==
    IF s.heardAnyone THEN s ELSE [ListenAnew(s, now) EXCEPT !.heardAnyone = TRUE]

\* The last lease given up, and for which reasons.
NoteLoss(s, why, hearOther, now) ==
    IF s.slot = NoSlot THEN s
    ELSE [s EXCEPT !.loss = [slot |-> s.slot, why |-> why, hearOther |-> hearOther, at |-> now]]

LeftAlone(s, now) ==
    [NoteLoss(s, {"alone"}, 0, now) EXCEPT !.slot = NoSlot, !.heardAnyone = FALSE]

GoQuiet(s, now) ==
    [NoteLoss(s, {"quiet"}, 0, now) EXCEPT
        !.quiet = TRUE, !.slot = NoSlot,
        !.clashing = IF s.slot # NoSlot THEN FALSE ELSE @]

\* Back on the air after a silence: listen first, like a newcomer.
SpeakAgain(s, now) ==
    IF s.quiet THEN [ListenAnew(s, now) EXCEPT !.quiet = FALSE] ELSE s

\* A random extra listen from the second lease lost before it settled.
ListenAfterLoss(s, now) ==
    LET spread == Min({(s.strikes - 1) * Second, BackoffMax})
    IN  [s EXCEPT !.firstHeard = now,
                  !.listen = JoinListen + IF s.strikes > 1 THEN s.spare % spread ELSE 0]

\* Direct maps that cover a whole window since we took the slot.
Judges(s, riders, now) ==
    {d \in MapsWithin(riders, now, HeardWindow) : riders[d].at - s.leasedAt >= HeardWindow}

\* On a tie the higher tag yields.
TieLost(id, others) == others # {} /\ Min(others) < Tag[id]

\* Every judge's word on our slot, and the two ways it can be a clash.
Verdict(id, s, riders, now) ==
    LET judges == Judges(s, riders, now)
        saying == [d \in judges |-> riders[d].map[s.slot]]
        us == {d \in judges : saying[d] = Tag[id]}
        other == {d \in judges : saying[d] \notin {0, Tag[id]}}
        well == {d \in judges : ~HearsPoorly(s, d, riders[d].slot, now)}
        silent == Cardinality(well) >= 2 /\ us = {} /\ other = {}
    IN  [silent |-> silent, hearOther |-> Cardinality(other),
         clash |-> \/ silent
                   \/ Cardinality(other) > Cardinality(us)
                   \/ /\ Cardinality(other) = Cardinality(us)
                      /\ TieLost(id, {saying[d] : d \in other})]

Outranked(id, s, riders, now) ==
    /\ s.slot \in HeldSlots(riders, now)
    /\ LET h == Holder(riders, now, s.slot)
       IN  ~ClaimBeats(s.leaseGen, id, riders[h].leaseGen, h)

\* Free slots as this car sees them: nobody claims them, no trusted map hears one.
FreeSlots(riders, now, trust) ==
    (Slots \ HeldSlots(riders, now)) \ ReportedBusy(riders, MapsWithin(riders, now, trust))

\* Fault: everyone takes the first free slot.
NoQueue(id, riders, now) == 0

\* Cars ahead of us in the queue: they need a slot too and have lower numbers.
QueueRank(id, riders, now) == Cardinality({d \in Waiting(riders, now) : d < id})

\* Take the free slot after those of the cars ahead of us in the queue.
Claim(id, s, riders, now, trust) ==
    LET free == FreeSlots(riders, now, trust)
        pick == QueueRank(id, riders, now)
        Rank(t) == Cardinality({u \in free : LeasedBefore(u, t)})
    IN  IF pick >= Cardinality(free) THEN [s EXCEPT !.slot = NoSlot]
        ELSE [s EXCEPT !.slot = CHOOSE t \in free : Rank(t) = pick,
                       !.leasedAt = now, !.heardUs = now,
                       !.leaseGen = s.schedGen + 1, !.schedGen = s.schedGen + 1]

\* Fault: a lease no map shows is kept.
KeptUnheard(s, now) == FALSE

LeaseUnheard(s, now) == now - s.heardUs >= Unheard

\* Fault: no lease rides out a clash.
NeverEstablished(s, now) == FALSE

LeaseEstablished(s, now) == now - s.leasedAt >= Established

\* A car with a lease keeps it, or gives it up and listens, or moves at once.
JudgeLease(id, s, riders, now, poor, trust) ==
    LET v == Verdict(id, s, riders, now)
        since == IF v.clash /\ ~s.clashing THEN now ELSE s.clashSince
        established == LeaseEstablished(s, now)
        shown == s.heardUs > s.leasedAt
        patient == established \/ (v.silent /\ shown)
        outranked == Outranked(id, s, riders, now)
        drowned == v.clash /\ (~patient \/ now - since >= ClashPatience)
        unheard == LeaseUnheard(s, now)
        seen == [s EXCEPT !.clashing = v.clash, !.clashSince = since]
        why == {w \in {"outranked", "drowned", "unheard"} :
                  \/ w = "outranked" /\ outranked
                  \/ w = "drowned" /\ drowned
                  \/ w = "unheard" /\ unheard}
        lost == [NoteLoss(seen, why, v.hearOther, now) EXCEPT !.clashing = FALSE, !.slot = NoSlot,
                             !.strikes = Min({@ + 1, 255})]
    IN  IF why = {}
        THEN IF established /\ ~v.clash /\ shown THEN [seen EXCEPT !.strikes = 0] ELSE seen
        ELSE IF drowned \/ unheard \/ poor THEN ListenAfterLoss(lost, now)
        ELSE Claim(id, lost, riders, now, trust)

SettleLease(id, s0, riders, now, speaking) ==
    LET s1 == TakeView(id, s0, riders, now)
        s == SpeakAgain(Greet(s1, now), now)
        poor == HearingPoorly(s, now)
        trust == IF poor THEN MapTrust ELSE HeardWindow
        overdue == poor /\ \E d \in Direct(riders, now) :
                        /\ riders[d].slot # NoSlot
                        /\ now - riders[d].at >= trust
                        /\ now - riders[d].at < ReferenceLapse
        listening == now - s.firstHeard < s.listen + (IF poor THEN JoinListen ELSE 0)
    IN  IF Live(riders, now) = {} THEN LeftAlone(s1, now)
        ELSE IF ~speaking THEN GoQuiet(Greet(s1, now), now)
        ELSE IF s.slot # NoSlot THEN JudgeLease(id, s, riders, now, poor, trust)
        ELSE IF listening \/ overdue THEN s
        ELSE Claim(id, s, riders, now, trust)

-----------------------------------------------------------------------------
(* planExtras. *)

\* Blocks of our row leased by anyone we or our direct neighbours hear.
LeasedBlocks(s, riders, now) ==
    LET row == RowOf(s.slot)
        claims == {riders[d].slot : d \in Live(riders, now)}
        mapped == ReportedBusy(riders, MapsWithin(riders, now, HeardWindow))
    IN  {BlockOf(t) : t \in {u \in (claims \ {NoSlot}) \union mapped \union {s.slot} :
                                RowOf(u) = row}}

\* Who gets a free block of a row: the lease opposite it, else the nearest
\* lease before it.
ExtraOwner(free, leased) ==
    LET opposite == (free + 2) % Blocks
        Back(n) == (free + Blocks - n) % Blocks
        nearest == Min({n \in 1 .. Blocks - 1 : Back(n) \in leased})
    IN  IF opposite \in leased THEN opposite ELSE Back(nearest)

\* Fault: extras go on while a car is without a slot.
ExtrasOffWhenAlone(s) == s.slot = NoSlot \/ s.known <= 1

\* When to send none: a newcomer may be about to claim what we would send in,
\* somebody is on our slot, or the roster has no room for another car.
ExtrasOff(s) ==
    \/ s.slot = NoSlot \/ s.known <= 1
    \/ s.waiting \/ s.clashing \/ s.known - 1 >= MaxRiders

PlanExtras(s, riders, now) ==
    LET leased == LeasedBlocks(s, riders, now)
        mine == {b \in (0 .. Blocks - 1) \ leased : ExtraOwner(b, leased) = BlockOf(s.slot)}
    IN  [s EXCEPT !.extras = IF ExtrasOff(s) THEN {} ELSE {RowOf(s.slot) * Blocks + b : b \in mine}]

\* One pass over the roster.
Rebuild(id, s, riders, now, speaking) ==
    PlanExtras(SettleLease(id, s, riders, now, speaking), riders, now)

FreshSchedule ==
    [slot |-> NoSlot, leaseGen |-> 0, schedGen |-> 0, leasedAt |-> 0, heardUs |-> 0,
     heardAnyone |-> FALSE, firstHeard |-> 0, listen |-> JoinListen,
     clashing |-> FALSE, clashSince |-> 0, strikes |-> 0, quiet |-> FALSE,
     known |-> 1, waiting |-> FALSE, extras |-> {}, spare |-> 0, sharedBlock |-> 0,
     loss |-> [slot |-> NoSlot, why |-> {}, hearOther |-> 0, at |-> 0],
     heard |-> [t \in Slots |-> NeverHeard]]
=============================================================================

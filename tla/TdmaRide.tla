------------------------------ MODULE TdmaRide ------------------------------
(***************************************************************************)
(* Several cars on the air under the slot rule of SlotLease: each car's    *)
(* beacon() and drainRadio() (TougeFastModule), its roster (Mesh::note)    *)
(* and the radio between them.                                             *)
(*                                                                         *)
(* A step of the model is one slot of the second.  In it every car runs    *)
(* its pass: beacon() first, then drainRadio() on what was on the air,     *)
(* then the forwards of it.  Passes of different cars in one slot commute  *)
(* (a car reads its own state and the finished air), so they are taken in  *)
(* number order.  All cars are on one clock: pulse-locked, or synced to    *)
(* the reference.                                                          *)
(***************************************************************************)
EXTENDS SlotLease

CONSTANTS
    Rides,       \* the kinds of ride; each of the next thirteen is a function of one
    Topologies,  \* who reaches whom, not always both ways: sets of <<from, to>>
    StartOn,     \* sets of cars that may be on at the start
    PowerSlots,  \* bound: when the others may switch on
    Movers,      \* cars with a fix the ride has not had at every slot
    Fast,        \* cars that move GATE_METRES in a slot
    Relays,      \* cars that forward
    Louder,      \* which car may be loudest to each, 0 for none: functions
    Steady,      \* does a car keep hearing the loudest of a clash
    MaxNow,      \* bound: slots of the run
    MaxFaults,   \* bound: frames lost or refused
    FaultSlots,  \* bound: when
    MaxEvents,   \* bound: cars switched off, fixes lost or back, moves
    EventSlots,  \* bound: when
    Draws,       \* what drawSharedTurn may draw: [block, spare]
    SettleTime   \* how soon after trouble the ride has settled again

ASSUME RideAssumption ==
    /\ Cardinality(Cars) - 1 < MaxRiders   \* a full roster is not modelled
    /\ \A r \in Rides :
          /\ Topologies[r] \subseteq SUBSET {l \in Cars \X Cars : l[1] # l[2]}
          /\ StartOn[r] \subseteq (SUBSET Cars) \ {{}}
          /\ Movers[r] \subseteq Cars /\ Fast[r] \subseteq Cars /\ Relays[r] \subseteq Cars
          /\ Louder[r] \subseteq [Cars -> Cars \union {0}] /\ Steady[r] \in BOOLEAN
          /\ {MaxNow[r], MaxFaults[r], MaxEvents[r]} \subseteq Nat
    /\ Draws \subseteq [block : 0 .. Blocks - 1, spare : Nat]

VARIABLES
    ride,    \* the kind of ride this is, from start to end
    now,     \* slots since the start
    step,    \* "beacon", "drain" or "relay": which part of the passes runs
    turn,    \* the car whose pass it is
    on,      \* cars switched on
    feeding, \* cars whose fix is fresh (OwnFix::fresh)
    links,   \* <<from, to>>: `to` is in earshot of `from`
    loudest, \* the car each car hears through a clash, 0 for none
    sched,   \* schedule_ of each car
    riders,  \* mesh_.riders() of each car: the roster
    radio,   \* wantBeacon_, sentOnce_, nextBeaconMs_, announcedSlot_
    air,     \* frames on the air in this slot
    got,     \* the frames each car heard straight from their sender
    faults, events, \* how many so far
    trouble  \* history: the slot of the last fault, event or switch-on

clock == <<now, step, turn>>
world == <<ride, on, feeding, links, loudest>>
vars == <<clock, world, sched, riders, radio, air, got, faults, events, trouble>>

FreshRadio == [want |-> FALSE, sentOnce |-> FALSE, deadline |-> 0, announced |-> NoSlot]

Init ==
    /\ ride \in Rides
    /\ on \in StartOn[ride] /\ feeding = Cars
    /\ now = 0 /\ step = "beacon" /\ turn = Min(on)
    /\ links \in Topologies[ride] /\ loudest \in Louder[ride]
    /\ sched = [c \in Cars |-> FreshSchedule]
    /\ riders = [c \in Cars |-> << >>]
    /\ radio = [c \in Cars |-> FreshRadio]
    /\ air = {} /\ got = [c \in Cars |-> {}]
    /\ faults = 0 /\ events = 0 /\ trouble = 0

-----------------------------------------------------------------------------
(* The order of the passes. *)

NextSlot ==
    /\ now < MaxNow[ride]
    /\ now' = now + 1 /\ step' = "beacon" /\ turn' = Min(on)
    /\ air' = {} /\ got' = [c \in Cars |-> {}]

PassTo(nextStep) == step' = nextStep /\ turn' = Min(on) /\ UNCHANGED now

Later(c) == {d \in on : d > c}

NextCar(c) == turn' = Min(Later(c)) /\ UNCHANGED <<now, step>>

-----------------------------------------------------------------------------
(* beacon(). *)

InSlot(s) ==
    \/ s.known <= 1
    \/ s.slot # NoSlot /\ now % Second = SlotStart(s.slot)
    \/ s.slot = NoSlot /\ now % Second = s.sharedBlock * (Rows + 1) + Rows

InExtraSlot(s) == \E t \in s.extras : now % Second = SlotStart(t)

\* Fault: a deadline just due is pushed a second too far.
NextOnGridTwice(deadline) ==
    IF now < deadline THEN deadline
    ELSE deadline + ((now - deadline) \div Second + 2) * Second

\* The next beacon keeps to the car's own 1 s grid, however late this one was.
NextOnGrid(deadline) ==
    IF now < deadline THEN deadline
    ELSE deadline + ((now - deadline) \div Second + 1) * Second

Kind(s) ==
    IF s.known <= 1 THEN "alone" ELSE IF s.slot # NoSlot THEN "lease" ELSE "shared"

FillBeacon(c, s, kind) ==
    [src |-> c, kind |-> kind, slot |-> s.slot, leaseGen |-> s.leaseGen,
     schedGen |-> s.schedGen, map |-> SlotMap(s, now)]

BeaconTurn(c) == step = "beacon" /\ turn = c

EndBeacon(c, newAir) ==
    /\ IF Later(c) # {} THEN NextCar(c) /\ air' = newAir /\ UNCHANGED got
       ELSE IF newAir # {} THEN PassTo("drain") /\ air' = newAir /\ UNCHANGED got
       ELSE NextSlot
    /\ UNCHANGED <<world, riders, events>>

\* Nothing worth saying.
NoBeacon(c) ==
    /\ BeaconTurn(c)
    /\ c \notin feeding
    /\ EndBeacon(c, air)
    /\ UNCHANGED <<sched, radio, faults, trouble>>

ExtraDue(c) == c \in Movers[ride] /\ radio[c].sentOnce /\ InExtraSlot(sched[c])

SendExtraBeacon(c) ==
    /\ BeaconTurn(c)
    /\ c \in feeding
    /\ ExtraDue(c)
    /\ EndBeacon(c, air \union {FillBeacon(c, sched[c], "extra")})
    /\ UNCHANGED <<sched, radio, faults, trouble>>

\* A beacon falls due on the 1 s grid or on distance; only then is the
\* roster read again and a turn in the shared window drawn.
Due(c) ==
    /\ ~radio[c].want
    /\ ~radio[c].sentOnce \/ now >= radio[c].deadline \/ c \in Fast[ride]

Reread(c, draw) ==
    [Rebuild(c, sched[c], riders[c], now, TRUE)
        EXCEPT !.sharedBlock = draw.block, !.spare = draw.spare]

\* The schedule beacon() sends under: read again if the beacon is due.
Schedules(c) == IF Due(c) THEN {Reread(c, draw) : draw \in Draws} ELSE {sched[c]}

\* A lease nobody has heard yet goes out in its first slot.
Wants(c, s) ==
    radio[c].want \/ Due(c) \/ (s.slot # NoSlot /\ s.slot # radio[c].announced)

LeaseTurn(c) == BeaconTurn(c) /\ c \in feeding /\ ~ExtraDue(c)

HoldBeacon(c) ==
    /\ LeaseTurn(c)
    /\ \E s \in Schedules(c) :
        /\ ~(Wants(c, s) /\ InSlot(s))
        /\ sched' = [sched EXCEPT ![c] = s]
        /\ radio' = [radio EXCEPT ![c].want = Wants(c, s)]
    /\ EndBeacon(c, air)
    /\ UNCHANGED <<faults, trouble>>

SendBeacon(c) ==
    /\ LeaseTurn(c)
    /\ \E s \in Schedules(c) :
        /\ Wants(c, s) /\ InSlot(s)
        /\ sched' = [sched EXCEPT ![c] = s]
        /\ radio' = [radio EXCEPT ![c] =
              [want |-> FALSE, sentOnce |-> TRUE, announced |-> s.slot,
               deadline |-> NextOnGrid(IF radio[c].sentOnce THEN @.deadline ELSE now)]]
        /\ EndBeacon(c, air \union {FillBeacon(c, s, Kind(s))})
    /\ UNCHANGED <<faults, trouble>>

\* The radio refuses the frame all through the slot: it is still wanted.
RefuseBeacon(c) ==
    /\ LeaseTurn(c)
    /\ faults < MaxFaults[ride] /\ now \in FaultSlots[ride]
    /\ \E s \in Schedules(c) :
        /\ Wants(c, s) /\ InSlot(s)
        /\ sched' = [sched EXCEPT ![c] = s]
        /\ radio' = [radio EXCEPT ![c].want = TRUE]
    /\ EndBeacon(c, air)
    /\ faults' = faults + 1 /\ trouble' = now

-----------------------------------------------------------------------------
(* drainRadio() and the forwards. *)

\* Mesh::note: a car heard directly within the hold stays direct.
Note(roster, f, hops) ==
    LET known == f.src \in DOMAIN roster
        held == /\ hops > 0 /\ known
                /\ roster[f.src].hops = 0
                /\ now - roster[f.src].directAt < HeardWindow
        rider == [slot |-> f.slot, leaseGen |-> f.leaseGen, schedGen |-> f.schedGen,
                  map |-> f.map, at |-> now, hops |-> IF held THEN 0 ELSE hops,
                  directAt |-> IF hops = 0 THEN now
                               ELSE IF known THEN roster[f.src].directAt ELSE 0]
    IN  [d \in DOMAIN roster \union {f.src} |-> IF d = f.src THEN rider ELSE roster[d]]

\* One frame through drainRadio: roster, link record, schedule.
Take(c, f, hops, me) ==
    LET roster == Note(me.riders, f, hops)
        s == IF hops = 0 /\ f.kind # "extra"
             THEN HeardBeacon(me.sched, f.src, f.slot, now) ELSE me.sched
    IN  [riders |-> roster, sched |-> Rebuild(c, s, roster, now, c \in feeding)]

\* The nth frame, by sender: a car sends one a slot at most.
Nth(frames, n) == CHOOSE f \in frames : Cardinality({g \in frames : g.src < f.src}) = n - 1

\* The car after each frame of one pass.
Drained(c, frames, hops) ==
    LET me[n \in 0 .. Cardinality(frames)] ==
            IF n = 0 THEN [riders |-> riders[c], sched |-> sched[c]]
            ELSE Take(c, Nth(frames, n), hops, me[n - 1])
    IN  me[Cardinality(frames)]

TakeAll(c, frames, hops) ==
    /\ \E me \in {Drained(c, frames, hops)} :
          /\ riders' = [riders EXCEPT ![c] = me.riders]
          /\ sched' = [sched EXCEPT ![c] = me.sched]
    /\ UNCHANGED <<world, radio, events>>

InEarshot(c) == {f \in air : <<f.src, c>> \in links}

\* Frames that start as a slot opens; those of cars on their own, or in the
\* shared window, start at scattered times and find room.
Scheduled(f) == f.kind \in {"lease", "extra"}

\* What c may hear.  Of frames that open one slot together at most one gets
\* through, and none to a car that sent one of them.
Hearable(c) ==
    LET timed == {f \in InEarshot(c) : Scheduled(f)}
        clear == InEarshot(c) \ timed
    IN  IF timed = {} THEN {clear}
        ELSE IF \E f \in air : f.src = c /\ Scheduled(f) THEN {clear}
        ELSE IF Cardinality(timed) = 1 THEN {clear \union timed}
        ELSE IF Steady[ride] THEN {clear \union {f \in timed : f.src = loudest[c]}}
        ELSE {clear} \union {clear \union {f} : f \in timed}

EndDrain(c, heard) ==
    IF Later(c) # {} THEN NextCar(c) /\ got' = [got EXCEPT ![c] = heard] /\ UNCHANGED air
    ELSE IF Relays[ride] # {} THEN PassTo("relay") /\ got' = [got EXCEPT ![c] = heard] /\ UNCHANGED air
    ELSE NextSlot

DrainRadio(c) ==
    /\ step = "drain" /\ turn = c
    /\ \E heard \in Hearable(c) : TakeAll(c, heard, 0) /\ EndDrain(c, heard)
    /\ UNCHANGED <<faults, trouble>>

\* One of the frames it could have heard is lost to this car.
LoseFrame(c) ==
    /\ step = "drain" /\ turn = c
    /\ faults < MaxFaults[ride] /\ now \in FaultSlots[ride]
    /\ \E heard \in Hearable(c) : \E f \in heard :
          TakeAll(c, heard \ {f}, 0) /\ EndDrain(c, heard \ {f})
    /\ faults' = faults + 1 /\ trouble' = now

\* Lease beacons are forwarded; an extra goes out with no hops left.
Forwarded(c) ==
    {f \in air : /\ f.kind # "extra" /\ f.src # c /\ f \notin got[c]
                 /\ \E m \in Relays[ride] \intersect on : f \in got[m] /\ <<m, c>> \in links}

EndRelay(c) == IF Later(c) # {} THEN NextCar(c) /\ UNCHANGED <<air, got>> ELSE NextSlot

HearForwards(c) ==
    /\ step = "relay" /\ turn = c
    /\ TakeAll(c, Forwarded(c), 1)
    /\ EndRelay(c)
    /\ UNCHANGED <<faults, trouble>>

LoseForwards(c) ==
    /\ step = "relay" /\ turn = c
    /\ faults < MaxFaults[ride] /\ now \in FaultSlots[ride]
    /\ Forwarded(c) # {}
    /\ TakeAll(c, {}, 1)
    /\ EndRelay(c)
    /\ faults' = faults + 1 /\ trouble' = now

-----------------------------------------------------------------------------
(* The world: between two slots. *)

BetweenSlots == step = "beacon" /\ turn = Min(on)

SwitchOn(c) ==
    /\ BetweenSlots
    /\ c \notin on
    /\ now \in PowerSlots[ride]
    /\ on' = on \union {c}
    /\ turn' = Min(on')
    /\ sched' = [sched EXCEPT ![c] = FreshSchedule]
    /\ riders' = [riders EXCEPT ![c] = << >>]
    /\ radio' = [radio EXCEPT ![c] = FreshRadio]
    /\ trouble' = now
    /\ UNCHANGED <<now, step, ride, feeding, links, loudest, air, got, faults, events>>

Event ==
    /\ BetweenSlots
    /\ events < MaxEvents[ride] /\ now \in EventSlots[ride]
    /\ events' = events + 1 /\ trouble' = now

SwitchOff(c) ==
    /\ Event
    /\ on' = on \ {c} /\ on' # {} /\ c \in on
    /\ turn' = Min(on')
    /\ UNCHANGED <<now, step, ride, feeding, links, loudest, sched, riders, radio, air, got, faults>>

\* The phone stops feeding a fix, or starts again.
FixChanges(c) ==
    /\ Event
    /\ c \in on
    /\ feeding' = IF c \in feeding THEN feeding \ {c} ELSE feeding \union {c}
    /\ UNCHANGED <<clock, ride, on, links, loudest, sched, riders, radio, air, got, faults>>

\* Cars drive in or out of each other's range.
Move ==
    /\ Event
    /\ links' \in Topologies[ride] \ {links}
    /\ UNCHANGED <<clock, ride, on, feeding, loudest, sched, riders, radio, air, got, faults>>

Pass(c) ==
    \/ NoBeacon(c) \/ SendExtraBeacon(c) \/ HoldBeacon(c) \/ SendBeacon(c)
    \/ RefuseBeacon(c)
    \/ DrainRadio(c) \/ LoseFrame(c)
    \/ HearForwards(c) \/ LoseForwards(c)

Next ==
    \/ \E c \in Cars : Pass(c) \/ SwitchOn(c) \/ SwitchOff(c) \/ FixChanges(c)
    \/ Move

Spec == Init /\ [][Next]_vars

-----------------------------------------------------------------------------
(* Properties. *)

ScheduleOK(s) ==
    /\ s.slot \in Slots \union {NoSlot}
    /\ s.leaseGen <= s.schedGen
    /\ s.extras \subseteq {t \in Slots \ {s.slot} : RowOf(t) = RowOf(s.slot)}
    /\ s.listen \in JoinListen .. JoinListen + BackoffMax
    /\ s.strikes \in 0 .. 255 /\ s.known \in 1 .. Cardinality(Cars)
    /\ {s.leasedAt, s.heardUs, s.firstHeard, s.clashSince} \subseteq 0 .. now
    /\ \A t \in Slots : s.heard[t].at <= now /\ s.heard[t].seen \subseteq 0 .. LinkSeconds - 1

\* The shape of every car's state; above all: no car ever puts its next
\* beacon further off than one second (nextBeaconMs_, TougeFastModule::beacon).
TypeOK ==
    /\ ride \in Rides /\ now \in 0 .. MaxNow[ride] /\ step \in {"beacon", "drain", "relay"}
    /\ turn \in on /\ on \subseteq Cars /\ feeding \subseteq Cars
    /\ links \in Topologies[ride] /\ loudest \in Louder[ride]
    /\ faults \in 0 .. MaxFaults[ride] /\ events \in 0 .. MaxEvents[ride] /\ trouble \in 0 .. now
    /\ {f.src : f \in air} \subseteq on
    /\ \A c \in Cars :
          /\ ScheduleOK(sched[c])
          /\ DOMAIN riders[c] \subseteq Cars \ {c}
          /\ radio[c].deadline <= now + Second
          /\ radio[c].announced \in Slots \union {NoSlot}
          /\ got[c] \subseteq air

Leased(c) == c \in on /\ sched[c].slot # NoSlot

Hears(c, d) == <<d, c>> \in links /\ {c, d} \subseteq on

\* Two cars whose frames meet at some car: one of them, or one between them.
Meet(c, d) == \/ Hears(c, d) \/ Hears(d, c)
              \/ \E m \in on : Hears(m, c) /\ Hears(m, d)

NoSlotShared ==
    \A c, d \in on : c # d /\ Leased(c) /\ Leased(d) /\ Meet(c, d) =>
        sched[c].slot # sched[d].slot

\* Every car in every other's earshot and nothing has gone wrong yet.
Together ==
    /\ faults = 0 /\ events = 0
    /\ \A c, d \in Cars : c # d => <<c, d>> \in links

\* Two cars whose beacons meet never hold one slot while the cars of a ride
\* power on together in one another's earshot: the queue in settleLease keeps
\* cars that claim from the same roster off one slot.
LeasesApart == Together => NoSlotShared

\* On such a ride no lease beacon or extra position shares its slot on the air
\* with another: planExtras fills free slots only where nobody may be about to
\* beacon.
ScheduledAirClear ==
    Together => \A f, g \in air : f # g /\ Meet(f.src, g.src) => ~(Scheduled(f) /\ Scheduled(g))

TwoWay == \A l \in links : <<l[2], l[1]>> \in links

\* SettleTime after the last car joined, drove or lost a frame, hidden or
\* doubled leases are gone and every car in earshot of another has a slot: the
\* slot maps bring every clash to light and settleLease moves one of the two.
\* A car that hears the ride but is not heard never settles, so links run
\* both ways here.
SettlesInTime ==
    TwoWay /\ now - trouble >= SettleTime =>
        /\ NoSlotShared
        /\ \A c \in on \intersect feeding : (\E d \in feeding : Hears(c, d)) => Leased(c)

\* Gave its slot up because maps showed another car on it.
YieldedTo(c) == "drowned" \in sched[c].loss.why /\ sched[c].loss.hearOther > 0

\* When neighbours hear both of two cars on a slot, one of them moves and not
\* both ("so exactly one of a pair moves", settleLease).
OneOfPairMoves ==
    \A c, d \in on : c # d /\ Meet(c, d) /\ YieldedTo(c) /\ YieldedTo(d)
        /\ sched[c].loss.slot = sched[d].loss.slot
        => sched[c].loss.at - sched[d].loss.at \notin 0 .. HeardWindow

Claims(c) == sched'[c].slot \notin {NoSlot, sched[c].slot}

\* A car never claims the slot of a car it had heard hold it, before this pass,
\* under the lease that car still has: the holder gives an unheard lease up (UNHEARD_MS) before the
\* ride lets it lapse (LEASE_MS).
NoTakeover ==
    [][\A c \in Cars : Claims(c) => \A d \in on \ {c} :
          ~(/\ d \in DOMAIN riders[c]
            /\ riders[c][d].slot = sched'[c].slot
            /\ riders[c][d].leaseGen = sched[d].leaseGen
            /\ sched[d].slot = sched'[c].slot)]_vars

\* A car settled on its slot is not moved off it while maps still show it
\* there: it rides a clash out for CLASH_PATIENCE_MS, and it is the newcomer
\* that landed on the slot unseen that moves.
\* (A move to another slot within the pass starts heardUs afresh.)
IncumbentStays ==
    [][\A c \in on \intersect on' \intersect feeding :
          /\ sched[c].slot # NoSlot /\ now - sched[c].leasedAt >= Established
          /\ sched'[c].slot # sched[c].slot
          => LET after == IF sched'[c].slot = NoSlot THEN sched'[c] ELSE sched[c]
             IN  now - after.heardUs >= ClashPatience]_vars
=============================================================================

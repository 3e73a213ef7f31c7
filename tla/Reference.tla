------------------------------- MODULE Reference -------------------------------
(***************************************************************************)
(* Which car keeps the ride's time, and how its clock reaches the others   *)
(* (Schedule::electReference, chooseParent, takesClockFrom, syncTo,        *)
(* startEpoch).                                                            *)
(*                                                                         *)
(* Each car names the best reference it has heard or been told of, and     *)
(* takes the second's start from the direct beacons of its parent, the     *)
(* neighbour with the shortest route to that car.  Both rest on beacons    *)
(* that may be lost, of cars that may have gone.                           *)
(*                                                                         *)
(* A second is one beacon of each car that is on, in the order of their    *)
(* slots.  A beacon reaches the neighbours directly and, if the lane       *)
(* forwards that far, the next cars as a relayed copy.  Where in time a    *)
(* clock puts the second is abstracted to whose second it is.              *)
(***************************************************************************)
EXTENDS Naturals, FiniteSets, Sequences

CONSTANTS
    Cars,           \* node numbers
    Rides,          \* kinds of ride, each with:
    Riders,         \* [ride]: its cars
    Order,          \* [ride]: those cars in the order of their slots
    Links,          \* [ride]: the pairs of neighbours, both ways
    LateLinks,      \* [ride]: the pairs that only meet later on
    Reaches,        \* [ride]: how many links a beacon may travel
    Leavers,        \* [ride]: cars that may be switched off, or restarted
    Flighty,        \* [ride]: cars whose pulse lock or fitness may change
    Unseated,       \* [ride]: cars that may lose their lease
    Deaf,           \* [ride]: pairs whose second may lose the first's beacons
    MaxFaults,      \* [ride]: bound, how often any of that happens
    Lapse,          \* REFERENCE_LAPSE_MS, in seconds
    Lease,          \* LEASE_MS, in seconds
    Listen,         \* JOIN_LISTEN_MS, in seconds
    DirectHold,     \* DIRECT_HOLD_MS, in seconds
    MaxRefHops,     \* MAX_REF_HOPS
    Settle,         \* seconds without a fault after which the ride agrees
    Fade            \* seconds after which a car that has gone is named by nobody

Nobody == 0
Unreachable == 15                       \* REF_UNREACHABLE

ASSUME ReferenceAssumption ==
    /\ Cars \subseteq Nat \ {Nobody}
    /\ {Lapse, Lease, Listen, DirectHold, MaxRefHops, Settle, Fade} \subseteq Nat \ {0}
    /\ Lapse < Lease /\ MaxRefHops < Unreachable
    /\ \A r \in Rides :
          /\ Riders[r] \subseteq Cars /\ Order[r] \in Seq(Riders[r])
          /\ \A c \in Riders[r] : \E i \in 1 .. Len(Order[r]) : Order[r][i] = c
          /\ MaxFaults[r] \in Nat

VARIABLES
    ride,       \* which of Rides this is
    reach,      \* how many links its beacons travel
    met,        \* LateLinks are links now
    turn,       \* whose slot is next, of Order
    on,         \* the cars that are on
    boots,      \* [car]: how often it has been switched on
    locked,     \* the cars whose rideClock is locked
    fit,        \* the cars that are fit_
    announced,  \* the cars with announcedFit_
    listen,     \* [car]: seconds until it claims a lease, 0 with one
    roster,     \* [car][other]: its Rider for it
    ref,        \* [car]: referenceId_, referenceLocked_, referenceFit_
    parent,     \* [car]: parentId_
    hops,       \* [car]: refHops_
    clock,      \* [car]: whose second epochMs_ starts
    faults,     \* history: how many faults there have been
    calm,       \* history: seconds since the last one
    gone        \* history, [car]: seconds since it was switched off

airVars == <<ride, reach, met, turn>>
carVars == <<on, boots, locked, fit, listen>>
beliefVars == <<announced, roster, ref, parent, hops, clock>>
countVars == <<faults, calm, gone>>
refVars == <<airVars, carVars, beliefVars, countVars>>

NoClock == <<0, 0>>
Pulse == <<0, 1>>                       \* the second of a GPS pulse
OwnClock(c) == <<c, boots[c]>>          \* the second of a car that keeps to none
Leased(c) == listen[c] = 0

NewRider == [age |-> Lease, directAge |-> Lease, direct |-> FALSE, locked |-> FALSE,
            fit |-> FALSE, leased |-> FALSE, refId |-> Nobody, refHops |-> Unreachable,
            refLocked |-> FALSE, refFit |-> FALSE]

Lesser(a, b) == IF a < b THEN a ELSE b

-----------------------------------------------------------------------------
(* The links.                                                              *)

Linked == Links[ride] \union (IF met THEN LateLinks[ride] ELSE {})

\* The cars within k links of c, over cars that are on.
Within(c, k) ==
    LET near[n \in 0 .. k] ==
        IF n = 0 THEN {c}
        ELSE LET last == near[n - 1] IN
             last \union {d \in on : \E e \in last : <<e, d>> \in Linked}
    IN near[k]

\* How a beacon of c comes to each other when nothing goes wrong.
Carried(c) ==
    LET near == Within(c, 1)
        far == Within(c, reach)
    IN [d \in Cars |-> IF d \in near THEN "direct" ELSE IF d \in far THEN "relayed" ELSE "lost"]

-----------------------------------------------------------------------------
(* Electing the reference, from a car's roster.                            *)

\* betterReference.
Better(a, b) ==
    \/ a.locked /\ ~b.locked
    \/ a.locked = b.locked /\ a.fit /\ ~b.fit
    \/ a.locked = b.locked /\ a.fit = b.fit /\ a.id < b.id

Heard(riders) == {d \in Cars : riders[d].age < Lease}

\* Fault: a car votes for as long as it keeps its lease.
HeardVote(riders) == {d \in Cars : riders[d].age < Lease}

\* The cars that have not been quiet for REFERENCE_LAPSE_MS.
Voting(riders) == {d \in Cars : riders[d].age < Lapse}

\* Fault: a neighbour's word counts for a car that we hear ourselves.
HearsayCounts(c, riders, id) == id = c

\* current: our own news of that car is the better one.
Current(c, riders, id) == id = c \/ id \in Voting(riders)

Itself(riders, d) == [locked |-> riders[d].locked, fit |-> riders[d].fit, id |-> d]

Believed(c, riders, d) ==
    riders[d].refId # Nobody /\ riders[d].refHops < MaxRefHops /\ ~Current(c, riders, riders[d].refId)

Belief(riders, d) ==
    [locked |-> riders[d].refLocked, fit |-> riders[d].refFit, id |-> riders[d].refId]

\* Those who stand: the voters, ourselves if we may, and whom the voters name.
Standers(c, riders, self, voters) ==
    self \union {Itself(riders, d) : d \in voters}
         \union {Belief(riders, d) : d \in {v \in voters : Believed(c, riders, v)}}

Elect(c, riders, isLocked, leased) ==
    LET self == [locked |-> isLocked, fit |-> c \in announced, id |-> c]
        able == {d \in Voting(riders) : riders[d].locked \/ riders[d].leased}
        ableStand == Standers(c, riders, IF isLocked \/ leased THEN {self} ELSE {}, able)
        stand == IF ableStand # {} THEN ableStand
                 ELSE Standers(c, riders, {self}, Voting(riders))
    IN CHOOSE best \in stand : \A other \in stand \ {best} : Better(best, other)

-----------------------------------------------------------------------------
(* Choosing whom to take the second from.                                  *)

\* Cars whose beacons mark time.
Markers(riders) == {d \in Voting(riders) : riders[d].direct /\ riders[d].leased}

\* Fault: a neighbour's route is taken however long.
ViaAnyRoute(riders, id, d) ==
    CASE d = id -> 0
      [] d # id /\ riders[d].refId = id -> riders[d].refHops
      [] OTHER -> Unreachable

\* A marker's distance from the reference.
Via(riders, id, d) ==
    CASE d = id -> 0
      [] d # id /\ riders[d].refId = id /\ riders[d].refHops < MaxRefHops -> riders[d].refHops
      [] OTHER -> Unreachable

Nearest(riders, id) ==
    LET routes == {d \in Markers(riders) : Via(riders, id, d) < Unreachable} IN
    IF routes = {} THEN Nobody
    ELSE CHOOSE d \in routes : \A e \in routes \ {d} :
            \/ Via(riders, id, d) < Via(riders, id, e)
            \/ Via(riders, id, d) = Via(riders, id, e) /\ d < e

\* Schedule::rebuild, as far as it is about time.
Rebuilt(c, riders, leased) ==
    LET best == Elect(c, riders, c \in locked, leased)
        from == IF best.id = c THEN Nobody ELSE Nearest(riders, best.id)
    IN [ref |-> best, parent |-> from,
        hops |-> CASE best.id = c -> 0
                   [] best.id # c /\ from = Nobody -> Unreachable
                   [] OTHER -> Via(riders, best.id, from) + 1]

-----------------------------------------------------------------------------
(* A beacon, and hearing one.                                              *)

\* Fault: a car that has its second takes another from whoever it hears.
TakesAnyClock(d, c) == TRUE

\* Schedule::takesClockFrom.
TakesClockFrom(d, c) ==
    clock[d] = NoClock \/ c = (IF parent[d] # Nobody THEN parent[d] ELSE ref[d].id)

\* Schedule::startEpoch, on the car's own pass, after rebuild.
StartsEpoch(c, now) ==
    /\ now.ref.id = c
    /\ clock[c] = NoClock
    /\ Heard(roster[c]) # {}
    /\ Markers(roster[c]) = {}

\* The clock the sender goes by as it sends: setPhase, or startEpoch, or none.
KeptClock(c, now) ==
    CASE c \in locked -> Pulse
      [] c \notin locked /\ StartsEpoch(c, now) -> OwnClock(c)
      [] OTHER -> clock[c]

\* Mesh::note: a forward that beat a lost direct copy leaves the car direct.
Noted(rider, how, beacon) ==
    LET held == how = "relayed" /\ rider.direct /\ rider.directAge <= DirectHold IN
    [beacon EXCEPT !.direct = how = "direct" \/ held,
                   !.directAge = IF how = "direct" THEN 0 ELSE rider.directAge]

\* The beacon of c, as each of the others hears it: sync, note, rebuild.
BeaconFrom(c, comes) ==
    LET leased == Leased(c) \/ (listen[c] = 1 /\ Heard(roster[c]) # {})
        now == Rebuilt(c, roster[c], leased)
        kept == KeptClock(c, now)
        shown == IF kept = NoClock THEN OwnClock(c) ELSE kept
        beacon == [age |-> 0, directAge |-> Lease, direct |-> FALSE, locked |-> c \in locked,
                   fit |-> c \in fit, leased |-> leased, refId |-> now.ref.id, refHops |-> now.hops,
                   refLocked |-> now.ref.locked, refFit |-> now.ref.fit]
        hearers == {d \in on \ {c} : comes[d] # "lost"}
        rosters == [d \in Cars |-> IF d \in hearers THEN [roster[d] EXCEPT ![c] = Noted(@, comes[d], beacon)]
                                   ELSE roster[d]]
        after == [d \in Cars |->
            CASE d = c -> now
              [] d \in hearers -> Rebuilt(d, rosters[d], Leased(d))
              [] OTHER -> [ref |-> ref[d], parent |-> parent[d], hops |-> hops[d]]]
    IN /\ listen' = [listen EXCEPT ![c] = IF Heard(roster[c]) # {} /\ @ > 0 THEN @ - 1 ELSE @]
       /\ announced' = IF c \in fit THEN announced \union {c} ELSE announced \ {c}
       /\ roster' = rosters
       /\ ref' = [d \in Cars |-> after[d].ref]
       /\ parent' = [d \in Cars |-> after[d].parent]
       /\ hops' = [d \in Cars |-> after[d].hops]
       /\ clock' = [d \in Cars |->
            IF d = c THEN kept
            ELSE IF d \in hearers /\ comes[d] = "direct" /\ leased /\ TakesClockFrom(d, c)
                 THEN shown
                 ELSE clock[d]]

-----------------------------------------------------------------------------
(* The ride.                                                               *)

NewCar == [announced |-> FALSE, ref |-> [locked |-> FALSE, fit |-> FALSE, id |-> Nobody]]

RefInit ==
    /\ ride \in Rides
    /\ reach \in Reaches[ride]
    /\ met = FALSE
    /\ turn = 1
    /\ on = Riders[ride]
    /\ boots = [c \in Cars |-> 0]
    /\ locked = {}
    /\ fit = {}
    /\ announced = {}
    /\ listen = [c \in Cars |-> Listen]
    /\ roster = [c \in Cars |-> [d \in Cars |-> NewRider]]
    /\ ref = [c \in Cars |-> NewCar.ref]
    /\ parent = [c \in Cars |-> Nobody]
    /\ hops = [c \in Cars |-> Unreachable]
    /\ clock = [c \in Cars |-> NoClock]
    /\ faults = 0
    /\ calm = 0
    /\ gone = [c \in Cars |-> IF c \in on THEN 0 ELSE Fade + 1]

Turns == Len(Order[ride])
Next1 == turn' = turn + 1

\* A car's beacon, as far as the links and the lane carry it.
Beacon ==
    /\ turn <= Turns
    /\ LET c == Order[ride][turn] IN
       /\ c \in on
       /\ BeaconFrom(c, Carried(c))
    /\ Next1
    /\ UNCHANGED <<ride, reach, met, on, boots, locked, fit, countVars>>

Fault(happens) ==
    /\ happens
    /\ faults < MaxFaults[ride]
    /\ faults' = faults + 1
    /\ calm' = 0

\* The same, but one of the others loses the direct copy, or both.
BeaconMissed ==
    /\ turn <= Turns
    /\ LET c == Order[ride][turn] IN
       /\ c \in on
       /\ \E d \in on \ {c}, how \in {"relayed", "lost"} :
            /\ Fault(<<c, d>> \in Deaf[ride])
            /\ how = "relayed" => reach > 1 /\ Carried(c)[d] = "direct"
            /\ Carried(c)[d] # "lost"
            /\ BeaconFrom(c, [Carried(c) EXCEPT ![d] = how])
    /\ Next1
    /\ UNCHANGED <<ride, reach, met, on, boots, locked, fit, gone>>

Silence ==
    /\ turn <= Turns
    /\ Order[ride][turn] \notin on
    /\ Next1
    /\ UNCHANGED <<ride, reach, met, carVars, beliefVars, countVars>>

\* Older by a second; a rider nobody counts any more is as good as none.
Older(rider) ==
    IF rider.age + 1 >= Lease THEN NewRider
    ELSE [rider EXCEPT !.age = @ + 1, !.directAge = Lesser(@ + 1, Lease)]

EndOfSecond ==
    /\ turn > Turns
    /\ turn' = 1
    /\ roster' = [c \in Cars |-> [d \in Cars |-> Older(roster[c][d])]]
    /\ calm' = Lesser(calm + 1, Settle)
    /\ gone' = [c \in Cars |-> IF c \in on THEN 0 ELSE Lesser(gone[c] + 1, Fade + 1)]
    /\ UNCHANGED <<ride, reach, met, carVars, announced, ref, parent, hops, clock, faults>>

\* Between two seconds only, to bound the model.
Blank(c) ==
    /\ announced' = announced \ {c}
    /\ locked' = locked \ {c}
    /\ fit' = fit \ {c}
    /\ listen' = [listen EXCEPT ![c] = Listen]
    /\ roster' = [roster EXCEPT ![c] = [d \in Cars |-> NewRider]]
    /\ ref' = [ref EXCEPT ![c] = NewCar.ref]
    /\ parent' = [parent EXCEPT ![c] = Nobody]
    /\ hops' = [hops EXCEPT ![c] = Unreachable]
    /\ clock' = [clock EXCEPT ![c] = NoClock]

SwitchOff(c) ==
    /\ Fault(turn = 1 /\ c \in on \cap Leavers[ride])
    /\ on' = on \ {c}
    /\ Blank(c)
    /\ UNCHANGED <<airVars, boots, gone>>

SwitchOn(c) ==
    /\ Fault(turn = 1 /\ c \in Riders[ride] \ on)
    /\ on' = on \union {c}
    /\ boots' = [boots EXCEPT ![c] = @ + 1]
    /\ gone' = [gone EXCEPT ![c] = 0]
    /\ UNCHANGED <<airVars, locked, fit, listen, beliefVars>>

\* Off and on again before the others miss a beacon.
Restart(c) ==
    /\ Fault(turn = 1 /\ c \in on \cap Leavers[ride])
    /\ boots' = [boots EXCEPT ![c] = @ + 1]
    /\ Blank(c)
    /\ UNCHANGED <<airVars, on, gone>>

Toggle(set, c) == IF c \in set THEN set \ {c} ELSE set \union {c}

LockChanges(c) ==
    /\ Fault(turn = 1 /\ c \in on \cap Flighty[ride])
    /\ locked' = Toggle(locked, c)
    /\ UNCHANGED <<airVars, on, boots, fit, listen, beliefVars, gone>>

\* updateFitness: the links have been good, or not, for long enough.
FitChanges(c) ==
    /\ Fault(turn = 1 /\ c \in on \cap Flighty[ride])
    /\ fit' = Toggle(fit, c)
    /\ UNCHANGED <<airVars, on, boots, locked, listen, beliefVars, gone>>

LeaseLost(c) ==
    /\ Fault(turn = 1 /\ c \in on \cap Unseated[ride] /\ Leased(c))
    /\ listen' = [listen EXCEPT ![c] = Listen]
    /\ UNCHANGED <<airVars, on, boots, locked, fit, beliefVars, gone>>

Meet ==
    /\ Fault(turn = 1 /\ ~met /\ LateLinks[ride] # {})
    /\ met' = TRUE
    /\ UNCHANGED <<ride, reach, turn, carVars, beliefVars, gone>>

RefNext ==
    \/ Beacon
    \/ BeaconMissed
    \/ Silence
    \/ EndOfSecond
    \/ Meet
    \/ \E c \in Cars :
        \/ SwitchOff(c)
        \/ SwitchOn(c)
        \/ Restart(c)
        \/ LockChanges(c)
        \/ FitChanges(c)
        \/ LeaseLost(c)

RefSpec == RefInit /\ [][RefNext]_refVars

-----------------------------------------------------------------------------
(* Properties.                                                             *)

Candidates == [locked : BOOLEAN, fit : BOOLEAN, id : Cars \union {Nobody}]

\* Every variable stays in its type, and no route is longer than the cap: two
\* cars that each name the other as the way to a reference that has gone stop
\* counting (MAX_REF_HOPS).
RefTypeOK ==
    /\ ride \in Rides
    /\ on \subseteq Riders[ride]
    /\ \A c \in Cars :
        /\ listen[c] \in 0 .. Listen
        /\ ref[c] \in Candidates
        /\ parent[c] \in Cars \union {Nobody}
        /\ hops[c] \in 0 .. MaxRefHops \union {Unreachable}
        /\ (hops[c] = 0) = (ref[c].id = c)
        /\ clock[c] \in {NoClock, Pulse} \union (Cars \X (0 .. MaxFaults[ride]))
        /\ gone[c] \in 0 .. Fade + 1

Own(c) == [locked |-> c \in locked, fit |-> c \in fit, id |-> c]

\* The best of the cars that c has a chain of links to, and who is near
\* enough to it for the word to reach him.
Best(c) == CHOOSE b \in Within(c, Cardinality(Cars)) :
    \A d \in Within(c, Cardinality(Cars)) \ {b} : Better(Own(b), Own(d))
Near(c) == c \in Within(Best(c), MaxRefHops)
Settled == calm = Settle

\* Once nothing has gone wrong for Settle seconds, every car that the chain of
\* links brings within MAX_REF_HOPS of the best reference names it.
AgreeInTime == Settled => \A c \in on : Near(c) => ref[c].id = Best(c)

\* By then their seconds start together: each takes the second from a
\* neighbour that is one link nearer to the reference, so there is no loop of
\* cars that follow each other (the comment in electReference), and the clock
\* is the reference's at every link.
OneClock == Settled =>
    \A c \in on : Near(c) /\ c # Best(c) =>
        /\ parent[c] \in on
        /\ hops[parent[c]] + 1 = hops[c]
        /\ clock[c] = clock[Best(c)]
        /\ clock[c] # NoClock

\* A car that has been off for Fade seconds is named by nobody, whatever else
\* has gone wrong since: the neighbours' word for each other's word runs out.
GhostsFade == \A c \in on : ref[c].id # Nobody => gone[ref[c].id] <= Fade
=============================================================================

----------------------------- MODULE MCBeaconRide -----------------------------
(* Instances of Reference and FastRelay for TLC.  The two records that a car *)
(* makes of the beacons it hears share no state, so a behaviour follows one. *)
EXTENDS Reference, FastRelay, TLC

VARIABLE follows

Init ==
    /\ RefInit
    /\ RelayInit
    /\ \/ follows = "clock" /\ scene = "dies"
       \/ follows = "relay" /\ ride = "line" /\ reach = 1

OfClock(step) == follows = "clock" /\ step /\ UNCHANGED <<relayVars, follows>>
OfRelay(step) == follows = "relay" /\ step /\ UNCHANGED <<refVars, follows>>

Next ==
    \/ OfClock(Beacon)
    \/ OfClock(BeaconMissed)
    \/ OfClock(Silence)
    \/ OfClock(EndOfSecond)
    \/ OfClock(Meet)
    \/ \E c \in Cars : OfClock(SwitchOff(c))
    \/ \E c \in Cars : OfClock(SwitchOn(c))
    \/ \E c \in Cars : OfClock(Restart(c))
    \/ \E c \in Cars : OfClock(LockChanges(c))
    \/ \E c \in Cars : OfClock(FitChanges(c))
    \/ \E c \in Cars : OfClock(LeaseLost(c))
    \/ OfRelay(Tick)
    \/ OfRelay(LinkDies)
    \/ \E c \in Senders : OfRelay(SendBeacon(c))
    \/ \E c \in Senders : OfRelay(Wait(c))
    \/ \E c \in Senders : OfRelay(Move(c))

Spec == Init /\ [][Next]_<<refVars, relayVars, follows>>

-----------------------------------------------------------------------------
(* Rides for the clock: cars in a line, whose first leaves and comes back,   *)
(* with the slots in its order or against it; a fork; a line that is longer  *)
(* than the cap; locks and fitness that come and go; two pairs that meet.    *)
RideCars == 1 .. 5
AllRides == {"line", "back", "fork", "long", "locks", "meets"}
Alike(x) == [r \in AllRides |-> x]
BothWays(pairs) == pairs \union {<<p[2], p[1]>> : p \in pairs}
Line == BothWays({<<1, 2>>, <<2, 3>>, <<3, 4>>})
Fork == BothWays({<<1, 2>>, <<2, 3>>, <<2, 4>>, <<3, 4>>})

RideRiders == [Alike(1 .. 4) EXCEPT !.long = RideCars]
RideOrder == [line |-> <<1, 2, 3, 4>>, back |-> <<4, 3, 2, 1>>, fork |-> <<1, 4, 3, 2>>,
              long |-> <<5, 1, 2, 3, 4>>, locks |-> <<2, 4, 1, 3>>, meets |-> <<1, 3, 2, 4>>]
RideLinks == [Alike(Line) EXCEPT !.fork = Fork, !.long = Line \union BothWays({<<4, 5>>}),
                                 !.meets = BothWays({<<1, 2>>, <<3, 4>>})]
RideLateLinks == [Alike({}) EXCEPT !.meets = BothWays({<<2, 3>>})]
RideReaches == [Alike({1, 3}) EXCEPT !.long = {1, 2}]
RideLeavers == [Alike({1}) EXCEPT !.fork = {1, 2}, !.locks = {}, !.meets = {}]
RideFlighty == [Alike({}) EXCEPT !.long = {5}, !.locks = {3, 4}, !.meets = {4}]
RideUnseated == [Alike({}) EXCEPT !.locks = {2}]
RideDeaf == [Alike({}) EXCEPT !.line = {<<2, 3>>}, !.back = {<<2, 1>>}, !.fork = {<<2, 3>>}]
RideMaxFaults == [Alike(2) EXCEPT !.line = 3, !.meets = 3]

(* Rides for the relay: links that die, cars that move, and more cars than   *)
(* the record or the roster has seats for.                                   *)
ThreeSenders == 1 .. 3
AllScenes == {"dies", "moves", "crowd", "full"}
SceneSlots == [[s \in AllScenes |-> <<0, 1, 3>>] EXCEPT !.dies = <<0, 2, 3>>]
SceneMoves == [[s \in AllScenes |-> {}] EXCEPT !.moves = {<<1, 2>>, <<2, 2>>},
                                                        !.crowd = {<<3, 4>>}]
SceneLossy == [dies |-> {<<1, 3>>, <<3, 0>>}, moves |-> {<<1, 0>>, <<3, 0>>},
               crowd |-> {}, full |-> {<<3, 0>>}]
SceneMortal == [dies |-> {<<1, 3>>, <<3, 0>>}, moves |-> {<<1, 3>>},
                crowd |-> {<<3, 0>>}, full |-> {<<1, 3>>, <<1, 0>>}]
SceneLosses == [dies |-> 2, moves |-> 1, crowd |-> 0, full |-> 1]
SceneChanges == [s \in AllScenes |-> 2]
SceneRecordSeats == [[s \in AllScenes |-> 3] EXCEPT !.crowd = 2]
SceneRosterSeats == [[s \in AllScenes |-> 4] EXCEPT !.full = 2]
=============================================================================

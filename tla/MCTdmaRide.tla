---------------------------- MODULE MCTdmaRide ----------------------------
(* Instances of TdmaRide for TLC. *)
EXTENDS TdmaRide

\* The windows: the source's map window and listen, the longer ones scaled
\* down in the order the source asserts.
Sec1500ms == (3 * Second) \div 2
Sec2500ms == (5 * Second) \div 2
Sec3 == 3 * Second
Sec4 == 4 * Second
Sec5 == 5 * Second
Sec7 == 7 * Second
Sec10 == 10 * Second
Sec15 == 15 * Second

ThreeCars == 1 .. 3
ThreeTags == <<5, 3, 7>>
FourCars == 1 .. 4
FourTags == <<5, 3, 7, 2>>
NoCars == {}
MiddleCar == {2}

\* Who hears whom.
Everyone == {<<c, d>> \in Cars \X Cars : c # d}
BothWays(pairs) == pairs \union {<<p[2], p[1]>> : p \in pairs}
AllHear == {Everyone}
HiddenPair == {BothWays({<<1, 2>>, <<2, 3>>})}
Diamond == {Everyone \ BothWays({<<1, 2>>})}
\* Car 2 goes unheard, and out of range altogether.
OutOfRange == {Everyone, Everyone \ {<<2, 1>>, <<2, 3>>},
               Everyone \ BothWays({<<1, 2>>, <<2, 3>>})}

\* Whom each hears through a clash.
NobodyLouder == {[c \in Cars |-> 0]}
OneEndLouder == {[c \in Cars |-> d] : d \in {1, 3}}
EachEndHeard == {<<0, 0, 1, 2>>, <<3, 3, 1, 1>>}

OneDraw == {[block |-> 1, spare |-> 0]}

\* Who is on from the start, and when the rest comes and goes.
AnyFirst == SUBSET Cars \ {{}}
AllOn == {Cars}
PairOn == {{1, 2}}
Never == {}
FirstSeconds == 0 .. Second + Second \div 2
JoinSlots == {t \in 0 .. 42 : t % 6 = 0}
LateSlots == {64, 65}
FaultsAtJoin == 80 .. 88
FaultsWhenJoined == {40, 41}
DriveSlots == {48, 112}

\* The kinds of ride: cars powering on together; a newcomer hidden from one
\* end, joining while frames are lost; a ride of hidden ends that settles; a
\* car driving out of range, one way or both; two judges between two ends.
PassingRides == {"power_on", "newcomer", "settles", "out_of_range"}

RideTopologies == [power_on |-> AllHear, newcomer |-> HiddenPair, settles |-> HiddenPair,
                   out_of_range |-> OutOfRange, judged |-> Diamond]
RideStartOn == [power_on |-> AnyFirst, newcomer |-> PairOn, settles |-> AnyFirst,
                out_of_range |-> AllOn, judged |-> AllOn]
RidePowerSlots == [power_on |-> FirstSeconds, newcomer |-> LateSlots, settles |-> JoinSlots,
                   out_of_range |-> Never, judged |-> Never]
RideMovers == [power_on |-> Cars, newcomer |-> Cars, settles |-> Cars,
               out_of_range |-> NoCars, judged |-> Cars]
RideFast == [power_on |-> NoCars, newcomer |-> NoCars, settles |-> MiddleCar,
             out_of_range |-> NoCars, judged |-> NoCars]
RideRelays == [power_on |-> NoCars, newcomer |-> NoCars, settles |-> Cars,
               out_of_range |-> NoCars, judged |-> NoCars]
RideLouder == [power_on |-> NobodyLouder, newcomer |-> NobodyLouder, settles |-> OneEndLouder,
               out_of_range |-> NobodyLouder, judged |-> EachEndHeard]
RideSteady == [power_on |-> TRUE, newcomer |-> FALSE, settles |-> TRUE,
               out_of_range |-> TRUE, judged |-> TRUE]
RideMaxNow == [power_on |-> 56, newcomer |-> 130, settles |-> 165,
               out_of_range |-> 150, judged |-> 100]
RideMaxFaults == [power_on |-> 0, newcomer |-> 2, settles |-> 1,
                  out_of_range |-> 0, judged |-> 0]
RideFaultSlots == [power_on |-> Never, newcomer |-> FaultsAtJoin, settles |-> FaultsWhenJoined,
                   out_of_range |-> Never, judged |-> Never]
RideMaxEvents == [power_on |-> 0, newcomer |-> 0, settles |-> 0,
                  out_of_range |-> 3, judged |-> 0]
RideEventSlots == [power_on |-> Never, newcomer |-> Never, settles |-> Never,
                   out_of_range |-> DriveSlots, judged |-> Never]
=============================================================================

----------------------------- MODULE MCLoraLane -----------------------------
(* Instances of LoraLane for TLC. *)
EXTENDS LoraLane

CONSTANTS c1, c2
TwoCars == {c1, c2}

\* Two fixes of a car before its radio restarts, and one after, numbered anew.
FirstBoot == {[session |-> 2, seq |-> 1, at |-> 1], [session |-> 2, seq |-> 2, at |-> 2]}
SecondBoot == {[session |-> 3, seq |-> 1, at |-> 3]}

Heard(cars, fixes, hops) == [from : cars, fix : fixes, hops : hops]

\* Positions of two cars and a stock sender's on their way into the queue; our
\* own fix from phone and receiver, with a relay in its way; rows of cars
\* heard on both radios; the interval under changing traffic.
AllSettings == {"queue", "own", "rows", "load"}
RowsOnly == {"rows"}
LaneTraffic == [queue |-> Heard({c1}, FirstBoot, {1, 2}) \union Heard({c1}, SecondBoot, {1})
                          \union Heard({c2}, FirstBoot \union SecondBoot, {1})
                          \union Heard({c2}, {StockFix}, {1}),
                own |-> Heard({c1}, {StockFix}, {1}),
                rows |-> Heard(TwoCars, {StockFix}, {0}), load |-> {}]
LaneOnFast == [queue |-> {}, own |-> {}, rows |-> TwoCars, load |-> {}]
LaneReadings == [queue |-> {"here"}, own |-> {"here", "there"}, rows |-> {}, load |-> {"here"}]
\* From next to nothing to a channel in use without a pause at the longest interval.
LaneLoads == [queue |-> {0}, own |-> {0}, rows |-> {0},
              load |-> {0, 1000000, 1260000, 1900000, 2500000, 2900000, 3300000, 4100000,
                       4900000, 20000000}]
LaneRounds == [queue |-> 0, own |-> 0, rows |-> 0, load |-> 10]

ASSUME CarsTimed == \A s \in Settings : CarsKeepTime(Traffic[s])
=============================================================================

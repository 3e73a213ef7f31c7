------------------------------- MODULE LoraGrid -------------------------------
(***************************************************************************)
(* How often this car sends its LoRa position, and when (touge/loraload).  *)
(*                                                                         *)
(* The interval follows the measured load of the channel: `busy` is the    *)
(* share of the last minute, in parts of Whole, that it was in use.  The   *)
(* next position falls on a grid that every car shares, the multiples of   *)
(* the interval on a clock they all have, each car in the share of its     *)
(* rank.  Times are in milliseconds, or in any unit with Round of them to  *)
(* a second.                                                               *)
(***************************************************************************)
EXTENDS Naturals

CONSTANTS
    Shortest,       \* LORA_TARGET_MS
    Longest,        \* LORA_MAX_MS
    Round,          \* the interval is in whole seconds
    BusyTarget,     \* LORA_BUSY_TARGET_PERMILLE
    Whole           \* the share of a channel always in use: 1000

ASSUME GridAssumption ==
    /\ {Shortest, Longest, Round, BusyTarget, Whole} \subseteq Nat \ {0}
    /\ Shortest % Round = 0 /\ Longest % Round = 0
    /\ Shortest < Longest /\ 4 * Round < Shortest
    /\ BusyTarget < Whole /\ BusyTarget <= Shortest

Intervals == {i \in Shortest .. Longest : i % Round = 0}

Lower(a, b) == IF a < b THEN a ELSE b
Higher(a, b) == IF a > b THEN a ELSE b

\* The interval at which the same traffic would sit at the target.
Wanted(interval, busy) == (interval * busy) \div BusyTarget

\* Fault: over the target the interval doubles, however little it is over.
AlwaysDoubled(interval, busy) ==
    IF busy > BusyTarget THEN 2 * interval
    ELSE IF busy * 4 < BusyTarget * 3 THEN Higher(Wanted(interval, busy), (interval * 3) \div 4)
    ELSE interval

\* LoraLoad::judge, the rule: at most double, come down by at most a quarter
\* once the air is under three quarters of the target, whole seconds.
Stepped(interval, busy) ==
    IF busy > BusyTarget THEN Lower(Wanted(interval, busy), 2 * interval)
    ELSE IF busy * 4 < BusyTarget * 3 THEN Higher(Wanted(interval, busy), (interval * 3) \div 4)
    ELSE interval

Clamped(interval) == Lower(Higher(interval, Shortest), Longest)

Judge(interval, busy) ==
    ((Clamped(Stepped(interval, busy)) + (Round - 1)) \div Round) * Round

\* nextLoraSendAt, in its parts: a car's share of the interval, where its
\* share and the jitter put it, and the first such point after `after`.
Share(interval, cars) == interval \div cars

Jittered(share, jitter) == IF share \div 2 > 0 THEN jitter % (share \div 2) ELSE 0

Offset(interval, rank, cars, jitter) ==
    (rank % cars) * Share(interval, cars) + Jittered(Share(interval, cars), jitter)

NextLoraSendAt(after, interval, rank, cars, jitter) ==
    LET at == (after \div interval) * interval + Offset(interval, rank, cars, jitter) IN
    IF at <= after THEN at + interval ELSE at
=============================================================================

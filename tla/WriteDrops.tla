------------------------------ MODULE WriteDrops ------------------------------
(***************************************************************************)
(* What the phone is owed about the writes that the radio dropped: a queue *)
(* of their packet ids, in the order they were dropped, to the report that *)
(* names them.  The writes are numbered as they are dropped.               *)
(***************************************************************************)
EXTENDS Naturals, Sequences

CONSTANT Slots      \* DroppedWriteIds::SLOTS

VARIABLES
    last,           \* how many writes have been dropped
    waiting,        \* the writes not named yet
    uncounted,      \* writes that will never be named: only their number is known
    report,         \* the writes that the next report names
    told            \* the writes that the phone has been told of

dropVars == <<last, waiting, uncounted, report, told>>

Init == last = 0 /\ waiting = << >> /\ uncounted = 0 /\ report = << >> /\ told = << >>

Drop ==
    /\ last' = last + 1
    /\ IF Len(waiting) < Slots
       THEN waiting' = Append(waiting, last') /\ UNCHANGED uncounted
       ELSE uncounted' = uncounted + 1 /\ UNCHANGED waiting
    /\ UNCHANGED <<report, told>>

Take ==
    /\ waiting # << >> /\ Len(report) < Slots
    /\ report' = Append(report, Head(waiting))
    /\ waiting' = Tail(waiting)
    /\ UNCHANGED <<last, uncounted, told>>

\* All of a report reaches the phone's queue, or, with no phone or no packet
\* to put it in, nothing of it does.
Tell ==
    /\ report # << >>
    /\ report' = << >>
    /\ told' \in {told, told \o report}
    /\ UNCHANGED <<last, waiting, uncounted>>

Next == Drop \/ Take \/ Tell

Spec == Init /\ [][Next]_dropVars
=============================================================================

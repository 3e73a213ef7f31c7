----------------------------- MODULE DroppedWrites -----------------------------
(***************************************************************************)
(* The packet ids of phone writes that the radio dropped, on their way     *)
(* from NimBLE's task to the main one (DroppedWriteIds, core-patches 0007, *)
(* reportDroppedWrites), access by access.  The two tasks run on different *)
(* cores and share a ring without a lock: push advances tail, pop advances *)
(* head, and each reads the other's.                                       *)
(*                                                                         *)
(* Each task's accesses are seen in program order, which is what the       *)
(* release stores and acquire loads of the two counters are for.  A task's *)
(* load of the counter that only it writes is part of its next step.  The  *)
(* counters wrap at Rounds * Slots, in the code at 2^32.                   *)
(***************************************************************************)
EXTENDS Naturals, Sequences

CONSTANTS
    Slots,      \* DroppedWriteIds::SLOTS
    Rounds,     \* how often a counter goes round the ring before it wraps
    MaxDrops    \* bound: writes dropped in the run

ASSUME DropAssumption ==
    /\ Slots \in Nat \ {0}
    /\ Rounds \in Nat /\ Rounds > 1
    /\ MaxDrops \in Nat

VARIABLES
    ids,        \* ids_
    head, tail, \* head_, tail_
    overflowed, \* overflowed_
    pusher,     \* push: its step, and its id
    popper,     \* reportDroppedWrites: the step of its pop, and the id it read
    report,     \* the ids of reportDroppedWrites
    dropped,    \* history: how many writes have been dropped
    told        \* history: the ids in the reports queued to the phone

ring == <<ids, head, tail, overflowed>>
dropVars == <<ring, pusher, popper, report, dropped, told>>

Wrap == Rounds * Slots
NoId == 0
Idle == [step |-> "idle", id |-> NoId]

\* tail - head, as the unsigned difference of two counters that wrap.
Used == (tail + Wrap - head) % Wrap

DropInit ==
    /\ ids = [i \in 0 .. Slots - 1 |-> NoId]
    /\ head = 0 /\ tail = 0 /\ overflowed = 0
    /\ pusher = Idle /\ popper = Idle
    /\ report = << >>
    /\ dropped = 0 /\ told = << >>

-----------------------------------------------------------------------------
(* NimBLE's task: onWriteDropped, push.                                    *)

OnWriteDropped ==
    /\ pusher.step = "idle"
    /\ dropped < MaxDrops
    /\ dropped' = dropped + 1
    /\ pusher' = [step |-> "check", id |-> dropped']
    /\ UNCHANGED <<ring, popper, report, told>>

\* Fault: one more id than the ring has room for.
FullOneLate == Used > Slots

Full == Used >= Slots

LoadHead ==
    /\ pusher.step = "check"
    /\ pusher' = [pusher EXCEPT !.step = IF Full THEN "count" ELSE "store"]
    /\ UNCHANGED <<ring, popper, report, dropped, told>>

CountOverflow ==
    /\ pusher.step = "count"
    /\ overflowed' = overflowed + 1
    /\ pusher' = Idle
    /\ UNCHANGED <<ids, head, tail, popper, report, dropped, told>>

StoreId ==
    /\ pusher.step = "store"
    /\ ids' = [ids EXCEPT ![tail % Slots] = pusher.id]
    /\ pusher' = [pusher EXCEPT !.step = "publish"]
    /\ UNCHANGED <<head, tail, overflowed, popper, report, dropped, told>>

StoreTail ==
    /\ pusher.step = "publish"
    /\ tail' = (tail + 1) % Wrap
    /\ pusher' = Idle
    /\ UNCHANGED <<ids, head, overflowed, popper, report, dropped, told>>

-----------------------------------------------------------------------------
(* The main task: reportDroppedWrites, pop.                                *)

ReportHasRoom == Len(report) < Slots

LoadTail ==
    /\ popper.step = "idle"
    /\ ReportHasRoom /\ head # tail
    /\ popper' = [popper EXCEPT !.step = "load"]
    /\ UNCHANGED <<ring, pusher, report, dropped, told>>

LoadId ==
    /\ popper.step = "load"
    /\ popper' = [step |-> "free", id |-> ids[head % Slots]]
    /\ UNCHANGED <<ring, pusher, report, dropped, told>>

StoreHead ==
    /\ popper.step = "free"
    /\ head' = (head + 1) % Wrap
    /\ report' = Append(report, popper.id)
    /\ popper' = Idle
    /\ UNCHANGED <<ids, tail, overflowed, pusher, dropped, told>>

\* With the ring empty or the report full.  With no phone, or no packet to put
\* it in, the report is lost.
ReportDroppedWrites ==
    /\ popper.step = "idle"
    /\ ~ReportHasRoom \/ head = tail
    /\ report # << >>
    /\ report' = << >>
    /\ told' \in {told, told \o report}
    /\ UNCHANGED <<ring, pusher, popper, dropped>>

DropNext ==
    \/ OnWriteDropped
    \/ LoadHead \/ CountOverflow \/ StoreId \/ StoreTail
    \/ LoadTail \/ LoadId \/ StoreHead
    \/ ReportDroppedWrites

DropSpec == DropInit /\ [][DropNext]_dropVars

-----------------------------------------------------------------------------
(* Properties.                                                             *)

\* The shape of the state; above all, no more ids than the ring has slots lie
\* between the counters, and no more than the report has room for are in it.
DropTypeOK ==
    /\ ids \in [0 .. Slots - 1 -> Nat]
    /\ head \in 0 .. Wrap - 1 /\ tail \in 0 .. Wrap - 1
    /\ Used <= Slots
    /\ overflowed \in Nat /\ dropped \in Nat
    /\ pusher \in [step : {"idle", "check", "count", "store", "publish"}, id : Nat]
    /\ popper \in [step : {"idle", "load", "free"}, id : Nat]
    /\ report \in Seq(Nat) /\ Len(report) <= Slots
    /\ told \in Seq(Nat)

Waiting == [i \in 1 .. Used |-> ids[(head + (i - 1)) % Slots]]
InHand == pusher.step \in {"check", "store", "publish"}

Queue == INSTANCE WriteDrops WITH
    last <- IF InHand THEN dropped - 1 ELSE dropped,
    waiting <- Waiting,
    uncounted <- IF pusher.step = "count" THEN overflowed + 1 ELSE overflowed

\* However the two tasks' accesses interleave, the ring is a queue: an id is
\* never read before it is stored, written over before it is read, read twice
\* or out of order, and one that found no room is counted (the comment on
\* DroppedWriteIds).
ImplementsWriteDrops == Queue!Spec
=============================================================================

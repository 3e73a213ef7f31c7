----------------------------- MODULE FrameFlood -----------------------------
(***************************************************************************)
(* How a frame floods the ride: Mesh's dedupe table and held forwards      *)
(* (touge/mesh.cpp), the receive queue (espnow.cpp), and the parts of      *)
(* drainRadio, planForward and sendDeferred that use them, in every car.   *)
(*                                                                         *)
(* A car takes a frame the first time it sees it, and with hops left holds *)
(* a copy for a wait that depends on its signal.  Copies heard meanwhile   *)
(* are counted; at SuppressAfter of them the copy held is given up.        *)
(*                                                                         *)
(* The ride is one of fewer than FAST_RELAY_MIN_CARS, and of more than     *)
(* two, so that FastRelay's verdict drops no forward.  Time is in passes   *)
(* of the main loop; air time and the driver's queue are in Stall.         *)
(***************************************************************************)
EXTENDS Naturals, Sequences, FiniteSets

CONSTANTS
    Cars, Frames,
    Source,        \* the car each frame is from
    Links,         \* <<from, to>>: `to` is in earshot of `from`
    Hops,          \* FAST_HOPS, VOICE_HOPS
    SuppressAfter, \* SUPPRESS_AFTER, VOICE_SUPPRESS_AFTER
    Ttl,           \* SEEN_TTL_MS
    SeenSlots,     \* SEEN_SLOTS
    HeldSlots,     \* FORWARD_SLOTS
    RxDepth,       \* RX_DEPTH
    Budget,        \* frames drainRadio takes in a pass
    Delays,        \* the waits forwardDelayMs may give each car, from its signal
    MaxWait,       \* FORWARD_DELAY_MAX_MS: at most this
    StallFrom,     \* FORWARD_STALL_MS
    Stall,         \* bound: passes that what is due may have to wait
    Slow,          \* the cars whose main loops stall; the others' run every pass
    MaxNow,        \* bound: passes of the run
    SendBy,        \* bound: when the last frame of a car's own is sent
    MaxLost        \* bound: copies lost on the air or refused by the radio

\* How much later than a copy is its forward heard; how long copies are about.
Hop == 2 * Stall + MaxWait
Life == Hops * Hop + Stall

ASSUME FloodAssumption ==
    /\ IsFiniteSet(Cars) /\ IsFiniteSet(Frames)
    /\ Source \in [Frames -> Cars] /\ Links \subseteq Cars \X Cars
    /\ {Hops, SuppressAfter, Ttl, SeenSlots, HeldSlots, RxDepth, Budget, MaxWait,
        StallFrom, Stall, MaxNow, SendBy, MaxLost} \subseteq Nat
    /\ Delays \in [Cars -> SUBSET (0 .. MaxWait)] /\ Slow \subseteq Cars /\ Stall > 0

\* "A packet must be remembered until well after its last forward could
\* arrive" (the assertions of mesh.h, with the loop's stalls counted in).
ASSUME WindowAssumption == Life <= Ttl

VARIABLES
    now,
    rx,      \* rxQueue of each car
    pass,    \* frames each car's drainRadio has taken in this pass
    seen,    \* seen_: an entry for a frame, or Unused
    held,    \* held_: forwards waiting
    born,    \* when each frame was sent, of those in `sent`
    sent,
    lost,    \* how many copies so far
    taken,   \* history: how often each car took each frame
    heard,   \* history: whose copies of it the car has counted
    owes,    \* history: <<car, frame>> taken with hops left
    spoke,   \* history: forwarded
    quit,    \* history: given up, enough copies heard
    refused, \* history: no room to hold it, or refused by the radio
    missed   \* history: a copy of it did not get into the car's queue

boards == <<rx, pass, seen, held>>
story == <<taken, heard, owes, spoke, quit, refused, missed>>
vars == <<now, boards, born, sent, lost, story>>

Unused == [at |-> 0, count |-> 0]

Init ==
    /\ now = 0
    /\ rx = [c \in Cars |-> << >>] /\ pass = [c \in Cars |-> 0]
    /\ seen = [c \in Cars |-> [f \in Frames |-> Unused]]
    /\ held = [c \in Cars |-> {}]
    /\ born = [f \in Frames |-> 0] /\ sent = {} /\ lost = 0
    /\ taken = [c \in Cars |-> [f \in Frames |-> 0]]
    /\ heard = [c \in Cars |-> [f \in Frames |-> {}]]
    /\ owes = {} /\ spoke = {} /\ quit = {} /\ refused = {} /\ missed = {}

-----------------------------------------------------------------------------
(* The dedupe table. *)

\* lookup: an expired entry is none.
Live(entry) == entry.count > 0 /\ now - entry.at <= Ttl

Known(c, f) == Live(seen[c][f])

Copies(c, f) == IF Known(c, f) THEN seen[c][f].count ELSE 0

\* Fault: the last free slot is never used.
FullOneEarly(c, f) ==
    LET live == {g \in Frames : Known(c, g)}
        with == [seen EXCEPT ![c][f] = [at |-> now, count |-> 1]]
    IN  IF Cardinality(live) + 1 < SeenSlots THEN seen' = with
        ELSE \E g \in live :
                /\ \A h \in live : seen[c][g].at <= seen[c][h].at
                /\ seen' = [with EXCEPT ![c][g] = Unused]

\* firstSight of a frame not in the table; a full table evicts the oldest.
Record(c, f) ==
    LET live == {g \in Frames : Known(c, g)}
        with == [seen EXCEPT ![c][f] = [at |-> now, count |-> 1]]
    IN  IF Cardinality(live) < SeenSlots THEN seen' = with
        ELSE \E g \in live :
                /\ \A h \in live : seen[c][g].at <= seen[c][h].at
                /\ seen' = [with EXCEPT ![c][g] = Unused]

-----------------------------------------------------------------------------
(* The air and the receive queue. *)

\* Everyone in earshot hears it at once, except where it is lost or the queue
\* is full (onRecv).
Broadcast(from, f, hops) ==
    LET copy == [frame |-> f, hops |-> hops, from |-> from, at |-> now]
        reach == {d \in Cars : <<from, d>> \in Links}
    IN  \E deaf \in SUBSET reach :
          LET in == {d \in reach \ deaf : Len(rx[d]) < RxDepth}
          IN  /\ lost' = lost + Cardinality(deaf) /\ lost' <= MaxLost
              /\ rx' = [d \in Cars |-> IF d \in in THEN Append(rx[d], copy) ELSE rx[d]]
              /\ missed' = missed \union {<<d, f>> : d \in reach \ in}

\* A car sends a frame of its own (transmit).  Within Ttl and Life the ride
\* sends no more of them than a table holds (SEEN_SLOTS is asserted against
\* PEAK_FRAMES_PER_SEC for Ttl alone, as if every car heard a frame at once).
Recent == {f \in sent : now <= born[f] + Ttl + Life}

Transmit(f) ==
    /\ f \notin sent /\ now <= SendBy
    /\ Cardinality(Recent) < SeenSlots
    /\ sent' = sent \union {f} /\ born' = [born EXCEPT ![f] = now]
    /\ Record(Source[f], f)
    /\ Broadcast(Source[f], f, Hops)
    /\ UNCHANGED <<now, pass, held, taken, heard, owes, spoke, quit, refused>>

-----------------------------------------------------------------------------
(* drainRadio. *)

\* Fault: a pass takes one frame more than its budget.
OneOverBudget(c) ==
    /\ rx[c] # << >> /\ pass[c] <= Budget
    /\ rx' = [rx EXCEPT ![c] = Tail(@)]
    /\ pass' = [pass EXCEPT ![c] = @ + 1]

Poll(c) ==
    /\ rx[c] # << >> /\ pass[c] < Budget
    /\ rx' = [rx EXCEPT ![c] = Tail(@)]
    /\ pass' = [pass EXCEPT ![c] = @ + 1]

\* Our own frame, echoed back.
DrainOwn(c) ==
    /\ Poll(c)
    /\ Source[Head(rx[c]).frame] = c
    /\ UNCHANGED <<now, seen, held, born, sent, lost, story>>

Counted(c, copy) == heard' = [heard EXCEPT ![c][copy.frame] = @ \union {copy.from}]

\* firstSight says no, and counts it.
DrainCopy(c) ==
    /\ Poll(c)
    /\ LET copy == Head(rx[c])
       IN  /\ Source[copy.frame] # c /\ Known(c, copy.frame)
           /\ seen' = [seen EXCEPT ![c][copy.frame].count = @ + 1]
           /\ Counted(c, copy)
    /\ UNCHANGED <<now, held, born, sent, lost, taken, owes, spoke, quit, refused, missed>>

\* firstSight says yes: to the phone and the roster.
Take(c) ==
    /\ Poll(c)
    /\ LET copy == Head(rx[c])
       IN  /\ Source[copy.frame] # c /\ ~Known(c, copy.frame)
           /\ Record(c, copy.frame)
           /\ Counted(c, copy)
           /\ taken' = [taken EXCEPT ![c][copy.frame] = @ + 1]
           /\ owes' = IF copy.hops > 0 THEN owes \union {<<c, copy.frame>>} ELSE owes
    /\ UNCHANGED <<now, born, sent, lost, spoke, quit, missed>>

\* Fault: a frame on its last hop counts as out of hops.
OneHopShort(copy) == copy.hops > 1

MayForward(copy) == copy.hops > 0

TakeOnly(c) ==
    /\ Take(c)
    /\ ~MayForward(Head(rx[c]))
    /\ UNCHANGED <<held, refused>>

\* The same frame a hop down.
Onward(copy, due) == [frame |-> copy.frame, hops |-> copy.hops - 1, due |-> due]

\* forwardDueMs: from the receive time, after a stall from the pass.
Due(copy, delay) == (IF now - copy.at > StallFrom THEN now ELSE copy.at) + delay

TakeAndHold(c) ==
    /\ Take(c)
    /\ MayForward(Head(rx[c]))
    /\ Cardinality(held[c]) < HeldSlots
    /\ \E delay \in Delays[c] :
          held' = [held EXCEPT ![c] = @ \union {Onward(Head(rx[c]), Due(Head(rx[c]), delay))}]
    /\ UNCHANGED refused

\* defer finds every slot taken.
TakeNoRoom(c) ==
    /\ Take(c)
    /\ MayForward(Head(rx[c]))
    /\ Cardinality(held[c]) >= HeldSlots
    /\ refused' = refused \union {<<c, Head(rx[c]).frame>>}
    /\ UNCHANGED held

-----------------------------------------------------------------------------
(* sendDeferred, once drainRadio is done. *)

Drained(c) == rx[c] = << >> \/ pass[c] = Budget

\* nextDue takes the one due longest out of its slot (of two due together,
\* the one in the lower slot: either, here).
NextDue(c, h) ==
    /\ Drained(c)
    /\ h \in held[c] /\ h.due <= now
    /\ \A g \in held[c] : h.due <= g.due
    /\ held' = [held EXCEPT ![c] = @ \ {h}]

\* Fault: the copy heard first is counted twice.
FirstCountedTwice(c, f) == Copies(c, f) + 1 >= SuppressAfter

Covered(c, f) == Copies(c, f) >= SuppressAfter

GiveUp(c) ==
    /\ \E h \in held[c] :
          /\ NextDue(c, h)
          /\ Covered(c, h.frame)
          /\ quit' = quit \union {<<c, h.frame>>}
    /\ UNCHANGED <<now, rx, pass, seen, born, sent, lost, taken, heard, owes, spoke,
                   refused, missed>>

Forward(c) ==
    /\ \E h \in held[c] :
          /\ NextDue(c, h)
          /\ ~Covered(c, h.frame)
          /\ Broadcast(c, h.frame, h.hops)
          /\ spoke' = spoke \union {<<c, h.frame>>}
    /\ UNCHANGED <<now, pass, seen, born, sent, taken, heard, owes, quit, refused>>

\* The radio takes no more; the slot is free all the same.
ForwardRefused(c) ==
    /\ lost < MaxLost
    /\ \E h \in held[c] :
          /\ NextDue(c, h)
          /\ ~Covered(c, h.frame)
          /\ refused' = refused \union {<<c, h.frame>>}
    /\ lost' = lost + 1
    /\ UNCHANGED <<now, rx, pass, seen, born, sent, taken, heard, owes, spoke, quit, missed>>

\* The next pass comes before all was drained; until then forwards due may go
\* out, or wait: four go in a pass, none while a beacon is retried.
NextPass(c) ==
    /\ pass[c] = Budget /\ rx[c] # << >>
    /\ pass' = [pass EXCEPT ![c] = 0]
    /\ UNCHANGED <<now, rx, seen, held, born, sent, lost, story>>

\* Nothing due waits longer than this.
Patience(c) == IF c \in Slow THEN Stall ELSE 1

Tick ==
    /\ now < MaxNow
    /\ \A c \in Cars :
          /\ \A i \in 1 .. Len(rx[c]) : now < rx[c][i].at + Patience(c)
          /\ \A h \in held[c] : now < h.due + Patience(c)
    /\ now' = now + 1
    /\ pass' = [c \in Cars |-> 0]
    /\ UNCHANGED <<rx, seen, held, born, sent, lost, story>>

Pass(c) ==
    \/ DrainOwn(c) \/ DrainCopy(c) \/ TakeOnly(c) \/ TakeAndHold(c) \/ TakeNoRoom(c)
    \/ GiveUp(c) \/ Forward(c) \/ ForwardRefused(c)
    \/ NextPass(c)

Next ==
    \/ Tick
    \/ \E f \in Frames : Transmit(f)
    \/ \E c \in Cars : Pass(c)

Spec == Init /\ [][Next]_vars

-----------------------------------------------------------------------------
(* Properties. *)

Copy == [frame : Frames, hops : 0 .. Hops, from : Cars, at : Nat]

TypeOK ==
    /\ now \in Nat
    /\ rx \in [Cars -> Seq(Copy)] /\ \A c \in Cars : Len(rx[c]) <= RxDepth
    /\ pass \in [Cars -> 0 .. Budget]
    /\ seen \in [Cars -> [Frames -> [at : Nat, count : Nat]]]
    /\ held \in [Cars -> SUBSET [frame : Frames, hops : 0 .. Hops, due : Nat]]
    /\ born \in [Frames -> Nat] /\ sent \subseteq Frames /\ lost \in Nat
    /\ taken \in [Cars -> [Frames -> Nat]]
    /\ heard \in [Cars -> [Frames -> SUBSET Cars]]
    /\ {owes, spoke, quit, refused, missed} \subseteq SUBSET (Cars \X Frames)

\* However the loops stall and the copies are lost, no car takes a frame twice
\* (a frame is remembered until after its last forward could arrive; else it
\* is new, goes to the phone behind newer ones, and goes round again).
TakenOnce == \A c \in Cars, f \in Frames : taken[c][f] <= 1

\* A car gives a forward up only for copies of as many different cars, and
\* sends it only when it has heard fewer (SUPPRESS_AFTER; nextDue).
QuitsWhenCovered ==
    [][\A c \in Cars, f \in Frames :
          /\ <<c, f>> \in quit' \ quit => Cardinality(heard[c][f]) >= SuppressAfter
          /\ <<c, f>> \in spoke' \ spoke => Cardinality(heard[c][f]) < SuppressAfter]_vars

\* Within Life of its sending a frame is with every car in earshot of its
\* source or of one that took it with hops left, or there was a reason: that
\* one gave it up or was refused, or a copy was lost on the way.
CarriedOn ==
    \A link \in Links, f \in sent :
        (now > born[f] + Life /\ (link[1] = Source[f] \/ <<link[1], f>> \in owes)) =>
            \/ link[2] = Source[f] \/ taken[link[2]][f] > 0
            \/ <<link[1], f>> \in quit \union refused \/ <<link[2], f>> \in missed
=============================================================================

------------------------------ MODULE PhoneLane ------------------------------
(***************************************************************************)
(* Positions on their way to the phone (touge/phonebatch.cpp, the batch    *)
(* half of TougeFastModule, core-patches 0005 to 0007).                    *)
(*                                                                         *)
(* The main task keeps the newest unsent position of each car, packs those *)
(* waiting longest into a batch, and hands it over in one of two ways: in  *)
(* Meshtastic's queue to the phone, or encoded ahead of time straight into *)
(* NimBLE's read queue.  NimBLE's task pops that queue when the phone      *)
(* reads, on the other core and under a mutex, and brings the ages in the  *)
(* pre-encoded bytes up to date.  At most MaxInFlight batches are out.     *)
(*                                                                         *)
(* Steps of the main task are as fine as what NimBLE's task can see.       *)
(* Batches are numbered from 1 (batchSeq_ is 16 bits, of which two are in  *)
(* flight); what a record says is left out, and its age is a choice: any   *)
(* record may have grown too old when it is packed.                        *)
(***************************************************************************)
EXTENDS Naturals, FiniteSets, SequencesExt

CONSTANTS
    Cars,
    Slots,          \* PHONE_STORE_SLOTS
    Fit,            \* recordsThatFit in the phone's MTU, or BATCH_MAX_RECORDS
    MaxInFlight,    \* MAX_BATCHES_IN_FLIGHT
    QueueSize,      \* MAX_RX_TOPHONE
    ReadQueueSize,  \* NIMBLE_BLUETOOTH_TO_PHONE_QUEUE_SIZE
    Text, Pos,      \* other packets for the phone: a text, a LoRa position
    Answer,         \* what getFromRadio put in the read queue
    MaxBatch        \* bound: batches packed in the run

Batches == 1 .. MaxBatch
NoBatch == 0

ASSUME LaneAssumption ==
    /\ {Slots, Fit, MaxInFlight, QueueSize, ReadQueueSize, MaxBatch} \subseteq Nat \ {0}
    /\ ReadQueueSize > 2
    /\ {Text, Pos, Answer} \intersect Nat = {} /\ Text # Pos

VARIABLES
    store,      \* phoneStore_: the cars with a position pending, longest first
    hello,      \* helloSeen_ and HELLO_PRELOAD: "none", "plain" or "preload"
    inFlight,   \* batchesInFlight_, whose order nothing depends on
    last,       \* the number of the last batch packed (batchSeq_)
    size,       \* how many records each batch packed has
    layout,     \* preloadPayloadAt, preloadPayloadLen: those of so many records
    seen,       \* preloadReadSeen_, preloadLostSeen_
    main,       \* where runOnce is, and the batch it is handing over
    queue,      \* MeshService::toPhoneQueue
    readQueue,  \* BluetoothPhoneAPI::toPhoneQueue, shared under a mutex
    offered,    \* tougeOfferedIndex, counted from 1; 0 is none
    counts,     \* tougeOfferedRead, tougeOfferedLost
    reading,    \* NimBLE's task: the batch it has popped and not readied
    waiting,    \* onReadCallbackIsWaitingForData
    link,       \* "up", "closing" (state closed, queue not yet cleared), "down"
    fate,       \* history: what became of each batch
    booked,     \* history: what the module counted it as
    missed      \* history: batches that went by a car while it was pending

module == <<store, hello, inFlight, last, size, layout, seen, main>>
nimble == <<readQueue, offered, counts, reading, waiting, link>>
vars == <<module, queue, nimble, fate, booked, missed>>

Idle == [step |-> "idle", batch |-> NoBatch]

Init ==
    /\ store = << >> /\ hello = "none" /\ inFlight = {}
    /\ last = 0 /\ size = [b \in Batches |-> 0] /\ layout = 0
    /\ seen = [read |-> 0, lost |-> 0]
    /\ main = Idle
    /\ queue = << >> /\ readQueue = << >> /\ offered = 0
    /\ counts = [read |-> 0, lost |-> 0]
    /\ reading = NoBatch /\ waiting = FALSE /\ link = "down"
    /\ fate = [b \in Batches |-> "none"] /\ booked = fate
    /\ missed = [c \in Cars |-> 0]

EndAs(f, batches, how) == [b \in Batches |-> IF b \in batches THEN how ELSE f[b]]

-----------------------------------------------------------------------------
(* Meshtastic's queue to the phone (core-patches/0005).                    *)

\* sendToPhone: a newer position replaces its car's older one.  When full, a
\* text displaces the oldest packet, anything else the oldest position; with
\* no position in it the new packet is dropped.
Queued(packet) ==
    IF packet = Pos /\ Contains(queue, Pos) THEN queue
    ELSE IF Len(queue) < QueueSize THEN Append(queue, packet)
    ELSE IF packet = Text THEN Append(Tail(queue), packet)
    ELSE IF Contains(queue, Pos) THEN Append(RemoveFirst(queue, Pos), packet)
    ELSE queue

\* Batches that are not in the queue once `packet` has been sent.
PushedOut(packet) == ((ToSet(queue) \union {packet}) \intersect Batches) \ ToSet(Queued(packet))

SendToPhone(packet) ==
    /\ queue' = Queued(packet)
    /\ fate' = EndAs(fate, PushedOut(packet), "lost")

\* The router, or a status line, between two passes.
OtherPacket ==
    /\ main = Idle
    /\ \E packet \in {Text, Pos} : SendToPhone(packet)
    /\ UNCHANGED <<module, nimble, booked, missed>>

-----------------------------------------------------------------------------
(* runOnce: drainRadio offers, then trackPhoneLink, then flushPhoneBatch.  *)

\* The phone says it reads batches, and whether pre-encoded ones too.
Hello ==
    /\ main = Idle /\ link = "up"
    /\ hello' \in {"plain", "preload"}
    /\ UNCHANGED <<store, inFlight, last, size, layout, seen, main, queue, nimble,
                   fate, booked, missed>>

\* Fault: a newer position waits from when it came.
RequeuedAtBack(c) ==
    IF Contains(store, c) THEN Append(RemoveFirst(store, c), c)
    ELSE IF Len(store) < Slots THEN Append(store, c) ELSE Append(Tail(store), c)

\* PhoneStore::offer: a car keeps its turn when a newer position replaces the
\* pending one; a full store drops the record that has waited longest.
Offered(c) ==
    IF Contains(store, c) THEN store
    ELSE IF Len(store) < Slots THEN Append(store, c) ELSE Append(Tail(store), c)

OfferToPhone(c) ==
    /\ main = Idle /\ hello # "none"
    /\ store' = Offered(c)
    /\ missed' = [d \in Cars |-> IF Contains(store', d) THEN missed[d] ELSE 0]
    /\ UNCHANGED <<hello, inFlight, last, size, layout, seen, main, queue, nimble,
                   fate, booked>>

Preloaded(flight) == {e.batch : e \in {f \in flight : f.preloaded}}

\* The batch the counters speak of: only one is ever pre-encoded at a time.
EndedBy(count) == IF counts[count] # seen[count] THEN Preloaded(inFlight) ELSE {}

\* Fault: a pre-encoded batch is looked for in the phone queue as well.
ReconciledAsQueued ==
    {e.batch : e \in {f \in inFlight : ~Contains(queue, f.batch)}}

\* Queued batches that have left the phone queue without being delivered.
Reconciled ==
    {e.batch : e \in {f \in inFlight : ~f.preloaded /\ ~Contains(queue, f.batch)}}

\* Fault: only reads are looked at.
LinkLossIgnored == {}

LostWithLink == EndedBy("lost")

TrackPhoneLink ==
    /\ main = Idle
    /\ main' = [Idle EXCEPT !.step = "flush"]
    /\ seen' = counts
    /\ LET lost == LostWithLink \union Reconciled
       IN  /\ inFlight' = {e \in inFlight : e.batch \notin EndedBy("read") \union lost}
           /\ booked' = EndAs(EndAs(booked, lost, "lost"), EndedBy("read"), "read")
    /\ IF link = "up" THEN UNCHANGED <<hello, store, missed>>
       ELSE hello' = "none" /\ store' = << >> /\ missed' = [c \in Cars |-> 0]
    /\ UNCHANGED <<last, size, layout, queue, nimble, fate>>

\* How many of the first n records waiting are not too old.
FreshOf(old, n) == Cardinality({i \in 1 .. n : store[i] \notin old})

\* The longest-waiting records that fit and are not too old; how many of the
\* store's records go with them.
Reach(old) ==
    CHOOSE n \in 0 .. Len(store) :
        /\ FreshOf(old, n) <= Fit /\ (n = Len(store) \/ FreshOf(old, n) = Fit)
        /\ \A m \in 0 .. n - 1 : FreshOf(old, m) < Fit

\* takeBatch.
Pack(old, taken) ==
    LET gone == Reach(old)
    IN  /\ taken = FreshOf(old, gone)
        /\ store' = SubSeq(store, gone + 1, Len(store))
        /\ missed' = [c \in Cars |->
              IF Contains(store', c) THEN missed[c] + IF taken > 0 THEN 1 ELSE 0 ELSE 0]

CanFlush ==
    /\ main.step = "flush"
    /\ hello # "none" /\ Cardinality(inFlight) < MaxInFlight /\ store # << >>

\* No hello, no place free, nothing pending, or not due yet.
NoFlush ==
    /\ main.step = "flush"
    /\ ~CanFlush \/ Len(store) < Fit
    /\ main' = Idle
    /\ UNCHANGED <<store, hello, inFlight, last, size, layout, seen, queue, nimble,
                   fate, booked, missed>>

\* All that was pending had grown too old.
FlushNothing ==
    /\ CanFlush
    /\ \E old \in SUBSET ToSet(store) : Pack(old, 0)
    /\ main' = Idle
    /\ UNCHANGED <<hello, inFlight, last, size, layout, seen, queue, nimble, fate, booked>>

\* A batch is packed and numbered.  A link that takes pre-encoded batches and
\* has none is tried first; where its payload lies is noted before the offer.
FlushPhoneBatch ==
    /\ CanFlush
    /\ last < MaxBatch
    /\ \E old \in SUBSET ToSet(store), taken \in 1 .. Fit :
          /\ Pack(old, taken)
          /\ last' = last + 1
          /\ size' = [size EXCEPT ![last + 1] = taken]
          /\ LET preload == hello = "preload" /\ Preloaded(inFlight) = {}
             IN  /\ main' = [step |-> IF preload THEN "offer" ELSE "send", batch |-> last + 1]
                 /\ layout' = IF preload THEN taken ELSE layout
    /\ UNCHANGED <<hello, inFlight, seen, queue, nimble, fate, booked>>

\* The packet pool is empty: the records are lost, and the number.
AllocFails ==
    /\ CanFlush
    /\ last < MaxBatch
    /\ \E old \in SUBSET ToSet(store), taken \in 1 .. Fit : Pack(old, taken)
    /\ last' = last + 1
    /\ main' = Idle
    /\ UNCHANGED <<hello, inFlight, size, layout, seen, queue, nimble, fate, booked>>

\* nimbleOfferToPhone looks at the link before it takes the mutex.
OfferLooksAtLink ==
    /\ main.step = "offer"
    /\ main' = [main EXCEPT !.step = IF link = "up" THEN "put" ELSE "send"]
    /\ UNCHANGED <<store, hello, inFlight, last, size, layout, seen, queue, nimble,
                   fate, booked, missed>>

TakePlace(preloaded) ==
    /\ inFlight' = inFlight \union {[batch |-> main.batch, preloaded |-> preloaded]}
    /\ main' = Idle

\* One offered batch at a time, and never the last free place.
OfferFits == offered = 0 /\ Len(readQueue) + 1 < ReadQueueSize

OfferPut ==
    /\ main.step = "put" /\ OfferFits
    /\ readQueue' = Append(readQueue, main.batch)
    /\ offered' = Len(readQueue) + 1
    /\ TakePlace(TRUE)
    /\ UNCHANGED <<store, hello, last, size, layout, seen, queue, counts, reading,
                   waiting, link, fate, booked, missed>>

\* Refused, or never offered: the ordinary queue, which may be full.
SendBatch ==
    /\ main.step = "send" \/ (main.step = "put" /\ ~OfferFits)
    /\ SendToPhone(main.batch)
    /\ TakePlace(FALSE)
    /\ UNCHANGED <<store, hello, last, size, layout, seen, nimble, booked, missed>>

-----------------------------------------------------------------------------
(* The phone's reads: onRead on NimBLE's task, getFromRadio on the main.   *)

\* With nothing in its queue a read waits for the main task.
WaitForData ==
    /\ link = "up" /\ reading = NoBatch /\ ~waiting
    /\ readQueue = << >>
    /\ waiting' = TRUE
    /\ UNCHANGED <<module, queue, readQueue, offered, counts, reading, link,
                   fate, booked, missed>>

\* getFromRadio hands over the head of the phone queue, and with a batch of
\* ours goes through notePhoneDelivered.
GetFromRadio ==
    /\ main = Idle
    /\ waiting /\ queue # << >>
    /\ waiting' = FALSE
    /\ queue' = Tail(queue)
    /\ readQueue' = Append(readQueue, Answer)
    /\ LET read == {Head(queue)} \intersect Batches
       IN  /\ fate' = EndAs(fate, read, "read")
           /\ booked' = EndAs(booked, read, "read")
           /\ inFlight' = {e \in inFlight : e.batch \notin read}
    /\ UNCHANGED <<store, hello, last, size, layout, seen, main, offered, counts,
                   reading, link, missed>>

NothingForPhone ==
    /\ main = Idle
    /\ waiting /\ queue = << >>
    /\ waiting' = FALSE
    /\ UNCHANGED <<module, queue, readQueue, offered, counts, reading, link,
                   fate, booked, missed>>

\* Fault: the offered batch is thought to stay where it was put.
PlaceKept == offered

\* The offered batch has moved up one.
PlaceAfterPop == IF offered > 0 THEN offered - 1 ELSE 0

\* The pop, under the mutex.
OnRead ==
    /\ link = "up" /\ reading = NoBatch /\ ~waiting
    /\ readQueue # << >>
    /\ readQueue' = Tail(readQueue)
    /\ offered' = PlaceAfterPop
    /\ IF offered = 1
       THEN /\ counts' = [counts EXCEPT !.read = @ + 1]
            /\ reading' = Head(readQueue)
            /\ fate' = EndAs(fate, {Head(readQueue)}, "read")
       ELSE UNCHANGED <<counts, reading, fate>>
    /\ UNCHANGED <<module, queue, waiting, link, booked, missed>>

\* readyPreloadedBatch, after the mutex: ages in the bytes popped run to now.
ReadyPreloaded ==
    /\ reading # NoBatch
    /\ reading' = NoBatch
    /\ UNCHANGED <<module, queue, readQueue, offered, counts, waiting, link,
                   fate, booked, missed>>

-----------------------------------------------------------------------------
(* The link. *)

Connect ==
    /\ link = "down"
    /\ link' = "up"
    /\ UNCHANGED <<module, queue, readQueue, offered, counts, reading, waiting,
                   fate, booked, missed>>

\* onDisconnect closes the phone's state first,
Close ==
    /\ link = "up" /\ reading = NoBatch /\ ~waiting
    /\ link' = "closing"
    /\ UNCHANGED <<module, queue, readQueue, offered, counts, reading, waiting,
                   fate, booked, missed>>

\* then clears the read queue; an offered batch in it is lost with the link.
ClearReadQueue ==
    /\ link = "closing"
    /\ link' = "down"
    /\ readQueue' = << >> /\ offered' = 0
    /\ IF offered > 0
       THEN /\ counts' = [counts EXCEPT !.lost = @ + 1]
            /\ fate' = EndAs(fate, {readQueue[offered]}, "lost")
       ELSE UNCHANGED <<counts, fate>>
    /\ UNCHANGED <<module, queue, reading, waiting, booked, missed>>

Main ==
    \/ OtherPacket \/ Hello \/ (\E c \in Cars : OfferToPhone(c))
    \/ TrackPhoneLink
    \/ NoFlush \/ FlushNothing \/ FlushPhoneBatch \/ AllocFails
    \/ OfferLooksAtLink \/ OfferPut \/ SendBatch
    \/ GetFromRadio \/ NothingForPhone

NimbleTask ==
    \/ WaitForData \/ OnRead \/ ReadyPreloaded
    \/ Connect \/ Close \/ ClearReadQueue

Next == Main \/ NimbleTask

Spec == Init /\ [][Next]_vars

-----------------------------------------------------------------------------
(* Properties. *)

\* The shape of the state; above all, tougeOfferedIndex is the place of a
\* batch in the read queue, whatever is popped from in front of it.
TypeOK ==
    /\ store \in Seq(Cars) /\ Len(store) <= Slots /\ IsInjective(store)
    /\ hello \in {"none", "plain", "preload"}
    /\ inFlight \subseteq [batch : Batches, preloaded : BOOLEAN]
    /\ Cardinality(inFlight) <= MaxInFlight
    /\ last \in 0 .. MaxBatch /\ size \in [Batches -> 0 .. Fit] /\ layout \in 0 .. Fit
    /\ main \in [step : {"idle", "flush", "offer", "put", "send"}, batch : Batches \union {NoBatch}]
    /\ queue \in Seq(Batches \union {Text, Pos}) /\ Len(queue) <= QueueSize
    /\ readQueue \in Seq(Batches \union {Answer}) /\ Len(readQueue) < ReadQueueSize
    /\ offered \in 0 .. Len(readQueue)
    /\ offered # 0 => readQueue[offered] \in Batches
    /\ reading \in Batches \union {NoBatch} /\ waiting \in BOOLEAN
    /\ link \in {"up", "closing", "down"}
    /\ {seen, counts} \subseteq [read : 0 .. MaxBatch, lost : 0 .. MaxBatch]

Places == INSTANCE BatchPlaces WITH
    places <- ({main.batch} \ {NoBatch}) \union {e.batch : e \in inFlight}

\* Whatever reads, losses and links interleave, a batch holds one of the
\* MaxInFlight places until it has been read or has left the queues, and is
\* then counted once, and as what became of it (BatchesInFlight: "a batch
\* holds its place until it is read or is known to have left the queues").
ImplementsBatchPlaces == Places!Spec

\* trackPhoneLink leaves no place to a batch that is gone: it has no timeout,
\* so a place it missed would be lost to the phone for good.
PlacesComeFree ==
    [][TrackPhoneLink => \A e \in inFlight' : fate[e.batch] = "none"]_vars

\* A pending car is in one of the next batches, however often the others, or
\* it, are heard again: no more than the store can hold go before it
\* (takeBatch: "a car that missed the last batch is in this one").
NobodyPassedOver == \A c \in Cars : missed[c] * Fit < Slots

\* When NimBLE's task readies a pre-encoded batch, where the payload lies is
\* still that batch's ("the queue's mutex orders the two").
ReadiedInPlace == reading # NoBatch => layout = size[reading]
=============================================================================

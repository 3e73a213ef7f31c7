# Touge mesh firmware: formal verification

The firmware of a car-to-car mesh for group drives: Meshtastic on a Heltec V4,
with an overlay (`src/overlay/src`) that adds a 2.4 GHz "fast lane" beside LoRa.
Each car beacons its position once a second in a slot of its own, adds more in
slots that are free, forwards what its neighbours may not have heard, and hands
everything to the phone. There is no server and no coordinator: every car runs
the same rules over its own roster.

This directory holds TLA+ modules of that overlay, TLC configurations that check
them on small instances, and proofs that TLAPS checks. Paths below that start
with `touge/` or `TougeFastModule` are under `src/overlay/src` (the module under
`modules/esp32/`).

    tlc -workers 2 -config Rides.cfg MCTdmaRide           a run
    tlapm PacketIdsProofs.tla                             a proof

## 1. Inventory

One main task runs `TougeFastModule::runOnce` every few milliseconds. A pass is,
in this order: `syncChannel` (is there a ride key, is the lane up on it), hop
keeping (off in this build), `drainRadio` (every frame received), `beacon` (send
if the turn has come), the forwards that have come due, then the phone and LoRa
housekeeping. Three other contexts touch its state: the PPS interrupt (the pulse
clock), the Wi-Fi task's ESP-NOW callbacks (the receive and send queues), and
NimBLE's task (the phone's reads). Everything else is single-threaded, and the
hard part is several boards at once.

| Component | State | Operations | Talks to | What is hard | What makes it right |
|---|---|---|---|---|---|
| Packet id counter (`TougeFastModule`, `mesh.h`) | `Mesh::lastId_`, `idCeiling_`, NVS | `loadIdCounter`, `saveIdCounter`, the seed in `syncChannel` | every `transmit`; NVS | power cut between any two steps, ride keys changed and changed back, NVS writes that fail | no id goes out twice under one key (AES-CTR nonce) |
| Pulse clock (`rideclock`) | `seq_`, `lastPulse_` (64 bits), `good_`, `pulses_` | `onPulse` (ISR), `phaseMs`, `locked` | `beacon`, `inSlot`, reference election | a 64-bit value written by an interrupt and read word by word, without a lock | an answer comes from one edge, and only after a run of edges that were due |
| Slot schedule (`schedule`) | slot, lease generation, link record of each slot, clash and listen timers, extras | `rebuild` (`settleLease`, `planExtras`), `heardBeacon`, `fillSlotMap`, `inSlot` | roster, beacon pass | each car decides alone on a roster that is incomplete, old, and different from the others'; clashes are visible only in third parties' maps | cars whose frames meet end up on different slots, and a settled car is not chased off its slot |
| Reference and clock recovery (`schedule`) | reference, parent, fitness, epoch | `electReference`, `chooseParent`, `syncTo`, `startEpoch` | beacons, pulse clock | belief relayed round a loop; errors adding up along a chain of parents | one reference per connected ride; a lost reference lapses |
| Beacon pass (`TougeFastModule::beacon`, `drainRadio`) | `wantBeacon_`, `nextBeaconMs_`, `sentOnce_`, `announcedSlot_` | send, hold, refuse, extra beacon; take a frame | all of the above | a slot that ends before the radio takes the frame; time read twice in a pass | the 1 s grid holds; a new lease is announced in its first slot |
| Roster, dedupe, held forwards (`mesh`) | riders, `seen_` table with copy counts, held frames | `note`, `firstSight`, `copies`, `defer`, `nextDue` | drainRadio, forwards | table full of live entries; a copy that comes in as the forward falls due | a frame is taken once and forwarded at most once |
| Forwarding decision (`fastrelay`, `forward`) | per-origin coverage | `judge` | slot maps, roster | each hearer may think another one covers the edge | every car of a connected ride gets every beacon |
| ESP-NOW radio (`espnow`) | receive and send queues, one frame in flight | callbacks, `send`, `receive` | Wi-Fi task | bounded queues filled from another task | no frame is taken twice or torn |
| Frame and cryptography (`frame`, `cipher`, `hmac`, `sha256`, `ride`) | none | encode, seal, open, derive | transmit, drainRadio | nonce reuse (see the first row) | opens exactly what was sealed |
| Phone batches (`phonebatch`, `TougeFastModule`) | positions owed to the phone, batches in flight, the pre-encoded batch, dropped-write ids | `put`, `take`, `sent`, `lost`, reconcile | NimBLE's task | a place freed twice or never; a ring shared with another task without a lock | the newest position of each car reaches a phone that reads |
| Own fix (`ownfix`, `gnssfix`) | the last fix, its source and number | `fromPhone`, `fromGnss`, `fresh` | beacon, LoRa | phone and board fixes alternate | our positions go out under numbers that nobody takes for older, nor for the same fix when it is another |
| LoRa positions and load (`lorapos`, `loraload`) | positions queued, interval | note, place, sent, judge | Meshtastic's router | a queue and a table of seats that are full; positions that overtake each other; an interval that oscillates | a newer position replaces the older; the interval stays in range |
| Reach and relay preferences (`reach`, `relaypref`) | summaries, grants with expiry | build, take, grant, withdraw | LoRa relays | a withdrawal that is lost | one early relay for each origin |
| Fast position restore (`TougeFastModule`) | ring of rows to write again | `handleReceived`, `reassertFastPositions` | node database | the ring is full; the row is written a pass later than it was noted | LoRa keeps a row once 2.4 GHz has stopped carrying its car |
| Channel hopping (`hop`) | belief and serial number | off in this build (`FAST_LANE_HOP` is false) | | serial number order after a long absence | all cars of a ride on one channel |
| Voice test (`voicetest`), status lines, board pins, memory | counters | | | | not part of the ride |
| Patches, host tests, build, web flasher | | | | | not the program |

`PROJECT.json` lists the same components with their status, and under `hazards`
every place in this code that is hard to test, with the property that covers it
or the reason none does yet.

## 2. Modules

    PacketIds   <- MCPacketIds, MCOneBoard, PacketIdsProofs
    SlotLease   <- TdmaRide <- MCTdmaRide, TdmaRideProofs
     (rule)        (cars, radio, world)
    Reference  }<- MCBeaconRide, BeaconRideProofs
    FastRelay  }
    FrameFlood  <- MCFrameFlood, FrameFloodProofs
    BatchPlaces                  what the batches' places promise
      ^ implements
    PhoneLane   <- MCPhoneLane, PhoneLaneProofs
    PulseLock                    what the pulse clock promises
      ^ implements
    RideClock     } <- MCOneBoard, LockFreeProofs
    DroppedWrites }
      v implements
    WriteDrops                   what the phone is owed of dropped writes
    LoraGrid    <- LoraLane <- MCLoraLane, LoraLaneProofs
     (rule)        (board)
    ReachRelay  <- MCReachRelay, ReachRelayProofs

The components share one board but little state, so each is a module of its own,
with what it needs of the others as its environment. Where a component's behaviour
depends on the kind of ride about it (who hears whom, what may be lost), the kind is
a variable chosen in `Init` (`ride`, `setting`, `scene`) and the constants are
functions of it, so that one run covers all kinds. `MCOneBoard` and `MCBeaconRide`
hold three components and two that share no state; a behaviour follows one of them.

### PacketIds

One board's counter over any number of boots. `nvs` is what flash holds,
`ceiling` is `idCeiling_`, `lastId` is `Mesh::lastId_`, `sent` remembers every
key and id handed to the radio. A boot is two steps (`LoadIdCounter` reads and
raises, `ArmAtBoot` writes) and a frame is three (`SealFrame` takes the id under
which the frame is encrypted, `SaveIdCounter` re-arms the block, `SendFrame` or
`RefuseFrame`), so that `PowerCut` can fall between any two. `JoinRide` and
`LeaveRide` are the two outcomes of `syncChannel` that touch the counter; a lane
that fails to start, or starts with too little heap, is part of `JoinRide`. NVS
may fail to open at boot, fail to open later, or fail a write whose result the
code does not look at.

### PulseLock and RideClock

`PulseLock` is the promise: edges and answers are atomic, and an answer is the
phase since the last edge, given only if the last `LockRun` gaps were each a
period, or a few periods, within a tolerance. `RideClock` is the code, one step
for each access to shared memory: the handler stores `seq_` (odd), the two words
of the time in either order, `good_`, `seq_` (even); the reader loads `seq_`,
the words in either order, `good_`, and `seq_` again, and tries again if it was
odd or has moved. `isr` and `reader` are the two programs' locals. Time passes
between any two steps of the reader, but not inside the handler.

### SlotLease and TdmaRide

`SlotLease` is the rule as operators over a car's `Schedule` object (a record)
and its roster (a function from cars): `SettleLease`, `PlanExtras`,
`HeardBeacon`, `SlotMap`, each named for the part of `schedule.cpp` it stands
for. Early returns of `settleLease` are the branches of `SettleLease`; the three
ways to lose a lease are `Outranked`, `drowned` and `unheard` in `JudgeLease`.

`TdmaRide` puts cars on one air. A step of the clock is one slot of the second
(four blocks of `Rows` leased slots and a shared window). In it every car runs
`beacon`, then every car drains what was on the air, then every car hears the
forwards; passes of different cars in a slot do not depend on one another, so
they are taken in number order. The actions of a car are `NoBeacon`,
`SendExtraBeacon`, `HoldBeacon`, `SendBeacon`, `RefuseBeacon`, `DrainRadio`,
`LoseFrame`, `HearForwards`, `LoseForwards`. The world's are `SwitchOn`,
`SwitchOff`, `FixChanges` and `Move`.

The radio, not in `src/`, is modelled from how the code and its simulator use
it: frames that open the same slot collide; a car in earshot of both hears none
or one of them; a sender hears none. Frames in the shared window, and those of
cars that believe they are alone, start at scattered times and get through.

### Reference

Who keeps the ride's time. Each car has `ref` (`referenceId_` with its lock and
fitness), `parent`, `hops`, and a roster of what it knows of each other car
(`Rider`: its leased beacon, lock, fitness, and the reference it names and how far it
is). `Elect` is `electReference`, `chooseParent` picks the way, `TakesClockFrom` says
whose beacons set our second, `StartsEpoch` says when a car begins a second of its own. A
step is one car's `Beacon` (or `BeaconMissed` by one hearer, `Silence` of a car that
is off), in the order of their slots; the second ends with `EndOfSecond`, in which
ages go up and stale cars are forgotten. The world's steps are `SwitchOff`, `SwitchOn`,
`Restart`, `LockChanges`, `FitChanges`, `LeaseLost` and `Meet`. A clock is abstracted to
whose second it is, with the boot it began in: two cars agree if they follow the same
start. A relayed copy of a beacon arrives in the same step as the beacon. `gone` counts
the seconds since a car was switched off, for `GhostsFade` only.

### FastRelay

Which forwards a car leaves out, seen from one car, the `Judge`. Every other car
keeps the slots it heard (`hears`, the slot maps), and `SendBeacon` puts its map on the
air. The judge's `record` and `shown` are `fastRelay_`: for each pair of cars, which
of the one's last maps showed the other. `HeardMap`, `Evicted` and `Verdict` are
`heardMap`, `takeSeat` and `judge`, with the record full and the roster full. A car on
the roster counts for as long as its beacon is young; one that a full roster turned away
is known by its last counted map alone, which may be a second older than its last beacon
(`Counted`; `fastrelay.h:74-76`). Links die
(`LinkDies`), beacons are lost, cars change slot (`Move`). `heardAgo` is what really
happened, and is read by the properties only.

### FrameFlood

One frame's way through several cars. Each car has the receive queue the Wi-Fi
task fills (`rx`), the frames its `drainRadio` has taken in this pass (`pass`),
the dedupe table with its copy counts (`seen`, one entry for a frame, so that the
number of live ones is what can reach `SeenSlots`) and the held forwards (`held`).
`Broadcast` puts a copy into the queue of every car in earshot that does not lose
it and has room. A copy drained is one of `DrainOwn`, `DrainCopy` (counted),
`TakeOnly`, `TakeAndHold`, `TakeNoRoom`; a forward due is `GiveUp`, `Forward` or
`ForwardRefused`. What the code leaves to its main loop's timing is the choice of
when: `Tick` waits only until something has been due for as long as `Stall` (one
tick in a car that is not in `Slow`). `taken`, `heard`, `owes`, `spoke`, `quit`,
`refused` and `missed` are history, read only by the properties and by no guard.

The module is of rides of 3 to 11 cars, in which `fastRelayDropsForward` drops
nothing, so that `planForward` is its due time and its copy count.

### BatchPlaces and PhoneLane

`BatchPlaces` is the promise: a bounded number of places; a batch holds one from
before it is handed over until its end is booked, once, as what it was (read or
lost). `PhoneLane` is the code on two tasks. `store` is `phoneStore_` as the queue
of cars it amounts to, longest pending first (what a record says is left out; its
age is a choice, made as it is packed). `inFlight` is `batchesInFlight_`, a set of
batches each with whether it was pre-encoded, `queue`
Meshtastic's queue to the phone, `readQueue` NimBLE's, `offered` the place of the
pre-encoded batch in it, `counts` what NimBLE's task has counted and `seen` what
the main task has seen of that.

The main task's pass is cut where NimBLE's task can tell: `TrackPhoneLink`;
`FlushPhoneBatch` (pack, number, note where the payload lies) or one of the ways
nothing comes of it; `OfferLooksAtLink`, before the mutex; `OfferPut` under it, or
`SendBatch` into the ordinary queue. `OtherPacket` and `GetFromRadio` are
Meshtastic's, from the patches. NimBLE's task is `OnRead` (the pop, under the
mutex), `ReadyPreloaded` (the ages, after it), `WaitForData`, and the link:
`Connect`, `Close` (the phone's state), `ClearReadQueue`. In the refinement a
batch holds a place if it is in `inFlight` or the main task has it in hand.

### WriteDrops and DroppedWrites

`WriteDrops` is the promise: the packet ids of phone writes that the radio dropped
form a queue, in the order they were dropped; one that finds it full is only counted; a
report takes some and reaches the phone whole or not at all. `DroppedWrites` is the
ring `DroppedWriteIds` on two cores, one step for each access to shared memory: `push` is
`LoadHead`, then `CountOverflow`, or `StoreId` and `StoreTail`; `pop` is `LoadTail`,
`LoadId`, `StoreHead`; `ReportDroppedWrites` is the end of the function of that name. The
counters wrap at a multiple of the ring's length, as 2^32 is of 16. In the refinement a
write is dropped when `push` finds no room or publishes the id, and taken when `pop`
frees its place.

### LoraGrid and LoraLane

`LoraGrid` is arithmetic without state: the interval from the measured load (`Judge`),
and the next point of the grid that a car's share of it gives (`NextLoraSendAt`).
`LoraLane` is one board: its own fix from phone and receiver (`ownFix_`), the positions
in Meshtastic's transmit queue with the seats that remember which fix each carries
(`queue`, `tags`), the interval (`load`), and the ring of rows to write again
(`restore`). `RunOnce` is the pass: `judge`, `reassertFastPositions`, `fromGnss`, and
the send if the turn has come. Between passes the phone writes, packets are heard on
LoRa (`HearLora`), the radio starts and ends a transmission, and `Tick` lets time go by.
Ages stop where they stop mattering and fix numbers wrap, so behaviours are infinite and
the liveness property is about real ones.

### ReachRelay

A ride's cars on LoRa. `table` is `reach_` (how an origin was last heard, and how many
fixes in a row directly), `said` and `stamp` what others' summaries claim and when,
`early` the early summary that is due after a loss, `prefs` the grants of `relayPrefs_`.
`SendPosition` is a position with, every so often, a summary; what it leads to in the
same tick, who hears it directly, which relay forwards it and whose relay is left out
(`Skips`, `judgeRelay`), is part of the step. `SendEarly` is an early summary.
`LinkChanges` and `Restart` are the world's.

## 3. Runs

| Run | Module and cfg | Question | Shows |
|---|---|---|---|
| packet_ids_save_fails | MCPacketIds, PacketIdsSaveFails | Does NVS hold a value ahead of anything sent? | not after one failed write (finding 1) |
| one_board | MCOneBoard, OneBoard | What a board keeps by itself. *clock* and *drops*: the two places where tasks share memory without a lock, access by access. Does the reader of the pulse ever answer from halves of two edges, or the time of one and the run of another? Is an id ever read before it is stored, overwritten before it is read, or read twice? *ids*: is a packet id used twice under one key, does the counter go back? | they implement PulseLock and WriteDrops; no id twice, at any interleaving of power cuts, ride changes and NVS faults, as long as no NVS write has failed; the counter never goes back while the board is up, failed or not |
| rides | MCTdmaRide, Rides | Four kinds of ride on one air. *power_on*: three cars in earshot power on in any order over a second and a half. *newcomer*: a third car joins a settled pair and hears half of it; two frames are lost or refused as it claims. *settles*: the ends of a line of three are hidden from each other, join at any time, a frame is lost. *out_of_range*: a car goes unheard, drives off, loses its fix, is switched off | the queue of claimants gives each a slot of its own at once, and leases and extras keep off each other's air; the newcomer moves, not the settled car; within 15 s of the last trouble no slot is doubled and everyone is leased; a slot is reissued only after its holder gave it up itself |
| ride_both_move | MCTdmaRide, RideBothMove | Do judges' maps move exactly one of a pair on one slot? | not always (finding 2) |
| frame_flood | MCFrameFlood, FrameFlood | Two frames flood a line of four cars with a one-way link past the middle, one car's main loop stalls, a copy is lost: is a frame taken once, and does it get as far as its hops allow? | no car takes it twice; a forward is given up only for copies of as many different cars; a frame stops only at a car that gave it up or was refused, or at a queue with no room |
| phone_lane | MCPhoneLane, PhoneLane | Do reads, losses, a full queue and a dropped link, at any interleaving of the two tasks, free each place once and book what happened? Is a car passed over? | it implements BatchPlaces; no place outlives its batch by a pass; a pending car is in one of the next batches |
| phone_ready | MCPhoneLane, PhoneReady | Does a pre-encoded batch's layout still hold when NimBLE's task readies it? | not always (finding 3) |
| lora_lane | MCLoraLane, LoraLane | Queue, own fix, rows and load, each under its own kind of traffic. Does a car hold two places in the transmit queue, or lose its turn to its own newer position? Is a queued position replaced by an older one? Does one of ours go out that others take for older than the last? Does a 2.4 GHz position come back over LoRa after 2.4 GHz has stopped? Does the interval come to rest? Does our own position keep going out? | one place for each car, kept; a queued position gives way to later ones only; our own positions only go forward, phone and receiver alternating; a row is written back only while 2.4 GHz carries the car or a tick after; the interval rests after ten judgements of each of ten loads, whatever it was before; as long as the phone stays, its position is sent again and again |
| lora_full_ring | MCLoraLane, FullRing | Is it the oldest row that a full ring gives up? | no, the newest (finding 5) |
| reach_relay | MCReachRelay, ReachRelay | Cars leave out relays on each other's word, while links die, summaries are lost and a relay restarts. Is a car that needs a relay cut off? Are relays that nobody needs left out in the end? | three skipped positions at most if nothing is lost, five if the early summary is, a round of summaries more if the full one is; on a ride where all hear all, all relays are spared in the end |
| reach_stale_claim | MCReachRelay, ReachStaleClaim | Is every relay that is left out left out on fresh claims? | no (finding 4) |
| beacon_ride | MCBeaconRide, BeaconRide | What cars make of each other's beacons. Timekeeper: lines (slots in order and against it), a fork, a line longer than the hop cap, locks and fitness that change, two pairs that meet; the reference leaves, restarts, loses pulse or lease. Relay: links that die, cars that move, a record or a roster that is full | all within the hop cap name the best car and follow its second after 7 quiet seconds, without loops; a car that has gone is named for at most 7 s, whatever else happens; a forward is left out only for cars that did hear the origin, or the relayer, lately; with clean air it is left out |

`mutants` in `PROJECT.json` names a plausible bug for each property (the
definitions marked "Fault:" in the modules); each one makes TLC find that
property violated under the same configuration.

### Bounds

*PacketIds*: block 3, margin 1, ids to 5, two keys. A block of three is exhausted
and re-armed, with the re-arm one id ahead of the ceiling, within five ids;
two keys let a ride be left and come back to. The proof covers every value.

*RideClock*: a period of 2 ticks, tolerance 0, one missed pulse tolerated, a
run of two edges to lock, times of two base-3 words to 8, four edges, two tries (four in
the code). Two words with a carry between them is what tearing needs, and four edges
give the run, a break in it, and a write that meets both tries. The proof covers every
value. *DroppedWrites*: three slots, counters that wrap at six, eight dropped writes: the ring
is full, the counters wrap, and a report fills up. The proof covers every length and
wrap.

*TdmaRide*: three cars (four in `ride_both_move`, the least that has two hidden cars and
two judges), one row of slots (two there) in place of eight. The code's map window (1.5
s), map trust (3 s), listen (2.5 s) and queue rules are kept at full size. The longer
windows are scaled down in the order the source asserts with `static_assert`:
established 4 s (10), reference lapse 5 s (8), unheard 7 s (20), lease 10 s (30),
back-off 3 s (6). What matters to the rules is which expires first, and
`LeaseAssumption` states it. Losses and events happen at named slots: around the moment
a claim is made or a car is judged, which is where they can hurt; how many is
`MaxFaults` and `MaxEvents`. The 15 s of `SettlesInTime` is listen, claim, two rounds of
maps and a second claim, with the unheard timeout in the worst order; without the queue
of claimants (its mutant) the ride needs more. In *settles* cars join at every sixth
slot of the first 42, half a second apart: seconds of claims that cross, and every order
of them. `LeasesApart` and `ScheduledAirClear` speak of rides with everybody in earshot
and nothing lost yet, which is what `Together` says and *power_on* is; `SettlesInTime`
of links that run both ways. The proof of the first two covers every number of cars and
all draws, where the cars power on within half a second (section 4).

*FrameFlood*: four cars in a line and two hops, so that along the line it takes
both forwards to reach the far end; the third hears the first but not the other way
round, so that copies come by two ways and a car may be covered by those that do not
reach its neighbour. Two frames, on a table of two entries, one held forward, a
receive queue of two and one frame a pass in place of 96, 12, 32 and 8: each of them
is full in some behaviour. Two copies suffice to give a forward up, three in the
code, as a car here has at most three neighbours. A tick is a pass of a car that does not
stall; waits are none or the longest (2); car 2's loop stalls for up to 2 ticks.
`Life`, the longest a copy can be about, is then 14, and `Ttl` is the same: one tick
less and `WindowAssumption` fails. Both frames are sent at time 0 (`SendBy`), the
worst case for queue and table, and the run goes on to 16, past `Life`. In the code's
numbers `WindowAssumption` is `5 * stall + 270 ms <= SEEN_TTL_MS`, a stall with the
pass after it and the air time in it: it holds for
stalls up to 146 ms on a lean board (the comment in `forward.h` speaks of 95 to 140)
and 246 ms on the others.

*LoraLane*: two cars, a queue of two, a ring of one row, so that both are full; three fixes
of a car that reboots after the second, and one of a stock sender; a phone quiet
for a tick (`PHONE_FRESH_MS`) and a fix stale after two. Half of `SeqSpan`, 6, is
more than the fixes that change between two sends (two here), which is what the wrap-safe
comparison in `OwnGoesForward` needs of 2^32. The
interval runs from 5 to 20 s in whole seconds with the code's rule; the loads go from none
to a channel that is full at the longest interval.

*ReachRelay*: three cars, of which one is origin, one relay, one far: a preference and a
skip need an origin, a relay that decides, and one it decides about. An interval is four
ticks; a summary goes out with every fifth position (twelfth in the code), so a claim
keeps for two and a half rounds of summaries as there; two fixes in a row make a car
steady, four in the code (which counts on to seven, and asks only whether it is four).
Links change and cars restart at the start of an interval, one restart in a ride.

*Reference*: four cars and five; a line of five is longer than the cap of three hops
(five in the code), so that the cap is met. A second is one round of beacons; lapse 3 s,
lease 5, listen 3, in the order of the code's 8, 30 and 2.5; two faults, three where
more is needed (a line, two pairs that meet), each between two seconds. `Settle` is 7:
with these scales TLC finds 6 enough and 5 not. `Fade` is 7 too, which is what the proof
gives for any number of faults (a lapse less a second for each of three hops, and one);
with the two or three faults of these rides 4 would do.

*FastRelay*: three senders and the judge; four slots, one a tick; four maps remembered
(8 in the code), two or three of which must show a car (5 and 7); two or no beacons
lost, two changes. *crowd* has one seat too few in the record, *full* on the roster.

*PhoneLane*: three cars on a store of two, so that a record is displaced; one record
in a batch, so that cars queue (two in `phone_ready`, so that two batches differ in
length); two places and a read queue of three, as in the code; a phone queue of two,
so that each way of dropping a packet happens; three batches, one more than there
are places. `Permutations(Cars)` is a symmetry: no step or property names a car.

Deadlock is checked for PhoneLane, whose two tasks could wait for each other, and for
LoraLane and ReachRelay, whose behaviours go on for ever. `CHECK_DEADLOCK FALSE` stands in
the other configurations because their instances end at a bound on time, edges,
ids, drops or faults; nothing in them can block before it.

### Fairness

What must happen in the end is mostly a bound in time (`SettlesInTime`, `AgreeInTime`,
`GhostsFade`, `NobodyCutOff`, `PlacesComeFree`, the attempts in `RideClock!TypeOK`, the
deadline in `TdmaRide!TypeOK`): the code gives deadlines and windows, read in a main
loop that runs every few milliseconds, so a bound in time is what it really promises, and
needs no fairness. Two properties do not end at a bound.

`OwnKeepsGoing` (LoraLane) assumes weak fairness of the pass, of time, of the phone's
writes while one is due, and of the radio's start and end of a transmission. Each stands
for something that does come round: FreeRTOS runs the main task, the clock goes on, an
app connected over BLE writes its fix every second or so, and Meshtastic's radio thread
empties its queue. No fairness is assumed of what others send, so a channel may be quiet
or busy for ever.

`RelaysSpared` (ReachRelay) assumes only that time goes on: infinitely often a tick
passes. Each car sends in its tick because the tick does not pass before.

The three refinements are of safety.

## 4. Proofs

*TdmaRideProofs*, for any cars, rows, windows, kinds of ride, losses and draws, under
`LeaseAssumption` and `RideAssumption`, which ask for what the source asserts with
`static_assert` and for `Unheard >= 5 * Second` (20 s in the code). Two invariants.
`RideInv` is the shape of a ride, whatever is lost and whoever comes and goes: what a
car's schedule, roster and radio may hold, that a car's frames are of this slot, and that
an announcing beacon goes out by its deadline (`CarOK`, `AirOK`, `ClockOK`). `TypeOK`
follows, with the deadline in it. The rule's operators are proved about one by one
(`SetLoss` ... `SetHeard`; `ClaimIs`: a claim returns the free slot of the claimant's
place in the queue), then each action.

`LeasesApart` and `ScheduledAirClear` follow from `CalmInv`, on rides where every car
hears every other, nothing is lost (`Together`) and the cars are on in time
(`PoweredTogether`). On such a ride each car leases the slot of its place in the queue, or
none (`Leasing`, `Goal`). That is not inductive: that a claim hits `Goal` needs every other
car on the roster, that the roster shows its slot as it is needs a beacon in time, and
that a lease is kept needs the maps that others send. So `CalmBody` also says that every
car is on every roster, unless it has had no turn yet (`Rosters`, `Heard`, `Unknown`);
that a beacon is never more than two seconds late, the shared one before a claim included
(`Timely`, by the arithmetic of slots that come round, `Comes`); that every own slot since
the claim was heard by all, so that their maps show it (`Shown`, `OnAir`); and that a map
shows no slot that is not on the roster too (`Links`, `Announced`), so that nothing claims
or moves on what only a map knows. The lemmas follow one second of a ride in its order:
beacon, drain, relay, clock. TLC checked `CalmInv` on small rides before it was proved.

`PoweredTogether` is that the last car is on two seconds before the first may claim,
which is half a second after that one: the two beacons of `schedule.h:260`, "listen
through two beacons from everyone". Later than that the argument fails: a car that
claims just before its shared beacon is due may be heard first three seconds after the
late one is on, and that one listens for two and a half. `power_on` checks the wider
second and a half, for three cars and one draw, and finds no fault; that the first car
lists the late one, and stands before it in the queue or after it, is then a matter of
which beacons cross, and is not proved. Rides whose cars are all on at the start
satisfy `PoweredTogether` too.

*PacketIdsProofs*, for any keys, block, margin, node number, bound and set of
faults, under `IdsAssumption`. `IdsTypeOK`, `NvsAheadOfSent`, `NonceNeverReused` and
`IdsNeverGoBack`. The first three are not inductive: a power cut loses the
counter, so what keeps ids apart must be said of flash. The inductive invariant
is `Shape /\ (nvsOk => Ahead /\ Armed /\ Fresh)`: ids sent are at or below what NVS
holds; the ceiling in RAM is NVS's whenever the board may send, and the id of a
saved frame is under it; and within a power-on the counter is at every id sent,
past them under a fresh one. `JoinRide` keeps the last part because
`SeedAfterReset` is never behind `lastId`, a lemma.

*LockFreeProofs*, the clock: for any period, tolerance, run length, staleness, word size and
number of tries, under `ClockAssumption`. `TypeOK` and `ImplementsPulseLock`. The
inductive invariant is `TypeOK /\ WriterOK /\ ReaderOK`. `WriterOK`: `seq` is twice
the number of finished edges, plus one while the handler stores, and outside of
that the memory holds the last edge and the length of the run that ends in it.
`ReaderOK`: while `seq` is what the reader first saw, every word it has loaded is
the last edge's. The step that answers is then `PulseLock!Answer`, the one that runs out of
tries `GiveUp`, the handler's last store `Edge`, and all the others stutter.

*LockFreeProofs*, the ring: for any length of the ring and any multiple of it at which the
counters wrap, under `DropAssumption`. `DropTypeOK` (proved only, in no run) and `ImplementsWriteDrops`. The
inductive invariant is `DropTypeOK /\ PushOK /\ PopOK`. `PushOK`: once `push` has found
room, there is room until it publishes, since `pop` only makes more; and what it has
stored is at tail's place. `PopOK`: once `pop` has found an id, there is one until it
frees the place, and what it has read is still there. That rests on arithmetic (first
part of the module): a counter's place in the ring survives its wrap (`PlaceKept`), the
unsigned difference counts the ids (`TailOn`, `HeadOn`), and places less than a ring
apart differ (`PlacesApart`). The ids from head to tail are then a sequence (`Held`)
that `StoreTail` appends to, `StoreHead` takes the head of, and `StoreId` leaves alone.

*FrameFloodProofs*, for any cars, links, hops, waits, stalls, losses, queue and table
sizes, under `FloodAssumption` and `WindowAssumption`. `TypeOK`, `TakenOnce`,
`CarriedOn` and `QuitsWhenCovered`. That a car has not taken a frame before says
nothing of what is still on its way, so the inductive invariant is
`TypeOK /\ Timely /\ Remembered`. `Timely` bounds a copy's
lateness by the hops it has used: each adds at most a wait and two stalls (`Hop`; lemmas
`LateSteps`, `OnwardInTime`), so that none is about `Life` after the frame was sent.
`Remembered`: until then a car that took the frame has its entry. It has not
expired, as `Life <= Ttl`. It is not evicted, as every live entry is of a frame sent
within `Ttl + Life`, and there are no more of those than slots (lemma `NoEviction`, a
matter of cardinalities). A copy that is new to a car was therefore never taken by it
(`TakenFirst`).

The other two are about what became of a frame, so `Story` says it of every car that
took one: where it came from is known (`KnownTaken`); each hearer of a car that took it
with hops left has been served, or the car still owes it a copy, or has given it up, was
refused or had no room (`Carried`); it is held in one place (`HeldOnce`); the copies
counted in an entry are of different cars that did speak (`HeardOnce`, `CountsHeard`),
which rests on `TakenOnce`: a car that takes a frame once sends it once.

*PhoneLaneProofs*, for any cars, store, batch size, places and queues, under
`LaneAssumption` (the read queue holds more than two packets, as NimBLE's does).
`TypeOK`, `NobodyPassedOver`, `PlacesComeFree` and the refinement
`ImplementsBatchPlaces`. The invariant has to account for each batch at every cut between
the two tasks: `Shape`; `TurnsKept` (the store's queue is by turn); `HandNew` (the batch
in hand has a number nobody has); `EntriesApart` (no two places for one batch);
`QueueKnown` and `PreloadKnown` (what lies in either queue is in flight, as what it is);
`ReadRoom` (there is room for what is offered); `CountsBounded` (NimBLE's task is ahead of
what the main task has seen by what is out at most). The batch in hand and `inFlight` are
then the abstract places; each pass's `TrackPhoneLink` and reconciliation maps to ends
that are booked, the rest to a stutter.

*LoraLaneProofs*, first the rule alone, for any limits, loads, rosters and jitter, under
`GridAssumption`. `IntervalInRange`: the interval stays in its limits and in whole
seconds. `NeverSticks`: rounding up to the second never holds a busy channel's interval
in place, nor a quiet one's (that is where `4 * Round < Shortest` is needed).
`DueWithinAnInterval`: the next send is after now and at most an interval off.
`SharesApart`: two cars of one roster are never less than half a share apart. Then the
board, on any traffic under `TrafficAssumption`: `TypeOK`, `OnePerCar`, `LoraTakesOver`,
`TurnKept` and `NeverGoesBack`. The invariant is `Shape /\ QueueOk /\ SeatsKept /\
RingFresh`: no car twice in the queue, the seats are those of the queue, and a row is in
the ring since this tick, or since late in the one before. Every step that touches the queue is a newcomer coming to it (or its head leaving), so the
placing rule is proved about once. `NeverGoesBack` has a hypothesis about the air,
`CarsKeepTime`: a car's own fixes leave it in the order of their times (`frame.h:134`);
TLC evaluates it for the traffic of the run (`CarsTimed`). While a position of a car is
queued none measured earlier takes its place; one that left the queue is not compared
with what comes after. What is left to the run is the rule in a loop with a measurement
that lags (`IntervalSettles`), and our own numbers (`OwnGoesForward`).

*ReachRelayProofs*, for any ride, losses, cuts and restarts. `TypeOK` and
`PreferenceEarned`. The first is not inductive alone: that no car prefers more than it
has room for needs the rule by which a grant replaces another. The second needs
`Evidence`: a relay of an origin's frame that a car counts did happen then, and
`Lapsing`: what a preference has still to run and what the relaying it rests on is behind
make no more than the window and the hold together. Grants are ranked by a recursive
function (`Preferring`); that one is best is an induction by least counterexample.

*BeaconRideProofs*, the part on Reference, for any cars, slots, links, losses, leavers
and restarts, under `ReferenceAssumption`. `RefTypeOK`, which says that no route is
longer than the cap, and `GhostsFade`, given `MaxRefHops * (Lapse - 1) < Fade`. Word of
a car that has gone goes round among those who named each other for it, so the invariant
speaks of the word, not of who passed it on: `Known` (a rider's age is no less than the
time its car has been off) and `Told` (a word of `h` hops is no further behind than `h`
lapses and its own age). A car that elects names only itself, a car heard within a
lapse, or one that such a car has told of in fewer hops than the cap (lemma `Elected`);
a route is one hop longer than the one it rests on (`RebuiltIs`); so a new word of `h +
1` hops is a lapse further behind at most (`Traced`), and at the cap it is passed on no
more. A car elects at its own turn at the least, which is the second that `Named` allows
beyond. At the code's 8 s and 5 hops that is 36 of the model's seconds. `OneIsBest`:
`betterReference` orders any cars.

*BeaconRideProofs*, the part on FastRelay, for any cars, seats, slots, maps and windows,
under `FastRelayAssumption`. `RelayTypeOK`, `SkipsOnlyHeard` and `CleanAirSkips`. For
the first two the invariant relates the judge's record to what did happen: `Lists` and
`Blanks` (no car has two seats, a seat not taken is blank), `HearsKnown` (what a car's
map shows it did hear, within the window), `Latest` and `Previous` (the record's maps
are that car's last ones), `Listed` (every car heard within a lease is on the roster, or
known by its counted map). The property first read "on the roster", and was not true
where the roster is full: a car that the roster turned away is known a second less
(`Counted`). TLC did not find it with the windows of the run; the proof asked for it.

`CleanAirSkips` goes from the air to the verdict. `CleanIInv` says of each car what its
beacons since the last trouble have done (`Kept`), by how many ticks ago its turn was
(`Behind`): one puts it on every list, with the slot it is in (`Caught`); the record then
is less than a second older than that turn, and since `FAST_RELAY_MAP_SPACING_MS` is below
a second the next beacon is counted, and every one from then on; and a map counted `i`
seconds ago shows every other car. With room for all no seat is taken from anyone, so that
two seconds more than there are maps suffice. TLC checked `CleanIInv` on all scenes first.
The proof asked for `Second < FreshFor` in the assumption: the code has 3 s
(`fastrelay.h:143`).

Minima (the best car, the nearest route, the least counterexample) come from
`FiniteSetTheorems`: strict inclusion is well-founded on the subsets of an interval
(lemmas `Least`, `Wellordered`). Induction with an operator parameter is out of reach.

*Only model-checked*:

- TdmaRide `SettlesInTime`: within 15 s of the last trouble a doubled slot is given up and
  another claimed. It needs who judges whom by whose maps, second by second, over links
  that not all cars share, and the queue after each order of joining.
- TdmaRide `NoTakeover` and `IncumbentStays`: they matter on rides with losses or hidden
  ends, where `CalmInv` does not hold. There an older lease outranks a younger at once.
  Which is older, and whether a holder gave up before its lease lapsed elsewhere,
  depends on which beacons a claimant had heard before, in the seconds between.
- Reference `AgreeInTime` and `OneClock`: agreement in so many seconds is a round by
  round argument on the distance to the best car in a graph of links; path lengths are
  recursive, and the rounds an induction over them.
- LoraLane `IntervalSettles`: the rule in a loop with a measurement that lags, over ten
  judgements, with division in each.
- LoraLane `OwnGoesForward`: it holds while fewer fixes than half the numbers come
  between two sends, which is a matter of how often fixes come and how long a send may
  wait. In the code it is minutes of fixes against 2^31.
- ReachRelay `NobodyCutOff`: how many positions in a row a car may miss rests on the
  order of a summary, its loss, the early one and a grant's end.
- `OwnKeepsGoing` and `RelaysSpared` are liveness under fairness, which TLAPS does not
  reach.

## 5. Findings and limits

1. *A failed NVS write is not noticed* (`TougeFastModule.cpp:512, 522-524`).
   `TougeFastModule.h:198-200` promises that NVS "holds a value safely ahead of
   anything already sent". After one failed write ids go out above it, and a
   reboot starts inside a used range.
2. *Both of a pair may move* (`schedule.cpp:303-313`). "On a tie the higher tag
   yields, so exactly one of a pair moves" assumes that both judges' maps are in
   when the tie is judged. They come one at a time, each counts alone, and both
   cars may yield. Both find other slots; the ride settles all the same.

3. *A pre-encoded batch is readied outside the mutex* (`core-patches/0007`, lines 110
   and 123-126). `TougeFastModule.cpp:2309-2311` says of the payload's place and length:
   "the queue's mutex orders the two". The read is counted inside the mutex and the ages
   are brought up to date after it; a pass of the main task in between frees the place
   and notes the next batch's layout. If the lengths differ the first goes out with the
   ages of its packing.
4. *An old claim is kept fresh* (`reach.cpp:327-338, 342-348`). `relaypref.h:57-58`: a
   relay is left out "only when every one of them claims to hear the origin steadily
   direct in a summary fresh within [freshMs]". A summary renews its sender's stamp, but
   clears only what it lists. A car that has been restarted, or has forgotten the
   origin, lists it no more, and is held to its old claim by each new summary.
   An origin is kept for 240 s, which is 48 of the shortest intervals and 12 of the
   longest, a claim for 30 intervals: the run has the longest, where claims outlive
   origins. `reach_relay` has the shortest, and there relays come back in time, a relay
   that was restarted included.

5. *A full ring drops the newest row* (`TougeFastModule.cpp:2167`).
   `TougeFastModule.h:225-226`: "A full ring drops the oldest, which costs that car a
   single stale row until its next fast frame." The code notes a row only while there is
   room, so it is the car whose LoRa position came last that keeps the stale row. The
   cost is the one the comment names.

Limits of the models, each of which hides something on purpose:

- `phaseMs` called with a time read just before an edge lands says "not locked", once,
  in a 5 ms pass. `PulseLock` allows it.
- Lease generations and packet ids are naturals. 16-bit generations are compared
  wrap-safe, and a ride makes a few hundred claims; ids are 32 bits.
- Two cars with one 8-bit slot tag hide a clash from the maps. The instances use
  distinct tags; the rate is 1 in 255 for a pair.
- In *settles* it is assumed that a car in earshot of two clashing cars keeps hearing
  the same one (`Steady`). If the one judge of a pair hears them in turns, its map can
  shield both from losing a vote, and the clash lasts as long as that does.
- A car that joins later may break `LeasesApart` for a few seconds even without a loss,
  when its claim and a settled car's move cross. This is why `LeasesApart` is checked
  for a power-on and `SettlesInTime` for the rest, and why its theorem has
  `PoweredTogether`. Between the half second of the theorem and the second and a half of
  the run lies what is checked for three cars and not proved.
- TdmaRide: all cars are on one clock (who keeps it is Reference); the roster is never
  full, and there are more slots than cars (a car left without one, `schedule.cpp:384`,
  would take a ride of more cars than `MAX_RIDERS`, seen through others' maps); a step is one slot, so that two reads of the clock in one pass give one time.
- FrameFlood's `Transmit` sends no more frames within `Ttl + Life` than the table holds.
  `mesh.h` asserts as much for `SEEN_TTL_MS` alone, at 55 frames a second: enough if
  every car hears a frame at about the same time. Copies that come in as late as `Life`
  allows, at that rate, could fill the table of a lean board and evict an entry whose
  copies are still about; 55 frames a second of them all the time is the most that a
  full ride sends. Within the assumption no live entry is evicted, so the comparison of
  stamps in `mesh.cpp:94`, which is not wrap-safe, decides nothing.
- "Everyone within earshot already has it" (`mesh.h` on `SUPPRESS_AFTER`) is not a
  property of FrameFlood: copies of other cars say nothing of a neighbour that only we
  reach. `CarriedOn` therefore excepts the links of a car that gave up. It also speaks
  of cars that took the frame with hops left: one whose first copy came by the longer
  way, and has none, carries it no further, though a copy with hops left may follow.
- FrameFlood: an own frame that the radio refuses is one not sent; `LOST_MS` (no
  forwards while nobody is heard) is longer than any wait and is left out; forwards are
  all of one size.
- PhoneLane: a read's pop and the phone's receipt of it are one event, as for the code;
  `getFromRadio` and the hook that books a delivery are one step of the main task;
  `onRead` giving up its wait is left out, and so is a disconnect while a read waits;
  Meshtastic's other packets are texts and one car's LoRa position.
- Reference: no drift, and no error of a clock handed on. `rxMs` is the end of the
  frame, its 3 to 8 ms of air time are not taken off, and a stalled pass may send up to
  17 ms into its slot; the comment in `TougeFastModule.h:341-344` speaks of "up to
  SYNC_BIAS_MS of error per hop". Cars without a lease keep their place in the order of
  beacons; a car that was alone gains a lease after `Listen` seconds of company; faults
  come between two seconds.
- Two observations made with Reference, not stated as properties. A locked car without a
  lease wins the election although nobody can take the time from its beacons in the
  shared window, so the others go on as they are until it claims. And a restarted car of
  the lowest number that loses every direct beacon in its listen, but hears relayed
  ones, claims and starts an epoch of its own, to which the ride then moves: the guard
  `leasedInEarshot_` looks at direct beacons only. It takes three losses in a row.
- FastRelay: cars have distinct tags; frames do not collide; a beacon is one frame and a
  slot a tick; the age of relayed beacons (`Mesh::age`) and the threshold of 12 cars are
  not here (`src/README.md:101` still says 8; `FAST_RELAY_MIN_CARS` is 12,
  `fastrelay.h:122`; no ride of a run is that large). The judge's verdict is not composed with FrameFlood's flood.
- LoraLane: a seat is forgotten as soon as its packet has left the queue; the counters
  and the roster behind `loraOwned` and the share are inputs. `Restored` does not ask
  whether the rider is still on the roster and still a fast one
  (`TougeFastModule.cpp:1382-1383`): it was when its row was noted, and a rider is kept
  for far longer than a pass. The phone repeating an older fix after the receiver has
  spoken gets a number above it (`ownfix.cpp:37`); numbers, not measuring times, are what
  goes forward. Our own board does not restart: a receiver tells its next boot from this
  one by the session, which `NeverGoesBack` has for other cars.
- ReachRelay: what is sent arrives in its tick, through one relay at most; full tables,
  stock cars, unknown hops and `SUMMARY_STAMP_MAX_MS` are left out; `CarsKnown` never
  forgets a car, where `carsKnown` drops one not heard for `RIDER_DROP_MS`
  (`TougeFastModule.cpp:1192`), after which relays may be skipped without its claim;
  fixes older than the limit are a flag. A relay that loses a regular summary while the origin was quiet for
  one and a half to two and a half intervals learns of the loss only with the next
  regular one: the sender has cleared its claim and has no early summary to send. This
  is the widest allowance in `Allowed`.
- DroppedWrites: the two tasks' accesses interleave in program order, which release and
  acquire on the two counters ensure; writes are numbered as they are dropped; what is
  no packet has no id and is not pushed. A report taken with no phone there is lost, and
  a phone that reconnects within one pass may be told of its predecessor's writes.

## 6. Plan

In order of weight:

1. `LeasesApart` proved for cars that power on over more than half a second: the queue
   of a car that claims before it has heard a late one, and of the late one.
2. FrameFlood with FastRelay's verdict, on five cars.
3. A pass of the main loop at millisecond grain: the time read twice in `drainRadio` and
   `beacon`, and the air time in a clock that is handed on.
4. Reference composed with TdmaRide's leases, in place of leases that come and go by
   themselves.

### Not modelled

- Encodings and cryptography (`frame`, `cipher`, `hmac`, `sha256`, `ride`): pure
  functions over bytes, with host tests and published vectors. The contents of positions
  and batches.
- Channel hopping (`hop`): compiled, but off.
- The voice test, status lines, board pins, memory placement; the driver calls of
  `espnow`; the reading of the GNSS receiver.
- Patches that only set options or repair code outside the overlay; the host tests and
  the ride simulator (read for what is worth exploring); build, flashing and the web
  flasher.

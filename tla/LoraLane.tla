------------------------------- MODULE LoraLane -------------------------------
(***************************************************************************)
(* One board's LoRa side: its own fix and its turn to send it              *)
(* (touge/ownfix, touge/loraload), the positions in Meshtastic's TX queue  *)
(* (touge/lorapos, core-patches 0010 and 0014), and the rows a late LoRa   *)
(* position overwrites and the next pass writes back.                      *)
(*                                                                         *)
(* The queue holds packets already encrypted, so the module notes, in a    *)
(* small table of seats, which fix each position in it carries.  Packets   *)
(* come and go at any moment between two passes of the main loop; a packet *)
(* on the air is not in the queue.                                         *)
(*                                                                         *)
(* A tick is the longest the phone leaves between two writes of its fix.   *)
(* Ages are counted up to where they stop mattering and fix numbers are    *)
(* counted modulo SeqSpan, as the code's are modulo 2^32, so a run goes on *)
(* for ever.                                                               *)
(***************************************************************************)
EXTENDS LoraGrid, SequencesExt

CONSTANTS
    Cars,           \* the other cars
    Settings,       \* kinds of traffic about the board, each with:
    Traffic,        \* [setting]: what may be heard over LoRa: a car, a fix, hops left
    OnFast,         \* [setting]: the cars that may be heard on 2.4 GHz too
    Readings,       \* [setting]: where the phone, or our receiver, says we are
    Loads,          \* [setting]: traffic on the channel, as busy share times interval
    Rounds,         \* [setting]: bound: judgements counted since the traffic changed
    SeqSpan,        \* 2^32: fix numbers wrap here
    PhoneFresh,     \* PHONE_FRESH_MS, in ticks
    Stale,          \* STALE_MS
    Precedence,     \* FAST_PRECEDENCE_MS
    QueueLen,       \* MAX_TX_QUEUE
    MaxHops,
    RestoreSlots,   \* RESTORE_SLOTS
    MaxWait         \* bound: the longest from one send to the next, in ticks

ASSUME LaneAssumption ==
    /\ {SeqSpan, PhoneFresh, Stale, Precedence, QueueLen, MaxHops, RestoreSlots,
        MaxWait} \subseteq Nat \ {0}
    /\ PhoneFresh < Stale

VARIABLES
    setting,    \* which of Settings this is
    phone,      \* "gone", "due" or "written": is it there, has it written in this tick
    own,        \* ownFix_
    sent,       \* history: our last position to be handed to the queue
    wait,       \* nextLoraMs_, in ticks from now
    load,       \* loraLoad_: the interval, and that of the half minute before
    traffic,    \* what the cars put on the channel
    ran,        \* runOnce has run in this tick
    tags,       \* txPositions_: the seats of packets still in the queue
    queue,      \* the radio's TX queue
    air,        \* the packet on the air
    age,        \* of the last 2.4 GHz frame of each car (Rider::atMs)
    row,        \* whose position each car's NodeDB row holds: "fast" or "lora"
    restore     \* restore_

loadVars == <<load, traffic>>
fixVars == <<setting, phone, own, sent, wait, ran, loadVars>>
txVars == <<tags, queue, air>>
rowVars == <<age, row, restore>>
vars == <<fixVars, txVars, rowVars>>

Self == "self"
NoReading == "none"
Forgotten == Precedence + 1     \* a rider older than FAST_PRECEDENCE_MS

\* FixId: at is the measured time, 0 if it is not known; session 0 is a
\* stock sender's.
FixIds == [session : Nat, seq : 0 .. SeqSpan - 1, at : Nat]

ASSUME TrafficAssumption ==
    /\ Self \notin Cars
    /\ \A s \in Settings :
          /\ Traffic[s] \subseteq [from : Cars, fix : FixIds, hops : 0 .. MaxHops]
          /\ OnFast[s] \subseteq Cars /\ Loads[s] \subseteq Nat /\ Rounds[s] \in Nat
          /\ NoReading \notin Readings[s]

-----------------------------------------------------------------------------
(* Fixes and their order.                                                  *)

StockFix == [session |-> 0, seq |-> 0, at |-> 0]
OwnFixId(fix) == [session |-> 1, seq |-> fix.seq, at |-> 0]

\* Fault: the number decides, whoever's boot it counts in.
RankBySeq(incoming, held) ==
    CASE incoming.seq > held.seq -> "newer"
      [] incoming.seq = held.seq -> "same"
      [] OTHER -> "older"

\* rankFix: within a session the signed difference of the numbers; between
\* sessions the measured times, and with no time the newcomer.
RankFix(incoming, held) ==
    LET timed == incoming.at # 0 /\ held.at # 0
        later == timed /\ incoming.at > held.at
        ahead == (incoming.seq + SeqSpan - held.seq) % SeqSpan IN
    IF incoming.session = held.session
    THEN CASE ahead = 0 -> "same"
           [] ahead \in 1 .. SeqSpan \div 2 - 1 -> "newer"
           [] OTHER -> IF later THEN "newer" ELSE "older"
    ELSE IF ~timed \/ later THEN "newer" ELSE "older"

-----------------------------------------------------------------------------
(* TxPositions, and the queue it looks after.                              *)

NoPacket == [from |-> Self, id |-> 0, hops |-> 0, fix |-> StockFix]

InQueue(q, from, id) == \E i \in DOMAIN q : q[i].from = from /\ q[i].id = id

\* A packet id that nothing remembers; they do not come round sooner.
Ids == 1 .. QueueLen + 2
FreshId(from) ==
    CHOOSE i \in Ids : ~InQueue(queue, from, i) /\ ~(air.from = from /\ air.id = i)

\* A seat is free once its packet is no longer queued: nothing looks it up
\* there again.
OfQueued(noted, q) == {t \in noted : InQueue(q, t.from, t.id)}

\* Fault: no seat for the position on its way in.
OneSeatShort(from, id, fix) ==
    IF fix.session = 0 \/ Cardinality(tags) >= QueueLen THEN tags
    ELSE tags \union {[from |-> from, id |-> id, fix |-> fix]}

\* TxPositions::note: a free seat of the SLOTS there are, if there is one.
Noted(from, id, fix) ==
    IF fix.session = 0 \/ Cardinality(tags) >= QueueLen + 1 THEN tags
    ELSE tags \union {[from |-> from, id |-> id, fix |-> fix]}

\* TxPositions::find, in the table `noted`: the fix a packet was noted with.
Found(noted, p) == {t.fix : t \in {u \in noted : u.from = p.from /\ u.id = p.id}}

\* CompareMeshPacketFunc: our own position ahead of the relays.
Ahead(p, q) == p.from = Self /\ q.from # Self

Inserted(q, p) ==
    LET before == Cardinality({i \in DOMAIN q : ~Ahead(p, q[i])}) IN
    InsertAt(q, before + 1, p)

\* MeshPacketQueue::enqueue, the stock rules: a full queue gives up its last
\* packet to one that goes ahead of it, and turns away any other.
StockQueued(q, p) ==
    IF Len(q) < QueueLen THEN Inserted(q, p)
    ELSE IF Ahead(p, Last(q)) THEN Inserted(Front(q), p) ELSE q

\* TxPositions::place: the first queued packet of the same car that is noted.
Rival(noted, p) ==
    {i \in DOMAIN queue : /\ queue[i].from = p.from /\ queue[i].id # p.id
                          /\ Found(noted, queue[i]) # {}}

Replaces(noted, p, held) ==
    LET rank == RankFix(CHOOSE f \in Found(noted, p) : TRUE,
                        CHOOSE f \in Found(noted, held) : TRUE) IN
    rank = "newer" \/ (rank = "same" /\ p.hops > held.hops)

\* Fault: the newer position waits from when it came.
EnqueuedAtBack(noted, p) ==
    LET rival == Rival(noted, p) IN
    IF Found(noted, p) = {} \/ rival = {} THEN StockQueued(queue, p)
    ELSE IF Replaces(noted, p, queue[Min(rival)])
    THEN StockQueued(RemoveAt(queue, Min(rival)), p)
    ELSE queue

\* placeTxPacket and enqueue: a newer position takes the older one's place
\* and turn, an older one is turned away.
Enqueued(noted, p) ==
    LET rival == Rival(noted, p) IN
    IF Found(noted, p) = {} \/ rival = {} THEN StockQueued(queue, p)
    ELSE IF Replaces(noted, p, queue[Min(rival)])
    THEN [queue EXCEPT ![Min(rival)] = p]
    ELSE queue

-----------------------------------------------------------------------------
(* OwnFix.                                                                 *)

\* OwnFix::take: the next number if the reading is not the one held.
Taken(fix, reading) ==
    IF reading = fix.reading THEN fix
    ELSE [fix EXCEPT !.reading = reading, !.seq = (fix.seq + 1) % SeqSpan]

\* Fault: the receiver's reading goes out under the number of the phone's.
GnssUnnumbered(fix, reading) ==
    IF fix.phoneFed < PhoneFresh \/ reading \in {NoReading, fix.reading} THEN fix
    ELSE [fix EXCEPT !.reading = reading, !.fed = 0]

\* Fault: a phone that repeats its fix does not feed it, as if it were gone.
FedByNews(fix, reading) ==
    IF reading = fix.reading THEN [fix EXCEPT !.phoneFed = 0]
    ELSE [Taken(fix, reading) EXCEPT !.fed = 0, !.phoneFed = 0]

\* OwnFix::fromPhone: even a repeat says that the phone is there.
FromPhone(fix, reading) == [Taken(fix, reading) EXCEPT !.fed = 0, !.phoneFed = 0]

\* OwnFix::fromGnss: not while the phone's fix is fresh; a repeat is no news.
FromGnss(fix, reading) ==
    IF fix.phoneFed < PhoneFresh \/ reading = NoReading THEN fix
    ELSE IF reading = fix.reading THEN fix
    ELSE [Taken(fix, reading) EXCEPT !.fed = 0]

Fresh(fix) == fix.reading # NoReading /\ fix.fed < Stale

-----------------------------------------------------------------------------
Init ==
    /\ setting \in Settings
    /\ phone = "gone" /\ ran = FALSE /\ wait = 0
    /\ own = [seq |-> 0, reading |-> NoReading, fed |-> Stale, phoneFed |-> PhoneFresh]
    /\ sent = [fix |-> StockFix, reading |-> NoReading]
    /\ load = [before |-> Shortest, now |-> Shortest, judged |-> 0]
    /\ traffic \in Loads[setting]
    /\ tags = {} /\ queue = << >> /\ air = NoPacket
    /\ age = [c \in Cars |-> Forgotten] /\ row = [c \in Cars |-> "lora"]
    /\ restore = << >>

(* Between two passes. *)

PhoneComes ==
    /\ Readings[setting] # {}
    /\ phone = "gone" /\ phone' = "due"
    /\ UNCHANGED <<setting, own, sent, wait, ran, loadVars, txVars, rowVars>>

PhoneGoes ==
    /\ phone = "due" /\ phone' = "gone"
    /\ UNCHANGED <<setting, own, sent, wait, ran, loadVars, txVars, rowVars>>

\* notePhoneFix.
PhoneWrites ==
    /\ phone = "due" /\ phone' = "written"
    /\ \E reading \in Readings[setting] : own' = FromPhone(own, reading)
    /\ UNCHANGED <<setting, sent, wait, ran, loadVars, txVars, rowVars>>

\* Fault: the precedence never runs out.
FastForGood(c) == c \in OnFast[setting]

\* 2.4 GHz carries the car.
HeardOnFast(c) == age[c] < Precedence

\* Fault: the ring is written past its end.
RingOverrun(c) == Append(restore, c)

\* handleReceived: the newest is dropped when the ring is full.
Restoring(c) == IF Len(restore) < RestoreSlots THEN Append(restore, c) ELSE restore

\* handleReceived on another car's LoRa position, the modules after it, and
\* the relay the router queues unless another car or skipRelay spares it.
HearLora(c, fix, hops) ==
    LET id == FreshId(c)
        noted == IF hops = 0 THEN tags ELSE Noted(c, id, fix)
        relay == [from |-> c, id |-> id, hops |-> hops - 1, fix |-> fix] IN
    /\ \/ UNCHANGED queue
       \/ hops > 0 /\ queue' = Enqueued(noted, relay)
    /\ tags' = OfQueued(noted, queue')
    /\ row' = [row EXCEPT ![c] = "lora"]
    /\ restore' = IF HeardOnFast(c) THEN Restoring(c) ELSE restore
    /\ UNCHANGED <<fixVars, air, age>>

\* The radio takes the head of the queue.
StartSend ==
    /\ air = NoPacket /\ queue # << >>
    /\ air' = Head(queue) /\ queue' = Tail(queue)
    /\ tags' = OfQueued(tags, queue')
    /\ UNCHANGED <<fixVars, rowVars>>

\* completeSending; what noteLoraReleased counts is left out.
SendDone ==
    /\ air # NoPacket /\ air' = NoPacket
    /\ UNCHANGED <<fixVars, tags, queue, rowVars>>

(* runOnce. *)

\* reassertFastPositions.  That the rider is still a fast one is not asked: it
\* was when its row was noted, and it is not forgotten before the next pass.
Restored == [c \in Cars |-> IF Contains(restore, c) THEN "fast" ELSE row[c]]

\* loraBusyPermille: the last minute, half of it at the interval before.
Busy == Lower((traffic \div load.before + traffic \div load.now) \div 2, Whole)

\* LoraLoad::judge, at most once in half a minute (LORA_JUDGE_MS).
Judged ==
    [before |-> load.now, now |-> Judge(load.now, Busy),
     judged |-> Lower(load.judged + 1, Rounds[setting])]

\* sendLoraPosition, on a fix fed in time, once its turn has come.  The next
\* is more than half an interval away and at most one and a half.
SendLoraPosition(fix) ==
    IF Fresh(fix) /\ wait = 0
    THEN LET id == FreshId(Self)
             noted == Noted(Self, id, OwnFixId(fix))
             p == [from |-> Self, id |-> id, hops |-> MaxHops, fix |-> OwnFixId(fix)] IN
         /\ queue' = Enqueued(noted, p) /\ tags' = OfQueued(noted, queue')
         /\ load' \in {load, Judged}
         /\ wait' \in 1 .. MaxWait
         /\ sent' = [fix |-> OwnFixId(fix), reading |-> fix.reading]
    ELSE UNCHANGED <<tags, queue, wait, load, sent>>

\* One pass: the receiver's reading, the rows written back, the position if
\* it is due, then the cars whose 2.4 GHz frames it drains.
RunOnce ==
    /\ ~ran /\ ran' = TRUE
    /\ \E reading \in Readings[setting] \union {NoReading} :
          LET fix == FromGnss(own, reading) IN own' = fix /\ SendLoraPosition(fix)
    /\ \E cars \in SUBSET OnFast[setting] :
          /\ age' = [c \in Cars |-> IF c \in cars THEN 0 ELSE age[c]]
          /\ row' = [c \in Cars |-> IF c \in cars THEN "fast" ELSE Restored[c]]
    /\ restore' = << >>
    /\ UNCHANGED <<setting, phone, traffic, air>>

\* Cars come and go on the channel, once the interval has had its rounds.
TrafficChanges ==
    /\ load.judged = Rounds[setting]
    /\ traffic' \in Loads[setting] \ {traffic}
    /\ load' = [load EXCEPT !.judged = 0]
    /\ UNCHANGED <<setting, phone, own, sent, wait, ran, txVars, rowVars>>

Older(n, limit) == IF n < limit THEN n + 1 ELSE limit

\* Time passes: a phone that is there has written, and the loop has run.
Tick ==
    /\ ran /\ phone # "due"
    /\ ran' = FALSE
    /\ phone' = IF phone = "gone" THEN "gone" ELSE "due"
    /\ own' = [own EXCEPT !.fed = Older(own.fed, Stale),
                          !.phoneFed = Older(own.phoneFed, PhoneFresh)]
    /\ wait' = IF wait = 0 THEN 0 ELSE wait - 1
    /\ age' = [c \in Cars |-> Older(age[c], Forgotten)]
    /\ UNCHANGED <<setting, sent, loadVars, txVars, row, restore>>

Next ==
    \/ PhoneComes \/ PhoneGoes \/ PhoneWrites
    \/ \E t \in Traffic[setting] : HearLora(t.from, t.fix, t.hops)
    \/ StartSend \/ SendDone
    \/ RunOnce \/ Tick \/ TrafficChanges

\* The main loop and the radio get on with it; a phone that stays writes, and
\* time passes.  Nothing is asked of the phone's presence or of other cars.
Fairness ==
    /\ WF_vars(RunOnce) /\ WF_vars(Tick) /\ WF_vars(PhoneWrites)
    /\ WF_vars(StartSend) /\ WF_vars(SendDone)

Spec == Init /\ [][Next]_vars /\ Fairness

-----------------------------------------------------------------------------
(* Properties.                                                             *)

\* The lane keeps its shape: queue, ring and ages within their sizes, and
\* every packet under an id of its own.
TypeOK ==
    /\ phone \in {"gone", "due", "written"} /\ ran \in BOOLEAN /\ wait \in 0 .. MaxWait
    /\ own.seq \in 0 .. SeqSpan - 1 /\ own.reading \in Readings[setting] \union {NoReading}
    /\ own.fed \in 0 .. Stale /\ own.phoneFed \in 0 .. PhoneFresh
    /\ {load.before, load.now} \subseteq Intervals /\ load.judged \in 0 .. Rounds[setting]
    /\ Len(queue) <= QueueLen
    /\ \A i \in DOMAIN queue : queue[i].id \in Ids /\ queue[i].hops \in 0 .. MaxHops
    /\ \A i, j \in DOMAIN queue :
          queue[i].from = queue[j].from /\ queue[i].id = queue[j].id => i = j
    /\ Len(restore) <= RestoreSlots
    /\ age \in [Cars -> 0 .. Forgotten] /\ row \in [Cars -> {"fast", "lora"}]

IsPosition(p) == p.fix.session # 0

\* Each car has at most one position in the TX queue, whatever the order its
\* positions come in and however full the table of seats is (lorapos.h, 5c):
\* the seat of a queued position is never given away.
OnePerCar ==
    \A i, j \in DOMAIN queue :
        IsPosition(queue[i]) /\ IsPosition(queue[j]) /\ queue[i].from = queue[j].from => i = j

Positions(q, c) == {i \in DOMAIN q : q[i].from = c /\ IsPosition(q[i])}
Others(q, c) == {i \in DOMAIN q : q[i].from # c}

\* A car that knows the time numbers its fixes as it measures them; it would
\* take years to come half the numbers round (frame.h:134).
CarsKeepTime(heard) ==
    \A t, u \in heard :
        t.from = u.from /\ t.fix.session # 0 /\ u.fix.session # 0 =>
            /\ t.fix.at # 0
            /\ t.fix.session = u.fix.session /\ t.fix.at < u.fix.at =>
                  (u.fix.seq + SeqSpan - t.fix.seq) % SeqSpan \in 1 .. SeqSpan \div 2 - 1

\* While a car has a position queued it is never replaced by one measured
\* earlier, over reboots of that car and positions that overtake one another.
NeverGoesBack ==
    [][\A c \in Cars :
          \A i \in Positions(queue, c), j \in Positions(queue', c) :
              queue[i].fix.at <= queue'[j].fix.at]_vars

\* A queued position keeps its turn however often its car sends: the packets
\* of other cars ahead of it only become fewer (our own position aside).
TurnKept ==
    [][\A c \in Cars :
          \A i \in Positions(queue, c), j \in Positions(queue', c) :
              Cardinality({k \in Others(queue', c) : k < j /\ queue'[k].from # Self}) <=
              Cardinality({k \in Others(queue, c) : k < i /\ queue[k].from # Self})]_vars

\* Where the ring has no room for a row, it is an older one's that is given up
\* (TougeFastModule.h:225-226: "A full ring drops the oldest").
FullRingDropsOldest ==
    [][\A c \in Cars :
          row[c] = "fast" /\ row'[c] = "lora" /\ HeardOnFast(c) => Contains(restore', c)]_vars

\* "The moment 2.4 GHz stops carrying a car, LoRa has to take over without a
\* gap" (handleReceived): a LoRa row gives way to an old 2.4 GHz position only
\* if it came while 2.4 GHz carried the car, never later.
LoraTakesOver ==
    [][\A c \in Cars : row[c] = "lora" /\ row'[c] = "fast" => age'[c] <= Precedence]_vars

\* Nobody takes a position of ours for an older one than our last, or for the
\* same when we are elsewhere, though phone and receiver take turns and their
\* fixes share one run of numbers that comes round (ownfix.h, rankFix).
OwnGoesForward ==
    [][LET rank == RankFix(sent'.fix, sent.fix) IN
       rank = "newer" \/ (rank = "same" /\ sent'.reading = sent.reading)]_vars

\* Half a minute between steps keeps the interval from chasing its own lag
\* (loraload.h): whatever it was when the traffic changed, and although the
\* measured minute still counts the interval before, it comes to rest.
IntervalSettles == load.judged = Rounds[setting] => load.before = load.now

\* As long as the phone stays, our position goes out again and again, even a
\* parked phone's that repeats one fix, and whatever is to be relayed.
OwnKeepsGoing ==
    <>[](phone # "gone") => []<>(air # NoPacket /\ air.from = Self)
=============================================================================

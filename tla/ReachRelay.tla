------------------------------ MODULE ReachRelay ------------------------------
(***************************************************************************)
(* Which LoRa relays a ride leaves out, and on what evidence (touge/reach, *)
(* touge/relaypref).                                                       *)
(*                                                                         *)
(* Each car keeps, for every origin, how it last heard that origin's       *)
(* position, tells the others in a summary with every so many positions of *)
(* its own, and keeps what their summaries say.  A car skips a relay once  *)
(* every other car claims to hear the origin steadily and directly.  A car *)
(* that then loses the origin says so in an early summary, and once more;  *)
(* any summary may be lost.                                                *)
(*                                                                         *)
(* A tick is a part of the send interval, and each car sends in a tick of  *)
(* its own.  What is sent arrives within the tick: a position directly, or *)
(* through one relay, or not at all.                                       *)
(***************************************************************************)
EXTENDS Naturals, FiniteSets, FiniteSetsExt

CONSTANTS
    Cars,
    Rank,           \* [car]: its share of the interval, and its slot in every table
    Settings,       \* kinds of ride, each with:
    Riders,         \* [setting]: its cars
    Unlinked,       \* [setting]: pairs whose second never hears the first
    Faulty,         \* [setting]: pairs whose second may stop hearing the first
    Lossy,          \* [setting]: pairs whose second may lose the first's summaries
    Restarting,     \* [setting]: cars that may be restarted
    Aging,          \* [setting]: origins whose fixes may arrive older than PREFER_MAX_AGE_MS
    Restarts,       \* bound: restarts in a ride
    Interval,       \* loraLoad_.intervalMs(), in ticks
    EveryPositions, \* REACH_EVERY_POSITIONS
    PerSummary,     \* REACH_PER_SUMMARY
    Keep,           \* REACH_KEEP_MS, in ticks
    SteadyFixes,    \* REACH_STEADY_FIXES
    PreferSlots     \* PREFER_SLOTS

ASSUME RideAssumption ==
    /\ {Interval, EveryPositions, PerSummary, Keep, SteadyFixes, PreferSlots} \subseteq Nat \ {0}
    /\ Restarts \in Nat
    /\ Rank \in [Cars -> 0 .. Interval - 1]
    /\ \A c, d \in Cars : Rank[c] = Rank[d] => c = d
    /\ "none" \notin Cars
    /\ \A s \in Settings : Riders[s] \subseteq Cars /\ Restarting[s] \subseteq Cars

VARIABLES
    setting,    \* which of Settings this is
    tick,       \* of the interval
    aired,      \* the position due in this tick has been sent
    sent,       \* [car]: lorasSent_, modulo EveryPositions
    restarts,   \* how many cars have been restarted
    cut,        \* the pairs whose second does not hear the first now
    table,      \* [car][origin]: the slots of reach_
    cursor,     \* [car]: cursor_
    early,      \* [car]: ticks since lastEarlyMs_ and to earlyAtMs_
    stamp,      \* [car][reporter]: ticks since summaryAt_
    said,       \* [car][reporter][origin]: claimedBy_, with the ticks since it was said
    known,      \* [car]: the cars its NodeDB has heard lately
    prefs,      \* [car][origin]: relayPrefs_, ticks to untilMs
    skipped,    \* history, [car][origin]: positions in a row that skipped relays kept from it
    lost,       \* history, [car][reporter][origin]: what it lost of the latest word
    carried     \* history, [car][origin]: ticks since its relay of one got anywhere first

airVars == <<setting, tick, aired, sent, restarts, cut>>
ownVars == <<table, cursor, early>>
wordVars == <<stamp, said, known, prefs>>
history == <<skipped, lost, carried>>
vars == <<airVars, ownVars, wordVars, history>>

Others(c) == Riders[setting] \ {c}
Lower(a, b) == IF a < b THEN a ELSE b
Higher(a, b) == IF a > b THEN a ELSE b

\* The times that are counted in intervals.
Missed == (Interval * 3) \div 2
Quiet == (Interval * 5) \div 2
Repeat == 2 * Interval
Recent == 3 * Interval
Hold == (EveryPositions * Interval * 5) \div 2     \* summaryHoldMs
OverHold == Hold + 1                               \* older than that
Unsaid == Hold + 2                                 \* never said

-----------------------------------------------------------------------------
(* What a car has heard of an origin.                                      *)

Direct == 0
Relayed == 1

NoSlot == [age |-> Keep, streak |-> 0, hops |-> Relayed, via |-> "none", old |-> FALSE,
           relayed |-> FALSE, claimed |-> FALSE, pending |-> FALSE, told |-> FALSE]

Fresh(slot) == slot.age < Keep

\* Fault: three bits are not enough for the count.
StreakUncapped(slot, hops) ==
    CASE hops # Direct -> 0
      [] hops = Direct /\ (~Fresh(slot) \/ slot.age > Missed) -> 1
      [] OTHER -> slot.streak + 1

\* Positions in a row first heard directly, none missed between them; no more
\* of them are counted than it takes to be steady.
Streak(slot, hops) ==
    CASE hops # Direct -> 0
      [] hops = Direct /\ (~Fresh(slot) \/ slot.age > Missed) -> 1
      [] OTHER -> Lower(slot.streak + 1, SteadyFixes)

\* Reach::heard: twice through a relay, though we claimed it steady, is worth
\* an early summary; heard at all, its loss needs no repeat.
HeardSlot(slot, hops, via, old) ==
    [age |-> 0, hops |-> hops, via |-> via, old |-> old, streak |-> Streak(slot, hops),
     relayed |-> hops # Direct, claimed |-> slot.claimed,
     pending |-> hops # Direct /\ (slot.pending \/ (slot.claimed /\ slot.relayed)),
     told |-> FALSE]

\* Fault: as many positions as are wanted are not enough.
SteadyOneShort(slot) ==
    slot.streak > SteadyFixes /\ slot.hops = Direct /\ slot.age <= Missed

\* Reach::steady.
Steady(slot) == slot.streak >= SteadyFixes /\ slot.hops = Direct /\ slot.age <= Missed

\* Reach::takeSummary: the next origins from where the last one stopped, in
\* the order of the table.
Reportable(c) == {o \in Others(c) : Fresh(table[c][o])}

FirstOf(origins) ==
    {o \in origins : Cardinality({p \in origins : Rank[p] < Rank[o]}) < PerSummary}

Listed(c) ==
    LET ahead == {o \in Reportable(c) : Rank[o] >= cursor[c]} IN
    FirstOf(IF ahead = {} THEN Reportable(c) ELSE ahead)

CursorAfter(c, listed) ==
    LET more == {o \in Reportable(c) : \A p \in listed : Rank[o] > Rank[p]} IN
    IF more = {} \/ listed = {} THEN 0
    ELSE CHOOSE n \in 0 .. Interval : \E o \in more : Rank[o] = n /\ \A p \in more : Rank[p] >= n

SummedUp(slot) ==
    [slot EXCEPT !.claimed = Steady(slot), !.pending = FALSE, !.told = FALSE]

\* Fault: an early summary is never followed by a repeat.
SaidOnce(slot) ==
    [slot EXCEPT !.claimed = Steady(slot), !.pending = FALSE, !.told = FALSE]

\* Reach::takeEarlySummary: the first about a loss is followed by one repeat.
SaidEarly(slot) ==
    [slot EXCEPT !.claimed = Steady(slot), !.pending = FALSE, !.told = ~slot.told]

\* Reach::earlyDue, its marks, on a slot as old as it is now.
Marked(slot, sinceEarly) ==
    IF /\ Fresh(slot)
       /\ (slot.claimed /\ slot.age > Quiet) \/ (slot.told /\ sinceEarly >= Repeat)
    THEN [slot EXCEPT !.pending = TRUE] ELSE slot

Pending(slots) == {o \in Cars : Fresh(slots[o]) /\ slots[o].pending}

NotDue == Interval + 1
NotScheduled == [since |-> Repeat, at |-> NotDue]

-----------------------------------------------------------------------------
(* What the others say.                                                    *)

\* Reach::claim.
Claim(c, car, origin) ==
    CASE ~Fresh(table[c][car]) \/ stamp[c][car] = Unsaid -> "unproven"
      [] Fresh(table[c][car]) /\ stamp[c][car] = OverHold -> "stale"
      [] OTHER -> IF Fresh(table[c][origin]) /\ said[c][car][origin] # Unsaid
                  THEN "steady" ELSE "not steady"

\* carsKnown: every car its NodeDB has heard lately, on either radio.
CarsKnown(c, origin) == known[c] \ {c, origin}

\* relayVerdict and judgeRelay: SKIP, or one of the reasons to relay.
Skips(c, origin) == \A car \in CarsKnown(c, origin) : Claim(c, car, origin) = "steady"

\* Fault: worse delivery through us renews a preference too.
NeverWithdrawn(pref, origin, good) ==
    IF good \/ pref[origin] > 0 THEN [pref EXCEPT ![origin] = Hold] ELSE pref

\* RelayPrefs::consider, on a summary that got the origin through us: worse
\* delivery ends the preference, good delivery grants or renews it, in place
\* of the one that lapses first if there is no room.
Considered(pref, origin, good) ==
    LET held == {o \in Cars : pref[o] > 0}
        soonest == CHOOSE o \in held : \A p \in held : pref[o] <= pref[p] IN
    CASE ~good -> [pref EXCEPT ![origin] = 0]
      [] good /\ (origin \in held \/ Cardinality(held) < PreferSlots) ->
            [pref EXCEPT ![origin] = Hold]
      [] OTHER -> [pref EXCEPT ![soonest] = 0, ![origin] = Hold]

\* The entries of c's summary that are about d's relaying, one by one in the
\* order of the table.
Preferring(tables, d, c, listed) ==
    LET ours == {o \in listed \ {d} : tables[c][o].hops = Relayed /\ tables[c][o].via = d}
        good(o) == /\ tables[d][o].age < Recent /\ tables[c][o].age <= Recent
                   /\ ~tables[c][o].old
        ranked(n) == {o \in ours : Rank[o] = n}
        after[n \in 0 .. Interval] ==
            IF n = 0 THEN prefs[d]
            ELSE IF ranked(n - 1) = {} THEN after[n - 1]
            ELSE LET o == CHOOSE o \in ranked(n - 1) : TRUE IN
                 Considered(after[n - 1], o, good(o)) IN
    after[Interval]

\* Reach::noteSummary's bits at d, for a summary of c.
Claims(tables, d, c, listed) ==
    [o \in Cars |-> CASE o \notin listed \/ ~Fresh(tables[d][o]) -> said[d][c][o]
                      [] OTHER -> IF Steady(tables[c][o]) THEN 0 ELSE Unsaid]

\* A summary of c on the air, with the tables as they are then.
Tell(tables, c, listed, full) ==
    \E losing \in SUBSET {d \in Others(c) : <<c, d>> \in Lossy[setting] /\ listed # {}} :
        LET got == IF listed = {} THEN {} ELSE Others(c) \ losing
            takes == {d \in got : Fresh(tables[d][c])} IN
        /\ stamp' = [d \in Cars |->
              IF full /\ d \in takes THEN [stamp[d] EXCEPT ![c] = 0] ELSE stamp[d]]
        /\ said' = [d \in Cars |->
              IF d \in takes THEN [said[d] EXCEPT ![c] = Claims(tables, d, c, listed)]
              ELSE said[d]]
        /\ prefs' = [d \in Cars |->
              IF d \in got THEN Preferring(tables, d, c, listed) ELSE prefs[d]]
        /\ lost' = [d \in Cars |->
              IF d \notin losing \union got THEN lost[d]
              ELSE [lost[d] EXCEPT ![c] = [o \in Cars |->
                       CASE o \notin listed -> lost[d][c][o]
                         [] o \in listed /\ d \in got -> 0
                         [] OTHER -> Lower(lost[d][c][o] + (IF full THEN 2 ELSE 1), 3)]]]

-----------------------------------------------------------------------------
Init ==
    /\ setting \in Settings
    /\ tick = 0 /\ aired = FALSE /\ sent = [c \in Cars |-> 0] /\ restarts = 0 /\ cut = {}
    /\ table = [c \in Cars |-> [o \in Cars |-> NoSlot]]
    /\ cursor = [c \in Cars |-> 0] /\ early = [c \in Cars |-> NotScheduled]
    /\ stamp = [c \in Cars |-> [d \in Cars |-> Unsaid]]
    /\ said = [c \in Cars |-> [d \in Cars |-> [o \in Cars |-> Unsaid]]]
    /\ known = [c \in Cars |-> {}]
    /\ prefs = [c \in Cars |-> [o \in Cars |-> 0]]
    /\ skipped = [c \in Cars |-> [o \in Cars |-> 0]]
    /\ lost = [c \in Cars |-> [d \in Cars |-> [o \in Cars |-> 0]]]
    /\ carried = [c \in Cars |-> [o \in Cars |-> Hold + Recent + 1]]

Hears(c, from) == c # from /\ <<from, c>> \notin Unlinked[setting] \union cut

\* Relays of a preferred car go ahead of the others' (relayEarly), which then
\* drop theirs.
FirstRelays(c, relays) ==
    LET near == {r \in relays : Hears(c, r)}
        ahead == {r \in near : prefs[r][c] > 0} IN
    IF ahead = {} THEN near ELSE ahead

\* Bound: counted up to the longest a skip may last.
SkipLimit == Hold \div Interval + 3

\* sendLoraPosition in o's share of the interval, up to the cars that hear it:
\* noteLoraReach, then skipRelay.  Every EveryPositions-th goes with a summary.
SendPosition(o) ==
    /\ tick = Rank[o] /\ ~aired /\ o \in Riders[setting]
    /\ aired' = TRUE
    /\ sent' = [sent EXCEPT ![o] = (sent[o] + 1) % EveryPositions]
    /\ LET near == {c \in Others(o) : Hears(c, o)}
           relays == {r \in near : ~Skips(r, o)}
           first == [c \in Others(o) \ near |-> FirstRelays(c, relays)]
           far == {c \in DOMAIN first : first[c] # {}}
           kept == {c \in DOMAIN first \ far : \E r \in near : Hears(c, r) /\ c \in known[r]} IN
       \E via \in {f \in [far -> relays] : \A c \in far : f[c] \in first[c]},
          old \in {FALSE} \union (IF o \in Aging[setting] THEN {TRUE} ELSE {}) :
          LET heard == [c \in Cars |->
                 CASE c \in near -> [table[c] EXCEPT ![o] = HeardSlot(@, Direct, "none", old)]
                   [] c \in far -> [table[c] EXCEPT ![o] = HeardSlot(@, Relayed, via[c], old)]
                   [] OTHER -> table[c]]
              listed == IF sent'[o] = Rank[o] % EveryPositions THEN Listed(o) ELSE {} IN
          /\ table' = [heard EXCEPT ![o] = [p \in Cars |->
                          IF p \in listed THEN SummedUp(heard[o][p]) ELSE heard[o][p]]]
          /\ cursor' = IF listed = {} THEN cursor ELSE [cursor EXCEPT ![o] = CursorAfter(o, listed)]
          /\ Tell(heard, o, listed, TRUE)
          /\ known' = [c \in Cars |-> IF c \in near \union far THEN known[c] \union {o} ELSE known[c]]
          /\ skipped' = [c \in Cars |->
                CASE c \in near \union far -> [skipped[c] EXCEPT ![o] = 0]
                  [] c \in kept -> [skipped[c] EXCEPT ![o] = Lower(@ + 1, SkipLimit)]
                  [] OTHER -> skipped[c]]
          /\ carried' = [r \in Cars |->
                IF \E c \in far : via[c] = r THEN [carried[r] EXCEPT ![o] = 0] ELSE carried[r]]
    /\ UNCHANGED <<setting, tick, restarts, cut, early>>

Due(c) == early[c].at = 0 /\ Pending(table[c]) # {}

\* sendEarlySummary, once it is due.
SendEarly(c) ==
    /\ c \in Riders[setting] /\ Due(c)
    /\ LET listed == FirstOf(Pending(table[c])) IN
       /\ table' = [table EXCEPT ![c] = [o \in Cars |->
                       IF o \in listed THEN SaidEarly(table[c][o]) ELSE table[c][o]]]
       /\ Tell(table, c, listed, FALSE)
    /\ early' = [early EXCEPT ![c] = [since |-> 0, at |-> NotDue]]
    /\ UNCHANGED <<airVars, cursor, known, skipped, carried>>

Older(n, limit) == IF n < limit THEN n + 1 ELSE n

Aged(slot) == IF slot.age + 1 >= Keep THEN NoSlot ELSE [slot EXCEPT !.age = slot.age + 1]

\* earlyDue's schedule, besides a random part of a quarter interval: not within
\* an interval of the last early summary.
EarliestEarly(since) == IF since >= Interval THEN 0 ELSE Interval - since

\* Time passes: what is due has been sent.  An origin not heard for Keep is
\* forgotten, with what it said and what was said of it.
Tick ==
    /\ \A c \in Riders[setting] : ~Due(c) /\ (Rank[c] = tick => aired)
    /\ tick' = (tick + 1) % Interval /\ aired' = FALSE
    /\ LET since == [c \in Cars |-> Older(early[c].since, Repeat)]
           slots == [c \in Cars |-> [o \in Cars |-> Marked(Aged(table[c][o]), since[c])]] IN
       /\ table' = slots
       /\ \E delay \in [{c \in Cars : early[c].at = NotDue /\ Pending(slots[c]) # {}}
                        -> 0 .. Interval \div 4] :
             early' = [c \in Cars |->
                [since |-> since[c],
                 at |-> CASE Pending(slots[c]) = {} -> NotDue
                          [] c \in DOMAIN delay -> Higher(delay[c], EarliestEarly(since[c]))
                          [] OTHER -> IF early[c].at = 0 THEN 0 ELSE early[c].at - 1]]
       /\ stamp' = [c \in Cars |-> [d \in Cars |->
             IF Fresh(slots[c][d]) THEN Older(stamp[c][d], OverHold) ELSE Unsaid]]
       /\ said' = [c \in Cars |-> [d \in Cars |-> [o \in Cars |->
             IF Fresh(slots[c][d]) /\ Fresh(slots[c][o]) THEN Older(said[c][d][o], OverHold)
             ELSE Unsaid]]]
    /\ prefs' = [c \in Cars |-> [o \in Cars |-> IF prefs[c][o] = 0 THEN 0 ELSE prefs[c][o] - 1]]
    /\ carried' = [c \in Cars |-> [o \in Cars |-> Older(carried[c][o], Hold + Recent + 1)]]
    /\ UNCHANGED <<setting, sent, restarts, cut, cursor, known, skipped, lost>>

\* Bound: links change, and cars restart, at the start of an interval, so that
\* each of a car's positions finds them one way or the other.
LinkChanges ==
    /\ tick = 0 /\ ~aired
    /\ \E pair \in Faulty[setting] :
          cut' = IF pair \in cut THEN cut \ {pair} ELSE cut \union {pair}
    /\ UNCHANGED <<setting, tick, aired, sent, restarts, ownVars, wordVars, history>>

\* A restart: reach_ and relayPrefs_ are gone; NodeDB's cars are known again
\* at once if the radio has the time, and as they are heard if not.
Restart(c) ==
    /\ tick = 0 /\ ~aired /\ restarts < Restarts
    /\ restarts' = restarts + 1
    /\ sent' = [sent EXCEPT ![c] = 0]
    /\ table' = [table EXCEPT ![c] = [o \in Cars |-> NoSlot]]
    /\ cursor' = [cursor EXCEPT ![c] = 0] /\ early' = [early EXCEPT ![c] = NotScheduled]
    /\ stamp' = [stamp EXCEPT ![c] = [d \in Cars |-> Unsaid]]
    /\ said' = [said EXCEPT ![c] = [d \in Cars |-> [o \in Cars |-> Unsaid]]]
    /\ prefs' = [prefs EXCEPT ![c] = [o \in Cars |-> 0]]
    /\ \E cars \in {{}, known[c]} : known' = [known EXCEPT ![c] = cars]
    /\ UNCHANGED <<setting, tick, aired, cut, history>>

Next ==
    \/ \E c \in Riders[setting] : SendPosition(c) \/ SendEarly(c)
    \/ Tick \/ LinkChanges
    \/ \E c \in Restarting[setting] : Restart(c)

\* Time goes on, and with it what is due is sent; nothing is asked of links,
\* summaries or restarts.
Fairness == []<><<tick' # tick>>_tick

Spec == Init /\ [][Next]_vars /\ Fairness

-----------------------------------------------------------------------------
(* Properties.                                                             *)

\* The tables keep their shape, and a car prefers no more origins than it has
\* room for.
TypeOK ==
    /\ tick \in 0 .. Interval - 1 /\ cut \subseteq Faulty[setting]
    /\ \A c, o \in Cars :
          /\ table[c][o].age \in 0 .. Keep /\ table[c][o].streak \in 0 .. SteadyFixes
          /\ table[c][o].via \in Cars \union {"none"}
          /\ stamp[c][o] \in 0 .. Unsaid /\ prefs[c][o] \in 0 .. Hold
          /\ o = c \/ o \notin Riders[setting] => table[c][o] = NoSlot
    /\ \A c \in Cars :
          /\ early[c].since \in 0 .. Repeat /\ early[c].at \in 0 .. NotDue
          /\ sent[c] \in 0 .. EveryPositions - 1 /\ cursor[c] \in 0 .. Interval
          /\ Cardinality({o \in Cars : prefs[c][o] > 0}) <= PreferSlots

\* What the cars that could have relayed for c missed of its word on o: an
\* early summary counts one, a full one two.
Misheard(c, o) ==
    LET all == {lost[r][c][o] : r \in Others(c) \ {o}} IN
    IF all = {} THEN 0 ELSE Max(all)

Allowed(misheard) ==
    CASE misheard = 0 -> 3
      [] misheard = 1 -> 5
      [] misheard = 2 -> EveryPositions + 3
      [] OTHER -> SkipLimit - 1

\* A car that stops hearing an origin gets relays again from a car that knows
\* it within three positions; within five if its early summary was lost, by
\* the repeat.  A full summary that comes in place of the early one and is
\* lost costs it a whole round of summaries, and beyond that its last word has
\* aged.  So it is too when the relay is restarted (reach.h, SCALE-PLAN 5f).
NobodyCutOff ==
    [][\A c \in Riders[setting] : \A o \in Others(c) :
          skipped'[c][o] > skipped[c][o] => skipped'[c][o] <= Allowed(Misheard(c, o))]_vars

\* A preference does not outlive what earned it: an origin is relayed early only
\* while a position of it first got to some car through us within the time
\* a summary may look back and the time a grant lasts.
PreferenceEarned ==
    \A c, o \in Cars : prefs[c][o] > 0 => carried[c][o] <= Hold + Recent

\* A relay is skipped only on claims as fresh as the window (relaypref.h:57-58).
SkipsOnFreshClaims ==
    \A c \in Riders[setting] : \A o \in Others(c) :
        Skips(c, o) => \A car \in CarsKnown(c, o) : said[c][car][o] <= Hold

AllWell ==
    /\ Unlinked[setting] = {} /\ cut = {}
    /\ \A c \in Riders[setting] : \A d, o \in Others(c) : lost[c][d][o] = 0

AllSpared == \A c \in Riders[setting] : \A o \in Others(c) : Skips(c, o)

\* On a ride where everybody hears everybody the relays are left out in the
\* end, whatever was lost before, unless something goes wrong again.
RelaysSpared == AllWell ~> (AllSpared \/ ~AllWell)
=============================================================================

-------------------------- MODULE ReachRelayProofs --------------------------
(* The tables and the relay preferences of any ride: they keep their shape  *)
(* whatever is lost, cut or restarted, and a preference is always earned.   *)
EXTENDS ReachRelay, FiniteSetTheorems, WellFoundedInduction, TLAPS

LEMMA Least == \A T \in SUBSET Nat : T # {} => \E x \in T : \A y \in T : x <= y
<1> SUFFICES ASSUME NEW T \in SUBSET Nat, NEW t \in T PROVE \E x \in T : \A y \in T : x <= y
  OBVIOUS
<1> DEFINE W == {S \in SUBSET (0 .. t) : \E x \in T : S = 0 .. x}
           R == StrictSubsetOrdering(0 .. t)
<1>1. W \subseteq FiniteSubsetsOf(0 .. t)
  BY FS_Interval, FS_FiniteSubsetsOfFinite
<1>2. 0 .. t \in W
  OBVIOUS
<1>3. IsWellFoundedOn(R, FiniteSubsetsOf(0 .. t))
  BY FS_StrictSubsetOrderingWellFounded
<1>4. PICK S \in W : \A U \in W : ~(<<U, S>> \in R)
  <2> HIDE DEF R, W
  <2> QED BY <1>1, <1>2, <1>3, WFMin
<1>5. PICK x \in T : S = 0 .. x
  OBVIOUS
<1>6. ASSUME NEW y \in T, y < x PROVE FALSE
  <2>1. 0 .. y \subseteq 0 .. x /\ 0 .. y # 0 .. x
    BY <1>6
  <2>2. 0 .. y \in W
    BY <2>1, <1>5
  <2> QED BY <2>1, <2>2, <1>4, <1>5 DEF StrictSubsetOrdering
<1> QED BY <1>6

-----------------------------------------------------------------------------
(* The inductive invariant.                                                *)

SlotStates ==
    [age : 0 .. Keep, streak : 0 .. SteadyFixes, hops : {Direct, Relayed},
     via : Cars \union {"none"}, old : BOOLEAN, relayed : BOOLEAN, claimed : BOOLEAN,
     pending : BOOLEAN, told : BOOLEAN]

Tables == [Cars -> [Cars -> SlotStates]]

\* No table has a slot for its own car, or for one that does not ride.
Vacant(tables) ==
    \A c, o \in Cars : o = c \/ o \notin Riders[setting] => tables[c][o] = NoSlot

\* A relay that a table names carried that position no earlier than it says.
Relays(tables, since) ==
    \A c, o \in Cars : tables[c][o].hops = Relayed /\ tables[c][o].via \in Cars =>
        since[tables[c][o].via][o] <= tables[c][o].age

InRoom(pref) == Cardinality({o \in Cars : pref[o] > 0}) <= PreferSlots

\* A preference lapses before what earned it is out of sight.
Lapsing(pref, since) ==
    \A c, o \in Cars : pref[c][o] > 0 => since[c][o] + pref[c][o] <= Recent + Hold

Shape ==
    /\ setting \in Settings /\ tick \in 0 .. Interval - 1
    /\ sent \in [Cars -> 0 .. EveryPositions - 1] /\ cut \subseteq Faulty[setting]
    /\ cursor \in [Cars -> 0 .. Interval]
    /\ early \in [Cars -> [since : 0 .. Repeat, at : 0 .. NotDue]]
    /\ stamp \in [Cars -> [Cars -> 0 .. Unsaid]]

Evidence ==
    /\ table \in Tables /\ Vacant(table)
    /\ carried \in [Cars -> [Cars -> 0 .. Hold + Recent + 1]]
    /\ Relays(table, carried)

Preferred ==
    /\ prefs \in [Cars -> [Cars -> 0 .. Hold]] /\ \A c \in Cars : InRoom(prefs[c])
    /\ Lapsing(prefs, carried)

IInv == Shape /\ Evidence /\ Preferred

-----------------------------------------------------------------------------
(* Numbers and slots.                                                      *)

LEMMA Numbers ==
    /\ {Interval, EveryPositions, PerSummary, Keep, SteadyFixes, PreferSlots} \subseteq Nat \ {0}
    /\ Hold \in Nat /\ Recent \in Nat /\ Repeat \in Nat /\ Missed \in Nat /\ Quiet \in Nat
    /\ Unsaid = OverHold + 1 /\ OverHold \in Nat /\ Unsaid \in Nat /\ NotDue = Interval + 1
<1>1. {Interval, EveryPositions, PerSummary, Keep, SteadyFixes, PreferSlots} \subseteq Nat \ {0}
  BY RideAssumption
<1>2. EveryPositions * Interval * 5 \in Nat
  BY <1>1
<1>3. Hold \in Nat
  BY <1>2 DEF Hold
<1> QED BY <1>1, <1>3 DEF Recent, Repeat, Missed, Quiet, Unsaid, OverHold, NotDue

LEMMA Ranks ==
    /\ Rank \in [Cars -> 0 .. Interval - 1]
    /\ \A c, d \in Cars : Rank[c] = Rank[d] => c = d
    /\ IsFiniteSet(Cars)
<1>1. /\ Rank \in [Cars -> 0 .. Interval - 1]
      /\ \A c, d \in Cars : Rank[c] = Rank[d] => c = d
  BY RideAssumption
<1>2. Rank \in Injection(Cars, 0 .. Interval - 1)
  BY <1>1 DEF Injection, IsInjective
<1>3. IsFiniteSet(0 .. Interval - 1)
  BY Numbers, FS_Interval
<1> QED BY <1>1, <1>2, <1>3, FS_Injection

LEMMA RidersAre ==
    ASSUME setting \in Settings
    PROVE  /\ Riders[setting] \subseteq Cars /\ Restarting[setting] \subseteq Cars
           /\ \A c : Others(c) \subseteq Cars /\ c \notin Others(c)
BY RideAssumption DEF Others

LEMMA NoSlotType == NoSlot \in SlotStates /\ ~Fresh(NoSlot) /\ "none" \notin Cars
BY Numbers, RideAssumption DEF NoSlot, SlotStates, Fresh

LEMMA HeardSlots ==
    ASSUME NEW s \in SlotStates, NEW hops \in {Direct, Relayed},
           NEW via \in Cars \union {"none"}, NEW old \in BOOLEAN
    PROVE  /\ HeardSlot(s, hops, via, old) \in SlotStates
           /\ HeardSlot(s, hops, via, old).age = 0 /\ HeardSlot(s, hops, via, old).hops = hops
           /\ HeardSlot(s, hops, via, old).via = via
<1>1. Streak(s, hops) \in 0 .. SteadyFixes
  BY Numbers DEF Streak, Lower, Direct, Relayed, SlotStates
<1>2. (hops # Direct) \in BOOLEAN /\ FALSE \in BOOLEAN /\ s.claimed \in BOOLEAN
  BY DEF SlotStates
<1>3. (hops # Direct /\ (s.pending \/ (s.claimed /\ s.relayed))) \in BOOLEAN
  OBVIOUS
<1>4. 0 \in 0 .. Keep
  BY Numbers
<1> QED BY <1>1, <1>2, <1>3, <1>4 DEF HeardSlot, SlotStates

LEMMA ToldSlots ==
    ASSUME NEW s \in SlotStates
    PROVE  /\ SummedUp(s) \in SlotStates /\ SaidEarly(s) \in SlotStates
           /\ SummedUp(s).age = s.age /\ SummedUp(s).hops = s.hops /\ SummedUp(s).via = s.via
           /\ SaidEarly(s).age = s.age /\ SaidEarly(s).hops = s.hops /\ SaidEarly(s).via = s.via
<1>1. Steady(s) \in BOOLEAN /\ (~s.told) \in BOOLEAN
  BY DEF Steady
<1> QED BY <1>1 DEF SummedUp, SaidEarly, SlotStates

LEMMA OlderSlots ==
    ASSUME NEW s \in SlotStates, NEW since
    PROVE  /\ Marked(Aged(s), since) \in SlotStates
           /\ s = NoSlot => Marked(Aged(s), since) = NoSlot
           /\ \/ Marked(Aged(s), since) = NoSlot
              \/ /\ Marked(Aged(s), since).age = s.age + 1
                 /\ Marked(Aged(s), since).hops = s.hops /\ Marked(Aged(s), since).via = s.via
<1>0. Keep \in Nat \ {0} /\ s.age \in 0 .. Keep
  BY Numbers DEF SlotStates
<1>1. CASE s.age + 1 >= Keep
  <2>1. Aged(s) = NoSlot
    BY <1>1 DEF Aged
  <2>2. Marked(NoSlot, since) = NoSlot
    BY NoSlotType DEF Marked
  <2> QED BY <2>1, <2>2, NoSlotType
<1>2. CASE ~(s.age + 1 >= Keep)
  <2> DEFINE a == Aged(s)
  <2>1. a = [s EXCEPT !.age = s.age + 1] /\ s.age + 1 \in 0 .. Keep
    BY <1>0, <1>2 DEF Aged
  <2>2. a \in SlotStates /\ a.age = s.age + 1 /\ a.hops = s.hops /\ a.via = s.via
    BY <2>1 DEF SlotStates
  <2>3. s # NoSlot
    BY <1>0, <1>2 DEF NoSlot
  <2> HIDE DEF a
  <2>4. Marked(a, since) = a \/ Marked(a, since) = [a EXCEPT !.pending = TRUE]
    BY DEF Marked
  <2>5. /\ [a EXCEPT !.pending = TRUE] \in SlotStates
        /\ [a EXCEPT !.pending = TRUE].age = a.age /\ [a EXCEPT !.pending = TRUE].hops = a.hops
        /\ [a EXCEPT !.pending = TRUE].via = a.via
    BY <2>2 DEF SlotStates
  <2> QED BY <2>2, <2>3, <2>4, <2>5 DEF a
<1> QED BY <1>1, <1>2

-----------------------------------------------------------------------------
(* Preferences.                                                            *)

Prefs == [Cars -> 0 .. Hold]

\* RelayPrefs::consider changes one preference, or gives it another's place.
LEMMA ConsideredKeeps ==
    ASSUME NEW pref \in Prefs, NEW origin \in Cars, NEW good \in BOOLEAN
    PROVE  /\ Considered(pref, origin, good) \in Prefs
           /\ InRoom(pref) => InRoom(Considered(pref, origin, good))
           /\ \A o \in Cars : Considered(pref, origin, good)[o] > 0 =>
                 Considered(pref, origin, good)[o] <= pref[o] \/ (o = origin /\ good)
<1> DEFINE held == {o \in Cars : pref[o] > 0}
           soonest == CHOOSE o \in held : \A p \in held : pref[o] <= pref[p]
           r == Considered(pref, origin, good)
<1>0. Hold \in Nat /\ PreferSlots \in Nat \ {0} /\ IsFiniteSet(Cars) /\ \A o \in Cars : pref[o] \in 0 .. Hold
  BY Numbers, Ranks DEF Prefs
<1>1. IsFiniteSet(held) /\ Cardinality(held) \in Nat
  <2>1. held \subseteq Cars
    OBVIOUS
  <2> HIDE DEF held
  <2> QED BY <1>0, <2>1, FS_Subset, FS_CardinalityType
<1>2. CASE ~good
  <2>1. r = [pref EXCEPT ![origin] = 0]
    BY <1>2 DEF Considered
  <2> HIDE DEF r
  <2>2. r \in Prefs /\ \A o \in Cars : r[o] = IF o = origin THEN 0 ELSE pref[o]
    BY <1>0, <2>1 DEF Prefs
  <2>3. InRoom(pref) => InRoom(r)
    <3> DEFINE now == {o \in Cars : r[o] > 0}
    <3>1. now \subseteq held
      BY <2>2
    <3> HIDE DEF now, held
    <3>2. Cardinality(now) <= Cardinality(held) /\ Cardinality(now) \in Nat
      BY <1>1, <3>1, FS_Subset, FS_CardinalityType
    <3>3. Cardinality(held) <= PreferSlots => Cardinality(now) <= PreferSlots
      BY <1>0, <1>1, <3>2
    <3> QED BY <3>3 DEF InRoom, now, held
  <2> QED BY <1>0, <2>2, <2>3 DEF r
<1>3. CASE good /\ (origin \in held \/ Cardinality(held) < PreferSlots)
  <2>1. r = [pref EXCEPT ![origin] = Hold]
    BY <1>3 DEF Considered
  <2> HIDE DEF r
  <2>2. r \in Prefs /\ \A o \in Cars : r[o] = IF o = origin THEN Hold ELSE pref[o]
    BY <1>0, <2>1 DEF Prefs
  <2>3. InRoom(pref) => InRoom(r)
    <3> DEFINE now == {o \in Cars : r[o] > 0}
    <3>1. now \subseteq held \union {origin}
      BY <2>2
    <3> HIDE DEF now, held
    <3>2. /\ IsFiniteSet(held \union {origin})
          /\ Cardinality(held \union {origin}) =
                IF origin \in held THEN Cardinality(held) ELSE Cardinality(held) + 1
      BY <1>1, FS_AddElement
    <3>3. Cardinality(now) <= Cardinality(held \union {origin}) /\ Cardinality(now) \in Nat
      BY <3>1, <3>2, FS_Subset, FS_CardinalityType
    <3>4. Cardinality(held) <= PreferSlots => Cardinality(now) <= PreferSlots
      BY <1>0, <1>1, <1>3, <3>2, <3>3
    <3> QED BY <3>4 DEF InRoom, now, held
  <2>5. \A o \in Cars : o # origin => r[o] <= pref[o]
    BY <1>0, <2>2
  <2>6. good
    BY <1>3
  <2> QED BY <2>2, <2>3, <2>5, <2>6 DEF r
<1>4. CASE good /\ ~(origin \in held \/ Cardinality(held) < PreferSlots)
  <2>1. r = [pref EXCEPT ![soonest] = 0, ![origin] = Hold]
    BY <1>4 DEF Considered
  <2>2. soonest \in held
    <3>1. held # {}
      BY <1>0, <1>4, FS_EmptySet
    <3>2. \E o \in held : \A p \in held : pref[o] <= pref[p]
      <4> DEFINE T == {pref[o] : o \in held}
      <4>1. T \in SUBSET Nat /\ T # {}
        BY <1>0, <3>1
      <4>2. PICK x \in T : \A y \in T : x <= y
        BY <4>1, Least
      <4> QED BY <4>2
    <3> HIDE DEF held
    <3> QED BY <3>2
  <2> HIDE DEF r, soonest
  <2>3. /\ r \in Prefs
        /\ \A o \in Cars : r[o] = IF o = origin THEN Hold ELSE IF o = soonest THEN 0 ELSE pref[o]
    BY <1>0, <2>1, <2>2 DEF Prefs
  <2>4. InRoom(pref) => InRoom(r)
    <3> DEFINE now == {o \in Cars : r[o] > 0}
               rest == held \ {soonest}
    <3>1. now \subseteq rest \union {origin} /\ origin \notin held
      BY <1>4, <2>3
    <3> HIDE DEF now, held
    <3>2. IsFiniteSet(rest) /\ Cardinality(rest) = Cardinality(held) - 1
      BY <1>1, <2>2, FS_RemoveElement
    <3> HIDE DEF rest
    <3>3. /\ IsFiniteSet(rest \union {origin})
          /\ Cardinality(rest \union {origin}) =
                IF origin \in rest THEN Cardinality(rest) ELSE Cardinality(rest) + 1
      BY <3>2, FS_AddElement
    <3>4. Cardinality(now) <= Cardinality(rest \union {origin}) /\ Cardinality(now) \in Nat
      BY <3>1, <3>3, FS_Subset, FS_CardinalityType
    <3>5. Cardinality(held) <= PreferSlots => Cardinality(now) <= PreferSlots
      BY <1>0, <1>1, <3>2, <3>3, <3>4
    <3> QED BY <3>5 DEF InRoom, now, held
  <2>5. \A o \in Cars : o # origin => r[o] <= pref[o]
    BY <1>0, <2>3
  <2>6. good
    BY <1>4
  <2> QED BY <2>3, <2>4, <2>5, <2>6 DEF r
<1> QED BY <1>2, <1>3, <1>4
\* What comes of a step at each of the numbers up to n, from `base` on.
Steps(n, V) == [1 .. n -> [V -> V]]
Walks(n, V, base, step) ==
    {f \in [0 .. n -> V] : f[0] = base /\ \A k \in 1 .. n : f[k] = step[k][f[k - 1]]}

LEMMA Stepwise ==
    ASSUME NEW n \in Nat, NEW V, NEW base \in V, NEW step \in Steps(n, V)
    PROVE  Walks(n, V, base, step) # {}
<1> USE DEF Steps
<1> DEFINE Upto(m, f) == /\ f \in [0 .. m -> V]
                         /\ f[0] = base /\ \A k \in 1 .. m : f[k] = step[k][f[k - 1]]
           T == {m \in 0 .. n : ~ \E f : Upto(m, f)}
<1> SUFFICES T = {}
  <2>1. n \in 0 .. n
    OBVIOUS
  <2>2. \E f : Upto(n, f)
    BY <2>1
  <2> QED BY <2>2 DEF Walks
<1>1. SUFFICES ASSUME T # {} PROVE FALSE
  OBVIOUS
<1>2. PICK m \in T : \A y \in T : m <= y
  <2>1. T \in SUBSET Nat
    OBVIOUS
  <2> HIDE DEF T
  <2> QED BY <1>1, <2>1, Least
<1>3. m \in 0 .. n /\ ~ \E f : Upto(m, f)
  OBVIOUS
<1>4. CASE m = 0
  <2> DEFINE f == [k \in 0 .. 0 |-> base]
  <2>1. Upto(0, f)
    OBVIOUS
  <2> HIDE DEF f, Upto
  <2> QED BY <1>3, <1>4, <2>1
<1>5. CASE m # 0
  <2>1. m - 1 \in 0 .. n /\ m \in 1 .. n /\ m - 1 < m
    BY <1>3, <1>5
  <2>2. m - 1 \notin T
    <3> HIDE DEF T
    <3> QED BY <1>2, <2>1
  <2>3. PICK g : Upto(m - 1, g)
    BY <2>1, <2>2
  <2> DEFINE f == [k \in 0 .. m |-> IF k = m THEN step[m][g[m - 1]] ELSE g[k]]
  <2>4. g[m - 1] \in V /\ step[m][g[m - 1]] \in V
    BY <2>1, <2>3
  <2>5. f \in [0 .. m -> V]
    BY <2>1, <2>3, <2>4
  <2>6. f[0] = base
    BY <2>1, <2>3
  <2>7. ASSUME NEW k \in 1 .. m PROVE f[k] = step[k][f[k - 1]]
    <3>1. CASE k = m
      <4>1. f[k] = step[m][g[m - 1]] /\ f[m - 1] = g[m - 1]
        BY <2>1, <3>1
      <4> QED BY <3>1, <4>1
    <3>2. CASE k # m
      <4>1. k \in 1 .. m - 1 /\ k - 1 \in 0 .. m /\ k - 1 # m /\ k \in 0 .. m
        BY <2>1, <3>2
      <4>2. f[k] = g[k] /\ f[k - 1] = g[k - 1]
        BY <3>2, <4>1
      <4>3. g[k] = step[k][g[k - 1]]
        BY <2>3, <4>1
      <4> QED BY <4>2, <4>3
    <3> QED BY <3>1, <3>2
  <2> HIDE DEF f
  <2>8. Upto(m, f)
    BY <2>5, <2>6, <2>7
  <2> HIDE DEF Upto
  <2> QED BY <1>3, <2>8
<1> QED BY <1>4, <1>5

\* What holds at 0 and of each from the one before holds of all.
LEMMA Onward ==
    ASSUME NEW n \in Nat, NEW Good \in SUBSET (0 .. n), 0 \in Good,
           \A k \in 1 .. n : k - 1 \in Good => k \in Good
    PROVE  n \in Good
<1> DEFINE T == (0 .. n) \ Good
<1> SUFFICES ASSUME T # {} PROVE FALSE
  BY n \in 0 .. n
<1>1. T \in SUBSET Nat
  OBVIOUS
<1>2. PICK m \in T : \A y \in T : m <= y
  <2> HIDE DEF T
  <2> QED BY <1>1, Least
<1>3. m \in 1 .. n /\ m - 1 \in 0 .. n /\ m - 1 < m
  OBVIOUS
<1>4. m - 1 \in Good
  BY <1>2, <1>3
<1> QED BY <1>3, <1>4

\* A summary gives a car a preference only for what got there through it, not
\* long before, and no more of them than it has room for.
LEMMA PreferringKeeps ==
    ASSUME setting \in Settings, NEW tables \in Tables, NEW d \in Cars, NEW c \in Cars,
           NEW listed \in SUBSET Cars, prefs[d] \in Prefs, InRoom(prefs[d])
    PROVE  /\ Preferring(tables, d, c, listed) \in Prefs
           /\ InRoom(Preferring(tables, d, c, listed))
           /\ \A o \in Cars : Preferring(tables, d, c, listed)[o] > 0 =>
                 \/ Preferring(tables, d, c, listed)[o] <= prefs[d][o]
                 \/ tables[c][o].hops = Relayed /\ tables[c][o].via = d /\ tables[c][o].age <= Recent
<1> DEFINE ours == {o \in listed \ {d} : tables[c][o].hops = Relayed /\ tables[c][o].via = d}
           good(o) == /\ tables[d][o].age < Recent /\ tables[c][o].age <= Recent
                      /\ ~tables[c][o].old
           ranked(n) == {o \in ours : Rank[o] = n}
           after[n \in 0 .. Interval] ==
              IF n = 0 THEN prefs[d]
              ELSE IF ranked(n - 1) = {} THEN after[n - 1]
              ELSE LET o == CHOOSE o \in ranked(n - 1) : TRUE IN
                   Considered(after[n - 1], o, good(o))
<1>1. Preferring(tables, d, c, listed) = after[Interval]
  BY DEF Preferring
<1> DEFINE first(n) == CHOOSE o \in ranked(n) : TRUE
           then(p, n) == IF ranked(n) = {} THEN p ELSE Considered(p, first(n), good(first(n)))
           step == [k \in 1 .. Interval |-> [p \in Prefs |-> then(p, k - 1)]]
<1>2. ours \subseteq Cars /\ Interval \in Nat \ {0}
  BY Numbers
<1>3. \A n : ranked(n) # {} => first(n) \in ours
  OBVIOUS
<1>4. \A o : good(o) \in BOOLEAN
  OBVIOUS
<1>5. \A o \in ours : tables[c][o].hops = Relayed /\ tables[c][o].via = d
  OBVIOUS
<1>6. \A o : good(o) => tables[c][o].age <= Recent
  OBVIOUS
<1> HIDE DEF ours, good
<1>7. ASSUME NEW p \in Prefs, NEW n
      PROVE  /\ then(p, n) \in Prefs /\ (InRoom(p) => InRoom(then(p, n)))
             /\ \A o \in Cars : then(p, n)[o] > 0 =>
                   then(p, n)[o] <= p[o] \/ (o \in ours /\ good(o))
  <2>1. CASE ranked(n) = {}
    <3>1. then(p, n) = p /\ \A o \in Cars : p[o] <= p[o]
      BY <2>1, Numbers DEF Prefs
    <3> QED BY <3>1
  <2>2. CASE ranked(n) # {}
    <3> DEFINE x == first(n)
               y == Considered(p, x, good(x))
    <3>1. then(p, n) = y /\ x \in Cars /\ x \in ours
      BY <1>2, <1>3, <2>2
    <3> HIDE DEF x
    <3>2. /\ y \in Prefs /\ (InRoom(p) => InRoom(y))
          /\ \A o \in Cars : y[o] > 0 => y[o] <= p[o] \/ (o = x /\ good(x))
      BY <1>4, <3>1, ConsideredKeeps
    <3> HIDE DEF y
    <3> QED BY <3>1, <3>2
  <2> QED BY <2>1, <2>2
<1> HIDE DEF first, ranked
<1>8. step \in [1 .. Interval -> [Prefs -> Prefs]]
  BY <1>7
<1>9. PICK f \in [0 .. Interval -> Prefs] :
         f[0] = prefs[d] /\ \A k \in 1 .. Interval : f[k] = step[k][f[k - 1]]
  <2> HIDE DEF step, then
  <2>1. Interval \in Nat /\ step \in Steps(Interval, Prefs)
    BY <1>2, <1>8 DEF Steps
  <2>2. Walks(Interval, Prefs, prefs[d], step) # {}
    BY <2>1, Stepwise
  <2> QED BY <2>2 DEF Walks
<1>10. \A k \in 1 .. Interval : f[k] = then(f[k - 1], k - 1)
  <2>1. \A k \in 1 .. Interval : f[k - 1] \in Prefs
    BY <1>2
  <2> QED BY <1>9, <2>1
<1>11. f = [n \in 0 .. Interval |-> IF n = 0 THEN prefs[d] ELSE then(f[n - 1], n - 1)]
  <2> HIDE DEF then, step
  <2>1. \A n \in 0 .. Interval : f[n] = IF n = 0 THEN prefs[d] ELSE then(f[n - 1], n - 1)
    BY <1>2, <1>9, <1>10
  <2> QED BY <2>1
<1>12. after = [n \in 0 .. Interval |-> IF n = 0 THEN prefs[d] ELSE then(after[n - 1], n - 1)]
  BY <1>11 DEF first
<1> HIDE DEF after, then
<1> DEFINE Good == {n \in 0 .. Interval :
                      /\ after[n] \in Prefs /\ InRoom(after[n])
                      /\ \A o \in Cars : after[n][o] > 0 =>
                            after[n][o] <= prefs[d][o] \/ (o \in ours /\ good(o))}
<1>13. 0 \in Good
  <2>1. after[0] = prefs[d]
    BY <1>2, <1>12
  <2>2. \A o \in Cars : prefs[d][o] <= prefs[d][o]
    BY Numbers DEF Prefs
  <2> QED BY <1>2, <2>1, <2>2
<1>14. ASSUME NEW k \in 1 .. Interval, k - 1 \in Good PROVE k \in Good
  <2> DEFINE p == after[k - 1]
  <2>1. after[k] = then(p, k - 1) /\ k \in 0 .. Interval
    BY <1>2, <1>12
  <2>2. /\ p \in Prefs /\ InRoom(p)
        /\ \A o \in Cars : p[o] > 0 => p[o] <= prefs[d][o] \/ (o \in ours /\ good(o))
    BY <1>14
  <2> HIDE DEF p
  <2>3. /\ after[k] \in Prefs /\ InRoom(after[k])
        /\ \A o \in Cars : after[k][o] > 0 => after[k][o] <= p[o] \/ (o \in ours /\ good(o))
    BY <1>7, <2>1, <2>2
  <2>4. ASSUME NEW o \in Cars, after[k][o] > 0, ~(o \in ours /\ good(o))
        PROVE  after[k][o] <= prefs[d][o]
    <3>1. after[k][o] <= p[o]
      BY <2>3, <2>4
    <3>2. after[k][o] \in Nat /\ p[o] \in Nat /\ prefs[d][o] \in Nat
      BY <2>2, <2>3, Numbers DEF Prefs
    <3>3. p[o] <= prefs[d][o]
      BY <2>2, <2>4, <3>1, <3>2
    <3> QED BY <3>1, <3>2, <3>3
  <2> QED BY <2>1, <2>3, <2>4
<1>15. Interval \in Good
  <2>1. Good \in SUBSET (0 .. Interval)
    OBVIOUS
  <2> HIDE DEF Good
  <2> QED BY <1>2, <1>13, <1>14, <2>1, Onward
<1> QED BY <1>1, <1>5, <1>6, <1>15
-----------------------------------------------------------------------------
(* A summary.                                                              *)

\* What a summary of c may have said about d's relaying of o.
Vouched(tables, c, d, o) ==
    tables[c][o].hops = Relayed /\ tables[c][o].via = d /\ tables[c][o].age <= Recent

LEMMA Telling ==
    ASSUME IInv, NEW tables \in Tables, NEW c \in Cars, NEW listed \in SUBSET Cars,
           NEW full \in BOOLEAN, Tell(tables, c, listed, full)
    PROVE  /\ prefs' \in [Cars -> [Cars -> 0 .. Hold]] /\ \A d \in Cars : InRoom(prefs'[d])
           /\ \A d, o \in Cars : prefs'[d][o] > 0 =>
                 prefs'[d][o] <= prefs[d][o] \/ Vouched(tables, c, d, o)
           /\ stamp' \in [Cars -> [Cars -> 0 .. Unsaid]]
<1>1. PICK got, takes :
         /\ takes \subseteq got
         /\ stamp' = [d \in Cars |->
               IF full /\ d \in takes THEN [stamp[d] EXCEPT ![c] = 0] ELSE stamp[d]]
         /\ prefs' = [d \in Cars |->
               IF d \in got THEN Preferring(tables, d, c, listed) ELSE prefs[d]]
  <2>1. PICK losing : Tell(tables, c, listed, full)!(losing)
    BY DEF Tell
  <2> DEFINE got == IF listed = {} THEN {} ELSE Others(c) \ losing
             takes == {d \in got : Fresh(tables[d][c])}
  <2>2. takes \subseteq got
    OBVIOUS
  <2> QED BY <2>1, <2>2
<1>2. /\ setting \in Settings /\ prefs \in [Cars -> Prefs] /\ \A d \in Cars : InRoom(prefs[d])
      /\ stamp \in [Cars -> [Cars -> 0 .. Unsaid]]
  BY DEF IInv, Shape, Preferred, Prefs
<1>3. ASSUME NEW d \in Cars
      PROVE  /\ prefs'[d] \in Prefs /\ InRoom(prefs'[d])
             /\ \A o \in Cars : prefs'[d][o] > 0 =>
                   prefs'[d][o] <= prefs[d][o] \/ Vouched(tables, c, d, o)
  <2>1. prefs[d] \in Prefs /\ InRoom(prefs[d])
    BY <1>2
  <2>2. CASE d \in got
    <3>1. prefs'[d] = Preferring(tables, d, c, listed)
      BY <1>1, <2>2
    <3> QED BY <1>2, <2>1, <3>1, PreferringKeeps DEF Vouched
  <2>3. CASE d \notin got
    <3>1. prefs'[d] = prefs[d]
      BY <1>1, <2>3
    <3>2. \A o \in Cars : prefs[d][o] <= prefs[d][o]
      BY <2>1, Numbers DEF Prefs
    <3> QED BY <2>1, <3>1, <3>2
  <2> QED BY <2>2, <2>3
<1>4. stamp' \in [Cars -> [Cars -> 0 .. Unsaid]]
  <2>1. 0 \in 0 .. Unsaid
    BY Numbers
  <2>2. ASSUME NEW d \in Cars PROVE [stamp[d] EXCEPT ![c] = 0] \in [Cars -> 0 .. Unsaid]
    BY <1>2, <2>1
  <2>3. \A d \in Cars : stamp[d] \in [Cars -> 0 .. Unsaid]
    BY <1>2
  <2> QED BY <1>1, <2>2, <2>3
<1>5. prefs' \in [Cars -> Prefs]
  <2>1. prefs' = [d \in Cars |-> prefs'[d]]
    BY <1>1
  <2> QED BY <1>3, <2>1
<1> QED BY <1>3, <1>4, <1>5 DEF Prefs

\* What is vouched for has been carried, so that a preference it earns lapses
\* in time.
LEMMA EarnedNow ==
    ASSUME IInv, NEW tables \in Tables, NEW c \in Cars,
           \A o \in Cars : tables[c][o].hops = Relayed /\ tables[c][o].via \in Cars =>
               carried[tables[c][o].via][o] <= tables[c][o].age,
           NEW pref \in [Cars -> [Cars -> 0 .. Hold]],
           \A d, o \in Cars : pref[d][o] > 0 =>
               pref[d][o] <= prefs[d][o] \/ Vouched(tables, c, d, o),
           NEW since \in [Cars -> [Cars -> 0 .. Hold + Recent + 1]],
           \A d, o \in Cars : since[d][o] <= carried[d][o]
    PROVE  Lapsing(pref, since)
<1> SUFFICES ASSUME NEW d \in Cars, NEW o \in Cars, pref[d][o] > 0
             PROVE  since[d][o] + pref[d][o] <= Recent + Hold
  BY DEF Lapsing
<1>1. /\ Hold \in Nat /\ Recent \in Nat /\ pref[d][o] \in 0 .. Hold
      /\ prefs[d][o] \in 0 .. Hold /\ carried[d][o] \in Nat /\ since[d][o] \in Nat
      /\ since[d][o] <= carried[d][o]
  <2>1. Hold \in Nat /\ Recent \in Nat
    BY Numbers
  <2>2. prefs[d][o] \in 0 .. Hold /\ carried[d][o] \in 0 .. Hold + Recent + 1
    BY DEF IInv, Preferred, Evidence
  <2>3. since[d][o] \in 0 .. Hold + Recent + 1 /\ pref[d][o] \in 0 .. Hold
    OBVIOUS
  <2> QED BY <2>1, <2>2, <2>3
<1>2. CASE pref[d][o] <= prefs[d][o]
  <2>1. prefs[d][o] > 0
    BY <1>1, <1>2
  <2>2. carried[d][o] + prefs[d][o] <= Recent + Hold
    BY <2>1 DEF IInv, Preferred, Lapsing
  <2> QED BY <1>1, <1>2, <2>2
<1>3. CASE Vouched(tables, c, d, o)
  <2>1. carried[d][o] <= tables[c][o].age /\ tables[c][o].age <= Recent
    BY <1>3 DEF Vouched
  <2>2. tables[c][o].age \in Nat
    BY Numbers DEF Tables, SlotStates
  <2> QED BY <1>1, <2>1, <2>2
<1> QED BY <1>2, <1>3

-----------------------------------------------------------------------------
(* The steps.                                                              *)

LEMMA CursorType ==
    ASSUME setting \in Settings, NEW c \in Cars, NEW listed
    PROVE  CursorAfter(c, listed) \in 0 .. Interval
<1> DEFINE more == {o \in Reportable(c) : \A p \in listed : Rank[o] > Rank[p]}
           T == {Rank[o] : o \in more}
<1>1. more \subseteq Cars
  BY RidersAre DEF Reportable
<1>2. Interval \in Nat \ {0} /\ \A o \in Cars : Rank[o] \in 0 .. Interval - 1
  BY Numbers, Ranks
<1>3. CASE more = {} \/ listed = {}
  BY <1>2, <1>3 DEF CursorAfter
<1>4. CASE ~(more = {} \/ listed = {})
  <2>1. T \in SUBSET Nat /\ T # {}
    BY <1>1, <1>2, <1>4
  <2>2. PICK x \in T : \A y \in T : x <= y
    <3> HIDE DEF T
    <3> QED BY <2>1, Least
  <2>3. /\ x \in 0 .. Interval
        /\ \E o \in more : Rank[o] = x /\ \A p \in more : Rank[p] >= x
    BY <1>1, <1>2, <2>2
  <2>4. CursorAfter(c, listed) =
           CHOOSE n \in 0 .. Interval :
              \E o \in more : Rank[o] = n /\ \A p \in more : Rank[p] >= n
    BY <1>4 DEF CursorAfter
  <2> HIDE DEF more
  <2> QED BY <2>3, <2>4
<1> QED BY <1>3, <1>4

\* A table in which some slots have been told of.
LEMMA ToldTable ==
    ASSUME NEW t \in Tables, Vacant(t), NEW c \in Cars, NEW listed, setting \in Settings,
           NEW r, r \in [Cars -> [Cars -> SlotStates]],
           \A d, p \in Cars : \/ r[d][p] = t[d][p]
                              \/ /\ d = c /\ p \in listed
                                 /\ r[d][p] \in {SummedUp(t[d][p]), SaidEarly(t[d][p])},
           \A p \in listed : p # c /\ p \in Riders[setting],
           NEW since, Relays(t, since)
    PROVE  r \in Tables /\ Vacant(r) /\ Relays(r, since)
<1>1. ASSUME NEW d \in Cars, NEW p \in Cars
      PROVE  r[d][p].age = t[d][p].age /\ r[d][p].hops = t[d][p].hops /\ r[d][p].via = t[d][p].via
  <2>1. t[d][p] \in SlotStates
    BY DEF Tables
  <2> QED BY <2>1, ToldSlots
<1>2. Relays(r, since)
  BY <1>1 DEF Relays
<1>3. Vacant(r)
  BY DEF Vacant
<1> QED BY <1>2, <1>3 DEF Tables

LEMMA EarlyStep ==
    ASSUME IInv, NEW c \in Riders[setting], SendEarly(c)
    PROVE  IInv'
<1> DEFINE listed == FirstOf(Pending(table[c]))
<1>0. setting \in Settings /\ c \in Cars /\ table \in Tables /\ Vacant(table)
  BY RidersAre DEF IInv, Shape, Evidence
<1>1. listed \subseteq Pending(table[c]) /\ Pending(table[c]) \subseteq Cars
  BY DEF FirstOf, Pending
<1>2. \A p \in listed : p \in Cars /\ p # c /\ p \in Riders[setting]
  <2>1. \A p \in listed : Fresh(table[c][p]) /\ p \in Cars
    BY <1>1 DEF Pending
  <2> QED BY <1>0, <2>1, NoSlotType DEF Vacant
<1>3. /\ table' = [table EXCEPT ![c] = [o \in Cars |->
                     IF o \in listed THEN SaidEarly(table[c][o]) ELSE table[c][o]]]
      /\ Tell(table, c, listed, FALSE)
      /\ early' = [early EXCEPT ![c] = [since |-> 0, at |-> NotDue]]
      /\ UNCHANGED <<airVars, cursor, known, skipped, carried>>
  BY DEF SendEarly
<1> HIDE DEF listed
<1>4. ASSUME NEW d \in Cars, NEW p \in Cars
      PROVE  table'[d][p] = IF d = c /\ p \in listed THEN SaidEarly(table[d][p]) ELSE table[d][p]
  BY <1>0, <1>3 DEF Tables
<1>5. table' \in [Cars -> [Cars -> SlotStates]]
  <2>1. \A d, p \in Cars : table[d][p] \in SlotStates
    BY <1>0 DEF Tables
  <2>2. \A p \in Cars : (IF p \in listed THEN SaidEarly(table[c][p]) ELSE table[c][p]) \in SlotStates
    BY <1>0, <2>1, ToldSlots
  <2> QED BY <1>0, <1>3, <2>2 DEF Tables
<1>6. Relays(table, carried) /\ carried \in [Cars -> [Cars -> 0 .. Hold + Recent + 1]]
  BY DEF IInv, Evidence
<1>7. table' \in Tables /\ Vacant(table') /\ Relays(table', carried)
  <2>1. \A d, p \in Cars : \/ table'[d][p] = table[d][p]
                           \/ /\ d = c /\ p \in listed
                              /\ table'[d][p] \in {SummedUp(table[d][p]), SaidEarly(table[d][p])}
    BY <1>4
  <2>2. \A p \in listed : p # c /\ p \in Riders[setting]
    BY <1>2
  <2> QED BY <1>0, <1>5, <1>6, <2>1, <2>2, ToldTable
<1>8. /\ prefs' \in [Cars -> [Cars -> 0 .. Hold]] /\ \A d \in Cars : InRoom(prefs'[d])
      /\ \A d, o \in Cars : prefs'[d][o] > 0 =>
            prefs'[d][o] <= prefs[d][o] \/ Vouched(table, c, d, o)
      /\ stamp' \in [Cars -> [Cars -> 0 .. Unsaid]]
  <2>1. listed \in SUBSET Cars
    BY <1>2
  <2> QED BY <1>0, <1>3, <2>1, Telling
<1>9. Lapsing(prefs', carried)
  <2>1. \A d, o \in Cars : carried[d][o] <= carried[d][o]
    BY <1>6, Numbers
  <2>2. \A o \in Cars : table[c][o].hops = Relayed /\ table[c][o].via \in Cars =>
           carried[table[c][o].via][o] <= table[c][o].age
    BY <1>0, <1>6 DEF Relays
  <2> QED BY <1>0, <1>6, <1>8, <2>1, <2>2, EarnedNow
<1>10. Shape'
  <2>1. [since |-> 0, at |-> NotDue] \in [since : 0 .. Repeat, at : 0 .. NotDue]
    BY Numbers
  <2> QED BY <1>3, <1>8, <2>1 DEF IInv, Shape, airVars
<1>11. carried' = carried /\ setting' = setting
  BY <1>3 DEF airVars
<1>12. Evidence'
  BY <1>6, <1>7, <1>11 DEF Evidence, Tables, Vacant, Relays
<1>13. Preferred'
  BY <1>8, <1>9, <1>11 DEF Preferred, InRoom, Lapsing
<1> QED BY <1>10, <1>12, <1>13 DEF IInv
LEMMA SendStep ==
    ASSUME IInv, NEW o \in Riders[setting], SendPosition(o)
    PROVE  IInv'
<1>0. /\ setting \in Settings /\ o \in Cars /\ table \in Tables /\ Vacant(table)
      /\ carried \in [Cars -> [Cars -> 0 .. Hold + Recent + 1]] /\ Relays(table, carried)
  BY RidersAre DEF IInv, Shape, Evidence
<1> DEFINE near == {c \in Others(o) : Hears(c, o)}
           relays == {r \in near : ~Skips(r, o)}
           first == [c \in Others(o) \ near |-> FirstRelays(c, relays)]
           far == {c \in DOMAIN first : first[c] # {}}
           listed == IF sent'[o] = Rank[o] % EveryPositions THEN Listed(o) ELSE {}
           heardBy(via, old) == [c \in Cars |->
                 CASE c \in near -> [table[c] EXCEPT ![o] = HeardSlot(@, Direct, "none", old)]
                   [] c \in far -> [table[c] EXCEPT ![o] = HeardSlot(@, Relayed, via[c], old)]
                   [] OTHER -> table[c]]
<1>1. PICK via \in {f \in [far -> relays] : \A c \in far : f[c] \in first[c]},
           old \in {FALSE} \union (IF o \in Aging[setting] THEN {TRUE} ELSE {}) :
         /\ table' = [heardBy(via, old) EXCEPT ![o] = [p \in Cars |->
                IF p \in listed THEN SummedUp(heardBy(via, old)[o][p]) ELSE heardBy(via, old)[o][p]]]
         /\ cursor' = IF listed = {} THEN cursor ELSE [cursor EXCEPT ![o] = CursorAfter(o, listed)]
         /\ Tell(heardBy(via, old), o, listed, TRUE)
         /\ carried' = [r \in Cars |->
                IF \E c \in far : via[c] = r THEN [carried[r] EXCEPT ![o] = 0] ELSE carried[r]]
  BY DEF SendPosition
<1>2. /\ sent' = [sent EXCEPT ![o] = (sent[o] + 1) % EveryPositions]
      /\ UNCHANGED <<setting, tick, restarts, cut, early>>
  BY DEF SendPosition
<1> DEFINE heard == heardBy(via, old)
<1>3. /\ near \subseteq Others(o) /\ far \subseteq Others(o) /\ near \intersect far = {}
      /\ Others(o) \subseteq Cars /\ o \notin Others(o) /\ old \in BOOLEAN
      /\ \A c \in far : via[c] \in Cars
  <2>1. Others(o) \subseteq Cars /\ o \notin Others(o)
    BY <1>0, RidersAre
  <2>2. relays \subseteq Cars
    BY <2>1
  <2> HIDE DEF near, relays
  <2>3. DOMAIN first = Others(o) \ near
    OBVIOUS
  <2> QED BY <2>1, <2>2, <2>3 DEF near
<1>4. listed \subseteq Others(o) /\ listed \in SUBSET Cars
  <2>1. Listed(o) \subseteq Reportable(o)
    BY DEF Listed, FirstOf
  <2> QED BY <1>3, <2>1 DEF Reportable
<1> HIDE DEF near, relays, first, far, listed
<1>5. ASSUME NEW c \in Cars, NEW p \in Cars
      PROVE  heard[c][p] = IF p = o /\ c \in near THEN HeardSlot(table[c][p], Direct, "none", old)
                           ELSE IF p = o /\ c \in far THEN HeardSlot(table[c][p], Relayed, via[c], old)
                           ELSE table[c][p]
  <2>1. table[c] \in [Cars -> SlotStates]
    BY <1>0 DEF Tables
  <2>2. CASE c \in near
    <3>1. heard[c] = [table[c] EXCEPT ![o] = HeardSlot(@, Direct, "none", old)]
      BY <1>3, <2>2
    <3> HIDE DEF heardBy
    <3> QED BY <1>0, <1>3, <2>1, <2>2, <3>1
  <2>3. CASE c \in far
    <3>1. heard[c] = [table[c] EXCEPT ![o] = HeardSlot(@, Relayed, via[c], old)]
      BY <1>3, <2>3
    <3> HIDE DEF heardBy
    <3> QED BY <1>0, <1>3, <2>1, <2>3, <3>1
  <2>4. CASE c \notin near /\ c \notin far
    <3>1. heard[c] = table[c]
      BY <2>4
    <3> HIDE DEF heardBy
    <3> QED BY <2>4, <3>1
  <2> QED BY <2>2, <2>3, <2>4
<1>6. heard \in Tables
  <2>1. ASSUME NEW c \in Cars PROVE heard[c] \in [Cars -> SlotStates]
    <3>1. table[c] \in [Cars -> SlotStates] /\ table[c][o] \in SlotStates
      BY <1>0 DEF Tables
    <3>2. HeardSlot(table[c][o], Direct, "none", old) \in SlotStates
      BY <1>3, <3>1, HeardSlots
    <3>3. c \in far => HeardSlot(table[c][o], Relayed, via[c], old) \in SlotStates
      BY <1>3, <3>1, HeardSlots
    <3> QED BY <1>0, <3>1, <3>2, <3>3
  <2>2. heard = [c \in Cars |-> heard[c]]
    OBVIOUS
  <2> HIDE DEF heardBy
  <2>3. heard \in [Cars -> [Cars -> SlotStates]]
    BY <2>1, <2>2
  <2> QED BY <2>3 DEF Tables
<1>7. /\ table' = [heard EXCEPT ![o] = [p \in Cars |->
                IF p \in listed THEN SummedUp(heard[o][p]) ELSE heard[o][p]]]
      /\ Tell(heard, o, listed, TRUE)
  BY <1>1
<1> HIDE DEF heardBy
<1>8. Vacant(heard)
  <2>1. o \in Riders[setting] /\ \A c \in Others(o) : c # o
    BY DEF Others
  <2> QED BY <1>0, <1>3, <1>5, <2>1 DEF Vacant
<1>9. /\ carried' \in [Cars -> [Cars -> 0 .. Hold + Recent + 1]]
      /\ \A c, p \in Cars : carried'[c][p] <= carried[c][p]
      /\ \A c \in far : carried'[via[c]][o] = 0
  <2>1. 0 \in 0 .. Hold + Recent + 1
    BY Numbers
  <2>2. ASSUME NEW c \in Cars
        PROVE  /\ carried'[c] \in [Cars -> 0 .. Hold + Recent + 1]
               /\ \A p \in Cars : carried'[c][p] <= carried[c][p]
    <3>1. /\ carried[c] \in [Cars -> 0 .. Hold + Recent + 1]
          /\ \A p \in Cars : carried[c][p] \in 0 .. Hold + Recent + 1
      BY <1>0
    <3>2. carried'[c] = carried[c] \/ carried'[c] = [carried[c] EXCEPT ![o] = 0]
      BY <1>1
    <3>3. \A p \in Cars : carried[c][p] <= carried[c][p] /\ 0 <= carried[c][p]
      BY <3>1, Numbers
    <3> QED BY <1>0, <2>1, <3>1, <3>2, <3>3
  <2>3. carried' = [c \in Cars |-> carried'[c]]
    BY <1>1
  <2>4. ASSUME NEW c \in far PROVE carried'[via[c]][o] = 0
    <3>1. via[c] \in Cars /\ carried'[via[c]] = [carried[via[c]] EXCEPT ![o] = 0]
      BY <1>1, <1>3
    <3> QED BY <1>0, <3>1
  <2> QED BY <2>2, <2>3, <2>4
<1>10. Relays(heard, carried')
  <2> SUFFICES ASSUME NEW c \in Cars, NEW p \in Cars,
                      heard[c][p].hops = Relayed, heard[c][p].via \in Cars
               PROVE  carried'[heard[c][p].via][p] <= heard[c][p].age
    BY DEF Relays
  <2>0. table[c][p] \in SlotStates
    BY <1>0 DEF Tables
  <2>1. CASE p = o /\ c \in near
    <3>1. heard[c][p] = HeardSlot(table[c][p], Direct, "none", old)
      BY <1>5, <2>1
    <3>2. HeardSlot(table[c][p], Direct, "none", old).hops = Direct
      BY DEF HeardSlot
    <3>3. heard[c][p].hops = Direct
      BY <3>1, <3>2
    <3> QED BY <3>3 DEF Direct, Relayed
  <2>2. CASE p = o /\ c \in far
    <3>1. heard[c][p] = HeardSlot(table[c][p], Relayed, via[c], old)
      BY <1>3, <1>5, <2>2
    <3> DEFINE v == via[c]
               slot == HeardSlot(table[c][p], Relayed, v, old)
    <3>2. carried'[v][p] = 0
      BY <1>9, <2>2
    <3> HIDE DEF v
    <3>3. slot.via = v /\ slot.age = 0
      BY DEF HeardSlot
    <3>4. heard[c][p] = slot
      BY <3>1 DEF v
    <3> HIDE DEF slot, heard
    <3>5. heard[c][p].via = v /\ heard[c][p].age = 0
      BY <3>3, <3>4
    <3> QED BY <3>2, <3>5
  <2>3. CASE ~(p = o /\ (c \in near \/ c \in far))
    <3> DEFINE v == table[c][p].via
    <3>1. heard[c][p] = table[c][p]
      BY <1>5, <2>3
    <3>2. v \in Cars /\ carried[v][p] <= table[c][p].age
      BY <1>0, <3>1 DEF Relays
    <3>3. /\ carried'[v][p] <= carried[v][p] /\ carried'[v][p] \in Nat /\ carried[v][p] \in Nat
          /\ table[c][p].age \in Nat
      <4>1. carried'[v][p] <= carried[v][p]
        BY <1>9, <3>2
      <4>2. carried'[v][p] \in 0 .. Hold + Recent + 1 /\ carried[v][p] \in 0 .. Hold + Recent + 1
        BY <1>0, <1>9, <3>2
      <4>3. table[c][p].age \in 0 .. Keep
        BY <2>0 DEF SlotStates
      <4> QED BY <4>1, <4>2, <4>3, Numbers
    <3> HIDE DEF v
    <3>4. carried'[v][p] <= table[c][p].age
      BY <3>2, <3>3
    <3> QED BY <3>1, <3>4 DEF v
  <2> QED BY <2>1, <2>2, <2>3
<1>11. ASSUME NEW c \in Cars, NEW p \in Cars
       PROVE  table'[c][p] = IF c = o /\ p \in listed THEN SummedUp(heard[c][p]) ELSE heard[c][p]
  BY <1>0, <1>6, <1>7 DEF Tables
<1>12. table' \in [Cars -> [Cars -> SlotStates]]
  <2>1. \A c, p \in Cars : heard[c][p] \in SlotStates
    BY <1>6 DEF Tables
  <2>2. \A p \in Cars : (IF p \in listed THEN SummedUp(heard[o][p]) ELSE heard[o][p]) \in SlotStates
    BY <1>0, <2>1, ToldSlots
  <2> QED BY <1>0, <1>6, <1>7, <2>2 DEF Tables
<1>13. table' \in Tables /\ Vacant(table') /\ Relays(table', carried')
  <2>1. \A c, p \in Cars : \/ table'[c][p] = heard[c][p]
                           \/ /\ c = o /\ p \in listed
                              /\ table'[c][p] \in {SummedUp(heard[c][p]), SaidEarly(heard[c][p])}
    BY <1>11
  <2>2. \A p \in listed : p # o /\ p \in Riders[setting]
    BY <1>3, <1>4 DEF Others
  <2> QED BY <1>0, <1>6, <1>8, <1>10, <1>12, <2>1, <2>2, ToldTable
<1>14. /\ prefs' \in [Cars -> [Cars -> 0 .. Hold]] /\ \A d \in Cars : InRoom(prefs'[d])
       /\ \A d, p \in Cars : prefs'[d][p] > 0 =>
             prefs'[d][p] <= prefs[d][p] \/ Vouched(heard, o, d, p)
       /\ stamp' \in [Cars -> [Cars -> 0 .. Unsaid]]
  BY <1>0, <1>4, <1>6, <1>7, Telling
<1>15. Lapsing(prefs', carried')
  <2>1. \A p \in Cars : heard[o][p] = table[o][p]
    BY <1>0, <1>3, <1>5
  <2>2. \A p \in Cars : heard[o][p].hops = Relayed /\ heard[o][p].via \in Cars =>
           carried[heard[o][p].via][p] <= heard[o][p].age
    BY <1>0, <2>1 DEF Relays
  <2> QED BY <1>0, <1>6, <1>9, <1>14, <2>2, EarnedNow
<1>16. Shape'
  <2>1. (sent[o] + 1) % EveryPositions \in 0 .. EveryPositions - 1
    <3>1. sent[o] \in 0 .. EveryPositions - 1 /\ EveryPositions \in Nat \ {0}
      BY <1>0, Numbers DEF IInv, Shape
    <3> QED BY <3>1
  <2>2. sent' \in [Cars -> 0 .. EveryPositions - 1]
    BY <1>2, <2>1 DEF IInv, Shape
  <2>3. cursor' \in [Cars -> 0 .. Interval]
    BY <1>0, <1>1, CursorType DEF IInv, Shape
  <2> QED BY <1>2, <1>14, <2>2, <2>3 DEF IInv, Shape
<1>17. Evidence'
  BY <1>2, <1>9, <1>13 DEF Evidence, Tables, Vacant, Relays
<1>18. Preferred'
  BY <1>2, <1>14, <1>15 DEF Preferred, InRoom, Lapsing
<1> QED BY <1>16, <1>17, <1>18 DEF IInv

LEMMA TickStep ==
    ASSUME IInv, Tick
    PROVE  IInv'
<1>0. /\ setting \in Settings /\ table \in Tables /\ Vacant(table)
      /\ carried \in [Cars -> [Cars -> 0 .. Hold + Recent + 1]] /\ Relays(table, carried)
      /\ prefs \in [Cars -> [Cars -> 0 .. Hold]] /\ \A c \in Cars : InRoom(prefs[c])
      /\ Lapsing(prefs, carried) /\ stamp \in [Cars -> [Cars -> 0 .. Unsaid]]
      /\ early \in [Cars -> [since : 0 .. Repeat, at : 0 .. NotDue]] /\ tick \in 0 .. Interval - 1
  BY DEF IInv, Shape, Evidence, Preferred
<1> DEFINE since == [c \in Cars |-> Older(early[c].since, Repeat)]
           slots == [c \in Cars |-> [o \in Cars |-> Marked(Aged(table[c][o]), since[c])]]
<1>1. /\ tick' = (tick + 1) % Interval
      /\ table' = slots
      /\ \E delay \in [{c \in Cars : early[c].at = NotDue /\ Pending(slots[c]) # {}}
                        -> 0 .. Interval \div 4] :
             early' = [c \in Cars |->
                [since |-> since[c],
                 at |-> CASE Pending(slots[c]) = {} -> NotDue
                          [] c \in DOMAIN delay -> Higher(delay[c], EarliestEarly(since[c]))
                          [] OTHER -> IF early[c].at = 0 THEN 0 ELSE early[c].at - 1]]
      /\ stamp' = [c \in Cars |-> [d \in Cars |->
             IF Fresh(slots[c][d]) THEN Older(stamp[c][d], OverHold) ELSE Unsaid]]
      /\ prefs' = [c \in Cars |-> [o \in Cars |-> IF prefs[c][o] = 0 THEN 0 ELSE prefs[c][o] - 1]]
      /\ carried' = [c \in Cars |-> [o \in Cars |-> Older(carried[c][o], Hold + Recent + 1)]]
      /\ UNCHANGED <<setting, sent, restarts, cut, cursor, known, skipped, lost>>
  BY DEF Tick
<1>2. \A c, o \in Cars : slots[c][o] = Marked(Aged(table[c][o]), since[c])
  OBVIOUS
<1>3. \A c \in Cars : since[c] \in 0 .. Repeat
  <2>1. \A c \in Cars : early[c].since \in 0 .. Repeat
    BY <1>0
  <2> QED BY <2>1, Numbers DEF Older
<1>4. tick' \in 0 .. Interval - 1
  BY <1>0, <1>1, Numbers
<1>5. early' \in [Cars -> [since : 0 .. Repeat, at : 0 .. NotDue]]
  <2> HIDE DEF slots, since
  <2>1. PICK delay \in [{c \in Cars : early[c].at = NotDue /\ Pending(slots[c]) # {}}
                        -> 0 .. Interval \div 4] :
             early' = [c \in Cars |->
                [since |-> since[c],
                 at |-> CASE Pending(slots[c]) = {} -> NotDue
                          [] c \in DOMAIN delay -> Higher(delay[c], EarliestEarly(since[c]))
                          [] OTHER -> IF early[c].at = 0 THEN 0 ELSE early[c].at - 1]]
    BY <1>1
  <2>2. ASSUME NEW c \in Cars
        PROVE  (CASE Pending(slots[c]) = {} -> NotDue
                  [] c \in DOMAIN delay -> Higher(delay[c], EarliestEarly(since[c]))
                  [] OTHER -> IF early[c].at = 0 THEN 0 ELSE early[c].at - 1) \in 0 .. NotDue
    <3>1. early[c].at \in 0 .. NotDue /\ NotDue = Interval + 1 /\ Interval \in Nat \ {0}
      BY <1>0, Numbers
    <3>2. c \in DOMAIN delay => delay[c] \in 0 .. Interval \div 4
      OBVIOUS
    <3>3. EarliestEarly(since[c]) \in 0 .. Interval
      BY <1>3, <3>1, Numbers DEF EarliestEarly
    <3>4. Interval \div 4 \in Nat /\ Interval \div 4 <= Interval
      BY <3>1
    <3>5. c \in DOMAIN delay => Higher(delay[c], EarliestEarly(since[c])) \in 0 .. NotDue
      BY <3>1, <3>2, <3>3, <3>4 DEF Higher
    <3>6. CASE Pending(slots[c]) = {}
      BY <3>1, <3>6
    <3>7. CASE Pending(slots[c]) # {} /\ c \in DOMAIN delay
      BY <3>5, <3>7
    <3>8. CASE Pending(slots[c]) # {} /\ c \notin DOMAIN delay
      BY <3>1, <3>8
    <3> QED BY <3>6, <3>7, <3>8
  <2> QED BY <1>3, <2>1, <2>2
<1>6. stamp' \in [Cars -> [Cars -> 0 .. Unsaid]]
  <2> HIDE DEF slots
  <2>1. \A c, d \in Cars : stamp[c][d] \in 0 .. Unsaid
    BY <1>0
  <2>2. \A c, d \in Cars :
           (IF Fresh(slots[c][d]) THEN Older(stamp[c][d], OverHold) ELSE Unsaid) \in 0 .. Unsaid
    BY <2>1, Numbers DEF Older
  <2> QED BY <1>1, <2>2
<1>7. /\ carried' \in [Cars -> [Cars -> 0 .. Hold + Recent + 1]]
      /\ \A c, o \in Cars : carried'[c][o] <= carried[c][o] + 1
  <2>1. \A c, o \in Cars : carried[c][o] \in 0 .. Hold + Recent + 1
    BY <1>0
  <2>2. \A c, o \in Cars : carried'[c][o] = Older(carried[c][o], Hold + Recent + 1)
    BY <1>1
  <2>3. \A c, o \in Cars : /\ Older(carried[c][o], Hold + Recent + 1) \in 0 .. Hold + Recent + 1
                           /\ Older(carried[c][o], Hold + Recent + 1) <= carried[c][o] + 1
    BY <2>1, Numbers DEF Older
  <2> QED BY <1>1, <2>2, <2>3
<1>8. slots \in Tables
  <2>1. \A c, o \in Cars : table[c][o] \in SlotStates
    BY <1>0 DEF Tables
  <2>2. \A c, o \in Cars : Marked(Aged(table[c][o]), since[c]) \in SlotStates
    BY <2>1, OlderSlots
  <2> HIDE DEF since
  <2> QED BY <2>2 DEF Tables
<1> HIDE DEF slots, since
<1>9. Vacant(slots)
  <2>1. ASSUME NEW c \in Cars, NEW o \in Cars, table[c][o] = NoSlot PROVE slots[c][o] = NoSlot
    BY <1>2, <2>1, NoSlotType, OlderSlots
  <2> QED BY <1>0, <2>1 DEF Vacant
<1>10. Relays(slots, carried')
  <2> SUFFICES ASSUME NEW c \in Cars, NEW o \in Cars,
                      slots[c][o].hops = Relayed, slots[c][o].via \in Cars
               PROVE  carried'[slots[c][o].via][o] <= slots[c][o].age
    BY DEF Relays
  <2> DEFINE s == table[c][o]
  <2>1. s \in SlotStates
    BY <1>0 DEF Tables
  <2>2. slots[c][o] # NoSlot
    BY NoSlotType DEF NoSlot
  <2>3. slots[c][o].age = s.age + 1 /\ slots[c][o].hops = s.hops /\ slots[c][o].via = s.via
    BY <1>2, <2>1, <2>2, OlderSlots
  <2>4. s.via \in Cars /\ carried[s.via][o] <= s.age
    BY <1>0, <2>3 DEF Relays
  <2> DEFINE v == s.via
  <2>5. /\ carried'[v][o] <= carried[v][o] + 1 /\ carried[v][o] \in Nat /\ carried'[v][o] \in Nat
        /\ s.age \in Nat
    <3>1. carried'[v][o] <= carried[v][o] + 1
      BY <1>7, <2>4
    <3>2. carried'[v][o] \in 0 .. Hold + Recent + 1 /\ carried[v][o] \in 0 .. Hold + Recent + 1
      BY <1>0, <1>7, <2>4
    <3>3. s.age \in 0 .. Keep
      BY <2>1 DEF SlotStates
    <3> QED BY <3>1, <3>2, <3>3, Numbers
  <2>6. carried[v][o] <= s.age /\ slots[c][o].via = v
    BY <2>3, <2>4
  <2> HIDE DEF v, s
  <2>7. carried'[v][o] <= s.age + 1
    BY <2>5, <2>6
  <2> QED BY <2>3, <2>6, <2>7
<1>11. ASSUME NEW c \in Cars, NEW o \in Cars
       PROVE  /\ prefs'[c][o] \in 0 .. Hold
              /\ prefs'[c][o] > 0 => prefs[c][o] = prefs'[c][o] + 1 /\ prefs[c][o] > 0
  <2>1. prefs[c][o] \in 0 .. Hold /\ prefs'[c][o] = IF prefs[c][o] = 0 THEN 0 ELSE prefs[c][o] - 1
    BY <1>0, <1>1
  <2> QED BY <2>1, Numbers
<1>12. prefs' \in [Cars -> [Cars -> 0 .. Hold]]
  <2>1. \A c, o \in Cars : prefs[c][o] \in 0 .. Hold
    BY <1>0
  <2>2. \A c, o \in Cars : (IF prefs[c][o] = 0 THEN 0 ELSE prefs[c][o] - 1) \in 0 .. Hold
    BY <2>1, Numbers
  <2> QED BY <1>1, <2>2
<1>13. ASSUME NEW c \in Cars PROVE InRoom(prefs'[c])
  <2> DEFINE now == {o \in Cars : prefs'[c][o] > 0}
             held == {o \in Cars : prefs[c][o] > 0}
  <2>1. now \subseteq held /\ held \subseteq Cars
    BY <1>11
  <2>2. Cardinality(held) <= PreferSlots
    BY <1>0 DEF InRoom
  <2> HIDE DEF now, held
  <2>3. Cardinality(now) <= Cardinality(held) /\ Cardinality(now) \in Nat /\ Cardinality(held) \in Nat
    BY <2>1, Ranks, FS_Subset, FS_CardinalityType
  <2>4. Cardinality(now) <= PreferSlots
    BY <2>2, <2>3, Numbers
  <2> QED BY <2>4 DEF InRoom, now
<1>14. Lapsing(prefs', carried')
  <2> SUFFICES ASSUME NEW c \in Cars, NEW o \in Cars, prefs'[c][o] > 0
               PROVE  carried'[c][o] + prefs'[c][o] <= Recent + Hold
    BY DEF Lapsing
  <2>1. prefs[c][o] > 0 /\ prefs[c][o] = prefs'[c][o] + 1 /\ prefs'[c][o] \in 0 .. Hold
    BY <1>11
  <2>2. carried[c][o] + prefs[c][o] <= Recent + Hold
    BY <1>0, <2>1 DEF Lapsing
  <2>3. carried'[c][o] <= carried[c][o] + 1
    BY <1>7
  <2>4. carried[c][o] \in 0 .. Hold + Recent + 1 /\ carried'[c][o] \in 0 .. Hold + Recent + 1
    BY <1>0, <1>7
  <2> QED BY <2>1, <2>2, <2>3, <2>4, Numbers
<1>15. Shape'
  BY <1>1, <1>4, <1>5, <1>6 DEF IInv, Shape
<1>16. Evidence'
  BY <1>1, <1>7, <1>8, <1>9, <1>10 DEF Evidence, Tables, Vacant, Relays
<1>17. Preferred'
  BY <1>12, <1>13, <1>14 DEF Preferred, InRoom, Lapsing
<1> QED BY <1>15, <1>16, <1>17 DEF IInv

LEMMA LinkStep ==
    ASSUME IInv, LinkChanges
    PROVE  IInv'
<1>1. PICK pair \in Faulty[setting] :
         cut' = IF pair \in cut THEN cut \ {pair} ELSE cut \union {pair}
  BY DEF LinkChanges
<1>2. UNCHANGED <<setting, tick, aired, sent, restarts, ownVars, wordVars, history>>
  BY DEF LinkChanges
<1>3. cut' \subseteq Faulty[setting]
  BY <1>1 DEF IInv, Shape
<1> QED BY <1>2, <1>3 DEF IInv, Shape, Evidence, Preferred, Tables, Vacant, Relays, InRoom,
          Lapsing, ownVars, wordVars, history

LEMMA RestartStep ==
    ASSUME IInv, NEW c \in Restarting[setting], Restart(c)
    PROVE  IInv'
<1>0. setting \in Settings /\ c \in Cars
  BY RidersAre DEF IInv, Shape
<1>1. /\ sent' = [sent EXCEPT ![c] = 0]
      /\ table' = [table EXCEPT ![c] = [o \in Cars |-> NoSlot]]
      /\ cursor' = [cursor EXCEPT ![c] = 0] /\ early' = [early EXCEPT ![c] = NotScheduled]
      /\ stamp' = [stamp EXCEPT ![c] = [d \in Cars |-> Unsaid]]
      /\ prefs' = [prefs EXCEPT ![c] = [o \in Cars |-> 0]]
      /\ UNCHANGED <<setting, tick, aired, cut, history>>
  BY DEF Restart
<1>2. Shape'
  <2>1. /\ 0 \in 0 .. EveryPositions - 1 /\ 0 \in 0 .. Interval /\ Unsaid \in 0 .. Unsaid
        /\ NotScheduled \in [since : 0 .. Repeat, at : 0 .. NotDue]
    BY Numbers DEF NotScheduled
  <2>2. stamp' \in [Cars -> [Cars -> 0 .. Unsaid]]
    BY <1>1, <2>1 DEF IInv, Shape
  <2>3. early' \in [Cars -> [since : 0 .. Repeat, at : 0 .. NotDue]]
    BY <1>1, <2>1 DEF IInv, Shape
  <2> QED BY <1>1, <2>1, <2>2, <2>3 DEF IInv, Shape
<1>3. Evidence'
  <2>1. \A d, o \in Cars : table'[d][o] = IF d = c THEN NoSlot ELSE table[d][o]
    BY <1>0, <1>1 DEF IInv, Evidence, Tables
  <2>2. table' \in Tables
    BY <1>1, NoSlotType DEF IInv, Evidence, Tables
  <2>3. Vacant(table')
    BY <2>1 DEF IInv, Evidence, Vacant
  <2>4. Relays(table', carried)
    <3>1. NoSlot.via \notin Cars
      BY NoSlotType DEF NoSlot
    <3> QED BY <2>1, <3>1 DEF IInv, Evidence, Relays
  <2> QED BY <1>1, <2>2, <2>3, <2>4 DEF IInv, Evidence, Tables, Vacant, Relays, history
<1>4. Preferred'
  <2>1. \A d, o \in Cars : prefs'[d][o] = IF d = c THEN 0 ELSE prefs[d][o]
    BY <1>0, <1>1 DEF IInv, Preferred
  <2>2. prefs' \in [Cars -> [Cars -> 0 .. Hold]]
    <3>1. 0 \in 0 .. Hold
      BY Numbers
    <3>2. [o \in Cars |-> 0] \in [Cars -> 0 .. Hold]
      BY <3>1
    <3> QED BY <1>1, <3>2 DEF IInv, Preferred
  <2>3. \A d \in Cars : InRoom(prefs'[d])
    <3>1. InRoom(prefs'[c])
      <4>1. {o \in Cars : prefs'[c][o] > 0} = {}
        BY <1>0, <2>1
      <4> QED BY <4>1, FS_EmptySet, Numbers DEF InRoom
    <3>2. \A d \in Cars \ {c} : prefs'[d] = prefs[d]
      BY <1>0, <1>1 DEF IInv, Preferred
    <3> QED BY <3>1, <3>2 DEF IInv, Preferred, InRoom
  <2>4. Lapsing(prefs', carried)
    BY <2>1 DEF IInv, Preferred, Lapsing
  <2> QED BY <1>1, <2>2, <2>3, <2>4 DEF Preferred, InRoom, Lapsing, history
<1> QED BY <1>2, <1>3, <1>4 DEF IInv

-----------------------------------------------------------------------------
(* The theorems.                                                           *)

LEMMA IInvInit ==
    ASSUME Init
    PROVE  IInv
<1>1. Shape
  <2>1. /\ 0 \in 0 .. EveryPositions - 1 /\ 0 \in 0 .. Interval /\ Unsaid \in 0 .. Unsaid
        /\ NotScheduled \in [since : 0 .. Repeat, at : 0 .. NotDue] /\ 0 \in 0 .. Interval - 1
    BY Numbers DEF NotScheduled
  <2> QED BY <2>1 DEF Init, Shape
<1>2. Evidence
  <2>1. NoSlot.via \notin Cars
    BY NoSlotType DEF NoSlot
  <2>2. table \in Tables /\ Vacant(table) /\ Relays(table, carried)
    BY <2>1, NoSlotType DEF Init, Tables, Vacant, Relays
  <2>3. carried \in [Cars -> [Cars -> 0 .. Hold + Recent + 1]]
    BY Numbers DEF Init
  <2> QED BY <2>2, <2>3 DEF Evidence
<1>3. Preferred
  <2>1. prefs \in [Cars -> [Cars -> 0 .. Hold]] /\ Lapsing(prefs, carried)
    BY Numbers DEF Init, Lapsing
  <2>2. ASSUME NEW c \in Cars PROVE InRoom(prefs[c])
    <3>1. {o \in Cars : prefs[c][o] > 0} = {}
      BY DEF Init
    <3> QED BY <3>1, FS_EmptySet, Numbers DEF InRoom
  <2> QED BY <2>1, <2>2 DEF Preferred
<1> QED BY <1>1, <1>2, <1>3 DEF IInv

LEMMA IInvNext ==
    ASSUME IInv, [Next]_vars
    PROVE  IInv'
<1>1. CASE \E c \in Riders[setting] : SendPosition(c)
  BY <1>1, SendStep
<1>2. CASE \E c \in Riders[setting] : SendEarly(c)
  BY <1>2, EarlyStep
<1>3. CASE Tick
  BY <1>3, TickStep
<1>4. CASE LinkChanges
  BY <1>4, LinkStep
<1>5. CASE \E c \in Restarting[setting] : Restart(c)
  BY <1>5, RestartStep
<1>6. CASE UNCHANGED vars
  BY <1>6 DEF IInv, Shape, Evidence, Preferred, Tables, Vacant, Relays, InRoom, Lapsing,
     vars, airVars, ownVars, wordVars, history
<1> QED BY <1>1, <1>2, <1>3, <1>4, <1>5, <1>6 DEF Next

\* Whatever is lost, cut or restarted, the tables, schedules and preferences
\* keep the invariant (Reach and RelayPrefs).
THEOREM IInvHolds == Spec => []IInv
<1> QED BY IInvInit, IInvNext, PTL DEF Spec

\* The tables of any ride keep their shape, and no car prefers more origins
\* than PREFER_SLOTS (Reach, RelayPrefs::consider).
THEOREM TypeCorrect == Spec => []TypeOK
<1>1. IInv => TypeOK
  <2> SUFFICES ASSUME IInv PROVE TypeOK
    OBVIOUS
  <2>1. \A c, o \in Cars :
          /\ table[c][o].age \in 0 .. Keep /\ table[c][o].streak \in 0 .. SteadyFixes
          /\ table[c][o].via \in Cars \union {"none"}
    BY DEF IInv, Evidence, Tables, SlotStates
  <2>2. \A c, o \in Cars :
          /\ stamp[c][o] \in 0 .. Unsaid /\ prefs[c][o] \in 0 .. Hold
          /\ o = c \/ o \notin Riders[setting] => table[c][o] = NoSlot
    BY DEF IInv, Shape, Evidence, Preferred, Vacant
  <2>3. \A c \in Cars :
          /\ early[c].since \in 0 .. Repeat /\ early[c].at \in 0 .. NotDue
          /\ sent[c] \in 0 .. EveryPositions - 1 /\ cursor[c] \in 0 .. Interval
    BY DEF IInv, Shape
  <2>4. \A c \in Cars : Cardinality({o \in Cars : prefs[c][o] > 0}) <= PreferSlots
    BY DEF IInv, Preferred, InRoom
  <2> QED BY <2>1, <2>2, <2>3, <2>4 DEF IInv, Shape, TypeOK
<1> QED BY <1>1, IInvHolds, PTL

\* A preference does not outlive what earned it, whatever is lost of the
\* summaries (RelayPrefs::consider, until).
THEOREM PreferencesEarned == Spec => []PreferenceEarned
<1>1. IInv => PreferenceEarned
  <2> SUFFICES ASSUME IInv, NEW c \in Cars, NEW o \in Cars, prefs[c][o] > 0
               PROVE  carried[c][o] <= Hold + Recent
    BY DEF PreferenceEarned
  <2>1. carried[c][o] + prefs[c][o] <= Recent + Hold
    BY DEF IInv, Preferred, Lapsing
  <2>2. prefs[c][o] \in 0 .. Hold /\ carried[c][o] \in 0 .. Hold + Recent + 1
    BY DEF IInv, Preferred, Evidence
  <2> QED BY <2>1, <2>2, Numbers
<1> QED BY <1>1, IInvHolds, PTL
=============================================================================

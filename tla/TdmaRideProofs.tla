---------------------------- MODULE TdmaRideProofs ----------------------------
(***************************************************************************)
(* Two inductive invariants of a ride, proved for any number of cars, rows,*)
(* windows and kinds of ride.                                              *)
(*                                                                         *)
(* RideInv is the shape of a ride, kept by every step, whatever is lost    *)
(* and whoever comes, goes or drives off.  From it follows TypeOK, and     *)
(* with it that no car puts its next beacon further off than a second.     *)
(* A schedule is changed field by field (SetLoss ... SetHeard), a claim    *)
(* returns a free slot (ClaimIs: Rank orders the free slots, so one has    *)
(* each place), and the frames of a pass are taken one by one (Passes).    *)
(*                                                                         *)
(* CalmInv is what holds of a ride with every car in earshot of every      *)
(* other, nothing lost and the last car on in time: each car leases Goal,  *)
(* the slot of its place in the queue, or none.  It cannot be shown alone. *)
(* A car claims that slot because its roster has every other car on it     *)
(* (Rosters, Timely: a beacon is never more than two seconds late) on      *)
(* that car's own slot (Heard); it keeps it because the maps it hears show *)
(* it there (Shown, OnAir) and show no slot that is not on the roster too  *)
(* (Links, Announced).  LeasesApart and ScheduledAirClear follow: goals    *)
(* differ, and so do the spare slots a car may add to its own.             *)
(***************************************************************************)
EXTENDS TdmaRide, FiniteSetTheorems, WellFoundedInduction, TLAPS

-----------------------------------------------------------------------------
(* Sets of naturals and places in an order.                                *)

\* A set of naturals that is not empty has a least member.
LEMMA Wellordered == \A T \in SUBSET Nat : T # {} => \E x \in T : \A y \in T : x <= y
<1> SUFFICES ASSUME NEW T \in SUBSET Nat, NEW t \in T PROVE \E x \in T : \A y \in T : x <= y
  OBVIOUS
<1> DEFINE W == {S \in SUBSET (0 .. t) : \E x \in T : S = 0 .. x}
           R == StrictSubsetOrdering(0 .. t)
<1>1. W \subseteq FiniteSubsetsOf(0 .. t)
  BY FS_Interval, FS_FiniteSubsetsOfFinite
<1>2. 0 .. t \in W
  OBVIOUS
<1>3. IsWellFoundedOn(R, FiniteSubsetsOf(0 .. t))
  BY FS_StrictSubsetOrderingWellFounded
<1>4. PICK S \in W : \A U \in W : ~(<<U, S>> \in R)
  <2> HIDE DEF R, W
  <2> QED BY <1>1, <1>2, <1>3, WFMin
<1>5. PICK x \in T : S = 0 .. x
  OBVIOUS
<1>6. ASSUME NEW y \in T, y < x PROVE FALSE
  <2>1. 0 .. y \subseteq 0 .. x /\ 0 .. y # 0 .. x
    BY <1>6
  <2>2. 0 .. y \in W
    BY <2>1, <1>5
  <2> QED BY <2>1, <2>2, <1>4, <1>5 DEF StrictSubsetOrdering
<1> QED BY <1>6

\* What Min and Max return.
LEMMA MinIs ==
    ASSUME NEW S \in SUBSET Nat, S # {}
    PROVE  Min(S) \in S /\ \A x \in S : Min(S) <= x
<1>1. \E x \in S : \A y \in S : x <= y
  BY Wellordered
<1> QED BY <1>1 DEF Min

\* A finite set of numbers has a greatest one: take a least part without.
LEMMA MaxIs ==
    ASSUME NEW S \in SUBSET Nat, S # {}, IsFiniteSet(S)
    PROVE  Max(S) \in S /\ \A x \in S : x <= Max(S)
<1> DEFINE Bad == {U \in SUBSET S : U # {} /\ ~ \E x \in U : \A y \in U : y <= x}
           R == StrictSubsetOrdering(S)
<1>1. ASSUME Bad # {} PROVE FALSE
  <2>1. Bad \subseteq FiniteSubsetsOf(S)
    BY FS_FiniteSubsetsOfFinite
  <2>2. IsWellFoundedOn(R, FiniteSubsetsOf(S))
    BY FS_StrictSubsetOrderingWellFounded
  <2>3. PICK U \in Bad : \A V \in Bad : ~(<<V, U>> \in R)
    <3> HIDE DEF R, Bad
    <3> QED BY <1>1, <2>1, <2>2, WFMin
  <2>4. PICK u \in U : TRUE
    OBVIOUS
  <2> DEFINE V == U \ {u}
  <2>5. V \in SUBSET S /\ V # U /\ V \subseteq U /\ U \in SUBSET S
    BY <2>4
  <2>6. V \notin Bad
    BY <2>3, <2>5 DEF StrictSubsetOrdering
  <2>7. CASE V = {}
    <3>1. U = {u} /\ u \in Nat
      BY <2>4, <2>7
    <3> QED BY <2>3, <3>1
  <2>8. CASE V # {}
    <3>1. PICK m \in V : \A y \in V : y <= m
      BY <2>5, <2>6, <2>8
    <3>2. \A y \in U : y = u \/ y <= m
      BY <3>1
    <3>3. m \in Nat /\ u \in Nat
      BY <2>3, <2>4, <3>1
    <3>4. \E x \in U : \A y \in U : y <= x
      <4>1. CASE u <= m
        BY <3>1, <3>2, <3>3, <4>1
      <4>2. CASE m < u
        <5>1. \A y \in U : y \in Nat
          BY <2>5
        <5>2. \A y \in U : y <= u
          BY <3>2, <3>3, <4>2, <5>1
        <5> QED BY <2>4, <5>2
      <4> QED BY <3>3, <4>1, <4>2
    <3> QED BY <2>3, <3>4
  <2> QED BY <2>7, <2>8
<1>2. \E x \in S : \A y \in S : y <= x
  BY <1>1
<1>3. PICK x \in S : \A y \in S : y <= x
  BY <1>2
<1>4. \A y \in S : x >= y
  BY <1>3
<1>5. \E z \in S : \A y \in S : z >= y
  BY <1>4
<1>6. Max(S) \in S /\ \A y \in S : Max(S) >= y
  BY <1>5 DEF Max
<1> QED BY <1>6

\* The images of finitely many are finitely many.
LEMMA ImagesFinite ==
    ASSUME NEW S, IsFiniteSet(S), NEW f
    PROVE  IsFiniteSet({f[x] : x \in S})
<1> DEFINE g == [x \in S |-> f[x]]
           T == {f[x] : x \in S}
<1>1. g \in Surjection(S, T)
  BY DEF Surjection
<1> HIDE DEF g
<1> QED BY <1>1, FS_Surjection

-----------------------------------------------------------------------------
(* Ranks.                                                                  *)

Before(F, R, t) == {u \in F : <<u, t>> \in R}

StrictOrder(F, R) ==
    /\ \A t \in F : <<t, t>> \notin R
    /\ \A t, u \in F : t # u => <<t, u>> \in R \/ <<u, t>> \in R
    /\ \A t, u, v \in F : <<t, u>> \in R /\ <<u, v>> \in R => <<t, v>> \in R

\* Places in an order: no two members have one place, and every place below
\* the size of the set is taken.
LEMMA RankBounds ==
    ASSUME NEW F, IsFiniteSet(F), NEW R, StrictOrder(F, R), NEW t \in F
    PROVE  /\ IsFiniteSet(Before(F, R, t))
           /\ Cardinality(Before(F, R, t)) \in 0 .. Cardinality(F) - 1
           /\ \A u \in F : <<t, u>> \in R =>
                Cardinality(Before(F, R, t)) < Cardinality(Before(F, R, u))
<1> DEFINE B(x) == Before(F, R, x)
<1>1. ASSUME NEW x \in F
      PROVE  /\ IsFiniteSet(B(x)) /\ Cardinality(B(x)) \in Nat
             /\ Cardinality(B(x)) < Cardinality(F) /\ x \notin B(x)
  <2>1. B(x) \in SUBSET F /\ x \notin B(x)
    BY DEF Before, StrictOrder
  <2>2. IsFiniteSet(B(x)) /\ Cardinality(B(x)) <= Cardinality(F) /\ Cardinality(B(x)) # Cardinality(F)
    BY <2>1, FS_Subset
  <2>3. Cardinality(B(x)) \in Nat /\ Cardinality(F) \in Nat
    BY <2>2, FS_CardinalityType
  <2> QED BY <2>1, <2>2, <2>3
<1>2. ASSUME NEW u \in F, <<t, u>> \in R
      PROVE  Cardinality(B(t)) < Cardinality(B(u))
  <2>1. B(t) \union {t} \in SUBSET B(u)
    BY <1>2 DEF Before, StrictOrder
  <2>2. Cardinality(B(t) \union {t}) = Cardinality(B(t)) + 1
    BY <1>1, FS_AddElement
  <2>3. Cardinality(B(t) \union {t}) <= Cardinality(B(u))
    BY <1>1, <2>1, FS_Subset
  <2> QED BY <1>1, <2>2, <2>3
<1>3. Cardinality(F) \in Nat
  BY FS_CardinalityType
<1> QED BY <1>1, <1>2, <1>3

\* Every rank below the number of elements is some element's.
LEMMA RankTaken ==
    ASSUME NEW F, IsFiniteSet(F), NEW R, StrictOrder(F, R),
           NEW r \in Nat, r < Cardinality(F)
    PROVE  \E t \in F : Cardinality(Before(F, R, t)) = r
<1> SUFFICES ASSUME \A t \in F : Cardinality(Before(F, R, t)) # r PROVE FALSE
  OBVIOUS
<1> DEFINE n == Cardinality(F)
           T == (0 .. n - 1) \ {r}
           f == [t \in F |-> Cardinality(Before(F, R, t))]
<1>1. n \in Nat
  BY FS_CardinalityType
<1>2. IsFiniteSet(0 .. n - 1) /\ Cardinality(0 .. n - 1) = n
  <2> HIDE DEF n
  <2>1. n - 1 \in Int /\ (0 > n - 1 => n = 0)
    BY <1>1
  <2>2. IsFiniteSet(0 .. n - 1) /\ Cardinality(0 .. n - 1) = IF 0 > n - 1 THEN 0 ELSE n - 1 - 0 + 1
    BY <2>1, FS_Interval
  <2> QED BY <1>1, <2>1, <2>2
<1>3. IsFiniteSet(T) /\ Cardinality(T) = n - 1
  <2> HIDE DEF n
  <2>1. r \in 0 .. n - 1
    BY <1>1 DEF n
  <2> QED BY <1>2, <2>1, FS_RemoveElement
<1>4. f \in [F -> T]
  BY RankBounds
<1>5. \A t, u \in F : t # u => f[t] # f[u]
  <2> SUFFICES ASSUME NEW t \in F, NEW u \in F, t # u, f[t] = f[u] PROVE FALSE
    OBVIOUS
  <2>1. \A x \in F : f[x] \in Nat
    BY <1>1, <1>4
  <2>2. <<t, u>> \in R \/ <<u, t>> \in R
    BY DEF StrictOrder
  <2>3. f[t] < f[u] \/ f[u] < f[t]
    BY <2>2, RankBounds
  <2> QED BY <2>1, <2>3
<1>6. \E t, u \in F : t # u /\ f[t] = f[u]
  <2> HIDE DEF f, T, n
  <2>1. Cardinality(T) < Cardinality(F)
    BY <1>1, <1>3 DEF n
  <2> QED BY <1>3, <1>4, <2>1, FS_PigeonHole
<1> QED BY <1>5, <1>6

-----------------------------------------------------------------------------
(* The constants, and the shape of a schedule and of a roster.             *)

\* The constants.
LEMMA Numbers ==
    /\ Rows \in Nat \ {0} /\ Blocks = 4 /\ Second = 4 * (Rows + 1) /\ MaxSlots = 4 * Rows
    /\ Second \in Nat \ {0} /\ MaxSlots \in Nat \ {0} /\ NoSlot = MaxSlots
    /\ Slots = 0 .. MaxSlots - 1 /\ NoSlot \notin Slots /\ Slots \subseteq Nat
    /\ HeardWindow \in Nat /\ MapTrust \in Nat /\ JoinListen \in Nat /\ Established \in Nat
    /\ ReferenceLapse \in Nat /\ Unheard \in Nat /\ Lease \in Nat
    /\ BackoffMax \in Nat \ {0} /\ LinkSeconds \in Nat \ {0}
    /\ Second < HeardWindow /\ HeardWindow < MapTrust /\ JoinListen >= 2 * Second
    /\ Unheard < Lease /\ Lease > 0
    /\ MaxRiders \in Nat /\ MaxSlots >= MaxRiders + 1
<1>1. /\ Rows \in Nat \ {0} /\ LinkSeconds \in Nat \ {0}
      /\ {HeardWindow, MapTrust, JoinListen, Established, ReferenceLapse,
          Unheard, Lease, BackoffMax} \subseteq Nat
      /\ Second < HeardWindow /\ HeardWindow < MapTrust
      /\ JoinListen >= 2 * Second
      /\ Unheard < Lease /\ BackoffMax # 0
      /\ MaxRiders \in Nat /\ MaxSlots >= MaxRiders + 1
  BY LeaseAssumption
<1>2. Second = 4 * (Rows + 1) /\ MaxSlots = 4 * Rows
  BY DEF Second, MaxSlots, Blocks
<1>3. Second \in Nat \ {0} /\ MaxSlots \in Nat \ {0}
  BY <1>1, <1>2
<1>4. NoSlot = MaxSlots /\ Slots = 0 .. MaxSlots - 1
  BY DEF NoSlot, Slots
<1> QED BY <1>1, <1>2, <1>3, <1>4 DEF Blocks

\* The cars are numbered.
LEMMA CarFacts ==
    /\ Cars \subseteq Nat \ {0} /\ IsFiniteSet(Cars) /\ Tag \in [Cars -> Nat \ {0}]
    /\ Cardinality(Cars) \in Nat
    /\ \A S \in SUBSET Cars : IsFiniteSet(S) /\ Cardinality(S) \in 0 .. Cardinality(Cars)
<1>1. Cars \subseteq Nat \ {0} /\ IsFiniteSet(Cars) /\ Tag \in [Cars -> Nat \ {0}]
  BY LeaseAssumption
<1>2. Cardinality(Cars) \in Nat
  BY <1>1, FS_CardinalityType
<1>3. ASSUME NEW S \in SUBSET Cars
      PROVE  IsFiniteSet(S) /\ Cardinality(S) \in 0 .. Cardinality(Cars)
  <2>1. IsFiniteSet(S) /\ Cardinality(S) <= Cardinality(Cars)
    BY <1>1, FS_Subset
  <2>2. Cardinality(S) \in Nat
    BY <2>1, FS_CardinalityType
  <2> QED BY <1>2, <2>1, <2>2
<1> QED BY <1>1, <1>2, <1>3

\* A slot is a row and a block, and starts in a slot of the second of its own.
LEMMA SlotFacts ==
    /\ \A t \in Slots : /\ RowOf(t) \in 0 .. Rows - 1 /\ BlockOf(t) \in 0 .. 3
                        /\ t = 4 * RowOf(t) + BlockOf(t)
                        /\ SlotStart(t) = BlockOf(t) * (Rows + 1) + RowOf(t)
                        /\ SlotStart(t) \in 0 .. Second - 1
    /\ \A t, u \in Slots : t # u => SlotStart(t) # SlotStart(u)
<1>1. ASSUME NEW t \in Slots
      PROVE  /\ RowOf(t) \in 0 .. Rows - 1 /\ BlockOf(t) \in 0 .. 3
             /\ t = 4 * RowOf(t) + BlockOf(t)
             /\ SlotStart(t) = BlockOf(t) * (Rows + 1) + RowOf(t)
             /\ SlotStart(t) \in 0 .. Second - 1
  <2>1. t \in 0 .. 4 * Rows - 1 /\ Rows \in Nat /\ Second = 4 * (Rows + 1)
    BY Numbers
  <2>2. RowOf(t) = t \div 4 /\ BlockOf(t) = t % 4
    BY DEF RowOf, BlockOf, Blocks
  <2>3. RowOf(t) \in 0 .. Rows - 1 /\ BlockOf(t) \in 0 .. 3 /\ t = 4 * RowOf(t) + BlockOf(t)
    BY <2>1, <2>2
  <2>4. SlotStart(t) = BlockOf(t) * (Rows + 1) + RowOf(t)
    BY <2>2 DEF SlotStart, Blocks
  <2>5. BlockOf(t) * (Rows + 1) + RowOf(t) \in 0 .. Second - 1
    <3>1. BlockOf(t) = 0 \/ BlockOf(t) = 1 \/ BlockOf(t) = 2 \/ BlockOf(t) = 3
      BY <2>3
    <3> HIDE DEF RowOf, BlockOf, Second
    <3> QED BY <2>1, <2>3, <3>1
  <2> QED BY <2>3, <2>4, <2>5
<1>2. ASSUME NEW t \in Slots, NEW u \in Slots, SlotStart(t) = SlotStart(u)
      PROVE  t = u
  <2> DEFINE b == BlockOf(t)
             d == BlockOf(u)
             q == RowOf(t)
             r == RowOf(u)
  <2>1. /\ b \in 0 .. 3 /\ d \in 0 .. 3 /\ q \in 0 .. Rows - 1 /\ r \in 0 .. Rows - 1
        /\ t = 4 * q + b /\ u = 4 * r + d /\ Rows \in Nat
        /\ b * (Rows + 1) + q = d * (Rows + 1) + r
    BY <1>1, <1>2, Numbers
  <2> HIDE DEF b, d, q, r
  <2>2. (b = 0 \/ b = 1 \/ b = 2 \/ b = 3) /\ (d = 0 \/ d = 1 \/ d = 2 \/ d = 3)
    BY <2>1
  <2>3. b = d /\ q = r
    BY <2>1, <2>2
  <2> QED BY <2>1, <2>3
<1> QED BY <1>1, <1>2

-----------------------------------------------------------------------------
(* A car's state. *)

Heards == [tag : Nat, at : Nat, seen : SUBSET (0 .. LinkSeconds - 1)]
Reasons == {"alone", "quiet", "outranked", "drowned", "unheard"}
Losses == [slot : Nat, why : SUBSET Reasons, hearOther : Nat, at : Nat]

Scheds ==
    [slot : 0 .. NoSlot, leaseGen : Nat, schedGen : Nat, leasedAt : Nat, heardUs : Nat,
     heardAnyone : BOOLEAN, firstHeard : Nat, listen : Nat, clashing : BOOLEAN,
     clashSince : Nat, strikes : Nat, quiet : BOOLEAN, known : Nat, waiting : BOOLEAN,
     extras : SUBSET Slots, spare : Nat, sharedBlock : 0 .. Blocks - 1, loss : Losses,
     heard : [Slots -> Heards]]

Entries ==
    [slot : 0 .. NoSlot, leaseGen : Nat, schedGen : Nat, map : [Slots -> Nat],
     at : Nat, hops : Nat, directAt : Nat]

\* A schedule object as it may be at n, but for known and the extras.
SchedOK(s, n) ==
    /\ s \in Scheds
    /\ s.leaseGen <= s.schedGen
    /\ s.listen \in JoinListen .. JoinListen + BackoffMax
    /\ s.strikes \in 0 .. 255
    /\ s.leasedAt <= n /\ s.heardUs <= n /\ s.firstHeard <= n /\ s.clashSince <= n
    /\ \A t \in Slots : s.heard[t].at <= n

\* A roster of car c as it may be at n.
RosterOK(c, r, n) ==
    /\ DOMAIN r \subseteq Cars \ {c}
    /\ r \in [DOMAIN r -> Entries]
    /\ \A d \in DOMAIN r : r[d].at <= n

\* What a pass takes from the roster, whatever happens to the lease.
LEMMA TakeViewKeeps ==
    ASSUME NEW n \in Nat, NEW c \in Cars, NEW s, SchedOK(s, n), NEW r, RosterOK(c, r, n)
    PROVE  LET v == TakeView(c, s, r, n) IN
           /\ SchedOK(v, n)
           /\ v.known = 1 + Cardinality(Live(r, n)) /\ v.waiting = (Waiting(r, n) # {})
           /\ s.schedGen <= v.schedGen /\ s.heardUs <= v.heardUs
           /\ \A d \in Live(r, n) : s.slot # NoSlot /\ r[d].map[s.slot] = Tag[c] => r[d].at <= v.heardUs
           /\ v.slot = s.slot /\ v.leasedAt = s.leasedAt /\ v.clashing = s.clashing
           /\ v.heard = s.heard /\ v.spare = s.spare /\ v.sharedBlock = s.sharedBlock
<1> DEFINE live == Live(r, n)
           seers == {e \in live : s.slot # NoSlot /\ r[e].map[s.slot] = Tag[c]}
           shown == {r[d].at : d \in seers}
           gens == {r[d].schedGen : d \in live}
           G == {s.schedGen} \union gens
           H == {s.heardUs} \union shown
           v == TakeView(c, s, r, n)
<1>1. v = [s EXCEPT !.schedGen = Max(G), !.heardUs = Max(H),
                    !.known = 1 + Cardinality(live), !.waiting = Waiting(r, n) # {}]
  <2> DEFINE w == Waiting(r, n) # {}
  <2>1. s \in Scheds
    BY DEF SchedOK
  <2>2. v = [s EXCEPT !.schedGen = Max({@} \union gens), !.heardUs = Max({@} \union shown),
                    !.known = 1 + Cardinality(live), !.waiting = w]
    BY DEF TakeView
  <2>3. [s EXCEPT !.schedGen = Max({@} \union gens), !.heardUs = Max({@} \union shown),
                    !.known = 1 + Cardinality(live), !.waiting = w]
        = [s EXCEPT !.schedGen = Max({s.schedGen} \union gens), !.heardUs = Max({s.heardUs} \union shown),
                    !.known = 1 + Cardinality(live), !.waiting = w]
    <3> HIDE DEF gens, shown, live, w, v
    <3> QED BY <2>1 DEF Scheds
  <2> QED BY <2>2, <2>3
<1>2. live \in SUBSET Cars /\ live \subseteq DOMAIN r /\ seers \in SUBSET Cars /\ seers \subseteq live
  BY DEF Live, RosterOK
<1>3. IsFiniteSet(live) /\ IsFiniteSet(seers) /\ Cardinality(live) \in Nat
  BY <1>2, CarFacts
<1>4. gens \in SUBSET Nat /\ shown \in SUBSET (0 .. n)
  BY <1>2 DEF RosterOK, Entries
<1>5. IsFiniteSet(G) /\ IsFiniteSet(H)
  <2>1. IsFiniteSet(gens)
    <3> DEFINE f == [d \in live |-> r[d].schedGen]
    <3>1. gens = {f[d] : d \in live}
      OBVIOUS
    <3> HIDE DEF f, gens, live
    <3> QED BY <1>3, <3>1, ImagesFinite
  <2>2. IsFiniteSet(shown)
    <3> DEFINE f == [d \in seers |-> r[d].at]
    <3>1. shown = {f[d] : d \in seers}
      OBVIOUS
    <3> HIDE DEF f, shown, seers
    <3> QED BY <1>3, <3>1, ImagesFinite
  <2> HIDE DEF gens, shown
  <2> QED BY <2>1, <2>2, FS_Singleton, FS_Union
<1>6. s.schedGen \in Nat /\ s.heardUs \in 0 .. n
  BY DEF SchedOK, Scheds
<1>7. Max(G) \in Nat /\ s.schedGen <= Max(G)
  <2> HIDE DEF gens
  <2>1. G \in SUBSET Nat /\ G # {}
    BY <1>4, <1>6
  <2> HIDE DEF G
  <2>2. Max(G) \in G /\ \A x \in G : x <= Max(G)
    BY <1>5, <2>1, MaxIs
  <2> QED BY <2>1, <2>2 DEF G
<1>8. Max(H) \in 0 .. n /\ s.heardUs <= Max(H) /\ \A x \in shown : x <= Max(H)
  <2> HIDE DEF shown
  <2>1. H \in SUBSET (0 .. n) /\ H # {}
    BY <1>4, <1>6
  <2> HIDE DEF H
  <2>2. Max(H) \in H /\ \A x \in H : x <= Max(H)
    BY <1>5, <2>1, MaxIs
  <2> QED BY <2>1, <2>2 DEF H
<1>9. \A d \in live : s.slot # NoSlot /\ r[d].map[s.slot] = Tag[c] => r[d].at \in shown
  OBVIOUS
<1> DEFINE g == Max(G)
           h == Max(H)
           k == 1 + Cardinality(live)
           w == Waiting(r, n) # {}
<1>10. g \in Nat /\ h \in Nat /\ k \in Nat /\ w \in BOOLEAN /\ h <= n /\ s.schedGen <= g
  BY <1>3, <1>7, <1>8
<1>11. v = [s EXCEPT !.schedGen = g, !.heardUs = h, !.known = k, !.waiting = w]
  BY <1>1
<1> HIDE DEF G, H, live, seers, shown, gens, v, g, h, k, w
<1>12. v \in Scheds
  BY <1>10, <1>11 DEF SchedOK, Scheds
<1>13. /\ v.schedGen = g /\ v.heardUs = h /\ v.known = k /\ v.waiting = w
       /\ v.leaseGen = s.leaseGen /\ v.listen = s.listen /\ v.strikes = s.strikes
       /\ v.leasedAt = s.leasedAt /\ v.firstHeard = s.firstHeard /\ v.clashSince = s.clashSince
       /\ v.heard = s.heard
  BY <1>11 DEF SchedOK, Scheds
<1>14. s.leaseGen \in Nat /\ s.schedGen \in Nat
  BY DEF SchedOK, Scheds
<1>15. SchedOK(v, n)
  BY <1>10, <1>12, <1>13, <1>14 DEF SchedOK
<1>16. /\ v.slot = s.slot /\ v.clashing = s.clashing
       /\ v.spare = s.spare /\ v.sharedBlock = s.sharedBlock
  BY <1>11 DEF SchedOK, Scheds
<1>17. \A d \in Live(r, n) : s.slot # NoSlot /\ r[d].map[s.slot] = Tag[c] => r[d].at <= v.heardUs
  BY <1>8, <1>9, <1>13 DEF live, h
<1> QED BY <1>7, <1>8, <1>13, <1>15, <1>16, <1>17 DEF live, g, h, k, w, v


\* The fields of a schedule.
LEMMA FieldsOK ==
    ASSUME NEW n \in Nat, NEW s, SchedOK(s, n)
    PROVE  /\ s \in Scheds /\ s.slot \in 0 .. NoSlot /\ s.leaseGen \in Nat /\ s.schedGen \in Nat
           /\ s.leasedAt \in 0 .. n /\ s.heardUs \in 0 .. n /\ s.heardAnyone \in BOOLEAN
           /\ s.firstHeard \in 0 .. n /\ s.listen \in Nat /\ s.clashing \in BOOLEAN
           /\ s.clashSince \in 0 .. n /\ s.strikes \in 0 .. 255 /\ s.quiet \in BOOLEAN
           /\ s.known \in Nat /\ s.waiting \in BOOLEAN /\ s.extras \in SUBSET Slots
           /\ s.spare \in Nat /\ s.sharedBlock \in 0 .. 3 /\ s.loss \in Losses
           /\ s.heard \in [Slots -> Heards]
BY Numbers DEF SchedOK, Scheds

\* One group of fields at a time: a schedule stays one.
LEMMA SetLoss ==
    ASSUME NEW n \in Nat, NEW s, SchedOK(s, n), NEW l \in Losses
    PROVE  SchedOK([s EXCEPT !.loss = l], n)
<1> DEFINE v == [s EXCEPT !.loss = l]
<1>1. v \in Scheds
  BY DEF SchedOK, Scheds
<1> QED BY <1>1 DEF SchedOK, Scheds

LEMMA SetListen ==
    ASSUME NEW n \in Nat, NEW s, SchedOK(s, n), NEW b \in BOOLEAN, NEW q \in BOOLEAN, NEW f \in 0 .. n,
           NEW l \in JoinListen .. JoinListen + BackoffMax
    PROVE  SchedOK([s EXCEPT !.heardAnyone = b, !.quiet = q, !.firstHeard = f, !.listen = l], n)
<1> DEFINE v == [s EXCEPT !.heardAnyone = b, !.quiet = q, !.firstHeard = f, !.listen = l]
<1>0. l \in Nat /\ f \in Nat /\ f <= n
  BY Numbers
<1>1. v \in Scheds
  BY <1>0 DEF SchedOK, Scheds
<1> QED BY <1>0, <1>1 DEF SchedOK, Scheds

LEMMA SetLease ==
    ASSUME NEW n \in Nat, NEW s, SchedOK(s, n), NEW t \in 0 .. NoSlot, NEW b \in BOOLEAN,
           NEW k \in 0 .. 255, NEW m \in 0 .. n
    PROVE  SchedOK([s EXCEPT !.clashing = b, !.clashSince = m, !.slot = t, !.strikes = k], n)
<1> DEFINE v == [s EXCEPT !.clashing = b, !.clashSince = m, !.slot = t, !.strikes = k]
<1>0. m \in Nat /\ m <= n /\ k \in Nat
  BY Numbers
<1>1. v \in Scheds
  BY <1>0 DEF SchedOK, Scheds
<1> QED BY <1>0, <1>1 DEF SchedOK, Scheds

LEMMA SetCalm ==
    ASSUME NEW n \in Nat, NEW s, SchedOK(s, n)
    PROVE  SchedOK([s EXCEPT !.strikes = 0], n)
<1> DEFINE v == [s EXCEPT !.strikes = 0]
<1>1. v \in Scheds
  BY DEF SchedOK, Scheds
<1> QED BY <1>1 DEF SchedOK, Scheds

LEMMA SetClaim ==
    ASSUME NEW n \in Nat, NEW s, SchedOK(s, n), NEW t \in 0 .. NoSlot, NEW g \in Nat
    PROVE  SchedOK([s EXCEPT !.slot = t, !.leasedAt = n, !.heardUs = n, !.leaseGen = g, !.schedGen = g], n)
<1> DEFINE v == [s EXCEPT !.slot = t, !.leasedAt = n, !.heardUs = n, !.leaseGen = g, !.schedGen = g]
<1>1. v \in Scheds
  BY DEF SchedOK, Scheds
<1> QED BY <1>1 DEF SchedOK, Scheds

LEMMA SetExtras ==
    ASSUME NEW n \in Nat, NEW s, SchedOK(s, n), NEW x \in SUBSET Slots
    PROVE  SchedOK([s EXCEPT !.extras = x], n)
<1> DEFINE v == [s EXCEPT !.extras = x]
<1>1. v \in Scheds
  BY DEF SchedOK, Scheds
<1> QED BY <1>1 DEF SchedOK, Scheds

LEMMA SetDraw ==
    ASSUME NEW n \in Nat, NEW s, SchedOK(s, n), NEW b \in 0 .. Blocks - 1, NEW p \in Nat
    PROVE  SchedOK([s EXCEPT !.sharedBlock = b, !.spare = p], n)
<1> DEFINE v == [s EXCEPT !.sharedBlock = b, !.spare = p]
<1>1. v \in Scheds
  BY DEF SchedOK, Scheds
<1> QED BY <1>1 DEF SchedOK, Scheds

LEMMA SetHeard ==
    ASSUME NEW n \in Nat, NEW s, SchedOK(s, n), NEW h \in [Slots -> Heards], \A t \in Slots : h[t].at <= n
    PROVE  SchedOK([s EXCEPT !.heard = h], n)
<1> DEFINE v == [s EXCEPT !.heard = h]
<1>1. v \in Scheds
  BY DEF SchedOK, Scheds
<1> QED BY <1>1 DEF SchedOK, Scheds

-----------------------------------------------------------------------------
(* Claim.                                                                  *)

SlotOrder == {p \in Slots \X Slots : LeasedBefore(p[1], p[2])}

\* Slots are claimed in one order.
LEMMA SlotOrderFacts ==
    ASSUME NEW F \in SUBSET Slots
    PROVE  /\ IsFiniteSet(F) /\ Cardinality(F) \in Nat
           /\ StrictOrder(F, SlotOrder)
           /\ \A t \in F : Before(F, SlotOrder, t) = {u \in F : LeasedBefore(u, t)}
<1>1. IsFiniteSet(F) /\ Cardinality(F) \in Nat
  <2>1. MaxSlots - 1 \in Int /\ Slots = 0 .. MaxSlots - 1
    BY Numbers
  <2>2. IsFiniteSet(Slots)
    BY <2>1, FS_Interval
  <2> QED BY <2>2, FS_Subset, FS_CardinalityType
<1>2. \A t \in F : Before(F, SlotOrder, t) = {u \in F : LeasedBefore(u, t)}
  BY DEF Before, SlotOrder
<1>3. \A t, u \in F : <<t, u>> \in SlotOrder <=> LeasedBefore(t, u)
  BY DEF SlotOrder
<1>4. \A t \in F : /\ RowOf(t) \in Int /\ BlockOf(t) \in Int
                   /\ t = 4 * RowOf(t) + BlockOf(t)
  <2> SUFFICES ASSUME NEW t \in Slots
               PROVE  RowOf(t) \in Int /\ BlockOf(t) \in Int /\ t = 4 * RowOf(t) + BlockOf(t)
    OBVIOUS
  <2>1. RowOf(t) \in 0 .. Rows - 1 /\ BlockOf(t) \in 0 .. 3 /\ t = 4 * RowOf(t) + BlockOf(t)
    BY SlotFacts
  <2>2. Rows \in Nat
    BY Numbers
  <2> QED BY <2>1, <2>2
<1>5. /\ \A t \in F : ~LeasedBefore(t, t)
      /\ \A t, u \in F : t # u => LeasedBefore(t, u) \/ LeasedBefore(u, t)
      /\ \A t, u, v \in F : LeasedBefore(t, u) /\ LeasedBefore(u, v) => LeasedBefore(t, v)
  <2>1. ASSUME NEW t \in F PROVE ~LeasedBefore(t, t)
    BY <1>4 DEF LeasedBefore
  <2>2. ASSUME NEW t \in F, NEW u \in F, t # u PROVE LeasedBefore(t, u) \/ LeasedBefore(u, t)
    BY <1>4, <2>2 DEF LeasedBefore
  <2>3. ASSUME NEW t \in F, NEW u \in F, NEW v \in F, LeasedBefore(t, u), LeasedBefore(u, v)
        PROVE  LeasedBefore(t, v)
    BY <1>4, <2>3 DEF LeasedBefore
  <2> QED BY <2>1, <2>2, <2>3
<1>6. StrictOrder(F, SlotOrder)
  BY <1>3, <1>5 DEF StrictOrder
<1> QED BY <1>1, <1>2, <1>6

\* What a pass reads off the roster.
LEMMA ViewFacts ==
    ASSUME NEW n \in Nat, NEW c \in Cars, NEW r, RosterOK(c, r, n)
    PROVE  /\ Live(r, n) \in SUBSET (Cars \ {c}) /\ Live(r, n) \subseteq DOMAIN r
           /\ Waiting(r, n) \in SUBSET Live(r, n)
           /\ Direct(r, n) \in SUBSET Live(r, n)
           /\ \A k : MapsWithin(r, n, k) \in SUBSET Direct(r, n)
           /\ \A k : FreeSlots(r, n, k) \in SUBSET Slots
           /\ Cardinality(Live(r, n)) \in 0 .. Cardinality(Cars) - 1
           /\ QueueRank(c, r, n) \in Nat
           /\ \A S \in SUBSET Cars : Cardinality({d \in S : d < c}) \in Nat
<1>1. Live(r, n) \in SUBSET (Cars \ {c}) /\ Live(r, n) \subseteq DOMAIN r
  BY DEF Live, RosterOK
<1>2. Waiting(r, n) \in SUBSET Live(r, n) /\ Direct(r, n) \in SUBSET Live(r, n)
  BY DEF Waiting, Direct
<1>3. \A k : MapsWithin(r, n, k) \in SUBSET Direct(r, n)
  BY DEF MapsWithin
<1>4. \A k : FreeSlots(r, n, k) \in SUBSET Slots
  BY DEF FreeSlots
<1>5. Cardinality(Live(r, n)) \in 0 .. Cardinality(Cars) - 1
  <2>1. Cardinality(Cars \ {c}) = Cardinality(Cars) - 1
    BY CarFacts, FS_RemoveElement
  <2>2. IsFiniteSet(Cars \ {c})
    BY CarFacts
  <2>3. Cardinality(Live(r, n)) <= Cardinality(Cars \ {c}) /\ Cardinality(Live(r, n)) \in Nat
    BY <1>1, <2>2, CarFacts, FS_Subset
  <2> QED BY <2>1, <2>3, CarFacts
<1>6. \A S \in SUBSET Cars : Cardinality({d \in S : d < c}) \in Nat
  BY CarFacts
<1>7. QueueRank(c, r, n) \in Nat
  <2>1. Waiting(r, n) \in SUBSET Cars
    BY <1>1, <1>2
  <2> QED BY <2>1, <1>6 DEF QueueRank
<1> QED BY <1>1, <1>2, <1>3, <1>4, <1>5, <1>6, <1>7

\* What Claim returns: a slot free on the roster with as many free slots
\* before it as cars ahead in the queue, or none.
LEMMA ClaimIs ==
    ASSUME NEW n \in Nat, NEW c \in Cars, NEW s, SchedOK(s, n), NEW r, RosterOK(c, r, n), NEW k
    PROVE  LET v == Claim(c, s, r, n, k)
               free == FreeSlots(r, n, k)
           IN  /\ SchedOK(v, n)
               /\ \/ QueueRank(c, r, n) >= Cardinality(free) /\ v.slot = NoSlot
                  \/ /\ v.slot \in free /\ v.leasedAt = n /\ v.heardUs = n
                     /\ Cardinality(Before(free, SlotOrder, v.slot)) = QueueRank(c, r, n)
<1> DEFINE v == Claim(c, s, r, n, k)
           free == FreeSlots(r, n, k)
           pick == QueueRank(c, r, n)
           g == s.schedGen + 1
           Rank(t) == Cardinality({u \in free : LeasedBefore(u, t)})
           t == CHOOSE x \in free : Rank(x) = pick
<1>1. free \in SUBSET Slots /\ pick \in Nat /\ Cardinality(free) \in Nat
  BY ViewFacts, SlotOrderFacts
<1>2. CASE pick >= Cardinality(free)
  <2>1. v = [s EXCEPT !.slot = NoSlot]
    BY <1>2 DEF Claim
  <2>2. /\ NoSlot \in 0 .. NoSlot /\ s.clashing \in BOOLEAN /\ s.clashSince \in 0 .. n
        /\ s.strikes \in 0 .. 255 /\ s \in Scheds
    BY FieldsOK, Numbers
  <2>3. SchedOK([s EXCEPT !.clashing = s.clashing, !.clashSince = s.clashSince,
                          !.slot = NoSlot, !.strikes = s.strikes], n)
    BY <2>2, SetLease
  <2>4. [s EXCEPT !.clashing = s.clashing, !.clashSince = s.clashSince,
                          !.slot = NoSlot, !.strikes = s.strikes] = [s EXCEPT !.slot = NoSlot]
    BY <2>2 DEF Scheds
  <2>5. v.slot = NoSlot
    BY <2>1, <2>2 DEF Scheds
  <2> QED BY <1>2, <2>1, <2>3, <2>4, <2>5
<1>3. CASE ~(pick >= Cardinality(free))
  <2>1. \E x \in free : Rank(x) = pick
    <3>1. \E x \in free : Cardinality(Before(free, SlotOrder, x)) = pick
      <4> HIDE DEF free, pick
      <4>1. pick < Cardinality(free) /\ IsFiniteSet(free) /\ StrictOrder(free, SlotOrder)
        BY <1>1, <1>3, SlotOrderFacts
      <4> QED BY <1>1, <4>1, RankTaken
    <3>2. \A x \in free : Before(free, SlotOrder, x) = {u \in free : LeasedBefore(u, x)}
      BY <1>1, SlotOrderFacts
    <3> QED BY <3>1, <3>2
  <2>2. t \in free /\ Rank(t) = pick
    BY <2>1
  <2>3. Cardinality(Before(free, SlotOrder, t)) = pick
    <3>1. Before(free, SlotOrder, t) = {u \in free : LeasedBefore(u, t)}
      <4> HIDE DEF free, t
      <4> QED BY <1>1, <2>2, SlotOrderFacts
    <3> QED BY <2>2, <3>1
  <2>4. v = [s EXCEPT !.slot = t, !.leasedAt = n, !.heardUs = n, !.leaseGen = g, !.schedGen = g]
    BY <1>3 DEF Claim
  <2>5. t \in 0 .. NoSlot /\ g \in Nat
    BY <1>1, <2>2, FieldsOK, Numbers
  <2> HIDE DEF t, g, v
  <2>6. SchedOK(v, n)
    BY <2>4, <2>5, SetClaim
  <2>7. v.slot = t /\ v.leasedAt = n /\ v.heardUs = n
    <3>1. s \in Scheds
      BY FieldsOK
    <3> QED BY <2>4, <3>1 DEF Scheds
  <2> QED BY <2>2, <2>3, <2>6, <2>7 DEF v
<1> QED BY <1>2, <1>3

-----------------------------------------------------------------------------
(* settleLease.                                                            *)

\* What settling a lease leaves alone.
Frame(v, s) ==
    /\ v.known = s.known /\ v.waiting = s.waiting /\ v.heard = s.heard
    /\ v.spare = s.spare /\ v.sharedBlock = s.sharedBlock /\ v.extras = s.extras

LEMMA SeenKeeps ==
    ASSUME NEW n \in Nat, NEW s, SchedOK(s, n), NEW b \in BOOLEAN, NEW m \in 0 .. n,
           NEW v, v = [s EXCEPT !.clashing = b, !.clashSince = m]
    PROVE  SchedOK(v, n) /\ Frame(v, s)
<1>1. s \in Scheds /\ s.slot \in 0 .. NoSlot /\ s.strikes \in 0 .. 255
  BY FieldsOK
<1>2. v = [s EXCEPT !.clashing = b, !.clashSince = m, !.slot = s.slot, !.strikes = s.strikes]
  BY <1>1 DEF Scheds
<1>3. Frame(v, s)
  BY <1>1 DEF Scheds, Frame
<1>4. SchedOK([s EXCEPT !.clashing = b, !.clashSince = m, !.slot = s.slot, !.strikes = s.strikes], n)
  BY <1>1, SetLease
<1> QED BY <1>2, <1>3, <1>4

LEMMA NoteLossKeeps ==
    ASSUME NEW n \in Nat, NEW s, SchedOK(s, n), NEW why \in SUBSET Reasons, NEW h \in Nat
    PROVE  LET v == NoteLoss(s, why, h, n)
           IN  SchedOK(v, n) /\ Frame(v, s)
<1> DEFINE v == NoteLoss(s, why, h, n)
           l == [slot |-> s.slot, why |-> why, hearOther |-> h, at |-> n]
<1>1. s \in Scheds /\ s.slot \in 0 .. NoSlot /\ s.loss \in Losses
  BY FieldsOK
<1>2. CASE s.slot = NoSlot
  <2>1. v = s
    BY <1>2 DEF NoteLoss
  <2> QED BY <2>1 DEF Frame
<1>3. CASE s.slot # NoSlot
  <2>1. l \in Losses
    BY <1>1, Numbers DEF Losses
  <2>2. v = [s EXCEPT !.loss = l]
    BY <1>3 DEF NoteLoss
  <2> HIDE DEF l, v
  <2>3. Frame(v, s)
    BY <1>1, <2>2 DEF Scheds, Frame
  <2> QED BY <2>1, <2>2, <2>3, SetLoss DEF v
<1> QED BY <1>2, <1>3

LEMMA LostKeeps ==
    ASSUME NEW n \in Nat, NEW s, SchedOK(s, n),
           NEW v, v = [s EXCEPT !.clashing = FALSE, !.slot = NoSlot, !.strikes = Min({@ + 1, 255})]
    PROVE  SchedOK(v, n) /\ Frame(v, s) /\ v.slot = NoSlot
<1> DEFINE k == Min({s.strikes + 1, 255})
<1>1. /\ s \in Scheds /\ s.strikes \in 0 .. 255 /\ s.clashSince \in 0 .. n
      /\ NoSlot \in 0 .. NoSlot
  BY FieldsOK, Numbers
<1>2. k \in 0 .. 255
  <2>1. {s.strikes + 1, 255} \in SUBSET Nat /\ {s.strikes + 1, 255} # {}
    BY <1>1
  <2>2. k \in {s.strikes + 1, 255} /\ k <= 255
    BY <2>1, MinIs
  <2> HIDE DEF k
  <2> QED BY <1>1, <2>2
<1>3. v = [s EXCEPT !.clashing = FALSE, !.clashSince = s.clashSince, !.slot = NoSlot, !.strikes = k]
  <2>1. v = [s EXCEPT !.clashing = FALSE, !.slot = NoSlot, !.strikes = k]
    BY <1>1 DEF Scheds
  <2> HIDE DEF k
  <2> QED BY <1>1, <2>1 DEF Scheds
<1> HIDE DEF k
<1>4. Frame(v, s) /\ v.slot = NoSlot
  BY <1>1, <1>3 DEF Scheds, Frame
<1>5. SchedOK([s EXCEPT !.clashing = FALSE, !.clashSince = s.clashSince, !.slot = NoSlot, !.strikes = k], n)
  BY <1>1, <1>2, SetLease
<1> QED BY <1>3, <1>4, <1>5

LEMMA ListenAfterLossKeeps ==
    ASSUME NEW n \in Nat, NEW s, SchedOK(s, n)
    PROVE  LET v == ListenAfterLoss(s, n)
           IN  SchedOK(v, n) /\ Frame(v, s) /\ v.slot = s.slot
<1> DEFINE v == ListenAfterLoss(s, n)
           a == (s.strikes - 1) * Second
           spread == Min({a, BackoffMax})
           l == JoinListen + IF s.strikes > 1 THEN s.spare % spread ELSE 0
<1>1. /\ s \in Scheds /\ s.strikes \in 0 .. 255 /\ s.spare \in Nat
      /\ s.heardAnyone \in BOOLEAN /\ s.quiet \in BOOLEAN
      /\ Second \in Nat \ {0} /\ BackoffMax \in Nat \ {0} /\ JoinListen \in Nat
  BY FieldsOK, Numbers
<1>2. v = [s EXCEPT !.firstHeard = n, !.listen = l]
  BY DEF ListenAfterLoss
<1>3. l \in JoinListen .. JoinListen + BackoffMax
  <2>1. CASE s.strikes > 1
    <3>0. a \in Nat \ {0}
      <4>1. ASSUME NEW i \in Nat \ {0}, NEW j \in Nat \ {0} PROVE i * j \in Nat \ {0}
        OBVIOUS
      <4>2. s.strikes - 1 \in Nat \ {0}
        BY <1>1, <2>1
      <4> QED BY <1>1, <4>1, <4>2
    <3> HIDE DEF a
    <3>1. {a, BackoffMax} \in SUBSET Nat /\ {a, BackoffMax} # {}
      BY <1>1, <3>0
    <3>2. spread \in {a, BackoffMax} /\ spread <= BackoffMax
      BY <3>1, MinIs
    <3>3. spread \in 1 .. BackoffMax
      BY <1>1, <3>0, <3>2
    <3> HIDE DEF spread
    <3>4. s.spare % spread \in 0 .. spread - 1
      <4>1. ASSUME NEW i \in Nat, NEW j \in Nat \ {0} PROVE i % j \in 0 .. j - 1
        OBVIOUS
      <4>2. spread \in Nat \ {0}
        BY <1>1, <3>3
      <4> QED BY <1>1, <4>1, <4>2
    <3> DEFINE q == s.spare % spread
    <3>5. l = JoinListen + q
      BY <2>1
    <3>6. q \in 0 .. spread - 1
      BY <3>4
    <3> HIDE DEF q, l
    <3> QED BY <1>1, <3>3, <3>5, <3>6
  <2>2. CASE ~(s.strikes > 1)
    BY <1>1, <2>2
  <2> QED BY <2>1, <2>2
<1>4. n \in 0 .. n
  OBVIOUS
<1> HIDE DEF l
<1>5. v = [s EXCEPT !.heardAnyone = s.heardAnyone, !.quiet = s.quiet, !.firstHeard = n, !.listen = l]
  BY <1>1, <1>2 DEF Scheds
<1>6. SchedOK(v, n)
  <2>1. SchedOK([s EXCEPT !.heardAnyone = s.heardAnyone, !.quiet = s.quiet, !.firstHeard = n, !.listen = l], n)
    BY <1>1, <1>3, <1>4, SetListen
  <2> QED BY <1>5, <2>1
<1>7. Frame(v, s) /\ v.slot = s.slot
  BY <1>1, <1>2 DEF Scheds, Frame
<1> QED BY <1>6, <1>7

LEMMA ClaimFrames ==
    ASSUME NEW n \in Nat, NEW c \in Cars, NEW s, SchedOK(s, n), NEW r, RosterOK(c, r, n), NEW k
    PROVE  Frame(Claim(c, s, r, n, k), s)
<1> DEFINE v == Claim(c, s, r, n, k)
           g == s.schedGen + 1
<1>1. s \in Scheds
  BY FieldsOK
<1> DEFINE free == FreeSlots(r, n, k)
           t == CHOOSE x \in free :
                    Cardinality({u \in free : LeasedBefore(u, x)}) = QueueRank(c, r, n)
<1>2. \/ v = [s EXCEPT !.slot = NoSlot]
      \/ v = [s EXCEPT !.slot = t, !.leasedAt = n, !.heardUs = n, !.leaseGen = g, !.schedGen = g]
  BY DEF Claim
<1> HIDE DEF v, g, t
<1>3. ASSUME v = [s EXCEPT !.slot = NoSlot] PROVE Frame(v, s)
  BY <1>1, <1>3 DEF Scheds, Frame
<1>4. ASSUME v = [s EXCEPT !.slot = t, !.leasedAt = n, !.heardUs = n, !.leaseGen = g, !.schedGen = g]
      PROVE  Frame(v, s)
  BY <1>1, <1>4 DEF Scheds, Frame
<1>5. Frame(v, s)
  BY <1>2, <1>3, <1>4
<1> QED BY <1>5 DEF v


\* What the maps on the roster say.
LEMMA VerdictTyped ==
    ASSUME NEW n \in Nat, NEW c \in Cars, NEW s, NEW r, RosterOK(c, r, n)
    PROVE  LET v == Verdict(c, s, r, n)
           IN  v.clash \in BOOLEAN /\ v.hearOther \in Nat
<1> DEFINE judges == Judges(s, r, n)
           saying == [d \in judges |-> r[d].map[s.slot]]
           other == {d \in judges : saying[d] \notin {0, Tag[c]}}
<1>1. judges \in SUBSET Cars
  BY ViewFacts DEF Judges
<1>2. Cardinality(other) \in Nat
  <2>1. other \in SUBSET Cars
    BY <1>1
  <2> HIDE DEF other
  <2> QED BY <2>1, CarFacts
<1>3. Verdict(c, s, r, n).hearOther = Cardinality(other)
  BY DEF Verdict
<1>4. Verdict(c, s, r, n).clash \in BOOLEAN
  BY DEF Verdict
<1> QED BY <1>2, <1>3, <1>4

\* The slot of a car that has one is kept, given up or taken anew.
LEMMA JudgeKeeps ==
    ASSUME NEW n \in Nat, NEW c \in Cars, NEW s, SchedOK(s, n), NEW r, RosterOK(c, r, n),
           NEW poor, NEW trust
    PROVE  LET v == JudgeLease(c, s, r, n, poor, trust)
           IN  SchedOK(v, n) /\ Frame(v, s)
<1> DEFINE x == Verdict(c, s, r, n)
           since == IF x.clash /\ ~s.clashing THEN n ELSE s.clashSince
           established == LeaseEstablished(s, n)
           shown == s.heardUs > s.leasedAt
           patient == established \/ (x.silent /\ shown)
           outranked == Outranked(c, s, r, n)
           drowned == x.clash /\ (~patient \/ n - since >= ClashPatience)
           unheard == LeaseUnheard(s, n)
           clash == x.clash
           seen == [s EXCEPT !.clashing = clash, !.clashSince = since]
           why == {w \in {"outranked", "drowned", "unheard"} :
                      \/ w = "outranked" /\ outranked
                      \/ w = "drowned" /\ drowned
                      \/ w = "unheard" /\ unheard}
           noted == NoteLoss(seen, why, x.hearOther, n)
           lost == [noted EXCEPT !.clashing = FALSE, !.slot = NoSlot, !.strikes = Min({@ + 1, 255})]
           v == JudgeLease(c, s, r, n, poor, trust)
<1>1. \/ why = {} /\ v = seen
      \/ why = {} /\ v = [seen EXCEPT !.strikes = 0]
      \/ why # {} /\ v = ListenAfterLoss(lost, n)
      \/ why # {} /\ v = Claim(c, lost, r, n, trust)
  <2> DEFINE easy == established /\ ~x.clash /\ shown
             anew == drowned \/ unheard \/ poor
  <2>1. v = IF why = {} THEN IF easy THEN [seen EXCEPT !.strikes = 0] ELSE seen
            ELSE IF anew THEN ListenAfterLoss(lost, n) ELSE Claim(c, lost, r, n, trust)
    BY DEF JudgeLease
  <2> HIDE DEF v, why, seen, lost, easy, anew
  <2> QED BY <2>1
<1>2. clash \in BOOLEAN /\ x.hearOther \in Nat
  BY VerdictTyped
<1>3. since \in 0 .. n
  <2>1. s.clashSince \in 0 .. n
    BY FieldsOK
  <2> QED BY <2>1
<1>4. why \in SUBSET Reasons
  BY DEF Reasons
<1> HIDE DEF clash, since, why, drowned
<1>7. SchedOK(seen, n) /\ Frame(seen, s)
  BY <1>2, <1>3, SeenKeeps
<1> HIDE DEF seen
<1>9. SchedOK(noted, n) /\ Frame(noted, s)
  <2>1. SchedOK(noted, n) /\ Frame(noted, seen)
    BY <1>2, <1>4, <1>7, NoteLossKeeps
  <2> HIDE DEF noted
  <2> QED BY <1>7, <2>1 DEF Frame
<1> HIDE DEF noted
<1>10. SchedOK(lost, n) /\ Frame(lost, s)
  <2>1. SchedOK(lost, n) /\ Frame(lost, noted)
    BY <1>9, LostKeeps
  <2> HIDE DEF lost
  <2> QED BY <1>9, <2>1 DEF Frame
<1> HIDE DEF lost
<1>11. CASE why # {}
  <2>1. v = ListenAfterLoss(lost, n) \/ v = Claim(c, lost, r, n, trust)
    BY <1>1, <1>11
  <2>2. SchedOK(v, n) /\ Frame(v, lost)
    <3>1. SchedOK(ListenAfterLoss(lost, n), n) /\ Frame(ListenAfterLoss(lost, n), lost)
      BY <1>10, ListenAfterLossKeeps
    <3>2. SchedOK(Claim(c, lost, r, n, trust), n) /\ Frame(Claim(c, lost, r, n, trust), lost)
      BY <1>10, ClaimIs, ClaimFrames
    <3> HIDE DEF v
    <3> QED BY <2>1, <3>1, <3>2
  <2>3. Frame(v, s)
    BY <1>10, <2>2 DEF Frame
  <2> QED BY <2>2, <2>3
<1>12. CASE why = {} /\ v = seen
  <2> HIDE DEF v
  <2>1. SchedOK(v, n) /\ Frame(v, s)
    BY <1>7, <1>12
  <2> QED BY <2>1 DEF v
<1>13. CASE why = {} /\ v = [seen EXCEPT !.strikes = 0]
  <2> HIDE DEF v
  <2>1. SchedOK(v, n) /\ Frame(v, seen)
    <3>1. SchedOK([seen EXCEPT !.strikes = 0], n)
      BY <1>7, SetCalm
    <3>2. seen \in Scheds
      BY <1>7, FieldsOK
    <3>3. Frame(v, seen)
      BY <1>13, <3>2 DEF Scheds, Frame
    <3> QED BY <1>13, <3>1, <3>3
  <2>3. Frame(v, s)
    BY <1>7, <2>1 DEF Frame
  <2> QED BY <2>1, <2>3 DEF v
<1> QED BY <1>1, <1>11, <1>12, <1>13

\* Nothing on the roster speaks against the lease.
Unchallenged(c, s, r, n) ==
    /\ Verdict(c, s, r, n).clash = FALSE
    /\ ~Outranked(c, s, r, n) /\ ~LeaseUnheard(s, n)

\* It is kept, and stays the same lease, when nobody is heard to say otherwise.
LEMMA JudgeCalm ==
    ASSUME NEW n \in Nat, NEW c \in Cars, NEW s, SchedOK(s, n), NEW r, RosterOK(c, r, n),
           NEW poor, NEW trust, Unchallenged(c, s, r, n)
    PROVE  LET v == JudgeLease(c, s, r, n, poor, trust)
           IN  v.slot = s.slot /\ v.leasedAt = s.leasedAt /\ v.heardUs = s.heardUs
<1> DEFINE x == Verdict(c, s, r, n)
           since == IF x.clash /\ ~s.clashing THEN n ELSE s.clashSince
           established == LeaseEstablished(s, n)
           shown == s.heardUs > s.leasedAt
           patient == established \/ (x.silent /\ shown)
           drowned == x.clash /\ (~patient \/ n - since >= ClashPatience)
           clash == x.clash
           seen == [s EXCEPT !.clashing = clash, !.clashSince = since]
           why == {w \in {"outranked", "drowned", "unheard"} :
                      \/ w = "outranked" /\ Outranked(c, s, r, n)
                      \/ w = "drowned" /\ drowned
                      \/ w = "unheard" /\ LeaseUnheard(s, n)}
           v == JudgeLease(c, s, r, n, poor, trust)
<1>1. clash = FALSE /\ ~Outranked(c, s, r, n) /\ ~LeaseUnheard(s, n)
  BY DEF Unchallenged
<1>2. ~drowned
  BY <1>1
<1>3. why = {}
  BY <1>1, <1>2
<1>4. v = IF established /\ ~x.clash /\ shown THEN [seen EXCEPT !.strikes = 0] ELSE seen
  BY <1>3 DEF JudgeLease
<1>5. v = seen \/ v = [seen EXCEPT !.strikes = 0]
  BY <1>4
<1> HIDE DEF clash, since, v
<1>6. s \in Scheds
  BY FieldsOK
<1>7. /\ v.slot = s.slot
      /\ v.leasedAt = s.leasedAt /\ v.heardUs = s.heardUs
  BY <1>5, <1>6 DEF Scheds
<1> QED BY <1>7 DEF v


LEMMA FrameTrans == \A a, b, c : Frame(a, b) /\ Frame(b, c) => Frame(a, c)
BY DEF Frame

LEMMA GreetKeeps ==
    ASSUME NEW n \in Nat, NEW s, SchedOK(s, n)
    PROVE  LET v == Greet(s, n)
           IN  /\ SchedOK(v, n) /\ Frame(v, s) /\ v.slot = s.slot /\ v.clashing = s.clashing
               /\ v.leasedAt = s.leasedAt /\ v.heardUs = s.heardUs
<1> DEFINE v == Greet(s, n)
<1>1. /\ s \in Scheds /\ s.quiet \in BOOLEAN /\ JoinListen \in Nat /\ BackoffMax \in Nat /\ n \in 0 .. n
  BY FieldsOK, Numbers
<1>2. CASE s.heardAnyone
  BY <1>2 DEF Greet, Frame
<1>3. CASE ~s.heardAnyone
  <2>1. v = [[s EXCEPT !.firstHeard = n, !.listen = JoinListen] EXCEPT !.heardAnyone = TRUE]
    BY <1>3 DEF Greet, ListenAnew
  <2> HIDE DEF v
  <2>2. v = [s EXCEPT !.heardAnyone = TRUE, !.quiet = s.quiet, !.firstHeard = n, !.listen = JoinListen]
    BY <1>1, <2>1 DEF Scheds
  <2>3. SchedOK(v, n)
    <3>1. v \in Scheds
      BY <1>1, <2>2 DEF Scheds
    <3> QED BY <1>1, <2>2, <3>1 DEF SchedOK, Scheds
  <2>4. /\ Frame(v, s) /\ v.slot = s.slot /\ v.clashing = s.clashing
        /\ v.leasedAt = s.leasedAt /\ v.heardUs = s.heardUs
    BY <1>1, <2>2 DEF Scheds, Frame
  <2> QED BY <2>2, <2>3, <2>4 DEF v
<1> QED BY <1>2, <1>3

LEMMA SpeakAgainKeeps ==
    ASSUME NEW n \in Nat, NEW s, SchedOK(s, n)
    PROVE  LET v == SpeakAgain(s, n)
           IN  /\ SchedOK(v, n) /\ Frame(v, s) /\ v.slot = s.slot /\ v.clashing = s.clashing
               /\ v.leasedAt = s.leasedAt /\ v.heardUs = s.heardUs
<1> DEFINE v == SpeakAgain(s, n)
<1>1. /\ s \in Scheds /\ s.heardAnyone \in BOOLEAN /\ JoinListen \in Nat /\ BackoffMax \in Nat /\ n \in 0 .. n
  BY FieldsOK, Numbers
<1>2. CASE ~s.quiet
  BY <1>2 DEF SpeakAgain, Frame
<1>3. CASE s.quiet
  <2>1. v = [[s EXCEPT !.firstHeard = n, !.listen = JoinListen] EXCEPT !.quiet = FALSE]
    BY <1>3 DEF SpeakAgain, ListenAnew
  <2> HIDE DEF v
  <2>2. v = [s EXCEPT !.heardAnyone = s.heardAnyone, !.quiet = FALSE, !.firstHeard = n, !.listen = JoinListen]
    BY <1>1, <2>1 DEF Scheds
  <2>3. SchedOK(v, n)
    <3>1. v \in Scheds
      BY <1>1, <2>2 DEF Scheds
    <3> QED BY <1>1, <2>2, <3>1 DEF SchedOK, Scheds
  <2>4. /\ Frame(v, s) /\ v.slot = s.slot /\ v.clashing = s.clashing
        /\ v.leasedAt = s.leasedAt /\ v.heardUs = s.heardUs
    BY <1>1, <2>2 DEF Scheds, Frame
  <2> QED BY <2>2, <2>3, <2>4 DEF v
<1> QED BY <1>2, <1>3

LEMMA LeftAloneKeeps ==
    ASSUME NEW n \in Nat, NEW s, SchedOK(s, n)
    PROVE  LET v == LeftAlone(s, n) IN SchedOK(v, n) /\ Frame(v, s) /\ v.slot = NoSlot
<1> DEFINE u == NoteLoss(s, {"alone"}, 0, n)
           v == LeftAlone(s, n)
<1>1. SchedOK(u, n) /\ Frame(u, s)
  <2>1. {"alone"} \in SUBSET Reasons /\ 0 \in Nat
    BY DEF Reasons
  <2> QED BY <2>1, NoteLossKeeps
<1>2. v = [u EXCEPT !.slot = NoSlot, !.heardAnyone = FALSE]
  BY DEF LeftAlone
<1> HIDE DEF u, v
<1>3. SchedOK(v, n)
  <2>1. NoSlot \in 0 .. NoSlot
    BY Numbers
  <2>2. v \in Scheds
    BY <1>1, <1>2, <2>1 DEF SchedOK, Scheds
  <2> QED BY <1>1, <1>2, <2>2 DEF SchedOK, Scheds
<1>4. Frame(v, u) /\ v.slot = NoSlot
  BY <1>1, <1>2, FieldsOK DEF Scheds, Frame
<1> QED BY <1>1, <1>3, <1>4 DEF v, Frame

LEMMA GoQuietKeeps ==
    ASSUME NEW n \in Nat, NEW s, SchedOK(s, n)
    PROVE  LET v == GoQuiet(s, n) IN SchedOK(v, n) /\ Frame(v, s) /\ v.slot = NoSlot
<1> DEFINE u == NoteLoss(s, {"quiet"}, 0, n)
           v == GoQuiet(s, n)
           k == IF s.slot # NoSlot THEN FALSE ELSE u.clashing
<1>1. SchedOK(u, n) /\ Frame(u, s)
  <2>1. {"quiet"} \in SUBSET Reasons /\ 0 \in Nat
    BY DEF Reasons
  <2> QED BY <2>1, NoteLossKeeps
<1>2. v = [u EXCEPT !.quiet = TRUE, !.slot = NoSlot, !.clashing = k]
  BY DEF GoQuiet
<1> HIDE DEF u, v
<1>3. SchedOK(v, n)
  <2>1. NoSlot \in 0 .. NoSlot /\ k \in BOOLEAN
    <3>1. NoSlot \in 0 .. NoSlot
      BY Numbers
    <3>2. u.clashing \in BOOLEAN
      BY <1>1, FieldsOK
    <3>3. k = FALSE \/ k = u.clashing
      OBVIOUS
    <3> HIDE DEF k
    <3> QED BY <3>1, <3>2, <3>3
  <2> HIDE DEF k
  <2>2. v \in Scheds
    BY <1>1, <1>2, <2>1 DEF SchedOK, Scheds
  <2> QED BY <1>1, <1>2, <2>2 DEF SchedOK, Scheds
<1>4. Frame(v, u) /\ v.slot = NoSlot
  <2> HIDE DEF k
  <2> QED BY <1>1, <1>2, FieldsOK DEF Scheds, Frame
<1> QED BY <1>1, <1>3, <1>4 DEF v, Frame

\* What settling a lease does, whoever the car is and whatever its roster.
LEMMA SettleKeeps ==
    ASSUME NEW n \in Nat, NEW c \in Cars, NEW s, SchedOK(s, n), NEW r, RosterOK(c, r, n),
           NEW speaking
    PROVE  LET v == SettleLease(c, s, r, n, speaking)
           IN  /\ SchedOK(v, n)
               /\ v.known = 1 + Cardinality(Live(r, n)) /\ v.waiting = (Waiting(r, n) # {})
               /\ v.heard = s.heard /\ v.spare = s.spare /\ v.sharedBlock = s.sharedBlock
<1> DEFINE s1 == TakeView(c, s, r, n)
           s2 == SpeakAgain(Greet(s1, n), n)
           v == SettleLease(c, s, r, n, speaking)
<1>1. /\ SchedOK(s1, n) /\ s1.known = 1 + Cardinality(Live(r, n)) /\ s1.waiting = (Waiting(r, n) # {})
      /\ s1.heard = s.heard /\ s1.spare = s.spare /\ s1.sharedBlock = s.sharedBlock
  BY TakeViewKeeps
<1>2. \E poor, trust :
        \/ v = LeftAlone(s1, n)
        \/ v = GoQuiet(Greet(s1, n), n)
        \/ v = JudgeLease(c, s2, r, n, poor, trust)
        \/ v = s2
        \/ v = Claim(c, s2, r, n, trust)
  <2> DEFINE poor == HearingPoorly(s2, n)
             trust == IF poor THEN MapTrust ELSE HeardWindow
  <2>1. \/ v = LeftAlone(s1, n)
        \/ v = GoQuiet(Greet(s1, n), n)
        \/ v = JudgeLease(c, s2, r, n, poor, trust)
        \/ v = s2
        \/ v = Claim(c, s2, r, n, trust)
    BY DEF SettleLease
  <2> HIDE DEF s1, s2, v, poor, trust
  <2> QED BY <2>1
<1> HIDE DEF s1, v
<1>4. SchedOK(Greet(s1, n), n) /\ Frame(Greet(s1, n), s1)
  BY <1>1, GreetKeeps
<1>5. SchedOK(s2, n) /\ Frame(s2, s1)
  BY <1>4, SpeakAgainKeeps DEF Frame
<1>6. SchedOK(v, n) /\ Frame(v, s1)
  <2>1. SchedOK(LeftAlone(s1, n), n) /\ Frame(LeftAlone(s1, n), s1)
    BY <1>1, LeftAloneKeeps
  <2>2. SchedOK(GoQuiet(Greet(s1, n), n), n) /\ Frame(GoQuiet(Greet(s1, n), n), s1)
    BY <1>4, GoQuietKeeps DEF Frame
  <2> HIDE DEF s2
  <2>3. ASSUME NEW poor, NEW trust
        PROVE  /\ SchedOK(JudgeLease(c, s2, r, n, poor, trust), n)
               /\ Frame(JudgeLease(c, s2, r, n, poor, trust), s1)
    <3>1. /\ SchedOK(JudgeLease(c, s2, r, n, poor, trust), n)
          /\ Frame(JudgeLease(c, s2, r, n, poor, trust), s2)
      BY <1>5, JudgeKeeps
    <3> QED BY <1>5, <3>1, FrameTrans
  <2>4. ASSUME NEW trust
        PROVE  SchedOK(Claim(c, s2, r, n, trust), n) /\ Frame(Claim(c, s2, r, n, trust), s1)
    <3>1. SchedOK(Claim(c, s2, r, n, trust), n)
      BY <1>5, ClaimIs
    <3>2. Frame(Claim(c, s2, r, n, trust), s2)
      BY <1>5, ClaimFrames
    <3> QED BY <1>5, <3>1, <3>2, FrameTrans
  <2> QED BY <1>2, <1>5, <2>1, <2>2, <2>3, <2>4
<1> QED BY <1>1, <1>6 DEF v, Frame

-----------------------------------------------------------------------------
(* planExtras, rebuild and heardBeacon.                                    *)

ExtrasRight(s) == s.extras \subseteq {t \in Slots \ {s.slot} : RowOf(t) = RowOf(s.slot)}

LEMMA PlanKeeps ==
    ASSUME NEW n \in Nat, NEW s, SchedOK(s, n), NEW r
    PROVE  LET v == PlanExtras(s, r, n)
           IN  /\ SchedOK(v, n) /\ ExtrasRight(v)
               /\ v.slot = s.slot /\ v.known = s.known /\ v.waiting = s.waiting
               /\ v.clashing = s.clashing /\ v.leasedAt = s.leasedAt /\ v.heardUs = s.heardUs
               /\ v.heard = s.heard /\ v.spare = s.spare /\ v.sharedBlock = s.sharedBlock
<1> DEFINE leased == LeasedBlocks(s, r, n)
           mine == {b \in (0 .. Blocks - 1) \ leased : ExtraOwner(b, leased) = BlockOf(s.slot)}
           x == IF ExtrasOff(s) THEN {} ELSE {RowOf(s.slot) * Blocks + b : b \in mine}
           v == PlanExtras(s, r, n)
<1>1. v = [s EXCEPT !.extras = x]
  BY DEF PlanExtras
<1>2. x \subseteq {t \in Slots \ {s.slot} : RowOf(t) = RowOf(s.slot)}
  <2>1. ASSUME ~ExtrasOff(s), NEW b \in 0 .. 3, b \notin leased
        PROVE  /\ RowOf(s.slot) * 4 + b \in Slots /\ RowOf(s.slot) * 4 + b # s.slot
               /\ RowOf(RowOf(s.slot) * 4 + b) = RowOf(s.slot)
    <3> DEFINE q == RowOf(s.slot)
    <3>1. s.slot \in Slots
      <4>1. s.slot # NoSlot /\ s.slot \in 0 .. NoSlot
        BY <2>1, FieldsOK DEF ExtrasOff
      <4> QED BY <4>1, Numbers
    <3>2. q \in 0 .. Rows - 1 /\ s.slot = 4 * q + BlockOf(s.slot)
      BY <3>1, SlotFacts
    <3>3. b # BlockOf(s.slot)
      BY <2>1 DEF LeasedBlocks
    <3>4. RowOf(q * 4 + b) = (q * 4 + b) \div 4
      BY DEF RowOf, Blocks
    <3>5. Rows \in Nat /\ Slots = 0 .. 4 * Rows - 1
      BY Numbers
    <3> HIDE DEF q
    <3>6. BlockOf(s.slot) \in 0 .. 3
      BY <3>1, SlotFacts
    <3>7. (q * 4 + b) \div 4 = q
      BY <3>2, <3>5
    <3>8. q * 4 + b \in Slots /\ q * 4 + b # s.slot /\ RowOf(q * 4 + b) = q
      BY <3>2, <3>3, <3>4, <3>5, <3>6, <3>7
    <3> QED BY <3>8 DEF q
  <2>2. CASE ExtrasOff(s)
    BY <2>2
  <2>3. CASE ~ExtrasOff(s)
    <3>1. x = {RowOf(s.slot) * 4 + b : b \in mine}
      BY <2>3 DEF Blocks
    <3>2. mine \subseteq (0 .. 3) \ leased
      BY DEF Blocks
    <3> HIDE DEF mine, leased
    <3>3. \A b \in mine : /\ RowOf(s.slot) * 4 + b \in Slots /\ RowOf(s.slot) * 4 + b # s.slot
                          /\ RowOf(RowOf(s.slot) * 4 + b) = RowOf(s.slot)
      BY <2>1, <2>3, <3>2
    <3> HIDE DEF x
    <3> QED BY <3>1, <3>3
  <2> QED BY <2>2, <2>3
<1>3. x \in SUBSET Slots /\ s \in Scheds
  BY <1>2, FieldsOK
<1> HIDE DEF x, v
<1>4. SchedOK([s EXCEPT !.extras = x], n)
  BY <1>3, SetExtras
<1>5. /\ v.extras = x
      /\ v.slot = s.slot /\ v.known = s.known /\ v.waiting = s.waiting
      /\ v.clashing = s.clashing /\ v.leasedAt = s.leasedAt /\ v.heardUs = s.heardUs
      /\ v.heard = s.heard /\ v.spare = s.spare /\ v.sharedBlock = s.sharedBlock
  BY <1>1, <1>3 DEF Scheds
<1>6. ExtrasRight(v)
  BY <1>2, <1>5 DEF ExtrasRight
<1> QED BY <1>1, <1>4, <1>5, <1>6 DEF v

\* A pass over the roster keeps the shape of the schedule.
LEMMA RebuildKeeps ==
    ASSUME NEW n \in Nat, NEW c \in Cars, NEW s, SchedOK(s, n), NEW r, RosterOK(c, r, n),
           NEW speaking
    PROVE  LET v == Rebuild(c, s, r, n, speaking)
           IN  /\ SchedOK(v, n) /\ ExtrasRight(v)
               /\ v.known = 1 + Cardinality(Live(r, n)) /\ v.waiting = (Waiting(r, n) # {})
               /\ v.known \in 1 .. Cardinality(Cars)
               /\ v.heard = s.heard /\ v.spare = s.spare /\ v.sharedBlock = s.sharedBlock
<1> DEFINE u == SettleLease(c, s, r, n, speaking)
           v == PlanExtras(u, r, n)
<1>1. /\ SchedOK(u, n)
      /\ u.known = 1 + Cardinality(Live(r, n)) /\ u.waiting = (Waiting(r, n) # {})
      /\ u.heard = s.heard /\ u.spare = s.spare /\ u.sharedBlock = s.sharedBlock
  BY SettleKeeps
<1> HIDE DEF u
<1>2. /\ SchedOK(v, n) /\ ExtrasRight(v) /\ v.known = u.known /\ v.waiting = u.waiting
      /\ v.heard = u.heard /\ v.spare = u.spare /\ v.sharedBlock = u.sharedBlock
  BY <1>1, PlanKeeps
<1>3. 1 + Cardinality(Live(r, n)) \in 1 .. Cardinality(Cars)
  BY ViewFacts, CarFacts
<1> HIDE DEF v
<1>4. Rebuild(c, s, r, n, speaking) = v
  BY DEF Rebuild, u, v
<1> QED BY <1>1, <1>2, <1>3, <1>4

\* So does a beacon heard.
LEMMA HeardBeaconKeeps ==
    ASSUME NEW n \in Nat, NEW s, SchedOK(s, n), NEW d \in Cars, NEW t \in 0 .. NoSlot
    PROVE  LET v == HeardBeacon(s, d, t, n)
           IN  /\ SchedOK(v, n) /\ v.slot = s.slot /\ v.extras = s.extras /\ v.known = s.known
               /\ v.waiting = s.waiting /\ v.clashing = s.clashing
               /\ v.leasedAt = s.leasedAt /\ v.heardUs = s.heardUs /\ v.sharedBlock = s.sharedBlock
               /\ \A u \in Slots : IF u = t THEN v.heard[u].tag = Tag[d] /\ v.heard[u].at = n
                                            ELSE v.heard[u] = s.heard[u]
<1> DEFINE v == HeardBeacon(s, d, t, n)
           h == s.heard[t]
           beacons == (n - h.at + Second \div 2) \div Second
           kept == IF h.tag = Tag[d] THEN Shift(h.seen, beacons) ELSE {}
           x == [tag |-> Tag[d], at |-> n, seen |-> kept \union {0}]
           H == [s.heard EXCEPT ![t] = x]
<1>1. CASE t = NoSlot
  <2>1. v = s
    BY <1>1 DEF HeardBeacon
  <2>2. t \notin Slots
    BY <1>1, Numbers
  <2> QED BY <2>1, <2>2
<1>2. CASE t # NoSlot
  <2>0. t \in Slots
    BY <1>2, Numbers
  <2>1. v = [s EXCEPT !.heard[t] = x]
    BY <1>2 DEF HeardBeacon
  <2>2. s \in Scheds /\ s.heard \in [Slots -> Heards] /\ \A u \in Slots : s.heard[u].at <= n
    BY FieldsOK DEF SchedOK
  <2>3. x \in Heards
    <3>1. h.at \in Nat /\ h.at <= n /\ h.seen \in SUBSET (0 .. LinkSeconds - 1)
      BY <2>0, <2>2 DEF Heards
    <3>2. beacons \in Nat
      <4>1. ASSUME NEW a \in Nat, NEW b \in Nat \ {0} PROVE a \div b \in Nat
        OBVIOUS
      <4>2. Second \in Nat \ {0}
        BY Numbers
      <4>3. n - h.at \in Nat
        BY <3>1
      <4>4. Second \div 2 \in Nat
        BY <4>1, <4>2
      <4>5. n - h.at + Second \div 2 \in Nat
        BY <4>3, <4>4
      <4> QED BY <4>1, <4>2, <4>5
    <3> HIDE DEF beacons
    <3>3. Shift(h.seen, beacons) \subseteq 0 .. LinkSeconds - 1
      BY <3>1, <3>2, Numbers DEF Shift
    <3>4. kept \union {0} \in SUBSET (0 .. LinkSeconds - 1)
      BY <3>3, Numbers
    <3> HIDE DEF kept
    <3>5. Tag[d] \in Nat
      BY CarFacts
    <3> QED BY <3>4, <3>5 DEF Heards
  <2> HIDE DEF x, v
  <2>4. v = [s EXCEPT !.heard = H]
    BY <2>1, <2>2 DEF Scheds
  <2>5. H \in [Slots -> Heards]
    BY <2>0, <2>2, <2>3
  <2>6. x.tag = Tag[d] /\ x.at = n
    BY DEF x
  <2>7. \A u \in Slots : H[u] = IF u = t THEN x ELSE s.heard[u]
    BY <2>0, <2>2
  <2> HIDE DEF H
  <2>8. \A u \in Slots : H[u].at <= n
    BY <2>2, <2>6, <2>7
  <2>9. SchedOK([s EXCEPT !.heard = H], n)
    BY <2>5, <2>8, SetHeard
  <2>10. /\ v.heard = H /\ v.slot = s.slot /\ v.extras = s.extras /\ v.known = s.known
         /\ v.waiting = s.waiting /\ v.clashing = s.clashing
         /\ v.leasedAt = s.leasedAt /\ v.heardUs = s.heardUs /\ v.sharedBlock = s.sharedBlock
    BY <2>2, <2>4 DEF Scheds
  <2> QED BY <2>4, <2>6, <2>7, <2>9, <2>10 DEF v
<1> QED BY <1>1, <1>2

-----------------------------------------------------------------------------
(* drainRadio.                                                             *)

\* What each frame of a pass carries on holds after all of them.
LEMMA Passes ==
    ASSUME NEW c, NEW hops, NEW frames, Cardinality(frames) \in Nat, NEW M,
           [riders |-> riders[c], sched |-> sched[c]] \in M[0],
           \A k \in 1 .. Cardinality(frames) : \A me \in M[k - 1] :
                Take(c, Nth(frames, k), hops, me) \in M[k]
    PROVE  Drained(c, frames, hops) \in M[Cardinality(frames)]
<1> DEFINE N == Cardinality(frames)
           base == [riders |-> riders[c], sched |-> sched[c]]
           Next1(n, g) == IF n = 0 THEN base ELSE Take(c, Nth(frames, n), hops, g[n - 1])
           Upto(m, g) == g = [k \in 0 .. m |-> Next1(k, g)]
           me[n \in 0 .. N] == IF n = 0 THEN base ELSE Take(c, Nth(frames, n), hops, me[n - 1])
           T == {m \in 0 .. N : ~ \E g : Upto(m, g)}
<1>1. T = {}
  <2> SUFFICES ASSUME T # {} PROVE FALSE
    OBVIOUS
  <2>1. PICK m \in T : \A y \in T : m <= y
    <3>1. T \in SUBSET Nat
      OBVIOUS
    <3> HIDE DEF T
    <3> QED BY <3>1, Wellordered
  <2>2. m \in 0 .. N /\ ~ \E g : Upto(m, g)
    OBVIOUS
  <2>3. CASE m = 0
    <3> DEFINE g == [k \in 0 .. 0 |-> base]
    <3>1. \A k \in 0 .. 0 : Next1(k, g) = base
      OBVIOUS
    <3>2. g = [k \in 0 .. 0 |-> Next1(k, g)]
      <4> HIDE DEF Next1, base
      <4> QED BY <3>1
    <3>3. Upto(0, g)
      BY <3>2
    <3> HIDE DEF Upto
    <3> QED BY <2>2, <2>3, <3>3
  <2>4. CASE m # 0
    <3>1. m - 1 \in 0 .. N /\ m \in 1 .. N /\ m - 1 < m /\ m \in Nat
      BY <2>2, <2>4
    <3>2. m - 1 \notin T
      <4> HIDE DEF T
      <4> QED BY <2>1, <3>1
    <3>3. PICK h : Upto(m - 1, h)
      BY <3>1, <3>2
    <3> DEFINE g == [k \in 0 .. m |-> IF k = m THEN Next1(m, h) ELSE h[k]]
    <3>4. \A k \in 0 .. m - 1 : h[k] = Next1(k, h)
      <4> HIDE DEF Next1
      <4> QED BY <3>3
    <3>5. ASSUME NEW k \in 0 .. m PROVE Next1(k, g) = Next1(k, h)
      <4>1. CASE k = 0
        BY <4>1
      <4>2. CASE k # 0
        <5>1. k - 1 \in 0 .. m /\ k - 1 # m
          BY <3>1, <4>2
        <5>2. g[k - 1] = h[k - 1]
          <6> HIDE DEF Next1
          <6> QED BY <5>1
        <5> HIDE DEF g
        <5> QED BY <4>2, <5>2
      <4> QED BY <4>1, <4>2
    <3>6. ASSUME NEW k \in 0 .. m PROVE g[k] = Next1(k, h)
      <4> HIDE DEF Next1
      <4>1. CASE k = m
        BY <4>1
      <4>2. CASE k # m
        <5>1. k \in 0 .. m - 1
          BY <3>1, <4>2
        <5> QED BY <3>4, <4>2, <5>1
      <4> QED BY <4>1, <4>2
    <3>7. g = [k \in 0 .. m |-> g[k]]
      <4> HIDE DEF Next1
      <4> QED OBVIOUS
    <3> HIDE DEF g, Next1
    <3>8. g = [k \in 0 .. m |-> Next1(k, g)]
      BY <3>5, <3>6, <3>7
    <3>9. Upto(m, g)
      BY <3>8
    <3> HIDE DEF Upto
    <3> QED BY <2>2, <3>9
  <2> QED BY <2>3, <2>4
<1>2. \E g : Upto(N, g)
  <2>1. N \in 0 .. N
    OBVIOUS
  <2> HIDE DEF Upto
  <2> QED BY <1>1, <2>1
<1>3. me = [n \in 0 .. N |-> IF n = 0 THEN base ELSE Take(c, Nth(frames, n), hops, me[n - 1])]
  <2>1. \E g : g = [n \in 0 .. N |-> IF n = 0 THEN base ELSE Take(c, Nth(frames, n), hops, g[n - 1])]
    BY <1>2
  <2> HIDE DEF base, N
  <2> QED BY <2>1
<1>4. Drained(c, frames, hops) = me[N]
  BY DEF Drained
<1> HIDE DEF me, T, Upto, Next1
<1> DEFINE B == {n \in 0 .. N : me[n] \notin M[n]}
<1>5. B = {}
  <2> SUFFICES ASSUME B # {} PROVE FALSE
    OBVIOUS
  <2>1. B \in SUBSET Nat
    OBVIOUS
  <2>2. PICK m \in B : \A y \in B : m <= y
    <3> HIDE DEF B
    <3> QED BY <2>1, Wellordered
  <2>3. m \in 0 .. N /\ me[m] \notin M[m]
    OBVIOUS
  <2>4. CASE m = 0
    BY <1>3, <2>3, <2>4
  <2>5. CASE m # 0
    <3>1. m \in 1 .. N /\ m - 1 \in 0 .. N /\ m - 1 < m /\ m \in Nat
      BY <2>3, <2>5
    <3>2. m - 1 \notin B
      <4> HIDE DEF B
      <4> QED BY <2>2, <3>1
    <3>3. me[m - 1] \in M[m - 1]
      BY <3>1, <3>2
    <3>4. me[m] = Take(c, Nth(frames, m), hops, me[m - 1])
      BY <1>3, <2>3, <2>5
    <3> QED BY <2>3, <3>1, <3>3, <3>4
  <2> QED BY <2>4, <2>5
<1> QED BY <1>4, <1>5


Frames ==
    [src : Cars, kind : {"alone", "lease", "shared", "extra"}, slot : 0 .. NoSlot,
     leaseGen : Nat, schedGen : Nat, map : [Slots -> Nat]]

\* Frames of one slot: a car sends one at most.
OneEach(frames) == \A f, g \in frames : f.src = g.src => f = g

Ranked(frames, f) == Cardinality({g \in frames : g.src < f.src})

\* The frames of a pass are taken one by one.
LEMMA NthIs ==
    ASSUME NEW frames \in SUBSET Frames, OneEach(frames)
    PROVE  /\ IsFiniteSet(frames) /\ Cardinality(frames) \in Nat
           /\ \A f \in frames : Ranked(frames, f) \in 0 .. Cardinality(frames) - 1
           /\ \A k \in 1 .. Cardinality(frames) :
                 Nth(frames, k) \in frames /\ Ranked(frames, Nth(frames, k)) = k - 1
           /\ \A f, g \in frames : Ranked(frames, f) = Ranked(frames, g) => f = g
<1> DEFINE R == {p \in frames \X frames : p[1].src < p[2].src}
<1>1. \A f \in frames : f.src \in Cars /\ f.src \in Nat
  BY CarFacts DEF Frames
<1>2. IsFiniteSet(frames) /\ Cardinality(frames) \in Nat
  <2> DEFINE h == [f \in frames |-> f.src]
  <2>1. h \in Injection(frames, Cars)
    BY <1>1 DEF Injection, IsInjective, OneEach
  <2>2. IsFiniteSet(frames)
    BY <2>1, CarFacts, FS_Injection
  <2> QED BY <2>2, FS_CardinalityType
<1>3. \A f, g \in frames : <<f, g>> \in R <=> f.src < g.src
  OBVIOUS
<1>4. StrictOrder(frames, R)
  <2>1. \A f \in frames : ~(f.src < f.src)
    BY <1>1
  <2>2. \A f, g \in frames : f # g => f.src < g.src \/ g.src < f.src
    BY <1>1 DEF OneEach
  <2>3. \A f, g, h \in frames : f.src < g.src /\ g.src < h.src => f.src < h.src
    BY <1>1
  <2> HIDE DEF R
  <2> QED BY <1>3, <2>1, <2>2, <2>3 DEF StrictOrder
<1>5. \A f \in frames : Cardinality(Before(frames, R, f)) = Ranked(frames, f)
  <2>1. ASSUME NEW f \in frames PROVE Before(frames, R, f) = {g \in frames : g.src < f.src}
    BY DEF Before
  <2> QED BY <2>1 DEF Ranked
<1> HIDE DEF R
<1>6. \A f \in frames : Ranked(frames, f) \in 0 .. Cardinality(frames) - 1
  BY <1>2, <1>4, <1>5, RankBounds
<1>7. ASSUME NEW k \in 1 .. Cardinality(frames)
      PROVE  Nth(frames, k) \in frames /\ Ranked(frames, Nth(frames, k)) = k - 1
  <2>1. k - 1 \in Nat /\ k - 1 < Cardinality(frames)
    BY <1>2
  <2>2. \E f \in frames : Ranked(frames, f) = k - 1
    BY <1>2, <1>4, <1>5, <2>1, RankTaken
  <2> QED BY <2>2 DEF Nth, Ranked
<1>8. ASSUME NEW f \in frames, NEW g \in frames, Ranked(frames, f) = Ranked(frames, g), f # g
      PROVE  FALSE
  <2>1. <<f, g>> \in R \/ <<g, f>> \in R
    BY <1>4, <1>8 DEF StrictOrder
  <2>2. Ranked(frames, f) < Ranked(frames, g) \/ Ranked(frames, g) < Ranked(frames, f)
    BY <1>2, <1>4, <1>5, <2>1, RankBounds
  <2> QED BY <1>2, <1>6, <1>8, <2>2
<1> QED BY <1>2, <1>6, <1>7, <1>8

\* A car as it may be now.
CarAt(c, r, s, n) ==
    /\ SchedOK(s, n) /\ RosterOK(c, r, n)
    /\ s.known \in 1 .. Cardinality(Cars) /\ ExtrasRight(s)

CarOK(c, r, s) == CarAt(c, r, s, now)

\* Mesh::note puts the frame's sender on the roster.
LEMMA NoteKeeps ==
    ASSUME NEW c \in Cars, now \in Nat, NEW r, RosterOK(c, r, now),
           NEW f \in Frames, f.src # c, NEW hops \in {0, 1}
    PROVE  LET v == Note(r, f, hops)
           IN  /\ RosterOK(c, v, now) /\ DOMAIN v = DOMAIN r \union {f.src}
               /\ \A d \in DOMAIN r \ {f.src} : v[d] = r[d]
               /\ v[f.src].slot = f.slot /\ v[f.src].leaseGen = f.leaseGen
               /\ v[f.src].schedGen = f.schedGen
               /\ v[f.src].map = f.map /\ v[f.src].at = now
               /\ hops = 0 => v[f.src].hops = 0
<1> DEFINE known == f.src \in DOMAIN r
           held == hops > 0 /\ known /\ r[f.src].hops = 0 /\ now - r[f.src].directAt < HeardWindow
           h == IF held THEN 0 ELSE hops
           a == IF hops = 0 THEN now ELSE IF known THEN r[f.src].directAt ELSE 0
           rider == [slot |-> f.slot, leaseGen |-> f.leaseGen, schedGen |-> f.schedGen,
                     map |-> f.map, at |-> now, hops |-> h, directAt |-> a]
           v == Note(r, f, hops)
<1>1. v = [d \in DOMAIN r \union {f.src} |-> IF d = f.src THEN rider ELSE r[d]]
  BY DEF Note
<1>2. h \in Nat /\ a \in Nat
  BY DEF RosterOK, Entries
<1>3. hops = 0 => h = 0
  OBVIOUS
<1> HIDE DEF h, a
<1>4. rider \in Entries
  BY <1>2 DEF Frames, Entries
<1>5. /\ rider.slot = f.slot /\ rider.leaseGen = f.leaseGen /\ rider.schedGen = f.schedGen
      /\ rider.map = f.map /\ rider.at = now /\ rider.hops = h
  OBVIOUS
<1> HIDE DEF rider, v
<1>6. /\ DOMAIN v = DOMAIN r \union {f.src}
      /\ \A d \in DOMAIN r \ {f.src} : v[d] = r[d]
      /\ v[f.src] = rider
  BY <1>1
<1>7. RosterOK(c, v, now)
  <2>1. f.src \in Cars
    BY DEF Frames
  <2>2. \A d \in DOMAIN v : v[d] \in Entries /\ v[d].at <= now
    BY <1>4, <1>5, <1>6 DEF RosterOK
  <2>3. v = [d \in DOMAIN v |-> v[d]]
    BY <1>1
  <2>4. v \in [DOMAIN v -> Entries]
    BY <2>2, <2>3
  <2> QED BY <1>6, <2>1, <2>2, <2>4 DEF RosterOK
<1> QED BY <1>3, <1>5, <1>6, <1>7 DEF v

\* One frame through drainRadio.
LEMMA TakeKeeps ==
    ASSUME NEW c \in Cars, now \in Nat, NEW me, CarOK(c, me.riders, me.sched),
           NEW f \in Frames, f.src # c, NEW hops \in {0, 1}
    PROVE  LET v == Take(c, f, hops, me)
           IN  /\ CarOK(c, v.riders, v.sched)
               /\ v = [riders |-> v.riders, sched |-> v.sched]
<1> DEFINE r == Note(me.riders, f, hops)
           s == IF hops = 0 /\ f.kind # "extra"
                THEN HeardBeacon(me.sched, f.src, f.slot, now) ELSE me.sched
           x == Rebuild(c, s, r, now, c \in feeding)
<1>1. RosterOK(c, r, now)
  BY NoteKeeps DEF CarOK, CarAt
<1>2. SchedOK(s, now)
  <2>1. f.src \in Cars /\ f.slot \in 0 .. NoSlot
    BY DEF Frames
  <2>2. SchedOK(me.sched, now)
    BY DEF CarOK, CarAt
  <2>3. SchedOK(HeardBeacon(me.sched, f.src, f.slot, now), now)
    BY <2>1, <2>2, HeardBeaconKeeps
  <2> QED BY <2>2, <2>3
<1>3. Take(c, f, hops, me) = [riders |-> r, sched |-> x]
  BY DEF Take
<1> HIDE DEF r, s
<1>4. SchedOK(x, now) /\ ExtrasRight(x) /\ x.known \in 1 .. Cardinality(Cars)
  BY <1>1, <1>2, RebuildKeeps
<1> HIDE DEF x
<1> QED BY <1>1, <1>3, <1>4 DEF CarOK, CarAt

\* A pass over any frames of others keeps the car's state in shape.
LEMMA DrainedKeeps ==
    ASSUME NEW c \in Cars, now \in Nat, CarOK(c, riders[c], sched[c]),
           NEW frames \in SUBSET Frames, OneEach(frames), \A f \in frames : f.src # c,
           NEW hops \in {0, 1}
    PROVE  LET v == Drained(c, frames, hops) IN CarOK(c, v.riders, v.sched)
<1> DEFINE V == UNION {[D -> Entries] : D \in SUBSET Cars}
           Good == {me \in [riders : V, sched : Scheds] : CarOK(c, me.riders, me.sched)}
           N == Cardinality(frames)
           M == [k \in 0 .. N |-> Good]
           base == [riders |-> riders[c], sched |-> sched[c]]
<1>1. ASSUME NEW r, NEW s, CarOK(c, r, s)
      PROVE  [riders |-> r, sched |-> s] \in Good
  <2>1. DOMAIN r \in SUBSET Cars /\ r \in [DOMAIN r -> Entries] /\ s \in Scheds
    BY <1>1 DEF CarOK, CarAt, RosterOK, SchedOK
  <2>2. r \in V
    BY <2>1
  <2> QED BY <1>1, <2>1, <2>2
<1>2. N \in Nat
  BY NthIs
<1>3. base \in M[0]
  BY <1>1, <1>2
<1>4. ASSUME NEW k \in 1 .. N, NEW me \in M[k - 1]
      PROVE  Take(c, Nth(frames, k), hops, me) \in M[k]
  <2>1. me \in Good /\ M[k] = Good
    BY <1>2, <1>4
  <2>2. Nth(frames, k) \in frames
    BY NthIs
  <2> DEFINE v == Take(c, Nth(frames, k), hops, me)
  <2>3. CarOK(c, me.riders, me.sched)
    BY <2>1
  <2>4. CarOK(c, v.riders, v.sched) /\ v = [riders |-> v.riders, sched |-> v.sched]
    BY <2>2, <2>3, TakeKeeps
  <2> HIDE DEF v, M, Good
  <2>5. v \in Good
    BY <1>1, <2>4
  <2> QED BY <2>1, <2>5 DEF v
<1>5. Drained(c, frames, hops) \in M[N]
  <2> HIDE DEF M, base
  <2> QED BY <1>2, <1>3, <1>4, Passes DEF base
<1>6. Drained(c, frames, hops) \in Good
  BY <1>2, <1>5
<1> QED BY <1>6

-----------------------------------------------------------------------------
(* The ride.                                                               *)

Radios == [want : BOOLEAN, sentOnce : BOOLEAN, deadline : Nat, announced : 0 .. NoSlot]

ClockOK ==
    /\ ride \in Rides /\ now \in 0 .. MaxNow[ride] /\ step \in {"beacon", "drain", "relay"}
    /\ turn \in on /\ on \subseteq Cars /\ feeding \subseteq Cars
    /\ links \in Topologies[ride] /\ loudest \in Louder[ride]
    /\ faults \in 0 .. MaxFaults[ride] /\ events \in 0 .. MaxEvents[ride] /\ trouble \in 0 .. now

\* In the beacon part of a slot only the cars before this one have sent.
AirOK ==
    /\ air \in SUBSET Frames /\ OneEach(air)
    /\ \A f \in air : f.src \in on /\ (step = "beacon" => f.src < turn)
    /\ got \in [Cars -> SUBSET air]

CarsOK ==
    /\ sched \in [Cars -> Scheds] /\ radio \in [Cars -> Radios]
    /\ DOMAIN riders = Cars /\ riders = [c \in Cars |-> riders[c]]
    /\ \A c \in Cars : CarOK(c, riders[c], sched[c]) /\ radio[c].deadline <= now + Second

RideInv == ClockOK /\ AirOK /\ CarsOK

LEMMA BoundsFacts ==
    ASSUME ride \in Rides
    PROVE  /\ MaxNow[ride] \in Nat /\ MaxFaults[ride] \in Nat /\ MaxEvents[ride] \in Nat
           /\ StartOn[ride] \subseteq (SUBSET Cars) \ {{}}
BY RideAssumption

LEMMA ScheduleOKFollows ==
    ASSUME now \in Nat, NEW c \in Cars, NEW r, NEW s, CarOK(c, r, s)
    PROVE  ScheduleOK(s)
<1>1. SchedOK(s, now) /\ s.known \in 1 .. Cardinality(Cars) /\ ExtrasRight(s)
  BY DEF CarOK, CarAt
<1>2. /\ s.slot \in 0 .. NoSlot /\ s.leasedAt \in 0 .. now /\ s.heardUs \in 0 .. now
      /\ s.firstHeard \in 0 .. now /\ s.clashSince \in 0 .. now
      /\ s.heard \in [Slots -> Heards]
  BY <1>1, FieldsOK
<1>3. s.slot \in Slots \union {NoSlot}
  BY <1>2, Numbers
<1>4. \A t \in Slots : s.heard[t].at <= now /\ s.heard[t].seen \subseteq 0 .. LinkSeconds - 1
  BY <1>1, <1>2 DEF SchedOK, Heards
<1>5. /\ s.leaseGen <= s.schedGen
      /\ s.listen \in JoinListen .. JoinListen + BackoffMax
      /\ s.strikes \in 0 .. 255
  BY <1>1 DEF SchedOK
<1>6. s.extras \subseteq {t \in Slots \ {s.slot} : RowOf(t) = RowOf(s.slot)}
  BY <1>1 DEF ExtrasRight
<1>7. {s.leasedAt, s.heardUs, s.firstHeard, s.clashSince} \subseteq 0 .. now
  BY <1>2
<1> QED BY <1>1, <1>3, <1>4, <1>5, <1>6, <1>7 DEF ScheduleOK

\* The invariant gives TypeOK.
LEMMA TypeOKFollows == RideInv => TypeOK
<1> SUFFICES ASSUME RideInv PROVE TypeOK
  OBVIOUS
<1>1. now \in Nat /\ ride \in Rides
  BY BoundsFacts DEF RideInv, ClockOK
<1>2. {f.src : f \in air} \subseteq on
  BY DEF RideInv, AirOK
<1>3. ASSUME NEW c \in Cars
      PROVE  /\ ScheduleOK(sched[c])
             /\ DOMAIN riders[c] \subseteq Cars \ {c}
             /\ radio[c].deadline <= now + Second
             /\ radio[c].announced \in Slots \union {NoSlot}
             /\ got[c] \subseteq air
  <2>1. CarOK(c, riders[c], sched[c]) /\ radio[c].deadline <= now + Second /\ radio[c] \in Radios
    BY DEF RideInv, CarsOK
  <2>2. ScheduleOK(sched[c])
    BY <1>1, <2>1, ScheduleOKFollows
  <2>3. radio[c].announced \in Slots \union {NoSlot}
    BY <2>1, Numbers DEF Radios
  <2>4. DOMAIN riders[c] \subseteq Cars \ {c}
    BY <2>1 DEF CarOK, CarAt, RosterOK
  <2>5. got[c] \subseteq air
    BY DEF RideInv, AirOK
  <2> QED BY <2>1, <2>2, <2>3, <2>4, <2>5
<1> QED BY <1>2, <1>3 DEF RideInv, ClockOK, TypeOK

LEMMA FreshOK ==
    ASSUME now \in Nat, NEW c \in Cars
    PROVE  /\ CarOK(c, << >>, FreshSchedule) /\ FreshSchedule \in Scheds
           /\ FreshRadio \in Radios /\ FreshRadio.deadline <= now + Second
<1>1. NeverHeard \in Heards /\ [t \in Slots |-> NeverHeard] \in [Slots -> Heards]
  BY DEF NeverHeard, Heards
<1>2. [slot |-> NoSlot, why |-> {}, hearOther |-> 0, at |-> 0] \in Losses
  BY Numbers DEF Losses
<1> DEFINE h == [t \in Slots |-> NeverHeard]
           l == [slot |-> NoSlot, why |-> {}, hearOther |-> 0, at |-> 0]
<1>3. FreshSchedule =
        [slot |-> NoSlot, leaseGen |-> 0, schedGen |-> 0, leasedAt |-> 0, heardUs |-> 0,
         heardAnyone |-> FALSE, firstHeard |-> 0, listen |-> JoinListen,
         clashing |-> FALSE, clashSince |-> 0, strikes |-> 0, quiet |-> FALSE,
         known |-> 1, waiting |-> FALSE, extras |-> {}, spare |-> 0, sharedBlock |-> 0,
         loss |-> l, heard |-> h]
  BY DEF FreshSchedule
<1>4. \A t \in Slots : h[t].at = 0
  BY DEF NeverHeard
<1> HIDE DEF h, l
<1>5. /\ NoSlot \in 0 .. NoSlot /\ JoinListen \in Nat /\ BackoffMax \in Nat /\ Second \in Nat
      /\ 0 \in 0 .. Blocks - 1
  BY Numbers DEF Blocks
<1>6. FreshSchedule \in Scheds
  BY <1>1, <1>2, <1>3, <1>5 DEF Scheds, h, l
<1>7. SchedOK(FreshSchedule, now)
  BY <1>3, <1>4, <1>5, <1>6 DEF SchedOK
<1>8. RosterOK(c, << >>, now)
  BY DEF RosterOK
<1>9. FreshSchedule.known \in 1 .. Cardinality(Cars)
  <2>1. Cardinality(Cars) # 0
    BY CarFacts, FS_EmptySet
  <2> QED BY <1>3, <2>1, CarFacts
<1>10. ExtrasRight(FreshSchedule)
  BY <1>3 DEF ExtrasRight
<1>11. FreshRadio \in Radios /\ FreshRadio.deadline <= now + Second
  BY <1>5 DEF FreshRadio, Radios
<1> QED BY <1>6, <1>7, <1>8, <1>9, <1>10, <1>11 DEF CarOK, CarAt

\* It holds at the start.
LEMMA InitRight == Init => RideInv
<1> SUFFICES ASSUME Init PROVE RideInv
  OBVIOUS
<1> USE DEF Init
<1>1. on \in SUBSET Cars /\ on # {} /\ now \in Nat
  BY BoundsFacts
<1>2. turn \in on
  <2>1. on \in SUBSET Nat
    BY <1>1, CarFacts
  <2> QED BY <1>1, <2>1, MinIs
<1>3. ClockOK
  BY <1>1, <1>2, BoundsFacts DEF ClockOK
<1>4. AirOK
  BY DEF AirOK, OneEach
<1>5. CarsOK
  <2>1. sched \in [Cars -> Scheds] /\ radio \in [Cars -> Radios]
    BY FreshOK, <1>1
  <2>2. ASSUME NEW c \in Cars PROVE CarOK(c, riders[c], sched[c]) /\ radio[c].deadline <= now + Second
    <3>1. riders[c] = << >> /\ sched[c] = FreshSchedule /\ radio[c] = FreshRadio
      OBVIOUS
    <3> QED BY <1>1, <3>1, FreshOK
  <2> QED BY <2>1, <2>2 DEF CarsOK
<1> QED BY <1>3, <1>4, <1>5 DEF RideInv


LEMMA CarLater ==
    ASSUME NEW n \in Nat, NEW m \in Nat, n <= m, NEW c \in Cars, NEW r, NEW s, CarAt(c, r, s, n)
    PROVE  CarAt(c, r, s, m)
<1>1. SchedOK(s, n) /\ RosterOK(c, r, n)
  BY DEF CarAt
<1>2. s \in Scheds /\ s.leasedAt \in Nat /\ s.heardUs \in Nat /\ s.firstHeard \in Nat /\ s.clashSince \in Nat
  BY <1>1, FieldsOK
<1>3. \A t \in Slots : s.heard[t].at \in Nat
  BY <1>1, FieldsOK DEF Heards
<1>4. SchedOK(s, m)
  <2>1. /\ s.leaseGen <= s.schedGen
        /\ s.listen \in JoinListen .. JoinListen + BackoffMax
        /\ s.strikes \in 0 .. 255
        /\ s.leasedAt <= n /\ s.heardUs <= n /\ s.firstHeard <= n /\ s.clashSince <= n
        /\ \A t \in Slots : s.heard[t].at <= n
    BY <1>1 DEF SchedOK
  <2>2. s.leasedAt <= m /\ s.heardUs <= m /\ s.firstHeard <= m /\ s.clashSince <= m
    BY <1>2, <2>1
  <2>3. \A t \in Slots : s.heard[t].at <= m
    BY <1>3, <2>1
  <2> QED BY <1>2, <2>1, <2>2, <2>3 DEF SchedOK
<1>5. RosterOK(c, r, m)
  <2>1. \A d \in DOMAIN r : r[d].at \in Nat /\ r[d].at <= n
    BY <1>1 DEF RosterOK, Entries
  <2>2. \A d \in DOMAIN r : r[d].at <= m
    BY <2>1
  <2> QED BY <1>1, <2>2 DEF RosterOK
<1> QED BY <1>4, <1>5 DEF CarAt

\* The cars that are on.
LEMMA OnFacts ==
    ASSUME ClockOK
    PROVE  /\ now \in Nat /\ on \in SUBSET Nat /\ on # {} /\ Min(on) \in on /\ turn \in Nat
           /\ \A c \in on : Min(on) <= c
           /\ \A c \in Cars : Later(c) # {} => Min(Later(c)) \in on /\ Min(Later(c)) > c
<1>1. now \in Nat
  BY BoundsFacts DEF ClockOK
<1>2. on \in SUBSET Nat /\ on # {} /\ turn \in Nat
  BY CarFacts DEF ClockOK
<1>3. Min(on) \in on /\ \A c \in on : Min(on) <= c
  BY <1>2, MinIs
<1>4. ASSUME NEW c \in Cars, Later(c) # {} PROVE Min(Later(c)) \in on /\ Min(Later(c)) > c
  <2>1. Later(c) \in SUBSET Nat
    BY <1>2 DEF Later
  <2>2. Min(Later(c)) \in Later(c)
    BY <1>4, <2>1, MinIs
  <2> QED BY <2>2 DEF Later
<1> QED BY <1>1, <1>2, <1>3, <1>4

\* Cars left alone as time passes.
LEMMA CarsKept ==
    ASSUME CarsOK, now \in Nat, now' \in {now, now + 1}, UNCHANGED <<sched, riders, radio>>
    PROVE  CarsOK'
<1>1. ASSUME NEW c \in Cars
      PROVE  CarAt(c, riders[c], sched[c], now') /\ radio[c].deadline <= now' + Second
  <2>1. CarAt(c, riders[c], sched[c], now) /\ radio[c] \in Radios /\ radio[c].deadline <= now + Second
    BY DEF CarsOK, CarOK
  <2>2. radio[c].deadline \in Nat /\ Second \in Nat
    BY <2>1, Numbers DEF Radios
  <2>3. now' \in Nat /\ now <= now'
    OBVIOUS
  <2>4. CarAt(c, riders[c], sched[c], now')
    BY <2>1, <2>3, CarLater
  <2> QED BY <2>1, <2>2, <2>3, <2>4
<1> QED BY <1>1 DEF CarsOK, CarOK

\* One car's state is replaced by one that is right now.
LEMMA CarReplaced ==
    ASSUME CarsOK, now \in Nat, now' \in {now, now + 1}, NEW c \in Cars,
           NEW s \in Scheds, NEW r, NEW x \in Radios,
           CarOK(c, r, s), x.deadline <= now + Second,
           sched' = [sched EXCEPT ![c] = s], riders' = [riders EXCEPT ![c] = r],
           radio' = [radio EXCEPT ![c] = x]
    PROVE  CarsOK'
<1>1. ASSUME NEW d \in Cars
      PROVE  CarAt(d, riders'[d], sched'[d], now') /\ radio'[d].deadline <= now' + Second
  <2>1. CASE d = c
    <3>1. riders'[d] = r /\ sched'[d] = s /\ radio'[d] = x
      BY <2>1 DEF CarsOK
    <3>2. CarAt(c, r, s, now')
      BY CarLater DEF CarOK
    <3>3. x.deadline \in Nat /\ Second \in Nat
      BY Numbers DEF Radios
    <3> QED BY <2>1, <3>1, <3>2, <3>3
  <2>2. CASE d # c
    <3>1. riders'[d] = riders[d] /\ sched'[d] = sched[d] /\ radio'[d] = radio[d]
      BY <2>2 DEF CarsOK
    <3>2. CarAt(d, riders[d], sched[d], now) /\ radio[d] \in Radios /\ radio[d].deadline <= now + Second
      BY DEF CarsOK, CarOK
    <3>3. radio[d].deadline \in Nat /\ Second \in Nat
      BY <3>2, Numbers DEF Radios
    <3> QED BY <3>1, <3>2, <3>3, CarLater
  <2> QED BY <2>1, <2>2
<1>2. sched' \in [Cars -> Scheds] /\ radio' \in [Cars -> Radios]
  BY DEF CarsOK
<1>3. DOMAIN riders' = Cars /\ riders' = [d \in Cars |-> riders'[d]]
  BY DEF CarsOK
<1> QED BY <1>1, <1>2, <1>3 DEF CarsOK, CarOK

LEMMA NextSlotRight ==
    ASSUME ClockOK, UNCHANGED <<world, events>>, NextSlot,
           faults' \in 0 .. MaxFaults[ride], trouble' \in 0 .. now
    PROVE  ClockOK' /\ AirOK' /\ now' = now + 1
<1>1. now' \in 0 .. MaxNow[ride] /\ now' = now + 1 /\ 0 .. now \subseteq 0 .. now'
  BY BoundsFacts DEF ClockOK, NextSlot
<1>2. turn' \in on'
  BY OnFacts DEF NextSlot, world
<1>3. ClockOK'
  BY <1>1, <1>2 DEF ClockOK, NextSlot, world
<1>4. AirOK'
  BY DEF AirOK, NextSlot, OneEach
<1> QED BY <1>1, <1>3, <1>4

LEMMA EndBeaconRight ==
    ASSUME ClockOK, AirOK, NEW c \in Cars, BeaconTurn(c), NEW newAir \in SUBSET Frames,
           air \subseteq newAir, \A f \in newAir : f \in air \/ f.src = c, \A f, g \in newAir : f.src = c /\ g.src = c => f = g,
           EndBeacon(c, newAir),
           faults' \in 0 .. MaxFaults[ride], trouble' \in 0 .. now
    PROVE  ClockOK' /\ AirOK' /\ now' \in {now, now + 1}
<1>0. step = "beacon" /\ turn = c /\ c \in on /\ UNCHANGED <<world, riders, events>>
  BY DEF BeaconTurn, EndBeacon, ClockOK
<1>1. OneEach(newAir)
  <2> SUFFICES ASSUME NEW f \in newAir, NEW g \in newAir, f.src = g.src PROVE f = g
    BY DEF OneEach
  <2>1. c \in Nat /\ \A h \in air : h.src \in Nat /\ h.src < c
    BY <1>0, CarFacts DEF AirOK, Frames
  <2>2. CASE f.src = c
    BY <2>2
  <2>3. CASE f.src # c
    BY <2>3 DEF AirOK, OneEach
  <2> QED BY <2>2, <2>3
<1>2. ASSUME NEW f \in newAir PROVE f.src \in on /\ f.src <= c /\ f.src \in Nat
  <2>1. c \in Nat
    BY CarFacts
  <2>2. CASE f.src = c
    BY <1>0, <2>1, <2>2
  <2>3. CASE f \in air
    <3>1. f.src \in on /\ f.src < c
      BY <1>0, <2>3 DEF AirOK
    <3>2. f.src \in Nat
      BY <3>1, OnFacts
    <3> QED BY <2>1, <3>1, <3>2
  <2> QED BY <2>2, <2>3
<1>3. CASE Later(c) # {}
  <2>1. /\ turn' = Min(Later(c)) /\ UNCHANGED <<now, step>> /\ air' = newAir /\ UNCHANGED got
    BY <1>3 DEF EndBeacon, NextCar
  <2>2. turn' \in on /\ turn' > c
    BY <1>3, <2>1, OnFacts
  <2>3. ClockOK'
    BY <1>0, <2>1, <2>2 DEF ClockOK, world
  <2>4. got \in [Cars -> SUBSET newAir]
    BY DEF AirOK
  <2>5. AirOK'
    <3>1. on' = on /\ air' = newAir /\ got' = got
      BY <1>0, <2>1 DEF world
    <3>2. c \in Nat /\ turn' \in Nat
      BY <2>2, CarFacts, OnFacts
    <3>3. \A f \in newAir : f.src < turn'
      BY <1>2, <2>2, <3>2
    <3> QED BY <1>1, <1>2, <2>4, <3>1, <3>3 DEF AirOK
  <2> QED BY <2>1, <2>3, <2>5
<1>4. CASE Later(c) = {} /\ newAir # {}
  <2>1. /\ turn' = Min(on) /\ UNCHANGED now /\ step' = "drain" /\ air' = newAir /\ UNCHANGED got
    BY <1>4 DEF EndBeacon, PassTo
  <2>2. turn' \in on
    BY <2>1, OnFacts
  <2>3. ClockOK'
    BY <1>0, <2>1, <2>2 DEF ClockOK, world
  <2>5. AirOK'
    <3>1. got \in [Cars -> SUBSET newAir]
      BY DEF AirOK
    <3> QED BY <1>0, <1>1, <1>2, <2>1, <2>2, <3>1 DEF AirOK, world
  <2> QED BY <2>1, <2>3, <2>5
<1>5. CASE Later(c) = {} /\ newAir = {}
  <2>1. NextSlot
    BY <1>5 DEF EndBeacon
  <2> QED BY <1>0, <2>1, NextSlotRight
<1> QED BY <1>3, <1>4, <1>5

-----------------------------------------------------------------------------
(* beacon().                                                               *)

LEMMA NextOnGridIs ==
    ASSUME now \in Nat, NEW d \in Nat, d <= now + Second
    PROVE  NextOnGrid(d) \in Nat /\ now < NextOnGrid(d) /\ NextOnGrid(d) <= now + Second
<1>1. Second \in Nat \ {0}
  BY Numbers
<1>2. CASE now < d
  BY <1>1, <1>2 DEF NextOnGrid
<1>3. CASE ~(now < d)
  <2> DEFINE a == now - d
             q == a \div Second
             p == q * Second
  <2>1. a \in Nat
    BY <1>3
  <2>2. \A x \in Nat, y \in Nat \ {0} : /\ x \div y \in Nat /\ (x \div y) * y <= x
                                        /\ x < (x \div y) * y + y
    OBVIOUS
  <2> HIDE DEF a
  <2>3. q \in Nat /\ p <= a /\ a < p + Second
    BY <1>1, <2>1, <2>2
  <2>4. p \in Nat
    BY <1>1, <2>3
  <2>5. (q + 1) * Second = p + Second
    BY <1>1, <2>3
  <2>6. NextOnGrid(d) = d + (q + 1) * Second
    BY <1>3 DEF NextOnGrid, a
  <2> HIDE DEF q, p
  <2>7. NextOnGrid(d) = d + (p + Second)
    BY <2>5, <2>6
  <2> QED BY <1>1, <2>1, <2>3, <2>4, <2>7 DEF a
<1> QED BY <1>2, <1>3

LEMMA FillBeaconTyped ==
    ASSUME now \in Nat, NEW c \in Cars, NEW s \in Scheds, NEW k \in {"alone", "lease", "shared", "extra"}
    PROVE  FillBeacon(c, s, k) \in Frames
<1>1. s.heard \in [Slots -> Heards] /\ s.slot \in 0 .. NoSlot /\ s.leaseGen \in Nat /\ s.schedGen \in Nat
  BY DEF Scheds
<1>2. \A t \in Slots : s.heard[t].tag \in Nat
  BY <1>1 DEF Heards
<1>3. SlotMap(s, now) \in [Slots -> Nat]
  BY <1>2 DEF SlotMap
<1> QED BY <1>1, <1>3 DEF FillBeacon, Frames

LEMMA SchedulesKeep ==
    ASSUME now \in Nat, NEW c \in Cars, CarOK(c, riders[c], sched[c]), NEW s \in Schedules(c)
    PROVE  CarOK(c, riders[c], s) /\ s \in Scheds
<1>1. CASE ~Due(c)
  BY <1>1 DEF Schedules, CarOK, CarAt, SchedOK
<1>2. CASE Due(c)
  <2>1. PICK draw \in Draws : s = Reread(c, draw)
    BY <1>2 DEF Schedules
  <2> DEFINE v == Rebuild(c, sched[c], riders[c], now, TRUE)
             b == draw.block
             p == draw.spare
  <2>2. b \in 0 .. Blocks - 1 /\ p \in Nat
    BY RideAssumption
  <2>3. SchedOK(v, now) /\ ExtrasRight(v) /\ v.known \in 1 .. Cardinality(Cars)
    BY RebuildKeeps DEF CarOK, CarAt
  <2>4. s = [v EXCEPT !.sharedBlock = b, !.spare = p]
    BY <2>1 DEF Reread
  <2> HIDE DEF v, b, p
  <2>5. v \in Scheds
    BY <2>3, FieldsOK
  <2>6. SchedOK([v EXCEPT !.sharedBlock = b, !.spare = p], now)
    BY <2>2, <2>3, SetDraw
  <2>7. s.slot = v.slot /\ s.extras = v.extras /\ s.known = v.known
    BY <2>4, <2>5 DEF Scheds
  <2>8. SchedOK(s, now)
    BY <2>4, <2>6
  <2>9. ExtrasRight(s)
    BY <2>3, <2>7 DEF ExtrasRight
  <2> QED BY <2>3, <2>7, <2>8, <2>9 DEF CarOK, CarAt, SchedOK
<1> QED BY <1>1, <1>2

LEMMA CarFactsNow ==
    ASSUME CarsOK, ClockOK, NEW c \in Cars
    PROVE  /\ now \in Nat /\ CarOK(c, riders[c], sched[c]) /\ sched[c] \in Scheds
           /\ radio[c] \in Radios /\ radio[c].deadline \in Nat /\ radio[c].deadline <= now + Second
BY OnFacts DEF CarsOK, Radios

LEMMA NoBeaconRight == ASSUME RideInv, NEW c \in Cars, NoBeacon(c) PROVE RideInv'
<1>1. /\ BeaconTurn(c) /\ EndBeacon(c, air) /\ UNCHANGED <<sched, radio, faults, trouble>>
      /\ UNCHANGED <<world, riders, events>>
  BY DEF NoBeacon, EndBeacon
<1>2. faults' \in 0 .. MaxFaults[ride] /\ trouble' \in 0 .. now
  BY <1>1 DEF RideInv, ClockOK
<1>3. /\ air \in SUBSET Frames /\ \A f \in air : f \in air \/ f.src = c
      /\ \A f, g \in air : f.src = c /\ g.src = c => f = g
  BY DEF RideInv, AirOK, OneEach
<1>4. ClockOK' /\ AirOK' /\ now' \in {now, now + 1}
  BY <1>1, <1>2, <1>3, EndBeaconRight DEF RideInv
<1>5. CarsOK'
  BY <1>1, <1>4, CarsKept, OnFacts DEF RideInv
<1> QED BY <1>4, <1>5 DEF RideInv

\* The frame a car adds to the air in its turn.
LEMMA AirGrows ==
    ASSUME RideInv, NEW c \in Cars, BeaconTurn(c), NEW f \in Frames, f.src = c
    PROVE  LET newAir == air \union {f} IN
           /\ newAir \in SUBSET Frames /\ air \subseteq newAir
           /\ \A g \in newAir : g \in air \/ g.src = c
           /\ \A g, h \in newAir : g.src = c /\ h.src = c => g = h
<1>1. \A g \in air : g.src < c /\ g.src \in Nat
  BY CarFacts DEF RideInv, AirOK, BeaconTurn, Frames
<1>2. \A g \in air : g.src # c
  <2>1. c \in Nat
    BY CarFacts
  <2> QED BY <1>1, <2>1
<1> QED BY <1>2 DEF RideInv, AirOK

LEMMA SendExtraBeaconRight == ASSUME RideInv, NEW c \in Cars, SendExtraBeacon(c) PROVE RideInv'
<1> DEFINE f == FillBeacon(c, sched[c], "extra")
           newAir == air \union {f}
<1>1. /\ BeaconTurn(c) /\ EndBeacon(c, newAir) /\ UNCHANGED <<sched, radio, faults, trouble>>
      /\ UNCHANGED <<world, riders, events>>
  BY DEF SendExtraBeacon, EndBeacon
<1>2. faults' \in 0 .. MaxFaults[ride] /\ trouble' \in 0 .. now
  BY <1>1 DEF RideInv, ClockOK
<1>3. f \in Frames /\ f.src = c
  BY CarFactsNow, FillBeaconTyped DEF RideInv, FillBeacon
<1> HIDE DEF f
<1>4. ClockOK' /\ AirOK' /\ now' \in {now, now + 1}
  <2>1. /\ newAir \in SUBSET Frames /\ air \subseteq newAir
        /\ \A g \in newAir : g \in air \/ g.src = c
        /\ \A g, h \in newAir : g.src = c /\ h.src = c => g = h
    BY <1>1, <1>3, AirGrows
  <2> HIDE DEF newAir
  <2> QED BY <1>1, <1>2, <2>1, EndBeaconRight DEF RideInv
<1>5. CarsOK'
  BY <1>1, <1>4, CarsKept, OnFacts DEF RideInv
<1> QED BY <1>4, <1>5 DEF RideInv

\* A beacon that waits for its slot, or is refused in it.
LEMMA HeldRight ==
    ASSUME RideInv, NEW c \in Cars, LeaseTurn(c), NEW s \in Schedules(c), NEW w \in BOOLEAN,
           sched' = [sched EXCEPT ![c] = s], radio' = [radio EXCEPT ![c].want = w],
           EndBeacon(c, air), faults' \in 0 .. MaxFaults[ride], trouble' \in 0 .. now
    PROVE  RideInv'
<1>1. BeaconTurn(c) /\ UNCHANGED <<world, riders, events>>
  BY DEF LeaseTurn, EndBeacon
<1>3. /\ air \in SUBSET Frames /\ \A f \in air : f \in air \/ f.src = c
      /\ \A f, g \in air : f.src = c /\ g.src = c => f = g
  BY DEF RideInv, AirOK, OneEach
<1>4. ClockOK' /\ AirOK' /\ now' \in {now, now + 1}
  BY <1>1, <1>3, EndBeaconRight DEF RideInv
<1> DEFINE x == [radio[c] EXCEPT !.want = w]
<1>5. radio' = [radio EXCEPT ![c] = x]
  BY DEF RideInv, CarsOK
<1>6. /\ now \in Nat /\ CarOK(c, riders[c], sched[c])
      /\ radio[c] \in Radios /\ radio[c].deadline <= now + Second
  BY CarFactsNow DEF RideInv
<1>7. x \in Radios /\ x.deadline <= now + Second
  BY <1>6 DEF Radios
<1>8. CarOK(c, riders[c], s) /\ s \in Scheds
  BY <1>6, SchedulesKeep
<1>9. riders' = [riders EXCEPT ![c] = riders[c]]
  BY <1>1 DEF RideInv, CarsOK
<1> HIDE DEF x
<1>10. CarsOK'
  BY <1>4, <1>5, <1>6, <1>7, <1>8, <1>9, CarReplaced DEF RideInv
<1> QED BY <1>4, <1>10 DEF RideInv

LEMMA WantsTyped ==
    ASSUME NEW c \in Cars, radio[c] \in Radios, NEW s PROVE Wants(c, s) \in BOOLEAN
BY DEF Wants, Radios

LEMMA HoldBeaconRight == ASSUME RideInv, NEW c \in Cars, HoldBeacon(c) PROVE RideInv'
<1>1. PICK s \in Schedules(c) :
        sched' = [sched EXCEPT ![c] = s] /\ radio' = [radio EXCEPT ![c].want = Wants(c, s)]
  BY DEF HoldBeacon
<1>2. LeaseTurn(c) /\ EndBeacon(c, air) /\ UNCHANGED <<faults, trouble>>
  BY DEF HoldBeacon
<1>3. faults' \in 0 .. MaxFaults[ride] /\ trouble' \in 0 .. now
  BY <1>2 DEF RideInv, ClockOK
<1>4. Wants(c, s) \in BOOLEAN
  BY CarFactsNow, WantsTyped DEF RideInv
<1> QED BY <1>1, <1>2, <1>3, <1>4, HeldRight

LEMMA RefuseBeaconRight == ASSUME RideInv, NEW c \in Cars, RefuseBeacon(c) PROVE RideInv'
<1>1. PICK s \in Schedules(c) :
        sched' = [sched EXCEPT ![c] = s] /\ radio' = [radio EXCEPT ![c].want = TRUE]
  BY DEF RefuseBeacon
<1>2. LeaseTurn(c) /\ EndBeacon(c, air) /\ faults < MaxFaults[ride] /\ faults' = faults + 1 /\ trouble' = now
  BY DEF RefuseBeacon
<1>3. faults' \in 0 .. MaxFaults[ride] /\ trouble' \in 0 .. now
  BY <1>2, BoundsFacts, OnFacts DEF RideInv, ClockOK
<1> QED BY <1>1, <1>2, <1>3, HeldRight

LEMMA SendBeaconRight == ASSUME RideInv, NEW c \in Cars, SendBeacon(c) PROVE RideInv'
<1> DEFINE d == IF radio[c].sentOnce THEN radio[c].deadline ELSE now
           x(s) == [want |-> FALSE, sentOnce |-> TRUE, announced |-> s.slot, deadline |-> NextOnGrid(d)]
<1>1. PICK s \in Schedules(c) :
        /\ sched' = [sched EXCEPT ![c] = s]
        /\ radio' = [radio EXCEPT ![c] = x(s)]
        /\ EndBeacon(c, air \union {FillBeacon(c, s, Kind(s))})
  BY DEF SendBeacon
<1>2. BeaconTurn(c) /\ UNCHANGED <<faults, trouble>> /\ UNCHANGED <<world, riders, events>>
  BY <1>1 DEF SendBeacon, LeaseTurn, EndBeacon
<1>3. faults' \in 0 .. MaxFaults[ride] /\ trouble' \in 0 .. now
  BY <1>2 DEF RideInv, ClockOK
<1>4. /\ now \in Nat /\ CarOK(c, riders[c], sched[c])
      /\ radio[c].deadline \in Nat /\ radio[c].deadline <= now + Second
  BY CarFactsNow DEF RideInv
<1>5. CarOK(c, riders[c], s) /\ s \in Scheds
  BY <1>4, SchedulesKeep
<1> DEFINE f == FillBeacon(c, s, Kind(s))
           newAir == air \union {f}
<1>6. f \in Frames /\ f.src = c
  <2>1. Kind(s) \in {"alone", "lease", "shared", "extra"}
    BY DEF Kind
  <2>2. f.src = c
    BY DEF FillBeacon
  <2> QED BY <1>4, <1>5, <2>1, <2>2, FillBeaconTyped
<1> HIDE DEF f
<1>7. ClockOK' /\ AirOK' /\ now' \in {now, now + 1}
  <2>1. /\ newAir \in SUBSET Frames /\ air \subseteq newAir
        /\ \A g \in newAir : g \in air \/ g.src = c
        /\ \A g, h \in newAir : g.src = c /\ h.src = c => g = h
    BY <1>2, <1>6, AirGrows
  <2>2. EndBeacon(c, newAir)
    BY <1>1 DEF f
  <2> HIDE DEF newAir
  <2> QED BY <1>2, <1>3, <2>1, <2>2, EndBeaconRight DEF RideInv
<1>8. x(s) \in Radios /\ x(s).deadline <= now + Second
  <2>1. d \in Nat /\ d <= now + Second
    BY <1>4, Numbers
  <2> HIDE DEF d
  <2>2. NextOnGrid(d) \in Nat /\ NextOnGrid(d) <= now + Second
    BY <1>4, <2>1, NextOnGridIs
  <2>3. s.slot \in 0 .. NoSlot
    BY <1>5 DEF Scheds
  <2> QED BY <2>2, <2>3 DEF Radios
<1>9. riders' = [riders EXCEPT ![c] = riders[c]]
  BY <1>2 DEF RideInv, CarsOK
<1> DEFINE y == x(s)
<1>10. radio' = [radio EXCEPT ![c] = y] /\ y \in Radios /\ y.deadline <= now + Second
  BY <1>1, <1>8
<1> HIDE DEF x, y
<1>11. CarsOK'
  BY <1>1, <1>4, <1>5, <1>7, <1>9, <1>10, CarReplaced DEF RideInv
<1> QED BY <1>7, <1>11 DEF RideInv

-----------------------------------------------------------------------------
(* drainRadio(), the forwards and the world.                               *)

\* What a car may hear, and what is forwarded to it, is on the air and not its own.
LEMMA HearableIs ==
    ASSUME RideInv, NEW c \in Cars, NEW heard \in Hearable(c)
    PROVE  heard \in SUBSET air /\ \A f \in heard : f.src # c
<1>1. \A l \in links : l[1] # l[2]
  BY RideAssumption DEF RideInv, ClockOK
<1>2. InEarshot(c) \in SUBSET air /\ \A f \in InEarshot(c) : f.src # c
  BY <1>1 DEF InEarshot
<1>3. heard \in SUBSET InEarshot(c)
  BY DEF Hearable
<1> QED BY <1>2, <1>3

\* The frames of one drain or relay pass taken, the car and the clock are right again.
LEMMA TakenRight ==
    ASSUME RideInv, NEW c \in Cars, NEW frames \in SUBSET air, \A f \in frames : f.src # c,
           NEW hops \in {0, 1}, TakeAll(c, frames, hops), now' \in {now, now + 1}
    PROVE  CarsOK'
<1> DEFINE v == Drained(c, frames, hops)
<1>1. /\ now \in Nat /\ CarOK(c, riders[c], sched[c])
      /\ radio[c] \in Radios /\ radio[c].deadline <= now + Second
  BY CarFactsNow DEF RideInv
<1>2. frames \in SUBSET Frames /\ OneEach(frames)
  BY DEF RideInv, AirOK, OneEach
<1>3. CarOK(c, v.riders, v.sched)
  BY <1>1, <1>2, DrainedKeeps
<1>4. sched' = [sched EXCEPT ![c] = v.sched] /\ riders' = [riders EXCEPT ![c] = v.riders]
      /\ radio' = radio
  BY DEF TakeAll
<1>5. radio' = [radio EXCEPT ![c] = radio[c]]
  BY <1>4 DEF RideInv, CarsOK
<1> HIDE DEF v
<1>6. v.sched \in Scheds
  BY <1>3 DEF CarOK, CarAt, SchedOK
<1> QED BY <1>1, <1>3, <1>4, <1>5, <1>6, CarReplaced DEF RideInv

LEMMA EndDrainRight ==
    ASSUME RideInv, NEW c \in Cars, step = "drain", turn = c, NEW heard \in SUBSET air,
           EndDrain(c, heard), UNCHANGED <<world, events>>,
           faults' \in 0 .. MaxFaults[ride], trouble' \in 0 .. now
    PROVE  ClockOK' /\ AirOK' /\ now' \in {now, now + 1}
<1>1. CASE Later(c) # {}
  <2>1. turn' = Min(Later(c)) /\ UNCHANGED <<now, step, air>> /\ got' = [got EXCEPT ![c] = heard]
    BY <1>1 DEF EndDrain, NextCar
  <2>2. turn' \in on
    BY <1>1, <2>1, OnFacts DEF RideInv
  <2>3. ClockOK'
    BY <2>1, <2>2 DEF RideInv, ClockOK, world
  <2>4. AirOK'
    BY <2>1 DEF RideInv, AirOK, world
  <2> QED BY <2>1, <2>3, <2>4
<1>2. CASE Later(c) = {} /\ Relays[ride] # {}
  <2>1. turn' = Min(on) /\ UNCHANGED <<now, air>> /\ step' = "relay" /\ got' = [got EXCEPT ![c] = heard]
    BY <1>2 DEF EndDrain, PassTo
  <2>2. turn' \in on
    BY <2>1, OnFacts DEF RideInv
  <2>3. ClockOK'
    BY <2>1, <2>2 DEF RideInv, ClockOK, world
  <2>4. AirOK'
    BY <2>1 DEF RideInv, AirOK, world
  <2> QED BY <2>1, <2>3, <2>4
<1>3. CASE Later(c) = {} /\ Relays[ride] = {}
  <2>1. NextSlot
    BY <1>3 DEF EndDrain
  <2> QED BY <2>1, NextSlotRight DEF RideInv
<1> QED BY <1>1, <1>2, <1>3

LEMMA DrainRadioRight == ASSUME RideInv, NEW c \in Cars, DrainRadio(c) PROVE RideInv'
<1>1. PICK heard \in Hearable(c) : TakeAll(c, heard, 0) /\ EndDrain(c, heard)
  BY DEF DrainRadio
<1>2. /\ step = "drain" /\ turn = c /\ UNCHANGED <<world, events>>
      /\ faults' \in 0 .. MaxFaults[ride] /\ trouble' \in 0 .. now
  BY <1>1 DEF DrainRadio, TakeAll, RideInv, ClockOK
<1>3. heard \in SUBSET air /\ \A f \in heard : f.src # c
  BY HearableIs
<1>4. ClockOK' /\ AirOK' /\ now' \in {now, now + 1}
  BY <1>1, <1>2, <1>3, EndDrainRight
<1>5. CarsOK'
  BY <1>1, <1>3, <1>4, TakenRight
<1> QED BY <1>4, <1>5 DEF RideInv

LEMMA FaultCounted ==
    ASSUME RideInv, faults < MaxFaults[ride], faults' = faults + 1, trouble' = now
    PROVE  faults' \in 0 .. MaxFaults[ride] /\ trouble' \in 0 .. now
BY BoundsFacts, OnFacts DEF RideInv, ClockOK

LEMMA LoseFrameRight == ASSUME RideInv, NEW c \in Cars, LoseFrame(c) PROVE RideInv'
<1>0. PICK all \in Hearable(c) : \E f \in all : TakeAll(c, all \ {f}, 0) /\ EndDrain(c, all \ {f})
  BY DEF LoseFrame
<1>1. PICK f \in all : TakeAll(c, all \ {f}, 0) /\ EndDrain(c, all \ {f})
  BY <1>0
<1> DEFINE heard == all \ {f}
<1>2. /\ step = "drain" /\ turn = c /\ UNCHANGED <<world, events>>
      /\ faults < MaxFaults[ride] /\ faults' = faults + 1 /\ trouble' = now
  BY <1>1 DEF LoseFrame, TakeAll
<1>3. heard \in SUBSET air /\ \A g \in heard : g.src # c
  BY HearableIs
<1>4. TakeAll(c, heard, 0) /\ EndDrain(c, heard)
  BY <1>1
<1> HIDE DEF heard
<1>5. ClockOK' /\ AirOK' /\ now' \in {now, now + 1}
  BY <1>2, <1>3, <1>4, EndDrainRight, FaultCounted
<1>6. CarsOK'
  BY <1>3, <1>4, <1>5, TakenRight
<1> QED BY <1>5, <1>6 DEF RideInv

LEMMA EndRelayRight ==
    ASSUME RideInv, NEW c \in Cars, step = "relay", turn = c, EndRelay(c), UNCHANGED <<world, events>>,
           faults' \in 0 .. MaxFaults[ride], trouble' \in 0 .. now
    PROVE  ClockOK' /\ AirOK' /\ now' \in {now, now + 1}
<1>1. CASE Later(c) # {}
  <2>1. turn' = Min(Later(c)) /\ UNCHANGED <<now, step, air, got>>
    BY <1>1 DEF EndRelay, NextCar
  <2>2. turn' \in on
    BY <1>1, <2>1, OnFacts DEF RideInv
  <2>3. ClockOK'
    BY <2>1, <2>2 DEF RideInv, ClockOK, world
  <2>4. AirOK'
    BY <2>1 DEF RideInv, AirOK, world
  <2> QED BY <2>1, <2>3, <2>4
<1>2. CASE Later(c) = {}
  <2>1. NextSlot
    BY <1>2 DEF EndRelay
  <2> QED BY <2>1, NextSlotRight DEF RideInv
<1> QED BY <1>1, <1>2

LEMMA HearForwardsRight == ASSUME RideInv, NEW c \in Cars, HearForwards(c) PROVE RideInv'
<1>1. /\ step = "relay" /\ turn = c /\ TakeAll(c, Forwarded(c), 1) /\ EndRelay(c)
      /\ UNCHANGED <<world, events>>
      /\ faults' \in 0 .. MaxFaults[ride] /\ trouble' \in 0 .. now
  BY DEF HearForwards, TakeAll, RideInv, ClockOK
<1>2. Forwarded(c) \in SUBSET air /\ \A f \in Forwarded(c) : f.src # c
  BY DEF Forwarded
<1>3. ClockOK' /\ AirOK' /\ now' \in {now, now + 1}
  BY <1>1, EndRelayRight
<1>4. CarsOK'
  BY <1>1, <1>2, <1>3, TakenRight
<1> QED BY <1>3, <1>4 DEF RideInv

LEMMA LoseForwardsRight == ASSUME RideInv, NEW c \in Cars, LoseForwards(c) PROVE RideInv'
<1>1. /\ step = "relay" /\ turn = c /\ TakeAll(c, {}, 1) /\ EndRelay(c)
      /\ UNCHANGED <<world, events>>
      /\ faults < MaxFaults[ride] /\ faults' = faults + 1 /\ trouble' = now
  BY DEF LoseForwards, TakeAll
<1>3. ClockOK' /\ AirOK' /\ now' \in {now, now + 1}
  BY <1>1, EndRelayRight, FaultCounted
<1>4. CarsOK'
  <2>1. {} \in SUBSET air /\ \A f \in {} : f.src # c
    OBVIOUS
  <2> QED BY <1>1, <1>3, <2>1, TakenRight
<1> QED BY <1>3, <1>4 DEF RideInv

LEMMA BetweenEmpty == ASSUME RideInv, BetweenSlots PROVE air = {} /\ got = [c \in Cars |-> {}]
<1>1. air = {}
  <2>1. ASSUME NEW f \in air PROVE FALSE
    <3>1. f.src \in on /\ f.src < Min(on)
      BY DEF RideInv, AirOK, BetweenSlots
    <3>2. f.src \in Nat /\ Min(on) \in Nat /\ Min(on) <= f.src
      BY <3>1, OnFacts DEF RideInv
    <3> QED BY <3>1, <3>2
  <2> QED BY <2>1
<1> QED BY <1>1 DEF RideInv, AirOK

LEMMA SwitchOnRight == ASSUME RideInv, NEW c \in Cars, SwitchOn(c) PROVE RideInv'
<1>1. air = {} /\ now \in Nat
  BY BetweenEmpty, OnFacts DEF SwitchOn, RideInv
<1>2. turn' \in on'
  <2>1. on' \in SUBSET Nat /\ on' # {} /\ turn' = Min(on')
    BY OnFacts, CarFacts DEF SwitchOn, RideInv
  <2> QED BY <2>1, MinIs
<1>3. ClockOK'
  BY <1>1, <1>2 DEF SwitchOn, RideInv, ClockOK
<1>4. AirOK'
  BY <1>1 DEF SwitchOn, RideInv, AirOK
<1>5. CarsOK'
  <2> DEFINE s == FreshSchedule
             x == FreshRadio
             r == << >>
  <2>1. CarOK(c, r, s) /\ s \in Scheds /\ x \in Radios /\ x.deadline <= now + Second
    BY <1>1, FreshOK
  <2>2. /\ sched' = [sched EXCEPT ![c] = s] /\ riders' = [riders EXCEPT ![c] = r]
        /\ radio' = [radio EXCEPT ![c] = x] /\ now' = now
    BY DEF SwitchOn
  <2> HIDE DEF s, x, r
  <2> QED BY <1>1, <2>1, <2>2, CarReplaced DEF RideInv
<1> QED BY <1>3, <1>4, <1>5 DEF RideInv

LEMMA EventCounted ==
    ASSUME RideInv, Event PROVE events' \in 0 .. MaxEvents[ride] /\ trouble' \in 0 .. now /\ now \in Nat
BY BoundsFacts, OnFacts DEF RideInv, ClockOK, Event

LEMMA SwitchOffRight == ASSUME RideInv, NEW c \in Cars, SwitchOff(c) PROVE RideInv'
<1>1. air = {} /\ now \in Nat
  BY BetweenEmpty, OnFacts DEF SwitchOff, Event, RideInv
<1>2. turn' \in on' /\ on' \in SUBSET on
  <2>1. on' \in SUBSET Nat /\ on' # {} /\ turn' = Min(on') /\ on' \in SUBSET on
    BY OnFacts DEF SwitchOff, RideInv
  <2> QED BY <2>1, MinIs
<1>3. ClockOK'
  BY <1>1, <1>2, EventCounted DEF SwitchOff, RideInv, ClockOK
<1>4. AirOK'
  BY <1>1 DEF SwitchOff, RideInv, AirOK
<1>5. CarsOK'
  BY <1>1, CarsKept DEF SwitchOff, RideInv
<1> QED BY <1>3, <1>4, <1>5 DEF RideInv

LEMMA FixChangesRight == ASSUME RideInv, NEW c \in Cars, FixChanges(c) PROVE RideInv'
<1>1. ClockOK'
  BY EventCounted DEF FixChanges, RideInv, ClockOK, clock
<1>2. AirOK'
  BY DEF FixChanges, RideInv, AirOK, clock
<1>3. CarsOK'
  BY OnFacts, CarsKept DEF FixChanges, RideInv, clock
<1> QED BY <1>1, <1>2, <1>3 DEF RideInv

LEMMA MoveRight == ASSUME RideInv, Move PROVE RideInv'
<1>1. ClockOK'
  BY EventCounted DEF Move, RideInv, ClockOK, clock
<1>2. AirOK'
  BY DEF Move, RideInv, AirOK, clock
<1>3. CarsOK'
  BY OnFacts, CarsKept DEF Move, RideInv, clock
<1> QED BY <1>1, <1>2, <1>3 DEF RideInv

LEMMA IdleRight == ASSUME RideInv, UNCHANGED vars PROVE RideInv'
<1>1. ClockOK'
  BY DEF vars, RideInv, ClockOK, clock, world
<1>2. AirOK'
  BY DEF vars, RideInv, AirOK, clock, world
<1>3. CarsOK'
  BY OnFacts, CarsKept DEF vars, RideInv, clock
<1> QED BY <1>1, <1>2, <1>3 DEF RideInv

\* Everything the cars, the air and the clock may be, kept by every step.
THEOREM RideShape == Spec => []RideInv
<1>1. Init => RideInv
  BY InitRight
<1>2. RideInv /\ [Next]_vars => RideInv'
  <2> SUFFICES ASSUME RideInv, [Next]_vars PROVE RideInv'
    OBVIOUS
  <2>1. ASSUME NEW c \in Cars, Pass(c) PROVE RideInv'
    BY <2>1, NoBeaconRight, SendExtraBeaconRight, HoldBeaconRight, SendBeaconRight,
       RefuseBeaconRight, DrainRadioRight, LoseFrameRight, HearForwardsRight, LoseForwardsRight
       DEF Pass
  <2>2. ASSUME NEW c \in Cars, SwitchOn(c) \/ SwitchOff(c) \/ FixChanges(c) PROVE RideInv'
    BY <2>2, SwitchOnRight, SwitchOffRight, FixChangesRight
  <2> QED BY <2>1, <2>2, MoveRight, IdleRight DEF Next
<1> QED BY <1>1, <1>2, PTL DEF Spec

\* Every car's schedule, roster and radio keep their shape, and no car ever
\* puts its next beacon further off than one second.
THEOREM RideTyped == Spec => []TypeOK
BY RideShape, TypeOKFollows, PTL

-----------------------------------------------------------------------------
(* A calm ride.                                                            *)

\* Every car is on early enough to be heard by all before anybody may claim.
PoweredTogether == PowerSlots[ride] \subseteq 0 .. JoinListen - 2 * Second

Calm == Together /\ PoweredTogether

\* The slot each car comes to lease: the lowest number's is the first, and so on.
Queue(c) == Cardinality({d \in on : d < c})
SlotRank(t) == Cardinality({u \in Slots : LeasedBefore(u, t)})
Goal(c) == CHOOSE t \in Slots : SlotRank(t) = Queue(c)

GoalBlocks(row) == {BlockOf(Goal(d)) : d \in {e \in on : RowOf(Goal(e)) = row}}

\* The free slots a car may add once every car holds its own.
Spares(c) == {t \in Slots : /\ RowOf(t) = RowOf(Goal(c)) /\ BlockOf(t) \notin GoalBlocks(RowOf(t))
                            /\ ExtraOwner(BlockOf(t), GoalBlocks(RowOf(t))) = BlockOf(Goal(c))}

\* The slot of a car's next beacon pass.
Until(c) == IF step = "beacon" /\ turn <= c THEN now ELSE now + 1

\* A car has not drained its radio in this slot yet.
Undrained(c) == step = "beacon" \/ (step = "drain" /\ turn <= c)

\* A frame is on the air for a car that has not drained its radio yet.
Pending(c, d) == Undrained(c) /\ \E f \in air : f.src = d

\* A car's roster shows another on a slot, or will when it has drained its radio.
Lists(c, d, t) == d \in DOMAIN riders[c] /\ riders[c][d].slot = t
Reaching(c, d, t) == step = "drain" /\ turn <= c /\ \E f \in air : f.src = d /\ f.slot = t

\* Some car leases t, and every other has that on its roster.
Announced(t) == \E x \in on : sched[x].slot = t /\ \A y \in on \ {x} : Lists(y, x, t)

FirstBeacon(c) ==
    ~radio[c].sentOnce =>
        /\ step = "beacon" /\ turn <= c /\ now <= JoinListen - 2 * Second
        /\ DOMAIN riders[c] = {} /\ sched[c].slot = NoSlot /\ ~radio[c].want

SharedStart(s) == s.sharedBlock * (Rows + 1) + Rows

\* A slot that starts k into the second comes in a .. b.
Comes(k, a, b) == \E m \in a .. b : m % Second = k

\* A beacon goes out in time, for a car with schedule s and radio b whose next
\* beacon pass is at u.
TimelyAt(s, b, u) ==
    b.sentOnce =>
        /\ b.deadline < u + Second
        /\ s.slot = NoSlot /\ ~b.want => u <= b.deadline
        /\ s.slot = NoSlot /\ b.want => Comes(SharedStart(s), u, b.deadline + Second - 1)
        /\ s.slot # NoSlot => Comes(SlotStart(s.slot), u, b.deadline + 2 * Second - 1)

Timely(c) == TimelyAt(sched[c], radio[c], Until(c))

\* Leases no slot but g, and its extras are spares of g; a lease once announced
\* has no turn left before the next beacon is due.
LeasingAt(g, spares, s, b, u) ==
    /\ b.announced \in {NoSlot, s.slot}
    /\ s.slot = NoSlot => s.extras = {}
    /\ s.slot # NoSlot =>
          /\ s.slot = g /\ s.known > 1 /\ s.heardUs >= s.leasedAt /\ s.extras \subseteq spares
          /\ b.announced = s.slot => ~Comes(SlotStart(s.slot), u, b.deadline - 1)

Leasing(c) ==
    /\ LeasingAt(Goal(c), Spares(c), sched[c], radio[c], Until(c))
    /\ sched[c].slot # NoSlot => now >= JoinListen /\ DOMAIN riders[c] # {}

Heard(c, d) ==
    /\ riders[c][d].slot \in {NoSlot, sched[d].slot}
    /\ riders[c][d].at > now - 3 * Second
    /\ ~Pending(c, d) => radio[d].sentOnce /\ riders[c][d].at + Second >= radio[d].deadline
    /\ \A t \in Slots : riders[c][d].map[t] # 0 => Announced(t)
    /\ sched[c].slot # NoSlot /\ riders[c][d].at > sched[c].leasedAt + Second =>
          riders[c][d].map[sched[c].slot] = Tag[c]

Unknown(c, d) ==
    /\ now <= JoinListen - 2
    /\ ~Pending(c, d) /\ radio[d].sentOnce =>
         radio[d].deadline < JoinListen - Second /\ sched[d].slot = NoSlot

Rosters(c) == /\ DOMAIN riders[c] \subseteq on
              /\ \A d \in on \ {c} : IF d \in DOMAIN riders[c] THEN Heard(c, d) ELSE Unknown(c, d)

\* What a link record shows is a lease that everybody hears of in the same slot.
Links(c) ==
    \A t \in Slots : sched[c].heard[t].tag # 0 =>
        \E x \in on \ {c} :
            /\ sched[x].slot = t
            /\ \A y \in on \ {x} : Lists(y, x, t) \/ Reaching(y, x, t)

\* Every own slot since the claim was heard by every other car.
Shown(c, d) ==
    sched[c].slot # NoSlot =>
        \A m \in sched[c].leasedAt + 1 .. Until(c) - 1 :
            m % Second = SlotStart(sched[c].slot) =>
                \/ sched[d].heard[sched[c].slot].tag = Tag[c] /\ sched[d].heard[sched[c].slot].at >= m
                \/ /\ m = now /\ Undrained(d)
                   /\ \E f \in air : f.src = c /\ f.slot = sched[c].slot /\ f.kind # "extra"

OnAir(f) ==
    /\ radio[f.src].sentOnce
    /\ f.slot \in {NoSlot, sched[f.src].slot}
    /\ f.slot = NoSlot => \A c \in on : f.src \in DOMAIN riders[c] => riders[c][f.src].slot = NoSlot
    /\ \A t \in Slots : f.map[t] # 0 => Announced(t)
    /\ \A x \in on \ {f.src} : sched[x].slot # NoSlot /\ now > sched[x].leasedAt + Second =>
          f.map[sched[x].slot] = Tag[x]
    /\ Scheduled(f) => \E t \in Spares(f.src) \union {Goal(f.src)} : now % Second = SlotStart(t)
    /\ \A y \in on \ {f.src} : ~Undrained(y) => f \in got[y] /\ Lists(y, f.src, f.slot)

CalmBody ==
    /\ feeding = Cars
    /\ \A c \in on : FirstBeacon(c) /\ Timely(c) /\ Leasing(c) /\ Rosters(c) /\ Links(c)
    /\ \A c \in on : \A d \in on \ {c} : Shown(c, d)
    /\ \A f \in air : OnAir(f)

CalmInv == Calm => CalmBody

-----------------------------------------------------------------------------
(* Slots come round within the second.                                     *)

\* Slots of a second come round.
LEMMA Parts ==
    ASSUME NEW S \in Nat \ {0}, NEW a \in Nat
    PROVE  \E q \in Nat, k \in 0 .. S - 1 : a = q * S + k /\ a % S = k
<1>1. \A x \in Nat, y \in Nat \ {0} : /\ x \div y \in Nat /\ (x \div y) * y <= x
                                      /\ x < (x \div y) * y + y
  OBVIOUS
<1> DEFINE q == a \div S
           p == q * S
           k == a - p
<1>2. q \in Nat /\ p <= a /\ a < p + S
  BY <1>1
<1>3. p \in Nat
  BY <1>2
<1> HIDE DEF p
<1>4. k \in 0 .. S - 1 /\ a = p + k
  BY <1>2, <1>3
<1> HIDE DEF k, q
<1>5. (q * S + k) % S = k
  BY <1>2, <1>4
<1> QED BY <1>2, <1>4, <1>5 DEF p

\* What such a number leaves over.
LEMMA PartIs ==
    ASSUME NEW S \in Nat \ {0}, NEW q \in Nat, NEW k \in 0 .. S - 1
    PROVE  (q * S + k) % S = k
OBVIOUS

\* Every slot of the second comes within a second.
LEMMA Hit ==
    ASSUME NEW a \in Nat, NEW k \in 0 .. Second - 1
    PROVE  Comes(k, a, a + Second - 1)
<1>1. Second \in Nat \ {0}
  BY Numbers
<1>2. PICK q \in Nat, e \in 0 .. Second - 1 : a = q * Second + e /\ a % Second = e
  BY <1>1, Parts
<1> DEFINE p == q * Second
           r == (q + 1) * Second
<1>3. p \in Nat /\ r = p + Second
  BY <1>1
<1>4. (p + k) % Second = k /\ (r + k) % Second = k
  BY <1>1, PartIs
<1> HIDE DEF p, r
<1>5. a = p + e
  BY <1>2 DEF p
<1>6. CASE e <= k
  <2>1. p + k \in a .. a + Second - 1
    BY <1>1, <1>3, <1>5, <1>6
  <2> QED BY <2>1, <1>4 DEF Comes
<1>7. CASE e > k
  <2>1. r + k \in a .. a + Second - 1
    BY <1>1, <1>3, <1>5, <1>7
  <2> QED BY <2>1, <1>4 DEF Comes
<1> QED BY <1>6, <1>7

\* And not again within one.
LEMMA Miss ==
    ASSUME NEW a \in Nat, NEW m \in Nat, a < m, m < a + Second
    PROVE  m % Second # a % Second
<1>1. Second \in Nat \ {0}
  BY Numbers
<1>2. PICK q \in Nat, e \in 0 .. Second - 1 : a = q * Second + e /\ a % Second = e
  BY <1>1, Parts
<1>3. PICK p \in Nat, k \in 0 .. Second - 1 : m = p * Second + k /\ m % Second = k
  BY <1>1, Parts
<1>4. SUFFICES ASSUME e = k PROVE FALSE
  BY <1>2, <1>3
<1> DEFINE x == q * Second
           y == p * Second
           z == (q + 1) * Second
<1>5. x \in Nat /\ y \in Nat /\ z = x + Second
  BY <1>1
<1>6. x < y /\ y < z
  <2> HIDE DEF x, y, z
  <2>1. a = x + e /\ m = y + e
    BY <1>2, <1>3, <1>4 DEF x, y
  <2> QED BY <2>1, <1>5, <1>1
<1>7. q < p /\ p < q + 1
  BY <1>1, <1>6
<1> QED BY <1>7

-----------------------------------------------------------------------------
(* The slot each car comes to lease, and its spares.                       *)

\* There is a slot for every car, and they are leased in the order of the cars' numbers.
LEMMA Goals ==
    ASSUME on \in SUBSET Cars
    PROVE  /\ \A c \in on : Goal(c) \in Slots /\ SlotRank(Goal(c)) = Queue(c) /\ Queue(c) \in Nat
           /\ \A c, d \in on : c # d => Goal(c) # Goal(d)
           /\ \A c, d \in on : c < d <=> LeasedBefore(Goal(c), Goal(d))
<1>1. /\ on \in SUBSET Nat /\ IsFiniteSet(on) /\ Cardinality(on) \in Nat
      /\ Cardinality(on) <= Cardinality(Cars) /\ Cardinality(Cars) \in Nat
  BY CarFacts
<1>2. IsFiniteSet(Slots) /\ Cardinality(Slots) = MaxSlots /\ StrictOrder(Slots, SlotOrder)
  <2>1. MaxSlots \in Nat \ {0} /\ Slots = 0 .. MaxSlots - 1
    BY Numbers
  <2>2. Cardinality(Slots) = MaxSlots
    BY <2>1, FS_Interval
  <2> QED BY <2>2, SlotOrderFacts
<1>3. \A t \in Slots : SlotRank(t) = Cardinality(Before(Slots, SlotOrder, t))
  BY SlotOrderFacts DEF SlotRank
<1>4. ASSUME NEW c \in on
      PROVE  /\ Queue(c) \in Nat /\ Queue(c) < MaxSlots
             /\ IsFiniteSet({e \in on : e < c})
             /\ Cardinality({e \in on : e < c} \union {c}) = Queue(c) + 1
  <2> DEFINE below == {e \in on : e < c}
  <2>1. below \in SUBSET on /\ c \notin below /\ below \union {c} \in SUBSET on
    BY <1>1
  <2>2. IsFiniteSet(below) /\ Cardinality(below) \in Nat
    BY <1>1, <2>1, FS_Subset, FS_CardinalityType
  <2>3. Cardinality(below \union {c}) = Cardinality(below) + 1
    BY <2>1, <2>2, FS_AddElement
  <2>4. Cardinality(below \union {c}) <= Cardinality(on)
    BY <1>1, <2>1, FS_Subset
  <2>5. Queue(c) = Cardinality(below)
    BY DEF Queue
  <2>6. Cardinality(Cars) - 1 < MaxRiders /\ MaxRiders \in Nat /\ MaxSlots >= MaxRiders + 1 /\ MaxSlots \in Nat
    BY RideAssumption, Numbers
  <2> HIDE DEF below
  <2>7. Queue(c) \in Nat /\ Queue(c) < MaxSlots
    BY <1>1, <2>2, <2>3, <2>4, <2>5, <2>6
  <2> QED BY <2>2, <2>3, <2>5, <2>7 DEF below
<1>5. ASSUME NEW c \in on PROVE Goal(c) \in Slots /\ SlotRank(Goal(c)) = Queue(c)
  <2>1. \E t \in Slots : Cardinality(Before(Slots, SlotOrder, t)) = Queue(c)
    BY <1>2, <1>4, RankTaken
  <2>2. \E t \in Slots : SlotRank(t) = Queue(c)
    BY <1>3, <2>1
  <2> QED BY <2>2 DEF Goal
<1>6. ASSUME NEW c \in on, NEW d \in on, c < d PROVE Queue(c) < Queue(d)
  <2> DEFINE A == {e \in on : e < c} \union {c}
             B == {e \in on : e < d}
  <2>1. A \subseteq B
    <3>1. c \in B
      BY <1>6
    <3>2. ASSUME NEW e \in on, e < c PROVE e < d
      <4>1. e \in Nat /\ c \in Nat /\ d \in Nat
        BY <1>1
      <4> QED BY <1>6, <3>2, <4>1
    <3>3. {e \in on : e < c} \subseteq B
      BY <3>2
    <3> QED BY <3>1, <3>3
  <2>2. Cardinality(A) <= Cardinality(B)
    BY <1>4, <2>1, FS_Subset
  <2>3. Cardinality(A) = Queue(c) + 1 /\ Cardinality(B) = Queue(d)
    BY <1>4 DEF Queue
  <2>4. Queue(c) \in Nat /\ Queue(d) \in Nat
    BY <1>4
  <2> HIDE DEF A, B
  <2> QED BY <2>2, <2>3, <2>4
<1>7. ASSUME NEW t \in Slots, NEW u \in Slots, LeasedBefore(t, u) PROVE SlotRank(t) < SlotRank(u)
  <2>1. <<t, u>> \in SlotOrder
    BY <1>7 DEF SlotOrder
  <2> QED BY <1>2, <1>3, <2>1, RankBounds
<1>8. ASSUME NEW t \in Slots, NEW u \in Slots, t # u PROVE LeasedBefore(t, u) \/ LeasedBefore(u, t)
  BY <1>2, <1>8 DEF StrictOrder, SlotOrder
<1>9. ASSUME NEW c \in on, NEW d \in on, c < d PROVE LeasedBefore(Goal(c), Goal(d)) /\ Goal(c) # Goal(d)
  <2>1. Queue(c) < Queue(d) /\ Queue(c) \in Nat /\ Queue(d) \in Nat
    BY <1>4, <1>6, <1>9
  <2>2. SlotRank(Goal(c)) < SlotRank(Goal(d)) /\ ~(SlotRank(Goal(d)) < SlotRank(Goal(c)))
    BY <1>5, <2>1
  <2>3. SlotRank(Goal(c)) # SlotRank(Goal(d))
    BY <1>5, <2>1
  <2>4. Goal(c) # Goal(d)
    BY <2>3
  <2>5. ~LeasedBefore(Goal(d), Goal(c))
    BY <1>5, <1>7, <2>2
  <2> QED BY <1>5, <1>8, <2>4, <2>5
<1>10. ASSUME NEW c \in on, NEW d \in on, LeasedBefore(Goal(c), Goal(d)) PROVE c < d
  <2>1. ~LeasedBefore(Goal(d), Goal(c)) /\ Goal(c) # Goal(d)
    <3>1. SlotRank(Goal(c)) < SlotRank(Goal(d))
      BY <1>5, <1>7, <1>10
    <3>2. SlotRank(Goal(c)) \in Nat /\ SlotRank(Goal(d)) \in Nat
      BY <1>4, <1>5
    <3>3. ~(SlotRank(Goal(d)) < SlotRank(Goal(c))) /\ SlotRank(Goal(c)) # SlotRank(Goal(d))
      BY <3>1, <3>2
    <3>4. Goal(c) # Goal(d)
      BY <3>3
    <3> QED BY <1>5, <1>7, <3>3, <3>4
  <2>2. c # d /\ ~(d < c)
    BY <1>9, <2>1
  <2> QED BY <1>1, <2>2
<1>11. \A c, d \in on : c # d => Goal(c) # Goal(d)
  <2> SUFFICES ASSUME NEW c \in on, NEW d \in on, c # d PROVE Goal(c) # Goal(d)
    OBVIOUS
  <2>1. c < d \/ d < c
    BY <1>1
  <2> QED BY <1>9, <2>1
<1> QED BY <1>4, <1>5, <1>9, <1>10, <1>11


\* No two cars come to send in one slot, own or extra.
LEMMA SparesApart ==
    ASSUME on \in SUBSET Cars, NEW c \in on, NEW d \in on, c # d,
           NEW t \in Spares(c) \union {Goal(c)}, NEW u \in Spares(d) \union {Goal(d)}
    PROVE  t \in Slots /\ u \in Slots /\ SlotStart(t) # SlotStart(u)
<1>1. /\ Goal(c) \in Slots /\ Goal(d) \in Slots /\ Goal(c) # Goal(d)
  BY Goals
<1>2. t \in Slots /\ u \in Slots
  BY <1>1 DEF Spares
<1>3. \A x, y \in Slots : RowOf(x) = RowOf(y) /\ BlockOf(x) = BlockOf(y) => x = y
  BY SlotFacts
<1>4. ASSUME NEW e \in on, NEW x \in on, NEW y \in Spares(e) PROVE y # Goal(x)
  <2>1. BlockOf(y) \notin GoalBlocks(RowOf(y))
    BY DEF Spares
  <2>2. RowOf(Goal(x)) = RowOf(y) => BlockOf(Goal(x)) \in GoalBlocks(RowOf(y))
    BY DEF GoalBlocks
  <2> QED BY <2>1, <2>2
<1>5. ASSUME t \in Spares(c), u \in Spares(d), t = u PROVE FALSE
  <2>1. RowOf(Goal(c)) = RowOf(Goal(d)) /\ BlockOf(Goal(c)) = BlockOf(Goal(d))
    BY <1>5 DEF Spares
  <2> QED BY <1>1, <1>3, <2>1
<1>6. t # u
  BY <1>1, <1>4, <1>5
<1> QED BY <1>2, <1>6, SlotFacts

\* An extra slot of a car is none that a car comes to lease.
LEMMA SpareIsNotGoal ==
    ASSUME on \in SUBSET Cars, NEW c \in on, NEW t \in Spares(c)
    PROVE  t \in Slots /\ t # Goal(c) /\ SlotStart(t) # SlotStart(Goal(c))
<1>1. t \in Slots /\ BlockOf(t) \notin GoalBlocks(RowOf(t))
  BY DEF Spares
<1>2. RowOf(Goal(c)) = RowOf(t) => BlockOf(Goal(c)) \in GoalBlocks(RowOf(t))
  BY DEF GoalBlocks
<1>3. t # Goal(c) /\ Goal(c) \in Slots
  BY <1>1, <1>2, Goals
<1> QED BY <1>1, <1>3, SlotFacts

\* A roster on which every car of a set is heard, each on its slot or on none yet.
Seen(c, r) ==
    /\ DOMAIN r \subseteq on \ {c}
    /\ \A d \in DOMAIN r : r[d].slot \in {NoSlot, Goal(d)} /\ r[d].at > now - 3 * Second

HeldBy(r) == {d \in DOMAIN r : r[d].slot # NoSlot}

\* What such a roster gives a pass: everybody on it is live, holds its own slot
\* or waits for one.
LEMMA SeenIs ==
    ASSUME on \in SUBSET Cars, now \in Nat, NEW c \in on, NEW r, RosterOK(c, r, now), Seen(c, r)
    PROVE  /\ Live(r, now) = DOMAIN r
           /\ HeldSlots(r, now) = {Goal(d) : d \in HeldBy(r)}
           /\ \A d \in HeldBy(r) : Claimants(r, now, Goal(d)) = {d}
           /\ Waiting(r, now) = DOMAIN r \ HeldBy(r)
<1>1. Second \in Nat \ {0} /\ Lease \in Nat /\ Unheard < Lease /\ Unheard \in Nat /\ Unheard >= 5 * Second
  BY Numbers, LeaseAssumption
<1>2. \A d \in DOMAIN r : r[d].at \in Nat /\ now - r[d].at < Lease
  <2> SUFFICES ASSUME NEW d \in DOMAIN r PROVE r[d].at \in Nat /\ now - r[d].at < Lease
    OBVIOUS
  <2>1. r[d].at \in Nat /\ r[d].at > now - 3 * Second
    BY DEF RosterOK, Entries, Seen
  <2> QED BY <1>1, <2>1
<1>3. Live(r, now) = DOMAIN r
  BY <1>2 DEF Live
<1>4. \A d \in HeldBy(r) : d \in on /\ r[d].slot = Goal(d) /\ Goal(d) \in Slots
  BY Goals DEF Seen, HeldBy
<1>5. \A t \in Slots : Claimants(r, now, t) = {d \in HeldBy(r) : Goal(d) = t}
  <2>1. NoSlot \notin Slots
    BY Numbers
  <2> QED BY <1>3, <1>4, <2>1 DEF Claimants, HeldBy
<1>6. \A d \in HeldBy(r) : Claimants(r, now, Goal(d)) = {d}
  BY <1>4, <1>5, Goals
<1>7. HeldSlots(r, now) = {Goal(d) : d \in HeldBy(r)}
  BY <1>4, <1>5 DEF HeldSlots
<1>8. ASSUME NEW d \in HeldBy(r) PROVE Holder(r, now, Goal(d)) = d
  <2>1. Claimants(r, now, Goal(d)) = {d}
    BY <1>6
  <2> QED BY <2>1 DEF Holder
<1>9. Waiting(r, now) = DOMAIN r \ HeldBy(r)
  <2>1. ASSUME NEW d \in DOMAIN r PROVE d \in Waiting(r, now) <=> d \notin HeldBy(r)
    <3>1. CASE r[d].slot = NoSlot
      BY <1>3, <3>1 DEF Waiting, HeldBy
    <3>2. CASE r[d].slot # NoSlot
      <4>1. d \in HeldBy(r) /\ r[d].slot = Goal(d) /\ Holder(r, now, r[d].slot) = d
        BY <3>2, <1>4, <1>8 DEF HeldBy
      <4> QED BY <3>2, <4>1 DEF Waiting
    <3> QED BY <3>1, <3>2
  <2>2. Waiting(r, now) \subseteq DOMAIN r
    BY <1>3 DEF Waiting
  <2> QED BY <2>1, <2>2
<1> QED BY <1>3, <1>6, <1>7, <1>9

-----------------------------------------------------------------------------
(* settleLease and planExtras on a calm ride.                              *)

\* Sizes of two parts of a set.
LEMMA PartsAdd ==
    ASSUME NEW A, NEW B, NEW C, IsFiniteSet(C), C = A \union B, A \intersect B = {}
    PROVE  /\ Cardinality(A) \in Nat /\ Cardinality(B) \in Nat
           /\ Cardinality(C) = Cardinality(A) + Cardinality(B)
<1>1. IsFiniteSet(A) /\ IsFiniteSet(B)
  BY FS_Subset
<1>2. Cardinality(A) \in Nat /\ Cardinality(B) \in Nat /\ Cardinality({}) = 0
  BY <1>1, FS_CardinalityType, FS_EmptySet
<1>3. Cardinality(A \union B) = Cardinality(A) + Cardinality(B) - Cardinality(A \intersect B)
  BY <1>1, FS_Union
<1>4. Cardinality(A \intersect B) = 0
  BY <1>2
<1> QED BY <1>2, <1>3, <1>4

\* A car that hears all others, and claims, claims its own slot.
LEMMA ClaimsGoal ==
    ASSUME on \in SUBSET Cars, now \in Nat, NEW c \in on, NEW s, SchedOK(s, now),
           NEW r, RosterOK(c, r, now), Seen(c, r), DOMAIN r = on \ {c},
           \A d \in DOMAIN r : \A t \in Slots :
                r[d].map[t] # 0 => \E x \in DOMAIN r : r[x].slot = t,
           NEW k
    PROVE  LET v == Claim(c, s, r, now, k)
           IN  v.slot = Goal(c) /\ v.leasedAt = now /\ v.heardUs = now
<1> DEFINE held == HeldBy(r)
           waiting == Waiting(r, now)
           free == FreeSlots(r, now, k)
           taken == HeldSlots(r, now)
           G == Goal(c)
<1>1. /\ Live(r, now) = DOMAIN r /\ taken = {Goal(d) : d \in held}
      /\ waiting = DOMAIN r \ held /\ held \in SUBSET (on \ {c})
  BY SeenIs DEF HeldBy
<1>2. /\ on \in SUBSET Nat /\ IsFiniteSet(on) /\ c \in Nat
      /\ G \in Slots /\ \A d \in on : Goal(d) \in Slots
      /\ \A d \in on \ {c} : Goal(d) # G
      /\ \A d \in on : d < c <=> LeasedBefore(Goal(d), G)
  BY CarFacts, Goals
<1>3. free = Slots \ taken
  <2>1. ASSUME NEW t \in ReportedBusy(r, MapsWithin(r, now, k)) PROVE t \in taken
    <3>1. PICK d \in MapsWithin(r, now, k) : t \in Slots /\ r[d].map[t] # 0
      BY DEF ReportedBusy
    <3>2. d \in DOMAIN r
      BY ViewFacts, <3>1
    <3>3. PICK x \in DOMAIN r : r[x].slot = t
      BY <3>1, <3>2
    <3>4. r[x].slot \in {NoSlot, Goal(x)} /\ t # NoSlot
      BY <3>1, <3>3, Numbers DEF Seen
    <3>5. x \in held /\ t = Goal(x)
      BY <3>3, <3>4 DEF HeldBy
    <3> QED BY <3>5, <1>1
  <2> QED BY <2>1 DEF FreeSlots
<1>4. G \in free
  <2>1. ASSUME G \in taken PROVE FALSE
    <3>1. PICK d \in held : G = Goal(d)
      BY <1>1, <2>1
    <3> QED BY <1>1, <1>2, <3>1
  <2> QED BY <1>2, <1>3, <2>1
<1> DEFINE below == {u \in Slots : LeasedBefore(u, G)}
           freeBelow == {u \in free : LeasedBefore(u, G)}
           takenBelow == {u \in taken : LeasedBefore(u, G)}
           first == {d \in on : d < c}
           firstWaiting == {d \in waiting : d < c}
           firstHeld == {d \in held : d < c}
<1>5. /\ Cardinality(freeBelow) \in Nat /\ Cardinality(takenBelow) \in Nat
      /\ Cardinality(below) = Cardinality(freeBelow) + Cardinality(takenBelow)
  <2>1. IsFiniteSet(below)
    <3>1. below \in SUBSET Slots
      OBVIOUS
    <3> QED BY <3>1, SlotOrderFacts
  <2>2. taken \subseteq Slots
    BY <1>1, <1>2
  <2>3. below = freeBelow \union takenBelow /\ freeBelow \intersect takenBelow = {}
    BY <1>3, <2>2
  <2> HIDE DEF below, freeBelow, takenBelow
  <2> QED BY <2>1, <2>3, PartsAdd
<1>6. /\ Cardinality(firstWaiting) \in Nat /\ Cardinality(firstHeld) \in Nat
      /\ Cardinality(first) = Cardinality(firstWaiting) + Cardinality(firstHeld)
  <2>1. IsFiniteSet(first)
    <3>1. first \in SUBSET on
      OBVIOUS
    <3> QED BY <3>1, <1>2, FS_Subset
  <2>2. ~(c < c)
    BY <1>2
  <2>3. first = firstWaiting \union firstHeld /\ firstWaiting \intersect firstHeld = {}
    BY <1>1, <2>2
  <2> HIDE DEF first, firstWaiting, firstHeld
  <2> QED BY <2>1, <2>3, PartsAdd
<1>7. Cardinality(firstHeld) = Cardinality(takenBelow)
  <2> DEFINE g == [d \in firstHeld |-> Goal(d)]
  <2>1. \A d \in firstHeld : d \in on /\ d # c /\ Goal(d) \in takenBelow
    BY <1>1, <1>2
  <2>2. \A u \in takenBelow : \E d \in firstHeld : g[d] = u
    <3> SUFFICES ASSUME NEW u \in takenBelow PROVE \E d \in firstHeld : Goal(d) = u
      OBVIOUS
    <3>1. PICK d \in held : Goal(d) = u
      BY <1>1
    <3>2. d < c
      BY <1>1, <1>2, <3>1
    <3> QED BY <3>1, <3>2
  <2>3. \A d, e \in firstHeld : g[d] = g[e] => d = e
    BY <2>1, Goals
  <2>4. g \in Bijection(firstHeld, takenBelow)
    BY <2>1, <2>2, <2>3 DEF Bijection, Injection, IsInjective, Surjection
  <2>5. IsFiniteSet(firstHeld)
    BY <2>1, <1>2, FS_Subset
  <2> HIDE DEF firstHeld, takenBelow, g
  <2>6. ExistsBijection(firstHeld, takenBelow)
    BY <2>4 DEF ExistsBijection
  <2> QED BY <2>5, <2>6, FS_Bijection
<1>8. Cardinality(below) = Cardinality(first)
  BY Goals DEF SlotRank, Queue
<1>9. QueueRank(c, r, now) = Cardinality(firstWaiting)
  BY DEF QueueRank
<1>10. Cardinality(freeBelow) = QueueRank(c, r, now)
  <2> HIDE DEF below, freeBelow, takenBelow, first, firstWaiting, firstHeld
  <2> QED BY <1>5, <1>6, <1>7, <1>8, <1>9
<1>11. /\ free \in SUBSET Slots /\ IsFiniteSet(free) /\ Cardinality(free) \in Nat
       /\ StrictOrder(free, SlotOrder)
       /\ \A t \in free : Before(free, SlotOrder, t) = {u \in free : LeasedBefore(u, t)}
  BY <1>3, SlotOrderFacts
<1>12. QueueRank(c, r, now) < Cardinality(free)
  <2>1. Cardinality(Before(free, SlotOrder, G)) \in 0 .. Cardinality(free) - 1
    BY <1>4, <1>11, RankBounds
  <2>2. Cardinality(Before(free, SlotOrder, G)) = QueueRank(c, r, now)
    BY <1>4, <1>10, <1>11
  <2> QED BY <1>11, <2>1, <2>2
<1>13. ASSUME NEW t \in free, Cardinality(Before(free, SlotOrder, t)) = QueueRank(c, r, now)
       PROVE  t = G
  <2>1. Cardinality(Before(free, SlotOrder, G)) = QueueRank(c, r, now)
    BY <1>4, <1>10, <1>11
  <2>2. QueueRank(c, r, now) \in Nat
    BY ViewFacts
  <2>3. <<t, G>> \notin SlotOrder /\ <<G, t>> \notin SlotOrder
    <3>1. <<t, G>> \in SlotOrder => QueueRank(c, r, now) < QueueRank(c, r, now)
      BY <1>4, <1>11, <1>13, <2>1, RankBounds
    <3>2. <<G, t>> \in SlotOrder => QueueRank(c, r, now) < QueueRank(c, r, now)
      BY <1>4, <1>11, <1>13, <2>1, RankBounds
    <3> QED BY <2>2, <3>1, <3>2
  <2> QED BY <1>4, <1>11, <2>3 DEF StrictOrder
<1> DEFINE v == Claim(c, s, r, now, k)
<1>14. QueueRank(c, r, now) \in Nat /\ ~(QueueRank(c, r, now) >= Cardinality(free))
  BY <1>11, <1>12, ViewFacts
<1>15. /\ v.slot \in free /\ v.leasedAt = now /\ v.heardUs = now
       /\ Cardinality(Before(free, SlotOrder, v.slot)) = QueueRank(c, r, now)
  BY <1>14, ClaimIs
<1> HIDE DEF v, G
<1>16. v.slot = G
  BY <1>13, <1>15
<1> QED BY <1>15, <1>16 DEF v, G


\* What a car may go by: a roster that agrees with the maps on it, and maps
\* that show its own lease once they are a second younger.
Grounds(c, s, r) ==
    /\ Seen(c, r)
    /\ now >= JoinListen => DOMAIN r = on \ {c}
    /\ s.slot \in {NoSlot, Goal(c)}
    /\ \A d \in DOMAIN r : \A t \in Slots :
          r[d].map[t] # 0 => t = s.slot \/ \E x \in DOMAIN r : r[x].slot = t
    /\ s.slot # NoSlot =>
          /\ now >= JoinListen /\ DOMAIN r # {} /\ s.heardUs >= s.leasedAt
          /\ \A d \in DOMAIN r : r[d].at > s.leasedAt + Second => r[d].map[s.slot] = Tag[c]

\* On such grounds no map shows another car on the slot,
LEMMA NoClash ==
    ASSUME on \in SUBSET Cars, now \in Nat, NEW c \in on, NEW s, SchedOK(s, now),
           NEW r, RosterOK(c, r, now), Grounds(c, s, r), s.slot # NoSlot
    PROVE  ~Verdict(c, s, r, now).clash
<1> DEFINE judges == Judges(s, r, now)
           saying == [d \in judges |-> r[d].map[s.slot]]
           us == {d \in judges : saying[d] = Tag[c]}
           other == {d \in judges : saying[d] \notin {0, Tag[c]}}
           well == {d \in judges : ~HearsPoorly(s, d, r[d].slot, now)}
           silent == Cardinality(well) >= 2 /\ us = {} /\ other = {}
<1>1. judges \in SUBSET DOMAIN r /\ IsFiniteSet(judges)
  <2>1. judges \subseteq MapsWithin(r, now, HeardWindow)
    BY DEF Judges
  <2>2. judges \in SUBSET DOMAIN r /\ judges \in SUBSET Cars
    BY <2>1, ViewFacts
  <2> QED BY <2>2, CarFacts
<1>2. ASSUME NEW d \in judges PROVE saying[d] = Tag[c]
  <2>1. d \in DOMAIN r /\ r[d].at \in Nat /\ r[d].at - s.leasedAt >= HeardWindow
    BY <1>1 DEF Judges, RosterOK, Entries
  <2>2. Second < HeardWindow /\ Second \in Nat /\ HeardWindow \in Nat /\ s.leasedAt \in Nat
    BY Numbers, FieldsOK
  <2>3. r[d].at > s.leasedAt + Second
    BY <2>1, <2>2
  <2> QED BY <2>1, <2>3 DEF Grounds
<1>3. us = judges /\ other = {}
  BY <1>2
<1>4. Cardinality(us) \in Nat /\ Cardinality(other) = 0
  BY <1>1, <1>3, FS_CardinalityType, FS_EmptySet
<1>5. ~silent
  <2>1. ASSUME us = {} PROVE Cardinality(well) = 0
    <3>1. well = {}
      BY <1>3, <2>1
    <3> HIDE DEF well
    <3> QED BY <3>1, FS_EmptySet
  <2>2. us = {} => ~(Cardinality(well) >= 2)
    BY <2>1
  <2> QED BY <2>2
<1>6. ~(Cardinality(other) > Cardinality(us))
  <2> HIDE DEF us, other
  <2> QED BY <1>4
<1>7. {saying[d] : d \in other} = {}
  BY <1>3
<1>8. ~TieLost(c, {saying[d] : d \in other})
  BY <1>7 DEF TieLost
<1>9. Verdict(c, s, r, now).clash =
          (\/ silent
           \/ Cardinality(other) > Cardinality(us)
           \/ Cardinality(other) = Cardinality(us) /\ TieLost(c, {saying[d] : d \in other}))
  BY DEF Verdict
<1> HIDE DEF silent, us, other, saying
<1> QED BY <1>5, <1>6, <1>8, <1>9

\* no rider stands on it,
LEMMA NotOutranked ==
    ASSUME on \in SUBSET Cars, now \in Nat, NEW c \in on, NEW s,
           NEW r, RosterOK(c, r, now), Grounds(c, s, r), s.slot # NoSlot
    PROVE  ~Outranked(c, s, r, now)
<1>1. s.slot = Goal(c) /\ Seen(c, r)
  BY DEF Grounds
<1>2. HeldSlots(r, now) = {Goal(d) : d \in HeldBy(r)} /\ HeldBy(r) \subseteq on \ {c}
  BY <1>1, SeenIs DEF HeldBy, Seen
<1>3. s.slot \notin HeldSlots(r, now)
  BY <1>1, <1>2, Goals
<1> QED BY <1>3 DEF Outranked

\* and the lease is not one nobody hears.
LEMMA StillHeard ==
    ASSUME on \in SUBSET Cars, now \in Nat, NEW c \in on, NEW s, SchedOK(s, now),
           NEW r, RosterOK(c, r, now), Grounds(c, s, r), s.slot # NoSlot,
           NEW u, u.heardUs \in Nat, s.heardUs <= u.heardUs,
           \A d \in Live(r, now) : r[d].map[s.slot] = Tag[c] => r[d].at <= u.heardUs
    PROVE  ~LeaseUnheard(u, now)
<1>1. Seen(c, r) /\ s.heardUs >= s.leasedAt /\ s.heardUs \in Nat /\ s.leasedAt \in Nat
  BY FieldsOK DEF Grounds
<1>2. PICK d \in DOMAIN r : TRUE
  BY DEF Grounds
<1>3. d \in Live(r, now) /\ r[d].at \in Nat /\ r[d].at > now - 3 * Second
  BY <1>1, SeenIs DEF Seen, RosterOK, Entries
<1>4. r[d].at > s.leasedAt + Second => r[d].map[s.slot] = Tag[c]
  BY DEF Grounds
<1>5. Second \in Nat \ {0} /\ Unheard \in Nat /\ Unheard >= 5 * Second
  BY Numbers, LeaseAssumption
<1>6. CASE r[d].at > s.leasedAt + Second
  <2>1. r[d].at <= u.heardUs
    BY <1>3, <1>4, <1>6
  <2>2. ~(now - u.heardUs >= Unheard)
    BY <1>3, <1>5, <2>1
  <2> QED BY <2>2 DEF LeaseUnheard
<1>7. CASE ~(r[d].at > s.leasedAt + Second)
  <2>1. ~(now - u.heardUs >= Unheard)
    BY <1>1, <1>3, <1>5, <1>7
  <2> QED BY <2>1 DEF LeaseUnheard
<1> QED BY <1>6, <1>7


\* On such grounds a lease is kept, and what is claimed is the car's own slot.
LEMMA SettleCalm ==
    ASSUME on \in SUBSET Cars, now \in Nat, NEW c \in on, NEW s, SchedOK(s, now),
           NEW r, RosterOK(c, r, now), Grounds(c, s, r)
    PROVE  LET v == SettleLease(c, s, r, now, TRUE)
           IN  /\ v.slot \in {NoSlot, Goal(c)}
               /\ s.slot # NoSlot => v.slot = s.slot /\ v.leasedAt = s.leasedAt
               /\ s.slot = NoSlot /\ v.slot # NoSlot =>
                     now >= JoinListen /\ DOMAIN r # {} /\ v.leasedAt = now
               /\ v.slot # NoSlot => v.heardUs >= v.leasedAt
<1> DEFINE s1 == TakeView(c, s, r, now)
           s2 == SpeakAgain(Greet(s1, now), now)
           v == SettleLease(c, s, r, now, TRUE)
           poor == HearingPoorly(s2, now)
           trust == IF poor THEN MapTrust ELSE HeardWindow
           overdue == poor /\ \E d \in Direct(r, now) :
                        /\ r[d].slot # NoSlot
                        /\ now - r[d].at >= trust
                        /\ now - r[d].at < ReferenceLapse
           listening == now - s2.firstHeard < s2.listen + (IF poor THEN JoinListen ELSE 0)
<1>0. c \in Cars /\ now \in Nat
  OBVIOUS
<1>1. /\ SchedOK(s1, now) /\ s1.slot = s.slot /\ s1.leasedAt = s.leasedAt
      /\ s.heardUs <= s1.heardUs
      /\ \A d \in Live(r, now) : s.slot # NoSlot /\ r[d].map[s.slot] = Tag[c] => r[d].at <= s1.heardUs
  BY <1>0, TakeViewKeeps
<1> HIDE DEF s1
<1>2. /\ SchedOK(s2, now) /\ s2.slot = s.slot /\ s2.leasedAt = s.leasedAt
      /\ s2.heardUs = s1.heardUs
  <2>1. /\ SchedOK(Greet(s1, now), now) /\ Greet(s1, now).slot = s.slot
        /\ Greet(s1, now).leasedAt = s.leasedAt /\ Greet(s1, now).heardUs = s1.heardUs
    BY <1>1, GreetKeeps
  <2> QED BY <2>1, SpeakAgainKeeps
<1>3. v = IF Live(r, now) = {} THEN LeftAlone(s1, now)
          ELSE IF s2.slot # NoSlot THEN JudgeLease(c, s2, r, now, poor, trust)
          ELSE IF listening \/ overdue THEN s2
          ELSE Claim(c, s2, r, now, trust)
  BY DEF SettleLease, s1
<1>31. ~listening => now - s2.firstHeard >= s2.listen
  <2>1. SchedOK(s2, now)
    BY <1>2
  <2> HIDE DEF s2, poor
  <2>2. s2.firstHeard \in 0 .. now /\ s2.listen \in Nat /\ JoinListen \in Nat
    BY <2>1, FieldsOK, Numbers
  <2> QED BY <2>2
<1> HIDE DEF v, s2, overdue, poor, trust, listening
<1>4. Live(r, now) = DOMAIN r /\ Seen(c, r) /\ s.slot \in {NoSlot, Goal(c)}
  BY SeenIs DEF Grounds
<1> DEFINE Good == /\ v.slot \in {NoSlot, Goal(c)}
                   /\ s.slot # NoSlot => v.slot = s.slot /\ v.leasedAt = s.leasedAt
                   /\ s.slot = NoSlot /\ v.slot # NoSlot =>
                         now >= JoinListen /\ DOMAIN r # {} /\ v.leasedAt = now
                   /\ v.slot # NoSlot => v.heardUs >= v.leasedAt
<1> SUFFICES Good
  BY DEF v
<1>5. CASE Live(r, now) = {}
  <2>1. s.slot = NoSlot
    BY <1>4, <1>5 DEF Grounds
  <2>2. v = LeftAlone(s1, now)
    BY <1>3, <1>5
  <2>3. v.slot = NoSlot
    BY <1>0, <1>1, <2>2, LeftAloneKeeps
  <2> QED BY <2>1, <2>3
<1>6. CASE Live(r, now) # {} /\ s.slot # NoSlot
  <2>1. v = JudgeLease(c, s2, r, now, poor, trust)
    BY <1>2, <1>3, <1>6
  <2>2. Grounds(c, s2, r)
    <3>1. s2.heardUs >= s2.leasedAt
      <4>1. s.heardUs >= s.leasedAt /\ s.heardUs \in Nat /\ s.leasedAt \in Nat /\ s1.heardUs \in Nat
        BY <1>1, <1>6, FieldsOK DEF Grounds
      <4> QED BY <1>1, <1>2, <4>1
    <3> QED BY <1>2, <3>1 DEF Grounds
  <2>3. ~Verdict(c, s2, r, now).clash /\ ~Outranked(c, s2, r, now)
    BY <1>2, <1>6, <2>2, NoClash, NotOutranked
  <2>4. ~LeaseUnheard(s2, now)
    <3>1. s2.heardUs \in Nat
      BY <1>2, FieldsOK
    <3>2. s.heardUs <= s2.heardUs
      BY <1>1, <1>2
    <3>3. \A d \in Live(r, now) : r[d].map[s.slot] = Tag[c] => r[d].at <= s2.heardUs
      BY <1>1, <1>2, <1>6
    <3> QED BY <1>6, <3>1, <3>2, <3>3, StillHeard
  <2>5. ASSUME NEW p, NEW k
        PROVE  LET w == JudgeLease(c, s2, r, now, p, k)
               IN  /\ w.slot = s2.slot
                   /\ w.leasedAt = s2.leasedAt /\ w.heardUs = s2.heardUs
    <3>1. SchedOK(s2, now) /\ RosterOK(c, r, now)
      BY <1>2
    <3>2. Unchallenged(c, s2, r, now)
      <4>1. Verdict(c, s2, r, now).clash \in BOOLEAN
        BY <1>0, VerdictTyped
      <4> QED BY <2>3, <2>4, <4>1 DEF Unchallenged
    <3> QED BY <1>0, <3>1, <3>2, JudgeCalm
  <2>6. s2.heardUs >= s2.leasedAt
    BY <1>2, <1>6, <2>2 DEF Grounds
  <2>7. /\ v.slot = s.slot /\ v.leasedAt = s.leasedAt
        /\ v.heardUs >= v.leasedAt
    BY <1>2, <2>1, <2>5, <2>6
  <2> QED BY <1>4, <1>6, <2>7
<1>7. CASE Live(r, now) # {} /\ s.slot = NoSlot /\ v = s2
  BY <1>2, <1>7
<1>8. CASE Live(r, now) # {} /\ s.slot = NoSlot /\ v # s2
  <2>1. v = Claim(c, s2, r, now, trust) /\ ~listening
    BY <1>2, <1>3, <1>8
  <2>2. now >= JoinListen
    <3>1. /\ s2.firstHeard \in 0 .. now /\ s2.listen \in JoinListen .. JoinListen + BackoffMax
          /\ JoinListen \in Nat /\ BackoffMax \in Nat
      BY <1>2, FieldsOK, Numbers DEF SchedOK
    <3> QED BY <1>31, <2>1, <3>1
  <2>3. DOMAIN r = on \ {c}
    BY <2>2 DEF Grounds
  <2>4. \A d \in DOMAIN r : \A t \in Slots :
            r[d].map[t] # 0 => \E x \in DOMAIN r : r[x].slot = t
    BY <1>8, Numbers DEF Grounds
  <2>5. ASSUME NEW k
        PROVE  LET w == Claim(c, s2, r, now, k)
               IN  w.slot = Goal(c) /\ w.leasedAt = now /\ w.heardUs = now
    <3>1. SchedOK(s2, now) /\ RosterOK(c, r, now) /\ Seen(c, r)
      BY <1>2, <1>4
    <3> QED BY <2>3, <2>4, <3>1, ClaimsGoal
  <2>6. v.slot = Goal(c) /\ v.leasedAt = now /\ v.heardUs = now
    BY <2>1, <2>5
  <2>7. DOMAIN r # {}
    BY <1>4, <1>8
  <2> QED BY <1>0, <1>8, <2>2, <2>6, <2>7
<1> QED BY <1>5, <1>6, <1>7, <1>8


\* What planExtras takes: free blocks of the row that fall to the car's own.
LEMMA PlanIs ==
    ASSUME NEW n \in Nat, NEW s, SchedOK(s, n), NEW r,
           NEW t \in PlanExtras(s, r, n).extras
    PROVE  /\ ~ExtrasOff(s) /\ t \in Slots /\ RowOf(t) = RowOf(s.slot)
           /\ BlockOf(t) \notin LeasedBlocks(s, r, n)
           /\ ExtraOwner(BlockOf(t), LeasedBlocks(s, r, n)) = BlockOf(s.slot)
<1> DEFINE leased == LeasedBlocks(s, r, n)
           mine == {b \in (0 .. Blocks - 1) \ leased : ExtraOwner(b, leased) = BlockOf(s.slot)}
           x == IF ExtrasOff(s) THEN {} ELSE {RowOf(s.slot) * Blocks + b : b \in mine}
           v == PlanExtras(s, r, n)
           q == RowOf(s.slot)
<1>1. v = [s EXCEPT !.extras = x]
  BY DEF PlanExtras
<1>2. s \in Scheds /\ s.slot \in 0 .. NoSlot
  BY FieldsOK
<1>3. v.extras = x
  <2> HIDE DEF x, v
  <2> QED BY <1>1, <1>2 DEF Scheds
<1>4. ~ExtrasOff(s)
  BY <1>3
<1>5. s.slot \in Slots
  <2>1. s.slot # NoSlot
    BY <1>4 DEF ExtrasOff
  <2> QED BY <1>2, <2>1, Numbers
<1>6. PICK b \in mine : t = q * Blocks + b
  BY <1>3, <1>4
<1>7. b \in 0 .. 3 /\ b \notin leased /\ ExtraOwner(b, leased) = BlockOf(s.slot)
  BY <1>6 DEF Blocks
<1>8. q \in 0 .. Rows - 1 /\ Rows \in Nat /\ Slots = 0 .. 4 * Rows - 1
  BY <1>5, SlotFacts, Numbers
<1>9. RowOf(t) = t \div 4 /\ BlockOf(t) = t % 4 /\ t = q * 4 + b
  BY <1>6 DEF RowOf, BlockOf, Blocks
<1> HIDE DEF q
<1>10. t \in Slots /\ t \div 4 = q /\ t % 4 = b
  BY <1>7, <1>8, <1>9
<1> HIDE DEF leased
<1>11. RowOf(t) = q /\ BlockOf(t) = b
  BY <1>9, <1>10
<1> QED BY <1>4, <1>7, <1>10, <1>11 DEF q, leased

\* The whole pass: a lease kept or claimed, and extras that are the car's own.
LEMMA RebuildCalm ==
    ASSUME on \in SUBSET Cars, now \in Nat, NEW c \in on, NEW s, SchedOK(s, now),
           NEW r, RosterOK(c, r, now), Grounds(c, s, r)
    PROVE  LET v == Rebuild(c, s, r, now, TRUE)
           IN  /\ v.slot \in {NoSlot, Goal(c)}
               /\ s.slot # NoSlot => v.slot = s.slot /\ v.leasedAt = s.leasedAt
               /\ s.slot = NoSlot /\ v.slot # NoSlot => v.leasedAt = now
               /\ v.slot # NoSlot =>
                     /\ now >= JoinListen /\ DOMAIN r # {}
                     /\ v.heardUs >= v.leasedAt /\ v.known > 1 /\ v.extras \subseteq Spares(c)
               /\ v.slot = NoSlot => v.extras = {}
<1> DEFINE u == SettleLease(c, s, r, now, TRUE)
           v == PlanExtras(u, r, now)
<1>0. c \in Cars
  OBVIOUS
<1>1. /\ u.slot \in {NoSlot, Goal(c)}
      /\ s.slot # NoSlot => u.slot = s.slot /\ u.leasedAt = s.leasedAt
      /\ s.slot = NoSlot /\ u.slot # NoSlot =>
            now >= JoinListen /\ DOMAIN r # {} /\ u.leasedAt = now
      /\ u.slot # NoSlot => u.heardUs >= u.leasedAt
  BY SettleCalm
<1>2. /\ SchedOK(u, now) /\ u.known = 1 + Cardinality(Live(r, now))
      /\ u.waiting = (Waiting(r, now) # {})
  <2> DEFINE speaking == TRUE
             w == SettleLease(c, s, r, now, speaking)
  <2> HIDE DEF speaking
  <2>1. /\ SchedOK(w, now) /\ w.known = 1 + Cardinality(Live(r, now))
        /\ w.waiting = (Waiting(r, now) # {})
    BY <1>0, SettleKeeps
  <2> QED BY <2>1 DEF speaking
<1> HIDE DEF u
<1>4. v.slot = u.slot /\ v.known = u.known /\ v.leasedAt = u.leasedAt /\ v.heardUs = u.heardUs
  BY <1>2, PlanKeeps
<1>5. u.slot # NoSlot => now >= JoinListen /\ DOMAIN r # {}
  BY <1>1 DEF Grounds
<1>6. Seen(c, r) /\ Live(r, now) = DOMAIN r /\ Waiting(r, now) = DOMAIN r \ HeldBy(r)
  BY SeenIs DEF Grounds
<1>7. u.slot # NoSlot => u.known > 1
  <2>1. IsFiniteSet(Live(r, now)) /\ Cardinality(Live(r, now)) \in Nat
    BY <1>0, ViewFacts, CarFacts
  <2>2. Live(r, now) # {} => Cardinality(Live(r, now)) # 0
    BY <2>1, FS_EmptySet
  <2>3. u.slot # NoSlot => Cardinality(Live(r, now)) # 0
    BY <1>5, <1>6, <2>2
  <2> QED BY <1>2, <2>1, <2>3
<1>8. ASSUME NEW t \in v.extras PROVE u.slot # NoSlot /\ t \in Spares(c)
  <2> DEFINE leased == LeasedBlocks(u, r, now)
  <2>1. /\ ~ExtrasOff(u) /\ t \in Slots /\ RowOf(t) = RowOf(u.slot) /\ BlockOf(t) \notin leased
        /\ ExtraOwner(BlockOf(t), leased) = BlockOf(u.slot)
    BY <1>2, <1>8, PlanIs
  <2>2. u.slot = Goal(c) /\ u.slot # NoSlot /\ ~u.waiting
    BY <1>1, <2>1 DEF ExtrasOff
  <2>3. Waiting(r, now) = {}
    BY <1>2, <2>2
  <2>4. DOMAIN r = on \ {c}
    BY <1>5, <2>2 DEF Grounds
  <2>5. \A d \in on \ {c} : r[d].slot = Goal(d) /\ Goal(d) # NoSlot
    BY <1>6, <2>3, <2>4 DEF HeldBy, Seen
  <2> DEFINE mapped == ReportedBusy(r, MapsWithin(r, now, HeardWindow))
             claims == {r[d].slot : d \in Live(r, now)}
             all == (claims \ {NoSlot}) \union mapped \union {u.slot}
             row == RowOf(u.slot)
             goals == {Goal(d) : d \in on}
  <2>6. \A x \in claims : x \in goals /\ x # NoSlot
    BY <1>6, <2>4, <2>5
  <2>7. \A d \in on \ {c} : Goal(d) \in claims
    BY <1>6, <2>4, <2>5
  <2>8. \A x \in mapped : x \in goals
    <3> SUFFICES ASSUME NEW x \in mapped PROVE x \in goals
      OBVIOUS
    <3>1. PICK d \in MapsWithin(r, now, HeardWindow) : x \in Slots /\ r[d].map[x] # 0
      BY DEF ReportedBusy
    <3>2. d \in DOMAIN r
      BY <1>0, <3>1, ViewFacts
    <3>3. x = s.slot \/ \E e \in DOMAIN r : r[e].slot = x
      BY <3>1, <3>2 DEF Grounds
    <3>4. CASE x = s.slot
      <4>1. x # NoSlot
        BY <3>1, Numbers
      <4>2. x = Goal(c)
        BY <3>4, <4>1 DEF Grounds
      <4> QED BY <4>2
    <3>5. CASE \E e \in DOMAIN r : r[e].slot = x
      BY <2>4, <2>5, <3>5
    <3> QED BY <3>3, <3>4, <3>5
  <2>9. all = goals
    <3> HIDE DEF claims, mapped
    <3>1. \A x \in all : x \in goals
      BY <2>2, <2>6, <2>8
    <3>2. \A x \in goals : x \in all
      BY <2>2, <2>5, <2>7
    <3> QED BY <3>1, <3>2
  <2>10. leased = {BlockOf(x) : x \in {y \in all : RowOf(y) = row}}
    BY DEF LeasedBlocks
  <2> HIDE DEF all, leased
  <2>11. leased = GoalBlocks(row)
    BY <2>9, <2>10 DEF GoalBlocks
  <2> QED BY <2>1, <2>2, <2>11 DEF Spares
<1>9. Rebuild(c, s, r, now, TRUE) = v
  BY DEF Rebuild, u
<1> HIDE DEF v
<1> QED BY <1>1, <1>4, <1>5, <1>7, <1>8, <1>9

-----------------------------------------------------------------------------
(* What a calm ride gives a pass.                                          *)

\* A beacon is never two seconds late, nor one while the car has no slot.
LEMMA Late ==
    ASSUME NEW s, NEW b \in Radios, NEW u \in Nat, TimelyAt(s, b, u), b.sentOnce
    PROVE  /\ u <= b.deadline + 2 * Second - 1
           /\ s.slot = NoSlot => u <= b.deadline + Second - 1
<1>1. Second \in Nat \ {0} /\ b.deadline \in Nat
  BY Numbers DEF Radios
<1>2. CASE s.slot # NoSlot
  BY <1>1, <1>2 DEF TimelyAt, Comes
<1>3. CASE s.slot = NoSlot /\ b.want
  <2>1. u <= b.deadline + Second - 1
    BY <1>1, <1>3 DEF TimelyAt, Comes
  <2> QED BY <1>1, <1>3, <2>1
<1>4. CASE s.slot = NoSlot /\ ~b.want
  <2>1. u <= b.deadline
    BY <1>4 DEF TimelyAt
  <2> QED BY <1>1, <1>4, <2>1
<1> QED BY <1>2, <1>3, <1>4

\* The state of a calm ride, one car at a time.
LEMMA CalmCar ==
    ASSUME RideInv, CalmBody, NEW c \in on
    PROVE  /\ c \in Cars /\ now \in Nat /\ on \in SUBSET Cars /\ Goal(c) \in Slots
           /\ SchedOK(sched[c], now) /\ RosterOK(c, riders[c], now) /\ radio[c] \in Radios
           /\ c \notin DOMAIN riders[c]
           /\ FirstBeacon(c) /\ Timely(c) /\ Leasing(c) /\ Rosters(c) /\ Links(c)
<1>1. c \in Cars /\ now \in Nat /\ on \in SUBSET Cars
  BY OnFacts DEF RideInv, ClockOK
<1>2. Goal(c) \in Slots
  BY <1>1, Goals
<1>3. SchedOK(sched[c], now) /\ RosterOK(c, riders[c], now) /\ radio[c] \in Radios
  BY <1>1 DEF RideInv, CarsOK, CarOK, CarAt
<1>4. c \notin DOMAIN riders[c]
  BY <1>3 DEF RosterOK
<1> QED BY <1>1, <1>2, <1>3, <1>4 DEF CalmBody

\* Every car of a calm ride has such grounds.
LEMMA GroundsHold ==
    ASSUME RideInv, CalmBody, NEW c \in on
    PROVE  Grounds(c, sched[c], riders[c])
<1> DEFINE s == sched[c]
           r == riders[c]
<1>1. /\ c \in Cars /\ now \in Nat /\ on \in SUBSET Cars
      /\ SchedOK(s, now) /\ RosterOK(c, r, now) /\ c \notin DOMAIN r
      /\ Leasing(c) /\ Rosters(c)
  BY CalmCar
<1>2. \A d \in DOMAIN r : d \in on \ {c} /\ Heard(c, d)
  BY <1>1 DEF Rosters
<1>3. \A d \in on : sched[d].slot \in {NoSlot, Goal(d)}
  BY CalmCar DEF Leasing, LeasingAt
<1>4. Seen(c, r)
  <2>1. ASSUME NEW d \in DOMAIN r PROVE r[d].slot \in {NoSlot, Goal(d)} /\ r[d].at > now - 3 * Second
    BY <1>2, <1>3 DEF Heard
  <2> QED BY <1>2, <2>1 DEF Seen
<1>5. ASSUME now >= JoinListen PROVE DOMAIN r = on \ {c}
  <2>1. ASSUME NEW d \in on \ {c}, d \notin DOMAIN r PROVE FALSE
    <3>1. Unknown(c, d)
      BY <1>1, <2>1 DEF Rosters
    <3> QED BY <1>1, <1>5, <3>1, Numbers DEF Unknown
  <2> QED BY <1>2, <2>1
<1>6. ASSUME NEW d \in DOMAIN r, NEW t \in Slots, r[d].map[t] # 0
      PROVE  t = s.slot \/ \E x \in DOMAIN r : r[x].slot = t
  <2>1. Announced(t)
    BY <1>2, <1>6 DEF Heard
  <2>2. PICK x \in on : sched[x].slot = t /\ \A y \in on \ {x} : Lists(y, x, t)
    BY <2>1 DEF Announced
  <2>3. CASE x = c
    BY <2>2, <2>3
  <2>4. CASE x # c
    BY <2>2, <2>4 DEF Lists
  <2> QED BY <2>3, <2>4
<1>7. s.slot # NoSlot => now >= JoinListen /\ DOMAIN r # {} /\ s.heardUs >= s.leasedAt
  BY <1>1 DEF Leasing, LeasingAt
<1>8. ASSUME s.slot # NoSlot, NEW d \in DOMAIN r, r[d].at > s.leasedAt + Second
      PROVE  r[d].map[s.slot] = Tag[c]
  BY <1>2, <1>8 DEF Heard
<1>9. s.slot \in {NoSlot, Goal(c)}
  BY <1>3
<1> QED BY <1>4, <1>5, <1>6, <1>7, <1>8, <1>9 DEF Grounds


\* What a pass may do to the schedule s0 of a car that comes to lease g.
Follows(g, spares, s0, s) ==
    /\ s.slot \in {NoSlot, g}
    /\ s0.slot # NoSlot => s.slot = s0.slot /\ s.leasedAt = s0.leasedAt
    /\ s0.slot = NoSlot /\ s.slot # NoSlot => s.leasedAt = now /\ now >= JoinListen
    /\ s.slot # NoSlot => s.heardUs >= s.leasedAt /\ s.known > 1 /\ s.extras \subseteq spares
    /\ s.slot = NoSlot => s.extras = {}

\* So what a pass over the roster does to the schedule follows the queue.
LEMMA RebuildFollows ==
    ASSUME on \in SUBSET Cars, now \in Nat, NEW c \in on, NEW s, SchedOK(s, now),
           NEW r, RosterOK(c, r, now), Grounds(c, s, r)
    PROVE  LET v == Rebuild(c, s, r, now, TRUE)
           IN  /\ Follows(Goal(c), Spares(c), s, v)
               /\ v.slot # NoSlot => now >= JoinListen /\ DOMAIN r # {}
BY RebuildCalm DEF Follows

\* And so does a beacon's reading of the roster.
LEMMA RereadFollows ==
    ASSUME RideInv, CalmBody, NEW c \in on, NEW s \in Schedules(c)
    PROVE  /\ Follows(Goal(c), Spares(c), sched[c], s)
           /\ s.slot # NoSlot => now >= JoinListen /\ DOMAIN riders[c] # {}
           /\ s.heard = sched[c].heard /\ s.sharedBlock \in 0 .. 3 /\ s \in Scheds
           /\ ~Due(c) => s = sched[c]
           /\ Due(c) /\ DOMAIN riders[c] = {} => s.known = 1
<1>1. /\ c \in Cars /\ now \in Nat /\ on \in SUBSET Cars
      /\ SchedOK(sched[c], now) /\ RosterOK(c, riders[c], now)
      /\ Leasing(c)
  BY CalmCar
<1>2. Grounds(c, sched[c], riders[c])
  BY GroundsHold
<1>3. CASE ~Due(c)
  <2>1. s = sched[c]
    BY <1>3 DEF Schedules
  <2>2. s \in Scheds /\ s.sharedBlock \in 0 .. 3
    BY <1>1, <2>1, FieldsOK
  <2>3. Follows(Goal(c), Spares(c), s, s)
    BY <1>1, <2>1 DEF Follows, Leasing, LeasingAt
  <2>4. s.slot # NoSlot => now >= JoinListen /\ DOMAIN riders[c] # {}
    BY <1>1, <2>1 DEF Leasing
  <2> QED BY <1>3, <2>1, <2>2, <2>3, <2>4
<1>4. CASE Due(c)
  <2>1. PICK draw \in Draws : s = Reread(c, draw)
    BY <1>4 DEF Schedules
  <2> DEFINE v == Rebuild(c, sched[c], riders[c], now, TRUE)
             b == draw.block
             p == draw.spare
  <2>2. b \in 0 .. Blocks - 1 /\ p \in Nat
    BY RideAssumption
  <2>3. SchedOK(v, now) /\ v.heard = sched[c].heard /\ v.known = 1 + Cardinality(Live(riders[c], now))
    <3> DEFINE speaking == TRUE
               w == Rebuild(c, sched[c], riders[c], now, speaking)
    <3> HIDE DEF speaking
    <3>1. SchedOK(w, now) /\ w.heard = sched[c].heard /\ w.known = 1 + Cardinality(Live(riders[c], now))
      BY <1>1, RebuildKeeps
    <3> QED BY <3>1 DEF speaking
  <2>4. /\ Follows(Goal(c), Spares(c), sched[c], v)
        /\ v.slot # NoSlot => now >= JoinListen /\ DOMAIN riders[c] # {}
    BY <1>1, <1>2, RebuildFollows
  <2>5. s = [v EXCEPT !.sharedBlock = b, !.spare = p]
    BY <2>1 DEF Reread
  <2> HIDE DEF v, b, p
  <2>6. v \in Scheds
    BY <2>3 DEF SchedOK
  <2>7. /\ s \in Scheds /\ s.slot = v.slot /\ s.leasedAt = v.leasedAt /\ s.heardUs = v.heardUs
        /\ s.known = v.known /\ s.extras = v.extras /\ s.heard = v.heard /\ s.sharedBlock = b
    BY <2>2, <2>5, <2>6 DEF Scheds
  <2>8. Follows(Goal(c), Spares(c), sched[c], s)
    BY <2>4, <2>7 DEF Follows
  <2>9. DOMAIN riders[c] = {} => v.known = 1
    <3>1. DOMAIN riders[c] = {} => Live(riders[c], now) = {}
      BY DEF Live
    <3> QED BY <2>3, <3>1, FS_EmptySet
  <2> QED BY <1>4, <2>2, <2>3, <2>4, <2>7, <2>8, <2>9 DEF Blocks
<1> QED BY <1>3, <1>4

-----------------------------------------------------------------------------
(* What every pass keeps.                                                  *)

\* What every pass of a calm ride keeps: leases, and what the rosters show of them.
Onward ==
    /\ on' = on /\ now' \in {now, now + 1}
    /\ \A d \in on :
          /\ sched[d].slot # NoSlot =>
                sched'[d].slot = sched[d].slot /\ sched'[d].leasedAt = sched[d].leasedAt
          /\ sched[d].slot = NoSlot /\ sched'[d].slot # NoSlot =>
                sched'[d].leasedAt = now /\ now >= JoinListen
          /\ radio[d].sentOnce => radio'[d].sentOnce
    /\ \A x, y \in on : x # y => \A t \in Slots : Lists(y, x, t) => Lists(y, x, t)'

\* Who comes to lease what depends on the cars that are on, and nothing else.
LEMMA GoalsKept ==
    ASSUME on' = on
    PROVE  \A c : Goal(c)' = Goal(c) /\ Spares(c)' = Spares(c)
<1>1. \A c : Queue(c)' = Queue(c)
  BY DEF Queue
<1>2. \A c : Goal(c)' = Goal(c)
  BY <1>1 DEF Goal, SlotRank
<1>3. \A row : GoalBlocks(row)' = GoalBlocks(row)
  BY <1>2 DEF GoalBlocks
<1> QED BY <1>2, <1>3 DEF Spares

\* A lease that all have heard of stays so.
LEMMA AnnouncedStays ==
    ASSUME Onward, NEW t \in Slots, Announced(t)
    PROVE  Announced(t)'
<1>1. PICK x \in on : sched[x].slot = t /\ \A y \in on \ {x} : Lists(y, x, t)
  BY DEF Announced
<1>2. sched'[x].slot = t
  BY <1>1, Numbers DEF Onward
<1>3. on' = on /\ \A y \in on \ {x} : Lists(y, x, t)'
  BY <1>1 DEF Onward
<1> QED BY <1>2, <1>3 DEF Announced

\* What a roster shows of a car stays right while nothing is heard of that car.
LEMMA EntryKept ==
    ASSUME RideInv, RideInv', CalmBody, Onward, NEW x \in on, NEW d \in on \ {x},
           d \in DOMAIN riders'[x] <=> d \in DOMAIN riders[x],
           d \in DOMAIN riders[x] => riders'[x][d] = riders[x][d],
           ~Pending(x, d)' =>
                /\ ~Pending(x, d) /\ (radio'[d].sentOnce => radio[d].sentOnce)
                /\ radio'[d].deadline = radio[d].deadline,
           now' # now => ~Pending(x, d)',
           Timely(d)', FirstBeacon(d)', now' <= Until(d)', Until(d)' \in Nat
    PROVE  IF d \in DOMAIN riders'[x] THEN Heard(x, d)' ELSE Unknown(x, d)'
<1>1. /\ now \in Nat /\ now' \in Nat /\ Second \in Nat \ {0} /\ JoinListen \in Nat
      /\ on \in SUBSET Cars /\ on' = on /\ Rosters(x) /\ RosterOK(x, riders[x], now)
      /\ Second >= 2
  BY CalmCar, Numbers DEF Onward
<1>2. /\ radio'[d] \in Radios /\ radio'[d].deadline \in Nat
      /\ radio'[d].sentOnce =>
            /\ now' <= radio'[d].deadline + 2 * Second - 1
            /\ sched'[d].slot = NoSlot => now' <= radio'[d].deadline + Second - 1
  <2>1. radio'[d] \in Radios
    BY <1>1 DEF RideInv, CarsOK
  <2>2. TimelyAt(sched'[d], radio'[d], Until(d)') /\ Until(d)' \in Nat /\ now' <= Until(d)'
    BY DEF Timely
  <2>3. radio'[d].sentOnce =>
          /\ Until(d)' <= radio'[d].deadline + 2 * Second - 1
          /\ sched'[d].slot = NoSlot => Until(d)' <= radio'[d].deadline + Second - 1
    BY <2>1, <2>2, Late
  <2>4. radio'[d].deadline \in Nat
    BY <2>1 DEF Radios
  <2> QED BY <1>1, <2>1, <2>2, <2>3, <2>4
<1>3. CASE d \in DOMAIN riders[x]
  <2> DEFINE e == riders[x][d]
  <2>0. Heard(x, d) /\ riders'[x][d] = e
    BY <1>1, <1>3 DEF Rosters
  <2>1. e \in Entries /\ e.at \in Nat /\ e.at <= now /\ e.slot \in 0 .. NoSlot
    BY <1>1, <1>3 DEF RosterOK, Entries
  <2>2. e.slot \in {NoSlot, sched'[d].slot}
    BY <2>0 DEF Heard, Onward
  <2>3. ~Pending(x, d)' => radio'[d].sentOnce /\ e.at + Second >= radio'[d].deadline
    BY <2>0 DEF Heard, Onward
  <2>4. e.at > now' - 3 * Second
    <3>1. CASE now' = now
      BY <2>0, <3>1 DEF Heard
    <3>2. CASE now' # now
      <4>1. radio'[d].sentOnce /\ e.at + Second >= radio'[d].deadline
        BY <2>3, <3>2
      <4>2. now' <= radio'[d].deadline + 2 * Second - 1 /\ radio'[d].deadline \in Nat
        BY <1>2, <4>1
      <4> HIDE DEF e
      <4> QED BY <1>1, <2>1, <4>1, <4>2
    <3> QED BY <3>1, <3>2
  <2>5. \A t \in Slots : e.map[t] # 0 => Announced(t)'
    BY <2>0, AnnouncedStays DEF Heard
  <2>6. ASSUME sched'[x].slot # NoSlot, e.at > sched'[x].leasedAt + Second
        PROVE  e.map[sched'[x].slot] = Tag[x]
    <3>1. sched[x].slot # NoSlot
      <4>1. sched[x].slot = NoSlot => sched'[x].leasedAt = now
        BY <2>6 DEF Onward
      <4> QED BY <1>1, <2>1, <2>6, <4>1
    <3>2. sched'[x].slot = sched[x].slot /\ sched'[x].leasedAt = sched[x].leasedAt
      BY <3>1 DEF Onward
    <3> QED BY <2>0, <2>6, <3>1, <3>2 DEF Heard
  <2>7. Heard(x, d)'
    BY <2>0, <2>2, <2>3, <2>4, <2>5, <2>6 DEF Heard
  <2> QED BY <1>3, <2>7
<1>4. CASE d \notin DOMAIN riders[x]
  <2>0. Unknown(x, d)
    BY <1>1, <1>4 DEF Rosters
  <2>1. now <= JoinListen - 2
    BY <2>0 DEF Unknown
  <2>2. ASSUME ~Pending(x, d)', radio'[d].sentOnce
        PROVE  radio'[d].deadline < JoinListen - Second /\ sched'[d].slot = NoSlot
    <3>1. radio[d].deadline < JoinListen - Second /\ sched[d].slot = NoSlot
          /\ radio'[d].deadline = radio[d].deadline
      BY <2>0, <2>2 DEF Unknown
    <3>2. ~(now >= JoinListen)
      BY <1>1, <2>1
    <3> QED BY <3>1, <3>2 DEF Onward
  <2>3. now' <= JoinListen - 2
    <3>1. CASE now' = now
      BY <2>1, <3>1
    <3>2. CASE now' # now /\ radio'[d].sentOnce
      <4>1. radio'[d].deadline < JoinListen - Second /\ sched'[d].slot = NoSlot
        BY <2>2, <3>2
      <4>2. now' <= radio'[d].deadline + Second - 1 /\ radio'[d].deadline \in Nat
        BY <1>2, <3>2, <4>1
      <4> QED BY <1>1, <4>1, <4>2
    <3>3. CASE now' # now /\ ~radio'[d].sentOnce
      <4>1. now' <= JoinListen - 2 * Second
        BY <3>3 DEF FirstBeacon
      <4> QED BY <1>1, <4>1
    <3> QED BY <3>1, <3>2, <3>3
  <2>4. Unknown(x, d)'
    BY <2>2, <2>3 DEF Unknown
  <2> QED BY <1>4, <2>4
<1> QED BY <1>3, <1>4

\* So does all of it while the car hears nothing.
LEMMA RosterKept ==
    ASSUME RideInv, RideInv', CalmBody, Onward, NEW x \in on, riders'[x] = riders[x],
           \A d \in on \ {x} : ~Pending(x, d)' =>
                /\ ~Pending(x, d) /\ (radio'[d].sentOnce => radio[d].sentOnce)
                /\ radio'[d].deadline = radio[d].deadline,
           now' # now => \A d \in on \ {x} : ~Pending(x, d)',
           \A d \in on : Timely(d)' /\ FirstBeacon(d)' /\ now' <= Until(d)' /\ Until(d)' \in Nat
    PROVE  Rosters(x)'
<1>1. on' = on /\ DOMAIN riders'[x] \subseteq on'
  <2>1. Rosters(x)
    BY CalmCar
  <2> QED BY <2>1 DEF Onward, Rosters
<1>2. ASSUME NEW d \in on \ {x}
      PROVE  IF d \in DOMAIN riders'[x] THEN Heard(x, d)' ELSE Unknown(x, d)'
  BY EntryKept
<1> QED BY <1>1, <1>2 DEF Rosters

\* Link records stay right while the car hears nothing.
LEMMA LinksKept ==
    ASSUME RideInv, CalmBody, Onward, NEW x \in on, sched'[x].heard = sched[x].heard,
           \A y, z \in on : y # z => \A t \in Slots :
               Reaching(y, z, t) => Lists(y, z, t)' \/ Reaching(y, z, t)'
    PROVE  Links(x)'
<1>1. Links(x) /\ on' = on
  BY CalmCar DEF Onward
<1>2. ASSUME NEW t \in Slots, sched[x].heard[t].tag # 0
      PROVE  \E z \in on \ {x} : /\ sched'[z].slot = t
                                 /\ \A y \in on \ {z} : Lists(y, z, t)' \/ Reaching(y, z, t)'
  <2>1. PICK z \in on \ {x} : /\ sched[z].slot = t
                              /\ \A y \in on \ {z} : Lists(y, z, t) \/ Reaching(y, z, t)
    BY <1>1, <1>2 DEF Links
  <2>2. sched'[z].slot = t
    BY <2>1, Numbers DEF Onward
  <2>3. \A y \in on \ {z} : Lists(y, z, t)' \/ Reaching(y, z, t)'
    BY <2>1 DEF Onward
  <2> QED BY <2>2, <2>3
<1> QED BY <1>1, <1>2 DEF Links

\* A lease heard in each of its slots stays so until its next slot.
LEMMA ShownKept ==
    ASSUME RideInv, CalmBody, Onward, NEW x \in on, NEW d \in on \ {x},
           sched'[x].slot = sched[x].slot, Until(x)' = Until(x), sched'[d].heard = sched[d].heard,
           Undrained(d) /\ air # {} => now' = now /\ Undrained(d)' /\ air \subseteq air'
    PROVE  Shown(x, d)'
<1>1. Shown(x, d)
  BY DEF CalmBody
<1> SUFFICES ASSUME sched'[x].slot # NoSlot, NEW m \in sched'[x].leasedAt + 1 .. Until(x)' - 1,
                    m % Second = SlotStart(sched'[x].slot)
             PROVE  \/ sched'[d].heard[sched'[x].slot].tag = Tag[x] /\ sched'[d].heard[sched'[x].slot].at >= m
                    \/ /\ m = now' /\ Undrained(d)'
                       /\ \E f \in air' : f.src = x /\ f.slot = sched'[x].slot /\ f.kind # "extra"
  BY DEF Shown
<1>2. sched'[x].leasedAt = sched[x].leasedAt
  BY DEF Onward
<1>3. \/ sched[d].heard[sched[x].slot].tag = Tag[x] /\ sched[d].heard[sched[x].slot].at >= m
      \/ /\ m = now /\ Undrained(d)
         /\ \E f \in air : f.src = x /\ f.slot = sched[x].slot /\ f.kind # "extra"
  BY <1>1, <1>2 DEF Shown
<1> QED BY <1>3

\* A frame already on the air stays as it is.
LEMMA OnAirKept ==
    ASSUME RideInv, CalmBody, Onward, now' = now, NEW f \in air,
           \A y \in on : f.slot = NoSlot /\ f.src \in DOMAIN riders'[y] => riders'[y][f.src].slot = NoSlot,
           \A y \in on \ {f.src} : ~Undrained(y)' => f \in got'[y] /\ Lists(y, f.src, f.slot)'
    PROVE  OnAir(f)'
<1>1. OnAir(f) /\ f.src \in on /\ on' = on
  BY DEF CalmBody, RideInv, AirOK, Onward
<1>2. radio'[f.src].sentOnce /\ f.slot \in {NoSlot, sched'[f.src].slot}
  BY <1>1 DEF OnAir, Onward
<1>3. \A t \in Slots : f.map[t] # 0 => Announced(t)'
  BY <1>1, AnnouncedStays DEF OnAir
<1>4. ASSUME NEW x \in on \ {f.src}, sched'[x].slot # NoSlot, now > sched'[x].leasedAt + Second
      PROVE  f.map[sched'[x].slot] = Tag[x]
  <2>1. sched[x].slot # NoSlot
    <3>1. sched[x].slot = NoSlot => sched'[x].leasedAt = now
      BY <1>4 DEF Onward
    <3>2. now \in Nat /\ Second \in Nat
      BY CalmCar, Numbers
    <3> QED BY <1>4, <3>1, <3>2
  <2>2. sched'[x].slot = sched[x].slot /\ sched'[x].leasedAt = sched[x].leasedAt
    BY <2>1 DEF Onward
  <2> QED BY <1>1, <1>4, <2>1, <2>2 DEF OnAir
<1>5. Scheduled(f) => \E t \in Spares(f.src)' \union {Goal(f.src)'} : now' % Second = SlotStart(t)
  BY <1>1, GoalsKept DEF OnAir
<1> QED BY <1>1, <1>2, <1>3, <1>4, <1>5 DEF OnAir


\* The clock, as one car's beacon pass leaves it.
LEMMA BeaconClock ==
    ASSUME RideInv, NEW c \in Cars, BeaconTurn(c), NEW newAir, EndBeacon(c, newAir)
    PROVE  /\ c \in on /\ on' = on /\ riders' = riders /\ feeding' = feeding
           /\ now' \in {now, now + 1} /\ air' = newAir /\ (now' # now => newAir = {})
           /\ \A d \in on : Undrained(d) /\ Undrained(d)' /\ now' <= Until(d)' /\ Until(d)' \in Nat
           /\ \A d \in on \ {c} : Until(d)' = Until(d)
           /\ Until(c) = now /\ Until(c)' = now + 1
           /\ \A d \in on : d > c => now' = now /\ step' = "beacon" /\ turn' <= d
<1>0. /\ step = "beacon" /\ turn = c /\ c \in on /\ on' = on /\ riders' = riders /\ feeding' = feeding
      /\ now \in Nat /\ on \in SUBSET Nat /\ c \in Nat
  BY OnFacts, CarFacts DEF RideInv, ClockOK, BeaconTurn, EndBeacon, world
<1>1. \A d \in on : Undrained(d)
  BY <1>0 DEF Undrained
<1>2. Until(c) = now
  BY <1>0 DEF Until
<1>3. \A d \in on \ {c} : Until(d) = IF d > c THEN now ELSE now + 1
  BY <1>0 DEF Until
<1>4. CASE Later(c) # {}
  <2>1. turn' = Min(Later(c)) /\ now' = now /\ step' = step /\ air' = newAir
    BY <1>4 DEF EndBeacon, NextCar
  <2>2. turn' \in on /\ turn' > c /\ \A d \in on : d > c => turn' <= d
    <3>1. Later(c) \in SUBSET Nat
      BY <1>0 DEF Later
    <3>2. Min(Later(c)) \in Later(c) /\ \A d \in Later(c) : Min(Later(c)) <= d
      BY <1>4, <3>1, MinIs
    <3> QED BY <2>1, <3>2 DEF Later
  <2>3. \A d \in on : Undrained(d)'
    BY <1>0, <2>1 DEF Undrained
  <2>4. Until(c)' = now + 1
    BY <1>0, <2>1, <2>2 DEF Until
  <2>5. \A d \in on \ {c} : Until(d)' = IF d > c THEN now ELSE now + 1
    BY <1>0, <2>1, <2>2 DEF Until
  <2> QED BY <1>0, <1>1, <1>2, <1>3, <2>1, <2>2, <2>3, <2>4, <2>5
<1>5. CASE Later(c) = {}
  <2>0. \A d \in on : d <= c /\ ~(d > c)
    BY <1>0, <1>5 DEF Later
  <2>1. \/ turn' = Min(on) /\ now' = now /\ step' = "drain" /\ air' = newAir
        \/ newAir = {} /\ now' = now + 1 /\ step' = "beacon" /\ turn' = Min(on) /\ air' = {}
    BY <1>5 DEF EndBeacon, PassTo, NextSlot
  <2>2. \A d \in on : Min(on) <= d /\ Min(on) \in Nat
    BY <1>0, OnFacts DEF RideInv
  <2>3. \A d \in on : Undrained(d)'
    BY <1>0, <2>1, <2>2 DEF Undrained
  <2>4. \A d \in on : Until(d)' = now + 1
    BY <1>0, <2>1, <2>2 DEF Until
  <2> QED BY <1>0, <1>1, <1>2, <1>3, <2>0, <2>1, <2>3, <2>4
<1> QED BY <1>4, <1>5

\* As its drain pass leaves it.
LEMMA DrainClock ==
    ASSUME RideInv, NEW c \in Cars, step = "drain", turn = c, NEW heard, EndDrain(c, heard), on' = on
    PROVE  /\ c \in on
           /\ now' \in {now, now + 1} /\ (now' # now => air' = {})
           /\ now' = now => air' = air /\ got' = [got EXCEPT ![c] = heard]
           /\ \A d \in on : Until(d) = now + 1 /\ Until(d)' = now + 1 /\ now' <= now + 1 /\ now + 1 \in Nat
           /\ \A d \in on : Undrained(d) => d >= c
           /\ \A d \in on : Undrained(d)' /\ air' # {} => d > c
           /\ \A d \in on : d > c => now' = now /\ step' = "drain" /\ turn' <= d /\ Undrained(d)'
<1>0. /\ c \in on /\ now \in Nat /\ on \in SUBSET Nat /\ c \in Nat
  BY OnFacts, CarFacts DEF RideInv, ClockOK
<1>1. \A d \in on : Until(d) = now + 1
  BY DEF Until
<1>2. \A d \in on : Undrained(d) => d >= c
  BY <1>0 DEF Undrained
<1>4. CASE Later(c) # {}
  <2>1. turn' = Min(Later(c)) /\ now' = now /\ step' = step /\ air' = air /\ got' = [got EXCEPT ![c] = heard]
    BY <1>4 DEF EndDrain, NextCar
  <2>2. turn' \in on /\ turn' > c /\ \A d \in on : d > c => turn' <= d
    <3>1. Later(c) \in SUBSET Nat
      BY <1>0 DEF Later
    <3>2. Min(Later(c)) \in Later(c) /\ \A d \in Later(c) : Min(Later(c)) <= d
      BY <1>4, <3>1, MinIs
    <3> QED BY <2>1, <3>2 DEF Later
  <2>3. \A d \in on : Undrained(d)' <=> d > c
    BY <1>0, <2>1, <2>2 DEF Undrained
  <2>4. \A d \in on : Until(d)' = now + 1
    BY <2>1 DEF Until
  <2> QED BY <1>0, <1>1, <1>2, <2>1, <2>2, <2>3, <2>4
<1>5. CASE Later(c) = {}
  <2>0. \A d \in on : d <= c /\ ~(d > c)
    BY <1>0, <1>5 DEF Later
  <2>1. \/ turn' = Min(on) /\ now' = now /\ step' = "relay" /\ air' = air /\ got' = [got EXCEPT ![c] = heard]
        \/ now' = now + 1 /\ step' = "beacon" /\ turn' = Min(on) /\ air' = {}
    BY <1>5 DEF EndDrain, PassTo, NextSlot
  <2>2. \A d \in on : Min(on) <= d /\ Min(on) \in Nat
    BY <1>0, OnFacts DEF RideInv
  <2>3. \A d \in on : ~(Undrained(d)' /\ air' # {})
    BY <2>1 DEF Undrained
  <2>4. \A d \in on : Until(d)' = now + 1
    BY <1>0, <2>1, <2>2 DEF Until
  <2>5. now' \in {now, now + 1} /\ (now' # now => air' = {})
    BY <2>1
  <2>6. now' = now => air' = air /\ got' = [got EXCEPT ![c] = heard]
    BY <1>0, <2>1
  <2>7. now' <= now + 1 /\ now + 1 \in Nat
    BY <1>0, <2>5
  <2> QED BY <1>0, <1>1, <1>2, <2>0, <2>3, <2>4, <2>5, <2>6, <2>7
<1> QED BY <1>4, <1>5

\* And as a pass over the forwards leaves it.
LEMMA RelayClock ==
    ASSUME RideInv, NEW c \in Cars, step = "relay", turn = c, EndRelay(c), on' = on
    PROVE  /\ c \in on
           /\ now' \in {now, now + 1} /\ (now' # now => air' = {})
           /\ now' = now => air' = air /\ got' = got
           /\ \A d \in on : Until(d) = now + 1 /\ Until(d)' = now + 1 /\ now' <= now + 1 /\ now + 1 \in Nat
           /\ \A d \in on : ~Undrained(d) /\ ~(Undrained(d)' /\ air' # {})
<1>0. /\ c \in on /\ now \in Nat /\ on \in SUBSET Nat /\ c \in Nat
  BY OnFacts, CarFacts DEF RideInv, ClockOK
<1>1. \A d \in on : Until(d) = now + 1 /\ ~Undrained(d)
  BY DEF Until, Undrained
<1>2. \/ turn' \in on /\ now' = now /\ step' = "relay" /\ air' = air /\ got' = got
      \/ now' = now + 1 /\ step' = "beacon" /\ turn' = Min(on) /\ air' = {}
  <2>1. CASE Later(c) # {}
    BY <2>1, OnFacts DEF EndRelay, NextCar, RideInv
  <2>2. CASE Later(c) = {}
    BY <2>2 DEF EndRelay, NextSlot
  <2> QED BY <2>1, <2>2
<1>3. \A d \in on : Min(on) <= d /\ Min(on) \in Nat
  BY <1>0, OnFacts DEF RideInv
<1>4. \A d \in on : Until(d)' = now + 1
  BY <1>0, <1>2, <1>3 DEF Until
<1>5. \A d \in on : ~(Undrained(d)' /\ air' # {})
  BY <1>2 DEF Undrained
<1>6. now' <= now + 1 /\ now + 1 \in Nat /\ now' \in {now, now + 1} /\ (now' # now => air' = {})
  BY <1>0, <1>2
<1>7. now' = now => air' = air /\ got' = got
  BY <1>0, <1>2
<1> QED BY <1>0, <1>1, <1>4, <1>5, <1>6, <1>7


\* No two frames that open a slot are on the air together.
LEMMA AirClear ==
    ASSUME RideInv, CalmBody, NEW f \in air, NEW g \in air, f # g
    PROVE  ~(Scheduled(f) /\ Scheduled(g))
<1> SUFFICES ASSUME Scheduled(f), Scheduled(g) PROVE FALSE
  OBVIOUS
<1>1. f.src \in on /\ g.src \in on /\ f.src # g.src /\ on \in SUBSET Cars
  BY DEF RideInv, AirOK, OneEach, ClockOK
<1>2. PICK t \in Spares(f.src) \union {Goal(f.src)} : now % Second = SlotStart(t)
  BY DEF CalmBody, OnAir
<1>3. PICK u \in Spares(g.src) \union {Goal(g.src)} : now % Second = SlotStart(u)
  BY DEF CalmBody, OnAir
<1> QED BY <1>1, <1>2, <1>3, SparesApart

\* Every car hears every frame but its own.
LEMMA AllHeard ==
    ASSUME RideInv, Calm, CalmBody, NEW c \in on, NEW heard \in Hearable(c)
    PROVE  heard = {f \in air : f.src # c}
<1>0. c \in Cars /\ air \in SUBSET Frames /\ \A f \in air : f.src \in Cars
  BY CalmCar DEF RideInv, AirOK, Frames
<1>1. \A l \in links : l[1] # l[2]
  BY RideAssumption DEF RideInv, ClockOK
<1>2. \A d \in Cars : d # c <=> <<d, c>> \in links
  BY <1>0, <1>1 DEF Calm, Together
<1>3. InEarshot(c) = {f \in air : f.src # c}
  BY <1>0, <1>2 DEF InEarshot
<1> DEFINE timed == {f \in InEarshot(c) : Scheduled(f)}
           clear == InEarshot(c) \ timed
<1>4. clear \union timed = InEarshot(c)
  OBVIOUS
<1>5. CASE timed = {}
  <2>1. heard = clear
    BY <1>5 DEF Hearable
  <2> QED BY <1>3, <1>4, <1>5, <2>1
<1>6. CASE timed # {}
  <2>1. PICK f \in timed : TRUE
    BY <1>6
  <2>2. ~ \E g \in air : g.src = c /\ Scheduled(g)
    <3> SUFFICES ASSUME NEW g \in air, g.src = c, Scheduled(g) PROVE FALSE
      OBVIOUS
    <3>1. f \in air /\ f.src # c /\ Scheduled(f)
      BY <1>3
    <3> QED BY <3>1, AirClear
  <2>3. timed = {f}
    <3>1. \A g \in timed : g = f
      BY <1>3, AirClear
    <3> QED BY <2>1, <3>1
  <2>4. Cardinality(timed) = 1
    <3> HIDE DEF timed
    <3> QED BY <2>3, FS_Singleton
  <2>5. heard = clear \union timed
    BY <1>6, <2>2, <2>4 DEF Hearable
  <2> QED BY <1>3, <1>4, <2>5
<1> QED BY <1>5, <1>6

\* So nothing is left to forward to it.
LEMMA NoneForwarded ==
    ASSUME RideInv, CalmBody, NEW c \in on, step = "relay"
    PROVE  Forwarded(c) = {}
<1> SUFFICES ASSUME NEW f \in Forwarded(c) PROVE FALSE
  OBVIOUS
<1>1. f \in air /\ f.src # c /\ f \notin got[c]
  BY DEF Forwarded
<1>2. OnAir(f) /\ ~Undrained(c) /\ f.src \in on
  BY <1>1 DEF CalmBody, Undrained, RideInv, AirOK
<1> QED BY <1>1, <1>2 DEF OnAir

\* A pass over no frames changes nothing.
LEMMA NoneTaken ==
    ASSUME NEW c, NEW hops
    PROVE  Drained(c, {}, hops) = [riders |-> riders[c], sched |-> sched[c]]
<1> DEFINE base == [riders |-> riders[c], sched |-> sched[c]]
           M == [k \in {0} |-> {base}]
<1>1. Cardinality({}) = 0
  BY FS_EmptySet
<1>2. base \in M[0]
  OBVIOUS
<1> HIDE DEF base
<1>3. \A k \in 1 .. Cardinality({}) : \A me \in M[k - 1] : Take(c, Nth({}, k), hops, me) \in M[k]
  BY <1>1
<1>4. M[Cardinality({})] = {base}
  BY <1>1
<1> HIDE DEF M
<1>5. Drained(c, {}, hops) \in M[Cardinality({})]
  BY <1>1, <1>2, <1>3, Passes DEF base
<1> QED BY <1>4, <1>5 DEF base

\* The pass over the forwards leaves a calm ride calm.
LEMMA ForwardsCalm ==
    ASSUME RideInv, RideInv', CalmBody, NEW c \in Cars, HearForwards(c)
    PROVE  CalmBody'
<1>0. step = "relay" /\ turn = c /\ EndRelay(c) /\ c \in on /\ TakeAll(c, Forwarded(c), 1)
  BY DEF HearForwards, RideInv, ClockOK
<1>1. /\ on' = on /\ feeding' = feeding /\ radio' = radio
      /\ riders' = [riders EXCEPT ![c] = Drained(c, {}, 1).riders]
      /\ sched' = [sched EXCEPT ![c] = Drained(c, {}, 1).sched]
  BY <1>0, NoneForwarded DEF TakeAll, world
<1>2. riders' = riders /\ sched' = sched
  <2> DEFINE v == Drained(c, {}, 1)
  <2>1. v.riders = riders[c] /\ v.sched = sched[c]
    BY NoneTaken
  <2>2. riders' = [riders EXCEPT ![c] = v.riders] /\ sched' = [sched EXCEPT ![c] = v.sched]
    BY <1>1
  <2> HIDE DEF v
  <2> QED BY <2>1, <2>2 DEF RideInv, CarsOK
<1>3. /\ now' \in {now, now + 1} /\ (now' # now => air' = {})
      /\ now' = now => air' = air /\ got' = got
      /\ \A d \in on : Until(d) = now + 1 /\ Until(d)' = now + 1 /\ now' <= now + 1 /\ now + 1 \in Nat
      /\ \A d \in on : ~Undrained(d) /\ ~(Undrained(d)' /\ air' # {})
  BY <1>0, <1>1, RelayClock
<1>4. \A d \in on : radio[d].sentOnce
  BY <1>0 DEF CalmBody, FirstBeacon
<1>5. Onward
  BY <1>1, <1>2, <1>3 DEF Onward, Lists
<1>6. ASSUME NEW d \in on PROVE FirstBeacon(d)' /\ Timely(d)' /\ Leasing(d)'
  <2>1. Until(d)' = Until(d) /\ sched'[d] = sched[d] /\ radio'[d] = radio[d] /\ riders'[d] = riders[d]
    BY <1>1, <1>2, <1>3
  <2>2. Timely(d) /\ Leasing(d) /\ now \in Nat
    BY CalmCar
  <2>3. FirstBeacon(d)'
    BY <1>4, <2>1 DEF FirstBeacon
  <2>4. Timely(d)'
    BY <2>1, <2>2 DEF Timely
  <2>5. Leasing(d)'
    <3>1. now >= JoinListen => now' >= JoinListen
      BY <1>3, <2>2, Numbers
    <3> QED BY <1>1, <2>1, <2>2, <3>1, GoalsKept DEF Leasing
  <2> QED BY <2>3, <2>4, <2>5
<1>7. \A x, d \in on : ~Pending(x, d) /\ ~Pending(x, d)'
  BY <1>3 DEF Pending
<1>8. ASSUME NEW x \in on PROVE Rosters(x)'
  <2>1. \A d \in on : Timely(d)' /\ FirstBeacon(d)' /\ now' <= Until(d)' /\ Until(d)' \in Nat
    BY <1>3, <1>6
  <2> QED BY <1>1, <1>2, <1>5, <1>7, <2>1, RosterKept
<1>9. ASSUME NEW x \in on PROVE Links(x)'
  <2>1. \A y, z \in on : \A t \in Slots : ~Reaching(y, z, t)
    BY <1>0 DEF Reaching
  <2> QED BY <1>2, <1>5, <2>1, LinksKept
<1>10. ASSUME NEW x \in on, NEW d \in on \ {x} PROVE Shown(x, d)'
  BY <1>2, <1>3, <1>5, ShownKept
<1>11. ASSUME NEW f \in air' PROVE OnAir(f)'
  <2>1. now' = now /\ air' = air /\ got' = got /\ f \in air
    BY <1>3, <1>11
  <2>2. OnAir(f) /\ f.src \in on
    BY <2>1 DEF CalmBody, RideInv, AirOK
  <2>3. \A y \in on \ {f.src} : f \in got[y] /\ Lists(y, f.src, f.slot)
    BY <1>3, <2>2 DEF OnAir
  <2>4. \A y \in on \ {f.src} : ~Undrained(y)' => f \in got'[y] /\ Lists(y, f.src, f.slot)'
    BY <1>2, <2>1, <2>3 DEF Lists
  <2>5. \A y \in on : f.slot = NoSlot /\ f.src \in DOMAIN riders'[y] => riders'[y][f.src].slot = NoSlot
    BY <1>2, <2>2 DEF OnAir
  <2> QED BY <1>5, <2>1, <2>4, <2>5, OnAirKept
<1> QED BY <1>1, <1>6, <1>8, <1>9, <1>10, <1>11 DEF CalmBody

-----------------------------------------------------------------------------
(* beacon() and the forwards on a calm ride.                               *)

\* What a beacon says of the slots: leases that all hear of, and every lease
\* that has had its slot since it was claimed.
LEMMA MapTrue ==
    ASSUME RideInv, CalmBody, NEW c \in on, step = "beacon",
           NEW s, s.heard = sched[c].heard
    PROVE  /\ \A t \in Slots : SlotMap(s, now)[t] # 0 => Announced(t)
           /\ \A x \in on \ {c} : sched[x].slot # NoSlot /\ now > sched[x].leasedAt + Second =>
                SlotMap(s, now)[sched[x].slot] = Tag[x]
<1>1. now \in Nat /\ Second \in Nat \ {0} /\ HeardWindow \in Nat /\ Second < HeardWindow
  BY CalmCar, Numbers
<1>2. ASSUME NEW t \in Slots, SlotMap(s, now)[t] # 0 PROVE Announced(t)
  <2>1. sched[c].heard[t].tag # 0
    BY <1>2 DEF SlotMap
  <2>2. PICK x \in on \ {c} : /\ sched[x].slot = t
                              /\ \A y \in on \ {x} : Lists(y, x, t) \/ Reaching(y, x, t)
    BY <2>1, CalmCar DEF Links
  <2>3. \A y \in on \ {x} : Lists(y, x, t)
    BY <2>2 DEF Reaching
  <2> QED BY <2>2, <2>3 DEF Announced
<1>3. ASSUME NEW x \in on \ {c}, sched[x].slot # NoSlot, now > sched[x].leasedAt + Second
      PROVE  SlotMap(s, now)[sched[x].slot] = Tag[x]
  <2> DEFINE t == sched[x].slot
             a == now - Second
  <2>1. t \in Slots /\ sched[x].leasedAt \in Nat
    <3>1. SchedOK(sched[x], now)
      BY CalmCar
    <3>2. t \in 0 .. NoSlot /\ sched[x].leasedAt \in Nat
      BY <1>1, <3>1, FieldsOK
    <3> QED BY <1>3, <3>2, Numbers
  <2>2. SlotStart(t) \in 0 .. Second - 1
    BY <2>1, SlotFacts
  <2>3. a \in Nat
    BY <1>1, <1>3, <2>1
  <2>4. PICK m \in a .. a + Second - 1 : m % Second = SlotStart(t)
    BY <2>2, <2>3, Hit DEF Comes
  <2>5. Until(x) \in {now, now + 1}
    BY DEF Until
  <2>6. m \in sched[x].leasedAt + 1 .. Until(x) - 1 /\ m # now /\ m \in Nat /\ m >= now - Second
    BY <1>1, <1>3, <2>1, <2>3, <2>4, <2>5
  <2>7. Shown(x, c)
    BY DEF CalmBody
  <2> HIDE DEF a
  <2>8. sched[c].heard[t].tag = Tag[x] /\ sched[c].heard[t].at >= m
    BY <1>3, <2>4, <2>6, <2>7 DEF Shown
  <2>9. sched[c].heard[t].at \in Nat
    <3>1. SchedOK(sched[c], now)
      BY CalmCar
    <3>2. sched[c].heard \in [Slots -> Heards]
      BY <1>1, <3>1, FieldsOK
    <3> QED BY <2>1, <3>2 DEF Heards
  <2> HIDE DEF t
  <2>10. now - s.heard[t].at < HeardWindow /\ s.heard[t].tag = Tag[x]
    BY <1>1, <2>6, <2>8, <2>9
  <2>11. SlotMap(s, now)[t] = Tag[x]
    BY <2>1, <2>10 DEF SlotMap
  <2> QED BY <2>11 DEF t
<1> QED BY <1>2, <1>3

\* A beacon pass of car c, that leaves it with schedule s and radio b.
LEMMA BeaconCalm ==
    ASSUME RideInv, RideInv', CalmBody, NEW c \in Cars, BeaconTurn(c),
           NEW newAir, EndBeacon(c, newAir), air \subseteq newAir,
           NEW s, sched' = [sched EXCEPT ![c] = s], s.heard = sched[c].heard,
           Follows(Goal(c), Spares(c), sched[c], s),
           s.slot # NoSlot => now >= JoinListen /\ DOMAIN riders[c] # {},
           NEW b, radio' = [radio EXCEPT ![c] = b], b.sentOnce,
           TimelyAt(s, b, now + 1), LeasingAt(Goal(c), Spares(c), s, b, now + 1),
           (\E f \in newAir : f.src = c) \/ (radio[c].sentOnce /\ b.deadline = radio[c].deadline),
           sched[c].slot # NoSlot /\ now % Second = SlotStart(s.slot) =>
                \E f \in newAir : f.src = c /\ f.slot = s.slot /\ f.kind # "extra",
           \A f \in newAir \ air :
                /\ f.src = c /\ f.slot = s.slot /\ f.map = SlotMap(s, now)
                /\ Scheduled(f) => \E t \in Spares(c) \union {Goal(c)} : now % Second = SlotStart(t)
    PROVE  CalmBody'
<1>0. step = "beacon" /\ turn = c /\ now \in Nat /\ on \in SUBSET Cars /\ c \in Nat /\ on \in SUBSET Nat
  BY OnFacts, CarFacts DEF BeaconTurn, RideInv, ClockOK
<1>1. /\ c \in on /\ on' = on /\ riders' = riders /\ feeding' = feeding
      /\ now' \in {now, now + 1} /\ air' = newAir /\ (now' # now => newAir = {})
      /\ \A d \in on : Undrained(d) /\ Undrained(d)' /\ now' <= Until(d)' /\ Until(d)' \in Nat
      /\ \A d \in on \ {c} : Until(d)' = Until(d)
      /\ Until(c) = now /\ Until(c)' = now + 1
      /\ \A d \in on : d > c => now' = now /\ step' = "beacon" /\ turn' <= d
  BY BeaconClock
<1>2. /\ sched'[c] = s /\ radio'[c] = b
      /\ \A d \in on \ {c} : sched'[d] = sched[d] /\ radio'[d] = radio[d]
  BY <1>0 DEF RideInv, CarsOK
<1>3. Onward
  <2>1. \A d \in on :
          /\ sched[d].slot # NoSlot =>
                sched'[d].slot = sched[d].slot /\ sched'[d].leasedAt = sched[d].leasedAt
          /\ sched[d].slot = NoSlot /\ sched'[d].slot # NoSlot =>
                sched'[d].leasedAt = now /\ now >= JoinListen
          /\ radio[d].sentOnce => radio'[d].sentOnce
    BY <1>2 DEF Follows
  <2> QED BY <1>1, <2>1 DEF Onward, Lists
<1>4. ASSUME NEW d \in on PROVE FirstBeacon(d)' /\ Timely(d)' /\ Leasing(d)'
  <2>1. CASE d = c
    <3>1. FirstBeacon(d)'
      BY <1>2, <2>1 DEF FirstBeacon
    <3>2. Timely(d)'
      BY <1>1, <1>2, <2>1 DEF Timely
    <3>3. now >= JoinListen => now' >= JoinListen
      BY <1>0, <1>1, Numbers
    <3>4. Leasing(d)'
      BY <1>1, <1>2, <2>1, <3>3, GoalsKept DEF Leasing
    <3> QED BY <3>1, <3>2, <3>4
  <2>2. CASE d # c
    <3>1. Until(d)' = Until(d) /\ sched'[d] = sched[d] /\ radio'[d] = radio[d] /\ riders'[d] = riders[d]
      BY <1>1, <1>2, <2>2
    <3>2. FirstBeacon(d) /\ Timely(d) /\ Leasing(d) /\ d \in Nat
      BY <1>0, CalmCar
    <3>3. FirstBeacon(d)'
      <4> SUFFICES ASSUME ~radio[d].sentOnce
                   PROVE  /\ step' = "beacon" /\ turn' <= d /\ now' <= JoinListen - 2 * Second
                          /\ DOMAIN riders[d] = {} /\ sched[d].slot = NoSlot /\ ~radio[d].want
        BY <3>1 DEF FirstBeacon
      <4>1. /\ c <= d /\ now <= JoinListen - 2 * Second
            /\ DOMAIN riders[d] = {} /\ sched[d].slot = NoSlot /\ ~radio[d].want
        BY <1>0, <3>2 DEF FirstBeacon
      <4>2. d > c
        BY <1>0, <2>2, <3>2, <4>1
      <4> QED BY <1>1, <4>1, <4>2
    <3>4. Timely(d)'
      BY <3>1, <3>2 DEF Timely
    <3>5. now >= JoinListen => now' >= JoinListen
      BY <1>0, <1>1, Numbers
    <3>6. Leasing(d)'
      BY <1>1, <3>1, <3>2, <3>5, GoalsKept DEF Leasing
    <3> QED BY <3>3, <3>4, <3>6
  <2> QED BY <2>1, <2>2
<1>5. ASSUME NEW x \in on PROVE Rosters(x)'
  <2>1. ASSUME NEW d \in on \ {x}, ~Pending(x, d)'
        PROVE  /\ ~Pending(x, d) /\ (radio'[d].sentOnce => radio[d].sentOnce)
               /\ radio'[d].deadline = radio[d].deadline
    <3>1. ~ \E f \in newAir : f.src = d
      BY <1>1, <2>1 DEF Pending
    <3>2. ~Pending(x, d)
      BY <3>1 DEF Pending
    <3>3. CASE d = c
      BY <1>2, <3>1, <3>2, <3>3
    <3>4. CASE d # c
      BY <1>2, <3>2, <3>4
    <3> QED BY <3>3, <3>4
  <2>2. now' # now => \A d \in on \ {x} : ~Pending(x, d)'
    BY <1>1 DEF Pending
  <2>3. \A d \in on : Timely(d)' /\ FirstBeacon(d)' /\ now' <= Until(d)' /\ Until(d)' \in Nat
    BY <1>1, <1>4
  <2>4. riders'[x] = riders[x]
    BY <1>1
  <2> QED BY <1>3, <2>1, <2>2, <2>3, <2>4, RosterKept
<1>6. ASSUME NEW x \in on PROVE Links(x)'
  <2>1. \A y, z \in on : \A t \in Slots : ~Reaching(y, z, t)
    BY <1>0 DEF Reaching
  <2>2. sched'[x].heard = sched[x].heard
    BY <1>2
  <2> QED BY <1>3, <2>1, <2>2, LinksKept
<1>7. ASSUME NEW x \in on, NEW d \in on \ {x} PROVE Shown(x, d)'
  <2>1. CASE x # c
    <3>1. sched'[x].slot = sched[x].slot /\ Until(x)' = Until(x) /\ sched'[d].heard = sched[d].heard
      BY <1>1, <1>2, <2>1
    <3>2. Undrained(d) /\ air # {} => now' = now /\ Undrained(d)' /\ air \subseteq air'
      BY <1>1
    <3> QED BY <1>3, <3>1, <3>2, ShownKept
  <2>2. CASE x = c
    <3>0. d # c /\ sched'[d].heard = sched[d].heard
      BY <1>2, <2>2
    <3> SUFFICES ASSUME s.slot # NoSlot, NEW m \in s.leasedAt + 1 .. now, m % Second = SlotStart(s.slot)
                 PROVE  \/ sched[d].heard[s.slot].tag = Tag[c] /\ sched[d].heard[s.slot].at >= m
                        \/ /\ m = now'
                           /\ \E f \in air' : f.src = c /\ f.slot = s.slot /\ f.kind # "extra"
      <4>1. Undrained(d)' /\ Until(c)' = now + 1
        BY <1>1
      <4>2. Until(c)' - 1 = now
        BY <1>0, <4>1
      <4> QED BY <1>2, <2>2, <3>0, <4>1, <4>2 DEF Shown
    <3>1. s.leasedAt \in Nat /\ s \in Scheds
      <4>1. s \in Scheds
        BY <1>1, <1>2 DEF RideInv, CarsOK
      <4> QED BY <4>1 DEF Scheds
    <3>2. sched[c].slot # NoSlot
      <4>1. s.leasedAt # now
        BY <1>0, <3>1
      <4> QED BY <4>1 DEF Follows
    <3>3. s.slot = sched[c].slot /\ s.leasedAt = sched[c].leasedAt
      BY <3>2 DEF Follows
    <3>4. CASE m = now
      BY <1>1, <3>2, <3>4
    <3>5. CASE m # now
      <4>1. m \in sched[c].leasedAt + 1 .. Until(c) - 1
        BY <1>0, <1>1, <3>1, <3>3, <3>5
      <4>2. Shown(c, d)
        BY <2>2 DEF CalmBody
      <4> QED BY <3>2, <3>3, <3>5, <4>1, <4>2 DEF Shown
    <3> QED BY <3>4, <3>5
  <2> QED BY <2>1, <2>2
<1>8. ASSUME NEW f \in air' PROVE OnAir(f)'
  <2>0. now' = now
    BY <1>1, <1>8
  <2>1. CASE f \in air
    <3>1. OnAir(f) /\ f.src \in on
      BY <2>1 DEF CalmBody, RideInv, AirOK
    <3>2. \A y \in on \ {f.src} : ~Undrained(y)' => f \in got'[y] /\ Lists(y, f.src, f.slot)'
      BY <1>1
    <3>3. \A y \in on : f.slot = NoSlot /\ f.src \in DOMAIN riders'[y] => riders'[y][f.src].slot = NoSlot
      BY <1>1, <3>1 DEF OnAir
    <3> QED BY <1>3, <2>0, <2>1, <3>2, <3>3, OnAirKept
  <2>2. CASE f \notin air
    <3>1. f.src = c /\ f.slot = s.slot /\ f.map = SlotMap(s, now)
      BY <1>1, <1>8, <2>2
    <3>2. Scheduled(f) => \E t \in Spares(f.src)' \union {Goal(f.src)'} : now' % Second = SlotStart(t)
      BY <1>1, <1>8, <2>0, <2>2, GoalsKept
    <3>3. radio'[f.src].sentOnce /\ f.slot \in {NoSlot, sched'[f.src].slot}
      BY <1>2, <3>1
    <3>4. \A t \in Slots : f.map[t] # 0 => Announced(t)'
      BY <1>0, <1>1, <1>3, <3>1, MapTrue, AnnouncedStays
    <3>5. ASSUME NEW x \in on \ {f.src}, sched'[x].slot # NoSlot, now > sched'[x].leasedAt + Second
          PROVE  f.map[sched'[x].slot] = Tag[x]
      <4>1. sched'[x] = sched[x]
        BY <1>2, <3>1, <3>5
      <4> QED BY <1>0, <1>1, <3>1, <3>5, <4>1, MapTrue
    <3>6. ASSUME f.slot = NoSlot, NEW y \in on, c \in DOMAIN riders[y] PROVE riders[y][c].slot = NoSlot
      <4>1. sched[c].slot = NoSlot
        BY <3>1, <3>6 DEF Follows
      <4>2. y # c /\ Rosters(y)
        BY <1>1, <3>6, CalmCar
      <4>3. Heard(y, c)
        BY <1>1, <3>6, <4>2 DEF Rosters
      <4> QED BY <4>1, <4>3 DEF Heard
    <3>7. \A y \in on : f.slot = NoSlot /\ f.src \in DOMAIN riders'[y] => riders'[y][f.src].slot = NoSlot
      BY <1>1, <3>1, <3>6
    <3>8. \A y \in on' \ {f.src} : ~(~Undrained(y)')
      BY <1>1
    <3> QED BY <1>1, <2>0, <3>2, <3>3, <3>4, <3>5, <3>7, <3>8 DEF OnAir
  <2> QED BY <2>1, <2>2
<1> QED BY <1>1, <1>4, <1>5, <1>6, <1>7, <1>8 DEF CalmBody


\* A slot that comes, but not now, comes later.
LEMMA ComesLater ==
    ASSUME NEW k, NEW a \in Nat, NEW b \in Int, Comes(k, a, b), a % Second # k
    PROVE  Comes(k, a + 1, b)
BY DEF Comes

\* Within a second every slot comes.
LEMMA ComesWithin ==
    ASSUME NEW k \in 0 .. Second - 1, NEW a \in Nat, NEW b \in Int, a + Second - 1 <= b
    PROVE  Comes(k, a, b)
<1>1. PICK m \in a .. a + Second - 1 : m % Second = k
  BY Hit DEF Comes
<1>2. m \in a .. b
  BY Numbers
<1> QED BY <1>1, <1>2 DEF Comes

\* The shared window has a slot of the second too.
LEMMA SharedStartIs ==
    ASSUME NEW s, s.sharedBlock \in 0 .. 3
    PROVE  SharedStart(s) \in 0 .. Second - 1
<1>1. Rows \in Nat /\ Second = 4 * (Rows + 1)
  BY Numbers
<1> DEFINE b == s.sharedBlock
<1>2. b \in {0, 1, 2, 3}
  OBVIOUS
<1> HIDE DEF b
<1>3. b * (Rows + 1) + Rows \in 0 .. Second - 1
  BY <1>1, <1>2
<1> QED BY <1>3 DEF SharedStart, b

\* A car in its turn on a calm ride.
LEMMA CalmTurn ==
    ASSUME RideInv, CalmBody, NEW c \in Cars, BeaconTurn(c)
    PROVE  /\ c \in on /\ now \in Nat /\ Second \in Nat \ {0} /\ on \in SUBSET Cars
           /\ radio[c] \in Radios /\ radio[c].deadline \in Nat /\ radio[c].deadline <= now + Second
           /\ TimelyAt(sched[c], radio[c], now)
           /\ LeasingAt(Goal(c), Spares(c), sched[c], radio[c], now)
           /\ sched[c].slot # NoSlot => now >= JoinListen /\ DOMAIN riders[c] # {}
           /\ Goal(c) \in Slots /\ SlotStart(Goal(c)) \in 0 .. Second - 1
           /\ ~radio[c].sentOnce => DOMAIN riders[c] = {} /\ ~radio[c].want
           /\ radio[c].sentOnce =>
                /\ radio[c].deadline < now + Second
                /\ now <= radio[c].deadline + 2 * Second - 1
                /\ sched[c].slot = NoSlot => now <= radio[c].deadline + Second - 1
<1>1. step = "beacon" /\ turn = c /\ c \in on
  BY DEF BeaconTurn, RideInv, ClockOK
<1>2. Until(c) = now
  <2>1. c \in Nat
    BY CarFacts
  <2> QED BY <1>1, <2>1 DEF Until
<1>3. /\ now \in Nat /\ on \in SUBSET Cars /\ radio[c] \in Radios /\ Goal(c) \in Slots
      /\ FirstBeacon(c) /\ Timely(c) /\ Leasing(c)
  BY <1>1, CalmCar
<1>4. Second \in Nat \ {0} /\ SlotStart(Goal(c)) \in 0 .. Second - 1
  BY <1>3, Numbers, SlotFacts
<1>5. TimelyAt(sched[c], radio[c], now) /\ LeasingAt(Goal(c), Spares(c), sched[c], radio[c], now)
      /\ (sched[c].slot # NoSlot => now >= JoinListen /\ DOMAIN riders[c] # {})
  BY <1>2, <1>3 DEF Timely, Leasing
<1>6. radio[c].deadline \in Nat /\ radio[c].deadline <= now + Second
  BY <1>3 DEF Radios, RideInv, CarsOK
<1>7. radio[c].sentOnce =>
                /\ now <= radio[c].deadline + 2 * Second - 1
                /\ sched[c].slot = NoSlot => now <= radio[c].deadline + Second - 1
  BY <1>3, <1>5, Late
<1>8. ~radio[c].sentOnce => DOMAIN riders[c] = {} /\ ~radio[c].want
  BY <1>3 DEF FirstBeacon
<1>9. radio[c].sentOnce => radio[c].deadline < now + Second
  BY <1>5 DEF TimelyAt
<1> QED BY <1>1, <1>3, <1>4, <1>5, <1>6, <1>7, <1>8, <1>9

\* An announcement goes with the lease, whatever the pass does to the lease.
LEMMA AnnouncedFollows ==
    ASSUME NEW g, NEW spares, NEW s0, NEW s, NEW b0, NEW b, NEW u \in Nat,
           LeasingAt(g, spares, s0, b0, u), Follows(g, spares, s0, s),
           b.announced = b0.announced, b.deadline = b0.deadline, b.deadline \in Nat
    PROVE  LeasingAt(g, spares, s, b, u + 1)
<1>1. b.announced \in {NoSlot, s.slot}
  BY DEF LeasingAt, Follows
<1>2. ASSUME s.slot # NoSlot, b.announced = s.slot
      PROVE  ~Comes(SlotStart(s.slot), u + 1, b.deadline - 1)
  <2>1. s0.slot # NoSlot /\ s0.slot = s.slot /\ b0.announced = s0.slot
    BY <1>2 DEF LeasingAt, Follows
  <2>2. ~Comes(SlotStart(s.slot), u, b.deadline - 1)
    BY <2>1 DEF LeasingAt
  <2> QED BY <2>2 DEF Comes
<1>3. s.slot # NoSlot =>
          s.slot = g /\ s.known > 1 /\ s.heardUs >= s.leasedAt /\ s.extras \subseteq spares
  BY DEF Follows
<1>4. s.slot = NoSlot => s.extras = {}
  BY DEF Follows
<1> QED BY <1>1, <1>2, <1>3, <1>4 DEF LeasingAt


\* A position between beacons goes out in a slot no beacon uses.
LEMMA ExtraCalm ==
    ASSUME RideInv, RideInv', CalmBody, NEW c \in Cars, SendExtraBeacon(c)
    PROVE  CalmBody'
<1> DEFINE f == FillBeacon(c, sched[c], "extra")
           newAir == air \union {f}
           s == sched[c]
           b == radio[c]
<1>1. BeaconTurn(c) /\ EndBeacon(c, newAir) /\ UNCHANGED <<sched, radio>> /\ ExtraDue(c)
  BY DEF SendExtraBeacon
<1>2. /\ c \in on /\ now \in Nat /\ Second \in Nat \ {0} /\ on \in SUBSET Cars
      /\ radio[c] \in Radios /\ radio[c].deadline \in Nat
      /\ TimelyAt(s, b, now) /\ LeasingAt(Goal(c), Spares(c), s, b, now)
      /\ s.slot # NoSlot => now >= JoinListen /\ DOMAIN riders[c] # {}
  BY <1>1, CalmTurn
<1>3. PICK t \in s.extras : now % Second = SlotStart(t)
  BY <1>1 DEF ExtraDue, InExtraSlot
<1>4. s.slot # NoSlot /\ s.slot = Goal(c) /\ t \in Spares(c)
  BY <1>2, <1>3 DEF LeasingAt
<1>5. now % Second # SlotStart(s.slot)
  BY <1>2, <1>3, <1>4, SpareIsNotGoal
<1>6. Follows(Goal(c), Spares(c), s, s)
  BY <1>2 DEF LeasingAt, Follows
<1>7. b.sentOnce
  BY <1>1 DEF ExtraDue
<1>8. TimelyAt(s, b, now + 1)
  <2>1. b.deadline < now + 1 + Second
    BY <1>2, <1>7 DEF TimelyAt
  <2>2. Comes(SlotStart(s.slot), now, b.deadline + 2 * Second - 1)
    BY <1>2, <1>4, <1>7 DEF TimelyAt
  <2>3. Comes(SlotStart(s.slot), now + 1, b.deadline + 2 * Second - 1)
    BY <1>2, <1>5, <2>2, ComesLater
  <2> QED BY <1>4, <2>1, <2>3 DEF TimelyAt
<1>9. LeasingAt(Goal(c), Spares(c), s, b, now + 1)
  BY <1>2, <1>6, AnnouncedFollows
<1>10. sched' = [sched EXCEPT ![c] = s] /\ radio' = [radio EXCEPT ![c] = b]
  BY <1>1 DEF RideInv, CarsOK
<1>11. f.src = c /\ f.slot = s.slot /\ f.map = SlotMap(s, now)
  BY DEF FillBeacon
<1> HIDE DEF f, s, b
<1>12. air \subseteq newAir /\ f \in newAir
  OBVIOUS
<1>13. \A h \in newAir \ air :
                /\ h.src = c /\ h.slot = s.slot /\ h.map = SlotMap(s, now)
                /\ Scheduled(h) => \E u \in Spares(c) \union {Goal(c)} : now % Second = SlotStart(u)
  BY <1>3, <1>4, <1>11
<1>14. s.heard = sched[c].heard /\ b.deadline = radio[c].deadline
       /\ Follows(Goal(c), Spares(c), sched[c], s) /\ radio[c].sentOnce
  BY <1>6, <1>7 DEF s, b
<1> HIDE DEF newAir
<1>15. BeaconTurn(c) /\ EndBeacon(c, newAir) /\ air \subseteq newAir
  BY <1>1, <1>12
<1>16. s.slot # NoSlot => now >= JoinListen /\ DOMAIN riders[c] # {}
  BY <1>2
<1>17. sched[c].slot # NoSlot /\ now % Second = SlotStart(s.slot) =>
                \E h \in newAir : h.src = c /\ h.slot = s.slot /\ h.kind # "extra"
  BY <1>5
<1> QED BY <1>7, <1>8, <1>9, <1>10, <1>13, <1>14, <1>15, <1>16, <1>17, BeaconCalm

\* A beacon that waits for its slot.
LEMMA HoldCalm ==
    ASSUME RideInv, RideInv', CalmBody, NEW c \in Cars, HoldBeacon(c)
    PROVE  CalmBody'
<1>1. BeaconTurn(c) /\ EndBeacon(c, air)
  BY DEF HoldBeacon, LeaseTurn
<1>2. PICK s \in Schedules(c) :
        /\ ~(Wants(c, s) /\ InSlot(s))
        /\ sched' = [sched EXCEPT ![c] = s] /\ radio' = [radio EXCEPT ![c].want = Wants(c, s)]
  BY DEF HoldBeacon
<1> DEFINE s0 == sched[c]
           b0 == radio[c]
           w == Wants(c, s)
           b == [b0 EXCEPT !.want = w]
           D == b0.deadline
           k == SlotStart(s.slot)
           k2 == SharedStart(s)
<1>3. /\ c \in on /\ now \in Nat /\ Second \in Nat \ {0} /\ on \in SUBSET Cars
      /\ b0 \in Radios /\ D \in Nat
      /\ TimelyAt(s0, b0, now) /\ LeasingAt(Goal(c), Spares(c), s0, b0, now)
      /\ Goal(c) \in Slots /\ SlotStart(Goal(c)) \in 0 .. Second - 1
      /\ ~b0.sentOnce => DOMAIN riders[c] = {} /\ ~b0.want
      /\ b0.sentOnce =>
                /\ b0.deadline < now + Second
                /\ now <= b0.deadline + 2 * Second - 1
                /\ s0.slot = NoSlot => now <= b0.deadline + Second - 1
  BY <1>1, CalmTurn
<1>4. /\ Follows(Goal(c), Spares(c), s0, s)
      /\ s.slot # NoSlot => now >= JoinListen /\ DOMAIN riders[c] # {}
      /\ s.heard = sched[c].heard /\ s.sharedBlock \in 0 .. 3 /\ s \in Scheds
      /\ ~Due(c) => s = s0
      /\ Due(c) /\ DOMAIN riders[c] = {} => s.known = 1
  BY <1>3, RereadFollows
<1>5. /\ b.sentOnce = b0.sentOnce /\ b.want = w /\ b.announced = b0.announced
      /\ b.deadline = D /\ radio' = [radio EXCEPT ![c] = b]
  BY <1>2, <1>3 DEF Radios, RideInv, CarsOK
<1>6. b0.sentOnce
  <2> SUFFICES ASSUME ~b0.sentOnce PROVE FALSE
    OBVIOUS
  <2>1. Due(c)
    BY <1>3 DEF Due
  <2>2. InSlot(s)
    BY <1>3, <1>4, <2>1 DEF InSlot
  <2> QED BY <1>2, <2>1, <2>2 DEF Wants
<1>7. ASSUME ~w PROVE ~Due(c) /\ now < D /\ (s.slot # NoSlot => s.slot = b0.announced)
  <2>1. ~b0.want /\ ~Due(c) /\ (s.slot # NoSlot => s.slot = b0.announced)
    BY <1>7 DEF Wants
  <2>2. ~(now >= D)
    BY <1>6, <2>1 DEF Due
  <2> QED BY <1>3, <2>1, <2>2
<1> HIDE DEF b, w
<1>8. s.slot # NoSlot => s.slot = Goal(c) /\ k \in 0 .. Second - 1
  BY <1>3, <1>4 DEF Follows
<1>9. ASSUME s.slot # NoSlot, s0.slot # NoSlot PROVE now % Second # k
  <2> SUFFICES ASSUME now % Second = k PROVE FALSE
    OBVIOUS
  <2>1. InSlot(s)
    BY <1>9 DEF InSlot
  <2>2. ~w
    BY <1>2, <2>1 DEF w
  <2>3. ~Due(c) /\ now < D /\ s.slot = b0.announced
    BY <1>7, <1>9, <2>2
  <2>4. s = s0
    BY <1>4, <2>3
  <2>5. ~Comes(k, now, D - 1)
    BY <1>3, <1>9, <2>3, <2>4 DEF LeasingAt
  <2> HIDE DEF k
  <2>6. now \in now .. D - 1
    BY <1>3, <2>3
  <2> QED BY <2>5, <2>6 DEF Comes
<1>10. TimelyAt(s, b, now + 1)
  <2>1. D < now + 1 + Second
    BY <1>3, <1>6
  <2>2. ASSUME s.slot = NoSlot, ~w PROVE now + 1 <= D
    BY <1>3, <1>7, <2>2
  <2>3. ASSUME s.slot = NoSlot, w PROVE Comes(k2, now + 1, D + Second - 1)
    <3>1. now % Second # k2
      <4>1. ~InSlot(s)
        BY <1>2, <2>3 DEF w
      <4> QED BY <2>3, <4>1 DEF InSlot, SharedStart
    <3>2. s0.slot = NoSlot
      BY <2>3, <1>4 DEF Follows
    <3>3. k2 \in 0 .. Second - 1
      BY <1>4, SharedStartIs
    <3>4. Comes(k2, now, D + Second - 1)
      <4>1. CASE Due(c)
        <5>1. ~b0.want
          BY <4>1 DEF Due
        <5>2. now <= D
          BY <1>3, <1>6, <3>2, <5>1 DEF TimelyAt
        <5> HIDE DEF k2, D
        <5> QED BY <1>3, <3>3, <5>2, ComesWithin
      <4>2. CASE ~Due(c)
        <5>1. s = s0 /\ b0.want
          BY <1>4, <2>3, <4>2 DEF Wants, w
        <5> QED BY <1>3, <1>6, <3>2, <5>1 DEF TimelyAt
      <4> QED BY <4>1, <4>2
    <3> HIDE DEF k2, D
    <3> QED BY <1>3, <3>1, <3>4, ComesLater
  <2>4. ASSUME s.slot # NoSlot PROVE Comes(k, now + 1, D + 2 * Second - 1)
    <3>1. CASE s0.slot = NoSlot
      <4>1. now <= D + Second - 1
        BY <1>3, <1>6, <3>1
      <4>2. k \in 0 .. Second - 1
        BY <1>8, <2>4
      <4> HIDE DEF k, D
      <4> QED BY <1>3, <4>1, <4>2, ComesWithin
    <3>2. CASE s0.slot # NoSlot
      <4>1. now % Second # k
        BY <1>9, <2>4, <3>2
      <4>2. Comes(k, now, D + 2 * Second - 1)
        <5>1. s.slot = s0.slot
          BY <1>4, <3>2 DEF Follows
        <5> QED BY <1>3, <1>6, <3>2, <5>1 DEF TimelyAt
      <4> HIDE DEF k, D
      <4> QED BY <1>3, <4>1, <4>2, ComesLater
    <3> QED BY <3>1, <3>2
  <2> QED BY <1>5, <2>1, <2>2, <2>3, <2>4 DEF TimelyAt
<1>11. LeasingAt(Goal(c), Spares(c), s, b, now + 1)
  BY <1>3, <1>4, <1>5, AnnouncedFollows
<1>12. b.sentOnce /\ b.deadline = radio[c].deadline
  BY <1>5, <1>6
<1>13. ~(sched[c].slot # NoSlot /\ now % Second = SlotStart(s.slot))
  BY <1>4, <1>9 DEF Follows
<1> QED BY <1>1, <1>2, <1>4, <1>5, <1>6, <1>10, <1>11, <1>12, <1>13, BeaconCalm

\* A beacon that goes out.
LEMMA SendCalm ==
    ASSUME RideInv, RideInv', CalmBody, NEW c \in Cars, SendBeacon(c)
    PROVE  CalmBody'
<1>1. BeaconTurn(c)
  BY DEF SendBeacon, LeaseTurn
<1> DEFINE e == IF radio[c].sentOnce THEN radio[c].deadline ELSE now
           D == NextOnGrid(e)
           B(s) == [want |-> FALSE, sentOnce |-> TRUE, announced |-> s.slot, deadline |-> D]
<1>2. PICK s \in Schedules(c) :
        /\ InSlot(s)
        /\ sched' = [sched EXCEPT ![c] = s] /\ radio' = [radio EXCEPT ![c] = B(s)]
        /\ EndBeacon(c, air \union {FillBeacon(c, s, Kind(s))})
  BY DEF SendBeacon
<1> DEFINE b == B(s)
           f == FillBeacon(c, s, Kind(s))
           newAir == air \union {f}
           k == SlotStart(s.slot)
<1>3. /\ c \in on /\ now \in Nat /\ Second \in Nat \ {0} /\ on \in SUBSET Cars
      /\ radio[c].deadline \in Nat /\ radio[c].deadline <= now + Second
      /\ Goal(c) \in Slots /\ SlotStart(Goal(c)) \in 0 .. Second - 1
  BY <1>1, CalmTurn
<1>4. /\ Follows(Goal(c), Spares(c), sched[c], s)
      /\ s.slot # NoSlot => now >= JoinListen /\ DOMAIN riders[c] # {}
      /\ s.heard = sched[c].heard /\ s \in Scheds
  BY <1>3, RereadFollows
<1>5. D \in Nat /\ now < D /\ D <= now + Second
  <2>1. e \in Nat /\ e <= now + Second
    BY <1>3
  <2> HIDE DEF e
  <2> QED BY <1>3, <2>1, NextOnGridIs
<1>6. b.sentOnce /\ ~b.want /\ b.announced = s.slot /\ b.deadline = D
  OBVIOUS
<1>7. s.slot # NoSlot => s.slot = Goal(c) /\ k \in 0 .. Second - 1 /\ s.known > 1
  BY <1>3, <1>4 DEF Follows
<1>8. s.slot # NoSlot => now % Second = k
  <2>1. s.slot # NoSlot => ~(s.known <= 1)
    <3>1. s.known \in Nat
      BY <1>4 DEF Scheds
    <3> QED BY <1>7, <3>1
  <2> QED BY <1>2, <2>1 DEF InSlot
<1> HIDE DEF b, D, k
<1>9. TimelyAt(s, b, now + 1)
  <2>1. ASSUME s.slot # NoSlot PROVE Comes(k, now + 1, D + 2 * Second - 1)
    <3>1. k \in 0 .. Second - 1
      BY <1>7, <2>1
    <3> QED BY <1>3, <1>5, <3>1, ComesWithin
  <2>2. D < now + 1 + Second /\ now + 1 <= D
    BY <1>3, <1>5
  <2> QED BY <1>6, <2>1, <2>2 DEF TimelyAt, k
<1>10. LeasingAt(Goal(c), Spares(c), s, b, now + 1)
  <2>1. ASSUME s.slot # NoSlot PROVE ~Comes(k, now + 1, D - 1)
    <3> SUFFICES ASSUME NEW m \in now + 1 .. D - 1, m % Second = k PROVE FALSE
      BY DEF Comes
    <3>1. m \in Nat /\ now < m /\ m < now + Second
      BY <1>3, <1>5
    <3> QED BY <1>3, <1>8, <2>1, <3>1, Miss
  <2> QED BY <1>4, <1>6, <2>1 DEF LeasingAt, Follows, k
<1>11. f.src = c /\ f.slot = s.slot /\ f.map = SlotMap(s, now) /\ f.kind = Kind(s)
  BY DEF FillBeacon
<1>12. Kind(s) # "extra" /\ (Kind(s) = "lease" => s.slot # NoSlot)
  BY DEF Kind
<1> HIDE DEF f
<1>13. air \subseteq newAir /\ f \in newAir
  OBVIOUS
<1>14. \A h \in newAir \ air :
                /\ h.src = c /\ h.slot = s.slot /\ h.map = SlotMap(s, now)
                /\ Scheduled(h) => \E u \in Spares(c) \union {Goal(c)} : now % Second = SlotStart(u)
  <2>1. Scheduled(f) => now % Second = SlotStart(Goal(c))
    BY <1>7, <1>8, <1>11, <1>12 DEF Scheduled, k
  <2> QED BY <1>11, <2>1
<1>15. EndBeacon(c, newAir) /\ radio' = [radio EXCEPT ![c] = b]
  BY <1>2 DEF f, b, D
<1>16. \E h \in newAir : h.src = c /\ h.slot = s.slot /\ h.kind # "extra"
  BY <1>11, <1>12, <1>13
<1> HIDE DEF newAir
<1>17. \E h \in newAir : h.src = c
  BY <1>16
<1>18. sched' = [sched EXCEPT ![c] = s]
  BY <1>2
<1>19. b.sentOnce
  BY <1>6
<1> HIDE DEF B
<1> QED BY <1>1, <1>4, <1>9, <1>10, <1>13, <1>14, <1>15, <1>16, <1>17, <1>18, <1>19, BeaconCalm

-----------------------------------------------------------------------------
(* A car powers on.                                                        *)

\* Nobody has a slot yet when the last of them powers on.
LEMMA StillQuiet ==
    ASSUME RideInv, CalmBody, now < JoinListen
    PROVE  /\ \A d \in on : sched[d].slot = NoSlot
           /\ \A t \in Slots : ~Announced(t)
           /\ \A d \in on : \A t \in Slots : ~(sched[d].heard[t].tag # 0)
<1>1. now \in Nat /\ JoinListen \in Nat
  BY OnFacts, Numbers DEF RideInv
<1>2. ~(now >= JoinListen)
  BY <1>1
<1>3. \A d \in on : sched[d].slot = NoSlot
  BY <1>2 DEF CalmBody, Leasing
<1>4. \A t \in Slots : ~Announced(t)
  BY <1>3, Numbers DEF Announced
<1>5. \A d \in on : \A t \in Slots : ~(sched[d].heard[t].tag # 0)
  BY <1>3, Numbers DEF CalmBody, Links
<1> QED BY <1>3, <1>4, <1>5

\* A car that powers on in time finds nobody on a slot.
LEMMA PowerCalm ==
    ASSUME RideInv, RideInv', Calm, CalmBody, NEW c \in Cars, SwitchOn(c)
    PROVE  CalmBody'
<1>0. /\ step = "beacon" /\ turn = Min(on) /\ c \notin on /\ now \in PowerSlots[ride]
      /\ on' = on \union {c} /\ turn' = Min(on')
      /\ sched' = [sched EXCEPT ![c] = FreshSchedule]
      /\ riders' = [riders EXCEPT ![c] = << >>]
      /\ radio' = [radio EXCEPT ![c] = FreshRadio]
      /\ now' = now /\ step' = step /\ air' = air /\ feeding' = feeding
  BY DEF SwitchOn, BetweenSlots
<1>1. air = {} /\ air' = {}
  BY <1>0, BetweenEmpty DEF SwitchOn
<1>2. /\ now \in Nat /\ on \in SUBSET Cars /\ c \in Nat /\ Second \in Nat \ {0} /\ JoinListen \in Nat
      /\ Second >= 2 /\ now <= JoinListen - 2 * Second
  <2>1. now \in Nat /\ on \in SUBSET Cars /\ c \in Nat /\ Second \in Nat \ {0} /\ JoinListen \in Nat /\ Second >= 2
    BY OnFacts, CarFacts, Numbers DEF RideInv, ClockOK
  <2>2. now \in 0 .. JoinListen - 2 * Second
    BY <1>0 DEF Calm, PoweredTogether
  <2> QED BY <2>1, <2>2
<1>3. /\ sched'[c] = FreshSchedule /\ riders'[c] = << >> /\ radio'[c] = FreshRadio
      /\ \A d \in on : sched'[d] = sched[d] /\ riders'[d] = riders[d] /\ radio'[d] = radio[d]
  BY <1>0, <1>2 DEF RideInv, CarsOK
<1>4. /\ FreshSchedule.slot = NoSlot /\ FreshSchedule.extras = {}
      /\ (\A t \in Slots : FreshSchedule.heard[t].tag = 0)
      /\ ~FreshRadio.want /\ ~FreshRadio.sentOnce /\ FreshRadio.announced = NoSlot
      /\ DOMAIN << >> = {}
  BY DEF FreshSchedule, FreshRadio, NeverHeard
<1>5. /\ \A d \in on : sched[d].slot = NoSlot
      /\ \A t \in Slots : ~Announced(t)
      /\ \A d \in on : \A t \in Slots : ~(sched[d].heard[t].tag # 0)
  BY <1>2, StillQuiet
<1>6. /\ \A d \in on : Until(d) = now
      /\ \A d \in on' : Until(d)' = now /\ turn' <= d
  <2>1. \A d \in on : Min(on) <= d
    BY OnFacts DEF RideInv
  <2>2. \A d \in on' : Min(on') <= d
    <3>1. on' \in SUBSET Nat /\ on' # {}
      BY <1>0, <1>2, CarFacts
    <3> QED BY <3>1, MinIs
  <2> QED BY <1>0, <2>1, <2>2 DEF Until
<1> HIDE DEF FreshSchedule, FreshRadio
<1>7. ASSUME NEW d \in on' PROVE sched'[d].slot = NoSlot /\ FirstBeacon(d)' /\ Timely(d)' /\ Leasing(d)'
  <2>1. CASE d = c
    <3>1. FirstBeacon(d)'
      BY <1>0, <1>2, <1>3, <1>4, <1>6, <2>1 DEF FirstBeacon
    <3>2. Timely(d)'
      BY <1>3, <1>4, <2>1 DEF Timely, TimelyAt
    <3>3. Leasing(d)'
      BY <1>3, <1>4, <2>1 DEF Leasing, LeasingAt
    <3> QED BY <1>3, <1>4, <2>1, <3>1, <3>2, <3>3
  <2>2. CASE d # c
    <3>0. d \in on
      BY <1>0, <2>2
    <3>1. FirstBeacon(d) /\ Timely(d) /\ Leasing(d)
      BY <3>0 DEF CalmBody
    <3>2. FirstBeacon(d)'
      BY <1>0, <1>3, <1>6, <3>0, <3>1 DEF FirstBeacon
    <3>3. Timely(d)'
      BY <1>3, <1>6, <3>0, <3>1 DEF Timely
    <3>4. Leasing(d)'
      BY <1>3, <1>5, <3>0, <3>1 DEF Leasing, LeasingAt
    <3> QED BY <1>3, <1>5, <3>0, <3>2, <3>3, <3>4
  <2> QED BY <2>1, <2>2
<1>8. ASSUME NEW x \in on' PROVE Rosters(x)'
  <2>1. \A y, d : ~Pending(y, d) /\ ~Pending(y, d)'
    BY <1>1 DEF Pending
  <2>2. now <= JoinListen - 2
    BY <1>2
  <2>3. CASE x = c
    <3>1. ASSUME NEW d \in on' \ {x} PROVE Unknown(x, d)'
      <4>1. d \in on /\ radio'[d] = radio[d] /\ sched'[d].slot = NoSlot
        BY <1>0, <1>3, <1>5, <2>3, <3>1
      <4>2. radio[d].sentOnce => radio[d].deadline < now + Second
        BY <1>6, <4>1 DEF CalmBody, Timely, TimelyAt
      <4>3. radio[d].deadline \in Nat
        BY <1>2, <4>1 DEF RideInv, CarsOK, Radios
      <4>4. radio[d].sentOnce => radio[d].deadline < JoinListen - Second
        BY <1>2, <4>2, <4>3
      <4> QED BY <1>0, <2>2, <4>1, <4>4 DEF Unknown
    <3>2. DOMAIN riders'[x] = {}
      BY <1>3, <1>4, <2>3
    <3> QED BY <3>1, <3>2 DEF Rosters
  <2>4. CASE x # c
    <3>0. x \in on /\ riders'[x] = riders[x] /\ sched'[x] = sched[x]
      BY <1>0, <1>3, <2>4
    <3>1. Rosters(x)
      BY <3>0 DEF CalmBody
    <3>2. c \notin DOMAIN riders'[x] /\ DOMAIN riders'[x] \subseteq on'
      BY <1>0, <3>0, <3>1 DEF Rosters
    <3>3. Unknown(x, c)'
      BY <1>0, <1>3, <1>4, <2>2 DEF Unknown
    <3>4. ASSUME NEW d \in on \ {x}, Heard(x, d) PROVE Heard(x, d)'
      <4>1. riders[x][d].slot = NoSlot
        BY <1>5, <3>4 DEF Heard
      <4>2. \A t \in Slots : ~(riders[x][d].map[t] # 0)
        BY <1>5, <3>4 DEF Heard
      <4>3. riders'[x][d].at > now' - 3 * Second
        BY <1>0, <3>0, <3>4 DEF Heard
      <4>4. radio'[d].sentOnce /\ riders'[x][d].at + Second >= radio'[d].deadline
        BY <1>3, <2>1, <3>0, <3>4 DEF Heard
      <4> QED BY <1>5, <3>0, <4>1, <4>2, <4>3, <4>4 DEF Heard
    <3>5. ASSUME NEW d \in on \ {x}, Unknown(x, d) PROVE Unknown(x, d)'
      BY <1>0, <1>3, <2>1, <3>5 DEF Unknown
    <3>6. ASSUME NEW d \in on' \ {x}
          PROVE  IF d \in DOMAIN riders'[x] THEN Heard(x, d)' ELSE Unknown(x, d)'
      <4>1. CASE d = c
        BY <3>2, <3>3, <4>1
      <4>2. CASE d # c
        <5>1. d \in on \ {x}
          BY <1>0, <4>2
        <5> QED BY <3>0, <3>1, <3>4, <3>5, <5>1 DEF Rosters
      <4> QED BY <4>1, <4>2
    <3> QED BY <3>2, <3>6 DEF Rosters
  <2> QED BY <2>3, <2>4
<1>9. ASSUME NEW x \in on' PROVE Links(x)'
  <2>1. \A t \in Slots : ~(sched'[x].heard[t].tag # 0)
    BY <1>0, <1>3, <1>4, <1>5
  <2> QED BY <2>1 DEF Links
<1>10. \A x \in on' : \A d \in on' \ {x} : Shown(x, d)'
  BY <1>7 DEF Shown
<1>11. feeding' = Cars
  BY <1>0 DEF CalmBody
<1> QED BY <1>1, <1>7, <1>8, <1>9, <1>10, <1>11 DEF CalmBody

-----------------------------------------------------------------------------
(* drainRadio() on a calm ride.                                            *)

\* The roster of car c when it has taken the frames S off the air.
RosterAfter(c, S, r) ==
    /\ DOMAIN r = DOMAIN riders[c] \union {f.src : f \in S}
    /\ \A f \in S : r[f.src].slot = f.slot /\ r[f.src].map = f.map /\ r[f.src].at = now
    /\ \A d \in DOMAIN riders[c] : (\A f \in S : f.src # d) => r[d] = riders[c][d]

\* One change of the schedule after another follows the queue too.
LEMMA FollowsOn ==
    ASSUME NEW g, NEW spares, NEW s0, NEW s1, NEW s2,
           Follows(g, spares, s0, s1), Follows(g, spares, s1, s2)
    PROVE  Follows(g, spares, s0, s2)
BY DEF Follows

\* A slot on the roster stays on it.
LEMMA NoSlotLost ==
    ASSUME RideInv, CalmBody, NEW c \in on, NEW S \in SUBSET air, \A f \in S : f.src # c,
           NEW r, RosterAfter(c, S, r)
    PROVE  \A d \in DOMAIN riders[c] : riders[c][d].slot \in Slots =>
                d \in DOMAIN r /\ r[d].slot = riders[c][d].slot
<1> SUFFICES ASSUME NEW d \in DOMAIN riders[c], riders[c][d].slot \in Slots
             PROVE  d \in DOMAIN r /\ r[d].slot = riders[c][d].slot
  OBVIOUS
<1> DEFINE t == riders[c][d].slot
<1>0. d \in DOMAIN r
  BY DEF RosterAfter
<1>1. CASE \A f \in S : f.src # d
  BY <1>0, <1>1 DEF RosterAfter
<1>2. CASE \E f \in S : f.src = d
  <2>1. PICK f \in S : f.src = d
    BY <1>2
  <2>2. r[d].slot = f.slot /\ f \in air /\ d # c
    BY <2>1 DEF RosterAfter
  <2>3. OnAir(f) /\ t # NoSlot
    BY <2>2, Numbers DEF CalmBody
  <2>6. Heard(c, d) /\ d \in on
    <3>1. Rosters(c)
      BY DEF CalmBody
    <3> QED BY <2>2, <3>1 DEF Rosters
  <2>4. f.slot # NoSlot
    BY <2>1, <2>3 DEF OnAir
  <2>5. f.slot = sched[d].slot
    BY <2>1, <2>3, <2>4 DEF OnAir
  <2>7. t = sched[d].slot
    BY <2>3, <2>6 DEF Heard
  <2> QED BY <1>0, <2>2, <2>5, <2>7
<1> QED BY <1>1, <1>2

\* With that roster the car has grounds again for what it does.
LEMMA DrainGrounds ==
    ASSUME RideInv, CalmBody, NEW c \in on, NEW S \in SUBSET air, S # {}, \A f \in S : f.src # c,
           NEW r, RosterOK(c, r, now), RosterAfter(c, S, r),
           NEW s, Follows(Goal(c), Spares(c), sched[c], s)
    PROVE  Grounds(c, s, r)
<1> DEFINE r0 == riders[c]
           s0 == sched[c]
<1>1. /\ c \in Cars /\ now \in Nat /\ on \in SUBSET Cars /\ Leasing(c) /\ Rosters(c)
      /\ Second \in Nat \ {0}
  BY CalmCar, Numbers
<1>2. Grounds(c, s0, r0)
  BY GroundsHold
<1>3. \A f \in S : f \in air /\ OnAir(f) /\ f.src \in on /\ f.src # c
  BY DEF CalmBody, RideInv, AirOK
<1>4. \A d \in on : sched[d].slot \in {NoSlot, Goal(d)}
  BY CalmCar DEF Leasing, LeasingAt
<1>5. DOMAIN r0 \subseteq on \ {c} /\ DOMAIN r0 \subseteq DOMAIN r /\ DOMAIN r \subseteq on \ {c}
  BY <1>2, <1>3 DEF Grounds, Seen, RosterAfter
<1>6. ASSUME NEW d \in DOMAIN r
      PROVE  \/ d \in DOMAIN r0 /\ r[d] = r0[d]
             \/ \E f \in S : f.src = d /\ r[d].slot = f.slot /\ r[d].map = f.map /\ r[d].at = now
  BY DEF RosterAfter
<1>7. Seen(c, r)
  <2>1. ASSUME NEW d \in DOMAIN r PROVE r[d].slot \in {NoSlot, Goal(d)} /\ r[d].at > now - 3 * Second
    <3>1. CASE d \in DOMAIN r0 /\ r[d] = r0[d]
      BY <1>2, <3>1 DEF Grounds, Seen
    <3>2. CASE \E f \in S : f.src = d /\ r[d].slot = f.slot /\ r[d].map = f.map /\ r[d].at = now
      <4>1. PICK f \in S : f.src = d /\ r[d].slot = f.slot /\ r[d].at = now
        BY <3>2
      <4>2. f.slot \in {NoSlot, Goal(d)}
        BY <1>3, <1>4, <4>1 DEF OnAir
      <4>3. r[d].at > now - 3 * Second
        BY <1>1, <4>1
      <4> QED BY <4>1, <4>2, <4>3
    <3> QED BY <1>6, <3>1, <3>2
  <2> QED BY <1>5, <2>1 DEF Seen
<1>8. now >= JoinListen => DOMAIN r = on \ {c}
  BY <1>2, <1>5 DEF Grounds
<1>9. ASSUME NEW d \in DOMAIN r, NEW t \in Slots, r[d].map[t] # 0
      PROVE  t = s.slot \/ \E x \in DOMAIN r : r[x].slot = t
  <2>1. Announced(t)
    <3>1. CASE d \in DOMAIN r0 /\ r[d] = r0[d]
      <4>1. Heard(c, d)
        BY <1>1, <1>5, <3>1 DEF Rosters
      <4> QED BY <1>9, <3>1, <4>1 DEF Heard
    <3>2. CASE \E f \in S : f.src = d /\ r[d].slot = f.slot /\ r[d].map = f.map /\ r[d].at = now
      <4>1. PICK f \in S : r[d].map = f.map
        BY <3>2
      <4>2. OnAir(f) /\ f.map[t] # 0
        BY <1>3, <1>9, <4>1
      <4> QED BY <4>2 DEF OnAir
    <3> QED BY <1>6, <3>1, <3>2
  <2>2. PICK x \in on : sched[x].slot = t /\ \A y \in on \ {x} : Lists(y, x, t)
    BY <2>1 DEF Announced
  <2>3. CASE x = c
    <3>1. s0.slot # NoSlot
      BY <2>2, <2>3, Numbers
    <3> QED BY <2>2, <2>3, <3>1 DEF Follows
  <2>4. CASE x # c
    <3>1. x \in DOMAIN r0 /\ r0[x].slot = t
      BY <2>2, <2>4 DEF Lists
    <3>2. \A e \in DOMAIN riders[c] : riders[c][e].slot \in Slots =>
                e \in DOMAIN r /\ r[e].slot = riders[c][e].slot
      BY NoSlotLost
    <3> QED BY <3>1, <3>2
  <2> QED BY <2>3, <2>4
<1>10. s.slot # NoSlot => now >= JoinListen /\ DOMAIN r # {} /\ s.heardUs >= s.leasedAt
  <2>1. s.slot # NoSlot => now >= JoinListen
    BY <1>1 DEF Follows, Leasing
  <2>2. DOMAIN r # {}
    BY DEF RosterAfter
  <2> QED BY <2>1, <2>2 DEF Follows
<1>11. ASSUME s.slot # NoSlot, NEW d \in DOMAIN r, r[d].at > s.leasedAt + Second
       PROVE  r[d].map[s.slot] = Tag[c]
  <2>1. r[d].at \in Nat /\ r[d].at <= now
    BY DEF RosterOK, Entries
  <2>2. s0.slot # NoSlot
    <3>1. s.leasedAt # now
      BY <1>1, <1>11, <2>1
    <3> QED BY <1>11, <3>1 DEF Follows
  <2>3. s.slot = s0.slot /\ s.leasedAt = s0.leasedAt
    BY <2>2 DEF Follows
  <2>4. CASE d \in DOMAIN r0 /\ r[d] = r0[d]
    BY <1>2, <1>11, <2>2, <2>3, <2>4 DEF Grounds
  <2>5. CASE \E f \in S : f.src = d /\ r[d].slot = f.slot /\ r[d].map = f.map /\ r[d].at = now
    <3>1. PICK f \in S : f.src = d /\ r[d].map = f.map /\ r[d].at = now
      BY <2>5
    <3>2. OnAir(f) /\ f.src # c
      BY <1>3
    <3>3. f.map[s0.slot] = Tag[c]
      BY <1>11, <2>2, <2>3, <3>1, <3>2 DEF OnAir
    <3> QED BY <2>3, <3>1, <3>3
  <2> QED BY <1>6, <2>4, <2>5
<1>12. s.slot \in {NoSlot, Goal(c)}
  BY DEF Follows
<1> QED BY <1>7, <1>8, <1>9, <1>10, <1>11, <1>12 DEF Grounds


\* Car c, when it has taken the frames S off the air.
Stage(c, S, r, s) ==
    /\ CarOK(c, r, s) /\ RosterAfter(c, S, r)
    /\ Follows(Goal(c), Spares(c), sched[c], s) /\ s.sharedBlock = sched[c].sharedBlock
    /\ s.slot # NoSlot => now >= JoinListen /\ DOMAIN r # {}
    /\ \A f \in S : f.kind # "extra" /\ f.slot # NoSlot =>
          s.heard[f.slot].tag = Tag[f.src] /\ s.heard[f.slot].at = now
    /\ \A t \in Slots :
          (\A f \in S : f.slot = t => f.kind = "extra") => s.heard[t] = sched[c].heard[t]

\* One more frame on the roster.
LEMMA RosterNoted ==
    ASSUME NEW c, NEW S, NEW r0, RosterAfter(c, S, r0), NEW f, \A g \in S : g.src # f.src,
           NEW r, DOMAIN r = DOMAIN r0 \union {f.src}, \A d \in DOMAIN r0 \ {f.src} : r[d] = r0[d],
           r[f.src].slot = f.slot, r[f.src].map = f.map, r[f.src].at = now
    PROVE  RosterAfter(c, S \union {f}, r)
<1>1. DOMAIN r = DOMAIN riders[c] \union {g.src : g \in S \union {f}}
  BY DEF RosterAfter
<1>2. ASSUME NEW g \in S PROVE r[g.src].slot = g.slot /\ r[g.src].map = g.map /\ r[g.src].at = now
  <2>1. g.src \in DOMAIN r0 \ {f.src}
    BY DEF RosterAfter
  <2>2. r[g.src] = r0[g.src]
    BY <2>1
  <2> QED BY <2>2 DEF RosterAfter
<1>3. ASSUME NEW d \in DOMAIN riders[c], \A g \in S \union {f} : g.src # d PROVE r[d] = riders[c][d]
  <2>1. d \in DOMAIN r0 \ {f.src}
    BY <1>3 DEF RosterAfter
  <2>2. r0[d] = riders[c][d]
    BY <1>3 DEF RosterAfter
  <2> QED BY <2>1, <2>2
<1> QED BY <1>1, <1>2, <1>3 DEF RosterAfter

\* One more frame through drainRadio: roster, link record and schedule.
LEMMA TakeStage ==
    ASSUME RideInv, CalmBody, NEW c \in on, NEW S \in SUBSET air, \A g \in S : g.src # c,
           NEW f \in air, f \notin S, f.src # c,
           NEW me, Stage(c, S, me.riders, me.sched)
    PROVE  LET v == Take(c, f, 0, me)
           IN  Stage(c, S \union {f}, v.riders, v.sched) /\ v = [riders |-> v.riders, sched |-> v.sched]
<1> DEFINE r0 == me.riders
           s0 == me.sched
           r == Note(r0, f, 0)
           s1 == IF f.kind # "extra" THEN HeardBeacon(s0, f.src, f.slot, now) ELSE s0
           speaking == c \in feeding
           s == Rebuild(c, s1, r, now, speaking)
           T == S \union {f}
<1>1. /\ c \in Cars /\ now \in Nat /\ on \in SUBSET Cars /\ T \in SUBSET air /\ T # {}
      /\ f \in Frames /\ f.src \in Cars /\ f.slot \in 0 .. NoSlot
      /\ \A g \in T : g.src # c /\ g \in air /\ g.src \in on /\ g.slot \in {NoSlot, Goal(g.src)}
      /\ \A g \in S : g.src # f.src
  <2>1. c \in Cars /\ now \in Nat /\ on \in SUBSET Cars
    BY CalmCar
  <2>2. \A g \in air : OnAir(g) /\ g.src \in on /\ g \in Frames
    BY DEF CalmBody, RideInv, AirOK
  <2>3. \A d \in on : sched[d].slot \in {NoSlot, Goal(d)}
    BY CalmCar DEF Leasing, LeasingAt
  <2>4. \A g \in air : g.slot \in {NoSlot, Goal(g.src)}
    BY <2>2, <2>3 DEF OnAir
  <2>5. \A g \in S : g.src # f.src
    BY DEF RideInv, AirOK, OneEach
  <2>6. f \in Frames /\ f.src \in Cars /\ f.slot \in 0 .. NoSlot
    BY <2>2 DEF Frames
  <2> QED BY <2>1, <2>2, <2>4, <2>5, <2>6
<1>2. SchedOK(s0, now) /\ RosterOK(c, r0, now)
  BY DEF Stage, CarOK, CarAt
<1>3. /\ RosterOK(c, r, now) /\ DOMAIN r = DOMAIN r0 \union {f.src}
      /\ \A d \in DOMAIN r0 \ {f.src} : r[d] = r0[d]
      /\ r[f.src].slot = f.slot /\ r[f.src].map = f.map /\ r[f.src].at = now
  <2> DEFINE hops == 0
             w == Note(r0, f, hops)
  <2>1. hops \in {0, 1} /\ w = r
    OBVIOUS
  <2> HIDE DEF hops, r
  <2>2. /\ RosterOK(c, w, now) /\ DOMAIN w = DOMAIN r0 \union {f.src}
        /\ \A d \in DOMAIN r0 \ {f.src} : w[d] = r0[d]
        /\ w[f.src].slot = f.slot /\ w[f.src].map = f.map /\ w[f.src].at = now
    <3> HIDE DEF r0
    <3> QED BY <1>1, <1>2, <2>1, NoteKeeps
  <2> HIDE DEF w
  <2> QED BY <2>1, <2>2
<1>4. Take(c, f, 0, me) = [riders |-> r, sched |-> s]
  BY DEF Take
<1> HIDE DEF r
<1>5. RosterAfter(c, T, r)
  <2>1. RosterAfter(c, S, r0)
    BY DEF Stage
  <2> QED BY <1>1, <1>3, <2>1, RosterNoted
<1>6. /\ SchedOK(s1, now) /\ s1.slot = s0.slot /\ s1.leasedAt = s0.leasedAt /\ s1.heardUs = s0.heardUs
      /\ s1.known = s0.known /\ s1.extras = s0.extras /\ s1.sharedBlock = s0.sharedBlock
      /\ f.kind # "extra" => \A t \in Slots :
            IF t = f.slot THEN s1.heard[t].tag = Tag[f.src] /\ s1.heard[t].at = now
                          ELSE s1.heard[t] = s0.heard[t]
      /\ f.kind = "extra" => s1.heard = s0.heard
  <2>1. CASE f.kind # "extra"
    <3>1. s1 = HeardBeacon(s0, f.src, f.slot, now)
      BY <2>1
    <3> HIDE DEF s1
    <3> QED BY <1>1, <1>2, <2>1, <3>1, HeardBeaconKeeps
  <2>2. CASE f.kind = "extra"
    BY <1>2, <2>2
  <2> QED BY <2>1, <2>2
<1> HIDE DEF s1
<1>7. Follows(Goal(c), Spares(c), sched[c], s1) /\ s1.sharedBlock = sched[c].sharedBlock
  BY <1>6 DEF Stage, Follows
<1>8. Grounds(c, s1, r)
  <2> HIDE DEF T
  <2>1. \A g \in T : g.src # c
    BY <1>1
  <2> QED BY <1>1, <1>3, <1>5, <1>7, <2>1, DrainGrounds
<1>9. CarOK(c, r, s) /\ s.heard = s1.heard /\ s.sharedBlock = s1.sharedBlock
  <2> HIDE DEF speaking
  <2>1. /\ SchedOK(s, now) /\ ExtrasRight(s) /\ s.known \in 1 .. Cardinality(Cars)
        /\ s.heard = s1.heard /\ s.sharedBlock = s1.sharedBlock
    BY <1>1, <1>3, <1>6, RebuildKeeps
  <2> HIDE DEF s
  <2> QED BY <1>3, <2>1 DEF CarOK, CarAt
<1>10. Follows(Goal(c), Spares(c), s1, s) /\ (s.slot # NoSlot => now >= JoinListen /\ DOMAIN r # {})
  <2> DEFINE w == Rebuild(c, s1, r, now, TRUE)
  <2>1. Follows(Goal(c), Spares(c), s1, w) /\ (w.slot # NoSlot => now >= JoinListen /\ DOMAIN r # {})
    <3>1. on \in SUBSET Cars /\ now \in Nat
      BY <1>1
    <3>2. SchedOK(s1, now) /\ RosterOK(c, r, now)
      BY <1>3, <1>6
    <3> HIDE DEF T, s, r0, s0
    <3> QED BY <1>8, <3>1, <3>2, RebuildFollows
  <2>2. speaking = TRUE
    BY <1>1 DEF CalmBody
  <2>3. s = w
    <3> HIDE DEF speaking
    <3> QED BY <2>2
  <2> HIDE DEF s, w
  <2> QED BY <2>1, <2>3
<1> HIDE DEF s
<1>11. Follows(Goal(c), Spares(c), sched[c], s)
  BY <1>7, <1>10, FollowsOn
<1>12. ASSUME NEW g \in T, g.kind # "extra", g.slot # NoSlot
       PROVE  s.heard[g.slot].tag = Tag[g.src] /\ s.heard[g.slot].at = now
  <2>1. g.slot \in Slots
    BY <1>1, <1>12, Goals
  <2>2. CASE g = f
    BY <1>6, <1>9, <1>12, <2>1, <2>2
  <2>3. CASE g # f
    <3>1. g \in S
      BY <2>3
    <3>2. s0.heard[g.slot].tag = Tag[g.src] /\ s0.heard[g.slot].at = now
      BY <1>12, <3>1 DEF Stage
    <3>3. f.slot # g.slot
      BY <1>1, <1>12, <3>1, Goals
    <3>4. s1.heard[g.slot] = s0.heard[g.slot]
      BY <1>6, <2>1, <3>3
    <3> QED BY <1>9, <3>2, <3>4
  <2> QED BY <2>2, <2>3
<1>13. ASSUME NEW t \in Slots, \A g \in T : g.slot = t => g.kind = "extra"
       PROVE  s.heard[t] = sched[c].heard[t]
  <2>1. s0.heard[t] = sched[c].heard[t] /\ (f.slot # t \/ f.kind = "extra")
    BY <1>13 DEF Stage
  <2>2. s1.heard[t] = s0.heard[t]
    BY <1>6, <2>1
  <2> QED BY <1>9, <2>1, <2>2
<1>14. Stage(c, T, r, s)
  <2> HIDE DEF T
  <2> QED BY <1>5, <1>7, <1>9, <1>10, <1>11, <1>12, <1>13 DEF Stage
<1> HIDE DEF T
<1> QED BY <1>4, <1>14 DEF T


\* One frame after another: the car as it has taken all it heard.
LEMMA DrainedStage ==
    ASSUME RideInv, CalmBody, NEW c \in on, NEW H, H = {f \in air : f.src # c}
    PROVE  LET v == Drained(c, H, 0) IN Stage(c, H, v.riders, v.sched)
<1> DEFINE hops == 0
           V == UNION {[D -> Entries] : D \in SUBSET Cars}
           Taken(k) == {f \in H : Ranked(H, f) < k}
           Good(k) == {me \in [riders : V, sched : Scheds] : Stage(c, Taken(k), me.riders, me.sched)}
           N == Cardinality(H)
           M == [k \in 0 .. N |-> Good(k)]
           base == [riders |-> riders[c], sched |-> sched[c]]
<1>1. ASSUME NEW r, NEW s, NEW k, Stage(c, Taken(k), r, s)
      PROVE  [riders |-> r, sched |-> s] \in Good(k)
  <2> HIDE DEF Taken
  <2>1. DOMAIN r \in SUBSET Cars /\ r \in [DOMAIN r -> Entries] /\ s \in Scheds
    BY <1>1 DEF Stage, CarOK, CarAt, RosterOK, SchedOK
  <2>2. r \in V
    BY <2>1
  <2> QED BY <1>1, <2>1, <2>2
<1>2. /\ c \in Cars /\ now \in Nat /\ H \in SUBSET Frames /\ OneEach(H) /\ H \in SUBSET air
      /\ \A f \in H : f.src # c
  BY CalmCar DEF RideInv, AirOK, OneEach
<1>3. /\ N \in Nat
      /\ \A f \in H : Ranked(H, f) \in 0 .. N - 1
      /\ \A k \in 1 .. N : Nth(H, k) \in H /\ Ranked(H, Nth(H, k)) = k - 1
      /\ \A f, g \in H : Ranked(H, f) = Ranked(H, g) => f = g
  BY <1>2, NthIs
<1>4. Taken(0) = {} /\ Taken(N) = H
  BY <1>3
<1>5. Stage(c, {}, riders[c], sched[c])
  <2>1. CarOK(c, riders[c], sched[c])
    BY <1>2 DEF RideInv, CarsOK, CarOK
  <2>2. RosterAfter(c, {}, riders[c])
    BY DEF RosterAfter
  <2>3. Leasing(c)
    BY CalmCar
  <2>4. Follows(Goal(c), Spares(c), sched[c], sched[c])
    BY <2>3 DEF Follows, Leasing, LeasingAt
  <2> QED BY <2>1, <2>2, <2>3, <2>4 DEF Stage, Leasing
<1>6. base \in M[0]
  <2>1. base \in Good(0)
    <3> DEFINE k == 0
    <3>1. Stage(c, Taken(k), riders[c], sched[c])
      BY <1>4, <1>5
    <3> HIDE DEF k, Taken, Good
    <3>2. base \in Good(k)
      BY <1>1, <3>1
    <3> QED BY <3>2 DEF k
  <2> HIDE DEF Good, base
  <2> QED BY <1>3, <2>1
<1>7. ASSUME NEW k \in 1 .. N, NEW me \in M[k - 1]
      PROVE  Take(c, Nth(H, k), hops, me) \in M[k]
  <2> DEFINE f == Nth(H, k)
             S == Taken(k - 1)
             v == Take(c, f, hops, me)
  <2>1. k \in Nat /\ k - 1 \in 0 .. N /\ k \in 0 .. N
    BY <1>3
  <2>2. f \in H /\ Ranked(H, f) = k - 1
    BY <1>3
  <2>3. S \in SUBSET air /\ f \notin S /\ Taken(k) = S \union {f}
    <3>1. f \notin S /\ f \in Taken(k)
      BY <2>1, <2>2
    <3>2. \A g \in H : Ranked(H, g) < k <=> Ranked(H, g) < k - 1 \/ g = f
      <4>1. \A g \in H : Ranked(H, g) \in Nat
        BY <1>3
      <4> QED BY <1>3, <2>1, <2>2, <4>1
    <3> HIDE DEF f
    <3> QED BY <1>2, <2>2, <3>1, <3>2
  <2>4. Stage(c, S, me.riders, me.sched)
    <3>1. me \in Good(k - 1)
      <4> HIDE DEF Good
      <4> QED BY <1>7, <2>1
    <3> QED BY <3>1
  <2>5. f \in air /\ f.src # c /\ \A g \in S : g.src # c
    BY <1>2, <2>2
  <2> HIDE DEF f, S, V, N, M, base, Good, Taken
  <2> DEFINE x == Take(c, f, 0, me)
  <2>6. Stage(c, S \union {f}, x.riders, x.sched) /\ x = [riders |-> x.riders, sched |-> x.sched]
    <3> HIDE DEF hops
    <3> QED BY <2>3, <2>4, <2>5, TakeStage
  <2>0. x = v
    OBVIOUS
  <2> HIDE DEF x, v
  <2>7. Stage(c, Taken(k), v.riders, v.sched)
    BY <2>0, <2>3, <2>6
  <2>8. [riders |-> v.riders, sched |-> v.sched] \in Good(k)
    BY <1>1, <2>7
  <2>9. v \in Good(k)
    BY <2>0, <2>6, <2>8
  <2>10. M[k] = Good(k)
    BY <2>1 DEF M
  <2>11. v \in M[k]
    BY <2>9, <2>10
  <2> QED BY <2>11 DEF v, f
<1> HIDE DEF hops, Good, N, Taken
<1>8. Drained(c, H, hops) \in M[N]
  <2> HIDE DEF M, base
  <2>1. Cardinality(H) \in Nat
    BY <1>3 DEF N
  <2>2. [riders |-> riders[c], sched |-> sched[c]] \in M[0]
    BY <1>6 DEF base
  <2>3. \A k \in 1 .. Cardinality(H) : \A me \in M[k - 1] : Take(c, Nth(H, k), hops, me) \in M[k]
    BY <1>7 DEF N
  <2>4. Drained(c, H, hops) \in M[Cardinality(H)]
    BY <2>1, <2>2, <2>3, Passes
  <2> QED BY <2>4 DEF N
<1>9. Drained(c, H, hops) \in Good(N)
  <2>1. M[N] = Good(N)
    <3>1. N \in 0 .. N
      BY <1>3
    <3> QED BY <3>1
  <2> QED BY <1>8, <2>1
<1>10. Stage(c, Taken(N), Drained(c, H, hops).riders, Drained(c, H, hops).sched)
  BY <1>9 DEF Good
<1> QED BY <1>4, <1>10 DEF hops


\* Car c has drained its radio of the frames H, all but its own.
DrainsTo(c, H) ==
    /\ c \in on /\ step = "drain" /\ turn = c /\ on' = on /\ feeding' = feeding /\ radio' = radio
    /\ H = {f \in air : f.src # c} /\ EndDrain(c, H)
    /\ \A x \in on \ {c} : riders'[x] = riders[x] /\ sched'[x] = sched[x]
    /\ Stage(c, H, riders'[c], sched'[c])

\* That is what drainRadio does on a calm ride.
LEMMA DrainIs ==
    ASSUME RideInv, Calm, CalmBody, NEW c \in Cars, DrainRadio(c)
    PROVE  \E H : DrainsTo(c, H)
<1>0. step = "drain" /\ turn = c /\ c \in on
  BY DEF DrainRadio, RideInv, ClockOK
<1>1. PICK H \in Hearable(c) : TakeAll(c, H, 0) /\ EndDrain(c, H)
  BY DEF DrainRadio
<1>2. H = {f \in air : f.src # c}
  BY <1>0, AllHeard
<1> DEFINE v == Drained(c, H, 0)
<1>3. Stage(c, H, v.riders, v.sched)
  BY <1>0, <1>2, DrainedStage
<1>4. /\ on' = on /\ feeding' = feeding /\ radio' = radio
      /\ riders' = [riders EXCEPT ![c] = v.riders] /\ sched' = [sched EXCEPT ![c] = v.sched]
  BY <1>1 DEF TakeAll, world
<1> HIDE DEF v
<1>5. /\ riders'[c] = v.riders /\ sched'[c] = v.sched
      /\ \A x \in on \ {c} : riders'[x] = riders[x] /\ sched'[x] = sched[x]
  <2>1. DOMAIN riders = Cars /\ DOMAIN sched = Cars
    BY DEF RideInv, CarsOK
  <2>2. on \in SUBSET Cars
    BY OnFacts DEF RideInv, ClockOK
  <2> QED BY <1>4, <2>1, <2>2
<1>6. Stage(c, H, riders'[c], sched'[c])
  BY <1>3, <1>5
<1>7. DrainsTo(c, H)
  BY <1>0, <1>1, <1>2, <1>4, <1>5, <1>6 DEF DrainsTo
<1> QED BY <1>7

\* The clock and what every pass of a calm ride keeps.
LEMMA DrainOnward ==
    ASSUME RideInv, CalmBody, NEW c \in Cars, NEW H, DrainsTo(c, H)
    PROVE  /\ Onward /\ now \in Nat /\ on \in SUBSET Cars
           /\ now' \in {now, now + 1} /\ (now' # now => air' = {})
           /\ now' = now => air' = air /\ got' = [got EXCEPT ![c] = H]
           /\ \A d \in on : Until(d) = now + 1 /\ Until(d)' = now + 1 /\ now' <= now + 1 /\ now + 1 \in Nat
           /\ \A d \in on : Undrained(d) => d >= c
           /\ \A d \in on : Undrained(d)' /\ air' # {} => d > c
           /\ \A d \in on : d > c => now' = now /\ step' = "drain" /\ turn' <= d /\ Undrained(d)'
           /\ H \in SUBSET air /\ \A f \in H : f.src # c
           /\ \A d \in on : radio[d].sentOnce
<1>0. step = "drain" /\ turn = c /\ EndDrain(c, H) /\ on' = on /\ c \in on
      /\ H \in SUBSET air /\ \A f \in H : f.src # c
  BY DEF DrainsTo
<1>1. /\ now' \in {now, now + 1} /\ (now' # now => air' = {})
      /\ now' = now => air' = air /\ got' = [got EXCEPT ![c] = H]
      /\ \A d \in on : Until(d) = now + 1 /\ Until(d)' = now + 1 /\ now' <= now + 1 /\ now + 1 \in Nat
      /\ \A d \in on : Undrained(d) => d >= c
      /\ \A d \in on : Undrained(d)' /\ air' # {} => d > c
      /\ \A d \in on : d > c => now' = now /\ step' = "drain" /\ turn' <= d /\ Undrained(d)'
  BY <1>0, DrainClock
<1>2. now \in Nat /\ on \in SUBSET Cars
  BY <1>0, CalmCar
<1>3. \A d \in on : radio[d].sentOnce
  <2>1. \A d \in on : FirstBeacon(d)
    BY DEF CalmBody
  <2> QED BY <1>0, <2>1 DEF FirstBeacon
<1>4. \A d \in on :
          /\ sched[d].slot # NoSlot =>
                sched'[d].slot = sched[d].slot /\ sched'[d].leasedAt = sched[d].leasedAt
          /\ sched[d].slot = NoSlot /\ sched'[d].slot # NoSlot =>
                sched'[d].leasedAt = now /\ now >= JoinListen
          /\ radio[d].sentOnce => radio'[d].sentOnce
  <2>1. ASSUME NEW d \in on \ {c} PROVE sched'[d] = sched[d]
    BY <2>1 DEF DrainsTo
  <2>2. Follows(Goal(c), Spares(c), sched[c], sched'[c])
    BY DEF DrainsTo, Stage
  <2>3. radio' = radio
    BY DEF DrainsTo
  <2> QED BY <2>1, <2>2, <2>3 DEF Follows
<1>5. \A x, y \in on : x # y => \A t \in Slots : Lists(y, x, t) => Lists(y, x, t)'
  <2> SUFFICES ASSUME NEW x \in on, NEW y \in on, x # y, NEW t \in Slots, Lists(y, x, t)
               PROVE  Lists(y, x, t)'
    OBVIOUS
  <2>1. CASE y = c
    <3>1. \A d \in DOMAIN riders[c] : riders[c][d].slot \in Slots =>
                d \in DOMAIN riders'[c] /\ riders'[c][d].slot = riders[c][d].slot
      <4> DEFINE r == riders'[c]
      <4>1. RosterAfter(c, H, r)
        BY DEF DrainsTo, Stage
      <4> HIDE DEF r
      <4>2. \A d \in DOMAIN riders[c] : riders[c][d].slot \in Slots =>
                d \in DOMAIN r /\ r[d].slot = riders[c][d].slot
        BY <1>0, <4>1, NoSlotLost
      <4> QED BY <4>2 DEF r
    <3> QED BY <2>1, <3>1 DEF Lists
  <2>2. CASE y # c
    BY <2>2 DEF Lists, DrainsTo
  <2> QED BY <2>1, <2>2
<1>6. Onward
  BY <1>0, <1>1, <1>4, <1>5 DEF Onward
<1> QED BY <1>0, <1>1, <1>2, <1>3, <1>6

\* No beacon becomes late by it.
LEMMA DrainTimely ==
    ASSUME RideInv, CalmBody, NEW c \in Cars, NEW H, DrainsTo(c, H), NEW d \in on
    PROVE  FirstBeacon(d)' /\ Timely(d)' /\ Leasing(d)'
<1>1. /\ Onward /\ now \in Nat /\ on \in SUBSET Cars /\ now' \in {now, now + 1}
      /\ Until(d) = now + 1 /\ Until(d)' = now + 1 /\ now + 1 \in Nat /\ radio[d].sentOnce
  BY DrainOnward
<1>2. radio' = radio /\ on' = on
  BY DEF DrainsTo
<1>3. FirstBeacon(d)'
  BY <1>1, <1>2 DEF FirstBeacon
<1>4. Timely(d) /\ Leasing(d) /\ radio[d] \in Radios /\ Goal(d) \in Slots
  BY CalmCar
<1>5. now >= JoinListen => now' >= JoinListen
  BY <1>1, Numbers
<1>6. CASE d # c
  <2>1. sched'[d] = sched[d] /\ riders'[d] = riders[d]
    BY <1>6 DEF DrainsTo
  <2>2. Timely(d)'
    BY <1>1, <1>2, <1>4, <2>1 DEF Timely
  <2>3. Leasing(d)'
    BY <1>1, <1>2, <1>4, <1>5, <2>1, GoalsKept DEF Leasing
  <2> QED BY <1>3, <2>2, <2>3
<1>7. CASE d = c
  <2> DEFINE s0 == sched[c]
             s == sched'[c]
             b == radio[c]
             k == SlotStart(Goal(c))
  <2>1. /\ Follows(Goal(c), Spares(c), s0, s) /\ s.sharedBlock = s0.sharedBlock
        /\ s.slot # NoSlot => now >= JoinListen /\ DOMAIN riders'[c] # {}
    BY DEF DrainsTo, Stage
  <2>2. TimelyAt(s0, b, now + 1) /\ LeasingAt(Goal(c), Spares(c), s0, b, now + 1)
    BY <1>1, <1>4, <1>7 DEF Timely, Leasing
  <2>3. Second \in Nat \ {0} /\ b.deadline \in Nat /\ k \in 0 .. Second - 1
    BY <1>4, <1>7, Numbers, SlotFacts DEF Radios
  <2>4. TimelyAt(s, b, now + 1)
    <3>1. CASE s.slot = s0.slot
      <4>1. SharedStart(s) = SharedStart(s0)
        BY <2>1 DEF SharedStart
      <4> QED BY <2>2, <3>1, <4>1 DEF TimelyAt
    <3>2. CASE s.slot # s0.slot
      <4>1. s0.slot = NoSlot /\ s.slot = Goal(c)
        BY <2>1, <3>2 DEF Follows
      <4>2. b.sentOnce => now + 1 <= b.deadline + Second - 1
        <5> HIDE DEF b, s0
        <5> QED BY <1>1, <1>4, <1>7, <2>2, <4>1, Late DEF b
      <4>3. b.sentOnce => Comes(k, now + 1, b.deadline + 2 * Second - 1)
        <5> SUFFICES ASSUME b.sentOnce PROVE Comes(k, now + 1, b.deadline + 2 * Second - 1)
          OBVIOUS
        <5>1. now + 1 + Second - 1 <= b.deadline + 2 * Second - 1 /\ b.deadline + 2 * Second - 1 \in Int
          <6> HIDE DEF b
          <6> QED BY <1>1, <2>3, <4>2
        <5> HIDE DEF k, b
        <5> QED BY <1>1, <2>3, <5>1, ComesWithin
      <4>4. s.slot # NoSlot
        BY <3>2, <4>1
      <4> QED BY <2>2, <4>1, <4>3, <4>4 DEF TimelyAt
    <3> QED BY <3>1, <3>2
  <2>5. LeasingAt(Goal(c), Spares(c), s, b, now + 1)
    <3>1. b.announced \in {NoSlot, s.slot}
      BY <2>1, <2>2 DEF LeasingAt, Follows
    <3>2. ASSUME s.slot # NoSlot, b.announced = s.slot
          PROVE  ~Comes(SlotStart(s.slot), now + 1, b.deadline - 1)
      <4>1. s0.slot # NoSlot /\ s0.slot = s.slot /\ b.announced = s0.slot
        BY <2>1, <2>2, <3>2 DEF LeasingAt, Follows
      <4> QED BY <2>2, <4>1 DEF LeasingAt
    <3>3. s.slot # NoSlot =>
            s.slot = Goal(c) /\ s.known > 1 /\ s.heardUs >= s.leasedAt /\ s.extras \subseteq Spares(c)
      BY <2>1 DEF Follows
    <3>4. s.slot = NoSlot => s.extras = {}
      BY <2>1 DEF Follows
    <3> QED BY <3>1, <3>2, <3>3, <3>4 DEF LeasingAt
  <2>6. Timely(c)'
    BY <1>1, <1>2, <1>7, <2>4 DEF Timely
  <2>7. Leasing(c)'
    BY <1>1, <1>2, <1>5, <1>7, <2>1, <2>5, GoalsKept DEF Leasing
  <2> QED BY <1>3, <1>7, <2>6, <2>7
<1> QED BY <1>6, <1>7


\* The rosters after one car has drained its radio.
LEMMA DrainRosters ==
    ASSUME RideInv, RideInv', CalmBody, NEW c \in Cars, NEW H, DrainsTo(c, H), NEW x \in on
    PROVE  Rosters(x)'
<1>1. /\ Onward /\ now \in Nat /\ on \in SUBSET Cars
      /\ now' \in {now, now + 1} /\ (now' # now => air' = {})
      /\ now' = now => air' = air /\ got' = [got EXCEPT ![c] = H]
      /\ \A d \in on : Until(d) = now + 1 /\ Until(d)' = now + 1 /\ now' <= now + 1 /\ now + 1 \in Nat
      /\ \A d \in on : Undrained(d) => d >= c
      /\ \A d \in on : Undrained(d)' /\ air' # {} => d > c
      /\ \A d \in on : d > c => now' = now /\ step' = "drain" /\ turn' <= d /\ Undrained(d)'
      /\ H \in SUBSET air /\ \A f \in H : f.src # c
      /\ \A d \in on : radio[d].sentOnce
  BY DrainOnward
<1>2. /\ radio' = radio /\ on' = on /\ c \in on /\ H = {f \in air : f.src # c}
      /\ \A y \in on \ {c} : riders'[y] = riders[y] /\ sched'[y] = sched[y]
  BY DEF DrainsTo
<1>3. \A d \in on : Timely(d)' /\ FirstBeacon(d)' /\ now' <= Until(d)' /\ Until(d)' \in Nat
  BY <1>1, DrainTimely
<1>4. now' # now => \A y, d \in on : ~Pending(y, d)'
  BY <1>1 DEF Pending
<1>5. CASE x # c
  <2>1. ASSUME NEW d \in on PROVE ~Pending(x, d)' => ~Pending(x, d)
    <3>1. CASE Undrained(x)
      <4>1. x > c
        <5>1. x >= c /\ x \in Nat /\ c \in Nat
          BY <1>1, <3>1, CarFacts
        <5> QED BY <1>5, <5>1
      <4>2. now' = now /\ Undrained(x)' /\ air' = air
        BY <1>1, <4>1
      <4> QED BY <4>2 DEF Pending
    <3>2. CASE ~Undrained(x)
      BY <3>2 DEF Pending
    <3> QED BY <3>1, <3>2
  <2>2. riders'[x] = riders[x]
    BY <1>2, <1>5
  <2>3. \A d \in on \ {x} : ~Pending(x, d)' =>
                /\ ~Pending(x, d) /\ (radio'[d].sentOnce => radio[d].sentOnce)
                /\ radio'[d].deadline = radio[d].deadline
    BY <1>2, <2>1
  <2>4. now' # now => \A d \in on \ {x} : ~Pending(x, d)'
    BY <1>4
  <2> QED BY <1>1, <1>3, <2>2, <2>3, <2>4, RosterKept
<1>6. CASE x = c
  <2> DEFINE r == riders'[c]
  <2>1. RosterAfter(c, H, r) /\ Rosters(c) /\ Second \in Nat /\ Second >= 2
    BY <1>2, CalmCar, Numbers DEF DrainsTo, Stage
  <2>2. \A f \in H : f.src \in on
    BY <1>1 DEF RideInv, AirOK
  <2>3. DOMAIN r \subseteq on'
    <3> HIDE DEF r
    <3> QED BY <1>2, <2>1, <2>2 DEF RosterAfter, Rosters
  <2>4. \A d \in on : ~Pending(c, d)'
    <3>1. ~(Undrained(c)' /\ air' # {})
      <4>1. ~(c > c)
        BY CarFacts
      <4> QED BY <1>1, <1>2, <4>1
    <3> QED BY <3>1 DEF Pending
  <2>5. ASSUME NEW d \in on \ {c}, NEW f \in H, f.src = d PROVE d \in DOMAIN r /\ Heard(c, d)'
    <3>1. d \in DOMAIN r /\ r[d].slot = f.slot /\ r[d].map = f.map /\ r[d].at = now
      BY <2>1, <2>5 DEF RosterAfter
    <3>2. OnAir(f) /\ f.src # c
      BY <1>1 DEF CalmBody
    <3>3. r[d].slot \in {NoSlot, sched'[d].slot}
      BY <1>2, <2>5, <3>1, <3>2 DEF OnAir
    <3>4. r[d].at > now' - 3 * Second
      BY <1>1, <2>1, <3>1
    <3>5. radio'[d].sentOnce /\ r[d].at + Second >= radio'[d].deadline
      <4>1. radio[d].deadline <= now + Second
        BY <1>1 DEF RideInv, CarsOK
      <4>2. radio[d].deadline \in Nat
        BY <1>1 DEF RideInv, CarsOK, Radios
      <4> QED BY <1>1, <1>2, <2>1, <3>1, <4>1, <4>2
    <3>6. \A t \in Slots : r[d].map[t] # 0 => Announced(t)'
      BY <1>1, <3>1, <3>2, AnnouncedStays DEF OnAir
    <3>7. ASSUME sched'[c].slot # NoSlot, r[d].at > sched'[c].leasedAt + Second
          PROVE  r[d].map[sched'[c].slot] = Tag[c]
      <4>1. sched[c].slot # NoSlot
        <5>1. sched[c].slot = NoSlot => sched'[c].leasedAt = now
          BY <1>1, <1>2, <3>7 DEF Onward
        <5>2. ~(now > now + Second)
          BY <1>1, <2>1
        <5> QED BY <3>1, <3>7, <5>1, <5>2
      <4>2. sched'[c].slot = sched[c].slot /\ sched'[c].leasedAt = sched[c].leasedAt
        BY <1>1, <1>2, <4>1 DEF Onward
      <4> QED BY <1>2, <3>1, <3>2, <3>7, <4>1, <4>2 DEF OnAir
    <3> QED BY <3>1, <3>3, <3>4, <3>5, <3>6, <3>7 DEF Heard
  <2>6. ASSUME NEW d \in on \ {c}, \A f \in H : f.src # d
        PROVE  IF d \in DOMAIN r THEN Heard(c, d)' ELSE Unknown(c, d)'
    <3>1. d \in DOMAIN r <=> d \in DOMAIN riders[c]
      BY <2>1, <2>6 DEF RosterAfter
    <3>2. d \in DOMAIN riders[c] => r[d] = riders[c][d]
      BY <2>1, <2>6 DEF RosterAfter
    <3>3. ~Pending(c, d)
      <4>1. \A f \in air : f.src # d
        BY <1>2, <2>6
      <4> QED BY <4>1 DEF Pending
    <3>4. Timely(d)' /\ FirstBeacon(d)' /\ now' <= Until(d)' /\ Until(d)' \in Nat
      BY <1>3
    <3>5. ~Pending(c, d)' =>
                /\ ~Pending(c, d) /\ (radio'[d].sentOnce => radio[d].sentOnce)
                /\ radio'[d].deadline = radio[d].deadline
      BY <1>2, <3>3
    <3>6. now' # now => ~Pending(c, d)'
      BY <1>4, <1>2
    <3> QED BY <1>1, <1>2, <3>1, <3>2, <3>4, <3>5, <3>6, EntryKept
  <2>7. ASSUME NEW d \in on' \ {c}
        PROVE  IF d \in DOMAIN r THEN Heard(c, d)' ELSE Unknown(c, d)'
    <3>1. CASE \E f \in H : f.src = d
      <4>1. PICK f \in H : f.src = d
        BY <3>1
      <4> QED BY <1>2, <2>5, <2>7, <4>1
    <3>2. CASE \A f \in H : f.src # d
      BY <1>2, <2>6, <2>7, <3>2
    <3> QED BY <3>1, <3>2
  <2> QED BY <1>6, <2>3, <2>7 DEF Rosters
<1> QED BY <1>5, <1>6


\* A frame on its way to a car stays so, or the car has it now.
LEMMA DrainReaches ==
    ASSUME RideInv, CalmBody, NEW c \in Cars, NEW H, DrainsTo(c, H),
           NEW y \in on, NEW z \in on, y # z, NEW t \in Slots, Reaching(y, z, t)
    PROVE  Lists(y, z, t)' \/ Reaching(y, z, t)'
<1>1. /\ now' = now => air' = air
      /\ \A d \in on : d > c => now' = now /\ step' = "drain" /\ turn' <= d
  BY DrainOnward
<1>2. turn = c /\ y \in Nat /\ c \in Nat /\ y >= c
  BY CalmCar, CarFacts DEF DrainsTo, Reaching
<1>3. CASE y > c
  <2>1. step' = "drain" /\ turn' <= y /\ air' = air
    BY <1>1, <1>3
  <2> QED BY <2>1 DEF Reaching
<1>4. CASE y = c
  <2>1. PICK f \in air : f.src = z /\ f.slot = t
    BY DEF Reaching
  <2>2. f \in H
    BY <1>4, <2>1 DEF DrainsTo
  <2>3. RosterAfter(c, H, riders'[c])
    BY DEF DrainsTo, Stage
  <2> QED BY <1>4, <2>1, <2>2, <2>3 DEF RosterAfter, Lists
<1> QED BY <1>2, <1>3, <1>4

\* A lease on a frame has reached every car, or will in this slot.
LEMMA DrainSpreads ==
    ASSUME RideInv, CalmBody, NEW c \in Cars, NEW H, DrainsTo(c, H),
           NEW f \in H, f.slot \in Slots
    PROVE  /\ f.src \in on \ {c} /\ sched'[f.src].slot = f.slot
           /\ \A y \in on \ {f.src} : Lists(y, f.src, f.slot)' \/ Reaching(y, f.src, f.slot)'
<1>1. f \in air /\ f.src \in on \ {c} /\ OnAir(f) /\ step = "drain" /\ turn = c /\ on \in SUBSET Cars
  BY OnFacts DEF DrainsTo, CalmBody, RideInv, AirOK, ClockOK
<1>2. sched'[f.src].slot = f.slot
  <2>1. sched[f.src].slot = f.slot /\ f.slot # NoSlot
    BY <1>1, Numbers DEF OnAir
  <2>2. Onward
    BY DrainOnward
  <2> QED BY <1>1, <2>1, <2>2 DEF Onward
<1>3. ASSUME NEW y \in on \ {f.src}
      PROVE  Lists(y, f.src, f.slot)' \/ Reaching(y, f.src, f.slot)'
  <2>1. CASE y < c
    <3>1. ~Undrained(y)
      <4>1. y \in Nat /\ c \in Nat
        BY <1>1, CarFacts
      <4> QED BY <1>1, <2>1, <4>1 DEF Undrained
    <3>2. Lists(y, f.src, f.slot)
      BY <1>1, <3>1 DEF OnAir
    <3>3. Onward
      BY DrainOnward
    <3> QED BY <1>1, <3>2, <3>3 DEF Onward
  <2>2. CASE ~(y < c)
    <3>1. c <= y
      BY <1>1, <2>2, CarFacts
    <3>2. Reaching(y, f.src, f.slot)
      BY <1>1, <3>1 DEF Reaching
    <3> QED BY <1>1, <3>2, DrainReaches
  <2> QED BY <2>1, <2>2
<1> QED BY <1>1, <1>2, <1>3

\* A link record made in it shows a lease all others have, or get in this slot.
LEMMA DrainLinks ==
    ASSUME RideInv, CalmBody, NEW c \in Cars, NEW H, DrainsTo(c, H), NEW x \in on
    PROVE  Links(x)'
<1>1. Onward /\ c \in on /\ on' = on
  BY DrainOnward DEF DrainsTo
<1>2. \A y, z \in on : y # z => \A t \in Slots :
          Reaching(y, z, t) => Lists(y, z, t)' \/ Reaching(y, z, t)'
  BY DrainReaches
<1>3. CASE x # c
  <2>1. sched'[x].heard = sched[x].heard
    BY <1>3 DEF DrainsTo
  <2> QED BY <1>1, <1>2, <2>1, LinksKept
<1>4. CASE x = c
  <2>1. ASSUME NEW t \in Slots, sched'[c].heard[t].tag # 0
        PROVE  \E z \in on \ {c} : /\ sched'[z].slot = t
                                   /\ \A y \in on \ {z} : Lists(y, z, t)' \/ Reaching(y, z, t)'
    <3>1. CASE \E f \in H : f.slot = t
      <4>1. PICK f \in H : f.slot = t
        BY <3>1
      <4> QED BY <2>1, <4>1, DrainSpreads
    <3>2. CASE \A f \in H : f.slot # t
      <4>1. sched'[c].heard[t] = sched[c].heard[t]
        BY <2>1, <3>2 DEF DrainsTo, Stage
      <4>2. Links(c)
        BY <1>1, CalmCar
      <4>3. PICK z \in on \ {c} : /\ sched[z].slot = t
                                  /\ \A y \in on \ {z} : Lists(y, z, t) \/ Reaching(y, z, t)
        BY <2>1, <4>1, <4>2 DEF Links
      <4>4. sched'[z].slot = t
        BY <1>1, <2>1, <4>3, Numbers DEF Onward
      <4>5. \A y \in on \ {z} : Lists(y, z, t)' \/ Reaching(y, z, t)'
        BY <1>1, <1>2, <2>1, <4>3 DEF Onward
      <4> QED BY <4>4, <4>5
    <3> QED BY <3>1, <3>2
  <2> QED BY <1>1, <1>4, <2>1 DEF Links
<1> QED BY <1>3, <1>4

\* A lease beacon of this slot is on the link record of every car that drained.
LEMMA DrainShown ==
    ASSUME RideInv, CalmBody, NEW c \in Cars, NEW H, DrainsTo(c, H), NEW x \in on, NEW d \in on \ {x}
    PROVE  Shown(x, d)'
<1>1. /\ Onward /\ now \in Nat /\ on \in SUBSET Cars /\ c \in on
      /\ now' = now => air' = air
      /\ \A y \in on : Until(y) = now + 1 /\ Until(y)' = now + 1
      /\ \A y \in on : Undrained(y) => y >= c
      /\ \A y \in on : y > c => now' = now /\ Undrained(y)'
  BY DrainOnward DEF DrainsTo
<1>2. Until(x)' = Until(x) /\ Until(x)' - 1 = now
  BY <1>1
<1>3. CASE sched'[x].slot # sched[x].slot
  <2>1. sched'[x].slot # NoSlot => sched'[x].leasedAt = now
    BY <1>1, <1>3 DEF Onward
  <2>2. sched'[x].slot # NoSlot => sched'[x].leasedAt + 1 .. Until(x)' - 1 = {}
    BY <1>1, <1>2, <2>1
  <2> QED BY <2>2 DEF Shown
<1>4. CASE sched'[x].slot = sched[x].slot /\ d # c
  <2>1. sched'[d].heard = sched[d].heard
    BY <1>4 DEF DrainsTo
  <2>2. ASSUME Undrained(d) PROVE now' = now /\ Undrained(d)' /\ air \subseteq air'
    <3>1. d > c
      <4>1. d >= c /\ d \in Nat /\ c \in Nat
        BY <1>1, <2>2, CarFacts
      <4> QED BY <1>4, <4>1
    <3> QED BY <1>1, <3>1
  <2> QED BY <1>1, <1>2, <1>4, <2>1, <2>2, ShownKept
<1>5. CASE sched'[x].slot = sched[x].slot /\ d = c
  <2> DEFINE t == sched[x].slot
  <2>1. x # c /\ sched'[x] = sched[x]
    BY <1>5 DEF DrainsTo
  <2> SUFFICES ASSUME t # NoSlot, NEW m \in sched[x].leasedAt + 1 .. now, m % Second = SlotStart(t)
               PROVE  sched'[c].heard[t].tag = Tag[x] /\ sched'[c].heard[t].at >= m
    BY <1>2, <1>5, <2>1 DEF Shown
  <2>2. t \in Slots /\ sched[x].leasedAt \in Nat /\ t = Goal(x)
    <3>1. Leasing(x)
      BY CalmCar
    <3>2. sched[x] \in Scheds
      BY <1>1 DEF RideInv, CarsOK
    <3> QED BY <1>1, <3>1, <3>2, Goals DEF Scheds, Leasing, LeasingAt
  <2>3. m <= now /\ m \in Nat
    BY <1>1, <2>2
  <2>4. \/ sched[c].heard[t].tag = Tag[x] /\ sched[c].heard[t].at >= m
        \/ \E f \in air : f.src = x /\ f.slot = t /\ f.kind # "extra"
    <3>1. Shown(x, c)
      BY <1>5 DEF CalmBody
    <3>2. m \in sched[x].leasedAt + 1 .. Until(x) - 1
      BY <1>2
    <3> QED BY <3>1, <3>2 DEF Shown
  <2>5. CASE \E f \in H : f.slot = t /\ f.kind # "extra"
    <3>1. PICK f \in H : f.slot = t /\ f.kind # "extra"
      BY <2>5
    <3>2. sched'[c].heard[t].tag = Tag[f.src] /\ sched'[c].heard[t].at = now
      BY <3>1 DEF DrainsTo, Stage
    <3>3. f.src \in on /\ sched[f.src].slot = t
      <4>1. f \in air
        BY DEF DrainsTo
      <4> QED BY <3>1, <4>1 DEF RideInv, AirOK, CalmBody, OnAir
    <3>4. Goal(f.src) = t
      <4>1. Leasing(f.src)
        BY <3>3, CalmCar
      <4> QED BY <3>3, <4>1 DEF Leasing, LeasingAt
    <3>5. f.src = x
      BY <1>1, <2>2, <3>3, <3>4, Goals
    <3> QED BY <1>1, <2>3, <3>2, <3>5
  <2>6. CASE \A f \in H : f.slot = t => f.kind = "extra"
    <3>1. sched'[c].heard[t] = sched[c].heard[t]
      BY <2>2, <2>6 DEF DrainsTo, Stage
    <3>2. ~ \E f \in air : f.src = x /\ f.slot = t /\ f.kind # "extra"
      BY <2>1, <2>6 DEF DrainsTo
    <3> QED BY <2>4, <3>1, <3>2
  <2> QED BY <2>5, <2>6
<1> QED BY <1>3, <1>4, <1>5

\* And the frames on the air have reached all that drained.
LEMMA DrainAir ==
    ASSUME RideInv, RideInv', CalmBody, NEW c \in Cars, NEW H, DrainsTo(c, H), NEW f \in air'
    PROVE  OnAir(f)'
<1>1. /\ Onward /\ on \in SUBSET Cars /\ c \in on /\ on' = on
      /\ now' \in {now, now + 1} /\ (now' # now => air' = {})
      /\ now' = now => air' = air /\ got' = [got EXCEPT ![c] = H]
      /\ \A y \in on : Undrained(y) => y >= c
      /\ \A y \in on : y > c => Undrained(y)'
  BY DrainOnward DEF DrainsTo
<1>2. now' = now /\ f \in air /\ got' = [got EXCEPT ![c] = H]
  BY <1>1
<1>3. OnAir(f) /\ f.src \in on
  BY <1>2 DEF CalmBody, RideInv, AirOK
<1>4. f.src # c => f \in H
  BY <1>2 DEF DrainsTo
<1>5. RosterAfter(c, H, riders'[c]) /\ \A y \in on \ {c} : riders'[y] = riders[y]
  BY DEF DrainsTo, Stage
<1>6. ASSUME NEW y \in on, f.slot = NoSlot, f.src \in DOMAIN riders'[y]
      PROVE  riders'[y][f.src].slot = NoSlot
  <2>1. CASE y # c
    BY <1>3, <1>5, <1>6, <2>1 DEF OnAir
  <2>2. CASE y = c
    <3>1. c \notin DOMAIN riders'[c]
      BY <1>1 DEF RideInv, CarsOK, CarOK, CarAt, RosterOK
    <3>2. f \in H
      BY <1>4, <1>6, <2>2, <3>1
    <3> QED BY <1>5, <1>6, <2>2, <3>2 DEF RosterAfter
  <2> QED BY <2>1, <2>2
<1>7. ASSUME NEW y \in on \ {f.src}, ~Undrained(y)'
      PROVE  f \in got'[y] /\ Lists(y, f.src, f.slot)'
  <2>1. y \in Nat /\ c \in Nat /\ c \in Cars /\ DOMAIN got = Cars
    BY <1>1, CarFacts DEF RideInv, AirOK
  <2>2. CASE y = c
    <3>1. f \in H
      BY <1>4, <1>7, <2>2
    <3>2. got'[c] = H
      BY <1>2, <2>1
    <3> QED BY <1>5, <2>2, <3>1, <3>2 DEF RosterAfter, Lists
  <2>3. CASE y # c
    <3>1. ~Undrained(y)
      BY <1>1, <1>7, <2>1, <2>3
    <3>2. f \in got[y] /\ Lists(y, f.src, f.slot)
      BY <1>3, <1>7, <3>1 DEF OnAir
    <3>3. got'[y] = got[y] /\ riders'[y] = riders[y]
      BY <1>2, <1>5, <2>1, <2>3
    <3> QED BY <3>2, <3>3 DEF Lists
  <2> QED BY <2>2, <2>3
<1> QED BY <1>1, <1>2, <1>6, <1>7, OnAirKept

\* So drainRadio leaves a calm ride calm.
LEMMA DrainCalm ==
    ASSUME RideInv, RideInv', Calm, CalmBody, NEW c \in Cars, DrainRadio(c)
    PROVE  CalmBody'
<1>1. PICK H : DrainsTo(c, H)
  BY DrainIs
<1>2. on' = on /\ feeding' = Cars
  BY <1>1 DEF DrainsTo, CalmBody
<1>3. \A d \in on : FirstBeacon(d)' /\ Timely(d)' /\ Leasing(d)' /\ Rosters(d)' /\ Links(d)'
  BY <1>1, DrainTimely, DrainRosters, DrainLinks
<1>4. \A x \in on : \A d \in on \ {x} : Shown(x, d)'
  BY <1>1, DrainShown
<1>5. \A f \in air' : OnAir(f)'
  BY <1>1, DrainAir
<1> QED BY <1>2, <1>3, <1>4, <1>5 DEF CalmBody

-----------------------------------------------------------------------------
(* Leases stay apart.                                                      *)

\* A ride starts calm,
LEMMA CalmStart == Init => CalmBody
<1> SUFFICES ASSUME Init PROVE CalmBody
  OBVIOUS
<1>1. /\ step = "beacon" /\ now = 0 /\ turn = Min(on) /\ air = {} /\ feeding = Cars
      /\ on \in SUBSET Cars /\ on # {}
      /\ JoinListen \in Nat /\ Second \in Nat /\ JoinListen >= 2 * Second /\ Second >= 2
  <2>1. ride \in Rides /\ on \in StartOn[ride]
    BY DEF Init
  <2>2. on \in SUBSET Cars /\ on # {}
    BY <2>1, BoundsFacts
  <2> QED BY <2>2, Numbers, LeaseAssumption DEF Init
<1>2. \A d \in on : sched[d] = FreshSchedule /\ riders[d] = << >> /\ radio[d] = FreshRadio
  BY <1>1 DEF Init
<1>3. /\ FreshSchedule.slot = NoSlot /\ FreshSchedule.extras = {}
      /\ (\A t \in Slots : FreshSchedule.heard[t].tag = 0)
      /\ ~FreshRadio.want /\ ~FreshRadio.sentOnce /\ FreshRadio.announced = NoSlot
      /\ DOMAIN << >> = {}
  BY DEF FreshSchedule, FreshRadio, NeverHeard
<1>4. \A d \in on : turn <= d
  BY <1>1, MinIs, CarFacts
<1> HIDE DEF FreshSchedule, FreshRadio
<1>5. ASSUME NEW d \in on PROVE FirstBeacon(d) /\ Timely(d) /\ Leasing(d)
  <2>1. FirstBeacon(d)
    BY <1>1, <1>2, <1>3, <1>4 DEF FirstBeacon
  <2>2. Timely(d)
    BY <1>2, <1>3 DEF Timely, TimelyAt
  <2>3. Leasing(d)
    BY <1>2, <1>3 DEF Leasing, LeasingAt
  <2> QED BY <2>1, <2>2, <2>3
<1>6. ASSUME NEW x \in on PROVE Rosters(x) /\ Links(x)
  <2>1. now <= JoinListen - 2
    BY <1>1
  <2>2. \A d \in on : Unknown(x, d)
    BY <1>2, <1>3, <2>1 DEF Unknown
  <2>3. DOMAIN riders[x] = {}
    BY <1>2, <1>3
  <2>4. Rosters(x)
    BY <2>2, <2>3 DEF Rosters
  <2>5. Links(x)
    BY <1>2, <1>3 DEF Links
  <2> QED BY <2>4, <2>5
<1>7. \A x \in on : \A d \in on \ {x} : Shown(x, d)
  BY <1>2, <1>3 DEF Shown
<1> QED BY <1>1, <1>5, <1>6, <1>7 DEF CalmBody

\* stays so while nothing happens,
LEMMA IdleCalm == ASSUME CalmBody, UNCHANGED vars PROVE CalmBody'
<1>1. /\ ride' = ride /\ now' = now /\ step' = step /\ turn' = turn /\ on' = on /\ feeding' = feeding
      /\ sched' = sched /\ riders' = riders /\ radio' = radio /\ air' = air /\ got' = got
  BY DEF vars, clock, world
<1>2. \A c : Goal(c)' = Goal(c) /\ Spares(c)' = Spares(c)
  BY <1>1, GoalsKept
<1>3. \A c : /\ Until(c)' = Until(c) /\ (Undrained(c)' <=> Undrained(c))
             /\ \A d : Pending(c, d)' <=> Pending(c, d)
  BY <1>1 DEF Until, Undrained, Pending
<1>4. \A t : Announced(t)' <=> Announced(t)
  BY <1>1 DEF Announced, Lists
<1>5. ASSUME NEW c \in on
      PROVE  /\ FirstBeacon(c)' <=> FirstBeacon(c)
             /\ Timely(c)' <=> Timely(c)
             /\ Leasing(c)' <=> Leasing(c)
             /\ Links(c)' <=> Links(c)
  <2>1. FirstBeacon(c)' <=> FirstBeacon(c)
    BY <1>1 DEF FirstBeacon
  <2>2. Timely(c)' <=> Timely(c)
    BY <1>1, <1>3 DEF Timely
  <2>3. Leasing(c)' <=> Leasing(c)
    BY <1>1, <1>2, <1>3 DEF Leasing
  <2>4. Links(c)' <=> Links(c)
    BY <1>1 DEF Links, Lists, Reaching
  <2> QED BY <2>1, <2>2, <2>3, <2>4
<1>6. ASSUME NEW c \in on PROVE Rosters(c)' <=> Rosters(c)
  <2>1. \A d \in on : (Heard(c, d)' <=> Heard(c, d)) /\ (Unknown(c, d)' <=> Unknown(c, d))
    BY <1>1, <1>3, <1>4 DEF Heard, Unknown
  <2> QED BY <1>1, <2>1 DEF Rosters
<1>7. \A c, d \in on : Shown(c, d)' <=> Shown(c, d)
  BY <1>1, <1>3 DEF Shown
<1>8. ASSUME NEW f \in air PROVE OnAir(f)' <=> OnAir(f)
  BY <1>1, <1>2, <1>3, <1>4 DEF OnAir, Lists
<1> QED BY <1>1, <1>5, <1>6, <1>7, <1>8 DEF CalmBody

\* and with every step that loses nothing and takes no car away.
LEMMA CalmKept ==
    ASSUME RideInv, RideInv', CalmInv, [Next]_vars
    PROVE  CalmInv'
<1> SUFFICES ASSUME Calm' PROVE CalmBody'
  BY DEF CalmInv
<1>1. ASSUME ride' = ride, links' = links, faults' = faults, events' = events
      PROVE  Calm /\ CalmBody
  <2>1. Calm
    BY <1>1 DEF Calm, Together, PoweredTogether
  <2> QED BY <2>1 DEF CalmInv
<1>2. faults' = 0 /\ events' = 0 /\ faults \in Nat /\ events \in Nat
  BY BoundsFacts DEF Calm, Together, RideInv, ClockOK
<1>3. ~Event
  BY <1>2 DEF Event
<1>4. ASSUME NEW c \in Cars, Pass(c) PROVE CalmBody'
  <2>1. CASE NoBeacon(c)
    <3>1. c \notin feeding /\ ride' = ride /\ links' = links /\ faults' = faults /\ events' = events
      BY <2>1 DEF NoBeacon, EndBeacon, world
    <3> QED BY <1>1, <3>1 DEF CalmBody
  <2>2. CASE SendExtraBeacon(c)
    <3>1. ride' = ride /\ links' = links /\ faults' = faults /\ events' = events
      BY <2>2 DEF SendExtraBeacon, EndBeacon, world
    <3> QED BY <1>1, <2>2, <3>1, ExtraCalm
  <2>3. CASE HoldBeacon(c)
    <3>1. ride' = ride /\ links' = links /\ faults' = faults /\ events' = events
      BY <2>3 DEF HoldBeacon, EndBeacon, world
    <3> QED BY <1>1, <2>3, <3>1, HoldCalm
  <2>4. CASE SendBeacon(c)
    <3>1. ride' = ride /\ links' = links /\ faults' = faults /\ events' = events
      BY <2>4 DEF SendBeacon, EndBeacon, world
    <3> QED BY <1>1, <2>4, <3>1, SendCalm
  <2>5. CASE DrainRadio(c)
    <3>1. ride' = ride /\ links' = links /\ faults' = faults /\ events' = events
      BY <2>5 DEF DrainRadio, TakeAll, world
    <3> QED BY <1>1, <2>5, <3>1, DrainCalm
  <2>6. CASE HearForwards(c)
    <3>1. ride' = ride /\ links' = links /\ faults' = faults /\ events' = events
      BY <2>6 DEF HearForwards, TakeAll, world
    <3> QED BY <1>1, <2>6, <3>1, ForwardsCalm
  <2>7. CASE RefuseBeacon(c) \/ LoseFrame(c) \/ LoseForwards(c)
    <3>1. faults' = faults + 1
      BY <2>7 DEF RefuseBeacon, LoseFrame, LoseForwards
    <3> QED BY <1>2, <3>1
  <2> QED BY <1>4, <2>1, <2>2, <2>3, <2>4, <2>5, <2>6, <2>7 DEF Pass
<1>5. ASSUME NEW c \in Cars, SwitchOn(c) PROVE CalmBody'
  <2>1. ride' = ride /\ links' = links /\ faults' = faults /\ events' = events
    BY <1>5 DEF SwitchOn
  <2> QED BY <1>1, <1>5, <2>1, PowerCalm
<1>6. ASSUME NEW c \in Cars, SwitchOff(c) \/ FixChanges(c) \/ Move PROVE FALSE
  BY <1>3, <1>6 DEF SwitchOff, FixChanges, Move
<1>7. ~Move
  BY <1>3 DEF Move
<1>8. ASSUME UNCHANGED vars PROVE CalmBody'
  <2>1. ride' = ride /\ links' = links /\ faults' = faults /\ events' = events
    BY <1>8 DEF vars, world
  <2> QED BY <1>1, <1>8, <2>1, IdleCalm
<1> QED BY <1>4, <1>5, <1>6, <1>7, <1>8 DEF Next

\* A calm ride stays in order: the inductive invariant of the two theorems below.
THEOREM CalmHolds == Spec => []CalmInv
<1>1. Init => CalmInv
  BY CalmStart DEF CalmInv
<1>2. RideInv /\ RideInv' /\ CalmInv /\ [Next]_vars => CalmInv'
  BY CalmKept
<1> QED BY <1>1, <1>2, RideShape, PTL DEF Spec

\* Each car leases its own slot of the queue.
LEMMA CalmApart == RideInv /\ CalmInv => (PoweredTogether => LeasesApart)
<1> SUFFICES ASSUME RideInv, CalmInv, PoweredTogether, Together PROVE NoSlotShared
  BY DEF LeasesApart
<1>1. CalmBody
  BY DEF CalmInv, Calm
<1>2. on \in SUBSET Cars
  BY DEF RideInv, ClockOK
<1>3. \A c \in on : sched[c].slot # NoSlot => sched[c].slot = Goal(c)
  BY <1>1 DEF CalmBody, Leasing, LeasingAt
<1> QED BY <1>2, <1>3, Goals DEF NoSlotShared, Leased

\* Its extras are its own as well.
LEMMA CalmAir == RideInv /\ CalmInv => (PoweredTogether => ScheduledAirClear)
<1> SUFFICES ASSUME RideInv, CalmInv, PoweredTogether, Together,
                    NEW f \in air, NEW g \in air, f # g
             PROVE  ~(Scheduled(f) /\ Scheduled(g))
  BY DEF ScheduledAirClear
<1>1. CalmBody
  BY DEF CalmInv, Calm
<1> QED BY <1>1, AirClear

\* While every car hears every other, nothing is lost and the last car is on
\* at least two seconds before the first may claim, no two cars ever lease one
\* slot, on the air at once or not (settleLease, claim).
THEOREM RideApart == Spec => [](PoweredTogether => LeasesApart)
BY CalmHolds, RideShape, CalmApart, PTL

\* On such a ride no lease beacon or extra position ever meets another on the
\* air (planExtras).
THEOREM RideAirClear == Spec => [](PoweredTogether => ScheduledAirClear)
BY CalmHolds, RideShape, CalmAir, PTL
=============================================================================

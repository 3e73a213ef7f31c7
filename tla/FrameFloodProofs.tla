-------------------------- MODULE FrameFloodProofs --------------------------
(***************************************************************************)
(* No car takes a frame twice: proved for every ride, table size, number   *)
(* of hops, wait and stall that meets WindowAssumption.                    *)
(*                                                                         *)
(* The argument: a copy on its way with so many hops left is at most so    *)
(* late (Timely), so none is left Life after the frame was sent.  Until    *)
(* then the table of a car that took it has its entry: it has not expired, *)
(* as Life <= Ttl, and is not evicted, as every live entry is of a recent  *)
(* frame and no more of those are about than the table holds               *)
(* (Remembered).                                                           *)
(*                                                                         *)
(* From that it follows that a car puts a frame on the air once, so that   *)
(* the copies a car has counted are of as many others (Story): a frame is  *)
(* carried on over every link, or there is a reason why not, and a forward *)
(* is given up only when it is covered.                                    *)
(***************************************************************************)
EXTENDS FrameFlood, FiniteSetTheorems, SequenceTheorems, TLAPS

\* How late a copy with so many hops left may be.
Late(hops) == (Hops - hops) * Hop

\* A copy in a queue, and one held, are of a frame sent, and in time.
RxTimely ==
    \A c \in Cars : \A i \in 1 .. Len(rx[c]) :
        LET e == rx[c][i]
        IN  /\ e.frame \in sent
            /\ e.at <= now /\ now <= e.at + Stall
            /\ born[e.frame] <= e.at /\ e.at <= born[e.frame] + Late(e.hops)

HeldTimely ==
    \A c \in Cars : \A h \in held[c] :
        /\ h.frame \in sent
        /\ now <= h.due + Stall
        /\ h.due + Stall <= born[h.frame] + Late(h.hops)

Timely == (\A f \in sent : born[f] <= now) /\ RxTimely /\ HeldTimely

\* Entries are of frames sent, made while their copies were about.
EntriesRecent ==
    \A c \in Cars, f \in Frames :
        seen[c][f].count > 0 => f \in sent /\ seen[c][f].at <= born[f] + Life

\* What a car took it took once, and has in its table while copies are about.
TakenKnown ==
    \A c \in Cars, f \in Frames : taken[c][f] > 0 =>
        /\ f \in sent /\ taken[c][f] = 1
        /\ now <= born[f] + Life => seen[c][f].count > 0 /\ born[f] <= seen[c][f].at

TableHolds == Cardinality(Recent) <= SeenSlots

Remembered == EntriesRecent /\ TakenKnown /\ TableHolds

IInv == TypeOK /\ Timely /\ Remembered

LEMMA Numbers ==
    /\ Hops \in Nat /\ SuppressAfter \in Nat /\ Ttl \in Nat /\ SeenSlots \in Nat
    /\ RxDepth \in Nat /\ Budget \in Nat /\ MaxWait \in Nat /\ StallFrom \in Nat
    /\ Stall \in Nat /\ Stall > 0
  BY FloodAssumption DEF FloodAssumption

-----------------------------------------------------------------------------
(* Arithmetic of lateness. *)

LEMMA HopNat == Hop \in Nat /\ Life \in Nat /\ Life = Hops * Hop + Stall
  BY Numbers DEF Hop, Life

\* Every hop adds as much, and all of them together are within Life.
LEMMA LateSteps ==
    ASSUME NEW hops \in 0 .. Hops
    PROVE  /\ Late(hops) \in Nat
           /\ Late(hops) + Stall <= Life
           /\ hops > 0 => Late(hops - 1) = Late(hops) + Hop
<1> DEFINE H == Hop
<1> USE Numbers
<1>1. H \in Nat /\ Life = Hops * H + Stall
  BY HopNat
<1>2. (Hops - hops) * H \in Nat /\ Hops * H = (Hops - hops) * H + hops * H
      /\ hops * H \in Nat
  BY <1>1 DEF Hop
<1>3. (Hops - (hops - 1)) * H = (Hops - hops) * H + H
  BY <1>1
<1> HIDE DEF H
<1> QED
  BY <1>1, <1>2, <1>3 DEF Late, H

LEMMA LateAtHome == Late(Hops) = 0
  BY Numbers, HopNat DEF Late

-----------------------------------------------------------------------------
(* Helpers. *)

\* The air leaves in a queue what was in it, and at most one copy more.
LEMMA BroadcastAdds ==
    ASSUME TypeOK, NEW from \in Cars, NEW f \in Frames, NEW hops \in 0 .. Hops,
           Broadcast(from, f, hops)
    PROVE  /\ rx' \in [Cars -> Seq(Copy)] /\ lost' \in Nat
           /\ missed' \subseteq Cars \X Frames
           /\ \A d \in Cars : Len(rx'[d]) <= RxDepth
           /\ \A d \in Cars : \A i \in 1 .. Len(rx'[d]) :
                 \/ rx'[d][i] = [frame |-> f, hops |-> hops, from |-> from, at |-> now]
                 \/ i \in 1 .. Len(rx[d]) /\ rx'[d][i] = rx[d][i]
<1> DEFINE copy == [frame |-> f, hops |-> hops, from |-> from, at |-> now]
           reach == {d \in Cars : <<from, d>> \in Links}
<1>1. PICK deaf \in SUBSET reach :
          LET in == {d \in reach \ deaf : Len(rx[d]) < RxDepth}
          IN  /\ lost' = lost + Cardinality(deaf)
              /\ rx' = [d \in Cars |-> IF d \in in THEN Append(rx[d], copy) ELSE rx[d]]
              /\ missed' = missed \union {<<d, f>> : d \in reach \ in}
  BY Zenon DEF Broadcast
<1> DEFINE in == {d \in reach \ deaf : Len(rx[d]) < RxDepth}
<1>2. lost' \in Nat
  <2>1. IsFiniteSet(deaf)
    BY FloodAssumption, FS_Subset DEF FloodAssumption
  <2>2. Cardinality(deaf) \in Nat
    BY <2>1, FS_CardinalityType
  <2>3. lost' = lost + Cardinality(deaf) /\ lost \in Nat
    BY <1>1 DEF TypeOK
  <2> QED
    BY <2>2, <2>3
<1>3. copy \in Copy
  BY DEF Copy, TypeOK
<1>4. missed' \subseteq Cars \X Frames
  <2>1. missed' = missed \union {<<d, f>> : d \in reach \ in} /\ missed \subseteq Cars \X Frames
    BY <1>1 DEF TypeOK
  <2>2. {<<d, f>> : d \in reach \ in} \subseteq Cars \X Frames
    <3> SUFFICES ASSUME NEW d \in reach \ in PROVE <<d, f>> \in Cars \X Frames
      BY Zenon
    <3> QED
      OBVIOUS
  <2> HIDE DEF reach, in
  <2> QED
    BY <2>1, <2>2
<1>5. ASSUME NEW d \in Cars
      PROVE  /\ rx'[d] \in Seq(Copy) /\ Len(rx'[d]) <= RxDepth
             /\ \A i \in 1 .. Len(rx'[d]) :
                   rx'[d][i] = copy \/ (i \in 1 .. Len(rx[d]) /\ rx'[d][i] = rx[d][i])
  <2>1. rx[d] \in Seq(Copy) /\ Len(rx[d]) <= RxDepth /\ Len(rx[d]) \in Nat
    BY DEF TypeOK
  <2>2. CASE d \in in
    <3>1. rx'[d] = Append(rx[d], copy) /\ Len(rx[d]) < RxDepth
      BY <1>1, <2>2
    <3>2. Append(rx[d], copy) \in Seq(Copy) /\ Len(Append(rx[d], copy)) = Len(rx[d]) + 1
          /\ (\A i \in 1 .. Len(rx[d]) : Append(rx[d], copy)[i] = rx[d][i])
          /\ Append(rx[d], copy)[Len(rx[d]) + 1] = copy
      BY <1>3, <2>1, AppendProperties
    <3>3. ASSUME NEW i \in 1 .. Len(rx[d]) + 1
          PROVE  Append(rx[d], copy)[i] = copy
                 \/ (i \in 1 .. Len(rx[d]) /\ Append(rx[d], copy)[i] = rx[d][i])
      <4>1. i = Len(rx[d]) + 1 \/ i \in 1 .. Len(rx[d])
        BY <2>1
      <4> HIDE DEF copy
      <4> QED
        BY <3>2, <4>1
    <3> USE Numbers
    <3> HIDE DEF copy
    <3> QED
      BY <2>1, <3>1, <3>2, <3>3
  <2>3. CASE d \notin in
    <3>1. rx'[d] = rx[d]
      BY <1>1, <2>3
    <3> HIDE DEF copy, in
    <3> QED
      BY <2>1, <3>1
  <2> QED
    BY <2>2, <2>3
<1>6. rx' \in [Cars -> Seq(Copy)]
  BY <1>1, <1>5
<1> QED
  BY <1>2, <1>4, <1>5, <1>6, Zenon

\* Taking the head off a queue.
LEMMA PollTakes ==
    ASSUME TypeOK, NEW c \in Cars, Poll(c)
    PROVE  /\ Head(rx[c]) \in Copy /\ Head(rx[c]) = rx[c][1] /\ 1 \in 1 .. Len(rx[c])
           /\ rx' \in [Cars -> Seq(Copy)] /\ pass' \in [Cars -> 0 .. Budget]
           /\ \A d \in Cars : Len(rx'[d]) <= RxDepth
           /\ \A d \in Cars : \A i \in 1 .. Len(rx'[d]) :
                 \E j \in 1 .. Len(rx[d]) : rx'[d][i] = rx[d][j]
<1> USE Numbers
<1>1. rx[c] \in Seq(Copy) /\ rx[c] # << >>
  BY DEF Poll, TypeOK
<1>2. Head(rx[c]) \in Copy /\ Head(rx[c]) = rx[c][1] /\ 1 \in 1 .. Len(rx[c])
  BY <1>1
<1>3. Tail(rx[c]) \in Seq(Copy) /\ Len(Tail(rx[c])) = Len(rx[c]) - 1
      /\ \A i \in 1 .. Len(Tail(rx[c])) : Tail(rx[c])[i] = rx[c][i + 1]
  BY <1>1
<1>4. rx' = [rx EXCEPT ![c] = Tail(rx[c])]
  BY DEF Poll
<1>5. pass' \in [Cars -> 0 .. Budget]
  BY DEF Poll, TypeOK
<1>6. rx' \in [Cars -> Seq(Copy)]
  BY <1>3, <1>4 DEF TypeOK
<1>7. ASSUME NEW d \in Cars
      PROVE  /\ Len(rx'[d]) <= RxDepth
             /\ \A i \in 1 .. Len(rx'[d]) : \E j \in 1 .. Len(rx[d]) : rx'[d][i] = rx[d][j]
  <2>1. rx[d] \in Seq(Copy) /\ Len(rx[d]) <= RxDepth /\ Len(rx[d]) \in Nat
    BY DEF TypeOK
  <2>2. CASE d = c
    <3>1. rx'[d] = Tail(rx[c])
      BY <1>4, <2>2 DEF TypeOK
    <3>2. Len(rx'[d]) <= RxDepth
      BY <1>3, <2>1, <2>2, <3>1
    <3>3. ASSUME NEW i \in 1 .. Len(rx'[d])
          PROVE  i + 1 \in 1 .. Len(rx[d]) /\ rx'[d][i] = rx[d][i + 1]
      BY <1>3, <2>1, <2>2, <3>1
    <3> QED
      BY <3>2, <3>3
  <2>3. CASE d # c
    <3>1. rx'[d] = rx[d]
      BY <1>4, <2>3 DEF TypeOK
    <3> QED
      BY <2>1, <3>1
  <2> QED
    BY <2>2, <2>3
<1> QED
  BY <1>2, <1>5, <1>6, <1>7, Zenon

\* While the table holds the recent frames, recording one evicts none.
LEMMA NoEviction ==
    ASSUME TypeOK, EntriesRecent, NEW c \in Cars, NEW f \in Frames, Record(c, f),
           \/ f \notin sent /\ Cardinality(Recent) < SeenSlots
           \/ ~Known(c, f) /\ f \in Recent /\ TableHolds
    PROVE  seen' = [seen EXCEPT ![c][f] = [at |-> now, count |-> 1]]
<1> DEFINE live == {g \in Frames : Known(c, g)}
<1>1. IsFiniteSet(Recent)
  BY FloodAssumption, FS_Subset DEF FloodAssumption, Recent, TypeOK
<1>2. live \subseteq Recent
  <2> SUFFICES ASSUME NEW g \in Frames, Known(c, g) PROVE g \in Recent
    OBVIOUS
  <2>1. seen[c][g] \in [at : Nat, count : Nat] /\ now \in Nat /\ born[g] \in Nat
    BY DEF TypeOK
  <2>2. g \in sent /\ seen[c][g].at <= born[g] + Life
    BY <2>1 DEF Known, Live, EntriesRecent
  <2> QED
    BY <2>1, <2>2, Numbers, HopNat DEF Known, Live, Recent
<1>3. Cardinality(live) < SeenSlots
  <2>1. Cardinality(live) <= Cardinality(Recent)
    BY <1>1, <1>2, FS_Subset
  <2>2. IsFiniteSet(live) /\ Cardinality(live) \in Nat /\ Cardinality(Recent) \in Nat
    BY <1>1, <1>2, FS_Subset, FS_CardinalityType
  <2> USE Numbers
  <2>3. CASE f \notin sent /\ Cardinality(Recent) < SeenSlots
    BY <2>1, <2>2, <2>3
  <2>4. CASE ~Known(c, f) /\ f \in Recent /\ TableHolds
    <3>1. f \notin live
      BY <2>4
    <3>2. Cardinality(live) # Cardinality(Recent)
      BY <1>1, <1>2, <2>4, <3>1, FS_Subset
    <3> QED
      BY <2>1, <2>2, <2>4, <3>2 DEF TableHolds
  <2> QED
    BY <2>3, <2>4
<1> QED
  BY <1>3 DEF Record

\* Recording a frame keeps what the car has of the others.
LEMMA RecordKeeps ==
    ASSUME TypeOK, EntriesRecent, NEW c \in Cars, NEW f \in Frames, Record(c, f),
           \/ f \notin sent /\ Cardinality(Recent) < SeenSlots
           \/ ~Known(c, f) /\ f \in Recent /\ TableHolds
    PROVE  /\ seen' \in [Cars -> [Frames -> [at : Nat, count : Nat]]]
           /\ seen'[c][f] = [at |-> now, count |-> 1]
           /\ \A d \in Cars, g \in Frames : <<d, g>> # <<c, f>> => seen'[d][g] = seen[d][g]
<1>1. seen' = [seen EXCEPT ![c][f] = [at |-> now, count |-> 1]]
  BY NoEviction
<1>2. [at |-> now, count |-> 1] \in [at : Nat, count : Nat]
  BY DEF TypeOK
<1>3. seen \in [Cars -> [Frames -> [at : Nat, count : Nat]]]
  BY DEF TypeOK
<1> QED
  BY <1>1, <1>2, <1>3

-----------------------------------------------------------------------------
(* The invariant holds at the start. *)

LEMMA IInvInit == Init => IInv
<1> SUFFICES ASSUME Init PROVE IInv
  OBVIOUS
<1> USE Numbers
<1>1. TypeOK
  BY FloodAssumption DEF FloodAssumption, Init, TypeOK, Unused
<1>2. Timely
  BY DEF Init, Timely, RxTimely, HeldTimely
<1>3. EntriesRecent /\ TakenKnown
  BY DEF Init, EntriesRecent, TakenKnown, Unused
<1>4. TableHolds
  <2>1. Recent = {}
    BY DEF Init, Recent
  <2> QED
    BY <2>1, FS_EmptySet DEF TableHolds
<1> QED
  BY <1>1, <1>2, <1>3, <1>4 DEF IInv, Remembered

-----------------------------------------------------------------------------
(* Copies stay in time. *)

\* The head of a queue: a copy sent, in time, of a frame still about.
LEMMA HeadInTime ==
    ASSUME IInv, NEW c \in Cars, Poll(c)
    PROVE  LET e == Head(rx[c])
           IN  /\ e \in Copy /\ e.frame \in sent /\ born[e.frame] \in Nat
               /\ e.at <= now /\ now <= e.at + Stall
               /\ born[e.frame] <= e.at /\ e.at <= born[e.frame] + Late(e.hops)
               /\ now <= born[e.frame] + Life
<1> DEFINE e == Head(rx[c])
<1>1. e \in Copy /\ e = rx[c][1] /\ 1 \in 1 .. Len(rx[c])
  BY PollTakes DEF IInv
<1>2. /\ e.frame \in sent /\ e.at <= now /\ now <= e.at + Stall
      /\ born[e.frame] <= e.at /\ e.at <= born[e.frame] + Late(e.hops)
  BY <1>1 DEF IInv, Timely, RxTimely
<1>3. e.frame \in Frames /\ e.at \in Nat /\ e.hops \in 0 .. Hops
  BY <1>1 DEF Copy
<1>4. born[e.frame] \in Nat /\ now \in Nat
  BY <1>3 DEF IInv, TypeOK
<1>5. Late(e.hops) \in Nat /\ Late(e.hops) + Stall <= Life
  BY <1>3, LateSteps
<1> HIDE DEF e
<1>6. now <= born[e.frame] + Life
  BY <1>2, <1>3, <1>4, <1>5, Numbers, HopNat
<1> QED
  BY <1>1, <1>2, <1>4, <1>6 DEF e

\* What is held goes on in time, a hop down.
LEMMA OnwardInTime ==
    ASSUME IInv, NEW c \in Cars, Poll(c), MayForward(Head(rx[c])), NEW delay \in Delays[c]
    PROVE  LET e == Head(rx[c])
               h == Onward(e, Due(e, delay))
           IN  /\ h \in [frame : Frames, hops : 0 .. Hops, due : Nat]
               /\ h.frame \in sent
               /\ now <= h.due + Stall
               /\ h.due + Stall <= born[h.frame] + Late(h.hops)
<1> DEFINE e == Head(rx[c])
           due == Due(e, delay)
<1>1. /\ e \in Copy /\ e.frame \in sent /\ born[e.frame] \in Nat
      /\ e.at <= now /\ now <= e.at + Stall
      /\ born[e.frame] <= e.at /\ e.at <= born[e.frame] + Late(e.hops)
  BY HeadInTime
<1>2. e.frame \in Frames /\ e.at \in Nat /\ e.hops \in 0 .. Hops /\ e.hops > 0
  BY <1>1 DEF Copy, MayForward
<1>3. now \in Nat
  BY DEF IInv, TypeOK
<1>4. delay \in Nat /\ delay <= MaxWait
  BY Numbers, FloodAssumption DEF FloodAssumption
<1>5. Late(e.hops - 1) = Late(e.hops) + Hop /\ Late(e.hops) \in Nat
  BY <1>2, LateSteps
<1>6. Hop = 2 * Stall + MaxWait
  BY DEF Hop
<1>7. due = (IF now - e.at > StallFrom THEN now ELSE e.at) + delay
  BY DEF Due
<1> USE Numbers
<1>8. due \in Nat /\ now <= due + Stall /\ due <= e.at + Stall + MaxWait
  <2> HIDE DEF e, due
  <2> QED
    BY <1>1, <1>2, <1>3, <1>4, <1>7
<1>9. due + Stall <= born[e.frame] + Late(e.hops - 1)
  <2> HIDE DEF e, due
  <2> QED
    BY <1>1, <1>2, <1>5, <1>6, <1>8
<1>10. e.hops - 1 \in 0 .. Hops
  BY <1>2
<1> HIDE DEF e, due
<1>11. Onward(e, due) = [frame |-> e.frame, hops |-> e.hops - 1, due |-> due]
  BY DEF Onward
<1> QED
  BY <1>1, <1>2, <1>8, <1>9, <1>10, <1>11 DEF e, due

\* Queues that hold only what they held, or a copy sent just now in time.
LEMMA QueuesStayTimely ==
    ASSUME IInv, now' = now, sent \subseteq sent', \A f \in sent : born'[f] = born[f],
           \A d \in Cars : \A i \in 1 .. Len(rx'[d]) :
              \/ \E j \in 1 .. Len(rx[d]) : rx'[d][i] = rx[d][j]
              \/ /\ rx'[d][i].frame \in sent' /\ rx'[d][i].at = now
                 /\ born'[rx'[d][i].frame] <= now
                 /\ now <= born'[rx'[d][i].frame] + Late(rx'[d][i].hops)
    PROVE  RxTimely'
<1> SUFFICES ASSUME NEW d \in Cars, NEW i \in 1 .. Len(rx'[d])
             PROVE  LET e == rx'[d][i]
                    IN  /\ e.frame \in sent'
                        /\ e.at <= now /\ now <= e.at + Stall
                        /\ born'[e.frame] <= e.at /\ e.at <= born'[e.frame] + Late(e.hops)
  BY DEF RxTimely, Late
<1>1. CASE \E j \in 1 .. Len(rx[d]) : rx'[d][i] = rx[d][j]
  <2>1. PICK j \in 1 .. Len(rx[d]) : rx'[d][i] = rx[d][j]
    BY <1>1
  <2> QED
    BY <2>1 DEF IInv, Timely, RxTimely
<1>2. CASE /\ rx'[d][i].frame \in sent' /\ rx'[d][i].at = now
           /\ born'[rx'[d][i].frame] <= now
           /\ now <= born'[rx'[d][i].frame] + Late(rx'[d][i].hops)
  BY <1>2, Numbers DEF IInv, TypeOK
<1> QED
  BY <1>1, <1>2

\* The same of what is held.
LEMMA HeldStaysTimely ==
    ASSUME IInv, now' = now, sent \subseteq sent', \A f \in sent : born'[f] = born[f],
           \A d \in Cars : \A h \in held'[d] :
              \/ h \in held[d]
              \/ /\ h.frame \in sent /\ now <= h.due + Stall
                 /\ h.due + Stall <= born[h.frame] + Late(h.hops)
    PROVE  HeldTimely'
  BY DEF IInv, Timely, HeldTimely, Late

-----------------------------------------------------------------------------
(* Every step keeps the types. *)

\* The part of Take common to its three outcomes.
LEMMA TakeTypes ==
    ASSUME IInv, NEW c \in Cars, Take(c)
    PROVE  /\ rx' \in [Cars -> Seq(Copy)] /\ (\A d \in Cars : Len(rx'[d]) <= RxDepth)
           /\ pass' \in [Cars -> 0 .. Budget]
           /\ seen' \in [Cars -> [Frames -> [at : Nat, count : Nat]]]
           /\ taken' \in [Cars -> [Frames -> Nat]]
           /\ heard' \in [Cars -> [Frames -> SUBSET Cars]]
           /\ owes' \subseteq Cars \X Frames
           /\ UNCHANGED <<now, born, sent, lost, spoke, quit, missed>>
<1> DEFINE e == Head(rx[c])
<1>1. Poll(c) /\ Record(c, e.frame) /\ ~Known(c, e.frame)
  BY DEF Take
<1>2. /\ e \in Copy /\ e.frame \in sent
      /\ now <= born[e.frame] + Life /\ born[e.frame] \in Nat
  BY <1>1, HeadInTime
<1>3. e.frame \in Frames /\ e.from \in Cars
  BY <1>2 DEF Copy
<1>4. e.frame \in Recent
  <2>1. now \in Nat
    BY DEF IInv, TypeOK
  <2> HIDE DEF e
  <2> QED
    BY <1>2, <2>1, Numbers, HopNat DEF Recent
<1>5. seen' \in [Cars -> [Frames -> [at : Nat, count : Nat]]]
  <2> HIDE DEF e
  <2> QED
    BY <1>1, <1>3, <1>4, RecordKeeps DEF IInv, Remembered
<1>6. rx' \in [Cars -> Seq(Copy)] /\ (\A d \in Cars : Len(rx'[d]) <= RxDepth)
      /\ pass' \in [Cars -> 0 .. Budget]
  BY <1>1, PollTakes DEF IInv
<1>7. /\ taken' = [taken EXCEPT ![c][e.frame] = @ + 1]
      /\ heard' = [heard EXCEPT ![c][e.frame] = @ \union {e.from}]
      /\ owes' = IF e.hops > 0 THEN owes \union {<<c, e.frame>>} ELSE owes
      /\ UNCHANGED <<now, born, sent, lost, spoke, quit, missed>>
  BY DEF Take, Counted
<1> HIDE DEF e
<1>8. taken' \in [Cars -> [Frames -> Nat]]
  BY <1>3, <1>7 DEF IInv, TypeOK
<1>9. heard' \in [Cars -> [Frames -> SUBSET Cars]]
  BY <1>3, <1>7 DEF IInv, TypeOK
<1>10. owes' \subseteq Cars \X Frames
  BY <1>3, <1>7 DEF IInv, TypeOK
<1> QED
  BY <1>5, <1>6, <1>7, <1>8, <1>9, <1>10

\* Taking a forward out of its slot.
LEMMA NextDueTakes ==
    ASSUME TypeOK, NEW c \in Cars, NEW h, NextDue(c, h)
    PROVE  /\ h \in held[c] /\ h \in [frame : Frames, hops : 0 .. Hops, due : Nat]
           /\ h.frame \in Frames /\ h.hops \in 0 .. Hops /\ h.due \in Nat /\ h.due <= now
           /\ held' \in [Cars -> SUBSET [frame : Frames, hops : 0 .. Hops, due : Nat]]
           /\ \A d \in Cars : held'[d] \subseteq held[d]
<1>1. h \in held[c] /\ h.due <= now /\ held' = [held EXCEPT ![c] = held[c] \ {h}]
  BY DEF NextDue
<1>2. held \in [Cars -> SUBSET [frame : Frames, hops : 0 .. Hops, due : Nat]]
  BY DEF TypeOK
<1>3. h \in [frame : Frames, hops : 0 .. Hops, due : Nat]
  BY <1>1, <1>2
<1> QED
  BY <1>1, <1>2, <1>3

LEMMA TypeStep == IInv /\ [Next]_vars => TypeOK'
<1> SUFFICES ASSUME IInv, [Next]_vars PROVE TypeOK'
  OBVIOUS
<1>0. TypeOK
  BY DEF IInv
<1>1. CASE Tick
  <2>1. pass' \in [Cars -> 0 .. Budget] /\ now' \in Nat
    BY <1>0, <1>1, Numbers DEF Tick, TypeOK
  <2> QED
    BY <1>0, <1>1, <2>1 DEF Tick, TypeOK, story
<1>2. ASSUME NEW f \in Frames, Transmit(f) PROVE TypeOK'
  <2>1. Source[f] \in Cars /\ Hops \in 0 .. Hops
    BY FloodAssumption, Numbers DEF FloodAssumption
  <2>2. Record(Source[f], f) /\ Broadcast(Source[f], f, Hops)
        /\ f \notin sent /\ Cardinality(Recent) < SeenSlots
    BY <1>2 DEF Transmit
  <2>3. seen' \in [Cars -> [Frames -> [at : Nat, count : Nat]]]
    BY <1>0, <2>1, <2>2, RecordKeeps DEF IInv, Remembered
  <2>4. rx' \in [Cars -> Seq(Copy)] /\ lost' \in Nat /\ missed' \subseteq Cars \X Frames
        /\ \A d \in Cars : Len(rx'[d]) <= RxDepth
    BY <1>0, <2>1, <2>2, BroadcastAdds
  <2>5. born' \in [Frames -> Nat] /\ sent' \subseteq Frames
    BY <1>0, <1>2 DEF Transmit, TypeOK
  <2> QED
    BY <1>0, <1>2, <2>3, <2>4, <2>5 DEF Transmit, TypeOK
<1>3. ASSUME NEW c \in Cars, Pass(c) PROVE TypeOK'
  <2>1. CASE DrainOwn(c)
    BY <1>0, <2>1, PollTakes DEF DrainOwn, TypeOK, story
  <2>2. CASE DrainCopy(c)
    <3> DEFINE e == Head(rx[c])
    <3>1. Poll(c) /\ e \in Copy
      BY <1>0, <2>2, PollTakes DEF DrainCopy
    <3>2. e.frame \in Frames /\ e.from \in Cars
      BY <3>1 DEF Copy
    <3>3. /\ seen' = [seen EXCEPT ![c][e.frame].count = @ + 1]
          /\ heard' = [heard EXCEPT ![c][e.frame] = @ \union {e.from}]
      BY <2>2 DEF DrainCopy, Counted
    <3> HIDE DEF e
    <3>4. seen' \in [Cars -> [Frames -> [at : Nat, count : Nat]]]
      <4>1. seen \in [Cars -> [Frames -> [at : Nat, count : Nat]]]
        BY <1>0 DEF TypeOK
      <4>2. seen[c][e.frame] \in [at : Nat, count : Nat]
        BY <3>2, <4>1
      <4> DEFINE more == [seen[c][e.frame] EXCEPT !.count = @ + 1]
      <4>3. more \in [at : Nat, count : Nat]
        BY <4>2
      <4>4. seen' = [seen EXCEPT ![c] = [seen[c] EXCEPT ![e.frame] = more]]
        BY <3>3, <4>1
      <4> HIDE DEF more
      <4> QED
        BY <3>2, <4>1, <4>3, <4>4
    <3>5. heard' \in [Cars -> [Frames -> SUBSET Cars]]
      BY <1>0, <3>2, <3>3 DEF TypeOK
    <3> QED
      BY <1>0, <2>2, <3>1, <3>4, <3>5, PollTakes DEF DrainCopy, TypeOK
  <2>3. CASE TakeOnly(c)
    BY <1>0, <2>3, TakeTypes DEF TakeOnly, TypeOK
  <2>4. CASE TakeAndHold(c)
    <3>1. PICK delay \in Delays[c] :
             held' = [held EXCEPT ![c] = @ \union {Onward(Head(rx[c]), Due(Head(rx[c]), delay))}]
      BY <2>4 DEF TakeAndHold
    <3> DEFINE h == Onward(Head(rx[c]), Due(Head(rx[c]), delay))
    <3>2. h \in [frame : Frames, hops : 0 .. Hops, due : Nat]
      BY <2>4, OnwardInTime DEF TakeAndHold, Take
    <3> HIDE DEF h
    <3>3. held' \in [Cars -> SUBSET [frame : Frames, hops : 0 .. Hops, due : Nat]]
      BY <1>0, <3>1, <3>2 DEF TypeOK, h
    <3>4. Take(c) /\ UNCHANGED refused
      BY <2>4 DEF TakeAndHold
    <3> QED
      BY <1>0, <3>3, <3>4, TakeTypes DEF TypeOK
  <2>5. CASE TakeNoRoom(c)
    <3>1. Head(rx[c]).frame \in Frames
      BY <1>0, <2>5, PollTakes DEF TakeNoRoom, Take, Copy
    <3>2. refused' \subseteq Cars \X Frames
      BY <1>0, <2>5, <3>1 DEF TakeNoRoom, TypeOK
    <3> QED
      BY <1>0, <2>5, <3>2, TakeTypes DEF TakeNoRoom, TypeOK
  <2>6. CASE GiveUp(c)
    <3>1. PICK h \in held[c] : NextDue(c, h) /\ quit' = quit \union {<<c, h.frame>>}
      BY <2>6 DEF GiveUp
    <3>2. h.frame \in Frames
          /\ held' \in [Cars -> SUBSET [frame : Frames, hops : 0 .. Hops, due : Nat]]
      BY <1>0, <3>1, NextDueTakes
    <3>3. quit' \subseteq Cars \X Frames
      BY <1>0, <3>1, <3>2 DEF TypeOK
    <3> QED
      BY <1>0, <2>6, <3>2, <3>3 DEF GiveUp, TypeOK
  <2>7. CASE Forward(c)
    <3>1. PICK h \in held[c] : /\ NextDue(c, h) /\ Broadcast(c, h.frame, h.hops)
                               /\ spoke' = spoke \union {<<c, h.frame>>}
      BY <2>7 DEF Forward
    <3>2. h.frame \in Frames /\ h.hops \in 0 .. Hops
          /\ held' \in [Cars -> SUBSET [frame : Frames, hops : 0 .. Hops, due : Nat]]
      BY <1>0, <3>1, NextDueTakes
    <3>3. spoke' \subseteq Cars \X Frames
      BY <1>0, <3>1, <3>2 DEF TypeOK
    <3>4. rx' \in [Cars -> Seq(Copy)] /\ lost' \in Nat /\ missed' \subseteq Cars \X Frames
          /\ \A d \in Cars : Len(rx'[d]) <= RxDepth
      BY <1>0, <3>1, <3>2, BroadcastAdds
    <3> QED
      BY <1>0, <2>7, <3>2, <3>3, <3>4 DEF Forward, TypeOK
  <2>8. CASE ForwardRefused(c)
    <3>1. PICK h \in held[c] : NextDue(c, h) /\ refused' = refused \union {<<c, h.frame>>}
      BY <2>8 DEF ForwardRefused
    <3>2. h.frame \in Frames
          /\ held' \in [Cars -> SUBSET [frame : Frames, hops : 0 .. Hops, due : Nat]]
      BY <1>0, <3>1, NextDueTakes
    <3>3. refused' \subseteq Cars \X Frames /\ lost' \in Nat
      BY <1>0, <2>8, <3>1, <3>2 DEF ForwardRefused, TypeOK
    <3> QED
      BY <1>0, <2>8, <3>2, <3>3 DEF ForwardRefused, TypeOK
  <2>9. CASE NextPass(c)
    <3>1. pass' \in [Cars -> 0 .. Budget]
      BY <1>0, <2>9, Numbers DEF NextPass, TypeOK
    <3> QED
      BY <1>0, <2>9, <3>1 DEF NextPass, TypeOK, story
  <2> QED
    BY <1>3, <2>1, <2>2, <2>3, <2>4, <2>5, <2>6, <2>7, <2>8, <2>9 DEF Pass
<1>4. CASE UNCHANGED vars
  BY <1>0, <1>4 DEF vars, boards, story, TypeOK
<1> QED
  BY <1>1, <1>2, <1>3, <1>4 DEF Next

-----------------------------------------------------------------------------
(* Every step keeps copies in time. *)

\* A step of the board that keeps now, and what was sent when.
LEMMA QuietTimely ==
    ASSUME IInv, UNCHANGED <<now, born, sent>>,
           \A d \in Cars : \A i \in 1 .. Len(rx'[d]) : \E j \in 1 .. Len(rx[d]) : rx'[d][i] = rx[d][j],
           \A d \in Cars : held'[d] \subseteq held[d]
    PROVE  Timely'
<1>1. RxTimely'
  BY QueuesStayTimely
<1>2. HeldTimely'
  BY HeldStaysTimely
<1> QED
  BY <1>1, <1>2 DEF IInv, Timely

LEMMA TimelyStep == IInv /\ [Next]_vars => Timely'
<1> SUFFICES ASSUME IInv, [Next]_vars PROVE Timely'
  OBVIOUS
<1>0. TypeOK /\ Timely
  BY DEF IInv
<1>1. CASE Tick
  <2> USE Numbers
  <2>1. /\ now' = now + 1 /\ now \in Nat
        /\ \A c \in Cars : \A i \in 1 .. Len(rx[c]) : now < rx[c][i].at + Patience(c)
        /\ \A c \in Cars : \A h \in held[c] : now < h.due + Patience(c)
        /\ UNCHANGED <<rx, held, born, sent>>
    BY <1>0, <1>1 DEF Tick, TypeOK
  <2>2. \A c \in Cars : Patience(c) \in Nat /\ Patience(c) <= Stall
    BY DEF Patience
  <2>3. \A f \in sent : born'[f] <= now'
    BY <1>0, <2>1 DEF Timely, TypeOK
  <2>4. RxTimely'
    <3> SUFFICES ASSUME NEW c \in Cars, NEW i \in 1 .. Len(rx[c])
                 PROVE  LET e == rx[c][i]
                        IN  /\ e.frame \in sent
                            /\ e.at <= now' /\ now' <= e.at + Stall
                            /\ born[e.frame] <= e.at
                            /\ e.at <= born[e.frame] + Late(e.hops)
      BY <2>1 DEF RxTimely, Late
    <3> DEFINE e == rx[c][i]
    <3>1. /\ e.frame \in sent /\ e.at <= now
          /\ born[e.frame] <= e.at /\ e.at <= born[e.frame] + Late(e.hops)
      BY <1>0 DEF Timely, RxTimely
    <3>2. e.at \in Nat
      <4>1. rx[c] \in Seq(Copy)
        BY <1>0 DEF TypeOK
      <4>2. rx[c][i] \in Copy
        BY <4>1
      <4> QED
        BY <4>2 DEF Copy
    <3>3. now < e.at + Patience(c)
      BY <2>1
    <3> HIDE DEF e
    <3>4. e.at <= now' /\ now' <= e.at + Stall
      BY <2>1, <2>2, <3>1, <3>2, <3>3
    <3> QED
      BY <3>1, <3>4 DEF e
  <2>5. HeldTimely'
    <3> SUFFICES ASSUME NEW c \in Cars, NEW h \in held[c]
                 PROVE  now' <= h.due + Stall
      BY <1>0, <2>1 DEF Timely, HeldTimely, Late
    <3>1. h.due \in Nat
      BY <1>0 DEF TypeOK
    <3> QED
      BY <2>1, <2>2, <3>1
  <2> QED
    BY <2>1, <2>3, <2>4, <2>5 DEF Timely
<1>2. ASSUME NEW f \in Frames, Transmit(f) PROVE Timely'
  <2>1. /\ f \notin sent /\ sent' = sent \union {f} /\ born' = [born EXCEPT ![f] = now]
        /\ UNCHANGED <<now, held>> /\ Broadcast(Source[f], f, Hops)
    BY <1>2 DEF Transmit
  <2>2. Source[f] \in Cars /\ Hops \in 0 .. Hops /\ now \in Nat
    BY <1>0, FloodAssumption, Numbers DEF FloodAssumption, TypeOK
  <2>3. born'[f] = now /\ \A g \in sent : born'[g] = born[g]
    BY <1>0, <2>1 DEF TypeOK
  <2>4. RxTimely'
    <3>1. ASSUME NEW d \in Cars, NEW i \in 1 .. Len(rx'[d])
          PROVE  \/ \E j \in 1 .. Len(rx[d]) : rx'[d][i] = rx[d][j]
                 \/ /\ rx'[d][i].frame \in sent' /\ rx'[d][i].at = now
                    /\ born'[rx'[d][i].frame] <= now
                    /\ now <= born'[rx'[d][i].frame] + Late(rx'[d][i].hops)
      <4>1. \/ rx'[d][i] = [frame |-> f, hops |-> Hops, from |-> Source[f], at |-> now]
            \/ i \in 1 .. Len(rx[d]) /\ rx'[d][i] = rx[d][i]
        BY <1>0, <2>1, <2>2, BroadcastAdds
      <4>2. CASE rx'[d][i] = [frame |-> f, hops |-> Hops, from |-> Source[f], at |-> now]
        <5>1. rx'[d][i].frame = f /\ rx'[d][i].hops = Hops /\ rx'[d][i].at = now
          BY <4>2
        <5>2. now <= born'[f] + Late(Hops) /\ born'[f] <= now
          BY <2>2, <2>3, LateAtHome
        <5> QED
          BY <2>1, <5>1, <5>2
      <4> QED
        BY <4>1, <4>2
    <3> QED
      BY <2>1, <2>3, <3>1, QueuesStayTimely
  <2>5. HeldTimely'
    BY <2>1, <2>3, HeldStaysTimely
  <2>6. \A g \in sent' : born'[g] <= now'
    BY <1>0, <2>1, <2>2, <2>3 DEF Timely
  <2> QED
    BY <2>4, <2>5, <2>6 DEF Timely
<1>3. ASSUME NEW c \in Cars, Pass(c) PROVE Timely'
  <2>0. ASSUME Poll(c)
        PROVE  \A d \in Cars : \A i \in 1 .. Len(rx'[d]) :
                  \E j \in 1 .. Len(rx[d]) : rx'[d][i] = rx[d][j]
    BY <1>0, <2>0, PollTakes
  <2>1. CASE DrainOwn(c) \/ DrainCopy(c) \/ TakeOnly(c) \/ TakeNoRoom(c)
    <3>1. Poll(c) /\ UNCHANGED <<now, born, sent, held>>
      BY <2>1 DEF DrainOwn, DrainCopy, TakeOnly, TakeNoRoom, Take
    <3> QED
      BY <2>0, <3>1, QuietTimely
  <2>2. CASE TakeAndHold(c)
    <3>1. Poll(c) /\ MayForward(Head(rx[c])) /\ UNCHANGED <<now, born, sent>>
      BY <2>2 DEF TakeAndHold, Take
    <3>2. PICK delay \in Delays[c] :
             held' = [held EXCEPT ![c] = @ \union {Onward(Head(rx[c]), Due(Head(rx[c]), delay))}]
      BY <2>2 DEF TakeAndHold
    <3> DEFINE new == Onward(Head(rx[c]), Due(Head(rx[c]), delay))
    <3>3. /\ new.frame \in sent /\ now <= new.due + Stall
          /\ new.due + Stall <= born[new.frame] + Late(new.hops)
      BY <3>1, OnwardInTime
    <3>4. held' = [held EXCEPT ![c] = held[c] \union {new}]
      BY <3>2
    <3> HIDE DEF new
    <3>5. \A d \in Cars : \A h \in held'[d] : h \in held[d] \/ h = new
      BY <1>0, <3>4 DEF TypeOK
    <3>6. HeldTimely'
      BY <3>1, <3>3, <3>5, HeldStaysTimely
    <3>7. RxTimely'
      BY <2>0, <3>1, QueuesStayTimely
    <3> QED
      BY <1>0, <3>1, <3>6, <3>7 DEF Timely
  <2>3. CASE GiveUp(c) \/ ForwardRefused(c)
    <3>1. UNCHANGED <<now, born, sent, rx>> /\ \E h \in held[c] : NextDue(c, h)
      BY <2>3 DEF GiveUp, ForwardRefused
    <3>2. \A d \in Cars : held'[d] \subseteq held[d]
      BY <1>0, <3>1, NextDueTakes
    <3> QED
      BY <3>1, <3>2, QuietTimely
  <2>4. CASE Forward(c)
    <3>1. PICK h \in held[c] : NextDue(c, h) /\ Broadcast(c, h.frame, h.hops)
      BY <2>4 DEF Forward
    <3>2. UNCHANGED <<now, born, sent>>
      BY <2>4 DEF Forward
    <3>3. /\ h.frame \in Frames /\ h.hops \in 0 .. Hops /\ h.due \in Nat /\ h.due <= now
          /\ \A d \in Cars : held'[d] \subseteq held[d]
      BY <1>0, <3>1, NextDueTakes
    <3>4. /\ h.frame \in sent /\ now <= h.due + Stall /\ born[h.frame] <= now
          /\ h.due + Stall <= born[h.frame] + Late(h.hops)
      BY <1>0 DEF Timely, HeldTimely
    <3>5. now <= born[h.frame] + Late(h.hops)
      <4>1. born[h.frame] \in Nat /\ Late(h.hops) \in Nat /\ now \in Nat
        BY <1>0, <3>3, LateSteps DEF TypeOK
      <4> QED
        BY <3>3, <3>4, <4>1, Numbers
    <3>6. RxTimely'
      <4>1. ASSUME NEW d \in Cars, NEW i \in 1 .. Len(rx'[d])
            PROVE  \/ \E j \in 1 .. Len(rx[d]) : rx'[d][i] = rx[d][j]
                   \/ /\ rx'[d][i].frame \in sent' /\ rx'[d][i].at = now
                      /\ born'[rx'[d][i].frame] <= now
                      /\ now <= born'[rx'[d][i].frame] + Late(rx'[d][i].hops)
        <5>1. \/ rx'[d][i] = [frame |-> h.frame, hops |-> h.hops, from |-> c, at |-> now]
              \/ i \in 1 .. Len(rx[d]) /\ rx'[d][i] = rx[d][i]
          BY <1>0, <3>1, <3>3, BroadcastAdds
        <5>2. CASE rx'[d][i] = [frame |-> h.frame, hops |-> h.hops, from |-> c, at |-> now]
          <6>1. rx'[d][i].frame = h.frame /\ rx'[d][i].hops = h.hops /\ rx'[d][i].at = now
            BY <5>2
          <6> QED
            BY <3>2, <3>4, <3>5, <6>1
        <5> QED
          BY <5>1, <5>2
      <4> QED
        BY <3>2, <4>1, QueuesStayTimely
    <3>7. HeldTimely'
      BY <3>2, <3>3, HeldStaysTimely
    <3> QED
      BY <1>0, <3>2, <3>6, <3>7 DEF Timely
  <2>5. CASE NextPass(c)
    <3>1. UNCHANGED <<now, born, sent, rx, held>>
      BY <2>5 DEF NextPass
    <3> QED
      BY <3>1, QuietTimely
  <2> QED
    BY <1>3, <2>1, <2>2, <2>3, <2>4, <2>5 DEF Pass
<1>4. CASE UNCHANGED vars
  <2>1. UNCHANGED <<now, born, sent, rx, held>>
    BY <1>4 DEF vars, boards
  <2> QED
    BY <2>1, QuietTimely
<1> QED
  BY <1>1, <1>2, <1>3, <1>4 DEF Next

-----------------------------------------------------------------------------
(* Every step keeps what the tables remember. *)

\* What a pass takes it had not taken before.
LEMMA TakenFirst ==
    ASSUME IInv, NEW c \in Cars, Take(c)
    PROVE  LET f == Head(rx[c]).frame
           IN  /\ f \in Frames /\ f \in sent /\ f \in Recent
               /\ born[f] \in Nat /\ born[f] <= now /\ now <= born[f] + Life
               /\ ~Known(c, f) /\ Record(c, f) /\ taken[c][f] = 0
               /\ taken' = [taken EXCEPT ![c][f] = @ + 1]
<1> DEFINE e == Head(rx[c])
           f == e.frame
<1>1. Poll(c) /\ Record(c, f) /\ ~Known(c, f) /\ taken' = [taken EXCEPT ![c][f] = @ + 1]
  BY DEF Take
<1>2. e \in Copy /\ f \in sent /\ born[f] \in Nat /\ now <= born[f] + Life
  BY <1>1, HeadInTime
<1>3. f \in Frames
  BY <1>2 DEF Copy
<1> HIDE DEF e, f
<1>4. /\ now \in Nat /\ seen[c][f].at \in Nat /\ taken[c][f] \in Nat
      /\ born[f] <= now
  <2>1. seen[c][f] \in [at : Nat, count : Nat]
    BY <1>3 DEF IInv, TypeOK
  <2> QED
    BY <1>2, <1>3, <2>1 DEF IInv, TypeOK, Timely
<1>5. f \in Recent
  BY <1>2, <1>4, Numbers, HopNat DEF Recent
<1>6. taken[c][f] = 0
  <2> SUFFICES ASSUME taken[c][f] > 0 PROVE FALSE
    BY <1>4
  <2>1. seen[c][f].count > 0 /\ born[f] <= seen[c][f].at
    BY <1>2, <1>3 DEF IInv, Remembered, TakenKnown
  <2>2. now - seen[c][f].at <= Ttl
    BY <1>2, <1>4, <2>1, Numbers, HopNat, WindowAssumption DEF WindowAssumption
  <2> QED
    BY <1>1, <2>1, <2>2 DEF Known, Live
<1> QED
  BY <1>1, <1>2, <1>3, <1>4, <1>5, <1>6 DEF e, f

LEMMA QuietRemembered ==
    ASSUME IInv, UNCHANGED <<now, born, sent, seen, taken>>
    PROVE  Remembered'
  BY DEF IInv, Remembered, EntriesRecent, TakenKnown, TableHolds, Recent

LEMMA TakeRemembers ==
    ASSUME IInv, NEW c \in Cars, Take(c)
    PROVE  Remembered'
<1> DEFINE f == Head(rx[c]).frame
<1>1. /\ f \in Frames /\ f \in sent /\ f \in Recent
      /\ born[f] \in Nat /\ born[f] <= now /\ now <= born[f] + Life
      /\ ~Known(c, f) /\ Record(c, f) /\ taken[c][f] = 0
      /\ taken' = [taken EXCEPT ![c][f] = @ + 1]
  BY TakenFirst
<1>2. UNCHANGED <<now, born, sent>>
  BY DEF Take
<1> HIDE DEF f
<1>3. TypeOK /\ EntriesRecent /\ TakenKnown /\ TableHolds
  BY DEF IInv, Remembered
<1>4. /\ seen'[c][f] = [at |-> now, count |-> 1]
      /\ \A d \in Cars, g \in Frames : <<d, g>> # <<c, f>> => seen'[d][g] = seen[d][g]
  BY <1>1, <1>3, RecordKeeps
<1>5. /\ taken'[c][f] = 1
      /\ \A d \in Cars, g \in Frames : <<d, g>> # <<c, f>> => taken'[d][g] = taken[d][g]
  BY <1>1, <1>3 DEF TypeOK
<1>6. EntriesRecent'
  <2> SUFFICES ASSUME NEW d \in Cars, NEW g \in Frames, seen'[d][g].count > 0
               PROVE  g \in sent /\ seen'[d][g].at <= born[g] + Life
    BY <1>2 DEF EntriesRecent, Life, Hop
  <2>1. CASE <<d, g>> = <<c, f>>
    BY <1>1, <1>4, <2>1
  <2>2. CASE <<d, g>> # <<c, f>>
    BY <1>3, <1>4, <2>2 DEF EntriesRecent
  <2> QED
    BY <2>1, <2>2
<1>7. TakenKnown'
  <2> SUFFICES ASSUME NEW d \in Cars, NEW g \in Frames, taken'[d][g] > 0
               PROVE  /\ g \in sent /\ taken'[d][g] = 1
                      /\ now <= born[g] + Life =>
                            seen'[d][g].count > 0 /\ born[g] <= seen'[d][g].at
    BY <1>2 DEF TakenKnown, Life, Hop
  <2>1. CASE <<d, g>> = <<c, f>>
    BY <1>1, <1>4, <1>5, <2>1
  <2>2. CASE <<d, g>> # <<c, f>>
    BY <1>3, <1>4, <1>5, <2>2 DEF TakenKnown
  <2> QED
    BY <2>1, <2>2
<1>8. TableHolds'
  BY <1>2, <1>3 DEF TableHolds, Recent
<1> QED
  BY <1>6, <1>7, <1>8 DEF Remembered

LEMMA TransmitRemembers ==
    ASSUME IInv, NEW f \in Frames, Transmit(f)
    PROVE  Remembered'
<1> DEFINE c == Source[f]
<1>1. /\ f \notin sent /\ Cardinality(Recent) < SeenSlots /\ Record(c, f)
      /\ sent' = sent \union {f} /\ born' = [born EXCEPT ![f] = now]
      /\ UNCHANGED <<now, taken>>
  BY DEF Transmit
<1>2. TypeOK /\ EntriesRecent /\ TakenKnown /\ Timely
  BY DEF IInv, Remembered
<1>3. c \in Cars
  BY FloodAssumption DEF FloodAssumption
<1> HIDE DEF c
<1>4. /\ seen'[c][f] = [at |-> now, count |-> 1]
      /\ \A d \in Cars, g \in Frames : <<d, g>> # <<c, f>> => seen'[d][g] = seen[d][g]
  BY <1>1, <1>2, <1>3, RecordKeeps
<1>5. born'[f] = now /\ (\A g \in Frames \ {f} : born'[g] = born[g]) /\ now \in Nat
  BY <1>1, <1>2 DEF TypeOK
<1>6. EntriesRecent'
  <2> SUFFICES ASSUME NEW d \in Cars, NEW g \in Frames, seen'[d][g].count > 0
               PROVE  g \in sent' /\ seen'[d][g].at <= born'[g] + Life
    BY DEF EntriesRecent, Life, Hop
  <2>1. CASE <<d, g>> = <<c, f>>
    BY <1>1, <1>4, <1>5, <2>1, HopNat
  <2>2. CASE <<d, g>> # <<c, f>>
    <3>1. g \in sent /\ seen'[d][g].at <= born[g] + Life
      BY <1>2, <1>4, <2>2 DEF EntriesRecent
    <3> QED
      BY <1>1, <1>5, <3>1
  <2> QED
    BY <2>1, <2>2
<1>7. TakenKnown'
  <2> SUFFICES ASSUME NEW d \in Cars, NEW g \in Frames, taken[d][g] > 0
               PROVE  /\ g \in sent' /\ taken[d][g] = 1
                      /\ now <= born'[g] + Life =>
                            seen'[d][g].count > 0 /\ born'[g] <= seen'[d][g].at
    BY <1>1 DEF TakenKnown, Life, Hop
  <2>1. /\ g \in sent /\ taken[d][g] = 1
        /\ now <= born[g] + Life => seen[d][g].count > 0 /\ born[g] <= seen[d][g].at
    BY <1>2 DEF TakenKnown
  <2>2. g # f
    BY <1>1, <2>1
  <2> QED
    BY <1>1, <1>4, <1>5, <2>1, <2>2
<1>8. TableHolds'
  <2>1. IsFiniteSet(Recent) /\ Recent \subseteq sent
    BY <1>2, FloodAssumption, FS_Subset DEF FloodAssumption, Recent, TypeOK
  <2>2. Recent' = {g \in sent' : now <= born'[g] + Ttl + Life}
    BY <1>1 DEF Recent, Life, Hop
  <2>3. Recent' \subseteq Recent \union {f}
    BY <1>1, <1>2, <1>5, <2>2 DEF Recent, TypeOK
  <2>4. /\ IsFiniteSet(Recent \union {f})
        /\ Cardinality(Recent \union {f}) = Cardinality(Recent) + 1
    BY <1>1, <2>1, FS_AddElement
  <2>5. Cardinality(Recent') <= Cardinality(Recent \union {f}) /\ IsFiniteSet(Recent')
    BY <2>3, <2>4, FS_Subset
  <2>6. Cardinality(Recent) \in Nat /\ Cardinality(Recent') \in Nat
    BY <2>1, <2>5, FS_CardinalityType
  <2> QED
    BY <1>1, <2>4, <2>5, <2>6, Numbers DEF TableHolds
<1> QED
  BY <1>6, <1>7, <1>8 DEF Remembered

LEMMA RememberedStep == IInv /\ [Next]_vars => Remembered'
<1> SUFFICES ASSUME IInv, [Next]_vars PROVE Remembered'
  OBVIOUS
<1>0. TypeOK /\ EntriesRecent /\ TakenKnown /\ TableHolds
  BY DEF IInv, Remembered
<1>1. CASE Tick
  <2>1. now' = now + 1 /\ now \in Nat /\ UNCHANGED <<born, sent, seen, taken>>
    BY <1>0, <1>1 DEF Tick, TypeOK, story
  <2>2. EntriesRecent'
    BY <1>0, <2>1 DEF EntriesRecent, Life, Hop
  <2>3. TakenKnown'
    <3> SUFFICES ASSUME NEW d \in Cars, NEW g \in Frames, taken[d][g] > 0
                 PROVE  /\ g \in sent /\ taken[d][g] = 1
                        /\ now + 1 <= born[g] + Life =>
                              seen[d][g].count > 0 /\ born[g] <= seen[d][g].at
      BY <2>1 DEF TakenKnown, Life, Hop
    <3>1. /\ g \in sent /\ taken[d][g] = 1
          /\ now <= born[g] + Life => seen[d][g].count > 0 /\ born[g] <= seen[d][g].at
      BY <1>0 DEF TakenKnown
    <3>2. born[g] \in Nat
      BY <1>0 DEF TypeOK
    <3> QED
      BY <2>1, <3>1, <3>2, HopNat
  <2>4. TableHolds'
    <3>1. IsFiniteSet(Recent)
      BY <1>0, FloodAssumption, FS_Subset DEF FloodAssumption, Recent, TypeOK
    <3>2. Recent' = {g \in sent : now + 1 <= born[g] + Ttl + Life}
      BY <2>1 DEF Recent, Life, Hop
    <3>3. Recent' \subseteq Recent
      BY <1>0, <2>1, <3>2, Numbers, HopNat DEF Recent, TypeOK
    <3>4. Cardinality(Recent') <= Cardinality(Recent) /\ IsFiniteSet(Recent')
      BY <3>1, <3>3, FS_Subset
    <3>5. Cardinality(Recent) \in Nat /\ Cardinality(Recent') \in Nat
      BY <3>1, <3>4, FS_CardinalityType
    <3> QED
      BY <1>0, <3>4, <3>5, Numbers DEF TableHolds
  <2> QED
    BY <2>2, <2>3, <2>4 DEF Remembered
<1>2. ASSUME NEW f \in Frames, Transmit(f) PROVE Remembered'
  BY <1>2, TransmitRemembers
<1>3. ASSUME NEW c \in Cars, Pass(c) PROVE Remembered'
  <2>1. CASE TakeOnly(c) \/ TakeAndHold(c) \/ TakeNoRoom(c)
    <3>1. Take(c)
      BY <2>1 DEF TakeOnly, TakeAndHold, TakeNoRoom
    <3> QED
      BY <3>1, TakeRemembers
  <2>2. CASE DrainCopy(c)
    <3> DEFINE f == Head(rx[c]).frame
    <3>1. /\ Poll(c) /\ Known(c, f) /\ seen' = [seen EXCEPT ![c][f].count = @ + 1]
          /\ UNCHANGED <<now, born, sent, taken>>
      BY <2>2 DEF DrainCopy
    <3>2. f \in Frames
      BY <1>0, <3>1, PollTakes DEF Copy
    <3> HIDE DEF f
    <3>3. seen[c][f].count > 0
      BY <3>1 DEF Known, Live
    <3>4. \A d \in Cars, g \in Frames : /\ seen'[d][g].at = seen[d][g].at
                                        /\ seen'[d][g].count > 0 <=> seen[d][g].count > 0
      <4> SUFFICES ASSUME NEW d \in Cars, NEW g \in Frames
                   PROVE  /\ seen'[d][g].at = seen[d][g].at
                          /\ seen'[d][g].count > 0 <=> seen[d][g].count > 0
        OBVIOUS
      <4>1. seen \in [Cars -> [Frames -> [at : Nat, count : Nat]]]
        BY <1>0 DEF TypeOK
      <4>2. CASE d = c /\ g = f
        <5>1. seen'[c][f] = [seen[c][f] EXCEPT !.count = @ + 1]
          BY <3>1, <3>2, <4>1
        <5>2. seen[c][f] \in [at : Nat, count : Nat]
          BY <3>2, <4>1
        <5> QED
          BY <3>3, <4>2, <5>1, <5>2
      <4>3. CASE ~(d = c /\ g = f)
        <5>1. seen'[d][g] = seen[d][g]
          BY <3>1, <4>1, <4>3
        <5> QED
          BY <5>1
      <4> QED
        BY <4>2, <4>3
    <3>5. EntriesRecent'
      BY <1>0, <3>1, <3>4 DEF EntriesRecent, Life, Hop
    <3>6. TakenKnown'
      BY <1>0, <3>1, <3>4 DEF TakenKnown, Life, Hop
    <3>7. TableHolds'
      BY <1>0, <3>1 DEF TableHolds, Recent
    <3> QED
      BY <3>5, <3>6, <3>7 DEF Remembered
  <2>3. CASE DrainOwn(c) \/ GiveUp(c) \/ Forward(c) \/ ForwardRefused(c) \/ NextPass(c)
    <3>1. UNCHANGED <<now, born, sent, seen, taken>>
      BY <2>3 DEF DrainOwn, GiveUp, Forward, ForwardRefused, NextPass, story
    <3> QED
      BY <3>1, QuietRemembered
  <2> QED
    BY <1>3, <2>1, <2>2, <2>3 DEF Pass
<1>4. CASE UNCHANGED vars
  <2>1. UNCHANGED <<now, born, sent, seen, taken>>
    BY <1>4 DEF vars, boards, story
  <2> QED
    BY <2>1, QuietRemembered
<1> QED
  BY <1>1, <1>2, <1>3, <1>4 DEF Next

-----------------------------------------------------------------------------
(* What the copies about, the tables and the history have to do with each  *)
(* other.                                                                  *)

\* A car remembers its own frames and those it took.
KnownTaken ==
    \A c \in Cars, f \in Frames :
        seen[c][f].count > 0 => c = Source[f] \/ taken[c][f] > 0

InQueue(c, f) == \E i \in 1 .. Len(rx[c]) : rx[c][i].frame = f

\* b has f from a, will have it, or there is a reason why not.
OnItsWay(a, b, f) ==
    \/ b = Source[f] \/ taken[b][f] > 0
    \/ InQueue(b, f) \/ \E h \in held[a] : h.frame = f
    \/ <<a, f>> \in quit \union refused \/ <<b, f>> \in missed

Carried ==
    \A a, b \in Cars, f \in Frames :
        <<a, b>> \in Links /\ ((a = Source[f] /\ f \in sent) \/ <<a, f>> \in owes)
            => OnItsWay(a, b, f)

\* a has put f on the air.
Aired(a, f) == IF a = Source[f] THEN f \in sent ELSE <<a, f>> \in spoke

\* A car holds one forward of a frame, taken before and not sent on yet.
HeldOnce ==
    /\ \A c \in Cars : \A h \in held[c] :
          /\ c # Source[h.frame] /\ taken[c][h.frame] > 0 /\ <<c, h.frame>> \notin spoke
          /\ \A g \in held[c] : g.frame = h.frame => g = h
    /\ \A c \in Cars, f \in Frames : <<c, f>> \in spoke => taken[c][f] > 0

\* A car hears a frame from another once, as that one airs it once.
HeardOnce ==
    /\ \A c \in Cars : \A i \in 1 .. Len(rx[c]) :
          /\ rx[c][i].from \notin heard[c][rx[c][i].frame]
          /\ Aired(rx[c][i].from, rx[c][i].frame)
          /\ \A j \in 1 .. Len(rx[c]) :
                rx[c][j].from = rx[c][i].from /\ rx[c][j].frame = rx[c][i].frame => j = i
    /\ \A c \in Cars, f \in Frames : \A a \in heard[c][f] : Aired(a, f)

\* So the entry counts the cars it was heard from.
CountsHeard ==
    \A c \in Cars, f \in Frames :
        /\ heard[c][f] # {} => taken[c][f] > 0
        /\ seen[c][f].count > 0 /\ c # Source[f] =>
              seen[c][f].count = Cardinality(heard[c][f])

Story == KnownTaken /\ Carried /\ HeldOnce /\ HeardOnce /\ CountsHeard

LEMMA StoryInit == Init => Story
<1> SUFFICES ASSUME Init PROVE Story
  OBVIOUS
<1>1. KnownTaken /\ Carried
  BY DEF Init, KnownTaken, Carried, Unused
<1>2. HeldOnce /\ HeardOnce /\ CountsHeard
  BY DEF Init, HeldOnce, HeardOnce, CountsHeard, Unused
<1> QED
  BY <1>1, <1>2 DEF Story

\* The air puts a copy last in the queue of each car in earshot, or there is
\* a copy missed.
LEMMA BroadcastPuts ==
    ASSUME TypeOK, NEW from \in Cars, NEW f \in Frames, NEW hops, Broadcast(from, f, hops)
    PROVE  /\ missed \subseteq missed'
           /\ \A d \in Cars :
                 \/ rx'[d] = rx[d] /\ (<<from, d>> \in Links => <<d, f>> \in missed')
                 \/ rx'[d] = Append(rx[d], [frame |-> f, hops |-> hops, from |-> from, at |-> now])
<1> DEFINE copy == [frame |-> f, hops |-> hops, from |-> from, at |-> now]
           reach == {d \in Cars : <<from, d>> \in Links}
<1>1. PICK deaf \in SUBSET reach :
          LET in == {d \in reach \ deaf : Len(rx[d]) < RxDepth}
          IN  /\ rx' = [d \in Cars |-> IF d \in in THEN Append(rx[d], copy) ELSE rx[d]]
              /\ missed' = missed \union {<<d, f>> : d \in reach \ in}
  BY Zenon DEF Broadcast
<1> DEFINE in == {d \in reach \ deaf : Len(rx[d]) < RxDepth}
<1>2. /\ rx' = [d \in Cars |-> IF d \in in THEN Append(rx[d], copy) ELSE rx[d]]
      /\ missed' = missed \union {<<d, f>> : d \in reach \ in}
  BY <1>1
<1> HIDE DEF in, copy
<1>3. ASSUME NEW d \in Cars
      PROVE  \/ rx'[d] = rx[d] /\ (<<from, d>> \in Links => <<d, f>> \in missed')
             \/ rx'[d] = Append(rx[d], copy)
  BY <1>2
<1> QED
  BY <1>2, <1>3 DEF copy

\* What a queue holds once a copy of f from `from` may have been put last.
LEMMA QueueAfter ==
    ASSUME TypeOK, HeardOnce, NEW from \in Cars, NEW f \in Frames, NEW hops \in 0 .. Hops,
           Broadcast(from, f, hops), ~Aired(from, f), heard' = heard
    PROVE  /\ missed \subseteq missed'
           /\ \A d \in Cars, g \in Frames : InQueue(d, g) => InQueue(d, g)'
           /\ \A d \in Cars : <<from, d>> \in Links => InQueue(d, f)' \/ <<d, f>> \in missed'
           /\ \A d \in Cars : \A i \in 1 .. Len(rx'[d]) :
                 /\ rx'[d][i].from \notin heard[d][rx'[d][i].frame]
                 /\ \/ Aired(rx'[d][i].from, rx'[d][i].frame)
                    \/ rx'[d][i].from = from /\ rx'[d][i].frame = f
                 /\ \A j \in 1 .. Len(rx'[d]) :
                       rx'[d][j].from = rx'[d][i].from /\ rx'[d][j].frame = rx'[d][i].frame => j = i
<1> DEFINE copy == [frame |-> f, hops |-> hops, from |-> from, at |-> now]
<1>1. copy \in Copy /\ copy.frame = f /\ copy.from = from
  BY DEF Copy, TypeOK
<1>2. /\ missed \subseteq missed'
      /\ \A d \in Cars : \/ rx'[d] = rx[d] /\ (<<from, d>> \in Links => <<d, f>> \in missed')
                         \/ rx'[d] = Append(rx[d], copy)
  BY BroadcastPuts
<1> HIDE DEF copy
<1>3. ASSUME NEW d \in Cars
      PROVE  /\ \A g \in Frames : InQueue(d, g) => InQueue(d, g)'
             /\ <<from, d>> \in Links => InQueue(d, f)' \/ <<d, f>> \in missed'
             /\ \A i \in 1 .. Len(rx'[d]) :
                   /\ rx'[d][i].from \notin heard[d][rx'[d][i].frame]
                   /\ \/ Aired(rx'[d][i].from, rx'[d][i].frame)
                      \/ rx'[d][i].from = from /\ rx'[d][i].frame = f
                   /\ \A j \in 1 .. Len(rx'[d]) :
                         rx'[d][j].from = rx'[d][i].from /\ rx'[d][j].frame = rx'[d][i].frame => j = i
  <2>1. CASE rx'[d] = rx[d] /\ (<<from, d>> \in Links => <<d, f>> \in missed')
    BY <2>1 DEF HeardOnce, InQueue
  <2>2. CASE rx'[d] = Append(rx[d], copy)
    <3> DEFINE q == rx[d]
               n == Len(q) + 1
    <3>1. q \in Seq(Copy) /\ Len(q) \in Nat
      BY DEF TypeOK
    <3>2. Len(rx'[d]) = n /\ rx'[d][n] = copy /\ \A i \in 1 .. Len(q) : rx'[d][i] = q[i]
      BY <1>1, <2>2, <3>1, AppendProperties
    <3>3. \A i \in 1 .. n : i = n \/ i \in 1 .. Len(q)
      BY <3>1
    <3>4. \A i \in 1 .. Len(q) : i \in 1 .. n /\ i # n
      BY <3>1
    <3>5. n \in 1 .. n
      BY <3>1
    <3>6. from \notin heard[d][f]
      BY DEF HeardOnce
    <3>7. \A i \in 1 .. Len(q) :
             /\ q[i].from \notin heard[d][q[i].frame] /\ Aired(q[i].from, q[i].frame)
             /\ ~(q[i].from = from /\ q[i].frame = f)
             /\ \A j \in 1 .. Len(q) : q[j].from = q[i].from /\ q[j].frame = q[i].frame => j = i
      BY DEF HeardOnce
    <3> HIDE DEF q, n
    <3>8. ASSUME NEW g \in Frames, InQueue(d, g) PROVE InQueue(d, g)'
      <4>1. PICK i \in 1 .. Len(q) : q[i].frame = g
        BY <3>8 DEF InQueue, q
      <4> QED
        BY <3>2, <3>4, <4>1 DEF InQueue
    <3>9. InQueue(d, f)'
      BY <1>1, <3>2, <3>5 DEF InQueue
    <3>10. ASSUME NEW i \in 1 .. Len(rx'[d])
           PROVE  /\ rx'[d][i].from \notin heard[d][rx'[d][i].frame]
                  /\ \/ Aired(rx'[d][i].from, rx'[d][i].frame)
                     \/ rx'[d][i].from = from /\ rx'[d][i].frame = f
                  /\ \A j \in 1 .. Len(rx'[d]) :
                        rx'[d][j].from = rx'[d][i].from /\ rx'[d][j].frame = rx'[d][i].frame => j = i
      <4>1. CASE i = n
        BY <1>1, <3>2, <3>3, <3>6, <3>7, <4>1
      <4>2. CASE i \in 1 .. Len(q)
        BY <1>1, <3>2, <3>3, <3>7, <4>2
      <4> QED
        BY <3>2, <3>3, <4>1, <4>2
    <3> QED
      BY <3>8, <3>9, <3>10
  <2> QED
    BY <1>2, <2>1, <2>2
<1> QED
  BY <1>2, <1>3

\* What is left in a queue once its head is taken.
LEMMA QueueLeft ==
    ASSUME TypeOK, HeardOnce, NEW c \in Cars, Poll(c)
    PROVE  /\ \A d \in Cars, g \in Frames :
                 InQueue(d, g) => InQueue(d, g)' \/ (d = c /\ g = Head(rx[c]).frame)
           /\ Head(rx[c]).from \in Cars
           /\ Head(rx[c]).from \notin heard[c][Head(rx[c]).frame]
           /\ Aired(Head(rx[c]).from, Head(rx[c]).frame)
           /\ \A d \in Cars : \A i \in 1 .. Len(rx'[d]) :
                 /\ rx'[d][i].from \notin heard[d][rx'[d][i].frame]
                 /\ Aired(rx'[d][i].from, rx'[d][i].frame)
                 /\ \A j \in 1 .. Len(rx'[d]) :
                       rx'[d][j].from = rx'[d][i].from /\ rx'[d][j].frame = rx'[d][i].frame => j = i
                 /\ ~(d = c /\ rx'[d][i].from = Head(rx[c]).from
                            /\ rx'[d][i].frame = Head(rx[c]).frame)
<1> DEFINE q == rx[c]
           e == Head(q)
<1>1. q \in Seq(Copy) /\ q # << >> /\ rx' = [rx EXCEPT ![c] = Tail(q)]
  BY DEF Poll, TypeOK
<1>2. /\ e = q[1] /\ 1 \in 1 .. Len(q) /\ e \in Copy /\ Len(q) \in Nat
      /\ Len(Tail(q)) = Len(q) - 1
      /\ \A i \in 1 .. Len(q) - 1 : Tail(q)[i] = q[i + 1]
  BY <1>1
<1>3. rx'[c] = Tail(q) /\ \A d \in Cars : d # c => rx'[d] = rx[d]
  BY <1>1 DEF TypeOK
<1>4. \A i \in 1 .. Len(q) :
         /\ q[i].from \notin heard[c][q[i].frame] /\ Aired(q[i].from, q[i].frame)
         /\ \A j \in 1 .. Len(q) : q[j].from = q[i].from /\ q[j].frame = q[i].frame => j = i
  BY DEF HeardOnce
<1> HIDE DEF q, e
<1>5. ASSUME NEW g \in Frames, InQueue(c, g)
      PROVE  InQueue(c, g)' \/ g = e.frame
  <2>1. PICK i \in 1 .. Len(q) : q[i].frame = g
    BY <1>5 DEF InQueue, q
  <2>2. CASE i = 1
    BY <1>2, <2>1, <2>2
  <2>3. CASE i # 1
    <3>1. i - 1 \in 1 .. Len(q) - 1 /\ (i - 1) + 1 = i
      BY <1>2, <2>3
    <3>2. Tail(q)[i - 1] = q[i] /\ i - 1 \in 1 .. Len(Tail(q))
      BY <1>2, <3>1
    <3> QED
      BY <1>3, <2>1, <3>2 DEF InQueue
  <2> QED
    BY <2>2, <2>3
<1>6. \A d \in Cars, g \in Frames : InQueue(d, g) => InQueue(d, g)' \/ (d = c /\ g = e.frame)
  BY <1>3, <1>5 DEF InQueue
<1>7. ASSUME NEW i \in 1 .. Len(rx'[c])
      PROVE  /\ rx'[c][i].from \notin heard[c][rx'[c][i].frame]
             /\ Aired(rx'[c][i].from, rx'[c][i].frame)
             /\ \A j \in 1 .. Len(rx'[c]) :
                   rx'[c][j].from = rx'[c][i].from /\ rx'[c][j].frame = rx'[c][i].frame => j = i
             /\ ~(rx'[c][i].from = e.from /\ rx'[c][i].frame = e.frame)
  <2>1. \A k \in 1 .. Len(rx'[c]) :
           k \in Int /\ k + 1 \in 1 .. Len(q) /\ k + 1 # 1 /\ rx'[c][k] = q[k + 1]
    BY <1>2, <1>3
  <2>2. \A k \in 1 .. Len(rx'[c]) : k + 1 = i + 1 => k = i
    BY <2>1
  <2> QED
    BY <1>2, <1>4, <2>1, <2>2
<1>8. \A d \in Cars : d # c => \A i \in 1 .. Len(rx'[d]) :
         /\ rx'[d][i].from \notin heard[d][rx'[d][i].frame]
         /\ Aired(rx'[d][i].from, rx'[d][i].frame)
         /\ \A j \in 1 .. Len(rx'[d]) :
               rx'[d][j].from = rx'[d][i].from /\ rx'[d][j].frame = rx'[d][i].frame => j = i
  BY <1>3 DEF HeardOnce
<1>9. e.from \in Cars /\ e.from \notin heard[c][e.frame] /\ Aired(e.from, e.frame)
  BY <1>2, <1>4 DEF Copy
<1> QED
  BY <1>6, <1>7, <1>8, <1>9 DEF e, q

\* A frame on its way stays so while nothing is forgotten.
LEMMA StaysOnItsWay ==
    ASSUME NEW a, NEW b, NEW f, OnItsWay(a, b, f),
           taken[b][f] > 0 => taken'[b][f] > 0,
           InQueue(b, f) => InQueue(b, f)' \/ b = Source[f] \/ taken'[b][f] > 0,
           \A h \in held[a] : h.frame = f =>
              \/ h \in held'[a] \/ InQueue(b, f)' \/ <<b, f>> \in missed'
              \/ <<a, f>> \in quit' \union refused',
           quit \subseteq quit', refused \subseteq refused', missed \subseteq missed'
    PROVE  OnItsWay(a, b, f)'
BY DEF OnItsWay

LEMMA QuietStory ==
    ASSUME Story, UNCHANGED <<rx, seen, held, sent, story>>
    PROVE  Story'
<1> USE DEF Story, story
<1>1. KnownTaken' /\ CountsHeard'
  BY DEF KnownTaken, CountsHeard
<1>2. Carried'
  BY DEF Carried, OnItsWay, InQueue
<1>3. HeldOnce' /\ HeardOnce'
  BY DEF HeldOnce, HeardOnce, Aired
<1> QED
  BY <1>1, <1>2, <1>3

LEMMA TransmitStory ==
    ASSUME IInv, Story, NEW f \in Frames, Transmit(f)
    PROVE  Story'
<1> DEFINE c == Source[f]
<1>1. /\ f \notin sent /\ Cardinality(Recent) < SeenSlots /\ Record(c, f)
      /\ sent' = sent \union {f} /\ Broadcast(c, f, Hops)
      /\ UNCHANGED <<held, taken, heard, owes, spoke, quit, refused>>
  BY DEF Transmit
<1>2. TypeOK /\ EntriesRecent
  BY DEF IInv, Remembered
<1>3. c \in Cars /\ Hops \in 0 .. Hops
  BY FloodAssumption, Numbers DEF FloodAssumption
<1>4. c = Source[f]
  OBVIOUS
<1> HIDE DEF c
<1>5. \A d \in Cars, g \in Frames : <<d, g>> # <<c, f>> => seen'[d][g] = seen[d][g]
  BY <1>1, <1>2, <1>3, RecordKeeps
<1>6. ~Aired(c, f)
  BY <1>1, <1>4 DEF Aired
<1>7. /\ missed \subseteq missed'
      /\ \A d \in Cars, g \in Frames : InQueue(d, g) => InQueue(d, g)'
      /\ \A d \in Cars : <<c, d>> \in Links => InQueue(d, f)' \/ <<d, f>> \in missed'
      /\ \A d \in Cars : \A i \in 1 .. Len(rx'[d]) :
            /\ rx'[d][i].from \notin heard[d][rx'[d][i].frame]
            /\ \/ Aired(rx'[d][i].from, rx'[d][i].frame)
               \/ rx'[d][i].from = c /\ rx'[d][i].frame = f
            /\ \A j \in 1 .. Len(rx'[d]) :
                  rx'[d][j].from = rx'[d][i].from /\ rx'[d][j].frame = rx'[d][i].frame => j = i
  BY <1>1, <1>2, <1>3, <1>6, QueueAfter DEF Story
<1>8. \A d, g : Aired(d, g) \/ (d = c /\ g = f) => Aired(d, g)'
  BY <1>1, <1>4 DEF Aired
<1>9. KnownTaken'
  BY <1>1, <1>4, <1>5 DEF Story, KnownTaken
<1>10. Carried'
  <2> SUFFICES ASSUME NEW a \in Cars, NEW b \in Cars, NEW g \in Frames, <<a, b>> \in Links,
                      (a = Source[g] /\ g \in sent') \/ <<a, g>> \in owes
               PROVE  OnItsWay(a, b, g)'
    BY <1>1 DEF Carried
  <2>1. CASE a = c /\ g = f
    BY <1>7, <2>1 DEF OnItsWay
  <2>2. CASE ~(a = c /\ g = f)
    <3>1. OnItsWay(a, b, g)
      BY <1>1, <1>4, <2>2 DEF Story, Carried
    <3> QED
      BY <1>1, <1>7, <3>1, StaysOnItsWay
  <2> QED
    BY <2>1, <2>2
<1>11. HeldOnce'
  BY <1>1 DEF Story, HeldOnce
<1>12. HeardOnce'
  BY <1>1, <1>7, <1>8 DEF Story, HeardOnce
<1>13. CountsHeard'
  BY <1>1, <1>4, <1>5 DEF Story, CountsHeard
<1> QED
  BY <1>9, <1>10, <1>11, <1>12, <1>13 DEF Story

LEMMA DrainOwnStory ==
    ASSUME IInv, Story, NEW c \in Cars, DrainOwn(c)
    PROVE  Story'
<1>1. /\ Poll(c) /\ Source[Head(rx[c]).frame] = c
      /\ UNCHANGED <<seen, held, sent, story>>
  BY DEF DrainOwn
<1>2. /\ \A d \in Cars, g \in Frames :
            InQueue(d, g) => InQueue(d, g)' \/ (d = c /\ g = Head(rx[c]).frame)
      /\ \A d \in Cars : \A i \in 1 .. Len(rx'[d]) :
            /\ rx'[d][i].from \notin heard[d][rx'[d][i].frame]
            /\ Aired(rx'[d][i].from, rx'[d][i].frame)
            /\ \A j \in 1 .. Len(rx'[d]) :
                  rx'[d][j].from = rx'[d][i].from /\ rx'[d][j].frame = rx'[d][i].frame => j = i
  BY <1>1, QueueLeft DEF IInv, Story
<1>3. KnownTaken' /\ HeldOnce' /\ CountsHeard'
  BY <1>1 DEF Story, KnownTaken, HeldOnce, CountsHeard, story
<1>4. Carried'
  <2> SUFFICES ASSUME NEW a \in Cars, NEW b \in Cars, NEW g \in Frames, <<a, b>> \in Links,
                      (a = Source[g] /\ g \in sent) \/ <<a, g>> \in owes
               PROVE  OnItsWay(a, b, g)'
    BY <1>1 DEF Carried, story
  <2>1. OnItsWay(a, b, g)
    BY DEF Story, Carried
  <2> QED
    BY <1>1, <1>2, <2>1, StaysOnItsWay DEF story
<1>5. HeardOnce'
  BY <1>1, <1>2 DEF Story, HeardOnce, Aired, story
<1> QED
  BY <1>3, <1>4, <1>5 DEF Story

LEMMA DrainCopyStory ==
    ASSUME IInv, Story, NEW c \in Cars, DrainCopy(c)
    PROVE  Story'
<1> DEFINE e == Head(rx[c])
           f == e.frame
<1>1. /\ Poll(c) /\ Source[f] # c /\ Known(c, f)
      /\ seen' = [seen EXCEPT ![c][f].count = @ + 1]
      /\ heard' = [heard EXCEPT ![c][f] = @ \union {e.from}]
      /\ UNCHANGED <<held, sent, taken, owes, spoke, quit, refused, missed>>
  BY DEF DrainCopy, Counted
<1>2. TypeOK
  BY DEF IInv
<1>3. e \in Copy /\ f \in Frames
  BY <1>1, <1>2, PollTakes DEF Copy
<1>4. /\ \A d \in Cars, g \in Frames : InQueue(d, g) => InQueue(d, g)' \/ (d = c /\ g = f)
      /\ e.from \in Cars /\ e.from \notin heard[c][f] /\ Aired(e.from, f)
      /\ \A d \in Cars : \A i \in 1 .. Len(rx'[d]) :
            /\ rx'[d][i].from \notin heard[d][rx'[d][i].frame]
            /\ Aired(rx'[d][i].from, rx'[d][i].frame)
            /\ \A j \in 1 .. Len(rx'[d]) :
                  rx'[d][j].from = rx'[d][i].from /\ rx'[d][j].frame = rx'[d][i].frame => j = i
            /\ ~(d = c /\ rx'[d][i].from = e.from /\ rx'[d][i].frame = f)
  BY <1>1, <1>2, QueueLeft DEF Story
<1> HIDE DEF e, f
<1>5. /\ seen[c][f].count > 0 /\ seen[c][f] \in [at : Nat, count : Nat]
      /\ seen'[c][f].count = seen[c][f].count + 1
      /\ \A d \in Cars, g \in Frames : ~(d = c /\ g = f) => seen'[d][g] = seen[d][g]
  <2>1. seen \in [Cars -> [Frames -> [at : Nat, count : Nat]]]
    BY <1>2 DEF TypeOK
  <2>2. seen[c][f] \in [at : Nat, count : Nat]
    BY <1>3, <2>1
  <2>3. seen'[c][f] = [seen[c][f] EXCEPT !.count = @ + 1]
    BY <1>1, <1>3, <2>1
  <2>4. \A d \in Cars, g \in Frames : ~(d = c /\ g = f) => seen'[d][g] = seen[d][g]
    BY <1>1, <2>1
  <2> QED
    BY <1>1, <2>2, <2>3, <2>4 DEF Known, Live
<1>6. taken[c][f] > 0
  BY <1>1, <1>3, <1>5 DEF Story, KnownTaken
<1>7. /\ heard'[c][f] = heard[c][f] \union {e.from}
      /\ \A d \in Cars, g \in Frames : ~(d = c /\ g = f) => heard'[d][g] = heard[d][g]
  BY <1>1, <1>2, <1>3 DEF TypeOK
<1>8. KnownTaken'
  BY <1>1, <1>5, <1>6 DEF Story, KnownTaken
<1>9. Carried'
  <2> SUFFICES ASSUME NEW a \in Cars, NEW b \in Cars, NEW g \in Frames, <<a, b>> \in Links,
                      (a = Source[g] /\ g \in sent) \/ <<a, g>> \in owes
               PROVE  OnItsWay(a, b, g)'
    BY <1>1 DEF Carried
  <2>1. OnItsWay(a, b, g)
    BY DEF Story, Carried
  <2> QED
    BY <1>1, <1>4, <1>6, <2>1, StaysOnItsWay
<1>10. HeldOnce'
  BY <1>1 DEF Story, HeldOnce
<1>11. HeardOnce'
  <2>1. \A d \in Cars : \A i \in 1 .. Len(rx'[d]) : rx'[d][i].frame \in Frames
    <3> SUFFICES ASSUME NEW d \in Cars, NEW i \in 1 .. Len(rx'[d]) PROVE rx'[d][i].frame \in Frames
      OBVIOUS
    <3>1. rx'[d] \in Seq(Copy)
      BY <1>1, <1>2, PollTakes
    <3>2. rx'[d][i] \in Copy
      BY <3>1
    <3> QED
      BY <3>2 DEF Copy
  <2>2. \A d \in Cars : \A i \in 1 .. Len(rx'[d]) :
           rx'[d][i].from \notin heard'[d][rx'[d][i].frame]
    BY <1>4, <1>7, <2>1
  <2>3. \A d \in Cars, g \in Frames : \A a \in heard'[d][g] : Aired(a, g)
    BY <1>4, <1>7 DEF Story, HeardOnce
  <2>4. \A a, g : Aired(a, g)' <=> Aired(a, g)
    BY <1>1 DEF Aired
  <2> QED
    BY <1>4, <2>2, <2>3, <2>4 DEF HeardOnce
<1>12. CountsHeard'
  <2>1. Cardinality(heard'[c][f]) = Cardinality(heard[c][f]) + 1
    <3>1. IsFiniteSet(heard[c][f])
      BY <1>2, <1>3, FloodAssumption, FS_Subset DEF FloodAssumption, TypeOK
    <3> QED
      BY <1>4, <1>7, <3>1, FS_AddElement
  <2>2. seen[c][f].count = Cardinality(heard[c][f])
    BY <1>1, <1>3, <1>5 DEF Story, CountsHeard
  <2> SUFFICES ASSUME NEW d \in Cars, NEW g \in Frames
               PROVE  /\ heard'[d][g] # {} => taken[d][g] > 0
                      /\ seen'[d][g].count > 0 /\ d # Source[g] =>
                            seen'[d][g].count = Cardinality(heard'[d][g])
    BY <1>1 DEF CountsHeard
  <2>3. CASE d = c /\ g = f
    BY <1>5, <1>6, <2>1, <2>2, <2>3
  <2>4. CASE ~(d = c /\ g = f)
    BY <1>5, <1>7, <2>4 DEF Story, CountsHeard
  <2> QED
    BY <2>3, <2>4
<1> QED
  BY <1>8, <1>9, <1>10, <1>11, <1>12 DEF Story

\* A frame taken for the first time: counted once, and held or refused if it
\* has hops left.
LEMMA TakeStory ==
    ASSUME IInv, Story, NEW c \in Cars, TakeOnly(c) \/ TakeAndHold(c) \/ TakeNoRoom(c)
    PROVE  Story'
<1> DEFINE e == Head(rx[c])
           f == e.frame
<1>1. /\ Poll(c) /\ Source[f] # c /\ Take(c)
      /\ heard' = [heard EXCEPT ![c][f] = @ \union {e.from}]
      /\ owes' = IF e.hops > 0 THEN owes \union {<<c, f>>} ELSE owes
      /\ UNCHANGED <<sent, spoke, quit, missed>>
  BY DEF TakeOnly, TakeAndHold, TakeNoRoom, Take, Counted
<1>2. TypeOK /\ EntriesRecent /\ TableHolds
  BY DEF IInv, Remembered
<1>3. e \in Copy
  BY <1>1, <1>2, PollTakes
<1>4. /\ f \in Frames /\ f \in Recent /\ ~Known(c, f) /\ Record(c, f) /\ taken[c][f] = 0
      /\ taken' = [taken EXCEPT ![c][f] = @ + 1]
  BY <1>1, TakenFirst
<1>5. /\ \A d \in Cars, g \in Frames : InQueue(d, g) => InQueue(d, g)' \/ (d = c /\ g = f)
      /\ e.from \in Cars /\ e.from \notin heard[c][f] /\ Aired(e.from, f)
      /\ \A d \in Cars : \A i \in 1 .. Len(rx'[d]) :
            /\ rx'[d][i].from \notin heard[d][rx'[d][i].frame]
            /\ Aired(rx'[d][i].from, rx'[d][i].frame)
            /\ \A j \in 1 .. Len(rx'[d]) :
                  rx'[d][j].from = rx'[d][i].from /\ rx'[d][j].frame = rx'[d][i].frame => j = i
            /\ ~(d = c /\ rx'[d][i].from = e.from /\ rx'[d][i].frame = f)
  BY <1>1, <1>2, QueueLeft DEF Story
\* What becomes of the forward.
<1>6. /\ refused \subseteq refused'
      /\ \/ held' = held /\ (e.hops > 0 => <<c, f>> \in refused')
         \/ \E h \in [frame : Frames, hops : 0 .. Hops, due : Nat] :
               h.frame = f /\ held' = [held EXCEPT ![c] = @ \union {h}]
  <2>1. CASE TakeOnly(c)
    BY <2>1 DEF TakeOnly, MayForward
  <2>2. CASE TakeNoRoom(c)
    BY <2>2 DEF TakeNoRoom
  <2>3. CASE TakeAndHold(c)
    <3>1. MayForward(e)
      BY <2>3 DEF TakeAndHold
    <3>2. PICK delay \in Delays[c] :
             held' = [held EXCEPT ![c] = @ \union {Onward(e, Due(e, delay))}]
      BY <2>3 DEF TakeAndHold
    <3>3. Onward(e, Due(e, delay)) \in [frame : Frames, hops : 0 .. Hops, due : Nat]
      BY <1>1, <3>1, OnwardInTime
    <3>4. Onward(e, Due(e, delay)).frame = f
      BY DEF Onward
    <3> HIDE DEF e, f
    <3> QED
      BY <2>3, <3>2, <3>3, <3>4 DEF TakeAndHold
  <2> QED
    BY <2>1, <2>2, <2>3
<1> HIDE DEF e, f
<1>7. /\ seen'[c][f].count = 1
      /\ \A d \in Cars, g \in Frames : ~(d = c /\ g = f) => seen'[d][g] = seen[d][g]
  <2>1. /\ seen'[c][f] = [at |-> now, count |-> 1]
        /\ \A d \in Cars, g \in Frames : <<d, g>> # <<c, f>> => seen'[d][g] = seen[d][g]
    BY <1>2, <1>4, RecordKeeps
  <2> QED
    BY <2>1
<1>8. /\ taken'[c][f] = 1
      /\ \A d \in Cars, g \in Frames : ~(d = c /\ g = f) => taken'[d][g] = taken[d][g]
      /\ \A d \in Cars, g \in Frames : taken[d][g] > 0 => taken'[d][g] > 0
  BY <1>2, <1>4 DEF TypeOK
<1>9. /\ heard'[c][f] = heard[c][f] \union {e.from}
      /\ \A d \in Cars, g \in Frames : ~(d = c /\ g = f) => heard'[d][g] = heard[d][g]
  BY <1>1, <1>2, <1>4 DEF TypeOK
<1>10. heard[c][f] = {}
  BY <1>4 DEF Story, CountsHeard
<1>11. /\ \A d \in Cars : held[d] \subseteq held'[d]
       /\ \A d \in Cars : \A h \in held'[d] : h \in held[d] \/ (d = c /\ h.frame = f)
       /\ \A h, g \in held'[c] : h.frame = f /\ g.frame = f => h = g
       /\ e.hops > 0 => <<c, f>> \in refused' \/ \E h \in held'[c] : h.frame = f
  <2>1. \A h \in held[c] : h.frame # f
    <3>1. \A h \in held[c] : taken[c][h.frame] > 0
      BY DEF Story, HeldOnce
    <3> QED
      BY <1>4, <3>1
  <2>2. CASE held' = held /\ (e.hops > 0 => <<c, f>> \in refused')
    BY <2>1, <2>2
  <2>3. CASE \E h \in [frame : Frames, hops : 0 .. Hops, due : Nat] :
                h.frame = f /\ held' = [held EXCEPT ![c] = @ \union {h}]
    <3>1. PICK h : h.frame = f /\ held' = [held EXCEPT ![c] = @ \union {h}]
      BY <2>3
    <3>2. held'[c] = held[c] \union {h} /\ \A d \in Cars : d # c => held'[d] = held[d]
      BY <1>2, <3>1 DEF TypeOK
    <3> QED
      BY <2>1, <3>1, <3>2
  <2> QED
    BY <1>6, <2>2, <2>3
<1>12. KnownTaken'
  BY <1>7, <1>8 DEF Story, KnownTaken
<1>13. Carried'
  <2> SUFFICES ASSUME NEW a \in Cars, NEW b \in Cars, NEW g \in Frames, <<a, b>> \in Links,
                      (a = Source[g] /\ g \in sent) \/ <<a, g>> \in owes'
               PROVE  OnItsWay(a, b, g)'
    BY <1>1 DEF Carried
  <2>1. CASE (a = Source[g] /\ g \in sent) \/ <<a, g>> \in owes
    <3>1. OnItsWay(a, b, g)
      BY <2>1 DEF Story, Carried
    <3>2. InQueue(b, g) => InQueue(b, g)' \/ taken'[b][g] > 0
      BY <1>5, <1>8
    <3> QED
      BY <1>1, <1>6, <1>8, <1>11, <3>1, <3>2, StaysOnItsWay
  <2>2. CASE a = c /\ g = f /\ e.hops > 0
    BY <1>11, <2>2 DEF OnItsWay
  <2> QED
    BY <1>1, <2>1, <2>2
<1>14. HeldOnce'
  <2>1. <<c, f>> \notin spoke
    BY <1>4 DEF Story, HeldOnce
  <2>2. ASSUME NEW d \in Cars, NEW h \in held'[d]
        PROVE  /\ d # Source[h.frame] /\ taken'[d][h.frame] > 0 /\ <<d, h.frame>> \notin spoke
               /\ \A g \in held'[d] : g.frame = h.frame => g = h
    <3>1. CASE d = c /\ h.frame = f
      BY <1>1, <1>8, <1>11, <2>1, <3>1
    <3>2. CASE ~(d = c /\ h.frame = f)
      <4>1. h \in held[d]
        BY <1>11, <3>2
      <4>2. h.frame \in Frames
        BY <1>2, <4>1 DEF TypeOK
      <4>3. \A g \in held'[d] : g.frame = h.frame => g \in held[d]
        BY <1>11, <3>2
      <4> QED
        BY <1>8, <4>1, <4>2, <4>3 DEF Story, HeldOnce
    <3> QED
      BY <3>1, <3>2
  <2> QED
    BY <1>1, <1>8, <2>2 DEF Story, HeldOnce
<1>15. HeardOnce'
  <2>1. \A d \in Cars : \A i \in 1 .. Len(rx'[d]) : rx'[d][i].frame \in Frames
    <3> SUFFICES ASSUME NEW d \in Cars, NEW i \in 1 .. Len(rx'[d]) PROVE rx'[d][i].frame \in Frames
      OBVIOUS
    <3>1. rx'[d] \in Seq(Copy)
      BY <1>1, <1>2, PollTakes
    <3>2. rx'[d][i] \in Copy
      BY <3>1
    <3> QED
      BY <3>2 DEF Copy
  <2>2. \A d \in Cars : \A i \in 1 .. Len(rx'[d]) :
           rx'[d][i].from \notin heard'[d][rx'[d][i].frame]
    BY <1>5, <1>9, <2>1
  <2>3. \A d \in Cars, g \in Frames : \A a \in heard'[d][g] : Aired(a, g)
    BY <1>5, <1>9 DEF Story, HeardOnce
  <2>4. \A a, g : Aired(a, g)' <=> Aired(a, g)
    BY <1>1 DEF Aired
  <2> QED
    BY <1>5, <2>2, <2>3, <2>4 DEF HeardOnce
<1>16. CountsHeard'
  <2>1. Cardinality(heard'[c][f]) = 1
    <3>1. heard'[c][f] = {e.from}
      BY <1>9, <1>10
    <3> QED
      BY <3>1, FS_Singleton
  <2> SUFFICES ASSUME NEW d \in Cars, NEW g \in Frames
               PROVE  /\ heard'[d][g] # {} => taken'[d][g] > 0
                      /\ seen'[d][g].count > 0 /\ d # Source[g] =>
                            seen'[d][g].count = Cardinality(heard'[d][g])
    BY DEF CountsHeard
  <2>2. CASE d = c /\ g = f
    BY <1>7, <1>8, <2>1, <2>2
  <2>3. CASE ~(d = c /\ g = f)
    BY <1>7, <1>8, <1>9, <2>3 DEF Story, CountsHeard
  <2> QED
    BY <2>2, <2>3
<1> QED
  BY <1>12, <1>13, <1>14, <1>15, <1>16 DEF Story

\* A forward given up, or refused by the radio.
LEMMA EndStory ==
    ASSUME IInv, Story, NEW c \in Cars, NEW h \in held[c], NextDue(c, h),
           quit \subseteq quit', refused \subseteq refused',
           <<c, h.frame>> \in quit' \union refused',
           UNCHANGED <<rx, seen, sent, taken, heard, owes, spoke, missed>>
    PROVE  Story'
<1>1. held' = [held EXCEPT ![c] = held[c] \ {h}]
  BY DEF NextDue
<1>2. \A d \in Cars : /\ held'[d] \subseteq held[d]
                      /\ \A g \in held[d] : g \in held'[d] \/ (d = c /\ g = h)
  BY <1>1 DEF IInv, TypeOK
<1>3. KnownTaken' /\ CountsHeard'
  BY DEF Story, KnownTaken, CountsHeard
<1>4. Carried'
  <2> SUFFICES ASSUME NEW a \in Cars, NEW b \in Cars, NEW g \in Frames, <<a, b>> \in Links,
                      (a = Source[g] /\ g \in sent) \/ <<a, g>> \in owes
               PROVE  OnItsWay(a, b, g)'
    BY DEF Carried
  <2>1. OnItsWay(a, b, g)
    BY DEF Story, Carried
  <2>2. InQueue(b, g) => InQueue(b, g)'
    BY DEF InQueue
  <2> QED
    BY <1>2, <2>1, <2>2, StaysOnItsWay
<1>5. HeldOnce'
  BY <1>2 DEF Story, HeldOnce
<1>6. HeardOnce'
  BY DEF Story, HeardOnce, Aired
<1> QED
  BY <1>3, <1>4, <1>5, <1>6 DEF Story

LEMMA ForwardStory ==
    ASSUME IInv, Story, NEW c \in Cars, Forward(c)
    PROVE  Story'
<1>1. PICK h \in held[c] :
         NextDue(c, h) /\ Broadcast(c, h.frame, h.hops) /\ spoke' = spoke \union {<<c, h.frame>>}
  BY DEF Forward
<1> DEFINE f == h.frame
<1>2. UNCHANGED <<sent, seen, taken, heard, owes, quit, refused>>
  BY DEF Forward
<1>3. TypeOK
  BY DEF IInv
<1>4. f \in Frames /\ h.hops \in 0 .. Hops
  BY <1>3 DEF TypeOK
<1>5. /\ c # Source[f] /\ taken[c][f] > 0 /\ <<c, f>> \notin spoke
      /\ \A g \in held[c] : g.frame = f => g = h
  BY DEF Story, HeldOnce
<1>6. \A d \in Cars : /\ held'[d] \subseteq held[d]
                      /\ \A g \in held[d] : g \in held'[d] \/ (d = c /\ g = h)
                      /\ d = c => h \notin held'[d]
  <2>1. held' = [held EXCEPT ![c] = held[c] \ {h}]
    BY <1>1 DEF NextDue
  <2> QED
    BY <1>3, <2>1 DEF TypeOK
<1>7. spoke' = spoke \union {<<c, f>>} /\ Broadcast(c, f, h.hops) /\ f = h.frame
  BY <1>1
<1> HIDE DEF f
<1>8. ~Aired(c, f)
  BY <1>5 DEF Aired
<1>9. /\ missed \subseteq missed'
      /\ \A d \in Cars, g \in Frames : InQueue(d, g) => InQueue(d, g)'
      /\ \A d \in Cars : <<c, d>> \in Links => InQueue(d, f)' \/ <<d, f>> \in missed'
      /\ \A d \in Cars : \A i \in 1 .. Len(rx'[d]) :
            /\ rx'[d][i].from \notin heard[d][rx'[d][i].frame]
            /\ \/ Aired(rx'[d][i].from, rx'[d][i].frame)
               \/ rx'[d][i].from = c /\ rx'[d][i].frame = f
            /\ \A j \in 1 .. Len(rx'[d]) :
                  rx'[d][j].from = rx'[d][i].from /\ rx'[d][j].frame = rx'[d][i].frame => j = i
  BY <1>2, <1>3, <1>4, <1>7, <1>8, QueueAfter DEF Story
<1>10. \A d, g : Aired(d, g) \/ (d = c /\ g = f) => Aired(d, g)'
  BY <1>2, <1>5, <1>7 DEF Aired
<1>11. KnownTaken' /\ CountsHeard'
  BY <1>2 DEF Story, KnownTaken, CountsHeard
<1>12. Carried'
  <2> SUFFICES ASSUME NEW a \in Cars, NEW b \in Cars, NEW g \in Frames, <<a, b>> \in Links,
                      (a = Source[g] /\ g \in sent) \/ <<a, g>> \in owes
               PROVE  OnItsWay(a, b, g)'
    BY <1>2 DEF Carried
  <2>1. OnItsWay(a, b, g)
    BY DEF Story, Carried
  <2>2. \A k \in held[a] : k.frame = g =>
           k \in held'[a] \/ InQueue(b, g)' \/ <<b, g>> \in missed'
    BY <1>6, <1>7, <1>9
  <2> QED
    BY <1>2, <1>9, <2>1, <2>2, StaysOnItsWay
<1>13. HeldOnce'
  <2>1. ASSUME NEW d \in Cars, NEW k \in held'[d] PROVE <<d, k.frame>> \notin spoke'
    <3>1. k \in held[d] /\ <<d, k.frame>> \notin spoke
      BY <1>6 DEF Story, HeldOnce
    <3>2. ~(d = c /\ k.frame = f)
      BY <1>5, <1>6, <3>1
    <3> QED
      BY <1>7, <3>1, <3>2
  <2> QED
    BY <1>2, <1>5, <1>6, <1>7, <2>1 DEF Story, HeldOnce
<1>14. HeardOnce'
  BY <1>2, <1>9, <1>10 DEF Story, HeardOnce
<1> QED
  BY <1>11, <1>12, <1>13, <1>14 DEF Story

LEMMA StoryStep == IInv /\ Story /\ [Next]_vars => Story'
<1> SUFFICES ASSUME IInv, Story, [Next]_vars PROVE Story'
  OBVIOUS
<1>1. CASE Tick \/ UNCHANGED vars
  BY <1>1, QuietStory DEF Tick, vars, boards
<1>2. ASSUME NEW f \in Frames, Transmit(f) PROVE Story'
  BY <1>2, TransmitStory
<1>3. ASSUME NEW c \in Cars, Pass(c) PROVE Story'
  <2>1. CASE DrainOwn(c)
    BY <2>1, DrainOwnStory
  <2>2. CASE DrainCopy(c)
    BY <2>2, DrainCopyStory
  <2>3. CASE TakeOnly(c) \/ TakeAndHold(c) \/ TakeNoRoom(c)
    BY <2>3, TakeStory
  <2>4. CASE GiveUp(c)
    BY <2>4, EndStory DEF GiveUp
  <2>5. CASE ForwardRefused(c)
    BY <2>5, EndStory DEF ForwardRefused
  <2>6. CASE Forward(c)
    BY <2>6, ForwardStory
  <2>7. CASE NextPass(c)
    BY <2>7, QuietStory DEF NextPass
  <2> QED
    BY <1>3, <2>1, <2>2, <2>3, <2>4, <2>5, <2>6, <2>7 DEF Pass
<1> QED
  BY <1>1, <1>2, <1>3 DEF Next

-----------------------------------------------------------------------------
(* The theorems. *)

\* The inductive invariant holds throughout.
LEMMA Invariant == Spec => []IInv
<1>1. IInv /\ [Next]_vars => IInv'
  BY TypeStep, TimelyStep, RememberedStep DEF IInv
<1> QED
  BY IInvInit, <1>1, PTL DEF Spec

LEMMA StoryHolds == Spec => [](IInv /\ Story)
<1>1. Init => Story
  BY StoryInit
<1>2. IInv /\ Story /\ [Next]_vars => Story'
  BY StoryStep
<1> QED
  BY <1>1, <1>2, Invariant, PTL DEF Spec

\* Queues, tables and held forwards keep their types and the receive queue
\* its depth, whatever is sent, lost and stalled.
THEOREM TypeCorrect == Spec => []TypeOK
<1>1. IInv => TypeOK
  BY DEF IInv
<1> QED
  BY <1>1, Invariant, PTL

\* No car takes a frame twice, for any ride, hops, waits, stalls and table that
\* keep a frame as long as copies of it may arrive (mesh.h's assertions).
THEOREM FrameTakenOnce == Spec => []TakenOnce
<1>1. IInv => TakenOnce
  <2> SUFFICES ASSUME IInv, NEW c \in Cars, NEW f \in Frames PROVE taken[c][f] <= 1
    BY DEF TakenOnce
  <2>1. taken[c][f] \in Nat
    BY DEF IInv, TypeOK
  <2>2. taken[c][f] > 0 => taken[c][f] = 1
    BY DEF IInv, Remembered, TakenKnown
  <2> QED
    BY <2>1, <2>2
<1> QED
  BY <1>1, Invariant, PTL

\* Within Life of its sending a frame is with every car in earshot of one that
\* had to send it on, or there is a reason why not: a copy lost or refused, or
\* enough others heard to give the forward up (planForward, sendDeferred).
THEOREM FrameCarriedOn == Spec => []CarriedOn
<1>1. IInv /\ Story => CarriedOn
  <2> SUFFICES ASSUME IInv, Story, NEW link \in Links, NEW f \in sent, now > born[f] + Life,
                      link[1] = Source[f] \/ <<link[1], f>> \in owes
               PROVE  \/ link[2] = Source[f] \/ taken[link[2]][f] > 0
                      \/ <<link[1], f>> \in quit \union refused \/ <<link[2], f>> \in missed
    BY DEF CarriedOn
  <2>1. PICK a \in Cars, b \in Cars : link = <<a, b>>
    BY FloodAssumption DEF FloodAssumption
  <2>2. f \in Frames /\ born[f] \in Nat /\ now \in Nat
    BY DEF IInv, TypeOK
  <2>3. OnItsWay(a, b, f)
    BY <2>1, <2>2 DEF Story, Carried
  <2>4. ~InQueue(b, f)
    <3> SUFFICES ASSUME NEW i \in 1 .. Len(rx[b]), rx[b][i].frame = f PROVE FALSE
      BY DEF InQueue
    <3> DEFINE e == rx[b][i]
    <3>1. e \in Copy
      BY DEF IInv, TypeOK
    <3>2. now <= e.at + Stall /\ e.at <= born[f] + Late(e.hops)
      BY DEF IInv, Timely, RxTimely
    <3>3. e.hops \in 0 .. Hops /\ e.at \in Nat
      BY <3>1 DEF Copy
    <3>4. Late(e.hops) \in Nat /\ Late(e.hops) + Stall <= Life
      BY <3>3, LateSteps
    <3> HIDE DEF e
    <3> QED
      BY <2>2, <3>2, <3>3, <3>4, HopNat, Numbers
  <2>5. \A h \in held[a] : h.frame # f
    <3> SUFFICES ASSUME NEW h \in held[a], h.frame = f PROVE FALSE
      OBVIOUS
    <3>1. h.hops \in 0 .. Hops /\ h.due \in Nat
      <4>1. h \in [frame : Frames, hops : 0 .. Hops, due : Nat]
        BY DEF IInv, TypeOK
      <4> QED
        BY <4>1
    <3>2. now <= h.due + Stall /\ h.due + Stall <= born[f] + Late(h.hops)
      BY DEF IInv, Timely, HeldTimely
    <3>3. Late(h.hops) \in Nat /\ Late(h.hops) + Stall <= Life
      BY <3>1, LateSteps
    <3> QED
      BY <2>2, <3>1, <3>2, <3>3, HopNat, Numbers
  <2> QED
    BY <2>1, <2>3, <2>4, <2>5 DEF OnItsWay
<1> QED
  BY <1>1, StoryHolds, PTL

\* A forward due: as many copies are counted as different cars were heard.
LEMMA CopiesHeard ==
    ASSUME IInv, Story, NEW c \in Cars, NEW h \in held[c], h.due <= now
    PROVE  Copies(c, h.frame) = Cardinality(heard[c][h.frame])
<1> DEFINE f == h.frame
<1>1. f \in Frames /\ h.hops \in 0 .. Hops /\ h.due \in Nat
  BY DEF IInv, TypeOK
<1>2. c # Source[f] /\ taken[c][f] > 0
  BY DEF Story, HeldOnce
<1>3. now <= h.due + Stall /\ h.due + Stall <= born[f] + Late(h.hops)
  BY DEF IInv, Timely, HeldTimely
<1>4. Late(h.hops) \in Nat /\ Late(h.hops) + Stall <= Life
  BY <1>1, LateSteps
<1> HIDE DEF f
<1>5. now \in Nat /\ born[f] \in Nat /\ seen[c][f] \in [at : Nat, count : Nat]
  BY <1>1 DEF IInv, TypeOK
<1>6. now <= born[f] + Life
  BY <1>1, <1>3, <1>4, <1>5, HopNat, Numbers
<1>7. seen[c][f].count > 0 /\ born[f] <= seen[c][f].at
  BY <1>1, <1>2, <1>6 DEF IInv, Remembered, TakenKnown
<1>8. Known(c, f)
  BY <1>5, <1>6, <1>7, HopNat, Numbers, WindowAssumption DEF WindowAssumption, Known, Live
<1>9. seen[c][f].count = Cardinality(heard[c][f])
  BY <1>1, <1>2, <1>7 DEF Story, CountsHeard
<1> QED
  BY <1>8, <1>9 DEF Copies, f

\* A car gives a forward up only for copies of as many different cars, and
\* sends it only when it has heard fewer: a car is never counted twice, and
\* the count is there as long as the forward is held (nextDue, SUPPRESS_AFTER).
THEOREM QuitsOnlyWhenCovered == Spec => QuitsWhenCovered
<1>1. IInv /\ Story /\ [Next]_vars =>
         (\A c \in Cars, f \in Frames :
            /\ <<c, f>> \in quit' \ quit => Cardinality(heard[c][f]) >= SuppressAfter
            /\ <<c, f>> \in spoke' \ spoke => Cardinality(heard[c][f]) < SuppressAfter)
  <2> SUFFICES ASSUME IInv, Story, [Next]_vars, NEW c \in Cars, NEW f \in Frames
               PROVE  /\ <<c, f>> \in quit' \ quit => Cardinality(heard[c][f]) >= SuppressAfter
                      /\ <<c, f>> \in spoke' \ spoke => Cardinality(heard[c][f]) < SuppressAfter
    OBVIOUS
  <2>1. CASE GiveUp(c)
    <3>1. PICK h \in held[c] :
             NextDue(c, h) /\ Covered(c, h.frame) /\ quit' = quit \union {<<c, h.frame>>}
      BY <2>1 DEF GiveUp
    <3>2. Cardinality(heard[c][h.frame]) >= SuppressAfter
      BY <3>1, CopiesHeard DEF Covered, NextDue
    <3>3. spoke' = spoke
      BY <2>1 DEF GiveUp
    <3> QED
      BY <3>1, <3>2, <3>3
  <2>2. CASE Forward(c)
    <3>1. PICK h \in held[c] :
             NextDue(c, h) /\ ~Covered(c, h.frame) /\ spoke' = spoke \union {<<c, h.frame>>}
      BY <2>2 DEF Forward
    <3>2. Copies(c, h.frame) = Cardinality(heard[c][h.frame])
      BY <3>1, CopiesHeard DEF NextDue
    <3>3. Cardinality(heard[c][h.frame]) \in Nat
      <4>1. h.frame \in Frames
        BY DEF IInv, TypeOK
      <4>2. heard[c][h.frame] \subseteq Cars
        BY <4>1 DEF IInv, TypeOK
      <4>3. IsFiniteSet(heard[c][h.frame])
        BY <4>2, FloodAssumption, FS_Subset DEF FloodAssumption
      <4> QED
        BY <4>3, FS_CardinalityType
    <3>4. Cardinality(heard[c][h.frame]) < SuppressAfter
      BY <3>1, <3>2, <3>3, Numbers DEF Covered
    <3>5. quit' = quit
      BY <2>2 DEF Forward
    <3> QED
      BY <3>1, <3>4, <3>5
  <2>3. CASE ~GiveUp(c) /\ ~Forward(c)
    <3>1. <<c, f>> \notin quit' \ quit /\ <<c, f>> \notin spoke' \ spoke
      <4>1. CASE UNCHANGED <<quit, spoke>>
        BY <4>1
      <4>2. ASSUME NEW d \in Cars, GiveUp(d) \/ Forward(d)
            PROVE  <<c, f>> \notin quit' \ quit /\ <<c, f>> \notin spoke' \ spoke
        <5>1. d # c
          BY <2>3, <4>2
        <5>2. \E h \in held[d] : /\ quit' = quit \/ quit' = quit \union {<<d, h.frame>>}
                                 /\ spoke' = spoke \/ spoke' = spoke \union {<<d, h.frame>>}
          BY <4>2 DEF GiveUp, Forward
        <5> QED
          BY <5>1, <5>2
      <4> QED
        BY <4>1, <4>2 DEF Next, Pass, Tick, Transmit, DrainOwn, DrainCopy, TakeOnly, TakeAndHold,
           TakeNoRoom, Take, ForwardRefused, NextPass, story, vars
    <3> QED
      BY <3>1
  <2> QED
    BY <2>1, <2>2, <2>3
<1> QED
  BY <1>1, StoryHolds, PTL DEF Spec, QuitsWhenCovered
=============================================================================

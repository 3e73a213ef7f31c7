-------------------------- MODULE PacketIdsProofs --------------------------
(***************************************************************************)
(* What PacketIds promises, proved for every number of keys, block size,   *)
(* margin, node number and bound.                                          *)
(*                                                                         *)
(* The argument: as long as NVS works, the ceiling in RAM is the one in    *)
(* NVS whenever the board may send, and the counter stays under it, so     *)
(* every id sent is at or below the ceiling a reboot starts from (Ahead).  *)
(* Within one power-on the counter is at or past every id sent, and        *)
(* strictly past them once a fresh id is taken (Fresh), which the seed in  *)
(* JoinRide preserves because it never goes back.                          *)
(***************************************************************************)
EXTENDS PacketIds, TLAPS

\* Ids sent so far are no higher than what NVS holds.
Ahead == \A s \in sent : s[2] <= nvs

\* The ceiling this board believes in is the one NVS holds.
Armed ==
    /\ step = "loading" => lastId = nvs /\ ceiling = nvs + Block
    /\ step \in {"idle", "sealed", "saved"} => ceiling = nvs /\ Block <= ceiling
    /\ step = "saved" => lastId <= nvs

\* The counter is at, and under a new id past, every id sent.
Fresh ==
    /\ step = "idle" => \A s \in sent : s[2] <= lastId
    /\ step \in {"sealed", "saved"} => \A s \in sent : s[2] < lastId

\* Shape: with it, a block can be taken off any ceiling that is not 0.
Shape == IdsTypeOK /\ (ceiling = 0 \/ Block <= ceiling)

IInv == Shape /\ (nvsOk => Ahead /\ Armed /\ Fresh)

USE IdsAssumption DEF IdsAssumption

-----------------------------------------------------------------------------
(* Helpers. *)

\* What the counter restarts from after Mesh::reset is a counter, and is not
\* behind where it was.
LEMMA SeedNeverBehind ==
    ASSUME Shape
    PROVE  SeedAfterReset \in Nat /\ lastId <= SeedAfterReset
<1>1. SavedFloor \in Nat
  BY DEF Shape, IdsTypeOK, SavedFloor
<1> QED
  BY <1>1 DEF Shape, IdsTypeOK, SeedAfterReset

\* A write either lands or marks NVS as having failed.
LEMMA PutUIntOutcome ==
    ASSUME Shape, NEW value \in Nat, PutUInt(value)
    PROVE  nvs' \in Nat /\ nvsOk' \in BOOLEAN /\ (nvsOk' => nvsOk /\ nvs' = value)
<1>1. CASE nvs' = value /\ UNCHANGED nvsOk
  BY <1>1 DEF Shape, IdsTypeOK
<1>2. CASE "write" \in NvsFaults /\ nvsOk' = FALSE /\ UNCHANGED nvs
  <2>1. nvs' \in Nat
    BY <1>2 DEF Shape, IdsTypeOK
  <2> QED
    BY <1>2, <2>1, Zenon
<1> QED
  BY <1>1, <1>2 DEF PutUInt

-----------------------------------------------------------------------------
(* Type correctness. *)

LEMMA ShapeInit == IdsInit => Shape
<1> SUFFICES ASSUME IdsInit PROVE Shape
  OBVIOUS
<1>1. {started, refused, nvsOk} \subseteq BOOLEAN /\ ~started
  BY Zenon DEF IdsInit
<1>2. ~(step \in {"sealed", "saved"})
  BY DEF IdsInit
<1>3. nvs \in Nat /\ ceiling \in Nat /\ lastId \in Nat /\ step \in Steps /\ ceiling = 0
  BY DEF IdsInit, Steps
<1>4. key \in Keys \union {NoKey} /\ sent \subseteq Keys \X Nat
  BY DEF IdsInit
<1> QED
  BY <1>1, <1>2, <1>3, <1>4 DEF Shape, IdsTypeOK

\* Every step keeps the shape of the state.
LEMMA ShapeStep == Shape /\ [IdsNext]_idVars => Shape'
<1> SUFFICES ASSUME Shape, [IdsNext]_idVars PROVE Shape'
  OBVIOUS
<1> USE DEF Shape, IdsTypeOK, Steps, lane
<1>1. CASE LoadIdCounter
  BY <1>1 DEF LoadIdCounter
<1>2. CASE ArmAtBoot
  BY <1>2, PutUIntOutcome DEF ArmAtBoot
<1>3. CASE LoadWithoutNvs
  BY <1>3 DEF LoadWithoutNvs
<1>4. CASE PowerCut
  BY <1>4 DEF PowerCut
<1>5. ASSUME NEW k \in Keys, JoinRide(k) PROVE Shape'
  BY <1>5, SeedNeverBehind DEF JoinRide
<1>6. CASE LeaveRide
  BY <1>6 DEF LeaveRide
<1>7. CASE SealFrame
  BY <1>7 DEF SealFrame
<1>8. CASE SaveIdCounter
  <2>1. CASE SaveNothing
    BY <1>8, <2>1 DEF SaveIdCounter, SaveNothing
  <2>2. CASE RearmBlock
    <3>1. nvs' \in Nat /\ nvsOk' \in BOOLEAN
      BY <2>2, PutUIntOutcome DEF RearmBlock
    <3> QED
      BY <1>8, <2>2, <3>1 DEF SaveIdCounter, RearmBlock
  <2>3. CASE RearmRefused
    BY <1>8, <2>3 DEF SaveIdCounter, RearmRefused
  <2> QED
    BY <1>8, <2>1, <2>2, <2>3 DEF SaveIdCounter
<1>9. CASE SendFrame
  BY <1>9 DEF SendFrame
<1>10. CASE RefuseFrame
  BY <1>10 DEF RefuseFrame
<1>11. CASE UNCHANGED idVars
  BY <1>11 DEF idVars
<1> QED
  BY <1>1, <1>2, <1>3, <1>4, <1>5, <1>6, <1>7, <1>8, <1>9, <1>10, <1>11 DEF IdsNext

\* The state keeps its shape, and no frame is sealed or sent under no key.
THEOREM TypeCorrect == IdsSpec => []IdsTypeOK
<1>1. Shape => IdsTypeOK
  BY DEF Shape
<1> QED
  BY <1>1, ShapeInit, ShapeStep, PTL DEF IdsSpec

-----------------------------------------------------------------------------
(* The inductive invariant. *)

LEMMA InvInit == IdsInit => IInv
BY ShapeInit DEF IdsInit, IInv, Ahead, Armed, Fresh

\* Every step keeps the invariant.
LEMMA InvStep == IInv /\ [IdsNext]_idVars => IInv'
<1> SUFFICES ASSUME IInv, [IdsNext]_idVars, nvsOk' PROVE (Ahead /\ Armed /\ Fresh)'
  BY ShapeStep DEF IInv
<1>a. Shape /\ Shape'
  BY ShapeStep DEF IInv
<1>b. nvsOk
  BY <1>a, PutUIntOutcome DEF IdsNext, idVars, LoadIdCounter, ArmAtBoot, LoadWithoutNvs,
    PowerCut, JoinRide, LeaveRide, SealFrame, SaveIdCounter, SaveNothing, RearmBlock,
    RearmRefused, SendFrame, RefuseFrame, PutUInt, Shape, IdsTypeOK
<1>c. Ahead /\ Armed /\ Fresh
  BY <1>b DEF IInv
<1>d. \A s \in sent : s[2] \in Nat
  BY <1>a DEF Shape, IdsTypeOK
<1> USE <1>a, <1>c, <1>d DEF Shape, IdsTypeOK, Steps, Ahead, Armed, Fresh
<1>1. CASE LoadIdCounter
  BY <1>1 DEF LoadIdCounter
<1>2. CASE ArmAtBoot
  <2>1. nvs' = ceiling
    BY <1>2, PutUIntOutcome DEF ArmAtBoot
  <2> QED
    BY <1>2, <2>1 DEF ArmAtBoot
<1>3. CASE LoadWithoutNvs
  BY <1>3 DEF LoadWithoutNvs
<1>4. CASE PowerCut
  BY <1>4 DEF PowerCut
<1>5. ASSUME NEW k \in Keys, JoinRide(k) PROVE (Ahead /\ Armed /\ Fresh)'
  BY <1>5, SeedNeverBehind DEF JoinRide
<1>6. CASE LeaveRide
  BY <1>6 DEF LeaveRide
<1>7. CASE SealFrame
  BY <1>7 DEF SealFrame
<1>8. CASE SaveIdCounter
  <2>1. CASE SaveNothing
    BY <1>8, <2>1 DEF SaveIdCounter, SaveNothing, NothingToSave
  <2>2. CASE RearmBlock
    <3>1. nvs' = lastId + Block
      BY <2>2, PutUIntOutcome DEF RearmBlock
    <3> QED
      BY <1>8, <2>2, <3>1 DEF SaveIdCounter, RearmBlock
  <2>3. CASE RearmRefused
    BY <2>3 DEF RearmRefused
  <2> QED
    BY <1>8, <2>1, <2>2, <2>3 DEF SaveIdCounter
<1>9. CASE SendFrame
  BY <1>9 DEF SendFrame
<1>10. CASE RefuseFrame
  BY <1>10 DEF RefuseFrame
<1>11. CASE UNCHANGED idVars
  BY <1>11 DEF idVars, lane
<1> QED
  BY <1>1, <1>2, <1>3, <1>4, <1>5, <1>6, <1>7, <1>8, <1>9, <1>10, <1>11 DEF IdsNext

LEMMA Invariant == IdsSpec => []IInv
BY InvInit, InvStep, PTL DEF IdsSpec

-----------------------------------------------------------------------------
(* What follows from it. *)

\* As long as NVS has not failed, it holds a value at or past every id sent
\* (loadIdCounter, saveIdCounter), whenever the power is cut.
THEOREM NvsStaysAhead == IdsSpec => []NvsAheadOfSent
<1>1. IInv => NvsAheadOfSent
  BY DEF IInv, Ahead, NvsAheadOfSent, NvsHoldsAhead
<1> QED
  BY <1>1, Invariant, PTL

\* As long as NVS has not failed, transmit never sends two frames with one
\* AES-CTR nonce.
THEOREM NoncesUnique == IdsSpec => NonceNeverReused
<1>1. IInv /\ nvsOk /\ SendFrame => <<key, lastId>> \notin sent
  <2> SUFFICES ASSUME IInv, nvsOk, SendFrame, <<key, lastId>> \in sent PROVE FALSE
    OBVIOUS
  <2>1. lastId < lastId
    BY DEF IInv, Fresh, SendFrame
  <2> QED
    BY <2>1 DEF IInv, Shape, IdsTypeOK
<1>2. IInv => [nvsOk /\ SendFrame => <<key, lastId>> \notin sent]_idVars
  BY <1>1
<1> QED
  BY <1>2, Invariant, PTL DEF NonceNeverReused

\* Whatever NVS does, the ids of a board that stays up never go back
\* (syncChannel's seed).
THEOREM IdsMonotonic == IdsSpec => IdsNeverGoBack
<1>1. Shape /\ [IdsNext]_idVars => [step # "off" /\ step' # "off" => lastId' >= lastId]_idVars
  <2> SUFFICES ASSUME Shape, IdsNext, step # "off", step' # "off" PROVE lastId' >= lastId
    OBVIOUS
  <2> USE DEF Shape, IdsTypeOK
  <2>1. ASSUME NEW k \in Keys, JoinRide(k) PROVE lastId' >= lastId
    BY <2>1, SeedNeverBehind DEF JoinRide
  <2>2. CASE SealFrame
    BY <2>2 DEF SealFrame
  <2>3. CASE ArmAtBoot \/ LeaveRide \/ SaveIdCounter \/ SendFrame \/ RefuseFrame
    BY <2>3 DEF ArmAtBoot, LeaveRide, SaveIdCounter, SendFrame, RefuseFrame
  <2> QED
    BY <2>1, <2>2, <2>3 DEF IdsNext, LoadIdCounter, LoadWithoutNvs, PowerCut
<1> QED
  BY <1>1, ShapeInit, ShapeStep, PTL DEF IdsSpec, IdsNeverGoBack
=============================================================================

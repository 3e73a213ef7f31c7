------------------------------ MODULE MCOneBoard ------------------------------
(* Instances of RideClock, DroppedWrites and PacketIds for TLC: what a board *)
(* keeps by itself, whoever is about.  The two places where its tasks share  *)
(* memory without a lock, and the counter that has to outlive its power.     *)
(* They share no state with each other, so a behaviour follows one.          *)
EXTENDS RideClock, DroppedWrites, MCPacketIds

VARIABLE follows

BoardInit == Init /\ DropInit /\ IdsInit /\ follows \in {"clock", "drops", "ids"}

OfClock(action) == follows = "clock" /\ action /\ UNCHANGED <<dropVars, idVars, follows>>
OfDrops(action) == follows = "drops" /\ action /\ UNCHANGED <<vars, idVars, follows>>
OfIds(action) == follows = "ids" /\ action /\ UNCHANGED <<vars, dropVars, follows>>

BoardNext ==
    \/ OfClock(Tick)
    \/ OfClock(OnPulse)
    \/ OfClock(SeqOdd)
    \/ \E w \in Words : OfClock(StorePulse(w))
    \/ OfClock(StoreGood)
    \/ OfClock(SeqEven)
    \/ OfClock(Ask)
    \/ OfClock(BeginRead)
    \/ \E w \in Words : OfClock(LoadPulse(w))
    \/ OfClock(LoadGood)
    \/ OfClock(EndRead)
    \/ OfDrops(OnWriteDropped)
    \/ OfDrops(LoadHead)
    \/ OfDrops(CountOverflow)
    \/ OfDrops(StoreId)
    \/ OfDrops(StoreTail)
    \/ OfDrops(LoadTail)
    \/ OfDrops(LoadId)
    \/ OfDrops(StoreHead)
    \/ OfDrops(ReportDroppedWrites)
    \/ OfIds(LoadIdCounter)
    \/ OfIds(ArmAtBoot)
    \/ OfIds(LoadWithoutNvs)
    \/ OfIds(PowerCut)
    \/ \E k \in Keys : OfIds(JoinRide(k))
    \/ OfIds(LeaveRide)
    \/ OfIds(SealFrame)
    \/ OfIds(SaveIdCounter)
    \/ OfIds(SendFrame)
    \/ OfIds(RefuseFrame)

BoardSpec == BoardInit /\ [][BoardNext]_<<vars, dropVars, idVars, follows>>
=============================================================================

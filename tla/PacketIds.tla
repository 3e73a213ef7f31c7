------------------------------ MODULE PacketIds ------------------------------
(***************************************************************************)
(* The packet-id counter of one board (TougeFastModule, touge/mesh.h).     *)
(*                                                                         *)
(* A packet id is half of the AES-CTR nonce, so no id may go out twice     *)
(* under one ride key: not after a reboot, and not after the board leaves  *)
(* a ride and comes back to its key.  The counter lives in RAM (lastId);   *)
(* NVS keeps a ceiling ahead of it (nvs), re-armed in blocks.  Power may   *)
(* be cut between any two steps, and an NVS write may fail.                *)
(*                                                                         *)
(* Counters are naturals: the code's are 32 bits wide, and a board would   *)
(* need 2^32 frames to wrap them.  MaxId bounds the model.                 *)
(***************************************************************************)
EXTENDS Naturals

CONSTANTS
    Keys,       \* the ride keys the phone may set
    NoKey,      \* none set since boot
    Block,      \* ID_BLOCK: ids reserved by one NVS write
    Margin,     \* ID_BLOCK / 8: how close to the ceiling the block is re-armed
    NodeNum,    \* what a board without NVS starts from
    MaxId,      \* bound of the model: past it no id is taken, no boot made
    NvsFaults   \* which NVS faults can happen: "boot", "open", "write"

ASSUME IdsAssumption ==
    /\ Block \in Nat \ {0} /\ Margin \in Nat /\ Margin < Block
    /\ NodeNum \in Nat /\ MaxId \in Nat
    /\ NoKey \notin Keys
    /\ NvsFaults \subseteq {"boot", "open", "write"}

VARIABLES
    nvs,        \* the ceiling NVS holds
    ceiling,    \* idCeiling_: what this board believes NVS holds; 0 is "no NVS"
    lastId,     \* Mesh::lastId_
    key,        \* net_.key and keySeen_: the ride key last taken
    started,    \* started_: the lane is up
    refused,    \* heapRefused_: the lane is off until the next boot
    step,       \* where the one task that sends is
    sent,       \* history: every <<key, id>> handed to the radio, over all boots
    nvsOk       \* history: NVS has never failed

lane == <<key, started, refused>>
idVars == <<nvs, ceiling, lastId, lane, step, sent, nvsOk>>

Steps == {"off", "loading", "idle", "sealed", "saved"}

IdsInit ==
    /\ nvs = 0 /\ ceiling = 0 /\ lastId = 0
    /\ key = NoKey /\ started = FALSE /\ refused = FALSE
    /\ step = "off"
    /\ sent = {} /\ nvsOk = TRUE

-----------------------------------------------------------------------------
(* Boot. *)

\* loadIdCounter as far as the write: start from the stored ceiling.
LoadIdCounter ==
    /\ step = "off"
    /\ nvs <= MaxId
    /\ lastId' = nvs
    /\ ceiling' = nvs + Block
    /\ step' = "loading"
    /\ UNCHANGED <<nvs, lane, sent, nvsOk>>

\* What putUInt(value) may leave in NVS; its result is not looked at.
PutUInt(value) ==
    \/ nvs' = value /\ UNCHANGED nvsOk
    \/ "write" \in NvsFaults /\ nvsOk' = FALSE /\ UNCHANGED nvs

\* Fault: the ceiling is kept in RAM until the first re-arm.
ArmNextTime ==
    /\ step = "loading"
    /\ step' = "idle"
    /\ UNCHANGED <<nvs, ceiling, lastId, lane, sent, nvsOk>>

\* The raised ceiling is written before a single packet goes out.
ArmAtBoot ==
    /\ step = "loading"
    /\ PutUInt(ceiling)
    /\ step' = "idle"
    /\ UNCHANGED <<ceiling, lastId, lane, sent>>

\* NVS will not open at boot: start from the node number, keep nothing.
LoadWithoutNvs ==
    /\ step = "off"
    /\ "boot" \in NvsFaults
    /\ lastId' = NodeNum
    /\ ceiling' = 0
    /\ step' = "idle"
    /\ nvsOk' = FALSE
    /\ UNCHANGED <<nvs, lane, sent>>

PowerCut ==
    /\ step # "off"
    /\ step' = "off"
    /\ key' = NoKey /\ started' = FALSE /\ refused' = FALSE
    /\ UNCHANGED <<nvs, ceiling, lastId, sent, nvsOk>>

-----------------------------------------------------------------------------
(* syncChannel, at the top of every pass. *)

SavedFloor == IF ceiling # 0 THEN ceiling - Block ELSE NodeNum

\* Fault: the seed forgets the ids used since the last NVS write.
SeedFromSavedFloor == SavedFloor

\* What the counter restarts from once Mesh::reset() has cleared it: never
\* back below an id already sent.
SeedAfterReset == IF lastId > SavedFloor THEN lastId ELSE SavedFloor

\* A key the lane is not up on: reset and reseed, then bring the radio up,
\* which may fail (tried again next pass) or leave too little heap.
JoinRide(k) ==
    /\ step = "idle" /\ ~refused
    /\ ~(started /\ k = key)
    /\ key' = k
    /\ lastId' = SeedAfterReset
    /\ started' \in BOOLEAN
    /\ refused' \in IF started' THEN {FALSE} ELSE BOOLEAN
    /\ UNCHANGED <<nvs, ceiling, step, sent, nvsOk>>

\* The channel has no secret key: the lane goes down, the counter stays.
LeaveRide ==
    /\ step = "idle" /\ ~refused
    /\ started
    /\ started' = FALSE
    /\ UNCHANGED <<nvs, ceiling, lastId, key, refused, step, sent, nvsOk>>

-----------------------------------------------------------------------------
(* transmit: take an id and seal under it, save the counter, send. *)

\* Fault: a frame is sealed with the lane never up, under no key.
SealWhileDown ==
    /\ step = "idle"
    /\ lastId < MaxId
    /\ lastId' = lastId + 1
    /\ step' = "sealed"
    /\ UNCHANGED <<nvs, ceiling, lane, sent, nvsOk>>

SealFrame ==
    /\ step = "idle"
    /\ started
    /\ lastId < MaxId
    /\ lastId' = lastId + 1
    /\ step' = "sealed"
    /\ UNCHANGED <<nvs, ceiling, lane, sent, nvsOk>>

\* saveIdCounter does nothing without NVS, or well below the ceiling.
NothingToSave == ceiling = 0 \/ lastId + Margin < ceiling

SaveNothing ==
    /\ NothingToSave
    /\ UNCHANGED <<nvs, ceiling, nvsOk>>

RearmBlock ==
    /\ ~NothingToSave
    /\ ceiling' = lastId + Block
    /\ PutUInt(lastId + Block)

\* NVS will not open: the frame goes out all the same.
RearmRefused ==
    /\ ~NothingToSave
    /\ "open" \in NvsFaults
    /\ nvsOk' = FALSE
    /\ UNCHANGED <<nvs, ceiling>>

SaveIdCounter ==
    /\ step = "sealed"
    /\ SaveNothing \/ RearmBlock \/ RearmRefused
    /\ step' = "saved"
    /\ UNCHANGED <<lastId, lane, sent>>

SendFrame ==
    /\ step = "saved"
    /\ sent' = sent \union {<<key, lastId>>}
    /\ step' = "idle"
    /\ UNCHANGED <<nvs, ceiling, lastId, lane, nvsOk>>

\* esp_now_send refused the frame; its id is spent.
RefuseFrame ==
    /\ step = "saved"
    /\ step' = "idle"
    /\ UNCHANGED <<nvs, ceiling, lastId, lane, sent, nvsOk>>

IdsNext ==
    \/ LoadIdCounter \/ ArmAtBoot \/ LoadWithoutNvs \/ PowerCut
    \/ \E k \in Keys : JoinRide(k)
    \/ LeaveRide
    \/ SealFrame \/ SaveIdCounter \/ SendFrame \/ RefuseFrame

IdsSpec == IdsInit /\ [][IdsNext]_idVars

-----------------------------------------------------------------------------
(* Properties. *)

\* The shape of the state; above all, a frame is only ever sealed or sent
\* under a key the board was given (transmit tests started_).
IdsTypeOK ==
    /\ nvs \in Nat /\ ceiling \in Nat /\ lastId \in Nat
    /\ key \in Keys \union {NoKey} /\ started \in BOOLEAN /\ refused \in BOOLEAN
    /\ step \in Steps
    /\ sent \subseteq Keys \X Nat
    /\ nvsOk \in BOOLEAN
    /\ started \/ step \in {"sealed", "saved"} => key \in Keys

\* NVS holds a value ahead of every id ever sent, so that a board that loses
\* power now starts past them (loadIdCounter, saveIdCounter).
NvsHoldsAhead == \A s \in sent : s[2] <= nvs

\* As long as no NVS write has failed, it does.
NvsAheadOfSent == nvsOk => NvsHoldsAhead

\* No frame goes out under a key and an id an earlier frame went out under,
\* whatever reboots and key changes lie between them, as long as NVS works
\* (TougeFastModule.h: the ids "must never repeat under one channel key").
NonceNeverReused == [][nvsOk /\ SendFrame => <<key, lastId>> \notin sent]_idVars

\* While the board stays up its ids never go back, through key changes and
\* whatever NVS does (syncChannel's seed after Mesh::reset).
IdsNeverGoBack == [][step # "off" /\ step' # "off" => lastId' >= lastId]_idVars
=============================================================================

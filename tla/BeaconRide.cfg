CONSTANTS
    Cars <- RideCars
    Rides <- AllRides
    Riders <- RideRiders
    Order <- RideOrder
    Links <- RideLinks
    LateLinks <- RideLateLinks
    Reaches <- RideReaches
    Leavers <- RideLeavers
    Flighty <- RideFlighty
    Unseated <- RideUnseated
    Deaf <- RideDeaf
    MaxFaults <- RideMaxFaults
    Lapse = 3
    Lease = 5
    Listen = 3
    DirectHold = 1
    MaxRefHops = 3
    Settle = 7
    Fade = 7
    Senders <- ThreeSenders
    Judge = 0
    Scenes <- AllScenes
    FirstSlots <- SceneSlots
    Moves <- SceneMoves
    Lossy <- SceneLossy
    Mortal <- SceneMortal
    Losses <- SceneLosses
    Changes <- SceneChanges
    RecordSeats <- SceneRecordSeats
    RosterSeats <- SceneRosterSeats
    Second = 4
    Window = 6
    FreshFor = 12
    OnRideFor = 16
    StaleAfter = 16
    Maps = 4
    ShownOne = 2
    ShownTwo = 3
SPECIFICATION Spec
INVARIANT RefTypeOK
INVARIANT AgreeInTime
INVARIANT OneClock
INVARIANT GhostsFade
INVARIANT RelayTypeOK
INVARIANT SkipsOnlyHeard
INVARIANT CleanAirSkips
CHECK_DEADLOCK FALSE

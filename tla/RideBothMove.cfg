CONSTANTS
    Cars <- FourCars
    Tag <- FourTags
    Rows = 2
    HeardWindow <- Sec1500ms
    MapTrust <- Sec3
    JoinListen <- Sec2500ms
    Established <- Sec4
    ReferenceLapse <- Sec5
    Unheard <- Sec7
    Lease <- Sec10
    BackoffMax <- Sec3
    LinkSeconds = 16
    MaxRiders = 6
    Rides = {"judged"}
    Topologies <- RideTopologies
    StartOn <- RideStartOn
    PowerSlots <- RidePowerSlots
    Movers <- RideMovers
    Fast <- RideFast
    Relays <- RideRelays
    Louder <- RideLouder
    Steady <- RideSteady
    MaxNow <- RideMaxNow
    MaxFaults <- RideMaxFaults
    FaultSlots <- RideFaultSlots
    MaxEvents <- RideMaxEvents
    EventSlots <- RideEventSlots
    Draws <- OneDraw
    SettleTime <- Sec15
SPECIFICATION Spec
INVARIANT OneOfPairMoves
CHECK_DEADLOCK FALSE

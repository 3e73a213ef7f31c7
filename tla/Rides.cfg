CONSTANTS
    Cars <- ThreeCars
    Tag <- ThreeTags
    Rows = 1
    HeardWindow <- Sec1500ms
    MapTrust <- Sec3
    JoinListen <- Sec2500ms
    Established <- Sec4
    ReferenceLapse <- Sec5
    Unheard <- Sec7
    Lease <- Sec10
    BackoffMax <- Sec3
    LinkSeconds = 16
    MaxRiders = 3
    Rides <- PassingRides
    Topologies <- RideTopologies
    StartOn <- RideStartOn
    PowerSlots <- RidePowerSlots
    Movers <- RideMovers
    Fast <- RideFast
    Relays <- RideRelays
    Louder <- RideLouder
    Steady <- RideSteady
    MaxNow <- RideMaxNow
    MaxFaults <- RideMaxFaults
    FaultSlots <- RideFaultSlots
    MaxEvents <- RideMaxEvents
    EventSlots <- RideEventSlots
    Draws <- OneDraw
    SettleTime <- Sec15
SPECIFICATION Spec
INVARIANT TypeOK
INVARIANT LeasesApart
INVARIANT ScheduledAirClear
INVARIANT SettlesInTime
PROPERTY NoTakeover
PROPERTY IncumbentStays
CHECK_DEADLOCK FALSE

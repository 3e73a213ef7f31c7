CONSTANTS
    o1 = o1
    r1 = r1
    f1 = f1
    Cars <- RideCars
    Rank <- ByRank
    Settings <- FarOnly
    Riders <- RideRiders
    Unlinked <- RideUnlinked
    Faulty <- RideFaulty
    Lossy <- RideLossy
    Restarting <- RideRestarting
    Aging <- RideAging
    Restarts = 1
    Interval = 4
    EveryPositions = 5
    PerSummary = 16
    Keep = 20
    SteadyFixes = 2
    PreferSlots = 1
SPECIFICATION Spec
INVARIANT SkipsOnFreshClaims

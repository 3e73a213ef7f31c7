CONSTANTS
    Shortest = 5000
    Longest = 20000
    Round = 1000
    BusyTarget = 250
    Whole = 1000
    c1 = c1
    c2 = c2
    Cars <- TwoCars
    Settings <- AllSettings
    Traffic <- LaneTraffic
    OnFast <- LaneOnFast
    Readings <- LaneReadings
    Loads <- LaneLoads
    Rounds <- LaneRounds
    SeqSpan = 6
    PhoneFresh = 1
    Stale = 2
    Precedence = 2
    QueueLen = 2
    MaxHops = 2
    RestoreSlots = 1
    MaxWait = 1
SPECIFICATION Spec
INVARIANT TypeOK
INVARIANT OnePerCar
INVARIANT IntervalSettles
PROPERTY LoraTakesOver
PROPERTY OwnGoesForward
PROPERTY NeverGoesBack
PROPERTY TurnKept
PROPERTY OwnKeepsGoing

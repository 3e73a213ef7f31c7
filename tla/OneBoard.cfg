CONSTANTS
    Period = 2
    Tolerance = 0
    MaxSkip = 2
    LockRun = 2
    Stale = 3
    NoPhase = NoPhase
    Word = 3
    Attempts = 2
    MaxTime = 8
    MaxEdges = 4
    Slots = 3
    Rounds = 2
    MaxDrops = 8
    Keys = {k1, k2}
    NoKey = NoKey
    Block = 3
    Margin = 1
    NodeNum = 2
    MaxId = 5
    NvsFaults <- AllFaults
SPECIFICATION BoardSpec
INVARIANT TypeOK IdsTypeOK NvsAheadOfSent
PROPERTY ImplementsPulseLock ImplementsWriteDrops NonceNeverReused IdsNeverGoBack
CHECK_DEADLOCK FALSE

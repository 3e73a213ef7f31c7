CONSTANTS
    Keys = {k1, k2}
    NoKey = NoKey
    Block = 3
    Margin = 1
    NodeNum = 2
    MaxId = 5
    NvsFaults <- SaveFaults
SPECIFICATION IdsSpec
INVARIANT NvsHoldsAhead
CHECK_DEADLOCK FALSE

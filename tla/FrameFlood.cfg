CONSTANTS
    Cars <- FourCars
    Frames <- TwoFrames
    Source <- FirstTwo
    Links <- LongEar
    Hops = 2
    SuppressAfter = 2
    Ttl = 14
    SeenSlots = 2
    HeldSlots = 1
    RxDepth = 2
    Budget = 1
    Delays <- Waits
    MaxWait = 2
    StallFrom = 1
    Stall = 2
    Slow <- CarTwo
    MaxNow = 16
    SendBy = 0
    MaxLost = 1
SPECIFICATION Spec
INVARIANT TypeOK
INVARIANT TakenOnce
INVARIANT CarriedOn
PROPERTY QuitsWhenCovered
CHECK_DEADLOCK FALSE

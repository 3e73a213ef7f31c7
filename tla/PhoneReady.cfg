CONSTANTS
    Cars = {c1, c2}
    Slots = 2
    Fit = 2
    MaxInFlight = 2
    QueueSize = 2
    ReadQueueSize = 3
    Text = Text
    Pos = Pos
    Answer = Answer
    MaxBatch = 3
SPECIFICATION Spec
INVARIANT ReadiedInPlace

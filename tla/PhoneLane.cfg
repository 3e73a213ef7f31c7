CONSTANTS
    Cars = {c1, c2, c3}
    Slots = 2
    Fit = 1
    MaxInFlight = 2
    QueueSize = 2
    ReadQueueSize = 3
    Text = Text
    Pos = Pos
    Answer = Answer
    MaxBatch = 3
SYMMETRY CarSymmetry
SPECIFICATION Spec
INVARIANT TypeOK
INVARIANT NobodyPassedOver
PROPERTY ImplementsBatchPlaces
PROPERTY PlacesComeFree

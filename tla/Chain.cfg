CONSTANTS
    Node = {0, 1, 2}
    InRange <- ChainRange
    Rings <- ChainRings
    Score <- LowerFirst
    OptedOut = {}
    SUPERFRAME_SLOT_COUNT = 10
    REUSE_DISTANCE = 3
    NUM_ADV_ROUNDS = 2
    TxCap = 1
    RxCap = 1
    MaxSkew = 2
    Lossy = TRUE
    FlushFails = TRUE
    Timely = FALSE
SPECIFICATION Spec
INVARIANTS AssignmentAgrees
PROPERTIES LeasesSlots

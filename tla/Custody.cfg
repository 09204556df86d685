CONSTANTS
    Node = {0, 1, 2, 3}
    InRange <- ChainRange
    Ring <- ChainRing
    Parent <- ChainParent
    Rel <- FirstSlot
    Clusterhead = {0, 1, 2}
    SUPERFRAME_SLOT_COUNT = 10
    REUSE_DISTANCE = 3
    Frames = 2
    TxCap = 7
    Late = {}
    Lossy = FALSE
    FlushFails = FALSE
    Stale = FALSE
SPECIFICATION Spec
CHECK_DEADLOCK FALSE
INVARIANTS Custody

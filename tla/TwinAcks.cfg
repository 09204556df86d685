CONSTANTS
    Node = {0, 1, 2, 3, 4}
    InRange <- TwinRange
    Ring <- TwinRing
    Parent <- TwinParent
    Rel <- TwinSlot
    Clusterhead = {0, 1, 2}
    SUPERFRAME_SLOT_COUNT = 13
    REUSE_DISTANCE = 3
    Frames = 1
    TxCap = 7
    Late = {}
    Lossy = TRUE
    FlushFails = FALSE
    Stale = FALSE
SPECIFICATION Spec
CHECK_DEADLOCK FALSE
INVARIANTS AckTruthful

CONSTANTS
    Node = {0, 1, 2, 3, 4}
    InRange <- DiamondRange
    Rings <- DiamondRings
    Score <- LowerFirst
    OptedOut = {3}
    SUPERFRAME_SLOT_COUNT = 10
    REUSE_DISTANCE = 3
    NUM_ADV_ROUNDS = 2
    TxCap = 1
    RxCap = 4
    MaxSkew = 1
    Lossy = FALSE
    FlushFails = FALSE
    Timely = TRUE
SPECIFICATION Spec
INVARIANTS TypeOK AssignmentAgrees FollowedActsAsClusterhead FollowsCloser
PROPERTIES ServedUpToCapacity

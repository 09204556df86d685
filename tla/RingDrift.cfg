CONSTANTS
    Node = {0, 1, 2}
    Gateway = 0
    InRange <- ChainRange
    Hops <- ByDistance
    UNKNOWN_RING = 9
    RING_HYSTERESIS_THRESHOLD = 3
    COUNTS = 2
    TxCap = 1
    RxCap = 1
    DryBound = 3
SPECIFICATION Spec
PROPERTIES IncreasesOnlyAfterDryRounds

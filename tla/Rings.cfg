CONSTANTS
    Node = {0, 1, 2}
    Gateway = 0
    InRange <- ChainRange
    Hops <- ByDistance
    UNKNOWN_RING = 3
    RING_HYSTERESIS_THRESHOLD = 2
    COUNTS = 2
    TxCap = 1
    RxCap = 1
    DryBound = 0
SPECIFICATION Spec
INVARIANTS TypeOK RingNotBelowHops OneAboveNearest

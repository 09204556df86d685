CONSTANTS
    MaxPackets = 3
    BufCells = 2
SPECIFICATION Spec
INVARIANTS TypeOK NoPacketForgotten
PROPERTIES IntactWhenAlone Drained AppGetsAll
CHECK_DEADLOCK FALSE

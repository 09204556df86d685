SPECIFICATION Spec
CONSTANTS
    tx_sz = 12
    msg_max_bytes = 10
    FrameHeader = 1
    Header = 1
    SendAcks = 1
    ack_t = 2
    Datagram = 1
    slot_count = 3
    Fixed <- MCFixed
    ForwardedSizes = {1}
    DatagramSizes = {9}
    MaxSent = 4
    MaxHeld = 1
INVARIANTS TypeOK NeverOverflows FragmentNumbered Decodable
PROPERTIES HandsOutOnce EmitEnds

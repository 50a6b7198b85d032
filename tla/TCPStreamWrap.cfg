SPECIFICATION Spec
CONSTANTS
    HalfSeq = 8
    MaxPad = 3
    MaxPackets = 3
    Packets <- WrappingSegments
CHECK_DEADLOCK FALSE
INVARIANT RetransmissionWasProcessed

SPECIFICATION Spec
CONSTANTS
    HalfSeq = 16
    MaxPad = 3
    MaxPackets = 4
    Packets <- Segments
CHECK_DEADLOCK FALSE
INVARIANTS TypeOK FavourOldPackets OnTimeBytesKept HolesAreWide RetransmissionWasProcessed
PROPERTY LoopsEnd

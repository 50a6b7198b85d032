SPECIFICATION Spec
CONSTANTS
    HalfSeq = 16
    MaxPad = 2
    c1 = c1
    c2 = c2
    c3 = c3
    Conns <- ThreeConns
    Bucket <- Collide
    TableSize = 2
    Udp <- OneUdp
    Segments <- Reordered
    Datagrams <- OneDatagram
    MaxStreams = 4
    MaxOutstanding = 1
    MaxExpired = 1
    MaxPackets = 5
SYMMETRY Swap
CHECK_DEADLOCK FALSE
INVARIANTS ListsAgree CountersExact ScannedOnce MapInOrder WithinLimits SortedByUse NothingLeaks

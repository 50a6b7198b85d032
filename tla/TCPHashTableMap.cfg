SPECIFICATION Spec
CONSTANTS
    HalfSeq = 16
    MaxPad = 2
    c1 = c1
    c2 = c2
    c3 = c3
    Conns <- TwoConns
    Bucket <- CollideTwo
    TableSize = 2
    Udp <- NoUdp
    Segments <- Traffic
    Datagrams <- NoDatagram
    MaxStreams = 4
    MaxOutstanding = 1
    MaxExpired = 1
    MaxPackets = 3
CHECK_DEADLOCK FALSE
INVARIANT MapHoldsStream

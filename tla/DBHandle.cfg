SPECIFICATION Spec
CONSTANTS
    None = None
    t1 = t1  t2 = t2  c1 = c1  c2 = c2
    Threads <- TwoThreads
    Cases <- OneCase
    Kinds <- Pooled
    StoreSize = 1
    Threshold = 1
    MaxHandles = 3
    MaxRows = 2
    MaxFaults = 2
    MaxPools = 2
    MaxConns = 3
CHECK_DEADLOCK FALSE
INVARIANTS TypeOK NeverShared CopiesHaveCause NoRowForgotten
PROPERTIES WaitersServed

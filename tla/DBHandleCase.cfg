SPECIFICATION Spec
CONSTANTS
    None = None
    t1 = t1  t2 = t2  c1 = c1  c2 = c2
    Threads <- TwoThreads
    Cases <- TwoCases
    Kinds <- Direct
    StoreSize = 1
    Threshold = 1
    MaxHandles = 3
    MaxRows = 2
    MaxFaults = 0
    MaxPools = 3
    MaxConns = 4
CHECK_DEADLOCK FALSE
INVARIANT RowsInTheirCase

SPECIFICATION Spec
CONSTANTS
    None = None
    r1 = r1  r2 = r2  w1 = w1  t1 = t1  q1 = q1
    Readers <- TwoReaders
    Writers <- OneWriter
    Tables <- OneTable
    Queries <- OneQuery
    TablesOf <- Uses
    Limits <- Offsets
    Length = 2
    CacheLength = 4
    QueryTimeout = 1
    Modes <- BothModes
    MaxIds = 2
    MaxWrites = 1
    MaxKills = 1
CHECK_DEADLOCK FALSE
INVARIANTS TypeOK CachedHasTable WindowCovered 
PROPERTIES ReadersReturn 

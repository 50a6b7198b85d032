SPECIFICATION Spec
CONSTANTS
    None = None
    m1 = m1  m2 = m2  w1 = w1  w2 = w2
    j1 = j1  j2 = j2  j3 = j3  j4 = j4
    Clients <- JustOne
    Workers <- TwoWorkers
    Jobs <- FourJobs
    Unknown <- OneJob
    PipeCap = 1
    MaxEvents = 5
CHECK_DEADLOCK FALSE
INVARIANTS TypeOK CountExact BarrierHolds JobsPlaced SignalsAccounted
PROPERTIES ImplementsBarrierSafety BarrierLive WorkersRestored

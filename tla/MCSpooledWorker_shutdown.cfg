SPECIFICATION Spec
CONSTANTS
    Jobs = {j1, j2}
    MaxAttempts = 1
    Concurrency = 2
    TimedJobs = {}
    StopThreads = {TRUE, FALSE}
    EarlyStop = FALSE
SYMMETRY Symmetry
CHECK_DEADLOCK FALSE
INVARIANTS
    NoSlotLeak
    NothingLeftBehind
    StartReturnsLast
PROPERTY KeepsContract

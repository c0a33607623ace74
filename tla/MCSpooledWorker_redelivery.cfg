SPECIFICATION Spec
CONSTANTS
    Jobs = {j1}
    MaxAttempts = 2
    Concurrency = 2
    TimedJobs = {j1}
    StopThreads = {TRUE}
    EarlyStop = FALSE
CONSTRAINT OneTimeout
CHECK_DEADLOCK FALSE
INVARIANTS
    TypeOK
    SingleAck
    ThreadCapacity
PROPERTY ResultDroppedForAReason

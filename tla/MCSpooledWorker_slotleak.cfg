SPECIFICATION Spec
CONSTANTS
    Jobs = {j1}
    MaxAttempts = 1
    Concurrency = 1
    TimedJobs = {j1}
    StopThreads = {FALSE}
    EarlyStop = FALSE
CHECK_DEADLOCK FALSE
INVARIANT AbandonedThreadStillRuns

SPECIFICATION FairSpec
CONSTANTS
    Jobs = {j1}
    MaxAttempts = 1
    Concurrency = 1
    TimedJobs = {j1}
    StopThreads = {TRUE, FALSE}
    EarlyStop = TRUE
CHECK_DEADLOCK FALSE
PROPERTIES
    StopTerminates
    HeldJobsAreAnswered

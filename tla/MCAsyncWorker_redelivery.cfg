SPECIFICATION FairSpec
CONSTANTS
    Jobs = {j1}
    MaxAttempts = 2
    Concurrency = 1
CHECK_DEADLOCK FALSE
INVARIANTS
    NoSilentDrop
PROPERTIES
    KeepsContract
    StopTerminates

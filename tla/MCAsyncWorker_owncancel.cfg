SPECIFICATION Spec
CONSTANTS
    Jobs = {j1}
    MaxAttempts = 1
    Concurrency = 1
CHECK_DEADLOCK FALSE
INVARIANT HandlersAreReported

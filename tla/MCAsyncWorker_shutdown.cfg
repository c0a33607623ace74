SPECIFICATION Spec
CONSTANTS
    Jobs = {j1, j2}
    MaxAttempts = 1
    Concurrency = 2
CHECK_DEADLOCK FALSE
SYMMETRY Symmetry
INVARIANTS
    AckCutOnlyWhenLost
    SlotsWithinLimit
    QuietWhenStopped

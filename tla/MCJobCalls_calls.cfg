\* The calls that move a job, over REST and gRPC, and the gRPC streams.
SPECIFICATION MCSpec
CONSTANTS
    j1 = j1
    j2 = j2
    u1 = u1
    u2 = u2
    Jobs = {j1, j2}
    MaxLeases = 2
    MaxRetries = 1
    BaseDelay = 40
    MaxDelay = 30
    Users = {u1, u2}
    NoCall = NoCall
    MaxRequests = 1
INVARIANTS
    ActsOnce
    RefusalsChangedNothing
    LeaseLossIsTold
    RetriesAreBounded
PROPERTIES
    RequestsAreSent
    ReadersAreReleased
\* A stream that is over stops.
CHECK_DEADLOCK FALSE

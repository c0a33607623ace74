\* One thread, one request: is it sent before the stream ends?
SPECIFICATION MCSpec
CONSTANTS
    j1 = j1
    j2 = j2
    u1 = u1
    u2 = u2
    Jobs = {j1, j2}
    MaxLeases = 0
    MaxRetries = 0
    BaseDelay = 1
    MaxDelay = 1
    Users = {u1}
    NoCall = NoCall
    MaxRequests = 1
INVARIANT EndSendsTheRest
CHECK_DEADLOCK FALSE

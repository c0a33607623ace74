\* The clients of the realtime streams, each by itself.
SPECIFICATION FairStreamsSpec
CONSTANTS
    f1 = f1
    f2 = f2
    timerA = timerA
    timerB = timerB
    task = task
    TimerThreads = {timerA, timerB}
    LoopTasks = {task}
    Nobody = Nobody
    NoFilter = NoFilter
    Clients = {"sse", "asse", "rt", "aws", "jwt"}
    JobFilters = {f1}
    Filters = {f1, f2}
    Slots = {1, 2}
    MaxRetries = 1
    HasSSE = TRUE
    MaxReconnects = 2
    MaxSSECalls = 2
    MaxRTCalls = 2
    MaxAWCalls = 6
    MaxJwts = 3
INVARIANTS
    RedialsAreEarned
    ConnectedReceives
    AsyncSubscriptionsReachServer
    LoginsAreShared
PROPERTIES
    CloseEndsIteration
    RealtimePendingEnds
    ProviderAnswered
\* The user stops calling and the client gives up: the system may stop.
CHECK_DEADLOCK FALSE

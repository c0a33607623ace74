\* The two HTTP clients and their breaker, each by itself, see HttpClients.
SPECIFICATION FairHttpSpec
CONSTANTS
    reader = reader
    writer = writer
    NoThread = NoThread
    Threads = {reader, writer}
    Replayable = {reader}
    Calls <- MCCalls
    MaxRetries = 1
    MaxTokens = 2
    FailureThreshold = 2
    SuccessThreshold = 2
    Enabled = TRUE
INVARIANTS
    WriteOnce
    RefreshNeverWaits
PROPERTIES
    OpensAndClosesOnEvidence
    RefreshOnlyIfDue
    TasksRefreshOnlyIfDue
    RequestsEnd
    OpenPeriodEnds
\* Callers are done at some time: the system may stop.
CHECK_DEADLOCK FALSE

\* One connect(), a disconnect() and subscriptions that come and go; no socket
\* stays up for STABLE_CONNECTION_SECONDS, so one reconnect spends the budget.
SPECIFICATION FairSpec
CONSTANTS
    f1 = f1
    NoFilter = NoFilter
    Filters = {f1}
    Connects = 1
    Disconnects = 1
    Subscribes = 2
    Unsubscribes = 1
    MaxReconnectAttempts = 1
    MayBeStable = FALSE
    MaxCalls <- CallBudget
    MaxSockets = 2
INVARIANTS
    BudgetHeld
    SubscriptionsReachServer
    DisconnectIsFinal
PROPERTIES
    LossesAreHandled
\* The user stops calling and the client gives up: the system may stop.
CHECK_DEADLOCK FALSE

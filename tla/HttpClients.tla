------------------------------ MODULE HttpClients ------------------------------
(***************************************************************************)
(* The HTTP clients, one per execution: the synchronous client, the        *)
(* asynchronous one, or the circuit breaker on its own with calls that     *)
(* come and go.  The threads of the first are the tasks of the second and, *)
(* with their refreshes, the calls of the breaker.                         *)
(***************************************************************************)
EXTENDS AsyncHttpClient

VARIABLE client       \* what this execution is of

allVars == <<vars, client>>

HttpInit == Init /\ client \in {"threads", "tasks", "breaker"}

BreakerAlone == BreakerNext /\ UNCHANGED <<tokenVars, sharedVars, frameVars, processed>>

HttpNext ==
    /\ UNCHANGED client
    /\ \/ client = "threads" /\ Next
       \/ client = "tasks" /\ AsyncNext
       \/ client = "breaker" /\ BreakerAlone

HttpSpec == HttpInit /\ [][HttpNext]_allVars

\* The fairness of each specification, in its own executions.
HttpFairness ==
    /\ \A t \in Threads :
           /\ WF_vars(client = "threads" /\ ThreadStep(t))
           /\ WF_vars(client = "tasks" /\ TaskStep(t))
    /\ WF_breakerVars(client = "breaker" /\ TimeoutElapses)
    /\ \A c \in Calls :
           /\ WF_breakerVars(client = "breaker" /\ Admit(c))
           /\ WF_breakerVars(client = "breaker" /\ CallEnds(c))

FairHttpSpec == HttpSpec /\ HttpFairness

-----------------------------------------------------------------------------
(* Properties of one kind of execution *)

\* On one event loop a refresh is started only for a token that is about to expire
\* (AsyncRefreshOnlyIfDue of AsyncHttpClient); threads may break it.
TasksRefreshOnlyIfDue == [][client = "tasks" => RefreshesOnlyIfDue]_vars

\* An open period of the breaker ends where calls come and go (OpenEnds of
\* CircuitBreaker).
OpenPeriodEnds == client = "breaker" => OpenEnds
=============================================================================

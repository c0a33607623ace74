--------------------------- MODULE RealtimeClients ---------------------------
(***************************************************************************)
(* The clients of the realtime streams, side by side: a behaviour is that  *)
(* of one of them, chosen in the initial state, while the others rest.     *)
(***************************************************************************)
EXTENDS RealtimeTokens, Sequences

CONSTANTS
    Clients,          \* the clients of a behaviour
    Filters, JobFilters, NoFilter,
    Slots,
    MaxRetries, MaxReconnects,
    HasSSE,
    MaxSSECalls, MaxRTCalls, MaxAWCalls

ASSUME FiltersAssumption == IsFiniteSet(Filters) /\ NoFilter \notin Filters
ASSUME SlotsAssumption == Slots \subseteq Nat \ {0}
ASSUME HasSSEAssumption == HasSSE \in BOOLEAN
ASSUME BudgetAssumption == MaxRetries \in Nat /\ MaxReconnects \in Nat
ASSUME CallBoundsAssumption ==
    MaxSSECalls \in Nat /\ MaxRTCalls \in Nat /\ MaxAWCalls \in Nat

VARIABLES
    client,
    sse, ssePc, asse, assePc,
    rt, feeds, rtPc, rtArg, rtCalls,
    aws, awSocks, awPc, awVal, awCalls

SSE == INSTANCE SSEClient
ASSE == INSTANCE AsyncSSEClient
RT == INSTANCE SpooledRealtime
AWS == INSTANCE AsyncWebSocketClient

sseVars == <<sse, ssePc>>
asseVars == <<asse, assePc>>
rtVars == <<rt, feeds, rtPc, rtArg, rtCalls>>
awVars == <<aws, awSocks, awPc, awVal, awCalls>>
streamVars == <<client, sseVars, asseVars, rtVars, awVars, jwtVars>>

StreamsInit ==
    /\ client \in Clients
    /\ SSE!SSEInit /\ ASSE!AsyncSSEInit /\ RT!RTInit /\ AWS!AWInit /\ JwtInit
    /\ sse.jobStream => client = "sse"
    /\ asse.jobStream => client = "asse"

\* A step of client c, which leaves the others alone.
Of(c, A, rest) == client = c /\ A /\ UNCHANGED <<client, rest>>

StreamsNext ==
    \/ Of("sse", SSE!SSENext, <<asseVars, rtVars, awVars, jwtVars>>)
    \/ Of("asse", ASSE!AsyncSSENext, <<sseVars, rtVars, awVars, jwtVars>>)
    \/ Of("rt", RT!RTNext, <<sseVars, asseVars, awVars, jwtVars>>)
    \/ Of("aws", AWS!AWNext, <<sseVars, asseVars, rtVars, jwtVars>>)
    \/ Of("jwt", JwtNext, <<sseVars, asseVars, rtVars, awVars>>)

StreamsSpec == StreamsInit /\ [][StreamsNext]_streamVars

\* The fairness of each specification, in its own executions.
StreamsFairness ==
    /\ WF_sseVars(client = "sse" /\ SSE!ConsumerStep)
    /\ WF_sseVars(client = "sse" /\ SSE!UserStep)
    /\ WF_sseVars(client = "sse" /\ SSE!Reads)
    /\ WF_asseVars(client = "asse" /\ ASSE!ConsumerStep)
    /\ WF_asseVars(client = "asse" /\ ASSE!UserStep)
    /\ WF_asseVars(client = "asse" /\ ASSE!Reads)
    /\ WF_rtVars(client = "rt" /\ RT!CallerStep)
    /\ \A x \in RT!Timers : WF_rtVars(client = "rt" /\ RT!TimerStep(x))
    /\ \A r \in RT!Receivers : WF_rtVars(client = "rt" /\ RT!ReceiverStep(r))
    /\ WF_jwtVars(client = "jwt" /\ ConnectReturns)
    /\ \A c \in Callers : SF_jwtVars(client = "jwt" /\ CoroutineStep(c))

FairStreamsSpec == StreamsSpec /\ StreamsFairness

-----------------------------------------------------------------------------
(* Properties of the clients *)

\* Streams that open and deliver nothing spend the retry budget of their client, and a
\* rejection by the server ends its retries: no client redials more often than the
\* budget allows between two events, and none once it was rejected.
RedialsAreEarned ==
    /\ SSE!RedialsAreEarned /\ ASSE!AsyncRedialsAreEarned
    /\ RT!QuietStreamsSpendBudget /\ RT!RejectionIsFinal
    /\ AWS!AsyncBudgetHeld

\* close() ends the iteration of the other thread, or of the other task.
CloseEndsIteration == SSE!CloseEndsIteration /\ ASSE!AsyncCloseEndsIteration

ConnectedReceives   == RT!ConnectedReceives
RealtimePendingEnds == RT!RealtimePendingEnds
AsyncSubscriptionsReachServer == AWS!AsyncSubscriptionsReachServer
=============================================================================

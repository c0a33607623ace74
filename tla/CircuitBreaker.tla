---------------------------- MODULE CircuitBreaker ----------------------------
(***************************************************************************)
(* The circuit breaker, spooled/utils/circuit_breaker.py, shared by the    *)
(* calls that run at the same time on the threads of one client.  A call   *)
(* is an execute(fn): it is admitted or rejected in one locked section and *)
(* its result recorded in another, with fn in between, so that results     *)
(* arrive in states of the breaker other than the one they were let in by. *)
(*                                                                         *)
(* failure_count is compared with the threshold and nothing else; it is    *)
(* counted up to the threshold here.  There is no clock: config.timeout is *)
(* over, since the last failure, at any time.                              *)
(***************************************************************************)
EXTENDS Naturals

CONSTANTS
    Calls,              \* execute() calls
    FailureThreshold,   \* config.failure_threshold
    SuccessThreshold,   \* config.success_threshold
    Enabled             \* config.enabled

ASSUME ThresholdAssumption ==
    FailureThreshold \in Nat \ {0} /\ SuccessThreshold \in Nat \ {0}
ASSUME EnabledAssumption == Enabled \in BOOLEAN

VARIABLES
    cbState,            \* self._state
    failureCount,       \* self._failure_count
    successCount,       \* self._success_count
    timeoutElapsed,     \* config.timeout is over since self._last_failure_time
    inFlight,           \* calls whose fn runs
    failuresInARow,     \* history: failures recorded since the last success
    successesInARow     \* history: successes recorded since the last failure

countVars == <<failureCount, successCount>>
historyVars == <<failuresInARow, successesInARow>>
breakerVars == <<cbState, countVars, timeoutElapsed, inFlight, historyVars>>

BreakerTypeOK ==
    /\ cbState \in {"CLOSED", "OPEN", "HALF_OPEN"}
    /\ failureCount \in 0 .. FailureThreshold
    /\ successCount \in 0 .. SuccessThreshold - 1
    /\ timeoutElapsed \in BOOLEAN
    /\ inFlight \in SUBSET Calls
    /\ failuresInARow \in 0 .. FailureThreshold
    /\ successesInARow \in 0 .. SuccessThreshold

BreakerInit ==
    /\ cbState = "CLOSED"
    /\ failureCount = 0 /\ successCount = 0
    /\ timeoutElapsed = FALSE
    /\ inFlight = {}
    /\ failuresInARow = 0 /\ successesInARow = 0

UpTo(bound, n) == IF n < bound THEN n ELSE bound

-----------------------------------------------------------------------------
(* The methods; each runs under self._lock *)

\* Slip: the state as it was left, whether the timeout is over or not.
StateWithoutTimeout == cbState

\* _get_state_unlocked: an open breaker whose timeout is over is half open.
CurrentState == IF cbState = "OPEN" /\ timeoutElapsed THEN "HALF_OPEN" ELSE cbState

\* Slip: the successes of an earlier half-open period still count.
LookKeepingSuccesses == cbState' = CurrentState /\ UNCHANGED successCount

Look ==
    /\ cbState' = CurrentState
    /\ successCount' = IF CurrentState = cbState THEN successCount ELSE 0

\* is_allowed
Admit(c) ==
    /\ c \notin inFlight
    /\ inFlight' = inFlight \cup {c}
    /\ IF Enabled THEN CurrentState # "OPEN" /\ Look ELSE UNCHANGED <<cbState, successCount>>
    /\ UNCHANGED <<failureCount, timeoutElapsed, historyVars>>

Reject(c) ==
    /\ Enabled
    /\ c \notin inFlight /\ CurrentState = "OPEN"
    /\ UNCHANGED breakerVars

\* record_success
Succeed(c) ==
    /\ c \in inFlight /\ inFlight' = inFlight \ {c}
    /\ \/ (~Enabled \/ cbState = "OPEN") /\ UNCHANGED <<cbState, countVars>>
       \/ /\ Enabled /\ cbState = "CLOSED"
          /\ failureCount' = 0 /\ UNCHANGED <<cbState, successCount>>
       \/ /\ Enabled /\ cbState = "HALF_OPEN" /\ successCount + 1 < SuccessThreshold
          /\ successCount' = successCount + 1 /\ UNCHANGED <<cbState, failureCount>>
       \/ /\ Enabled /\ cbState = "HALF_OPEN" /\ successCount + 1 >= SuccessThreshold
          /\ cbState' = "CLOSED" /\ failureCount' = 0 /\ successCount' = 0
    /\ failuresInARow' = 0
    /\ successesInARow' = UpTo(SuccessThreshold, successesInARow + 1)
    /\ UNCHANGED timeoutElapsed

\* record_failure of an error that is_retryable
Fail(c) ==
    /\ c \in inFlight /\ inFlight' = inFlight \ {c}
    /\ IF Enabled
       THEN /\ failureCount' = UpTo(FailureThreshold, failureCount + 1)
            /\ timeoutElapsed' = FALSE
            /\ cbState' = IF \/ cbState = "HALF_OPEN"
                             \/ cbState = "CLOSED" /\ failureCount + 1 >= FailureThreshold
                          THEN "OPEN" ELSE cbState
       ELSE UNCHANGED <<failureCount, timeoutElapsed, cbState>>
    /\ failuresInARow' = UpTo(FailureThreshold, failuresInARow + 1)
    /\ successesInARow' = 0
    /\ UNCHANGED successCount

\* record_failure of any other error: not counted
FailUncounted(c) ==
    /\ c \in inFlight /\ inFlight' = inFlight \ {c}
    /\ UNCHANGED <<cbState, countVars, timeoutElapsed, historyVars>>

\* get_state, get_stats
GetState ==
    /\ Look
    /\ UNCHANGED <<failureCount, timeoutElapsed, inFlight, historyVars>>

Reset ==
    /\ cbState' = "CLOSED" /\ failureCount' = 0 /\ successCount' = 0
    /\ timeoutElapsed' = FALSE
    /\ failuresInARow' = 0 /\ successesInARow' = 0
    /\ UNCHANGED inFlight

TimeoutElapses ==
    /\ cbState = "OPEN" /\ ~timeoutElapsed
    /\ timeoutElapsed' = TRUE
    /\ UNCHANGED <<cbState, countVars, inFlight, historyVars>>

CallEnds(c) == Succeed(c) \/ Fail(c) \/ FailUncounted(c)

BreakerNext ==
    \/ \E c \in Calls : Admit(c) \/ Reject(c) \/ CallEnds(c)
    \/ GetState \/ Reset \/ TimeoutElapses

\* Time passes, calls end (they have a timeout), and somebody calls again.
BreakerFairness ==
    /\ WF_breakerVars(TimeoutElapses)
    /\ \A c \in Calls : WF_breakerVars(Admit(c)) /\ WF_breakerVars(CallEnds(c))

BreakerSpec == BreakerInit /\ [][BreakerNext]_breakerVars

FairBreakerSpec == BreakerSpec /\ BreakerFairness

-----------------------------------------------------------------------------
(* Properties *)

\* While the breaker is closed its failure count is the number of failures
\* recorded since the last success, below the threshold: failures that
\* successes keep apart never open it, whatever was in flight when it closed,
\* and it never stays closed on a failure too many.
ClosedOnFewFailures ==
    Enabled /\ cbState = "CLOSED" =>
        failureCount = failuresInARow /\ failureCount < FailureThreshold

\* The breaker opens on FailureThreshold failures in a row or on a failure
\* while it is half open, and closes on SuccessThreshold successes recorded
\* without a failure since: successes of an earlier half-open period that a
\* failure ended do not count.
OpensAndClosesOnEvidence ==
    [][/\ cbState = "CLOSED" /\ cbState' = "OPEN" => failuresInARow' = FailureThreshold
       /\ cbState # "CLOSED" /\ cbState' = "CLOSED" =>
              successesInARow' = SuccessThreshold \/ Reset]_breakerVars

\* An open breaker does not stay open for good: stale failures that keep
\* moving _last_failure_time come from finitely many calls in flight.
OpenEnds == cbState = "OPEN" ~> cbState # "OPEN"
=============================================================================

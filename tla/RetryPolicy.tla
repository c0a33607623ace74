----------------------------- MODULE RetryPolicy -----------------------------
(***************************************************************************)
(* What utils/retry.py and _is_idempotent of utils/http.py decide about a  *)
(* request that failed: whether it is sent once more, and after how long.  *)
(* with_retry_async decides the same.                                      *)
(***************************************************************************)
EXTENDS ApiErrors

CONSTANTS
    MaxRetries,   \* config.max_retries
    BaseDelay,    \* config.base_delay; config.factor is 2, config.jitter is on
    MaxDelay      \* config.max_delay

ASSUME RetryAssumption == MaxRetries \in Nat /\ MaxDelay \in Nat
\* For a number BaseDelay, which the provers, who know no powers, are told so.
ASSUME BackoffAssumption == \A n \in 1 .. MaxRetries : BaseDelay * 2 ^ (n - 1) \in Nat

\* Slip: the key of a body is not looked at, nor the method: all is replayed.
EverythingIdempotent(method, keyed) == TRUE

\* _is_idempotent
IsIdempotent(method, keyed) == method \in {"GET", "HEAD", "PUT", "DELETE", "OPTIONS"} \/ keyed

\* Slip: whether sending again is safe is not looked at.
ShouldRetryAnything(e, n, idempotent) ==
    n <= MaxRetries /\ (e.class = "Other" \/ IsRetryable(e))

\* should_retry of attempt n
ShouldRetry(e, n, idempotent) ==
    /\ n <= MaxRetries
    /\ IF e.class \in {"RateLimit", "QuotaExceeded"} THEN IsRetryable(e)
       ELSE idempotent /\ (e.class = "Other" \/ IsRetryable(e))

LesserOf(a, b) == IF a < b THEN a ELSE b

\* calculate_delay: the jitter comes on top of the capped backoff.
Delays(e, n) ==
    IF e.hint > 0 THEN {LesserOf(e.hint, MaxDelay)}
    ELSE LET backoff == LesserOf(BaseDelay * 2 ^ (n - 1), MaxDelay)
         IN  {backoff, backoff + backoff \div 4}
=============================================================================

------------------------------ MODULE HttpClient ------------------------------
(***************************************************************************)
(* The synchronous HTTP client, spooled/utils/http.py and utils/retry.py,  *)
(* with the token refresh of spooled/client.py, used by several threads:   *)
(* a request is a retry loop around the circuit breaker around one call on *)
(* the wire, which a 401 makes refresh the token and replay once.  The     *)
(* refresh is a request of the same client, inside the call it serves.     *)
(*                                                                         *)
(* <<t, "call">> is the request of thread t, <<t, "refresh">> the refresh  *)
(* nested in it; each is an execute() of the breaker.  Backing off takes   *)
(* no step: what other threads do meanwhile they may do anyway.            *)
(***************************************************************************)
EXTENDS CircuitBreaker

CONSTANTS
    Threads,      \* each sends a request or renews the configured token
    Replayable,   \* those whose request is safe to replay, _is_idempotent
    NoThread,     \* nobody holds the refresh lock
    MaxRetries,   \* config.retry.max_retries
    MaxTokens     \* bound: access tokens the server issues

Frames == Threads \X {"call", "refresh"}

ASSUME ThreadsAssumption ==
    Replayable \subseteq Threads /\ NoThread \notin Threads /\ Calls = Frames
ASSUME BoundsAssumption == MaxRetries \in Nat /\ MaxTokens \in Nat \ {0}

VARIABLES
    issued,        \* access tokens the server has issued: 1 .. issued
    due,           \* the tokens up to this one are about to expire
    expired,       \* the tokens up to this one have expired
    authToken,     \* self._auth_token
    configToken,   \* self._config.access_token
    refreshLock,   \* holder of self._refresh_lock
    renewing,      \* per thread: it is in get_jwt_token, not in request
    pc,            \* per frame: where it is
    attempt,       \* per frame: attempt of with_retry
    tokenBefore,   \* per frame: auth_before
    tokenSent,     \* per frame: the bearer of its last call
    replaying,     \* per frame: not _allow_refresh
    processed      \* history, per thread: times the server processed its request

tokenVars == <<issued, due, expired>>
sharedVars == <<authToken, configToken, refreshLock>>
frameVars == <<renewing, pc, attempt, tokenBefore, tokenSent, replaying>>
vars == <<breakerVars, tokenVars, sharedVars, frameVars, processed>>

Pcs == {"none", "renew", "attempt", "read", "build", "sent", "waiting", "refreshing", "okay",
        "store", "stored", "retryable", "rateLimited", "rejected", "returned", "raised"}

ClientTypeOK ==
    /\ issued \in 1 .. MaxTokens /\ due \in 0 .. issued /\ expired \in 0 .. due
    /\ authToken \in 1 .. issued /\ configToken \in 1 .. issued
    /\ refreshLock \in Threads \cup {NoThread}
    /\ renewing \in [Threads -> BOOLEAN]
    /\ pc \in [Frames -> Pcs]
    /\ attempt \in [Frames -> 1 .. MaxRetries + 1]
    /\ tokenBefore \in [Frames -> 0 .. MaxTokens]
    /\ tokenSent \in [Frames -> 0 .. MaxTokens]
    /\ replaying \in [Frames -> BOOLEAN]
    /\ processed \in [Threads -> Nat]

TypeOK == BreakerTypeOK /\ ClientTypeOK

Init ==
    /\ BreakerInit
    /\ issued = 1 /\ due = 0 /\ expired = 0
    /\ authToken = 1 /\ configToken = 1
    /\ refreshLock = NoThread
    /\ renewing = [t \in Threads |-> FALSE]
    /\ pc = [f \in Frames |-> "none"]
    /\ attempt = [f \in Frames |-> 1]
    /\ tokenBefore = [f \in Frames |-> 0] /\ tokenSent = [f \in Frames |-> 0]
    /\ replaying = [f \in Frames |-> FALSE]
    /\ processed = [t \in Threads |-> 0]

Goto(f, p) == pc' = [pc EXCEPT ![f] = p]

IsRefresh(f) == f[2] = "refresh"

-----------------------------------------------------------------------------
(* The retry loop and the breaker *)

RequestCall(t) ==
    /\ pc[<<t, "call">>] = "none"
    /\ Goto(<<t, "call">>, "attempt")
    /\ UNCHANGED <<breakerVars, tokenVars, sharedVars, attempt, tokenBefore, tokenSent,
                   replaying, renewing, processed>>

AttemptAdmitted(f) ==
    /\ pc[f] = "attempt"
    /\ Admit(f)
    /\ Goto(f, "read")
    /\ replaying' = [replaying EXCEPT ![f] = FALSE]
    /\ UNCHANGED <<tokenVars, sharedVars, attempt, tokenBefore, tokenSent, renewing, processed>>

\* CircuitBreakerOpenError, which is never retried
AttemptRejected(f) ==
    /\ pc[f] = "attempt"
    /\ Reject(f)
    /\ Goto(f, "raised")
    /\ UNCHANGED <<tokenVars, sharedVars, attempt, tokenBefore, tokenSent, replaying,
                   renewing, processed>>

\* The refresh is a POST without an idempotency key.
SafeToReplay(f) == f[1] \in Replayable /\ ~IsRefresh(f)

\* Slip: replay whatever failed in a way that may pass.
RetryAnything(f) == attempt[f] <= MaxRetries /\ pc[f] \in {"retryable", "rateLimited"}

\* should_retry: a 429 was not processed; any other failure may have been.
ShouldRetry(f) ==
    /\ attempt[f] <= MaxRetries
    /\ pc[f] = "rateLimited" \/ (pc[f] = "retryable" /\ SafeToReplay(f))

AttemptSucceeds(f) ==
    /\ pc[f] = "okay"
    /\ Succeed(f)
    /\ Goto(f, IF IsRefresh(f) THEN "store" ELSE "returned")
    /\ UNCHANGED <<tokenVars, sharedVars, attempt, tokenBefore, tokenSent, replaying,
                   renewing, processed>>

AttemptFails(f) ==
    /\ \/ pc[f] \in {"retryable", "rateLimited"} /\ Fail(f)
       \/ pc[f] = "rejected" /\ FailUncounted(f)
    /\ IF ShouldRetry(f)
       THEN Goto(f, "attempt") /\ attempt' = [attempt EXCEPT ![f] = @ + 1]
       ELSE Goto(f, "raised") /\ UNCHANGED attempt
    /\ UNCHANGED <<tokenVars, sharedVars, tokenBefore, tokenSent, replaying, renewing,
                   processed>>

-----------------------------------------------------------------------------
(* _execute_request *)

ReadToken(f) ==
    /\ pc[f] = "read"
    /\ tokenBefore' = [tokenBefore EXCEPT ![f] = authToken]
    /\ Goto(f, "build")
    /\ UNCHANGED <<breakerVars, tokenVars, sharedVars, attempt, tokenSent, replaying,
                   renewing, processed>>

\* _build_headers reads the token once more.
Send(f) ==
    /\ pc[f] = "build"
    /\ tokenSent' = [tokenSent EXCEPT ![f] = authToken]
    /\ Goto(f, "sent")
    /\ UNCHANGED <<breakerVars, tokenVars, sharedVars, attempt, tokenBefore, replaying,
                   renewing, processed>>

\* The server accepts the bearer; /auth/refresh looks at the refresh token only.
Authorized(f) == IsRefresh(f) \/ tokenSent[f] > expired

\* The server acts on the request: the answer arrives or gets lost.
Processed(f) ==
    /\ pc[f] = "sent" /\ Authorized(f)
    /\ IF IsRefresh(f)
       THEN issued < MaxTokens /\ issued' = issued + 1 /\ UNCHANGED processed
       ELSE processed' = [processed EXCEPT ![f[1]] = @ + 1] /\ UNCHANGED issued
    /\ Goto(f, "okay") \/ Goto(f, "retryable")
    /\ UNCHANGED <<breakerVars, due, expired, sharedVars, attempt, tokenBefore, tokenSent,
                   replaying, renewing>>

\* It fails on the way, is answered 5xx, 429 or another error.
NotProcessed(f) ==
    /\ pc[f] = "sent"
    /\ \E p \in {"retryable", "rateLimited", "rejected"} : Goto(f, p)
    /\ UNCHANGED <<breakerVars, tokenVars, sharedVars, attempt, tokenBefore, tokenSent,
                   replaying, renewing, processed>>

\* Slip: no thread-local flag, the refresh call would refresh on its own 401.
MayRefreshAlways(f) == ~replaying[f]

\* _allow_refresh, and self._refresh_state.active is not set for this thread.
MayRefresh(f) == ~replaying[f] /\ refreshLock # f[1]

\* 401: wait for the lock of _try_refresh_token, or raise AuthenticationError.
Unauthorized(f) ==
    /\ pc[f] = "sent" /\ (IsRefresh(f) \/ ~Authorized(f))
    /\ Goto(f, IF MayRefresh(f) THEN "waiting" ELSE "rejected")
    /\ UNCHANGED <<breakerVars, tokenVars, sharedVars, attempt, tokenBefore, tokenSent,
                   replaying, renewing, processed>>

-----------------------------------------------------------------------------
(* _try_refresh_token *)

\* What follows a refresh: a request is replayed or fails with the 401 it got; a
\* renewal ignores the outcome.
AfterRefresh(f, ok) ==
    IF renewing[f[1]] THEN "returned" ELSE IF ok THEN "read" ELSE "rejected"

\* Slip: refresh without looking at the token once more under the lock.
StillCurrentUnchecked(f) == TRUE

StillCurrent(f) == authToken = tokenBefore[f]

JoinRefresh(f) ==
    /\ pc[f] = "waiting" /\ refreshLock = NoThread
    /\ ~StillCurrent(f)
    /\ Goto(f, AfterRefresh(f, TRUE))
    /\ replaying' = [replaying EXCEPT ![f] = TRUE]
    /\ UNCHANGED <<breakerVars, tokenVars, sharedVars, attempt, tokenBefore, tokenSent,
                   renewing, processed>>

StartRefresh(t) ==
    /\ pc[<<t, "call">>] = "waiting" /\ refreshLock = NoThread
    /\ StillCurrent(<<t, "call">>)
    /\ refreshLock' = t
    /\ pc' = [pc EXCEPT ![<<t, "call">>] = "refreshing", ![<<t, "refresh">>] = "attempt"]
    /\ attempt' = [attempt EXCEPT ![<<t, "refresh">>] = 1]
    /\ UNCHANGED <<breakerVars, tokenVars, authToken, configToken, tokenBefore, tokenSent,
                   replaying, renewing, processed>>

\* _refresh_access_token stores the token in two places.
SetAuthToken(t) ==
    /\ pc[<<t, "refresh">>] = "store"
    /\ authToken' = issued
    /\ Goto(<<t, "refresh">>, "stored")
    /\ UNCHANGED <<breakerVars, tokenVars, configToken, refreshLock, attempt, tokenBefore,
                   tokenSent, replaying, renewing, processed>>

RefreshEnds(t, ok) ==
    /\ refreshLock' = NoThread
    /\ pc' = [pc EXCEPT ![<<t, "refresh">>] = "none",
                        ![<<t, "call">>] = AfterRefresh(<<t, "call">>, ok)]
    /\ replaying' = [replaying EXCEPT ![<<t, "call">>] = ok]
    /\ UNCHANGED <<breakerVars, tokenVars, authToken, attempt, tokenBefore, tokenSent,
                   renewing, processed>>

RefreshReturns(t) ==
    /\ pc[<<t, "refresh">>] = "stored"
    /\ configToken' = issued
    /\ RefreshEnds(t, TRUE)

RefreshRaises(t) ==
    /\ pc[<<t, "refresh">>] = "raised"
    /\ RefreshEnds(t, FALSE)
    /\ UNCHANGED configToken

-----------------------------------------------------------------------------
(* get_jwt_token of a client with a configured access token *)

\* _refresh_static_token_if_due
RenewalCall(t) ==
    /\ pc[<<t, "call">>] = "none"
    /\ renewing' = [renewing EXCEPT ![t] = TRUE]
    /\ Goto(<<t, "call">>, IF configToken <= due THEN "renew" ELSE "returned")
    /\ UNCHANGED <<breakerVars, tokenVars, sharedVars, attempt, tokenBefore, tokenSent,
                   replaying, processed>>

\* refresh_now
RefreshNow(t) ==
    /\ pc[<<t, "call">>] = "renew"
    /\ tokenBefore' = [tokenBefore EXCEPT ![<<t, "call">>] = authToken]
    /\ Goto(<<t, "call">>, "waiting")
    /\ UNCHANGED <<breakerVars, tokenVars, sharedVars, attempt, tokenSent, replaying,
                   renewing, processed>>

-----------------------------------------------------------------------------

TokenAges ==
    /\ \/ due < issued /\ due' = due + 1 /\ UNCHANGED expired
       \/ expired < due /\ expired' = expired + 1 /\ UNCHANGED due
    /\ UNCHANGED <<breakerVars, issued, sharedVars, frameVars, processed>>

BreakerTimeout ==
    /\ TimeoutElapses
    /\ UNCHANGED <<tokenVars, sharedVars, frameVars, processed>>

Answered(f) == Processed(f) \/ NotProcessed(f) \/ Unauthorized(f)

\* What a request of the client goes through, the refresh included.
FrameStep(f) ==
    \/ AttemptAdmitted(f) \/ AttemptRejected(f) \/ AttemptSucceeds(f) \/ AttemptFails(f)
    \/ ReadToken(f) \/ Send(f) \/ Answered(f)

RefreshStep(t) ==
    \/ FrameStep(<<t, "refresh">>)
    \/ JoinRefresh(<<t, "call">>) \/ StartRefresh(t)
    \/ SetAuthToken(t) \/ RefreshReturns(t) \/ RefreshRaises(t)

ThreadStep(t) == FrameStep(<<t, "call">>) \/ RefreshStep(t) \/ RefreshNow(t)

Next ==
    \/ \E t \in Threads : RequestCall(t) \/ RenewalCall(t) \/ ThreadStep(t)
    \/ TokenAges \/ BreakerTimeout

Spec == Init /\ [][Next]_vars

\* Threads run and calls end: every call has a timeout.  Tokens and the breaker
\* age as they like.
FairSpec == Spec /\ \A t \in Threads : WF_vars(ThreadStep(t))

-----------------------------------------------------------------------------
(* Properties *)

\* A write that is not safe to replay reaches the server at most once, over
\* retries, lost answers and the replay after a refresh.
WriteOnce == \A t \in Threads \ Replayable : processed[t] <= 1

\* A request starts a refresh only for a token that is about to expire:
\* concurrent 401s, and renewals that get ahead of them, end in one refresh, whose
\* result nobody throws away.
RefreshOnlyIfDue ==
    [][\A t \in Threads :
          ~renewing[t] /\ refreshLock # t /\ refreshLock' = t => authToken <= due]_vars

\* The refresh lock is held exactly while a refresh is under way, and the thread
\* that holds it does not wait for it: not on the 401 of its own refresh.
RefreshNeverWaits ==
    \A t \in Threads :
        /\ refreshLock = t <=> pc[<<t, "refresh">>] # "none"
        /\ refreshLock = t =>
               pc[<<t, "call">>] = "refreshing" /\ pc[<<t, "refresh">>] # "waiting"

\* Every request and renewal ends: in particular no thread waits for the refresh lock that
\* it holds itself, and the lock is given back whatever becomes of the refresh.
RequestsEnd ==
    \A t \in Threads :
        pc[<<t, "call">>] # "none" ~> pc[<<t, "call">>] \in {"returned", "raised"}
=============================================================================

--------------------------- MODULE AsyncHttpClient ---------------------------
(***************************************************************************)
(* The asynchronous HTTP client, spooled/utils/async_http.py, with the     *)
(* token refresh of spooled/async_client.py.  It makes the steps of        *)
(* HttpClient, on one event loop: a task runs alone from one await to the  *)
(* next, and may be cancelled at each await, by its application or by a    *)
(* timeout around it.                                                      *)
(*                                                                         *)
(* A task awaits before it starts, in a backoff, for its answer and for    *)
(* the refresh lock; awaiting a lock that is free it goes on at once in    *)
(* the code, and may be overtaken here.                                    *)
(***************************************************************************)
EXTENDS HttpClient

\* The frame is between two awaits.
Running(f) ==
    \/ pc[f] \in {"renew", "read", "build", "okay", "store", "stored", "retryable",
                  "rateLimited", "rejected"}
    \/ IsRefresh(f) /\ (pc[f] = "raised" \/ (pc[f] = "attempt" /\ attempt[f] = 1))

\* Slip: as if each step were a task of its own.
OnLoopUnchecked(t) == TRUE

\* No other task is between two awaits.
OnLoop(t) == \A f \in Frames : Running(f) => f[1] = t

\* Slip: the lock is given back on the way past except Exception only.
ReleasedOnErrorOnly(t) == refreshLock

\* The task that holds the lock leaves it: async with, on any exception.
ReleasedBy(t) == IF refreshLock = t THEN NoThread ELSE refreshLock

\* CancelledError passes each except Exception on its way: it is neither recorded
\* by the breaker nor retried.  The server may act on what was sent all the same.
Cancelled(t) ==
    /\ \A f \in Frames : ~Running(f)
    /\ pc[<<t, "call">>] \notin {"none", "returned", "raised"}
    /\ \/ UNCHANGED <<issued, processed>>
       \/ /\ pc[<<t, "call">>] = "sent" /\ Authorized(<<t, "call">>)
          /\ processed' = [processed EXCEPT ![t] = @ + 1] /\ UNCHANGED issued
       \/ /\ pc[<<t, "refresh">>] = "sent" /\ issued < MaxTokens
          /\ issued' = issued + 1 /\ UNCHANGED processed
    /\ pc' = [pc EXCEPT ![<<t, "call">>] = "raised", ![<<t, "refresh">>] = "none"]
    /\ refreshLock' = ReleasedBy(t)
    /\ inFlight' = inFlight \ {<<t, "call">>, <<t, "refresh">>}
    /\ UNCHANGED <<cbState, countVars, timeoutElapsed, historyVars, due, expired, authToken,
                   configToken, attempt, tokenBefore, tokenSent, replaying, renewing>>

\* request, refresh_now, _execute_request, _try_refresh_token, execute_with_cb
TaskStep(t) == ThreadStep(t) /\ OnLoop(t)

AsyncNext ==
    \/ \E t \in Threads : TaskStep(t) \/ ((RequestCall(t) \/ RenewalCall(t)) /\ OnLoop(t))
    \/ \E t \in Threads : Cancelled(t)
    \/ TokenAges \/ BreakerTimeout

AsyncSpec == Init /\ [][AsyncNext]_vars

FairAsyncSpec == AsyncSpec /\ \A t \in Threads : WF_vars(TaskStep(t))

-----------------------------------------------------------------------------
(* Properties *)

RefreshesOnlyIfDue ==
    \A t \in Threads : refreshLock # t /\ refreshLock' = t => authToken <= due

\* On one event loop a refresh is started only for a token that is about to
\* expire, by a renewal too: refresh_now is "single-flight with 401 refreshes",
\* and no cancellation makes a second refresh of the same token.
AsyncRefreshOnlyIfDue == [][RefreshesOnlyIfDue]_vars
=============================================================================

--------------------------- MODULE HttpClientProofs ---------------------------
(***************************************************************************)
(* Theorems about CircuitBreaker, HttpClient, AsyncHttpClient and their    *)
(* executions in HttpClients, for all sets of threads or tasks and all     *)
(* bounds.                                                                 *)
(***************************************************************************)
EXTENDS HttpClients, TLAPS

-----------------------------------------------------------------------------
(* The circuit breaker *)

\* While the breaker is half open it has counted at most the successes recorded
\* since the last failure: the count starts at 0 when an open breaker becomes
\* half open, and a failure ends the half-open period.
ProbesCounted == Enabled /\ cbState = "HALF_OPEN" => successCount <= successesInARow

BreakerInv == BreakerTypeOK /\ ClosedOnFewFailures /\ ProbesCounted

\* The initial state satisfies the invariant.
LEMMA InitBreakerInv == BreakerInit => BreakerInv
<1> SUFFICES ASSUME BreakerInit PROVE BreakerInv
  OBVIOUS
<1>1. /\ failureCount \in 0 .. FailureThreshold /\ failuresInARow \in 0 .. FailureThreshold
      /\ successCount \in 0 .. SuccessThreshold - 1
      /\ successesInARow \in 0 .. SuccessThreshold
      /\ failureCount = failuresInARow /\ failureCount < FailureThreshold
  BY ThresholdAssumption DEF BreakerInit
<1>2. cbState = "CLOSED" /\ timeoutElapsed \in BOOLEAN /\ inFlight \in SUBSET Calls
  BY DEF BreakerInit
<1> QED
  BY <1>1, <1>2 DEF BreakerInv, BreakerTypeOK, ClosedOnFewFailures, ProbesCounted

\* Looking at the state, alone or to admit a call, preserves the invariant.
LEMMA LookBreakerInv ==
    ASSUME BreakerInv, Look,
           UNCHANGED <<failureCount, timeoutElapsed, historyVars>>,
           inFlight' \in SUBSET Calls
    PROVE  BreakerInv'
  BY ThresholdAssumption
     DEF Look, CurrentState, historyVars, BreakerInv, BreakerTypeOK, ClosedOnFewFailures,
         ProbesCounted

\* Every step preserves the invariant.
LEMMA NextBreakerInv == BreakerInv /\ [BreakerNext]_breakerVars => BreakerInv'
<1> SUFFICES ASSUME BreakerInv, [BreakerNext]_breakerVars PROVE BreakerInv'
  OBVIOUS
<1> USE ThresholdAssumption, EnabledAssumption
<1>1. ASSUME NEW c \in Calls, Admit(c) PROVE BreakerInv'
  <2>1. inFlight' \in SUBSET Calls
    BY <1>1 DEF Admit, BreakerInv, BreakerTypeOK
  <2>2. CASE Enabled
    BY <1>1, <2>1, <2>2, LookBreakerInv DEF Admit
  <2>3. CASE ~Enabled
    BY <1>1, <2>1, <2>3 DEF Admit, historyVars, BreakerInv, BreakerTypeOK, ClosedOnFewFailures,
                            ProbesCounted
  <2> QED BY <2>2, <2>3
<1>2. ASSUME NEW c \in Calls, Succeed(c) PROVE BreakerInv'
  <2>1. CASE ~Enabled \/ cbState = "OPEN"
    BY <1>2, <2>1 DEF Succeed, UpTo, countVars, BreakerInv, BreakerTypeOK,
                           ClosedOnFewFailures, ProbesCounted
  <2>2. CASE Enabled /\ cbState = "CLOSED"
    BY <1>2, <2>2 DEF Succeed, UpTo, BreakerInv, BreakerTypeOK, ClosedOnFewFailures,
                           ProbesCounted
  <2>3. CASE Enabled /\ cbState = "HALF_OPEN"
    BY <1>2, <2>3 DEF Succeed, UpTo, BreakerInv, BreakerTypeOK, ClosedOnFewFailures,
                           ProbesCounted
  <2> QED BY <2>1, <2>2, <2>3 DEF BreakerInv, BreakerTypeOK
<1>3. ASSUME NEW c \in Calls, Fail(c) PROVE BreakerInv'
  <2>1. timeoutElapsed' \in BOOLEAN /\ inFlight' \in SUBSET Calls
    BY <1>3 DEF Fail, BreakerInv, BreakerTypeOK
  <2>2. successesInARow' = 0 /\ successCount' = successCount
        /\ failuresInARow' \in 0 .. FailureThreshold
    BY <1>3 DEF Fail, UpTo, BreakerInv, BreakerTypeOK
  <2>3. CASE Enabled
    <3>1. cbState' \in {"CLOSED", "OPEN"}
      BY <1>3, <2>3 DEF Fail, BreakerInv, BreakerTypeOK
    <3>2. /\ failureCount' \in 0 .. FailureThreshold
          /\ cbState' = "CLOSED" =>
                 failureCount' = failuresInARow' /\ failureCount' < FailureThreshold
      BY <1>3, <2>3 DEF Fail, UpTo, BreakerInv, BreakerTypeOK, ClosedOnFewFailures
    <3> QED
      BY <2>1, <2>2, <3>1, <3>2 DEF BreakerInv, BreakerTypeOK, ClosedOnFewFailures,
                                    ProbesCounted
  <2>4. CASE ~Enabled
    BY <1>3, <2>1, <2>2, <2>4
       DEF Fail, BreakerInv, BreakerTypeOK, ClosedOnFewFailures, ProbesCounted
  <2> QED BY <2>3, <2>4
<1>4. ASSUME NEW c \in Calls, FailUncounted(c) PROVE BreakerInv'
  BY <1>4 DEF FailUncounted, countVars, historyVars, BreakerInv, BreakerTypeOK,
                   ClosedOnFewFailures, ProbesCounted
<1>5. ASSUME GetState PROVE BreakerInv'
  BY <1>5, LookBreakerInv DEF GetState, BreakerInv, BreakerTypeOK
<1>6. ASSUME Reset PROVE BreakerInv'
  <2>1. /\ 0 \in 0 .. FailureThreshold /\ 0 < FailureThreshold
        /\ 0 \in 0 .. SuccessThreshold - 1 /\ 0 \in 0 .. SuccessThreshold
    OBVIOUS
  <2> QED
    BY <1>6, <2>1 DEF Reset, BreakerInv, BreakerTypeOK, ClosedOnFewFailures, ProbesCounted
<1>7. ASSUME TimeoutElapses PROVE BreakerInv'
  BY <1>7 DEF TimeoutElapses, countVars, historyVars, BreakerInv, BreakerTypeOK,
                   ClosedOnFewFailures, ProbesCounted
<1>8. ASSUME UNCHANGED breakerVars PROVE BreakerInv'
  BY <1>8 DEF breakerVars, countVars, historyVars, BreakerInv, BreakerTypeOK,
              ClosedOnFewFailures, ProbesCounted
<1> QED
  BY <1>1, <1>2, <1>3, <1>4, <1>5, <1>6, <1>7, <1>8 DEF BreakerNext, CallEnds, Reject

\* In every reachable state the counts of the breaker stay within their
\* thresholds, the invariant that the theorems below rest on.
THEOREM BreakerInvariant == BreakerSpec => []BreakerInv
<1>1. BreakerInit => BreakerInv
  BY InitBreakerInv
<1>2. BreakerInv /\ [BreakerNext]_breakerVars => BreakerInv'
  BY NextBreakerInv
<1> QED BY <1>1, <1>2, PTL DEF BreakerSpec

\* A closed breaker has counted the failures since the last success, fewer than
\* the threshold, however results of older states of the breaker arrive.
THEOREM ClosedOnFewFailuresHolds == BreakerSpec => []ClosedOnFewFailures
  BY BreakerInvariant, PTL DEF BreakerInv

\* One step opens a closed breaker only on a full run of failures and closes it
\* only on a full run of successes or a reset.
LEMMA EvidenceStep ==
    ASSUME BreakerInv, BreakerNext
    PROVE  /\ cbState = "CLOSED" /\ cbState' = "OPEN" => failuresInARow' = FailureThreshold
           /\ cbState # "CLOSED" /\ cbState' = "CLOSED" =>
                  successesInARow' = SuccessThreshold \/ Reset
<1> DEFINE Goal ==
      /\ cbState = "CLOSED" /\ cbState' = "OPEN" => failuresInARow' = FailureThreshold
      /\ cbState # "CLOSED" /\ cbState' = "CLOSED" =>
             successesInARow' = SuccessThreshold \/ Reset
<1> USE ThresholdAssumption, EnabledAssumption
<1>1. ASSUME NEW c \in Calls, Admit(c) PROVE Goal
  BY <1>1 DEF Admit, Look, CurrentState
<1>2. ASSUME NEW c \in Calls, Succeed(c) PROVE Goal
  <2>1. cbState # "OPEN" \/ cbState' = cbState
    BY <1>2 DEF Succeed
  <2>2. CASE Enabled /\ cbState = "HALF_OPEN"
    BY <1>2, <2>2 DEF Succeed, UpTo, BreakerInv, BreakerTypeOK, ProbesCounted
  <2>3. CASE Enabled /\ cbState = "CLOSED"
    BY <1>2, <2>3 DEF Succeed
  <2>4. CASE ~Enabled \/ cbState = "OPEN"
    BY <1>2, <2>4 DEF Succeed
  <2> QED BY <2>2, <2>3, <2>4 DEF BreakerInv, BreakerTypeOK
<1>3. ASSUME NEW c \in Calls, Fail(c) PROVE Goal
  BY <1>3 DEF Fail, UpTo, BreakerInv, BreakerTypeOK, ClosedOnFewFailures
<1>4. ASSUME NEW c \in Calls, FailUncounted(c) PROVE Goal
  BY <1>4 DEF FailUncounted
<1>5. ASSUME GetState PROVE Goal
  BY <1>5 DEF GetState, Look, CurrentState
<1>6. ASSUME Reset PROVE Goal
  BY <1>6 DEF Reset
<1>7. ASSUME TimeoutElapses PROVE Goal
  BY <1>7 DEF TimeoutElapses
<1>8. ASSUME UNCHANGED breakerVars PROVE Goal
  BY <1>8 DEF breakerVars
<1> QED
  BY <1>1, <1>2, <1>3, <1>4, <1>5, <1>6, <1>7, <1>8 DEF BreakerNext, CallEnds, Reject

\* The breaker opens and closes on the evidence the configuration asks for.
THEOREM OpensAndClosesOnEvidenceHolds == BreakerSpec => OpensAndClosesOnEvidence
<1> DEFINE Step ==
      /\ cbState = "CLOSED" /\ cbState' = "OPEN" => failuresInARow' = FailureThreshold
      /\ cbState # "CLOSED" /\ cbState' = "CLOSED" =>
             successesInARow' = SuccessThreshold \/ Reset
<1>1. BreakerInv /\ [BreakerNext]_breakerVars => [Step]_breakerVars
  BY EvidenceStep
<1>2. BreakerSpec => [][Step]_breakerVars
  BY <1>1, BreakerInvariant, PTL DEF BreakerSpec
<1> QED BY <1>2 DEF OpensAndClosesOnEvidence

-----------------------------------------------------------------------------
(* The clients *)

\* A request that is not safe to replay and was processed is past its call: it
\* has its answer or is about to fail for good.
WritesInv ==
    \A t \in Threads \ Replayable :
        \/ processed[t] = 0
        \/ /\ processed[t] = 1
           /\ pc[<<t, "call">>] \in {"okay", "retryable", "returned", "raised"}

\* The token a request compares with under the lock is no newer than the one it
\* sent, which has expired when the request waits for the lock.
TokensInv ==
    \A t \in Threads :
        /\ pc[<<t, "call">>] = "renew" => renewing[t]
        /\ pc[<<t, "call">>] = "build" => tokenBefore[<<t, "call">>] <= authToken
        /\ pc[<<t, "call">>] = "sent" =>
               tokenBefore[<<t, "call">>] <= tokenSent[<<t, "call">>]
        /\ pc[<<t, "call">>] = "waiting" /\ ~renewing[t] =>
               tokenBefore[<<t, "call">>] <= expired

\* The frames are the calls and the refreshes of the threads.
LEMMA FrameFacts ==
    /\ \A t \in Threads : <<t, "call">> \in Frames /\ <<t, "refresh">> \in Frames
    /\ \A f \in Frames : f[1] \in Threads /\ f[2] \in {"call", "refresh"} /\ f = <<f[1], f[2]>>
    /\ NoThread \notin Threads
  BY ThreadsAssumption DEF Frames

\* The steps, one by one.
LEMMA NextCases ==
    ASSUME [Next]_vars
    PROVE  \/ \E t \in Threads : RequestCall(t) \/ RenewalCall(t) \/ RefreshNow(t)
           \/ \E f \in Frames :
                  \/ AttemptAdmitted(f) \/ AttemptRejected(f)
                  \/ AttemptSucceeds(f) \/ AttemptFails(f)
                  \/ ReadToken(f) \/ Send(f)
                  \/ Processed(f) \/ NotProcessed(f) \/ Unauthorized(f)
           \/ \E t \in Threads :
                  \/ JoinRefresh(<<t, "call">>) \/ StartRefresh(t)
                  \/ SetAuthToken(t) \/ RefreshReturns(t) \/ RefreshRaises(t)
           \/ TokenAges \/ BreakerTimeout \/ UNCHANGED vars
  BY FrameFacts DEF Next, ThreadStep, RefreshStep, FrameStep, Answered

\* Every step keeps the state of the client well typed.
LEMMA ClientTypeStep ==
    ASSUME ClientTypeOK, [Next]_vars
    PROVE  ClientTypeOK'
<1>1. ASSUME NEW t \in Threads, RequestCall(t) PROVE ClientTypeOK'
BY <1>1, FrameFacts, BoundsAssumption DEF RequestCall, Goto, ClientTypeOK, Pcs, tokenVars,
       sharedVars, frameVars
<1>2. ASSUME NEW t \in Threads, RenewalCall(t) PROVE ClientTypeOK'
BY <1>2, FrameFacts, BoundsAssumption DEF RenewalCall, Goto, ClientTypeOK, Pcs, tokenVars,
       sharedVars, frameVars
<1>3. ASSUME NEW f \in Frames, AttemptAdmitted(f) PROVE ClientTypeOK'
BY <1>3, FrameFacts, BoundsAssumption DEF AttemptAdmitted, Goto, ClientTypeOK, Pcs,
       tokenVars, sharedVars, frameVars
<1>4. ASSUME NEW f \in Frames, AttemptRejected(f) PROVE ClientTypeOK'
BY <1>4, FrameFacts, BoundsAssumption DEF AttemptRejected, Goto, ClientTypeOK, Pcs,
       tokenVars, sharedVars, frameVars
<1>5. ASSUME NEW f \in Frames, AttemptSucceeds(f) PROVE ClientTypeOK'
BY <1>5, FrameFacts, BoundsAssumption DEF AttemptSucceeds, IsRefresh, Goto, ClientTypeOK,
       Pcs, tokenVars, sharedVars, frameVars
<1>6. ASSUME NEW f \in Frames, AttemptFails(f) PROVE ClientTypeOK'
  <2>1. pc' \in [Frames -> Pcs]
    BY <1>6, FrameFacts DEF AttemptFails, Goto, ClientTypeOK, Pcs
  <2>2. attempt' \in [Frames -> 1 .. MaxRetries + 1]
    <3>1. CASE ShouldRetry(f)
      <4>1. attempt[f] + 1 \in 1 .. MaxRetries + 1
        BY <3>1, BoundsAssumption DEF ShouldRetry, ClientTypeOK
      <4> QED
        BY <1>6, <3>1, <4>1 DEF AttemptFails, ClientTypeOK
    <3>2. CASE ~ShouldRetry(f)
      BY <1>6, <3>2 DEF AttemptFails, ClientTypeOK
    <3> QED BY <3>1, <3>2
  <2> QED
    BY <1>6, <2>1, <2>2 DEF AttemptFails, ClientTypeOK, tokenVars, sharedVars
<1>7. ASSUME NEW f \in Frames, ReadToken(f) PROVE ClientTypeOK'
BY <1>7, FrameFacts, BoundsAssumption DEF ReadToken, Goto, ClientTypeOK, Pcs, tokenVars,
       sharedVars, frameVars
<1>8. ASSUME NEW f \in Frames, Send(f) PROVE ClientTypeOK'
BY <1>8, FrameFacts, BoundsAssumption DEF Send, Goto, ClientTypeOK, Pcs, tokenVars,
       sharedVars, frameVars
<1>9. ASSUME NEW f \in Frames, Processed(f) PROVE ClientTypeOK'
BY <1>9, FrameFacts, BoundsAssumption DEF Processed, IsRefresh, Goto, ClientTypeOK, Pcs,
       tokenVars, sharedVars, frameVars
<1>10. ASSUME NEW f \in Frames, NotProcessed(f) PROVE ClientTypeOK'
BY <1>10, FrameFacts, BoundsAssumption DEF NotProcessed, Goto, ClientTypeOK, Pcs, tokenVars,
       sharedVars, frameVars
<1>11. ASSUME NEW f \in Frames, Unauthorized(f) PROVE ClientTypeOK'
BY <1>11, FrameFacts, BoundsAssumption DEF Unauthorized, Authorized, MayRefresh, IsRefresh,
       Goto, ClientTypeOK, Pcs, tokenVars, sharedVars, frameVars
<1>12. ASSUME NEW t \in Threads, JoinRefresh(<<t, "call">>) PROVE ClientTypeOK'
BY <1>12, FrameFacts, BoundsAssumption DEF JoinRefresh, AfterRefresh, StillCurrent, Goto,
       ClientTypeOK, Pcs, tokenVars, sharedVars, frameVars
<1>13. ASSUME NEW t \in Threads, StartRefresh(t) PROVE ClientTypeOK'
  <2>1. pc' \in [Frames -> Pcs]
    BY <1>13, FrameFacts DEF StartRefresh, ClientTypeOK, Pcs
  <2>2. attempt' \in [Frames -> 1 .. MaxRetries + 1]
    BY <1>13, FrameFacts, BoundsAssumption DEF StartRefresh, ClientTypeOK
  <2> QED
    BY <1>13, <2>1, <2>2 DEF StartRefresh, ClientTypeOK, tokenVars
<1>14. ASSUME NEW t \in Threads, SetAuthToken(t) PROVE ClientTypeOK'
  <2>1. pc' \in [Frames -> Pcs]
    BY <1>14, FrameFacts DEF SetAuthToken, Goto, ClientTypeOK, Pcs
  <2>2. authToken' \in 1 .. issued
    BY <1>14, BoundsAssumption DEF SetAuthToken, ClientTypeOK
  <2> QED
    BY <1>14, <2>1, <2>2 DEF SetAuthToken, ClientTypeOK, tokenVars
<1>15. ASSUME NEW t \in Threads, RefreshReturns(t) PROVE ClientTypeOK'
  <2>1. pc' \in [Frames -> Pcs]
    BY <1>15, FrameFacts DEF RefreshReturns, RefreshEnds, AfterRefresh, ClientTypeOK, Pcs
  <2>2. replaying' \in [Frames -> BOOLEAN]
    BY <1>15, FrameFacts DEF RefreshReturns, RefreshEnds, ClientTypeOK
  <2>3. configToken' \in 1 .. issued /\ refreshLock' = NoThread
    BY <1>15, BoundsAssumption DEF RefreshReturns, RefreshEnds, ClientTypeOK
  <2> QED
    BY <1>15, <2>1, <2>2, <2>3 DEF RefreshReturns, RefreshEnds, ClientTypeOK, tokenVars
<1>16. ASSUME NEW t \in Threads, RefreshRaises(t) PROVE ClientTypeOK'
BY <1>16, FrameFacts, BoundsAssumption DEF RefreshRaises, RefreshEnds, AfterRefresh, Goto,
       ClientTypeOK, Pcs, tokenVars, sharedVars, frameVars
<1>17. ASSUME NEW t \in Threads, RefreshNow(t) PROVE ClientTypeOK'
  <2>1. pc' \in [Frames -> Pcs]
    BY <1>17, FrameFacts DEF RefreshNow, Goto, ClientTypeOK, Pcs
  <2>2. tokenBefore' \in [Frames -> 0 .. MaxTokens]
    <3>1. authToken \in 0 .. MaxTokens
      BY BoundsAssumption DEF ClientTypeOK
    <3>2. tokenBefore' = [tokenBefore EXCEPT ![<<t, "call">>] = authToken]
      BY <1>17 DEF RefreshNow
    <3> QED BY <3>1, <3>2 DEF ClientTypeOK
  <2> QED
    BY <1>17, <2>1, <2>2 DEF RefreshNow, ClientTypeOK, tokenVars, sharedVars
<1>18. ASSUME TokenAges PROVE ClientTypeOK'
BY <1>18, FrameFacts, BoundsAssumption DEF TokenAges, Goto, ClientTypeOK, Pcs, tokenVars,
       sharedVars, frameVars
<1>19. ASSUME BreakerTimeout PROVE ClientTypeOK'
BY <1>19, FrameFacts, BoundsAssumption DEF BreakerTimeout, Goto, ClientTypeOK, Pcs,
       tokenVars, sharedVars, frameVars
<1>20. ASSUME UNCHANGED vars PROVE ClientTypeOK'
BY <1>20, FrameFacts, BoundsAssumption DEF vars, Goto, ClientTypeOK, Pcs, tokenVars,
       sharedVars, frameVars
<1> QED
BY <1>1, <1>2, <1>3, <1>4, <1>5, <1>6, <1>7, <1>8, <1>9, <1>10, <1>11, <1>12, <1>13, <1>14,
     <1>15, <1>16, <1>17, <1>18, <1>19, <1>20, NextCases

\* Every step preserves WritesInv.
LEMMA WritesStep ==
    ASSUME ClientTypeOK, RefreshNeverWaits, WritesInv, [Next]_vars
    PROVE  WritesInv'
<1>1. ASSUME NEW t \in Threads, RequestCall(t) PROVE WritesInv'
BY <1>1, FrameFacts DEF RequestCall, Goto, WritesInv, ClientTypeOK, tokenVars, sharedVars,
       frameVars
<1>2. ASSUME NEW t \in Threads, RenewalCall(t) PROVE WritesInv'
BY <1>2, FrameFacts DEF RenewalCall, Goto, WritesInv, ClientTypeOK, tokenVars, sharedVars,
       frameVars
<1>3. ASSUME NEW f \in Frames, AttemptAdmitted(f) PROVE WritesInv'
BY <1>3, FrameFacts DEF AttemptAdmitted, Goto, WritesInv, ClientTypeOK, tokenVars,
       sharedVars, frameVars
<1>4. ASSUME NEW f \in Frames, AttemptRejected(f) PROVE WritesInv'
BY <1>4, FrameFacts DEF AttemptRejected, Goto, WritesInv, ClientTypeOK, tokenVars,
       sharedVars, frameVars
<1>5. ASSUME NEW f \in Frames, AttemptSucceeds(f) PROVE WritesInv'
BY <1>5, FrameFacts DEF AttemptSucceeds, IsRefresh, Goto, WritesInv, ClientTypeOK,
       tokenVars, sharedVars, frameVars
<1>6. ASSUME NEW f \in Frames, AttemptFails(f) PROVE WritesInv'
  <2> SUFFICES ASSUME NEW r \in Threads \ Replayable
               PROVE  \/ processed'[r] = 0
                      \/ /\ processed'[r] = 1
                         /\ pc'[<<r, "call">>] \in {"okay", "retryable", "returned", "raised"}
    BY DEF WritesInv
  <2>1. CASE f = <<r, "call">>
    <3>1. ~SafeToReplay(f)
      BY <2>1 DEF SafeToReplay
    <3>2. processed[r] = 1 => pc[f] = "retryable" /\ ~ShouldRetry(f)
      BY <1>6, <2>1, <3>1 DEF AttemptFails, ShouldRetry, WritesInv
    <3>3. processed[r] = 1 => pc'[<<r, "call">>] = "raised"
      BY <1>6, <2>1, <3>2, FrameFacts DEF AttemptFails, Goto, ClientTypeOK
    <3> QED
      BY <1>6, <3>3 DEF AttemptFails, WritesInv
  <2>2. CASE f # <<r, "call">>
    BY <1>6, <2>2, FrameFacts DEF AttemptFails, Goto, WritesInv, ClientTypeOK
  <2> QED BY <2>1, <2>2
<1>7. ASSUME NEW f \in Frames, ReadToken(f) PROVE WritesInv'
BY <1>7, FrameFacts DEF ReadToken, Goto, WritesInv, ClientTypeOK, tokenVars, sharedVars,
       frameVars
<1>8. ASSUME NEW f \in Frames, Send(f) PROVE WritesInv'
BY <1>8, FrameFacts DEF Send, Goto, WritesInv, ClientTypeOK, tokenVars, sharedVars,
       frameVars
<1>9. ASSUME NEW f \in Frames, Processed(f) PROVE WritesInv'
  <2> SUFFICES ASSUME NEW r \in Threads \ Replayable
               PROVE  \/ processed'[r] = 0
                      \/ /\ processed'[r] = 1
                         /\ pc'[<<r, "call">>] \in {"okay", "retryable", "returned", "raised"}
    BY DEF WritesInv
  <2>1. CASE f = <<r, "call">>
    <3>1. processed[r] = 0 /\ ~IsRefresh(f) /\ f[1] = r
      BY <1>9, <2>1 DEF Processed, WritesInv, IsRefresh
    <3>2. processed'[r] = 1
      BY <1>9, <3>1 DEF Processed, ClientTypeOK
    <3>3. pc'[<<r, "call">>] \in {"okay", "retryable"}
      BY <1>9, <2>1, FrameFacts DEF Processed, Goto, ClientTypeOK
    <3> QED BY <3>2, <3>3
  <2>2. CASE f # <<r, "call">>
    <3>1. IsRefresh(f) \/ f[1] # r
      BY <2>2, FrameFacts DEF IsRefresh
    <3>2. processed'[r] = processed[r]
      BY <1>9, <3>1 DEF Processed, ClientTypeOK
    <3>3. pc'[<<r, "call">>] = pc[<<r, "call">>]
      BY <1>9, <2>2, FrameFacts DEF Processed, Goto, ClientTypeOK
    <3> QED BY <3>2, <3>3 DEF WritesInv
  <2> QED BY <2>1, <2>2
<1>10. ASSUME NEW f \in Frames, NotProcessed(f) PROVE WritesInv'
BY <1>10, FrameFacts DEF NotProcessed, Goto, WritesInv, ClientTypeOK, tokenVars, sharedVars,
       frameVars
<1>11. ASSUME NEW f \in Frames, Unauthorized(f) PROVE WritesInv'
BY <1>11, FrameFacts DEF Unauthorized, Authorized, MayRefresh, IsRefresh, Goto, WritesInv,
       ClientTypeOK, tokenVars, sharedVars, frameVars
<1>12. ASSUME NEW t \in Threads, JoinRefresh(<<t, "call">>) PROVE WritesInv'
BY <1>12, FrameFacts DEF JoinRefresh, AfterRefresh, StillCurrent, Goto, WritesInv,
       ClientTypeOK, tokenVars, sharedVars, frameVars
<1>13. ASSUME NEW t \in Threads, StartRefresh(t) PROVE WritesInv'
BY <1>13, FrameFacts DEF StartRefresh, StillCurrent, Goto, WritesInv, ClientTypeOK,
       tokenVars, sharedVars, frameVars
<1>14. ASSUME NEW t \in Threads, SetAuthToken(t) PROVE WritesInv'
BY <1>14, FrameFacts DEF SetAuthToken, Goto, WritesInv, ClientTypeOK, tokenVars, sharedVars,
       frameVars
<1>15. ASSUME NEW t \in Threads, RefreshReturns(t) PROVE WritesInv'
  <2> SUFFICES ASSUME NEW r \in Threads \ Replayable
               PROVE  \/ processed'[r] = 0
                      \/ /\ processed'[r] = 1
                         /\ pc'[<<r, "call">>] \in {"okay", "retryable", "returned", "raised"}
    BY DEF WritesInv
  <2>1. pc[<<t, "call">>] = "refreshing"
    BY <1>15 DEF RefreshReturns, RefreshNeverWaits
  <2>2. processed' = processed
    BY <1>15 DEF RefreshReturns, RefreshEnds
  <2>3. r # t => pc'[<<r, "call">>] = pc[<<r, "call">>]
    BY <1>15, FrameFacts DEF RefreshReturns, RefreshEnds, ClientTypeOK
  <2> QED
    BY <2>1, <2>2, <2>3 DEF WritesInv
<1>16. ASSUME NEW t \in Threads, RefreshRaises(t) PROVE WritesInv'
  <2> SUFFICES ASSUME NEW r \in Threads \ Replayable
               PROVE  \/ processed'[r] = 0
                      \/ /\ processed'[r] = 1
                         /\ pc'[<<r, "call">>] \in {"okay", "retryable", "returned", "raised"}
    BY DEF WritesInv
  <2>1. pc[<<t, "call">>] = "refreshing"
    BY <1>16 DEF RefreshRaises, RefreshNeverWaits
  <2>2. processed' = processed
    BY <1>16 DEF RefreshRaises, RefreshEnds
  <2>3. r # t => pc'[<<r, "call">>] = pc[<<r, "call">>]
    BY <1>16, FrameFacts DEF RefreshRaises, RefreshEnds, ClientTypeOK
  <2> QED
    BY <2>1, <2>2, <2>3 DEF WritesInv
<1>17. ASSUME NEW t \in Threads, RefreshNow(t) PROVE WritesInv'
BY <1>17, FrameFacts DEF RefreshNow, Goto, WritesInv, ClientTypeOK, tokenVars, sharedVars,
       frameVars
<1>18. ASSUME TokenAges PROVE WritesInv'
BY <1>18, FrameFacts DEF TokenAges, Goto, WritesInv, ClientTypeOK, tokenVars, sharedVars,
       frameVars
<1>19. ASSUME BreakerTimeout PROVE WritesInv'
BY <1>19, FrameFacts DEF BreakerTimeout, Goto, WritesInv, ClientTypeOK, tokenVars,
       sharedVars, frameVars
<1>20. ASSUME UNCHANGED vars PROVE WritesInv'
BY <1>20, FrameFacts DEF vars, Goto, WritesInv, ClientTypeOK, tokenVars, sharedVars,
       frameVars
<1> QED
BY <1>1, <1>2, <1>3, <1>4, <1>5, <1>6, <1>7, <1>8, <1>9, <1>10, <1>11, <1>12, <1>13, <1>14,
     <1>15, <1>16, <1>17, <1>18, <1>19, <1>20, NextCases

\* Every step preserves RefreshNeverWaits.
LEMMA RefreshNeverWaitsStep ==
    ASSUME ClientTypeOK, RefreshNeverWaits, [Next]_vars
    PROVE  RefreshNeverWaits'
<1>1. ASSUME NEW t \in Threads, RequestCall(t) PROVE RefreshNeverWaits'
BY <1>1, FrameFacts DEF RequestCall, Goto, RefreshNeverWaits, ClientTypeOK, tokenVars,
       sharedVars, frameVars
<1>2. ASSUME NEW t \in Threads, RenewalCall(t) PROVE RefreshNeverWaits'
BY <1>2, FrameFacts DEF RenewalCall, Goto, RefreshNeverWaits, ClientTypeOK, tokenVars,
       sharedVars, frameVars
<1>3. ASSUME NEW f \in Frames, AttemptAdmitted(f) PROVE RefreshNeverWaits'
BY <1>3, FrameFacts DEF AttemptAdmitted, Goto, RefreshNeverWaits, ClientTypeOK, tokenVars,
       sharedVars, frameVars
<1>4. ASSUME NEW f \in Frames, AttemptRejected(f) PROVE RefreshNeverWaits'
BY <1>4, FrameFacts DEF AttemptRejected, Goto, RefreshNeverWaits, ClientTypeOK, tokenVars,
       sharedVars, frameVars
<1>5. ASSUME NEW f \in Frames, AttemptSucceeds(f) PROVE RefreshNeverWaits'
BY <1>5, FrameFacts DEF AttemptSucceeds, IsRefresh, Goto, RefreshNeverWaits, ClientTypeOK,
       tokenVars, sharedVars, frameVars
<1>6. ASSUME NEW f \in Frames, AttemptFails(f) PROVE RefreshNeverWaits'
BY <1>6, FrameFacts DEF AttemptFails, ShouldRetry, SafeToReplay, IsRefresh, Goto,
       RefreshNeverWaits, ClientTypeOK, tokenVars, sharedVars, frameVars
<1>7. ASSUME NEW f \in Frames, ReadToken(f) PROVE RefreshNeverWaits'
BY <1>7, FrameFacts DEF ReadToken, Goto, RefreshNeverWaits, ClientTypeOK, tokenVars,
       sharedVars, frameVars
<1>8. ASSUME NEW f \in Frames, Send(f) PROVE RefreshNeverWaits'
BY <1>8, FrameFacts DEF Send, Goto, RefreshNeverWaits, ClientTypeOK, tokenVars, sharedVars,
       frameVars
<1>9. ASSUME NEW f \in Frames, Processed(f) PROVE RefreshNeverWaits'
  <2>1. pc[f] = "sent" /\ refreshLock' = refreshLock
    BY <1>9 DEF Processed, sharedVars
  <2>2. pc'[f] \in {"okay", "retryable"} /\ \A g \in Frames : g # f => pc'[g] = pc[g]
    BY <1>9 DEF Processed, Goto, ClientTypeOK
  <2> QED
    BY <2>1, <2>2, FrameFacts DEF RefreshNeverWaits
<1>10. ASSUME NEW f \in Frames, NotProcessed(f) PROVE RefreshNeverWaits'
BY <1>10, FrameFacts DEF NotProcessed, Goto, RefreshNeverWaits, ClientTypeOK, tokenVars,
       sharedVars, frameVars
<1>11. ASSUME NEW f \in Frames, Unauthorized(f) PROVE RefreshNeverWaits'
BY <1>11, FrameFacts DEF Unauthorized, Authorized, MayRefresh, IsRefresh, Goto,
       RefreshNeverWaits, ClientTypeOK, tokenVars, sharedVars, frameVars
<1>12. ASSUME NEW t \in Threads, JoinRefresh(<<t, "call">>) PROVE RefreshNeverWaits'
BY <1>12, FrameFacts DEF JoinRefresh, AfterRefresh, StillCurrent, Goto, RefreshNeverWaits,
       ClientTypeOK, tokenVars, sharedVars, frameVars
<1>13. ASSUME NEW t \in Threads, StartRefresh(t) PROVE RefreshNeverWaits'
BY <1>13, FrameFacts DEF StartRefresh, StillCurrent, Goto, RefreshNeverWaits, ClientTypeOK,
       tokenVars, sharedVars, frameVars
<1>14. ASSUME NEW t \in Threads, SetAuthToken(t) PROVE RefreshNeverWaits'
BY <1>14, FrameFacts DEF SetAuthToken, Goto, RefreshNeverWaits, ClientTypeOK, tokenVars,
       sharedVars, frameVars
<1>15. ASSUME NEW t \in Threads, RefreshReturns(t) PROVE RefreshNeverWaits'
BY <1>15, FrameFacts DEF RefreshReturns, RefreshEnds, AfterRefresh, Goto, RefreshNeverWaits,
       ClientTypeOK, tokenVars, sharedVars, frameVars
<1>16. ASSUME NEW t \in Threads, RefreshRaises(t) PROVE RefreshNeverWaits'
BY <1>16, FrameFacts DEF RefreshRaises, RefreshEnds, AfterRefresh, Goto, RefreshNeverWaits,
       ClientTypeOK, tokenVars, sharedVars, frameVars
<1>17. ASSUME NEW t \in Threads, RefreshNow(t) PROVE RefreshNeverWaits'
BY <1>17, FrameFacts DEF RefreshNow, Goto, RefreshNeverWaits, ClientTypeOK, tokenVars,
       sharedVars, frameVars
<1>18. ASSUME TokenAges PROVE RefreshNeverWaits'
BY <1>18, FrameFacts DEF TokenAges, Goto, RefreshNeverWaits, ClientTypeOK, tokenVars,
       sharedVars, frameVars
<1>19. ASSUME BreakerTimeout PROVE RefreshNeverWaits'
BY <1>19, FrameFacts DEF BreakerTimeout, Goto, RefreshNeverWaits, ClientTypeOK, tokenVars,
       sharedVars, frameVars
<1>20. ASSUME UNCHANGED vars PROVE RefreshNeverWaits'
BY <1>20, FrameFacts DEF vars, Goto, RefreshNeverWaits, ClientTypeOK, tokenVars, sharedVars,
       frameVars
<1> QED
BY <1>1, <1>2, <1>3, <1>4, <1>5, <1>6, <1>7, <1>8, <1>9, <1>10, <1>11, <1>12, <1>13, <1>14,
     <1>15, <1>16, <1>17, <1>18, <1>19, <1>20, NextCases

\* Every step preserves TokensInv.
LEMMA TokensStep ==
    ASSUME ClientTypeOK, TokensInv, [Next]_vars
    PROVE  TokensInv'
<1>1. ASSUME NEW t \in Threads, RequestCall(t) PROVE TokensInv'
BY <1>1, FrameFacts, BoundsAssumption DEF RequestCall, Goto, TokensInv, ClientTypeOK,
       tokenVars, sharedVars, frameVars
<1>2. ASSUME NEW t \in Threads, RenewalCall(t) PROVE TokensInv'
BY <1>2, FrameFacts, BoundsAssumption DEF RenewalCall, Goto, TokensInv, ClientTypeOK,
       tokenVars, sharedVars, frameVars
<1>3. ASSUME NEW f \in Frames, AttemptAdmitted(f) PROVE TokensInv'
BY <1>3, FrameFacts, BoundsAssumption DEF AttemptAdmitted, Goto, TokensInv, ClientTypeOK,
       tokenVars, sharedVars, frameVars
<1>4. ASSUME NEW f \in Frames, AttemptRejected(f) PROVE TokensInv'
BY <1>4, FrameFacts, BoundsAssumption DEF AttemptRejected, Goto, TokensInv, ClientTypeOK,
       tokenVars, sharedVars, frameVars
<1>5. ASSUME NEW f \in Frames, AttemptSucceeds(f) PROVE TokensInv'
BY <1>5, FrameFacts, BoundsAssumption DEF AttemptSucceeds, IsRefresh, Goto, TokensInv,
       ClientTypeOK, tokenVars, sharedVars, frameVars
<1>6. ASSUME NEW f \in Frames, AttemptFails(f) PROVE TokensInv'
BY <1>6, FrameFacts, BoundsAssumption DEF AttemptFails, ShouldRetry, SafeToReplay,
       IsRefresh, Goto, TokensInv, ClientTypeOK, tokenVars, sharedVars, frameVars
<1>7. ASSUME NEW f \in Frames, ReadToken(f) PROVE TokensInv'
  <2> SUFFICES ASSUME NEW r \in Threads
               PROVE  LET c == <<r, "call">> IN
                      /\ pc'[c] = "renew" => renewing'[r]
                      /\ pc'[c] = "build" => tokenBefore'[c] <= authToken'
                      /\ pc'[c] = "sent" => tokenBefore'[c] <= tokenSent'[c]
                      /\ pc'[c] = "waiting" /\ ~renewing'[r] => tokenBefore'[c] <= expired'
    BY DEF TokensInv
  <2> DEFINE c == <<r, "call">>
  <2>1. c \in Frames
    BY FrameFacts
  <2>2. CASE f = c
    <3>1. pc'[c] = "build" /\ tokenBefore'[c] = authToken /\ authToken' = authToken
      BY <1>7, <2>1, <2>2 DEF ReadToken, Goto, ClientTypeOK, sharedVars
    <3> QED BY <3>1 DEF ClientTypeOK
  <2>3. CASE f # c
    BY <1>7, <2>1, <2>3 DEF ReadToken, Goto, TokensInv, ClientTypeOK, tokenVars, sharedVars
  <2> QED BY <2>2, <2>3
<1>8. ASSUME NEW f \in Frames, Send(f) PROVE TokensInv'
BY <1>8, FrameFacts, BoundsAssumption DEF Send, Goto, TokensInv, ClientTypeOK, tokenVars,
       sharedVars, frameVars
<1>9. ASSUME NEW f \in Frames, Processed(f) PROVE TokensInv'
  <2> SUFFICES ASSUME NEW r \in Threads
               PROVE  LET c == <<r, "call">> IN
                      /\ pc'[c] = "renew" => renewing'[r]
                      /\ pc'[c] = "build" => tokenBefore'[c] <= authToken'
                      /\ pc'[c] = "sent" => tokenBefore'[c] <= tokenSent'[c]
                      /\ pc'[c] = "waiting" /\ ~renewing'[r] => tokenBefore'[c] <= expired'
    BY DEF TokensInv
  <2> DEFINE c == <<r, "call">>
  <2>1. c \in Frames
    BY FrameFacts
  <2>2. pc'[c] = pc[c] \/ pc'[c] \in {"okay", "retryable"}
    BY <1>9, <2>1 DEF Processed, Goto, ClientTypeOK
  <2>3. UNCHANGED <<tokenBefore, tokenSent, expired, authToken, renewing>>
    BY <1>9 DEF Processed, sharedVars
  <2> QED
    BY <2>2, <2>3 DEF TokensInv
<1>10. ASSUME NEW f \in Frames, NotProcessed(f) PROVE TokensInv'
BY <1>10, FrameFacts, BoundsAssumption DEF NotProcessed, Goto, TokensInv, ClientTypeOK,
       tokenVars, sharedVars, frameVars
<1>11. ASSUME NEW f \in Frames, Unauthorized(f) PROVE TokensInv'
  <2> SUFFICES ASSUME NEW r \in Threads
               PROVE  LET c == <<r, "call">> IN
                      /\ pc'[c] = "renew" => renewing'[r]
                      /\ pc'[c] = "build" => tokenBefore'[c] <= authToken'
                      /\ pc'[c] = "sent" => tokenBefore'[c] <= tokenSent'[c]
                      /\ pc'[c] = "waiting" /\ ~renewing'[r] => tokenBefore'[c] <= expired'
    BY DEF TokensInv
  <2> DEFINE c == <<r, "call">>
  <2>1. c \in Frames
    BY FrameFacts
  <2>2. CASE f = c
    <3>1. pc[c] = "sent" /\ tokenSent[c] <= expired
      BY <1>11, <2>1, <2>2 DEF Unauthorized, Authorized, IsRefresh, ClientTypeOK
    <3>2. tokenBefore[c] <= expired
      BY <2>1, <3>1 DEF TokensInv, ClientTypeOK
    <3>3. pc'[c] \in {"waiting", "rejected"}
      BY <1>11, <2>1, <2>2 DEF Unauthorized, Goto, ClientTypeOK
    <3> QED
      BY <1>11, <3>2, <3>3 DEF Unauthorized, tokenVars
  <2>3. CASE f # c
    BY <1>11, <2>1, <2>3
       DEF Unauthorized, Goto, TokensInv, ClientTypeOK, tokenVars, sharedVars
  <2> QED BY <2>2, <2>3
<1>12. ASSUME NEW t \in Threads, JoinRefresh(<<t, "call">>) PROVE TokensInv'
BY <1>12, FrameFacts, BoundsAssumption DEF JoinRefresh, AfterRefresh, StillCurrent, Goto,
       TokensInv, ClientTypeOK, tokenVars, sharedVars, frameVars
<1>13. ASSUME NEW t \in Threads, StartRefresh(t) PROVE TokensInv'
BY <1>13, FrameFacts, BoundsAssumption DEF StartRefresh, StillCurrent, Goto, TokensInv,
       ClientTypeOK, tokenVars, sharedVars, frameVars
<1>14. ASSUME NEW t \in Threads, SetAuthToken(t) PROVE TokensInv'
  <2> SUFFICES ASSUME NEW r \in Threads
               PROVE  LET c == <<r, "call">> IN
                      /\ pc'[c] = "renew" => renewing'[r]
                      /\ pc'[c] = "build" => tokenBefore'[c] <= authToken'
                      /\ pc'[c] = "sent" => tokenBefore'[c] <= tokenSent'[c]
                      /\ pc'[c] = "waiting" /\ ~renewing'[r] => tokenBefore'[c] <= expired'
    BY DEF TokensInv
  <2> DEFINE c == <<r, "call">>
  <2>1. c \in Frames
    BY FrameFacts
  <2>2. authToken <= authToken' /\ authToken' \in Nat
    BY <1>14 DEF SetAuthToken, ClientTypeOK
  <2>3. pc'[c] = pc[c]
    BY <1>14, <2>1, FrameFacts DEF SetAuthToken, Goto, ClientTypeOK
  <2>4. UNCHANGED <<tokenBefore, tokenSent, expired, renewing>>
    BY <1>14 DEF SetAuthToken, tokenVars
  <2>5. tokenBefore[c] \in Nat /\ authToken \in Nat
    BY <2>1, BoundsAssumption DEF ClientTypeOK
  <2> QED
    BY <2>2, <2>3, <2>4, <2>5 DEF TokensInv
<1>15. ASSUME NEW t \in Threads, RefreshReturns(t) PROVE TokensInv'
BY <1>15, FrameFacts, BoundsAssumption DEF RefreshReturns, RefreshEnds, AfterRefresh, Goto,
       TokensInv, ClientTypeOK, tokenVars, sharedVars, frameVars
<1>16. ASSUME NEW t \in Threads, RefreshRaises(t) PROVE TokensInv'
BY <1>16, FrameFacts, BoundsAssumption DEF RefreshRaises, RefreshEnds, AfterRefresh, Goto,
       TokensInv, ClientTypeOK, tokenVars, sharedVars, frameVars
<1>17. ASSUME NEW t \in Threads, RefreshNow(t) PROVE TokensInv'
BY <1>17, FrameFacts, BoundsAssumption DEF RefreshNow, Goto, TokensInv, ClientTypeOK,
       tokenVars, sharedVars, frameVars
<1>18. ASSUME TokenAges PROVE TokensInv'
  <2> SUFFICES ASSUME NEW r \in Threads
               PROVE  LET c == <<r, "call">> IN
                      /\ pc'[c] = "renew" => renewing'[r]
                      /\ pc'[c] = "build" => tokenBefore'[c] <= authToken'
                      /\ pc'[c] = "sent" => tokenBefore'[c] <= tokenSent'[c]
                      /\ pc'[c] = "waiting" /\ ~renewing'[r] => tokenBefore'[c] <= expired'
    BY DEF TokensInv
  <2> DEFINE c == <<r, "call">>
  <2>1. c \in Frames
    BY FrameFacts
  <2>2. expired <= expired' /\ expired \in Nat /\ expired' \in Nat
    BY <1>18 DEF TokenAges, ClientTypeOK
  <2>3. UNCHANGED <<pc, tokenBefore, tokenSent, authToken, renewing>>
    BY <1>18 DEF TokenAges, sharedVars, frameVars
  <2>4. tokenBefore[c] \in Nat
    BY <2>1, BoundsAssumption DEF ClientTypeOK
  <2> QED
    BY <2>2, <2>3, <2>4 DEF TokensInv
<1>19. ASSUME BreakerTimeout PROVE TokensInv'
BY <1>19, FrameFacts, BoundsAssumption DEF BreakerTimeout, Goto, TokensInv, ClientTypeOK,
       tokenVars, sharedVars, frameVars
<1>20. ASSUME UNCHANGED vars PROVE TokensInv'
BY <1>20, FrameFacts, BoundsAssumption DEF vars, Goto, TokensInv, ClientTypeOK, tokenVars,
       sharedVars, frameVars
<1> QED
BY <1>1, <1>2, <1>3, <1>4, <1>5, <1>6, <1>7, <1>8, <1>9, <1>10, <1>11, <1>12, <1>13, <1>14,
     <1>15, <1>16, <1>17, <1>18, <1>19, <1>20, NextCases

\* Each step of the client is a step of its breaker or leaves it alone.
LEMMA BreakerStep == ASSUME [Next]_vars PROVE [BreakerNext]_breakerVars
<1>1. ASSUME NEW f \in Frames,
             AttemptAdmitted(f) \/ AttemptRejected(f) \/ AttemptSucceeds(f) \/ AttemptFails(f)
      PROVE  [BreakerNext]_breakerVars
  BY <1>1, ThreadsAssumption
     DEF AttemptAdmitted, AttemptRejected, AttemptSucceeds, AttemptFails, BreakerNext, CallEnds
<1>2. ASSUME NEW f \in Frames,
             \/ ReadToken(f) \/ Send(f)
             \/ Processed(f) \/ NotProcessed(f) \/ Unauthorized(f)
      PROVE  UNCHANGED breakerVars
  BY <1>2 DEF ReadToken, Send, Processed, NotProcessed, Unauthorized
<1>3. ASSUME NEW t \in Threads,
             \/ JoinRefresh(<<t, "call">>) \/ StartRefresh(t)
             \/ SetAuthToken(t) \/ RefreshReturns(t) \/ RefreshRaises(t)
             \/ RequestCall(t) \/ RenewalCall(t) \/ RefreshNow(t)
      PROVE  UNCHANGED breakerVars
  BY <1>3 DEF JoinRefresh, StartRefresh, SetAuthToken, RefreshReturns, RefreshRaises,
              RefreshEnds, RequestCall, RenewalCall, RefreshNow
<1>4. TokenAges => UNCHANGED breakerVars
  BY DEF TokenAges
<1>5. BreakerTimeout => BreakerNext
  BY DEF BreakerTimeout, BreakerNext
<1>6. UNCHANGED vars => UNCHANGED breakerVars
  BY DEF vars
<1> QED
  BY <1>1, <1>2, <1>3, <1>4, <1>5, <1>6, NextCases, FrameFacts

\* However many requests and refreshes share it, the breaker of a client goes
\* through the behaviours of CircuitBreaker: what is proved there holds here.
THEOREM ClientUsesBreaker == Spec => BreakerSpec
<1>1. Init => BreakerInit
  BY DEF Init
<1>2. [Next]_vars => [BreakerNext]_breakerVars
  BY BreakerStep
<1> QED BY <1>1, <1>2, PTL DEF Spec, BreakerSpec

ClientInv == ClientTypeOK /\ WritesInv /\ RefreshNeverWaits /\ TokensInv

\* The initial state satisfies the invariant.
LEMMA InitClientInv == Init => ClientInv
<1> SUFFICES ASSUME Init PROVE ClientInv
  OBVIOUS
<1>1. ClientTypeOK
  <2>1. /\ issued \in 1 .. MaxTokens /\ due \in 0 .. issued /\ expired \in 0 .. due
        /\ authToken \in 1 .. issued /\ configToken \in 1 .. issued
        /\ attempt \in [Frames -> 1 .. MaxRetries + 1]
        /\ tokenBefore \in [Frames -> 0 .. MaxTokens]
        /\ tokenSent \in [Frames -> 0 .. MaxTokens]
        /\ processed \in [Threads -> Nat]
    BY BoundsAssumption DEF Init
  <2>2. /\ refreshLock \in Threads \cup {NoThread}
        /\ pc \in [Frames -> Pcs] /\ replaying \in [Frames -> BOOLEAN]
        /\ renewing \in [Threads -> BOOLEAN]
    BY DEF Init, Pcs
  <2> QED BY <2>1, <2>2 DEF ClientTypeOK
<1>2. WritesInv
  BY DEF Init, WritesInv
<1>3. RefreshNeverWaits
  BY FrameFacts DEF Init, RefreshNeverWaits
<1>4. TokensInv
  BY FrameFacts DEF Init, TokensInv
<1> QED BY <1>1, <1>2, <1>3, <1>4 DEF ClientInv

\* A step of a thread preserves the invariant.
LEMMA ClientStep ==
    ASSUME ClientInv, [Next]_vars
    PROVE  ClientInv'
  BY ClientTypeStep, WritesStep, RefreshNeverWaitsStep, TokensStep DEF ClientInv

\* Every reachable state satisfies the invariant the theorems below rest on: the
\* state is well typed, and writes, the refresh lock and the tokens of a request
\* fit the place where it is.
THEOREM ClientInvariant == Spec => []ClientInv
<1>1. Init => ClientInv
  BY InitClientInv
<1>2. ClientInv /\ [Next]_vars => ClientInv'
  BY ClientStep
<1> QED BY <1>1, <1>2, PTL DEF Spec

\* Every reachable state of the client and its breaker is well typed.
THEOREM ClientTypeInvariant == Spec => []TypeOK
<1>1. ClientInv /\ BreakerInv => TypeOK
  BY DEF ClientInv, BreakerInv, TypeOK
<1> QED BY <1>1, ClientInvariant, ClientUsesBreaker, BreakerInvariant, PTL

\* A write that is not safe to replay is processed at most once.
THEOREM WriteOnceHolds == Spec => []WriteOnce
<1>1. ASSUME ClientInv, NEW t \in Threads \ Replayable PROVE processed[t] <= 1
  <2>1. processed[t] = 0 \/ processed[t] = 1
    BY <1>1 DEF ClientInv, WritesInv
  <2> QED BY <2>1
<1>2. ClientInv => WriteOnce
  BY <1>1 DEF WriteOnce
<1> QED BY <1>2, ClientInvariant, PTL

\* The lock is held exactly while a refresh is under way, by a thread that does
\* not wait for it.
THEOREM RefreshNeverWaitsHolds == Spec => []RefreshNeverWaits
  BY ClientInvariant, PTL DEF ClientInv

\* Only the start of a refresh takes the lock.
LEMMA LockIsTaken ==
    ASSUME [Next]_vars, NEW t \in Threads, refreshLock # t, refreshLock' = t
    PROVE  StartRefresh(t)
<1>1. ASSUME NEW f \in Frames,
             \/ AttemptAdmitted(f) \/ AttemptRejected(f)
             \/ AttemptSucceeds(f) \/ AttemptFails(f)
             \/ ReadToken(f) \/ Send(f)
             \/ Processed(f) \/ NotProcessed(f) \/ Unauthorized(f)
      PROVE  refreshLock' = refreshLock
  BY <1>1 DEF AttemptAdmitted, AttemptRejected, AttemptSucceeds, AttemptFails, ReadToken,
              Send, Processed, NotProcessed, Unauthorized, sharedVars
<1>2. ASSUME NEW u \in Threads,
             \/ RequestCall(u) \/ RenewalCall(u) \/ RefreshNow(u)
             \/ JoinRefresh(<<u, "call">>) \/ SetAuthToken(u)
      PROVE  refreshLock' = refreshLock
  BY <1>2 DEF RequestCall, RenewalCall, RefreshNow, JoinRefresh, SetAuthToken, sharedVars
<1>3. ASSUME NEW u \in Threads, RefreshReturns(u) \/ RefreshRaises(u)
      PROVE  refreshLock' = NoThread
  BY <1>3 DEF RefreshReturns, RefreshRaises, RefreshEnds
<1>4. TokenAges \/ BreakerTimeout \/ UNCHANGED vars => refreshLock' = refreshLock
  BY DEF TokenAges, BreakerTimeout, vars, sharedVars
<1>5. \A u \in Threads : StartRefresh(u) => refreshLock' = u
  BY DEF StartRefresh
<1>6. \/ refreshLock' = refreshLock \/ refreshLock' = NoThread
      \/ \E u \in Threads : StartRefresh(u)
  BY <1>1, <1>2, <1>3, <1>4, NextCases, FrameFacts
<1> QED BY <1>5, <1>6, FrameFacts

\* One step of a request starts a refresh only for a token that is about to expire.
LEMMA RefreshStartsWhenDue ==
    ASSUME ClientInv, [Next]_vars,
           NEW t \in Threads, ~renewing[t], refreshLock # t, refreshLock' = t
    PROVE  authToken <= due
<1>1. StartRefresh(t) /\ <<t, "call">> \in Frames
  BY LockIsTaken, FrameFacts
<1>2. tokenBefore[<<t, "call">>] <= expired /\ authToken = tokenBefore[<<t, "call">>]
  BY <1>1 DEF StartRefresh, StillCurrent, ClientInv, TokensInv
<1> QED BY <1>2 DEF ClientInv, ClientTypeOK

\* Concurrent 401s end in one refresh: a request starts one only for a token that
\* is about to expire, whatever renewals do meanwhile.
THEOREM RefreshOnlyIfDueHolds == Spec => RefreshOnlyIfDue
<1> DEFINE Step ==
      \A t \in Threads :
         ~renewing[t] /\ refreshLock # t /\ refreshLock' = t => authToken <= due
<1>1. ClientInv /\ [Next]_vars => [Step]_vars
  BY RefreshStartsWhenDue
<1>2. Spec => [][Step]_vars
  BY <1>1, ClientInvariant, PTL DEF Spec
<1> QED BY <1>2 DEF RefreshOnlyIfDue

-----------------------------------------------------------------------------
(* The asynchronous client *)

\* One task at a time is between two awaits.
LoopInv == \A f, g \in Frames : Running(f) /\ Running(g) => f[1] = g[1]

\* The token is the same in both places but while a refresh is between storing it
\* in the one and in the other, which is the newest token then.
StoredInv ==
    /\ (\A t \in Threads : pc[<<t, "refresh">>] # "stored") => authToken = configToken
    /\ \A t \in Threads : pc[<<t, "refresh">>] = "stored" => authToken = issued

\* A renewal that goes for the lock compares with a token that is about to expire.
RenewalInv ==
    \A t \in Threads :
        /\ pc[<<t, "call">>] = "renew" => configToken <= due
        /\ pc[<<t, "call">>] = "waiting" /\ renewing[t] => tokenBefore[<<t, "call">>] <= due

TasksInv == ClientInv /\ LoopInv /\ StoredInv /\ RenewalInv

\* A task's step is a step of the synchronous client, with the loop to itself.
LEMMA AsyncCases ==
    ASSUME [AsyncNext]_vars
    PROVE  \/ \E t \in Threads :
                 OnLoop(t) /\ (RequestCall(t) \/ RenewalCall(t) \/ ThreadStep(t))
           \/ \E t \in Threads : Cancelled(t)
           \/ TokenAges \/ BreakerTimeout \/ UNCHANGED vars
  BY DEF AsyncNext, TaskStep

\* A cancellation preserves the invariant of the synchronous client.
LEMMA CancelledClientInv ==
    ASSUME ClientInv, NEW t \in Threads, Cancelled(t)
    PROVE  ClientInv'
<1>1. /\ <<t, "call">> \in Frames /\ <<t, "refresh">> \in Frames
      /\ pc' = [pc EXCEPT ![<<t, "call">>] = "raised", ![<<t, "refresh">>] = "none"]
      /\ pc \in [Frames -> Pcs]
  BY FrameFacts DEF Cancelled, ClientInv, ClientTypeOK
<1>2. /\ pc'[<<t, "call">>] = "raised" /\ pc'[<<t, "refresh">>] = "none"
      /\ \A u \in Threads \ {t} : /\ pc'[<<u, "call">>] = pc[<<u, "call">>]
                                  /\ pc'[<<u, "refresh">>] = pc[<<u, "refresh">>]
  BY <1>1, FrameFacts
<1>3. refreshLock' = IF refreshLock = t THEN NoThread ELSE refreshLock
  BY DEF Cancelled, ReleasedBy
<1>4. UNCHANGED <<due, expired, authToken, configToken, attempt, tokenBefore, tokenSent,
                  replaying, renewing>>
  BY DEF Cancelled
<1>5. ClientTypeOK'
  <2>1. pc' \in [Frames -> Pcs]
    BY <1>1 DEF Pcs
  <2>2. refreshLock' \in Threads \cup {NoThread}
    BY <1>3 DEF ClientInv, ClientTypeOK
  <2>3. issued' \in issued .. MaxTokens
    BY BoundsAssumption DEF Cancelled, ClientInv, ClientTypeOK
  <2>4. processed' \in [Threads -> Nat]
    BY DEF Cancelled, ClientInv, ClientTypeOK
  <2>5. /\ issued' \in 1 .. MaxTokens /\ due' \in 0 .. issued' /\ expired' \in 0 .. due'
        /\ authToken' \in 1 .. issued' /\ configToken' \in 1 .. issued'
    BY <1>4, <2>3, BoundsAssumption DEF ClientInv, ClientTypeOK
  <2> QED BY <1>4, <2>1, <2>2, <2>4, <2>5 DEF ClientInv, ClientTypeOK
<1>6. WritesInv'
  <2> SUFFICES ASSUME NEW r \in Threads \ Replayable
               PROVE  \/ processed'[r] = 0
                      \/ /\ processed'[r] = 1
                         /\ pc'[<<r, "call">>] \in {"okay", "retryable", "returned", "raised"}
    BY DEF WritesInv
  <2>1. CASE r = t
    <3>1. processed'[t] \in {0, 1}
      BY <2>1 DEF Cancelled, ClientInv, ClientTypeOK, WritesInv
    <3> QED BY <1>2, <2>1, <3>1
  <2>2. CASE r # t
    <3>1. processed'[r] = processed[r]
      BY <2>2 DEF Cancelled, ClientInv, ClientTypeOK
    <3> QED BY <1>2, <2>2, <3>1 DEF ClientInv, WritesInv
  <2> QED BY <2>1, <2>2
<1>7. RefreshNeverWaits'
  BY <1>2, <1>3, FrameFacts DEF ClientInv, RefreshNeverWaits
<1>8. TokensInv'
  BY <1>2, <1>4 DEF ClientInv, TokensInv
<1> QED BY <1>5, <1>6, <1>7, <1>8 DEF ClientInv

\* Every step of the asynchronous client preserves the invariant of the synchronous one.
LEMMA AsyncClientInv ==
    ASSUME ClientInv, [AsyncNext]_vars
    PROVE  ClientInv'
<1>1. CASE \E t \in Threads : Cancelled(t)
  BY <1>1, CancelledClientInv
<1>2. CASE [Next]_vars
  BY <1>2, ClientTypeStep, WritesStep, RefreshNeverWaitsStep, TokensStep DEF ClientInv
<1> QED BY <1>1, <1>2, AsyncCases DEF Next

\* A thread's step moves its own frames only.
LEMMA OwnFrames ==
    ASSUME ClientTypeOK, NEW t \in Threads,
           RequestCall(t) \/ RenewalCall(t) \/ ThreadStep(t),
           NEW f \in Frames, f[1] # t
    PROVE  pc'[f] = pc[f] /\ attempt'[f] = attempt[f]
<1>1. f # <<t, "call">> /\ f # <<t, "refresh">>
  OBVIOUS
<1>2. ASSUME NEW g \in {<<t, "call">>, <<t, "refresh">>}, FrameStep(g)
      PROVE  pc'[f] = pc[f] /\ attempt'[f] = attempt[f]
  <2>1. f # g
    BY <1>1
  <2>2. CASE AttemptAdmitted(g) \/ AttemptRejected(g) \/ AttemptSucceeds(g) \/ AttemptFails(g)
    BY <2>1, <2>2
       DEF AttemptAdmitted, AttemptRejected, AttemptSucceeds, AttemptFails, Goto, ClientTypeOK
  <2>3. CASE ReadToken(g) \/ Send(g) \/ Processed(g) \/ NotProcessed(g) \/ Unauthorized(g)
    BY <2>1, <2>3
       DEF ReadToken, Send, Processed, NotProcessed, Unauthorized, Goto, ClientTypeOK
  <2> QED BY <1>2, <2>2, <2>3 DEF FrameStep, Answered
<1>3. CASE \/ RequestCall(t) \/ RenewalCall(t) \/ RefreshNow(t)
           \/ JoinRefresh(<<t, "call">>) \/ StartRefresh(t) \/ SetAuthToken(t)
  BY <1>1, <1>3 DEF RequestCall, RenewalCall, RefreshNow, JoinRefresh, StartRefresh,
                    SetAuthToken, Goto, ClientTypeOK
<1>4. CASE RefreshReturns(t) \/ RefreshRaises(t)
  BY <1>1, <1>4 DEF RefreshReturns, RefreshRaises, RefreshEnds, ClientTypeOK
<1> QED BY <1>2, <1>3, <1>4 DEF ThreadStep, RefreshStep

\* The loop runs one task at a time.
LEMMA LoopStep ==
    ASSUME ClientInv, LoopInv, [AsyncNext]_vars
    PROVE  LoopInv'
<1>1. ASSUME NEW t \in Threads, OnLoop(t), RequestCall(t) \/ RenewalCall(t) \/ ThreadStep(t)
      PROVE  LoopInv'
  <2> SUFFICES ASSUME NEW f \in Frames, Running(f)' PROVE f[1] = t
    BY DEF LoopInv
  <2>1. f[1] # t => Running(f)
    BY <1>1, OwnFrames DEF Running, ClientInv
  <2> QED BY <1>1, <2>1 DEF OnLoop
<1>2. ASSUME NEW t \in Threads, Cancelled(t) PROVE LoopInv'
  <2> SUFFICES ASSUME NEW f \in Frames PROVE ~Running(f)'
    BY DEF LoopInv
  <2>1. attempt' = attempt /\ ~Running(f)
    BY <1>2 DEF Cancelled
  <2>2. pc'[f] = pc[f] \/ pc'[f] = "none" \/ (f = <<t, "call">> /\ pc'[f] = "raised")
    BY <1>2, FrameFacts DEF Cancelled, ClientInv, ClientTypeOK
  <2> QED BY <2>1, <2>2, FrameFacts DEF Running, IsRefresh
<1>3. ASSUME TokenAges \/ BreakerTimeout \/ UNCHANGED vars PROVE LoopInv'
  BY <1>3 DEF TokenAges, BreakerTimeout, vars, frameVars, LoopInv, Running
<1> QED BY <1>1, <1>2, <1>3, AsyncCases

\* What StoredInv depends on.
storedVars == <<authToken, configToken, issued>>

\* A step of the client that neither stores a token nor issues one keeps what is stored,
\* and no refresh is between storing and having stored that was not before.
LEMMA StoredUnchanged ==
    ASSUME ClientTypeOK, NEW f \in Frames,
           \/ AttemptAdmitted(f) \/ AttemptRejected(f) \/ AttemptSucceeds(f) \/ AttemptFails(f)
           \/ ReadToken(f) \/ Send(f) \/ NotProcessed(f) \/ Unauthorized(f)
    PROVE  /\ UNCHANGED storedVars
           /\ \A g \in Frames : pc'[g] = "stored" <=> pc[g] = "stored"
  BY DEF AttemptAdmitted, AttemptRejected, AttemptSucceeds, AttemptFails, ReadToken, Send,
         NotProcessed, Unauthorized, Goto, ClientTypeOK, storedVars, sharedVars, tokenVars

\* Every step preserves StoredInv.
LEMMA StoredStep ==
    ASSUME ClientInv, StoredInv, [AsyncNext]_vars
    PROVE  StoredInv'
<1> USE FrameFacts
<1>0. ClientTypeOK /\ RefreshNeverWaits
  BY DEF ClientInv
<1>1. ASSUME UNCHANGED storedVars,
             \A t \in Threads : pc'[<<t, "refresh">>] = "stored" <=> pc[<<t, "refresh">>] = "stored"
      PROVE  StoredInv'
  BY <1>1 DEF StoredInv, storedVars
<1>2. ASSUME NEW f \in Frames, FrameStep(f) PROVE StoredInv'
  <2>1. CASE Processed(f)
    <3>1. \A t \in Threads : pc'[<<t, "refresh">>] = "stored" <=> pc[<<t, "refresh">>] = "stored"
      BY <1>0, <2>1 DEF Processed, Goto, ClientTypeOK
    <3>2. UNCHANGED <<authToken, configToken>>
      BY <2>1 DEF Processed, sharedVars
    <3>3. ASSUME NEW t \in Threads, pc[<<t, "refresh">>] = "stored" PROVE issued' = issued
      <4>1. refreshLock = t
        BY <1>0, <3>3 DEF RefreshNeverWaits
      <4>2. ~IsRefresh(f)
        BY <1>0, <2>1, <3>3, <4>1 DEF Processed, IsRefresh, RefreshNeverWaits
      <4> QED BY <2>1, <4>2 DEF Processed
    <3> QED BY <3>1, <3>2, <3>3 DEF StoredInv
  <2>2. CASE ~Processed(f)
    BY <1>0, <1>1, <1>2, <2>2, StoredUnchanged DEF FrameStep, Answered
  <2> QED BY <2>1, <2>2
<1>3. ASSUME NEW t \in Threads,
             \/ RequestCall(t) \/ RenewalCall(t) \/ RefreshNow(t)
             \/ JoinRefresh(<<t, "call">>) \/ StartRefresh(t)
      PROVE  StoredInv'
  <2>1. UNCHANGED storedVars
    BY <1>3 DEF RequestCall, RenewalCall, RefreshNow, JoinRefresh, StartRefresh, storedVars,
                sharedVars, tokenVars
  <2>2. \A u \in Threads : pc'[<<u, "refresh">>] = "stored" => pc[<<u, "refresh">>] = "stored"
    BY <1>0, <1>3 DEF RequestCall, RenewalCall, RefreshNow, JoinRefresh, StartRefresh, Goto,
                      ClientTypeOK
  <2>3. \A u \in Threads : pc[<<u, "refresh">>] = "stored" => pc'[<<u, "refresh">>] = "stored"
    BY <1>0, <1>3 DEF RequestCall, RenewalCall, RefreshNow, JoinRefresh, StartRefresh, Goto,
                      ClientTypeOK, RefreshNeverWaits
  <2> QED BY <1>1, <2>1, <2>2, <2>3
<1>4. ASSUME NEW t \in Threads, SetAuthToken(t) PROVE StoredInv'
  <2>1. authToken' = issued /\ issued' = issued /\ pc'[<<t, "refresh">>] = "stored"
    BY <1>0, <1>4 DEF SetAuthToken, Goto, ClientTypeOK, tokenVars
  <2> QED BY <2>1 DEF StoredInv
<1>5. ASSUME NEW t \in Threads, RefreshReturns(t) PROVE StoredInv'
  <2>1. configToken' = issued /\ UNCHANGED <<authToken, issued>> /\ authToken = issued
    BY <1>5 DEF RefreshReturns, RefreshEnds, tokenVars, StoredInv
  <2> QED BY <2>1 DEF StoredInv
<1>6. ASSUME NEW t \in Threads, RefreshRaises(t) PROVE StoredInv'
  <2>1. UNCHANGED storedVars
    BY <1>6 DEF RefreshRaises, RefreshEnds, storedVars, tokenVars
  <2>2. \A u \in Threads : pc'[<<u, "refresh">>] = "stored" <=> pc[<<u, "refresh">>] = "stored"
    BY <1>0, <1>6 DEF RefreshRaises, RefreshEnds, ClientTypeOK
  <2> QED BY <1>1, <2>1, <2>2
<1>7. ASSUME NEW t \in Threads, Cancelled(t) PROVE StoredInv'
  <2>1. \A u \in Threads : pc[<<u, "refresh">>] # "stored"
    BY <1>7 DEF Cancelled, Running
  <2>2. \A u \in Threads : pc'[<<u, "refresh">>] # "stored"
    BY <1>0, <1>7, <2>1 DEF Cancelled, ClientTypeOK
  <2> QED BY <1>7, <2>1, <2>2 DEF Cancelled, StoredInv
<1>8. ASSUME TokenAges \/ BreakerTimeout \/ UNCHANGED vars PROVE StoredInv'
  BY <1>8 DEF TokenAges, BreakerTimeout, vars, frameVars, sharedVars, tokenVars, StoredInv
<1> QED
  BY <1>2, <1>3, <1>4, <1>5, <1>6, <1>7, <1>8, AsyncCases DEF ThreadStep, RefreshStep

\* While a renewal is about to read the token, both places hold the same one.
LEMMA SameTokenAtRenewal ==
    ASSUME ClientInv, LoopInv, StoredInv, NEW t \in Threads, pc[<<t, "call">>] = "renew"
    PROVE  authToken = configToken
<1>1. \A u \in Threads : pc[<<u, "refresh">>] # "stored"
  <2> SUFFICES ASSUME NEW u \in Threads, pc[<<u, "refresh">>] = "stored" PROVE FALSE
    OBVIOUS
  <2>1. u = t
    BY FrameFacts DEF LoopInv, Running
  <2>2. pc[<<t, "call">>] = "refreshing"
    BY <2>1 DEF ClientInv, RefreshNeverWaits
  <2> QED BY <2>2
<1> QED BY <1>1 DEF StoredInv

\* Every step preserves RenewalInv.
LEMMA RenewalStep ==
    ASSUME ClientInv, LoopInv, StoredInv, RenewalInv, [AsyncNext]_vars
    PROVE  RenewalInv'
<1> USE FrameFacts
<1>0. ClientTypeOK
  BY DEF ClientInv
<1> SUFFICES ASSUME NEW r \in Threads
             PROVE  /\ pc'[<<r, "call">>] = "renew" => configToken' <= due'
                    /\ pc'[<<r, "call">>] = "waiting" /\ renewing'[r] =>
                           tokenBefore'[<<r, "call">>] <= due'
  BY DEF RenewalInv
<1> DEFINE c == <<r, "call">>
           Kept == /\ pc'[c] \in {"renew", "waiting"} => pc'[c] = pc[c]
                   /\ UNCHANGED <<configToken, due>>
                   /\ tokenBefore'[c] = tokenBefore[c] /\ renewing'[r] = renewing[r]
<1>c. c \in Frames
  OBVIOUS
<1>1. ASSUME Kept PROVE /\ pc'[c] = "renew" => configToken' <= due'
                        /\ pc'[c] = "waiting" /\ renewing'[r] => tokenBefore'[c] <= due'
  BY <1>1 DEF RenewalInv
<1>2. ASSUME NEW f \in Frames,
             \/ AttemptAdmitted(f) \/ AttemptRejected(f) \/ AttemptSucceeds(f) \/ AttemptFails(f)
             \/ Send(f) \/ Processed(f) \/ NotProcessed(f)
      PROVE  Kept
  BY <1>0, <1>2
     DEF AttemptAdmitted, AttemptRejected, AttemptSucceeds, AttemptFails, Send, Processed,
         NotProcessed, Goto, ClientTypeOK, tokenVars, sharedVars
<1>3. ASSUME NEW f \in Frames, ReadToken(f)
      PROVE  /\ pc'[c] = "renew" => configToken' <= due'
             /\ pc'[c] = "waiting" /\ renewing'[r] => tokenBefore'[c] <= due'
  <2>1. /\ UNCHANGED <<configToken, due, renewing>>
        /\ f = c => pc'[c] = "build"
        /\ f # c => pc'[c] = pc[c] /\ tokenBefore'[c] = tokenBefore[c]
    BY <1>0, <1>3 DEF ReadToken, Goto, ClientTypeOK, tokenVars, sharedVars
  <2> QED BY <2>1 DEF RenewalInv
<1>4. ASSUME NEW f \in Frames, Unauthorized(f)
      PROVE  /\ pc'[c] = "renew" => configToken' <= due'
             /\ pc'[c] = "waiting" /\ renewing'[r] => tokenBefore'[c] <= due'
  <2>1. UNCHANGED <<configToken, due, expired, renewing, tokenBefore>>
    BY <1>4 DEF Unauthorized, tokenVars, sharedVars
  <2>2. CASE f # c
    <3>1. pc'[c] = pc[c]
      BY <1>0, <1>4, <2>2 DEF Unauthorized, Goto, ClientTypeOK
    <3> QED BY <2>1, <3>1 DEF RenewalInv
  <2>3. CASE f = c
    <3>1. pc[c] = "sent" /\ tokenSent[c] <= expired /\ pc'[c] # "renew"
      BY <1>0, <1>4, <2>3 DEF Unauthorized, Authorized, IsRefresh, Goto, ClientTypeOK
    <3>2. tokenBefore[c] <= due
      <4>1. tokenBefore[c] <= tokenSent[c]
        BY <3>1 DEF ClientInv, TokensInv
      <4>2. tokenBefore[c] \in Nat /\ tokenSent[c] \in Nat /\ expired \in Nat /\ due \in Nat
            /\ expired <= due
        BY <1>0, <1>c, BoundsAssumption DEF ClientTypeOK
      <4> QED BY <3>1, <4>1, <4>2
    <3> QED BY <2>1, <3>1, <3>2
  <2> QED BY <2>2, <2>3
<1>5. ASSUME NEW t \in Threads,
             \/ RequestCall(t) \/ JoinRefresh(<<t, "call">>) \/ StartRefresh(t)
             \/ SetAuthToken(t) \/ RefreshRaises(t)
      PROVE  Kept
  <2>1. UNCHANGED <<configToken, due, tokenBefore, renewing>>
    BY <1>5 DEF RequestCall, JoinRefresh, StartRefresh, SetAuthToken, RefreshRaises,
                RefreshEnds, tokenVars, sharedVars
  <2>2. CASE RequestCall(t) \/ StartRefresh(t) \/ SetAuthToken(t)
    <3>1. pc'[c] \in {"renew", "waiting"} => pc'[c] = pc[c]
      BY <1>0, <1>c, <2>2 DEF RequestCall, StartRefresh, SetAuthToken, Goto, ClientTypeOK
    <3> QED BY <2>1, <3>1
  <2>3. CASE JoinRefresh(<<t, "call">>) \/ RefreshRaises(t)
    <3>1. pc'[c] \in {"renew", "waiting"} => pc'[c] = pc[c]
      BY <1>0, <1>c, <2>3
         DEF JoinRefresh, RefreshRaises, RefreshEnds, AfterRefresh, Goto, ClientTypeOK
    <3> QED BY <2>1, <3>1
  <2> QED BY <1>5, <2>2, <2>3
<1>6. ASSUME NEW t \in Threads, RenewalCall(t)
      PROVE  /\ pc'[c] = "renew" => configToken' <= due'
             /\ pc'[c] = "waiting" /\ renewing'[r] => tokenBefore'[c] <= due'
  <2>1. UNCHANGED <<configToken, due, tokenBefore>>
    BY <1>6 DEF RenewalCall, tokenVars, sharedVars
  <2>2. CASE t = r
    BY <1>0, <1>6, <2>1, <2>2 DEF RenewalCall, Goto, ClientTypeOK
  <2>3. CASE t # r
    <3>1. pc'[c] = pc[c] /\ renewing'[r] = renewing[r]
      BY <1>0, <1>6, <2>3 DEF RenewalCall, Goto, ClientTypeOK
    <3> QED BY <2>1, <3>1 DEF RenewalInv
  <2> QED BY <2>2, <2>3
<1>7. ASSUME NEW t \in Threads, RefreshNow(t)
      PROVE  /\ pc'[c] = "renew" => configToken' <= due'
             /\ pc'[c] = "waiting" /\ renewing'[r] => tokenBefore'[c] <= due'
  <2>1. UNCHANGED <<configToken, due, renewing>>
    BY <1>7 DEF RefreshNow, tokenVars, sharedVars
  <2>2. CASE t = r
    <3>1. pc'[c] = "waiting" /\ tokenBefore'[c] = authToken /\ pc[c] = "renew"
      BY <1>0, <1>7, <2>2 DEF RefreshNow, Goto, ClientTypeOK
    <3>2. authToken <= due
      BY <3>1, SameTokenAtRenewal DEF RenewalInv
    <3> QED BY <2>1, <3>1, <3>2
  <2>3. CASE t # r
    <3>1. pc'[c] = pc[c] /\ tokenBefore'[c] = tokenBefore[c]
      BY <1>0, <1>7, <2>3 DEF RefreshNow, Goto, ClientTypeOK
    <3> QED BY <2>1, <3>1 DEF RenewalInv
  <2> QED BY <2>2, <2>3
<1>8. ASSUME NEW t \in Threads, OnLoop(t), RefreshReturns(t)
      PROVE  /\ pc'[c] = "renew" => configToken' <= due'
             /\ pc'[c] = "waiting" /\ renewing'[r] => tokenBefore'[c] <= due'
  <2>1. UNCHANGED <<due, renewing, tokenBefore>>
    BY <1>8 DEF RefreshReturns, RefreshEnds, tokenVars
  <2>2. pc'[c] = "waiting" => pc[c] = "waiting"
    BY <1>0, <1>8 DEF RefreshReturns, RefreshEnds, AfterRefresh, ClientTypeOK
  <2>3. pc'[c] # "renew"
    <3>1. CASE t = r
      BY <1>0, <1>8, <3>1 DEF RefreshReturns, RefreshEnds, AfterRefresh, ClientTypeOK
    <3>2. CASE t # r
      <4>1. pc'[c] = pc[c]
        BY <1>0, <1>8, <3>2 DEF RefreshReturns, RefreshEnds, ClientTypeOK
      <4>2. pc[c] # "renew"
        BY <1>8, <3>2 DEF OnLoop, Running
      <4> QED BY <4>1, <4>2
    <3> QED BY <3>1, <3>2
  <2> QED BY <2>1, <2>2, <2>3 DEF RenewalInv
<1>9. ASSUME NEW t \in Threads, Cancelled(t) PROVE Kept
  <2>1. UNCHANGED <<configToken, due, tokenBefore, renewing>>
    BY <1>9 DEF Cancelled
  <2>2. pc'[c] = pc[c] \/ pc'[c] = "raised"
    BY <1>0, <1>9 DEF Cancelled, ClientTypeOK
  <2> QED BY <2>1, <2>2
<1>10. ASSUME TokenAges
       PROVE  /\ pc'[c] = "renew" => configToken' <= due'
              /\ pc'[c] = "waiting" /\ renewing'[r] => tokenBefore'[c] <= due'
  <2>1. UNCHANGED <<pc, configToken, tokenBefore, renewing>>
    BY <1>10 DEF TokenAges, sharedVars, frameVars
  <2>2. due' \in Nat /\ due \in Nat /\ due <= due'
    BY <1>0, <1>10 DEF TokenAges, ClientTypeOK
  <2>3. configToken \in Nat /\ tokenBefore[c] \in Nat
    BY <1>0, <1>c, BoundsAssumption DEF ClientTypeOK
  <2> QED BY <2>1, <2>2, <2>3 DEF RenewalInv
<1>11. BreakerTimeout \/ UNCHANGED vars => Kept
  BY DEF BreakerTimeout, vars, frameVars, sharedVars, tokenVars
<1> QED
  BY <1>1, <1>2, <1>3, <1>4, <1>5, <1>6, <1>7, <1>8, <1>9, <1>10, <1>11, AsyncCases
     DEF ThreadStep, RefreshStep, FrameStep, Answered

\* The invariant of the asynchronous client holds at first, and its steps preserve it.
LEMMA InitTasksInv == Init => TasksInv
<1> SUFFICES ASSUME Init PROVE TasksInv
  OBVIOUS
<1>1. \A f \in Frames : ~Running(f)
  BY DEF Init, Running
<1> QED
  BY <1>1, InitClientInv, FrameFacts DEF Init, TasksInv, LoopInv, StoredInv, RenewalInv

LEMMA TasksStep ==
    ASSUME TasksInv, [AsyncNext]_vars
    PROVE  TasksInv'
  BY AsyncClientInv, LoopStep, StoredStep, RenewalStep DEF TasksInv

\* Every reachable state of the asynchronous client satisfies the invariant of the
\* synchronous one, cancellations included, runs one task at a time, and compares under
\* the lock with a token that is about to expire.
THEOREM TasksInvariant == AsyncSpec => []TasksInv
  BY InitTasksInv, TasksStep, PTL DEF AsyncSpec

\* Tasks, too, never wait for the lock they hold, and give it back when they are
\* cancelled.
THEOREM TasksRefreshNeverWait == AsyncSpec => []RefreshNeverWaits
  BY TasksInvariant, PTL DEF TasksInv, ClientInv

\* A cancelled write may have been processed, and is processed once at most.
THEOREM TasksWriteOnce == AsyncSpec => []WriteOnce
<1>1. ASSUME ClientInv, NEW t \in Threads \ Replayable PROVE processed[t] <= 1
  <2>1. processed[t] = 0 \/ processed[t] = 1
    BY <1>1 DEF ClientInv, WritesInv
  <2> QED BY <2>1
<1>2. TasksInv => WriteOnce
  BY <1>1 DEF TasksInv, WriteOnce
<1> QED BY <1>2, TasksInvariant, PTL

\* A task takes the lock for a token that is about to expire: nothing runs between its
\* look at the configured token and at the one it compares with under the lock.
LEMMA TasksRefreshWhenDue ==
    ASSUME TasksInv, [AsyncNext]_vars, NEW t \in Threads, refreshLock # t, refreshLock' = t
    PROVE  authToken <= due
<1>1. CASE \E u \in Threads : Cancelled(u)
  BY <1>1, FrameFacts DEF Cancelled, ReleasedBy
<1>2. CASE [Next]_vars
  <2>1. StartRefresh(t) /\ <<t, "call">> \in Frames
    BY <1>2, LockIsTaken, FrameFacts
  <2>2. pc[<<t, "call">>] = "waiting" /\ authToken = tokenBefore[<<t, "call">>]
    BY <2>1 DEF StartRefresh, StillCurrent
  <2>3. CASE renewing[t]
    BY <2>2, <2>3 DEF TasksInv, RenewalInv
  <2>4. CASE ~renewing[t]
    BY <1>2, <2>4, RefreshStartsWhenDue DEF TasksInv
  <2> QED BY <2>3, <2>4
<1> QED BY <1>1, <1>2, AsyncCases DEF Next

\* On one event loop a renewal, too, refreshes only a token that is about to expire,
\* and a cancelled refresh leaves what it compares as it was.
THEOREM AsyncRefreshOnlyIfDueHolds == AsyncSpec => AsyncRefreshOnlyIfDue
<1>1. TasksInv /\ [AsyncNext]_vars => [RefreshesOnlyIfDue]_vars
  BY TasksRefreshWhenDue DEF RefreshesOnlyIfDue
<1>2. AsyncSpec => [][RefreshesOnlyIfDue]_vars
  BY <1>1, TasksInvariant, PTL DEF AsyncSpec
<1> QED BY <1>2 DEF AsyncRefreshOnlyIfDue

\* A cancelled call leaves the breaker without a result; the breaker opens and closes on
\* the results of the others as it does for the synchronous client.
THEOREM TasksBreakerEvidence == AsyncSpec => OpensAndClosesOnEvidence
<1> DEFINE Step ==
      /\ cbState = "CLOSED" /\ cbState' = "OPEN" => failuresInARow' = FailureThreshold
      /\ cbState # "CLOSED" /\ cbState' = "CLOSED" =>
             successesInARow' = SuccessThreshold \/ Reset
<1>1. Init => BreakerInv
  BY InitBreakerInv DEF Init
<1>2. ASSUME BreakerInv, [AsyncNext]_vars PROVE BreakerInv' /\ [Step]_breakerVars
  <2>1. CASE \E t \in Threads : Cancelled(t)
    <3>1. UNCHANGED <<cbState, countVars, timeoutElapsed, historyVars>>
      BY <2>1 DEF Cancelled
    <3>2. inFlight' \subseteq inFlight
      BY <2>1 DEF Cancelled
    <3>3. BreakerInv'
      BY <1>2, <3>1, <3>2 DEF countVars, historyVars, BreakerInv, BreakerTypeOK,
                              ClosedOnFewFailures, ProbesCounted
    <3> QED BY <3>1, <3>3
  <2>2. CASE [Next]_vars
    <3>1. [BreakerNext]_breakerVars
      BY <2>2, BreakerStep
    <3> QED BY <1>2, <3>1, NextBreakerInv, EvidenceStep
  <2> QED BY <1>2, <2>1, <2>2, AsyncCases DEF Next
<1>3. AsyncSpec => [][Step]_breakerVars
  BY <1>1, <1>2, PTL DEF AsyncSpec
<1> QED BY <1>3 DEF OpensAndClosesOnEvidence

-----------------------------------------------------------------------------
(* The executions of all three *)

\* Whatever an execution is of, it satisfies the invariant of the requests; one of the
\* asynchronous client satisfies the one of the tasks.
HttpInv == ClientInv /\ (client = "tasks" => TasksInv)

\* Calls of the breaker alone leave requests and tokens as they are.
LEMMA BreakerAloneKeeps ==
    ASSUME ClientInv, BreakerAlone
    PROVE  ClientInv'
<1>1. UNCHANGED <<issued, due, expired, authToken, configToken, refreshLock, renewing, pc,
                  attempt, tokenBefore, tokenSent, replaying, processed>>
  BY DEF BreakerAlone, tokenVars, sharedVars, frameVars
<1> QED BY <1>1 DEF ClientInv, ClientTypeOK, WritesInv, RefreshNeverWaits, TokensInv

\* Every state of every execution satisfies the invariant of its client.
THEOREM HttpInvariant == HttpSpec => []HttpInv
<1>1. HttpInit => HttpInv
  <2> SUFFICES ASSUME HttpInit PROVE ClientInv /\ TasksInv
    BY DEF HttpInv
  <2> QED BY InitTasksInv DEF HttpInit, TasksInv
<1>2. ASSUME HttpInv, [HttpNext]_allVars PROVE HttpInv'
  <2>1. CASE client = "threads" /\ Next /\ client' = client
    BY <1>2, <2>1, ClientStep DEF HttpInv
  <2>2. CASE client = "tasks" /\ AsyncNext /\ client' = client
    BY <1>2, <2>2, TasksStep DEF HttpInv, TasksInv
  <2>3. CASE client = "breaker" /\ BreakerAlone /\ client' = client
    BY <1>2, <2>3, BreakerAloneKeeps DEF HttpInv
  <2>4. CASE UNCHANGED allVars
    <3>1. UNCHANGED vars /\ client' = client
      BY <2>4 DEF allVars
    <3> QED BY <1>2, <3>1, ClientStep, TasksStep DEF HttpInv
  <2> QED BY <1>2, <2>1, <2>2, <2>3, <2>4 DEF HttpNext
<1> QED BY <1>1, <1>2, PTL DEF HttpSpec

\* Tasks of one loop refresh only a token that is about to expire, renewals included
\* (refresh_now of async_client.py).
THEOREM TasksRefreshOnlyIfDueHolds == HttpSpec => TasksRefreshOnlyIfDue
<1> DEFINE Step == client = "tasks" => RefreshesOnlyIfDue
<1>1. ASSUME HttpInv, [HttpNext]_allVars PROVE [Step]_vars
  <2>1. CASE client = "tasks"
    <3>1. [AsyncNext]_vars
      BY <1>1, <2>1 DEF HttpNext, allVars
    <3>2. RefreshesOnlyIfDue
      BY <1>1, <2>1, <3>1, TasksRefreshWhenDue DEF HttpInv, RefreshesOnlyIfDue
    <3> QED BY <3>2
  <2> QED BY <2>1
<1>2. HttpSpec => [][Step]_vars
  BY <1>1, HttpInvariant, PTL DEF HttpSpec
<1> QED BY <1>2 DEF TasksRefreshOnlyIfDue

\* In no execution is a write that is not safe to replay processed twice, and in none does
\* a refresh wait for the lock that it is run under.
THEOREM HttpSafety == HttpSpec => [](WriteOnce /\ RefreshNeverWaits)
<1>1. ClientInv => WriteOnce /\ RefreshNeverWaits
  <2>1. ASSUME ClientInv, NEW t \in Threads \ Replayable PROVE processed[t] <= 1
    <3>1. processed[t] = 0 \/ processed[t] = 1
      BY <2>1 DEF ClientInv, WritesInv
    <3> QED BY <3>1
  <2> QED BY <2>1 DEF ClientInv, WriteOnce
<1>2. HttpInv => WriteOnce /\ RefreshNeverWaits
  BY <1>1 DEF HttpInv
<1> QED BY <1>2, HttpInvariant, PTL
=============================================================================

---------------------------- MODULE ApiCallsProofs ----------------------------
(***************************************************************************)
(* Theorems about JobsApi and ManagementApi, for any jobs, retries, delays *)
(* and leases.  The first half is about one attempt of any call (CallInv). *)
(* The inductive invariants are JobsInv and ManagementInv: the types,      *)
(* CallInv, and why a call that is sent again finds that it has acted.     *)
(***************************************************************************)
EXTENDS JobsApi, ManagementApi, TLAPS

\* Conditions whose answer will stay the same.
FinalConditions == {"planCap", "leaseLost", "finished", "gone", "invalid"}

\* The error e tells a caller of the condition c what the code promises it does.
Fits(c, e) ==
    /\ e \in SpooledErrors
    /\ IsLeaseExpired(e) <=> c = "leaseLost"
    /\ c \in FinalConditions => ~IsRetryable(e) /\ e.class # "Other"
    /\ e.class \in {"RateLimit", "QuotaExceeded"} => c \in {"rateLimited", "planCap"}

-----------------------------------------------------------------------------
(* Answers over HTTP *)

LEMMA StatusClasses ==
    /\ DOMAIN ClassOfStatus = {400, 401, 403, 404, 409, 413, 422}
    /\ ClassOfStatus[400] = "Validation" /\ ClassOfStatus[422] = "Validation"
    /\ ClassOfStatus[401] = "Authentication" /\ ClassOfStatus[403] = "Authorization"
    /\ ClassOfStatus[404] = "NotFound" /\ ClassOfStatus[409] = "Conflict"
    /\ ClassOfStatus[413] = "PayloadTooLarge"
BY DEF ClassOfStatus

LEMMA ErrIsError ==
    ASSUME NEW class \in {"Spooled", "Other", "Network", "Timeout", "Server", "RateLimit",
                          "QuotaExceeded", "Validation", "Authentication", "Authorization",
                          "NotFound", "Conflict", "PayloadTooLarge"},
           NEW http \in Nat, NEW code \in {"none", "LEASE_EXPIRED", "QUOTA_EXCEEDED"}
    PROVE  /\ Err(class, http, code) \in SpooledErrors
           /\ Err(class, http, code).class = class
           /\ Err(class, http, code).status = http
           /\ Err(class, http, code).code = code
BY DEF Err, SpooledErrors

LEMMA LimitErrors ==
    /\ Fits("planCap", Quota)
    /\ \A h : Fits("rateLimited", RateLimit(h))
<1>1. Quota \in SpooledErrors /\ Quota.class = "QuotaExceeded" /\ Quota.status = 429
  BY DEF Quota, Err, SpooledErrors
<1>2. ASSUME NEW h
      PROVE  RateLimit(h) \in SpooledErrors /\ RateLimit(h).class = "RateLimit"
  <2>1. CASE h \in {"zero", "long"}
    BY <2>1 DEF RateLimit, Err, SpooledErrors, ParsedRetryAfter, DefaultRetryAfter
  <2>2. CASE h \notin {"zero", "long"}
    BY <2>2 DEF RateLimit, Err, SpooledErrors, ParsedRetryAfter, DefaultRetryAfter
  <2> QED
    BY <2>1, <2>2
<1> QED
  BY <1>1, <1>2 DEF Fits, IsLeaseExpired, IsRetryable, FinalConditions

LEMMA ResponseFields ==
    \A s, c, b, h : /\ Response(s, c, b, h).status = s /\ Response(s, c, b, h).code = c
                    /\ Response(s, c, b, h).body = b /\ Response(s, c, b, h).retryAfter = h
BY DEF Response

\* What create_error_from_response makes of the answers of each condition.
LEMMA ResponseFits ==
    ASSUME NEW c \in DOMAIN RestAnswers, NEW r \in RestAnswers[c]
    PROVE  Fits(c, ErrorFromResponse(r))
<1>1. CASE c = "leaseLost"
  <2>1. r.status = 409 /\ r.code = "LEASE_EXPIRED"
    BY <1>1, ResponseFields DEF RestAnswers
  <2>2. ErrorFromResponse(r) = Err("Conflict", 409, "LEASE_EXPIRED")
    BY <2>1, StatusClasses DEF ErrorFromResponse
  <2> QED
    BY <1>1, <2>2, ErrIsError DEF Fits, IsLeaseExpired, IsRetryable
<1>2. CASE c = "finished"
  <2>1. r.status = 409 /\ r.code = "none"
    BY <1>2, ResponseFields DEF RestAnswers
  <2>2. ErrorFromResponse(r) = Err("Conflict", 409, "none")
    BY <2>1, StatusClasses DEF ErrorFromResponse
  <2> QED
    BY <1>2, <2>2, ErrIsError DEF Fits, IsLeaseExpired, IsRetryable
<1>3. CASE c = "gone"
  <2>1. r.status = 404 /\ r.code = "none"
    BY <1>3, ResponseFields DEF RestAnswers
  <2>2. ErrorFromResponse(r) = Err("NotFound", 404, "none")
    BY <2>1, StatusClasses DEF ErrorFromResponse
  <2> QED
    BY <1>3, <2>2, ErrIsError DEF Fits, IsLeaseExpired, IsRetryable
<1>4. CASE c = "planCap"
  <2>1. PICK code, body : /\ r = Response(429, code, body, "absent")
                          /\ body \in {"limit_exceeded", "resource_limit_plan"}
    BY <1>4 DEF RestAnswers
  <2>2. r.status = 429 /\ IsQuotaResponse(r)
    BY <2>1, ResponseFields DEF IsQuotaResponse
  <2> QED
    BY <1>4, <2>2, StatusClasses, LimitErrors DEF ErrorFromResponse
<1>5. CASE c = "rateLimited"
  <2>1. PICK h : r = Response(429, "none", "plain", h)
    BY <1>5 DEF RestAnswers
  <2>2. r.status = 429 /\ r.code = "none" /\ r.body = "plain"
    BY <2>1, ResponseFields
  <2>3. ~IsQuotaResponse(r)
    BY <2>2 DEF IsQuotaResponse
  <2> QED
    BY <1>5, <2>2, <2>3, StatusClasses, LimitErrors DEF ErrorFromResponse
<1>6. CASE c = "invalid"
  <2>1. PICK s \in {400, 401, 403, 413, 418, 422} : r = Response(s, "none", "plain", "absent")
    BY <1>6 DEF RestAnswers
  <2>2. r.status = s /\ r.code = "none"
    BY <2>1, ResponseFields
  <2>3. ErrorFromResponse(r) = Err(IF s = 418 THEN "Spooled" ELSE ClassOfStatus[s], s, "none")
    BY <2>2, StatusClasses DEF ErrorFromResponse
  <2>4. PICK class \in {"Validation", "Authentication", "Authorization", "PayloadTooLarge",
                        "Spooled"} : ErrorFromResponse(r) = Err(class, s, "none")
    BY <2>3, StatusClasses
  <2> QED
    BY <1>6, <2>4, ErrIsError DEF Fits, IsLeaseExpired, IsRetryable
<1>7. CASE c = "unavailable"
  <2>1. PICK s \in {408, 500, 503} : r = Response(s, "none", "plain", "absent")
    BY <1>7 DEF RestAnswers
  <2>2. r.status = s /\ r.code = "none"
    BY <2>1, ResponseFields
  <2>3. ErrorFromResponse(r) = Err(IF s = 408 THEN "Spooled" ELSE "Server", s, "none")
    BY <2>2, StatusClasses DEF ErrorFromResponse
  <2> QED
    BY <1>7, <2>3, ErrIsError DEF Fits, IsLeaseExpired, FinalConditions
<1> QED
  BY <1>1, <1>2, <1>3, <1>4, <1>5, <1>6, <1>7 DEF RestAnswers

-----------------------------------------------------------------------------
(* Answers over gRPC *)

LEMMA CodeClasses ==
    /\ DOMAIN ClassOfCode = {"UNAUTHENTICATED", "PERMISSION_DENIED", "NOT_FOUND",
          "INVALID_ARGUMENT", "ABORTED", "ALREADY_EXISTS", "DEADLINE_EXCEEDED", "UNAVAILABLE"}
    /\ ClassOfCode["UNAUTHENTICATED"] = Err("Authentication", 401, "none")
    /\ ClassOfCode["PERMISSION_DENIED"] = Err("Authorization", 403, "none")
    /\ ClassOfCode["NOT_FOUND"] = Err("NotFound", 404, "none")
    /\ ClassOfCode["INVALID_ARGUMENT"] = Err("Validation", 400, "none")
    /\ ClassOfCode["ABORTED"] = Err("Conflict", 409, "none")
    /\ ClassOfCode["ALREADY_EXISTS"] = Err("Conflict", 409, "none")
    /\ ClassOfCode["DEADLINE_EXCEEDED"] = Err("Timeout", 0, "none")
    /\ ClassOfCode["UNAVAILABLE"] = Err("Network", 0, "none")
BY DEF ClassOfCode, TimeoutError, NetworkError

LEMMA StatusFields ==
    \A k, t, h : /\ Status(k, t, h).code = k /\ Status(k, t, h).text = t
                 /\ Status(k, t, h).retryAfter = h
BY DEF Status

\* What _map_grpc_error makes of the answers of each condition.
LEMMA StatusFits ==
    ASSUME NEW c \in DOMAIN GrpcAnswers, NEW g \in GrpcAnswers[c]
    PROVE  Fits(c, ErrorFromGrpc(g))
<1>1. CASE c \in {"leaseLost", "finished"}
  <2>1. PICK t : /\ g = Status("FAILED_PRECONDITION", t, "absent")
                 /\ t \in {"lease_expired", "lease_mismatch"} <=> c = "leaseLost"
    BY <1>1 DEF GrpcAnswers
  <2>2. g.code = "FAILED_PRECONDITION" /\ (IsGrpcLeaseLost(g.text) <=> c = "leaseLost")
    BY <2>1, StatusFields DEF IsGrpcLeaseLost
  <2>3. ErrorFromGrpc(g) = Err("Conflict", 409, IF c = "leaseLost" THEN "LEASE_EXPIRED" ELSE "none")
    BY <2>2, CodeClasses DEF ErrorFromGrpc
  <2> QED
    BY <1>1, <2>3, ErrIsError DEF Fits, IsLeaseExpired, IsRetryable
<1>2. CASE c \in {"gone", "invalid"}
  <2>1. PICK k \in {"UNAUTHENTICATED", "PERMISSION_DENIED", "NOT_FOUND", "INVALID_ARGUMENT",
                    "ABORTED", "ALREADY_EXISTS"} : g = Status(k, "plain", "absent")
    BY <1>2 DEF GrpcAnswers
  <2>2. ErrorFromGrpc(g) = ClassOfCode[k]
    BY <2>1, CodeClasses, StatusFields DEF ErrorFromGrpc
  <2> QED
    BY <1>2, <2>2, ErrIsError, CodeClasses DEF Fits, IsLeaseExpired, IsRetryable
<1>3. CASE c = "planCap"
  <2>1. PICK h \in {"absent", "garbled"} : g = Status("RESOURCE_EXHAUSTED", "limit_reached", h)
    BY <1>3 DEF GrpcAnswers
  <2>2. h \notin DOMAIN ParsedRetryAfter
    BY DEF ParsedRetryAfter
  <2> QED
    BY <1>3, <2>1, <2>2, CodeClasses, StatusFields, LimitErrors DEF ErrorFromGrpc
<1>4. CASE c = "rateLimited"
  <2>1. PICK h : g = Status("RESOURCE_EXHAUSTED", "plain", h)
    BY <1>4 DEF GrpcAnswers
  <2> QED
    BY <1>4, <2>1, CodeClasses, StatusFields, LimitErrors DEF ErrorFromGrpc
<1>5. CASE c = "unavailable"
  <2>1. PICK k \in {"DEADLINE_EXCEEDED", "UNAVAILABLE", "INTERNAL"} :
            g = Status(k, "plain", "absent")
    BY <1>5 DEF GrpcAnswers
  <2>2. g.code = k
    BY <2>1, StatusFields
  <2>3. ErrorFromGrpc(g) = IF k = "INTERNAL" THEN Err("Server", 500, "none") ELSE ClassOfCode[k]
    BY <2>2, CodeClasses DEF ErrorFromGrpc
  <2> QED
    BY <1>5, <2>3, CodeClasses, ErrIsError DEF Fits, IsLeaseExpired, FinalConditions
<1> QED
  BY <1>1, <1>2, <1>3, <1>4, <1>5 DEF GrpcAnswers

\* Whatever the protocol, and also when no answer arrives.
LEMMA ErrorsFit ==
    /\ \A c \in DOMAIN RestAnswers : \A e \in Errors(c) : Fits(c, e)
    /\ \A e \in LostErrors : Fits("unavailable", e)
<1>0. DOMAIN GrpcAnswers = DOMAIN RestAnswers /\ "unavailable" \in DOMAIN RestAnswers
  BY DEF GrpcAnswers, RestAnswers
<1>1. ASSUME NEW c \in DOMAIN RestAnswers, NEW e \in Errors(c) PROVE Fits(c, e)
  BY <1>0, ResponseFits, StatusFits DEF Errors
<1>2. ASSUME NEW e \in {NetworkError, TimeoutError, OtherException}
      PROVE  Fits("unavailable", e)
  BY ErrIsError DEF Fits, IsLeaseExpired, FinalConditions, NetworkError, TimeoutError,
     OtherException
<1> QED
  BY <1>0, <1>1, <1>2 DEF LostErrors

-----------------------------------------------------------------------------
(* Attempts *)

LEMMA DelaysBounded ==
    ASSUME NEW e \in SpooledErrors, NEW n \in 1 .. MaxRetries, NEW d \in Delays(e, n)
    PROVE  d \in Nat /\ d <= MaxDelay + MaxDelay \div 4
<1>1. MaxDelay \in Nat /\ e.hint \in Nat
  BY RetryAssumption DEF SpooledErrors
<1>2. CASE e.hint > 0
  BY <1>1, <1>2 DEF Delays, LesserOf
<1>3. CASE ~(e.hint > 0)
  <2>1. PICK b \in Nat : b = BaseDelay * 2 ^ (n - 1)
    BY BackoffAssumption
  <2>2. LesserOf(b, MaxDelay) \in 0 .. MaxDelay
    BY <1>1 DEF LesserOf
  <2>3. PICK x \in 0 .. MaxDelay : d \in {x, x + x \div 4}
    BY <1>3, <2>1, <2>2 DEF Delays
  <2> QED
    BY <1>1, <2>3
<1> QED
  BY <1>2, <1>3

\* What holds of the call between steps, whoever serves it; the last but one conjunct
\* makes the others inductive: what is not safe to send again has not acted yet.
CallInv ==
    /\ WaitsAreBounded
    /\ FinalAnswersAreFinal
    /\ call.phase = "running" /\ ~call.safe => call.effects = 0
    /\ RefusalsChangedNothing
    /\ call.phase = "raised" => (IsLeaseExpired(call.error) <=> call.condition = "leaseLost")

\* The call goes on, or ends, as the call it was.
SameCall(acted) ==
    /\ call'.phase \in {"running", "returned", "raised"}
    /\ call'.op = call.op /\ call'.args = call.args /\ call'.safe = call.safe
    /\ call'.method = call.method /\ call'.transport = call.transport
    /\ call'.effects = call.effects + acted

\* An answer that stays the same is not replayed, and one that may have acted only
\* where that is safe (with_retry, should_retry).
LEMMA ReplayedForAReason ==
    ASSUME NEW c, NEW e, Fits(c, e), Replays(e)
    PROVE  /\ call.attempt <= MaxRetries
           /\ c \notin FinalConditions
           /\ c # "rateLimited" => call.safe
BY DEF Fits, Replays, ShouldRetry, FinalConditions

LEMMA AttemptInv ==
    ASSUME NEW ops, NEW args, call \in ApiCall(ops, args), CallInv, call.phase = "running",
           NEW c \in Conditions, NEW e, Fits(c, e), c # "ok",
           NEW acted \in {0, 1}, acted = 1 => c = "unavailable",
           AttemptFails(c, e, acted)
    PROVE  call' \in ApiCall(ops, args) /\ CallInv' /\ SameCall(acted)
<1>1. /\ MaxRetries \in Nat /\ MaxDelay \in Nat /\ call.attempt \in 1 .. MaxRetries + 1
      /\ call.effects \in Nat /\ call.safe \in BOOLEAN /\ e \in SpooledErrors
      /\ call.effects + acted \in Nat
  BY RetryAssumption DEF ApiCall, Fits
<1>2. CASE Replays(e)
  <2>1. PICK d \in Delays(e, call.attempt) :
            call' = [call EXCEPT !.condition = c, !.effects = @ + acted,
                                 !.attempt = @ + 1, !.waited = d]
    BY <1>2 DEF AttemptFails
  <2>2. call.attempt <= MaxRetries /\ c \notin FinalConditions /\ (c # "rateLimited" => call.safe)
    BY <1>2, ReplayedForAReason
  <2>3. d \in Nat /\ d <= MaxDelay + MaxDelay \div 4
    BY <1>1, <2>2, DelaysBounded
  <2>4. call' \in ApiCall(ops, args)
    <3>1. call.attempt + 1 \in 1 .. MaxRetries + 1
      BY <1>1, <2>2
    <3> QED
      BY <1>1, <2>1, <2>3, <3>1 DEF ApiCall
  <2>5. /\ SameCall(acted) /\ call'.phase = "running" /\ call'.condition = c
        /\ call'.waited = d /\ call'.attempt = call.attempt + 1
    BY <2>1 DEF ApiCall, SameCall
  <2>6. CallInv'
    BY <1>1, <2>2, <2>3, <2>5 DEF CallInv, SameCall, WaitsAreBounded, FinalAnswersAreFinal,
       RefusalsChangedNothing, FinalConditions
  <2> QED
    BY <2>4, <2>5, <2>6
<1>3. CASE ~Replays(e)
  <2>1. call' = [call EXCEPT !.condition = c, !.effects = @ + acted, !.phase = "raised",
                             !.error = e]
    BY <1>3 DEF AttemptFails
  <2>2. call' \in ApiCall(ops, args)
    BY <1>1, <2>1 DEF ApiCall
  <2>3. /\ SameCall(acted) /\ call'.phase = "raised" /\ call'.condition = c /\ call'.error = e
        /\ call'.waited = call.waited /\ call'.attempt = call.attempt
    BY <2>1 DEF ApiCall, SameCall
  <2>4. CallInv'
    BY <1>1, <2>3 DEF CallInv, SameCall, WaitsAreBounded, FinalAnswersAreFinal,
       RefusalsChangedNothing, Fits
  <2> QED
    BY <2>2, <2>3, <2>4
<1> QED
  BY <1>2, <1>3

-----------------------------------------------------------------------------
(* What the server's answers do to the call *)

LEMMA AnsweredInv ==
    ASSUME NEW ops, NEW args, call \in ApiCall(ops, args), CallInv, call.phase = "running",
           NEW acted \in {0, 1}, Answered(acted)
    PROVE  call' \in ApiCall(ops, args) /\ CallInv' /\ SameCall(acted)
<1>1. CASE call' = [call EXCEPT !.phase = "returned", !.condition = "ok", !.effects = @ + acted]
  <2>1. call.effects \in Nat /\ call.effects + acted \in Nat /\ "ok" \in Conditions
    BY DEF ApiCall, Conditions
  <2>2. call' \in ApiCall(ops, args)
    BY <1>1, <2>1 DEF ApiCall
  <2>3. /\ SameCall(acted) /\ call'.phase = "returned" /\ call'.condition = "ok"
        /\ call'.waited = call.waited /\ call'.attempt = call.attempt
    BY <1>1 DEF ApiCall, SameCall
  <2>4. CallInv'
    BY <2>3 DEF CallInv, WaitsAreBounded, FinalAnswersAreFinal, RefusalsChangedNothing
  <2> QED
    BY <2>2, <2>3, <2>4
<1>2. CASE \E e \in LostErrors : AttemptFails("unavailable", e, acted)
  <2>1. "unavailable" \in Conditions
    BY DEF Conditions, RestAnswers
  <2> QED
    BY <1>2, <2>1, ErrorsFit, AttemptInv
<1> QED
  BY <1>1, <1>2 DEF Answered

LEMMA RefusedInv ==
    ASSUME NEW ops, NEW args, call \in ApiCall(ops, args), CallInv, call.phase = "running",
           NEW c \in DOMAIN RestAnswers, Refused(c)
    PROVE  call' \in ApiCall(ops, args) /\ CallInv' /\ SameCall(0)
<1>1. c \in Conditions /\ c # "ok"
  BY DEF Conditions, RestAnswers
<1> QED
  BY <1>1, ErrorsFit, AttemptInv DEF Refused

LEMMA NotServedInv ==
    ASSUME NEW ops, NEW args, call \in ApiCall(ops, args), CallInv,
           NEW creates, NotServed(creates)
    PROVE  call' \in ApiCall(ops, args) /\ CallInv' /\ SameCall(0)
<1>1. call.phase = "running"
  BY DEF NotServed
<1>2. {"rateLimited", "invalid", "planCap", "unavailable"} \subseteq DOMAIN RestAnswers
  BY DEF RestAnswers
<1>3. CASE \E c \in {"rateLimited", "invalid", "planCap"} : Refused(c)
  BY <1>1, <1>2, <1>3, RefusedInv
<1>4. CASE \E e \in LostErrors : AttemptFails("unavailable", e, 0)
  <2>1. "unavailable" \in Conditions
    BY <1>2 DEF Conditions
  <2> QED
    BY <1>1, <1>4, <2>1, ErrorsFit, AttemptInv
<1> QED
  BY <1>3, <1>4 DEF NotServed

LEMMA NewCallInv ==
    ASSUME NEW ops, NEW args, NEW op \in ops, NEW transport \in {"rest", "grpc"},
           NEW rest, rest.method \in {"GET", "POST", "PUT", "PATCH", "DELETE"},
           rest.idempotent \in BOOLEAN, NEW keyed \in BOOLEAN, NEW a \in args,
           call' = NewCall(op, transport, rest, keyed, a)
    PROVE  /\ call' \in ApiCall(ops, args) /\ CallInv'
           /\ call'.phase = "running" /\ call'.op = op /\ call'.args = a /\ call'.effects = 0
<1>1. NoError \in SpooledErrors
  BY DEF NoError, Err, SpooledErrors
<1>2. (rest.idempotent \/ IsIdempotent(rest.method, keyed)) \in BOOLEAN
  BY DEF IsIdempotent
<1>3. "ok" \in Conditions
  BY DEF Conditions
<1>4. call' \in ApiCall(ops, args)
  BY <1>1, <1>2, <1>3, RetryAssumption DEF NewCall, ApiCall
<1>5. /\ call'.phase = "running" /\ call'.op = op /\ call'.args = a /\ call'.effects = 0
      /\ call'.condition = "ok" /\ call'.waited = 0 /\ call'.attempt = 1
  BY DEF NewCall
<1>6. CallInv'
  BY <1>5, RetryAssumption DEF CallInv, WaitsAreBounded, FinalAnswersAreFinal,
     RefusalsChangedNothing
<1> QED
  BY <1>4, <1>5, <1>6

LEMMA CallInitInv ==
    ASSUME NEW ops, NEW args, NEW a \in args, CallInit(a)
    PROVE  /\ call \in ApiCall(ops, args) /\ CallInv
           /\ call.phase = "returned" /\ call.args = a /\ call.effects = 0
<1>1. NoError \in SpooledErrors
  BY DEF NoError, Err, SpooledErrors
<1>2. "ok" \in Conditions
  BY DEF Conditions
<1>3. call \in ApiCall(ops, args)
  <2>1. /\ Rest("GET", FALSE).method = "GET" /\ ~Rest("GET", FALSE).idempotent
        /\ IsIdempotent("GET", FALSE)
    BY DEF Rest, IsIdempotent
  <2>2. call = [phase |-> "returned", op |-> "none", transport |-> "rest", method |-> "GET",
                safe |-> TRUE, args |-> a, attempt |-> 1, condition |-> "ok",
                error |-> NoError, waited |-> 0, effects |-> 0]
    BY <2>1 DEF CallInit, NewCall
  <2> QED
    BY <1>1, <1>2, <2>2, RetryAssumption DEF ApiCall
<1>4. /\ call.phase = "returned" /\ call.args = a /\ call.effects = 0
      /\ call.condition = "ok" /\ call.waited = 0 /\ call.attempt = 1
  BY DEF CallInit, NewCall
<1>5. CallInv
  BY <1>4, RetryAssumption DEF CallInv, WaitsAreBounded, FinalAnswersAreFinal,
     RefusalsChangedNothing
<1> QED
  BY <1>3, <1>4, <1>5

LEMMA RestingCallInv ==
    ASSUME CallInv, UNCHANGED call
    PROVE  CallInv'
BY DEF CallInv, WaitsAreBounded, FinalAnswersAreFinal, RefusalsChangedNothing, IsLeaseExpired

-----------------------------------------------------------------------------
(* The calls that move a job *)

Ops == DOMAIN JobCalls

ArgsUpTo(n) ==
    [job : Jobs, lease : 0 .. n, keyed : BOOLEAN, flag : Flags]

\* Which calls are safe to send again, and that an ack carries a lease.
ArgsInv ==
    /\ call.op \in Acks => call.args.lease # 0
    /\ call.op = "create" => (call.safe <=> call.args.keyed)
    /\ call.op \in {"claim", "retry", "purge"} => ~call.safe
    /\ call.op = "cancel" => call.method = "DELETE"

\* What the server shows for a call that has acted and is sent again: an ack does not
\* hold its lease any more, a complete has completed the job, a key has its job.
EvidenceInv ==
    call.phase = "running" /\ call.effects # 0 =>
        /\ call.op \in Acks => lease[call.args.job] # call.args.lease
        /\ call.op = "complete" => status[call.args.job] = "completed"
        /\ call.op = "create" => status[call.args.job] # "absent"

CompleteInv ==
    call.phase = "raised" /\ call.condition = "leaseLost" /\ call.op = "complete"
        => call.effects = 0

JobsInv == JobsTypeOK /\ CallInv /\ ActsOnce /\ ArgsInv /\ EvidenceInv /\ CompleteInv

-----------------------------------------------------------------------------
(* Steps *)

LEMMA CallsOfJobs ==
    /\ Ops = {"create", "claim", "complete", "fail", "heartbeat", "cancel", "boost", "retry",
              "purge"}
    /\ \A op \in Ops :
           /\ JobCalls[op].idempotent \in BOOLEAN
           /\ JobCalls[op].method \in {"POST", "PUT", "DELETE"}
           /\ op \in {"create", "claim", "retry", "purge"} =>
                  JobCalls[op].method = "POST" /\ ~JobCalls[op].idempotent
           /\ op = "cancel" => JobCalls[op].method = "DELETE"
<1>1. Ops = {"create", "claim", "complete", "fail", "heartbeat", "cancel", "boost", "retry",
             "purge"}
  BY DEF Ops, JobCalls
<1>3. /\ JobCalls["create"] = Rest("POST", FALSE) /\ JobCalls["claim"] = Rest("POST", FALSE)
      /\ JobCalls["retry"] = Rest("POST", FALSE) /\ JobCalls["purge"] = Rest("POST", FALSE)
  BY DEF JobCalls
<1>4. /\ JobCalls["complete"] = Rest("POST", TRUE) /\ JobCalls["fail"] = Rest("POST", TRUE)
      /\ JobCalls["heartbeat"] = Rest("POST", TRUE)
  BY DEF JobCalls
<1>5. JobCalls["cancel"] = Rest("DELETE", FALSE) /\ JobCalls["boost"] = Rest("PUT", FALSE)
  BY DEF JobCalls
<1>6. ASSUME NEW op \in Ops
      PROVE  \E m \in {"POST", "PUT", "DELETE"}, i \in BOOLEAN :
                 /\ JobCalls[op] = Rest(m, i)
                 /\ op \in {"create", "claim", "retry", "purge"} => m = "POST" /\ ~i
                 /\ op = "cancel" => m = "DELETE"
  BY <1>1, <1>3, <1>4, <1>5
<1>7. ASSUME NEW op \in Ops
      PROVE  /\ JobCalls[op].idempotent \in BOOLEAN
             /\ JobCalls[op].method \in {"POST", "PUT", "DELETE"}
             /\ op \in {"create", "claim", "retry", "purge"} =>
                    JobCalls[op].method = "POST" /\ ~JobCalls[op].idempotent
             /\ op = "cancel" => JobCalls[op].method = "DELETE"
  <2>1. PICK m \in {"POST", "PUT", "DELETE"}, i \in BOOLEAN :
            /\ JobCalls[op] = Rest(m, i)
            /\ op \in {"create", "claim", "retry", "purge"} => m = "POST" /\ ~i
            /\ op = "cancel" => m = "DELETE"
    BY <1>6
  <2>2. /\ JobCalls[op].method = m
        /\ JobCalls[op].idempotent \in BOOLEAN /\ (JobCalls[op].idempotent <=> i)
    BY <2>1 DEF Rest
  <2> QED
    BY <2>1, <2>2
<1> QED
  BY <1>1, <1>7

\* The server forgets no job, takes no completion back and issues new leases only.
ServerMoves ==
    /\ status' \in [Jobs -> Statuses]
    /\ issued' \in issued .. MaxLeases
    /\ lease' \in [Jobs -> 0 .. issued'] /\ known' \in [Jobs -> 0 .. issued']
    /\ \A j \in Jobs :
           /\ status[j] # "absent" => status'[j] # "absent"
           /\ status[j] = "completed" => status'[j] = "completed"
           /\ lease'[j] \in {0, lease[j], issued + 1}

\* What a step that acts for the call has to show.
Acts ==
    /\ call.phase = "running" /\ call.op \in Ops
    /\ call.method \notin {"PUT", "DELETE"} => call.effects = 0
    /\ call.op \in Acks => lease'[call.args.job] = 0
    /\ call.op = "complete" => status'[call.args.job] = "completed"
    /\ call.op = "create" /\ call.args.keyed => status'[call.args.job] # "absent"

LEMMA StepInv ==
    ASSUME JobsInv, ServerMoves,
           call' \in ApiCall(Ops, ArgsUpTo(issued)), CallInv',
           NEW acted \in {0, 1}, SameCall(acted), acted = 1 => Acts,
           call'.phase = "running" => call.phase = "running",
           call'.phase = "raised" /\ call'.condition = "leaseLost" /\ call.op = "complete"
               => call.effects + acted = 0
    PROVE  JobsInv'
<1>0. /\ issued \in Nat /\ issued' \in Nat /\ issued <= issued' /\ issued' <= MaxLeases
      /\ MaxLeases \in Nat
      /\ call \in ApiCall(Ops, ArgsUpTo(issued))
  BY JobsAssumption DEF JobsInv, JobsTypeOK, ServerMoves, Ops, ArgsUpTo
<1>1. call.args \in ArgsUpTo(issued) /\ call.effects \in Nat /\ call.safe \in BOOLEAN
  BY <1>0 DEF ApiCall
<1>2. JobsTypeOK'
  <2>1. ArgsUpTo(issued) \subseteq ArgsUpTo(issued')
    BY <1>0 DEF ArgsUpTo
  <2>2. call' \in ApiCall(Ops, ArgsUpTo(issued'))
    BY <2>1 DEF ApiCall
  <2> QED
    BY <1>0, <2>2 DEF ServerMoves, JobsTypeOK, Ops, ArgsUpTo
<1>3. ActsOnce'
  BY <1>1 DEF JobsInv, ActsOnce, SameCall, Acts
<1>4. ArgsInv'
  BY DEF JobsInv, ArgsInv, SameCall
<1>5. EvidenceInv'
  <2> SUFFICES ASSUME call'.phase = "running", call'.effects # 0
               PROVE  /\ call.op \in Acks => lease'[call.args.job] # call.args.lease
                      /\ call.op = "complete" => status'[call.args.job] = "completed"
                      /\ call.op = "create" => status'[call.args.job] # "absent"
    BY DEF EvidenceInv, SameCall
  <2>1. call.phase = "running" /\ call.args.job \in Jobs /\ call.args.lease \in 0 .. issued
    BY <1>1 DEF ArgsUpTo
  <2>2. CASE acted = 1
    <3>1. call'.safe /\ call.safe
      BY DEF CallInv, SameCall
    <3> QED
      BY <2>2, <3>1 DEF Acts, JobsInv, ArgsInv
  <2>3. CASE acted = 0
    <3>1. call.effects # 0
      BY <2>3, <1>1 DEF SameCall
    <3> QED
      BY <1>0, <2>1, <3>1 DEF JobsInv, EvidenceInv, ArgsInv, ServerMoves
  <2> QED
    BY <2>2, <2>3
<1>6. CompleteInv'
  BY DEF CompleteInv, SameCall
<1> QED
  BY <1>2, <1>3, <1>4, <1>5, <1>6 DEF JobsInv

-----------------------------------------------------------------------------
(* Every step *)

LEMMA RunningCall ==
    ASSUME JobsInv
    PROVE  /\ call \in ApiCall(Ops, ArgsUpTo(issued)) /\ CallInv
           /\ call.args \in ArgsUpTo(issued) /\ call.args.job \in Jobs /\ call.effects \in Nat
           /\ issued \in 0 .. MaxLeases /\ MaxLeases \in Nat
BY JobsAssumption DEF JobsInv, JobsTypeOK, ArgsUpTo, Ops, ApiCall

LEMMA ServerRests ==
    ASSUME JobsInv, UNCHANGED serverVars
    PROVE  ServerMoves
BY RunningCall DEF JobsInv, JobsTypeOK, ServerMoves, serverVars

\* The caller's steps.
LEMMA CallStep ==
    ASSUME JobsInv, NEW op \in Ops, NEW transport \in {"rest", "grpc"}, NEW j \in Jobs,
           NEW keyed \in BOOLEAN, NEW flag \in Flags, Call(op, transport, j, keyed, flag)
    PROVE  JobsInv'
<1> DEFINE l == IF op \in Acks THEN known[j] ELSE 0
           a == JobArgs(j, l, keyed, flag)
<1>1. l \in 0 .. issued /\ (op \in Acks => l # 0)
  BY DEF Call, JobsInv, JobsTypeOK
<1>2. a \in ArgsUpTo(issued) /\ a.lease = l /\ a.flag = flag /\ a.keyed = keyed
  BY <1>1 DEF JobArgs, ArgsUpTo
<1>3. call' = NewCall(op, transport, JobCalls[op], keyed, a)
  BY DEF Call
<1> HIDE DEF a, l
<1>4. /\ call' \in ApiCall(Ops, ArgsUpTo(issued)) /\ CallInv'
      /\ call'.phase = "running" /\ call'.op = op /\ call'.args = a /\ call'.effects = 0
  <2>1. /\ JobCalls[op].idempotent \in BOOLEAN
        /\ JobCalls[op].method \in {"GET", "POST", "PUT", "PATCH", "DELETE"}
    BY CallsOfJobs
  <2> QED
    <3>1. PICK rest : rest = JobCalls[op] /\ call' = NewCall(op, transport, rest, keyed, a)
      BY <1>3
    <3>2. call' \in ApiCall(Ops, ArgsUpTo(issued)) /\ CallInv'
      BY <1>2, <2>1, <3>1, NewCallInv
    <3> QED
      BY <1>3, <3>2 DEF NewCall
<1>5. /\ call'.method = JobCalls[op].method
      /\ call'.safe = (JobCalls[op].idempotent \/ IsIdempotent(JobCalls[op].method, keyed))
  BY <1>3 DEF NewCall
<1>6. keyed => op = "create"
  BY DEF Call
<1>7. ArgsInv'
  BY <1>1, <1>2, <1>4, <1>5, <1>6, CallsOfJobs DEF ArgsInv, IsIdempotent
<1>8. UNCHANGED serverVars
  BY DEF Call
<1>9. JobsTypeOK'
  BY <1>4, <1>8 DEF JobsInv, JobsTypeOK, serverVars, ArgsUpTo, Ops
<1> QED
  BY <1>4, <1>7, <1>9 DEF JobsInv, ActsOnce, EvidenceInv, CompleteInv

LEMMA JobCallFailsStep ==
    ASSUME JobsInv, JobCallFails
    PROVE  JobsInv'
<1>1. call' \in ApiCall(Ops, ArgsUpTo(issued)) /\ CallInv' /\ SameCall(0)
  BY RunningCall, NotServedInv DEF JobCallFails
<1>2. ServerMoves
  BY ServerRests DEF JobCallFails
<1>3. call.phase = "running"
  BY DEF JobCallFails, NotServed
<1>4. call'.condition # "leaseLost"
  <2>1. PICK c \in {"rateLimited", "invalid", "planCap", "unavailable"} :
            \E e : AttemptFails(c, e, 0)
    BY DEF JobCallFails, NotServed, Refused
  <2>2. call'.condition = c
    BY <2>1, RunningCall DEF AttemptFails, ApiCall
  <2> QED
    BY <2>2
<1> QED
  BY <1>1, <1>2, <1>3, <1>4, StepInv

LEMMA RefusedStep ==
    ASSUME JobsInv, UNCHANGED serverVars, call.phase = "running",
           NEW c \in DOMAIN RestAnswers, Refused(c),
           c = "leaseLost" /\ call.op = "complete" => call.effects = 0
    PROVE  JobsInv'
<1>1. call' \in ApiCall(Ops, ArgsUpTo(issued)) /\ CallInv' /\ SameCall(0)
  BY RunningCall, RefusedInv
<1>2. ServerMoves
  BY ServerRests
<1>3. call'.condition = c
  BY RunningCall DEF Refused, AttemptFails, ApiCall
<1> QED
  BY <1>1, <1>2, <1>3, RunningCall, StepInv

LEMMA AnsweredStep ==
    ASSUME JobsInv, ServerMoves, call.phase = "running", NEW acted \in {0, 1},
           Answered(acted), acted = 1 => Acts
    PROVE  JobsInv'
<1>1. call' \in ApiCall(Ops, ArgsUpTo(issued)) /\ CallInv' /\ SameCall(acted)
  BY RunningCall, AnsweredInv
<1>2. call'.condition # "leaseLost"
  BY RunningCall DEF Answered, AttemptFails, ApiCall
<1> QED
  BY <1>1, <1>2, StepInv

LEMMA CreateStep ==
    ASSUME JobsInv, Create
    PROVE  JobsInv'
<1>1. call.phase = "running" /\ call.op = "create" /\ call.op \notin Acks
  BY DEF Create, Serves, Acks
<1>2. CASE Answered(0) /\ UNCHANGED status
  BY <1>1, <1>2, ServerRests, AnsweredStep DEF Create, serverVars
<1>3. ASSUME NEW j \in Jobs, status[j] = "absent", call.args.keyed => j = call.args.job,
             status' = [status EXCEPT ![j] = "pending"], Answered(1)
      PROVE  JobsInv'
  <2>1. ServerMoves
    BY <1>3, RunningCall DEF JobsInv, JobsTypeOK, ServerMoves, Create, Statuses
  <2>2. call.effects = 0
    BY <1>1, <1>3 DEF JobsInv, EvidenceInv, CallInv, ArgsInv
  <2>3. Acts
    BY <1>1, <1>3, <2>2, CallsOfJobs DEF Acts, JobsInv, JobsTypeOK
  <2> QED
    BY <1>1, <1>3, <2>1, <2>3, AnsweredStep
<1> QED
  BY <1>2, <1>3 DEF Create

LEMMA ClaimStep ==
    ASSUME JobsInv, Claim
    PROVE  JobsInv'
<1>1. call.phase = "running" /\ call.op = "claim" /\ call.op \notin Acks
  BY DEF Claim, Serves, Acks
<1>2. CASE Answered(0) /\ UNCHANGED serverVars
  BY <1>1, <1>2, ServerRests, AnsweredStep
<1>3. ASSUME NEW j \in Jobs, status[j] = "pending", issued < MaxLeases,
             status' = [status EXCEPT ![j] = "processing"],
             lease' = [lease EXCEPT ![j] = issued + 1], issued' = issued + 1, Answered(1),
             known' = (IF call'.phase = "returned" THEN [known EXCEPT ![j] = issued + 1]
                       ELSE known)
      PROVE  JobsInv'
  <2>1. ServerMoves
    BY <1>3, RunningCall DEF JobsInv, JobsTypeOK, ServerMoves, Statuses
  <2>2. call.effects = 0
    BY <1>1 DEF JobsInv, CallInv, ArgsInv
  <2>3. Acts
    BY <1>1, <2>2, CallsOfJobs DEF Acts
  <2> QED
    BY <1>1, <1>3, <2>1, <2>3, AnsweredStep
<1> QED
  BY <1>2, <1>3 DEF Claim

LEMMA AckRefusedStep ==
    ASSUME JobsInv, AckRefused
    PROVE  JobsInv'
<1>1. call.phase = "running" /\ call.op \in Acks /\ UNCHANGED serverVars
  BY DEF AckRefused
<1>2. {"leaseLost", "finished"} \subseteq DOMAIN RestAnswers
  BY DEF RestAnswers
<1>3. CASE status[call.args.job] \in {"pending", "processing"} /\ Refused("leaseLost")
  BY <1>1, <1>2, <1>3, RefusedStep DEF JobsInv, EvidenceInv
<1>4. CASE Refused("finished")
  BY <1>1, <1>2, <1>4, RefusedStep
<1> QED
  BY <1>3, <1>4 DEF AckRefused

\* complete, fail and the calls that manage a job move the call's job.
LEMMA MoveJobStep ==
    ASSUME JobsInv, call.phase = "running", call.op \in Ops, call.op # "create",
           status[call.args.job] # "completed", status[call.args.job] # "absent",
           NEW to \in Statuses \ {"absent"}, MoveJob(to),
           call.method \notin {"PUT", "DELETE"} => call.effects = 0,
           call.op = "complete" => to = "completed"
    PROVE  JobsInv'
<1>1. /\ status' = [status EXCEPT ![call.args.job] = to]
      /\ lease' = [lease EXCEPT ![call.args.job] = 0]
      /\ issued' = issued /\ known' = known /\ Answered(1)
  BY DEF MoveJob
<1>2. call.args.job \in Jobs
  BY RunningCall
<1>3. ServerMoves
  BY <1>1, <1>2, RunningCall DEF JobsInv, JobsTypeOK, ServerMoves
<1>4. Acts
  BY <1>1, <1>2 DEF Acts, JobsInv, JobsTypeOK
<1> QED
  BY <1>1, <1>3, <1>4, AnsweredStep

LEMMA AckStep ==
    ASSUME JobsInv, Complete \/ Fail \/ Heartbeat
    PROVE  JobsInv'
<1>1. call.phase = "running" /\ call.op \in Acks /\ HoldsLease
  BY DEF Complete, Fail, Heartbeat, Serves, Acks
<1>2. call.effects = 0
  BY <1>1 DEF HoldsLease, JobsInv, EvidenceInv
<1>3. call.op \in Ops /\ call.op # "create" /\ status[call.args.job] = "processing"
  BY <1>1, CallsOfJobs DEF Acks, HoldsLease
<1>4. CASE Complete
  <2>1. MoveJob("completed") /\ call.op = "complete" /\ "completed" \in Statuses \ {"absent"}
    BY <1>4 DEF Complete, Serves, Statuses
  <2> QED
    BY <1>1, <1>2, <1>3, <2>1, MoveJobStep
<1>5. CASE Fail
  <2>1. PICK to \in {"pending", "deadletter"} : MoveJob(to)
    BY <1>5 DEF Fail
  <2>2. call.op = "fail" /\ to \in Statuses \ {"absent"}
    BY <1>5 DEF Fail, Serves, Statuses
  <2> QED
    BY <1>1, <1>2, <1>3, <2>1, <2>2, MoveJobStep
<1>6. CASE Heartbeat
  BY <1>1, <1>6, ServerRests, AnsweredStep DEF Heartbeat
<1> QED
  BY <1>4, <1>5, <1>6

LEMMA ManagesStep ==
    ASSUME JobsInv, NEW op \in {"cancel", "retry", "purge"},
           NEW from \in Statuses \ {"absent", "completed"},
           NEW to \in Statuses \ {"absent"}, Manages(op, from, to)
    PROVE  JobsInv'
<1>1. call.phase = "running" /\ call.op = op
  BY DEF Manages, Serves
<1>2. op \in Ops /\ call.op # "create" /\ call.op # "complete"
  BY <1>1, CallsOfJobs
<1>3. CASE status[call.args.job] = from /\ MoveJob(to)
  <2>1. call.method \notin {"PUT", "DELETE"} => call.effects = 0
    BY <1>1 DEF JobsInv, ArgsInv, CallInv
  <2> QED
    BY <1>1, <1>2, <1>3, <2>1, MoveJobStep
<1>4. CASE Refused("finished") /\ UNCHANGED serverVars
  <2>1. "finished" \in DOMAIN RestAnswers
    BY DEF RestAnswers
  <2> QED
    BY <1>1, <1>4, <2>1, RefusedStep
<1> QED
  BY <1>3, <1>4 DEF Manages

LEMMA ManagedStep ==
    ASSUME JobsInv, Managed
    PROVE  JobsInv'
<1>1. CASE Boost
  <2>1. "finished" \in DOMAIN RestAnswers
    BY DEF RestAnswers
  <2>2. call.phase = "running" /\ UNCHANGED serverVars
    BY <1>1 DEF Boost, Serves
  <2>3. CASE Answered(0)
    BY <2>2, <2>3, ServerRests, AnsweredStep
  <2>4. CASE Refused("finished")
    BY <2>1, <2>2, <2>4, RefusedStep
  <2> QED
    BY <1>1, <2>3, <2>4 DEF Boost
<1>2. {"pending", "deadletter", "cancelled", "purged"} \subseteq Statuses \ {"absent", "completed"}
  BY DEF Statuses
<1>3. CASE \/ Manages("cancel", "pending", "cancelled")
           \/ Manages("retry", "deadletter", "pending")
           \/ Manages("purge", "deadletter", "purged")
  BY <1>2, <1>3, ManagesStep
<1> QED
  BY <1>1, <1>3 DEF Managed

\* What others do, and the steps that leave everything as it is.
LEMMA OthersStep ==
    ASSUME JobsInv,
           \/ \E j \in Jobs : LeaseExpires(j) \/ OtherClaims(j) \/ OtherFinishes(j)
           \/ UNCHANGED jobsVars
    PROVE  JobsInv'
<1>1. UNCHANGED call
  BY DEF LeaseExpires, OtherClaims, OtherFinishes, jobsVars
<1>2. CallInv'
  BY <1>1, RestingCallInv DEF JobsInv
<1>3. ServerMoves
  <2>1. CASE UNCHANGED jobsVars
    BY <2>1, ServerRests DEF jobsVars
  <2>2. ASSUME NEW j \in Jobs, LeaseExpires(j) PROVE ServerMoves
    BY <2>2, RunningCall DEF LeaseExpires, JobsInv, JobsTypeOK, ServerMoves, Statuses
  <2>3. ASSUME NEW j \in Jobs, OtherClaims(j) PROVE ServerMoves
    BY <2>3, RunningCall DEF OtherClaims, JobsInv, JobsTypeOK, ServerMoves, Statuses
  <2>4. ASSUME NEW j \in Jobs, OtherFinishes(j) PROVE ServerMoves
    BY <2>4, RunningCall DEF OtherFinishes, JobsInv, JobsTypeOK, ServerMoves, Statuses
  <2> QED
    BY <2>1, <2>2, <2>3, <2>4
<1>4. SameCall(0)
  BY <1>1, RunningCall DEF SameCall, ApiCall
<1>5. call'.phase = "raised" /\ call'.condition = "leaseLost" /\ call.op = "complete"
          => call.effects + 0 = 0
  BY <1>1 DEF JobsInv, CompleteInv
<1> QED
  BY <1>1, <1>2, <1>3, <1>4, <1>5, RunningCall, StepInv

-----------------------------------------------------------------------------
(* Theorems *)

LEMMA InitInv ==
    ASSUME JobsInit
    PROVE  JobsInv
<1> DEFINE a == JobArgs(CHOOSE j \in Jobs : TRUE, 0, FALSE, "unset")
<1>1. a \in ArgsUpTo(0)
  BY JobsAssumption DEF JobArgs, ArgsUpTo, Flags
<1> HIDE DEF a
<1>2. CallInit(a)
  BY DEF JobsInit, a
<1>3. /\ call \in ApiCall(Ops, ArgsUpTo(0)) /\ CallInv
      /\ call.phase = "returned" /\ call.args = a /\ call.effects = 0
  BY <1>1, <1>2, CallInitInv
<1>4. call.op = "none"
  BY <1>2 DEF CallInit, NewCall
<1>5. JobsTypeOK
  BY <1>3, JobsAssumption DEF JobsInit, ServerInit, JobsTypeOK, Statuses, ArgsUpTo, Ops
<1>6. ArgsInv
  BY <1>1, <1>3, <1>4 DEF ArgsInv, Acks
<1> QED
  BY <1>3, <1>5, <1>6 DEF JobsInv, ActsOnce, EvidenceInv, CompleteInv

LEMMA NextInv ==
    ASSUME JobsInv, [JobsNext]_jobsVars
    PROVE  JobsInv'
<1>1. ASSUME NEW op \in DOMAIN JobCalls, NEW transport \in {"rest", "grpc"}, NEW j \in Jobs,
             NEW keyed \in BOOLEAN, NEW flag \in Flags, Call(op, transport, j, keyed, flag)
      PROVE  JobsInv'
  BY <1>1, CallStep DEF Ops
<1>2. CASE JobCallFails
  BY <1>2, JobCallFailsStep
<1>3. CASE Served
  BY <1>3, CreateStep, ClaimStep, AckRefusedStep, AckStep, ManagedStep DEF Served
<1>4. CASE \/ \E j \in Jobs : LeaseExpires(j) \/ OtherClaims(j) \/ OtherFinishes(j)
           \/ UNCHANGED jobsVars
  BY <1>4, OthersStep
<1> QED
  BY <1>1, <1>2, <1>3, <1>4 DEF JobsNext

LEMMA JobsInvariant == JobsSpec => []JobsInv
<1>1. JobsInit => JobsInv
  BY InitInv
<1>2. JobsInv /\ [JobsNext]_jobsVars => JobsInv'
  BY NextInv
<1> QED
  BY <1>1, <1>2, PTL DEF JobsSpec

\* A call of the API, the jobs and the leases of the server keep their types: the
\* caller never knows of a lease that was not issued (JobsResource.claim).
THEOREM JobsTypeCorrect == JobsSpec => []JobsTypeOK
BY JobsInvariant, PTL DEF JobsInv

\* However often with_retry sends a create, a claim, an ack, a retry or a purge, it
\* acts once (_is_idempotent, idempotent=True).
THEOREM JobsActOnce == JobsSpec => []ActsOnce
BY JobsInvariant, PTL DEF JobsInv

\* A refused call that is not safe to send again has changed nothing.
THEOREM JobsRefusedUnchanged == JobsSpec => []RefusalsChangedNothing
<1>1. JobsInv => RefusalsChangedNothing
  BY DEF JobsInv, CallInv
<1> QED
  BY <1>1, JobsInvariant, PTL

\* No answer that stays the same is tried again, over REST or gRPC, and attempts and
\* waits are bounded for any max_retries and max_delay (should_retry, calculate_delay).
THEOREM JobsRetriesBounded == JobsSpec => []RetriesAreBounded
<1>1. JobsInv => RetriesAreBounded
  BY DEF JobsInv, CallInv, RetriesAreBounded
<1> QED
  BY <1>1, JobsInvariant, PTL

\* LEASE_EXPIRED is raised exactly for a lost lease, over REST and gRPC, and never of
\* a job that the caller's own complete has finished.
THEOREM JobsLeaseLossTold == JobsSpec => []LeaseLossIsTold
<1>1. JobsInv => LeaseLossIsTold
  BY DEF JobsInv, CallInv, CompleteInv, LeaseLossIsTold
<1> QED
  BY <1>1, JobsInvariant, PTL

-----------------------------------------------------------------------------
(* The calls that manage the things of an account *)

ManagementArgs == [resource : DOMAIN Resources, keyed : BOOLEAN]

\* A method of the tables: what it passes as idempotent=True leaves no trace.
SoundMethod(m) ==
    /\ m.rest.method \in {"POST", "PUT", "PATCH", "DELETE"}
    /\ m.rest.idempotent \in BOOLEAN
    /\ m.rest.idempotent => m.effect = "refreshes"

\* Which calls are safe to send again: those by their verb, the heartbeat, which
\* leaves no trace, and what is made with a key, where once is enough.
SafeCalls ==
    call.phase = "running" =>
        /\ call.op \in DOMAIN Resources[call.args.resource]
        /\ call.safe /\ call.method \notin {"PUT", "DELETE"} =>
               Effect = "refreshes" \/ (Effect = "makes" /\ call.args.keyed)

ManagementInv == ManagementTypeOK /\ CallInv /\ ActsOnce /\ SafeCalls

LEMMA MethodKinds ==
    /\ SoundMethod(Makes) /\ Makes.effect = "makes"
    /\ SoundMethod(Post) /\ SoundMethod(Put) /\ SoundMethod(Patch) /\ SoundMethod(Removes)
    /\ SoundMethod([Post EXCEPT !.effect = "removes"])
    /\ SoundMethod([rest |-> Rest("POST", TRUE), effect |-> "refreshes"])
BY DEF SoundMethod, Makes, Post, Put, Patch, Removes, Rest

LEMMA ResourceMethods ==
    ASSUME NEW r \in DOMAIN Resources, NEW op \in DOMAIN Resources[r]
    PROVE  /\ SoundMethod(Resources[r][op])
           /\ r = "ingest" => Resources[r][op].effect = "makes"
<1> DEFINE Sound(calls) == \A o \in DOMAIN calls : SoundMethod(calls[o])
<1>1. Sound(WorkerCalls)
  <2>1. /\ DOMAIN WorkerCalls = {"register", "heartbeat", "deregister"}
        /\ WorkerCalls["register"] = Makes
        /\ WorkerCalls["heartbeat"] = [rest |-> Rest("POST", TRUE), effect |-> "refreshes"]
        /\ WorkerCalls["deregister"] = [Post EXCEPT !.effect = "removes"]
    BY DEF WorkerCalls
  <2> QED
    BY <2>1, MethodKinds
<1>2. Sound(WorkflowCalls) /\ Sound(ScheduleCalls)
  BY MethodKinds DEF WorkflowCalls, ScheduleCalls
<1>3. Sound(WebhookCalls) /\ Sound(ApiKeyCalls) /\ Sound(QueueCalls)
  BY MethodKinds DEF WebhookCalls, ApiKeyCalls, QueueCalls
<1>4. Sound(OrganizationCalls) /\ Sound(AdminCalls)
  BY MethodKinds DEF OrganizationCalls, AdminCalls
<1>5. Sound(AuthCalls) /\ Sound(BillingCalls)
  BY MethodKinds DEF AuthCalls, BillingCalls
<1>6. Sound(IngestCalls) /\ \A o \in DOMAIN IngestCalls : IngestCalls[o].effect = "makes"
  BY MethodKinds DEF IngestCalls
<1>7. /\ Resources[r] \in {WorkerCalls, WorkflowCalls, ScheduleCalls, WebhookCalls, ApiKeyCalls,
                           QueueCalls, OrganizationCalls, AdminCalls, AuthCalls, IngestCalls,
                           BillingCalls}
      /\ r = "ingest" => Resources[r] = IngestCalls
  BY DEF Resources
<1>8. Sound(Resources[r])
  <2> HIDE DEF Sound
  <2> QED
    BY <1>1, <1>2, <1>3, <1>4, <1>5, <1>6, <1>7
<1>9. SoundMethod(Resources[r][op])
  BY <1>8
<1> QED
  BY <1>6, <1>7, <1>9

LEMMA RunningManagement ==
    ASSUME ManagementInv
    PROVE  /\ call \in ApiCall(ManagementOps, ManagementArgs) /\ CallInv
           /\ call.effects \in Nat /\ call.args \in ManagementArgs
           /\ thing \in {"ours", "theirs", "removed"}
BY DEF ManagementInv, ManagementTypeOK, ManagementArgs, ApiCall

\* What the outcome of an attempt has to keep of ManagementInv, besides CallInv.
LEMMA ManagementStepInv ==
    ASSUME ManagementInv, call.phase = "running", thing' \in {"ours", "theirs", "removed"},
           NEW acted \in {0, 1},
           call' \in ApiCall(ManagementOps, ManagementArgs), CallInv', SameCall(acted),
           acted = 1 => call.effects = 0 \/ call.method \in {"PUT", "DELETE"}
    PROVE  ManagementInv'
<1>1. ManagementTypeOK'
  BY DEF ManagementTypeOK, ManagementArgs
<1>2. ActsOnce'
  BY RunningManagement DEF ManagementInv, ActsOnce, SameCall
<1>3. SafeCalls'
  BY DEF ManagementInv, SafeCalls, SameCall, Effect
<1> QED
  BY <1>1, <1>2, <1>3 DEF ManagementInv

LEMMA ManagementAnswered ==
    ASSUME ManagementInv, call.phase = "running", thing' \in {"ours", "theirs", "removed"},
           NEW acted \in {0, 1}, Answered(acted),
           acted = 1 => call.effects = 0 \/ call.method \in {"PUT", "DELETE"}
    PROVE  ManagementInv'
<1>1. call' \in ApiCall(ManagementOps, ManagementArgs) /\ CallInv' /\ SameCall(acted)
  BY RunningManagement, AnsweredInv
<1> QED
  BY <1>1, ManagementStepInv

LEMMA ManageStep ==
    ASSUME ManagementInv, NEW resource \in DOMAIN Resources, NEW transport \in {"rest", "grpc"},
           NEW keyed \in BOOLEAN, NEW op \in DOMAIN Resources[resource],
           Manage(resource, op, transport, keyed)
    PROVE  ManagementInv'
<1> DEFINE m == Resources[resource][op]
           a == Args(resource, keyed)
<1>1. /\ SoundMethod(m) /\ (resource = "ingest" => m.effect = "makes")
  BY ResourceMethods
<1>2. a \in ManagementArgs /\ a.resource = resource /\ a.keyed = keyed
  BY DEF Args, ManagementArgs
<1>3. op \in ManagementOps
  BY DEF ManagementOps
<1>4. call' = NewCall(op, transport, m.rest, keyed, a) /\ thing' = thing
  BY DEF Manage
<1>5. keyed => resource = "ingest"
  BY DEF Manage
<1>6. /\ call' \in ApiCall(ManagementOps, ManagementArgs) /\ CallInv'
      /\ call'.op = op /\ call'.args = a /\ call'.effects = 0
  <2>1. PICK rest : /\ rest = m.rest /\ call' = NewCall(op, transport, rest, keyed, a)
                    /\ rest.method \in {"GET", "POST", "PUT", "PATCH", "DELETE"}
                    /\ rest.idempotent \in BOOLEAN
    BY <1>1, <1>4 DEF SoundMethod
  <2> HIDE DEF a, m
  <2> QED
    BY <1>2, <1>3, <2>1, NewCallInv
<1>7. /\ call'.method = m.rest.method
      /\ call'.safe = (m.rest.idempotent \/ IsIdempotent(m.rest.method, keyed))
  BY <1>4 DEF NewCall
<1>8. SafeCalls'
  <2>1. Effect' = m.effect
    BY <1>2, <1>6 DEF Effect
  <2> QED
    BY <1>1, <1>2, <1>5, <1>6, <1>7, <2>1 DEF SafeCalls, SoundMethod, IsIdempotent
<1>9. ManagementTypeOK' /\ ActsOnce'
  BY <1>4, <1>6, RunningManagement DEF ManagementTypeOK, ManagementArgs, ActsOnce
<1> QED
  BY <1>6, <1>8, <1>9 DEF ManagementInv

LEMMA ManagementNextInv ==
    ASSUME ManagementInv, [ManagementNext]_managementVars
    PROVE  ManagementInv'
<1>0. /\ call \in ApiCall(ManagementOps, ManagementArgs) /\ CallInv /\ call.effects \in Nat
      /\ thing \in {"ours", "theirs", "removed"}
  BY RunningManagement
\* What is not safe to send again has not acted yet, and what is does so by its verb,
\* leaves no trace or has a key.
<1>1. ASSUME call.phase = "running", Effect # "refreshes",
             call.effects # 0, call.method \notin {"PUT", "DELETE"}
      PROVE  Effect = "makes" /\ call.args.keyed
  <2>1. call.safe
    BY <1>1 DEF ManagementInv, CallInv
  <2> QED
    BY <1>1, <2>1 DEF ManagementInv, SafeCalls
<1>2. ASSUME NEW resource \in DOMAIN Resources, NEW transport \in {"rest", "grpc"},
             NEW keyed \in BOOLEAN, NEW op \in DOMAIN Resources[resource],
             Manage(resource, op, transport, keyed)
      PROVE  ManagementInv'
  BY <1>2, ManageStep
<1>3. CASE ManagementFails
  <2>1. call.phase = "running" /\ UNCHANGED thing
    BY <1>3 DEF ManagementFails, NotServed
  <2>2. call' \in ApiCall(ManagementOps, ManagementArgs) /\ CallInv' /\ SameCall(0)
    BY <1>0, <1>3, NotServedInv DEF ManagementFails
  <2> QED
    BY <1>0, <2>1, <2>2, ManagementStepInv
<1>4. CASE Make
  <2>1. PICK acted \in {0, 1} :
            /\ Answered(acted)
            /\ acted = 1 => ~call.args.keyed \/ ~(call.effects > 0)
    BY <1>4 DEF Make
  <2>2. call.phase = "running" /\ Effect = "makes" /\ UNCHANGED thing
    BY <1>4 DEF Make, Running
  <2>3. acted = 1 => call.effects = 0 \/ call.method \in {"PUT", "DELETE"}
    BY <1>0, <1>1, <2>1, <2>2
  <2> QED
    BY <1>0, <2>1, <2>2, <2>3, ManagementAnswered
<1>5. CASE Write \/ Refresh \/ Remove
  <2>1. call.phase = "running" /\ thing' \in {"ours", "theirs", "removed"}
    BY <1>0, <1>5 DEF Write, Refresh, Remove, Running
  <2>2. PICK acted \in {0, 1} : Answered(acted) /\ (Effect = "refreshes" => acted = 0)
    BY <1>5 DEF Write, Refresh, Remove, Running
  <2>3. Effect # "makes"
    BY <1>5 DEF Write, Refresh, Remove, Running
  <2>4. acted = 1 => call.effects = 0 \/ call.method \in {"PUT", "DELETE"}
    BY <1>1, <2>1, <2>2, <2>3
  <2> QED
    BY <2>1, <2>2, <2>4, ManagementAnswered
<1>6. CASE NotThere
  <2>1. call.phase = "running" /\ UNCHANGED thing /\ Refused("gone")
    BY <1>6 DEF NotThere
  <2>2. "gone" \in DOMAIN RestAnswers
    BY DEF RestAnswers
  <2>3. call' \in ApiCall(ManagementOps, ManagementArgs) /\ CallInv' /\ SameCall(0)
    BY <1>0, <2>1, <2>2, RefusedInv
  <2> QED
    BY <1>0, <2>1, <2>3, ManagementStepInv
<1>7. CASE TheyAct \/ UNCHANGED managementVars
  <2>1. UNCHANGED call /\ thing' \in {"ours", "theirs", "removed"}
    BY <1>0, <1>7 DEF TheyAct, managementVars
  <2>2. CallInv'
    BY <1>0, <2>1, RestingCallInv
  <2>3. ManagementTypeOK' /\ ActsOnce' /\ SafeCalls'
    BY <2>1 DEF ManagementInv, ManagementTypeOK, ActsOnce, SafeCalls, Effect
  <2> QED
    BY <2>2, <2>3 DEF ManagementInv
<1> QED
  BY <1>2, <1>3, <1>4, <1>5, <1>6, <1>7 DEF ManagementNext

LEMMA ManagementInitInv ==
    ASSUME ManagementInit
    PROVE  ManagementInv
<1>1. Args("workers", FALSE) \in ManagementArgs
  BY DEF Args, ManagementArgs, Resources
<1>2. /\ call \in ApiCall(ManagementOps, ManagementArgs) /\ CallInv
      /\ call.phase = "returned" /\ call.effects = 0
  BY <1>1, CallInitInv DEF ManagementInit
<1> QED
  BY <1>2 DEF ManagementInit, ManagementInv, ManagementTypeOK, ManagementArgs, ActsOnce, SafeCalls

LEMMA ManagementInvariant == ManagementSpec => []ManagementInv
BY ManagementInitInv, ManagementNextInv, PTL DEF ManagementSpec

\* A call that manages a thing of the account, and the thing, keep their types.
THEOREM ManagementTypeCorrect == ManagementSpec => []ManagementTypeOK
BY ManagementInvariant, PTL DEF ManagementInv

\* However often with_retry sends it, a create, a trigger, a login or a pause acts once,
\* also with a key, whatever the other administrator does (_is_idempotent).
THEOREM ManagementActsOnce == ManagementSpec => []ActsOnce
BY ManagementInvariant, PTL DEF ManagementInv

\* A refused call that is not safe to send again has changed nothing.
THEOREM ManagementRefusedUnchanged == ManagementSpec => []RefusalsChangedNothing
<1>1. ManagementInv => RefusalsChangedNothing
  BY DEF ManagementInv, CallInv
<1> QED
  BY <1>1, ManagementInvariant, PTL

\* No answer that stays the same is tried again by the other resources either, and
\* attempts and waits are bounded (should_retry, calculate_delay).
THEOREM ManagementRetriesBounded == ManagementSpec => []RetriesAreBounded
<1>1. ManagementInv => RetriesAreBounded
  BY DEF ManagementInv, CallInv, RetriesAreBounded
<1> QED
  BY <1>1, ManagementInvariant, PTL
=============================================================================

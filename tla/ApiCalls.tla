------------------------------- MODULE ApiCalls -------------------------------
(***************************************************************************)
(* One call of the API, over REST by HttpClient.request, which with_retry  *)
(* may send again, or over gRPC by _call_unary, which sends once.  The     *)
(* modules that EXTEND this one say what the calls are and what the server *)
(* does for them; here is what comes of an attempt for the caller.         *)
(***************************************************************************)
EXTENDS RetryPolicy

VARIABLE call         \* the caller's call: it makes one after the other

\* A method of a resource: its verb, and whether it passes idempotent=True.
Rest(method, idempotent) == [method |-> method, idempotent |-> idempotent]

NoError == Err("none", 0, "none")

\* A call of op; safe says whether sending it again is.
NewCall(op, transport, rest, keyed, args) ==
    [phase |-> "running", op |-> op, transport |-> transport, method |-> rest.method,
     safe |-> rest.idempotent \/ IsIdempotent(rest.method, keyed), args |-> args,
     attempt |-> 1, condition |-> "ok", error |-> NoError, waited |-> 0, effects |-> 0]

\* Before the first call.
CallInit(args) ==
    call = [NewCall("none", "rest", Rest("GET", FALSE), FALSE, args) EXCEPT !.phase = "returned"]

\* May with_retry send the call once more?
Replays(e) == call.transport = "rest" /\ ShouldRetry(e, call.attempt, call.safe)

-----------------------------------------------------------------------------
(* What the API answers under a condition, in either protocol *)

RestAnswers ==
    [leaseLost   |-> {Response(409, "LEASE_EXPIRED", "plain", "absent")},
     finished    |-> {Response(409, "none", "plain", "absent")},
     gone        |-> {Response(404, "none", "plain", "absent")},
     planCap     |-> {Response(429, "QUOTA_EXCEEDED", "limit_exceeded", "absent"),
                      Response(429, "none", "limit_exceeded", "absent"),
                      Response(429, "none", "resource_limit_plan", "absent")},
     rateLimited |-> {Response(429, "none", "plain", h) : h \in RetryAfterHeaders},
     invalid     |-> {Response(s, "none", "plain", "absent") :
                          s \in {400, 401, 403, 413, 418, 422}},
     unavailable |-> {Response(s, "none", "plain", "absent") : s \in {408, 500, 503}}]

GrpcAnswers ==
    [leaseLost   |-> {Status("FAILED_PRECONDITION", t, "absent") :
                          t \in {"lease_expired", "lease_mismatch"}},
     finished    |-> {Status("FAILED_PRECONDITION", "plain", "absent")},
     gone        |-> {Status("NOT_FOUND", "plain", "absent")},
     planCap     |-> {Status("RESOURCE_EXHAUSTED", "limit_reached", h) :
                          h \in {"absent", "garbled"}},
     rateLimited |-> {Status("RESOURCE_EXHAUSTED", "plain", h) : h \in RetryAfterHeaders},
     invalid     |-> {Status(c, "plain", "absent") :
                          c \in {"UNAUTHENTICATED", "PERMISSION_DENIED", "INVALID_ARGUMENT",
                                 "ABORTED", "ALREADY_EXISTS"}},
     unavailable |-> {Status(c, "plain", "absent") :
                          c \in {"DEADLINE_EXCEEDED", "UNAVAILABLE", "INTERNAL"}}]

Errors(condition) ==
    IF call.transport = "rest"
    THEN {ErrorFromResponse(r) : r \in RestAnswers[condition]}
    ELSE {ErrorFromGrpc(g) : g \in GrpcAnswers[condition]}

\* No answer arrives, or one that cannot be read.
LostErrors ==
    Errors("unavailable") \cup
        (IF call.transport = "rest" THEN {NetworkError, TimeoutError, OtherException} ELSE {})

-----------------------------------------------------------------------------
(* What an attempt does to the call *)

\* acted: the server has done what was asked, 1, or not, 0
AttemptFails(condition, e, acted) ==
    LET seen == [call EXCEPT !.condition = condition, !.effects = @ + acted]
    IN  \/ /\ Replays(e)
           /\ \E d \in Delays(e, call.attempt) :
                  call' = [seen EXCEPT !.attempt = @ + 1, !.waited = d]
        \/ /\ ~Replays(e)
           /\ call' = [seen EXCEPT !.phase = "raised", !.error = e]

Answered(acted) ==
    \/ call' = [call EXCEPT !.phase = "returned", !.condition = "ok", !.effects = @ + acted]
    \/ \E e \in LostErrors : AttemptFails("unavailable", e, acted)

Refused(condition) == \E e \in Errors(condition) : AttemptFails(condition, e, 0)

Serves(op) == call.phase = "running" /\ call.op = op

\* The server refuses, does not get the request or fails before it acts.
NotServed(creates) ==
    /\ call.phase = "running"
    /\ \/ \E condition \in {"rateLimited", "invalid"} : Refused(condition)
       \/ creates /\ Refused("planCap")
       \/ \E e \in LostErrors : AttemptFails("unavailable", e, 0)

-----------------------------------------------------------------------------
(* Properties *)

Conditions == DOMAIN RestAnswers \cup {"ok"}

ApiCall(ops, args) ==
    [phase : {"running", "returned", "raised"}, op : ops \cup {"none"},
     transport : {"rest", "grpc"}, method : {"GET", "POST", "PUT", "PATCH", "DELETE"},
     safe : BOOLEAN, args : args, attempt : 1 .. MaxRetries + 1, condition : Conditions,
     error : SpooledErrors,
     waited : Nat, effects : Nat]

\* However often a call is sent, it acts once: a create without a key makes one
\* job, a lost claim leases one batch, a trigger runs once, and the replay of an
\* ack that has landed finds another lease or none.  A PUT or a DELETE may do what
\* it did once more, to what somebody else has written since.
ActsOnce == call.method \notin {"PUT", "DELETE"} => call.effects <= 1

\* A caller who is refused may rely on it that nothing happened, unless the call
\* is one of those that are sent again after an answer was lost.
RefusalsChangedNothing ==
    call.phase = "raised" /\ call.condition # "unavailable" /\ ~call.safe => call.effects = 0

\* An answer that will stay the same ends the call: no plan limit, lost lease,
\* finished job, missing thing or bad request is tried again.
FinalAnswersAreFinal ==
    call.condition \in {"planCap", "leaseLost", "finished", "gone", "invalid"}
        => call.phase = "raised"

\* No caller waits longer between attempts than max_delay and its jitter, whatever
\* a Retry-After says, and none sends more than max_retries + 1 times.
WaitsAreBounded == call.waited <= MaxDelay + MaxDelay \div 4 /\ call.attempt <= MaxRetries + 1

\* A call is tried again only while its answer may change, a bounded number of
\* times and after bounded waits (should_retry, calculate_delay, is_retryable).
RetriesAreBounded == FinalAnswersAreFinal /\ WaitsAreBounded
=============================================================================

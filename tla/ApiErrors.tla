------------------------------ MODULE ApiErrors ------------------------------
(***************************************************************************)
(* How the SDK classifies a failed request: create_error_from_response of  *)
(* errors.py for an HTTP answer, _map_grpc_error of grpc/client.py for a   *)
(* gRPC status.  A body and a text are what the code looks for in them,    *)
(* times are whole seconds.                                                *)
(***************************************************************************)
EXTENDS Naturals

\* The wait a header asks for; RateLimitError waits its default without one.
DefaultRetryAfter == 60
RetryAfterHeaders == {"absent", "garbled", "zero", "long"}
ParsedRetryAfter == [h \in {"zero", "long"} |-> IF h = "zero" THEN 0 ELSE 90]

SpooledErrors ==
    [class : {"none", "Spooled", "Other", "Network", "Timeout", "Server", "RateLimit",
              "QuotaExceeded", "Validation", "Authentication", "Authorization", "NotFound",
              "Conflict", "PayloadTooLarge"},
     status : Nat, code : {"none", "LEASE_EXPIRED", "QUOTA_EXCEEDED"}, hint : Nat]

\* An error of the SDK: hint is its retry_after.
Err(class, status, code) == [class |-> class, status |-> status, code |-> code, hint |-> 0]

RateLimit(header) ==
    [Err("RateLimit", 429, "none") EXCEPT
        !.hint = IF header \in DOMAIN ParsedRetryAfter THEN ParsedRetryAfter[header]
                 ELSE DefaultRetryAfter]
Quota == Err("QuotaExceeded", 429, "QUOTA_EXCEEDED")

\* A request without an answer, and what is raised before or after the request.
NetworkError == Err("Network", 0, "none")
TimeoutError == Err("Timeout", 0, "none")
OtherException == Err("Other", 0, "none")

IsRetryable(e) ==
    e.class \in {"RateLimit", "Server", "Network", "Timeout"} \/ e.status = 408

IsLeaseExpired(e) == e.class = "Conflict" /\ e.code = "LEASE_EXPIRED"

-----------------------------------------------------------------------------
(* HTTP *)

Response(status, code, body, header) ==
    [status |-> status, code |-> code, body |-> body, retryAfter |-> header]

\* Slip: only the code tells a plan limit.
QuotaByCode(r) == r.code = "QUOTA_EXCEEDED"

IsQuotaResponse(r) ==
    \/ r.code = "QUOTA_EXCEEDED"
    \/ r.retryAfter = "absent" /\ r.body \in {"limit_exceeded", "resource_limit_plan"}

ClassOfStatus ==
    [s \in {400, 401, 403, 404, 409, 413, 422} |->
        CASE s \in {400, 422} -> "Validation"  [] s = 401 -> "Authentication"
          [] s = 403 -> "Authorization"        [] s = 404 -> "NotFound"
          [] s = 409 -> "Conflict"             [] s = 413 -> "PayloadTooLarge"]

ErrorFromResponse(r) ==
    CASE r.status = 429 -> IF IsQuotaResponse(r) THEN Quota ELSE RateLimit(r.retryAfter)
      [] r.status \in DOMAIN ClassOfStatus -> Err(ClassOfStatus[r.status], r.status, r.code)
      [] r.status \in 500 .. 599 -> Err("Server", r.status, r.code)
      [] OTHER -> Err("Spooled", r.status, r.code)

-----------------------------------------------------------------------------
(* gRPC *)

Status(code, text, trailer) == [code |-> code, text |-> text, retryAfter |-> trailer]

\* _is_grpc_lease_lost: the two texts a unary call answers, without a code.
IsGrpcLeaseLost(text) == text \in {"lease_expired", "lease_mismatch"}

ClassOfCode ==
    [UNAUTHENTICATED |-> Err("Authentication", 401, "none"),
     PERMISSION_DENIED |-> Err("Authorization", 403, "none"),
     NOT_FOUND |-> Err("NotFound", 404, "none"),
     INVALID_ARGUMENT |-> Err("Validation", 400, "none"),
     ABORTED |-> Err("Conflict", 409, "none"),
     ALREADY_EXISTS |-> Err("Conflict", 409, "none"),
     DEADLINE_EXCEEDED |-> TimeoutError,
     UNAVAILABLE |-> NetworkError]

\* Slip: a failed precondition is a conflict like the others.
ErrorFromGrpcPlain(g) ==
    CASE g.code \in DOMAIN ClassOfCode -> ClassOfCode[g.code]
      [] g.code = "FAILED_PRECONDITION" -> Err("Conflict", 409, "none")
      [] g.code = "RESOURCE_EXHAUSTED" ->
            IF g.text = "limit_reached" THEN Quota ELSE RateLimit(g.retryAfter)
      [] OTHER -> Err("Server", 500, "none")

ErrorFromGrpc(g) ==
    CASE g.code \in DOMAIN ClassOfCode -> ClassOfCode[g.code]
      [] g.code = "FAILED_PRECONDITION" ->
            Err("Conflict", 409, IF IsGrpcLeaseLost(g.text) THEN "LEASE_EXPIRED" ELSE "none")
      [] g.code = "RESOURCE_EXHAUSTED" ->
            IF g.retryAfter \notin DOMAIN ParsedRetryAfter /\ g.text = "limit_reached"
            THEN Quota ELSE RateLimit(g.retryAfter)
      [] OTHER -> Err("Server", 500, "none")
=============================================================================

----------------------------- MODULE ManagementApi -----------------------------
(***************************************************************************)
(* The calls that manage the things of an account: the resources of        *)
(* spooled/resources other than jobs, over REST, and GrpcWorkersService    *)
(* over gRPC.  The caller works on one thing, which another administrator  *)
(* changes and removes too.  Reads change nothing and are left out.        *)
(*                                                                         *)
(* The server is external: a POST that makes something makes one more each *)
(* time, what is written or removed twice is as after once.                *)
(***************************************************************************)
EXTENDS ApiCalls

VARIABLE thing      \* "ours" or "theirs", by who wrote it last, or "removed"

managementVars == <<thing, call>>

-----------------------------------------------------------------------------
(* The methods: their verb, and what the server does *)

Makes == [rest |-> Rest("POST", FALSE), effect |-> "makes"]
Post == [rest |-> Rest("POST", FALSE), effect |-> "writes"]
Put == [rest |-> Rest("PUT", FALSE), effect |-> "writes"]
Patch == [rest |-> Rest("PATCH", FALSE), effect |-> "writes"]
Removes == [rest |-> Rest("DELETE", FALSE), effect |-> "removes"]

WorkerCalls ==
    [register |-> Makes, heartbeat |-> [rest |-> Rest("POST", TRUE), effect |-> "refreshes"],
     deregister |-> [Post EXCEPT !.effect = "removes"]]

WorkflowCalls == [create |-> Makes, cancel |-> Post, retry |-> Makes, add_dependencies |-> Post]

ScheduleCalls ==
    [create |-> Makes, update |-> Put, delete |-> Removes, pause |-> Post, resume |-> Post,
     trigger |-> Makes]

WebhookCalls ==
    [create |-> Makes, update |-> Put, delete |-> Removes, test |-> Makes,
     retry_delivery |-> Makes]

ApiKeyCalls == [create |-> Makes, update |-> Put, delete |-> Removes]

QueueCalls == [update_config |-> Put, pause |-> Post, resume |-> Post, delete |-> Removes]

OrganizationCalls ==
    [create |-> Makes, update |-> Put, delete |-> Removes, regenerate_webhook_token |-> Makes]

AdminCalls ==
    [create_organization |-> Makes, update_organization |-> Patch,
     delete_organization |-> Removes, create_api_key |-> Makes, reset_usage |-> Post]

\* login and refresh make tokens, start_email_login a mail, logout removes a session.
AuthCalls ==
    [login |-> Makes, refresh |-> Makes, start_email_login |-> Makes,
     logout |-> [Post EXCEPT !.effect = "removes"]]

\* A job for an incoming webhook, with its idempotency_key or without.
IngestCalls == [custom |-> Makes]

BillingCalls == [create_portal |-> Makes]

Resources ==
    [workers |-> WorkerCalls, workflows |-> WorkflowCalls, schedules |-> ScheduleCalls,
     webhooks |-> WebhookCalls, api_keys |-> ApiKeyCalls, queues |-> QueueCalls,
     organizations |-> OrganizationCalls, admin |-> AdminCalls, auth |-> AuthCalls,
     ingest |-> IngestCalls, billing |-> BillingCalls]

\* GrpcWorkersService: the same three calls
GrpcWorkerCalls == DOMAIN WorkerCalls

Args(resource, keyed) == [resource |-> resource, keyed |-> keyed]

-----------------------------------------------------------------------------
(* The caller *)

ManagementInit == thing = "theirs" /\ CallInit(Args("workers", FALSE))

Manage(resource, op, transport, keyed) ==
    /\ call.phase # "running"
    /\ transport = "grpc" => resource = "workers" /\ op \in GrpcWorkerCalls
    /\ keyed => resource = "ingest"
    /\ call' = NewCall(op, transport, Resources[resource][op].rest, keyed, Args(resource, keyed))
    /\ UNCHANGED thing

\* What the call under way does at the server.
Effect == Resources[call.args.resource][call.op].effect

Running(effect) == call.phase = "running" /\ Effect = effect

ManagementFails ==
    NotServed(call.phase = "running" /\ Effect = "makes") /\ UNCHANGED thing

-----------------------------------------------------------------------------
(* The server *)

\* With a key, once is enough.
Make ==
    /\ Running("makes")
    /\ Answered(IF call.args.keyed /\ call.effects > 0 THEN 0 ELSE 1)
    /\ UNCHANGED thing

Write ==
    /\ Running("writes") /\ thing # "removed"
    /\ thing' = "ours"
    /\ Answered(IF thing = "ours" /\ call.effects > 0 THEN 0 ELSE 1)

Refresh == Running("refreshes") /\ thing # "removed" /\ Answered(0) /\ UNCHANGED thing

Remove ==
    /\ Running("removes") /\ thing # "removed"
    /\ thing' = "removed"
    /\ Answered(1)

NotThere ==
    /\ call.phase = "running" /\ Effect # "makes" /\ thing = "removed"
    /\ Refused("gone")
    /\ UNCHANGED thing

\* The other administrator, who may also make it anew: a queue of the same name.
TheyAct ==
    /\ \E to \in {"theirs", "removed"} : thing' = to
    /\ UNCHANGED call

ManagementNext ==
    \/ \E resource \in DOMAIN Resources, transport \in {"rest", "grpc"}, keyed \in BOOLEAN :
          \E op \in DOMAIN Resources[resource] : Manage(resource, op, transport, keyed)
    \/ ManagementFails \/ Make \/ Write \/ Refresh \/ Remove \/ NotThere \/ TheyAct

ManagementSpec == ManagementInit /\ [][ManagementNext]_managementVars

-----------------------------------------------------------------------------
(* Properties *)

ManagementOps == UNION {DOMAIN Resources[resource] : resource \in DOMAIN Resources}

ManagementTypeOK ==
    /\ thing \in {"ours", "theirs", "removed"}
    /\ call \in ApiCall(ManagementOps, [resource : DOMAIN Resources, keyed : BOOLEAN])
=============================================================================

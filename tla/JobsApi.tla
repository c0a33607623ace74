------------------------------- MODULE JobsApi -------------------------------
(***************************************************************************)
(* The calls that move a job: JobsResource and DlqResource of              *)
(* resources/jobs.py over REST, GrpcQueueService of grpc/client.py over    *)
(* gRPC.  One caller makes calls, one after the other; an answer may get   *)
(* lost, and other workers and the scheduler act on the same jobs.         *)
(*                                                                         *)
(* The server is external: an ack carries a lease and acts only while it   *)
(* is the current one of its job, an idempotency key creates one job.      *)
(***************************************************************************)
EXTENDS ApiCalls

CONSTANTS
    Jobs,
    MaxLeases     \* bound: leases the server issues

ASSUME JobsAssumption == Jobs # {} /\ MaxLeases \in Nat

VARIABLES
    status,       \* per job, at the server
    lease,        \* per job: its current lease, 0 for none
    issued,       \* leases the server has issued: 1 .. issued
    known         \* per job: the lease the caller last claimed it with, or 0
serverVars == <<status, lease, issued, known>>
jobsVars == <<serverVars, call>>

-----------------------------------------------------------------------------
(* The calls *)

\* JobsResource and DlqResource; bulk_enqueue is a create without a key.
JobCalls ==
    [create    |-> Rest("POST", FALSE), claim  |-> Rest("POST", FALSE),
     complete  |-> Rest("POST", TRUE),  fail   |-> Rest("POST", TRUE),
     heartbeat |-> Rest("POST", TRUE),  cancel |-> Rest("DELETE", FALSE),
     boost     |-> Rest("PUT", FALSE),  retry  |-> Rest("POST", FALSE),
     purge     |-> Rest("POST", FALSE)]

\* AsyncJobsResource and AsyncDlqResource make the same requests.
AsyncJobCalls == JobCalls

\* GrpcQueueService: enqueue, dequeue, complete, fail, renew_lease
GrpcJobCalls == {"create", "claim", "complete", "fail", "heartbeat"}

Flags == {"unset", "true", "false"}
Acks == {"complete", "fail", "heartbeat"}

\* The arguments of a call: keyed says that a create has an idempotency key,
\* flag is the retry argument of fail, which both protocols leave out when it is unset.
JobArgs(j, l, keyed, flag) ==
    [job |-> j, lease |-> l, keyed |-> keyed, flag |-> flag]

ServerInit ==
    /\ status = [j \in Jobs |-> "absent"] /\ lease = [j \in Jobs |-> 0]
    /\ issued = 0 /\ known = [j \in Jobs |-> 0]

JobsInit == ServerInit /\ CallInit(JobArgs(CHOOSE j \in Jobs : TRUE, 0, FALSE, "unset"))

\* Without a key, the job of a create is the server's choice, and a claim's always.
Call(op, transport, j, keyed, flag) ==
    /\ call.phase # "running"
    /\ transport = "grpc" => op \in GrpcJobCalls
    /\ op \in Acks => known[j] # 0
    /\ keyed => op = "create"
    /\ flag # "unset" => op = "fail" /\ transport = "grpc"
    /\ call' = NewCall(op, transport, JobCalls[op], keyed,
                       JobArgs(j, IF op \in Acks THEN known[j] ELSE 0, keyed, flag))
    /\ UNCHANGED serverVars

JobCallFails == NotServed(call.op = "create") /\ UNCHANGED serverVars

-----------------------------------------------------------------------------
(* The server acts *)

Create ==
    /\ Serves("create")
    /\ \/ /\ call.args.keyed /\ status[call.args.job] # "absent"
          /\ Answered(0) /\ UNCHANGED status
       \/ \E j \in Jobs :
             /\ status[j] = "absent" /\ (call.args.keyed => j = call.args.job)
             /\ status' = [status EXCEPT ![j] = "pending"]
             /\ Answered(1)
    /\ UNCHANGED <<lease, issued, known>>

\* The caller learns the lease if the answer arrives.
Claim ==
    /\ Serves("claim")
    /\ \/ \E j \in Jobs :
             /\ status[j] = "pending" /\ issued < MaxLeases
             /\ status' = [status EXCEPT ![j] = "processing"]
             /\ lease' = [lease EXCEPT ![j] = issued + 1]
             /\ issued' = issued + 1
             /\ Answered(1)
             /\ known' = IF call'.phase = "returned" THEN [known EXCEPT ![j] = issued + 1]
                         ELSE known
       \/ /\ \A j \in Jobs : status[j] # "pending"
          /\ Answered(0) /\ UNCHANGED serverVars

HoldsLease == status[call.args.job] = "processing" /\ lease[call.args.job] = call.args.lease

AckRefused ==
    /\ call.phase = "running" /\ call.op \in Acks /\ ~HoldsLease
    /\ Refused(IF status[call.args.job] \in {"pending", "processing"} THEN "leaseLost"
               ELSE "finished")
    /\ UNCHANGED serverVars

MoveJob(to) ==
    /\ status' = [status EXCEPT ![call.args.job] = to]
    /\ lease' = [lease EXCEPT ![call.args.job] = 0]
    /\ Answered(1)
    /\ UNCHANGED <<issued, known>>

Complete == Serves("complete") /\ HoldsLease /\ MoveJob("completed")

\* retry = false dead-letters the job now, else it is retried while it may be.
Fail ==
    /\ Serves("fail") /\ HoldsLease
    /\ \E to \in IF call.args.flag = "false" THEN {"deadletter"} ELSE {"pending", "deadletter"} :
           MoveJob(to)

\* Once more does no harm, so it is not counted as an effect.
Heartbeat == Serves("heartbeat") /\ HoldsLease /\ Answered(0)
             /\ UNCHANGED serverVars

\* cancel, retry and dlq.purge move a job in one state, and are refused in others.
Manages(op, from, to) ==
    /\ Serves(op)
    /\ \/ status[call.args.job] = from /\ MoveJob(to)
       \/ status[call.args.job] # from /\ Refused("finished")
          /\ UNCHANGED serverVars

\* boost_priority: the priority is left out.
Boost ==
    /\ Serves("boost")
    /\ IF status[call.args.job] = "pending" THEN Answered(0) ELSE Refused("finished")
    /\ UNCHANGED serverVars

Managed ==
    \/ Boost
    \/ Manages("cancel", "pending", "cancelled")
    \/ Manages("retry", "deadletter", "pending")
    \/ Manages("purge", "deadletter", "purged")

-----------------------------------------------------------------------------
(* The scheduler and other workers *)

LeaseExpires(j) ==
    /\ status[j] = "processing"
    /\ status' = [status EXCEPT ![j] = "pending"]
    /\ lease' = [lease EXCEPT ![j] = 0]
    /\ UNCHANGED <<issued, known, call>>

OtherClaims(j) ==
    /\ status[j] = "pending" /\ issued < MaxLeases
    /\ status' = [status EXCEPT ![j] = "processing"]
    /\ lease' = [lease EXCEPT ![j] = issued + 1]
    /\ issued' = issued + 1
    /\ UNCHANGED <<known, call>>

OtherFinishes(j) ==
    /\ status[j] = "processing" /\ lease[j] # known[j]
    /\ \E to \in {"completed", "deadletter"} : status' = [status EXCEPT ![j] = to]
    /\ lease' = [lease EXCEPT ![j] = 0]
    /\ UNCHANGED <<issued, known, call>>

Served == Create \/ Claim \/ AckRefused \/ Complete \/ Fail \/ Heartbeat \/ Managed

JobsNext ==
    \/ \E op \in DOMAIN JobCalls, transport \in {"rest", "grpc"}, j \in Jobs,
          keyed \in BOOLEAN, flag \in Flags :
              Call(op, transport, j, keyed, flag)
    \/ JobCallFails \/ Served
    \/ \E j \in Jobs : LeaseExpires(j) \/ OtherClaims(j) \/ OtherFinishes(j)

JobsSpec == JobsInit /\ [][JobsNext]_jobsVars

-----------------------------------------------------------------------------
(* Properties *)

Statuses == {"absent", "pending", "processing", "completed", "deadletter", "cancelled", "purged"}
JobsTypeOK ==
    /\ status \in [Jobs -> Statuses]
    /\ issued \in 0 .. MaxLeases
    /\ lease \in [Jobs -> 0 .. issued] /\ known \in [Jobs -> 0 .. issued]
    /\ call \in ApiCall(DOMAIN JobCalls, [job : Jobs, lease : 0 .. issued, keyed : BOOLEAN,
                                          flag : Flags])

\* A caller is told that the lease is lost exactly when it is, over both protocols,
\* and never of a job that its own complete has finished.
LeaseLossIsTold ==
    call.phase = "raised" =>
        /\ IsLeaseExpired(call.error) <=> call.condition = "leaseLost"
        /\ call.op = "complete" /\ IsLeaseExpired(call.error) => call.effects = 0
=============================================================================

-------------------------- MODULE AsyncSpooledWorker --------------------------
(***************************************************************************)
(* The asynchronous worker, spooled/worker/async_worker.py, against the    *)
(* queue server of JobLeases.                                              *)
(*                                                                         *)
(* Everything runs on one event loop, so an action is the code between two *)
(* awaits.  self._active_jobs_lock is never held across an await that      *)
(* suspends: acquiring it does not suspend either, and the code from the   *)
(* claim of a settlement to the request leaving is one action.             *)
(* Tasks: start() with its polls, stop(), one task per execution, one per  *)
(* job heartbeat, the worker heartbeat.  Task.cancel() only leaves a       *)
(* request: the task finds CancelledError at its await when it runs next.  *)
(***************************************************************************)
EXTENDS JobLeases

CONSTANTS
    Concurrency    \* options.concurrency

ASSUME ConcurrencyAssumption == Concurrency \in Nat \ {0}

VARIABLES
    timedJobs,       \* jobs with timeout_seconds: their handler is a task of its own
    wstate,          \* self._state
    mainPc,          \* where the task in start() is
    stopPc,          \* where the task in stop() is
    stopTodo,        \* executions stop() has still to abandon
    abandoning,      \* the one _abandon_job is busy with, if any
    deadlinePassed,  \* shutdown_timeout ran out since stop()
    intakeClosed,    \* self._intake_closed
    workerId,        \* self._worker_id is set
    limit,           \* limit of the claim in flight, 0 when there is none
    workerHeartbeat, \* the task of _worker_heartbeat_loop
    active,          \* self._active_jobs: job -> lease number, or NoSlot
    phase,           \* per execution: its path from claim to cleanup
    cancelled,       \* its task was asked to cancel and has not run since
    reason,          \* ActiveJob.cancel_reason is set
    settled,         \* ActiveJob.settled
    leaseLost,       \* ActiveJob.lease_lost
    ack,             \* per execution and task: progress of its ack
    heartbeat        \* the task of _job_heartbeat_loop

stopVars == <<stopPc, stopTodo, abandoning, deadlinePassed>>
ctlVars  == <<timedJobs, wstate, mainPc, stopVars, intakeClosed, workerId, limit, workerHeartbeat>>
flagVars == <<reason, settled, leaseLost>>
execVars == <<active, phase, cancelled, flagVars, ack, heartbeat>>
vars == <<leaseVars, ctlVars, execVars>>

MainPcs == {"none", "registering", "idle", "claiming", "deliver", "awaitStop", "returned", "failed"}
StopPcs == {"none", "waitClaim", "drain", "grace", "abandon", "heartbeat", "deregister", "done"}
Phases  == {"unclaimed", "lost", "received", "releasing", "released",
            "created", "running", "acking", "cleanup", "finished", "dropping", "dropped"}

\* The tasks that may ack an execution.
Callers == {"process", "stop"}

\* "cut": the task was cancelled at the await of the request.
AckPcs == {"none", "sent", "landed", "cut", "done"}

\* "asked": cancel() was called on the task and it has not run since.
Heartbeats == {"off", "asleep", "sent", "asked"}

NoSlot == 0

TypeOK ==
    /\ LeaseTypeOK
    /\ timedJobs \in SUBSET Jobs
    /\ wstate \in {"idle", "starting", "running", "stopping", "stopped", "error"}
    /\ mainPc \in MainPcs /\ stopPc \in StopPcs /\ stopTodo \in SUBSET Execs
    /\ abandoning \in SUBSET Execs
    /\ deadlinePassed \in BOOLEAN /\ intakeClosed \in BOOLEAN /\ workerId \in BOOLEAN
    /\ limit \in 0 .. Concurrency
    /\ workerHeartbeat \in Heartbeats
    /\ active \in [Jobs -> 0 .. MaxAttempts]
    /\ phase \in [Execs -> Phases]
    /\ cancelled \in [Execs -> BOOLEAN] /\ reason \in [Execs -> BOOLEAN]
    /\ settled \in [Execs -> BOOLEAN] /\ leaseLost \in [Execs -> BOOLEAN]
    /\ ack \in [Execs -> [Callers -> AckPcs]]
    /\ heartbeat \in [Execs -> Heartbeats]

Init ==
    /\ LeaseInit
    /\ timedJobs \in SUBSET Jobs
    /\ wstate = "idle" /\ mainPc = "none"
    /\ stopPc = "none" /\ stopTodo = {} /\ abandoning = {} /\ deadlinePassed = FALSE
    /\ intakeClosed = FALSE /\ workerId = FALSE /\ limit = 0
    /\ workerHeartbeat = "off"
    /\ active = [j \in Jobs |-> NoSlot]
    /\ phase = [x \in Execs |-> "unclaimed"]
    /\ cancelled = [x \in Execs |-> FALSE] /\ reason = [x \in Execs |-> FALSE]
    /\ settled = [x \in Execs |-> FALSE] /\ leaseLost = [x \in Execs |-> FALSE]
    /\ ack = [x \in Execs |-> [c \in Callers |-> "none"]]
    /\ heartbeat = [x \in Execs |-> "off"]

-----------------------------------------------------------------------------
(* Shared state *)

\* self._active_jobs.get(job.id) is active
Owns(x) == active[x[1]] = x[2]

Slots == {x \in Execs : Owns(x)}

\* Executions with a task that is not done.
TaskAlive(x) == phase[x] \in {"created", "running", "acking", "cleanup", "dropping"}

\* _release_unstarted_job: the id stays known after stop() cleared _worker_id.
Registered == mainPc \notin {"none", "registering", "failed"}

\* Slip: no check that the execution was settled already.
CanSettleAgain(x) == ~leaseLost[x] /\ Owns(x) /\ workerId

CanSettle(x) == ~leaseLost[x] /\ ~settled[x] /\ Owns(x) /\ workerId

\* The settlement is claimed and the complete or fail leaves.
SendAck(x, c) ==
    /\ CanSettle(x)
    /\ settled' = [settled EXCEPT ![x] = TRUE]
    /\ ack' = [ack EXCEPT ![x][c] = "sent"]

\* _cleanup_job, up to its await of the heartbeat task.
FreeSlot(x) ==
    /\ active' = IF Owns(x) THEN [active EXCEPT ![x[1]] = NoSlot] ELSE active
    /\ heartbeat' = [heartbeat EXCEPT ![x] = IF @ = "off" THEN "off" ELSE "asked"]

-----------------------------------------------------------------------------
(* start() and its polls *)

StartCall ==
    /\ wstate = "idle"
    /\ wstate' = "starting" /\ mainPc' = "registering"
    /\ UNCHANGED <<leaseVars, timedJobs, stopVars, intakeClosed, workerId, limit, workerHeartbeat, execVars>>

RegisterReturns ==
    /\ mainPc = "registering"
    /\ workerId' = TRUE /\ workerHeartbeat' = "asleep"
    /\ wstate' = "running" /\ mainPc' = "idle"
    /\ UNCHANGED <<leaseVars, timedJobs, stopVars, intakeClosed, limit, execVars>>

RegisterFails ==
    /\ mainPc = "registering"
    /\ wstate' = "error" /\ mainPc' = "failed"
    /\ UNCHANGED <<leaseVars, timedJobs, stopVars, intakeClosed, workerId, limit, workerHeartbeat, execVars>>

\* Slip: the slots in use are not subtracted.
PollForAll ==
    /\ mainPc = "idle" /\ wstate = "running" /\ workerId
    /\ Cardinality(Slots) < Concurrency
    /\ limit' = Concurrency
    /\ mainPc' = "claiming"
    /\ UNCHANGED <<leaseVars, timedJobs, wstate, stopVars, intakeClosed, workerId, workerHeartbeat, execVars>>

\* A poll with a free slot publishes its future and sends the claim.
PollStart ==
    /\ mainPc = "idle" /\ wstate = "running" /\ workerId
    /\ Cardinality(Slots) < Concurrency
    /\ limit' = Concurrency - Cardinality(Slots)
    /\ mainPc' = "claiming"
    /\ UNCHANGED <<leaseVars, timedJobs, wstate, stopVars, intakeClosed, workerId, workerHeartbeat, execVars>>

\* The server leases the jobs of S and answers.
ClaimReturns(S) ==
    /\ mainPc = "claiming" /\ Cardinality(S) <= limit
    /\ GrantLeases(S)
    /\ phase' = [x \in Execs |-> IF x \in NewLeases(S) THEN "received" ELSE phase[x]]
    /\ mainPc' = "deliver"
    /\ UNCHANGED <<timedJobs, wstate, stopVars, intakeClosed, workerId, limit, workerHeartbeat,
                   active, cancelled, flagVars, ack, heartbeat>>

\* The claim raises, also after the server granted it: the jobs are unknown.
ClaimFails(S) ==
    /\ mainPc = "claiming" /\ Cardinality(S) <= limit
    /\ GrantLeases(S)
    /\ phase' = [x \in Execs |-> IF x \in NewLeases(S) THEN "lost" ELSE phase[x]]
    /\ mainPc' = "idle" /\ limit' = 0
    /\ UNCHANGED <<timedJobs, wstate, stopVars, intakeClosed, workerId, workerHeartbeat,
                   active, cancelled, flagVars, ack, heartbeat>>

Received == {x \in Execs : phase[x] = "received"}

\* With the intake open, all jobs of the answer get their slots and tasks in
\* one step, over any slot an earlier execution of the job holds.
StartJobs ==
    /\ mainPc = "deliver" /\ ~intakeClosed
    /\ active' = [j \in Jobs |-> IF \E x \in Received : x[1] = j
                                 THEN (CHOOSE x \in Received : x[1] = j)[2] ELSE active[j]]
    /\ phase' = [x \in Execs |-> IF x \in Received THEN "created" ELSE phase[x]]
    /\ mainPc' = "idle" /\ limit' = 0
    /\ UNCHANGED <<leaseVars, timedJobs, wstate, stopVars, intakeClosed, workerId, workerHeartbeat,
                   cancelled, flagVars, ack, heartbeat>>

\* With the intake closed, they are failed one by one.
ReleaseJob(x) ==
    /\ mainPc = "deliver" /\ intakeClosed /\ phase[x] = "received" /\ Registered
    /\ \A y \in Execs : phase[y] # "releasing"
    /\ phase' = [phase EXCEPT ![x] = "releasing"]
    /\ UNCHANGED <<leaseVars, ctlVars, active, cancelled, flagVars, ack, heartbeat>>

\* The fail is accepted, refused or lost; either way the next job follows.
ReleaseReturns(x) ==
    /\ phase[x] = "releasing"
    /\ AcceptAck(x) \/ UNCHANGED leaseVars
    /\ phase' = [phase EXCEPT ![x] = "released"]
    /\ UNCHANGED <<ctlVars, active, cancelled, flagVars, ack, heartbeat>>

PollEnds ==
    /\ mainPc = "deliver" /\ intakeClosed
    /\ \A x \in Execs : phase[x] \notin {"received", "releasing"}
    /\ mainPc' = "idle" /\ limit' = 0
    /\ UNCHANGED <<leaseVars, timedJobs, wstate, stopVars, intakeClosed, workerId, workerHeartbeat, execVars>>

LeaveLoop ==
    /\ mainPc = "idle" /\ wstate # "running"
    /\ mainPc' = IF wstate = "stopping" THEN "awaitStop" ELSE "returned"
    /\ UNCHANGED <<leaseVars, timedJobs, wstate, stopVars, intakeClosed, workerId, limit, workerHeartbeat,
                   execVars>>

StartReturns ==
    /\ mainPc = "awaitStop" /\ stopPc = "done"
    /\ mainPc' = "returned"
    /\ UNCHANGED <<leaseVars, timedJobs, wstate, stopVars, intakeClosed, workerId, limit, workerHeartbeat,
                   execVars>>

-----------------------------------------------------------------------------
(* The task of an execution: _process_job and _execute_handler *)

TaskStarts(x) ==
    /\ phase[x] = "created" /\ ~cancelled[x]
    /\ phase' = [phase EXCEPT ![x] = "running"]
    /\ heartbeat' = [heartbeat EXCEPT ![x] = "asleep"]
    /\ UNCHANGED <<leaseVars, ctlVars, active, cancelled, flagVars, ack>>

\* Cancelled before its first step, a coroutine never runs: no cleanup either.
TaskNeverStarts(x) ==
    /\ phase[x] = "created" /\ cancelled[x]
    /\ phase' = [phase EXCEPT ![x] = "finished"]
    /\ cancelled' = [cancelled EXCEPT ![x] = FALSE]
    /\ UNCHANGED <<leaseVars, ctlVars, active, flagVars, ack, heartbeat>>

\* _complete_job or _fail_job, and the cleanup at once when nothing is sent.
ReportEnd(x) ==
    \/ /\ SendAck(x, "process")
       /\ phase' = [phase EXCEPT ![x] = "acking"]
       /\ UNCHANGED <<active, heartbeat>>
    \/ /\ ~CanSettle(x)
       /\ FreeSlot(x)
       /\ phase' = [phase EXCEPT ![x] = "cleanup"]
       /\ UNCHANGED <<settled, ack>>

\* The handler returned or raised.
HandlerReturns(x) ==
    /\ phase[x] = "running" /\ ~cancelled[x]
    /\ ReportEnd(x)
    /\ UNCHANGED <<leaseVars, ctlVars, cancelled, reason, leaseLost>>

\* timeout_seconds elapsed: the handler's task is cancelled and left alone.
JobTimesOut(x) ==
    /\ phase[x] = "running" /\ ~cancelled[x] /\ x[1] \in timedJobs
    /\ ReportEnd(x)
    /\ UNCHANGED <<leaseVars, ctlVars, cancelled, reason, leaseLost>>

\* CancelledError leaves the handler: stop()'s is reported with its reason, one
\* for a lost lease is not, and without a reason it is passed on unreported.
Unwind(x) ==
    \/ /\ reason[x] /\ ~leaseLost[x]
       /\ ReportEnd(x)
    \/ /\ ~reason[x] \/ leaseLost[x]
       /\ FreeSlot(x)
       /\ phase' = [phase EXCEPT ![x] = IF leaseLost[x] THEN "cleanup" ELSE "dropping"]
       /\ UNCHANGED <<settled, ack>>

CancelReachesHandler(x) ==
    /\ phase[x] = "running" /\ cancelled[x]
    /\ cancelled' = [cancelled EXCEPT ![x] = FALSE]
    /\ Unwind(x)
    /\ UNCHANGED <<leaseVars, ctlVars, reason, leaseLost>>

\* A handler awaited directly may catch CancelledError and end another way...
HandlerCatchesCancel(x) ==
    /\ phase[x] = "running" /\ cancelled[x] /\ x[1] \notin timedJobs
    /\ cancelled' = [cancelled EXCEPT ![x] = FALSE]
    /\ ReportEnd(x)
    /\ UNCHANGED <<leaseVars, ctlVars, reason, leaseLost>>

\* ... or go on as if nothing had happened.
HandlerSwallowsCancel(x) ==
    /\ phase[x] = "running" /\ cancelled[x] /\ x[1] \notin timedJobs
    /\ cancelled' = [cancelled EXCEPT ![x] = FALSE]
    /\ UNCHANGED <<leaseVars, ctlVars, active, phase, flagVars, ack, heartbeat>>

\* A handler that awaited something cancelled lets that CancelledError out.
HandlerCancelsItself(x) ==
    /\ phase[x] = "running" /\ ~cancelled[x]
    /\ Unwind(x)
    /\ UNCHANGED <<leaseVars, ctlVars, cancelled, reason, leaseLost>>

\* The heartbeat task is through, and so is _cleanup_job, which swallows a
\* CancelledError of either task.
CleanupEnds(x) ==
    /\ phase[x] \in {"cleanup", "dropping"} /\ (heartbeat[x] = "off" \/ cancelled[x])
    /\ phase' = [phase EXCEPT ![x] = IF @ = "cleanup" THEN "finished" ELSE "dropped"]
    /\ cancelled' = [cancelled EXCEPT ![x] = FALSE]
    /\ UNCHANGED <<leaseVars, ctlVars, active, flagVars, ack, heartbeat>>

-----------------------------------------------------------------------------
(* complete and fail on the wire; heartbeats *)

AckLands(x, c) ==
    /\ ack[x][c] = "sent" /\ AcceptAck(x)
    /\ ack' = [ack EXCEPT ![x][c] = "landed"]
    /\ UNCHANGED <<ctlVars, active, phase, cancelled, flagVars, heartbeat>>

\* The caller of the ack goes on to its cleanup.
AckEnds(x, c, end) ==
    /\ ack' = [ack EXCEPT ![x][c] = end]
    /\ active' = IF Owns(x) THEN [active EXCEPT ![x[1]] = NoSlot] ELSE active
    /\ phase' = IF c = "process" THEN [phase EXCEPT ![x] = "cleanup"] ELSE phase

\* An answer comes, a replay's 409 "already completed" included, or the client
\* gives up on a request that landed or was lost.
AckAnswered(x, c) ==
    /\ ack[x][c] \in {"sent", "landed"} /\ (c = "process" => ~cancelled[x])
    /\ AckEnds(x, c, "done")
    /\ heartbeat' = [heartbeat EXCEPT ![x] = IF @ = "off" THEN "off" ELSE "asked"]
    /\ UNCHANGED <<leaseVars, ctlVars, cancelled, flagVars>>

\* 409 LEASE_EXPIRED, also of the replay of a request that had landed; then _lose_lease:
\* every other task of the execution is cancelled.
AckRejected(x, c) ==
    /\ ack[x][c] \in {"sent", "landed"} /\ ~Live(x) /\ (c = "process" => ~cancelled[x])
    /\ AckEnds(x, c, "done")
    /\ leaseLost' = [leaseLost EXCEPT ![x] = TRUE]
    /\ heartbeat' = [heartbeat EXCEPT ![x] = IF @ = "off" THEN "off" ELSE "asked"]
    /\ cancelled' = [cancelled EXCEPT ![x] = @ \/ (c = "stop" /\ TaskAlive(x) /\ ~leaseLost[x])]
    /\ UNCHANGED <<leaseVars, ctlVars, reason, settled>>

\* The task is cancelled at the await of its ack; settled stays claimed.
AckCut(x) ==
    /\ phase[x] = "acking" /\ cancelled[x]
    /\ cancelled' = [cancelled EXCEPT ![x] = FALSE]
    /\ AckEnds(x, "process", "cut")
    /\ heartbeat' = [heartbeat EXCEPT ![x] = IF @ = "off" THEN "off" ELSE "asked"]
    /\ UNCHANGED <<leaseVars, ctlVars, flagVars>>

HeartbeatWakes(x) ==
    /\ heartbeat[x] = "asleep"
    /\ heartbeat' = [heartbeat EXCEPT
                       ![x] = IF leaseLost[x] \/ settled[x] \/ ~Owns(x) \/ ~workerId
                              THEN "off" ELSE "sent"]
    /\ UNCHANGED <<leaseVars, ctlVars, active, phase, cancelled, flagVars, ack>>

\* Renewed, or failed for a reason that says nothing of the lease.
HeartbeatAnswered(x) ==
    /\ heartbeat[x] = "sent"
    /\ heartbeat' = [heartbeat EXCEPT ![x] = "asleep"]
    /\ UNCHANGED <<leaseVars, ctlVars, active, phase, cancelled, flagVars, ack>>

\* 409 LEASE_EXPIRED: _lose_lease cancels the task wherever it is.
HeartbeatRejected(x) ==
    /\ heartbeat[x] = "sent" /\ ~Live(x)
    /\ heartbeat' = [heartbeat EXCEPT ![x] = "off"]
    /\ leaseLost' = [leaseLost EXCEPT ![x] = TRUE]
    /\ cancelled' = [cancelled EXCEPT ![x] = @ \/ (TaskAlive(x) /\ ~leaseLost[x])]
    /\ UNCHANGED <<leaseVars, ctlVars, active, phase, reason, settled, ack>>

HeartbeatCancelled(x) ==
    /\ heartbeat[x] = "asked"
    /\ heartbeat' = [heartbeat EXCEPT ![x] = "off"]
    /\ UNCHANGED <<leaseVars, ctlVars, active, phase, cancelled, flagVars, ack>>

-----------------------------------------------------------------------------
(* stop() *)

\* In any state but running, a call returns at once.
StopCall ==
    /\ wstate = "running" /\ stopPc = "none"
    /\ wstate' = "stopping"
    /\ stopPc' = IF limit > 0 THEN "waitClaim" ELSE "drain"
    /\ UNCHANGED <<leaseVars, timedJobs, mainPc, stopTodo, abandoning, deadlinePassed, intakeClosed, workerId, limit,
                   workerHeartbeat, execVars>>

DeadlinePasses ==
    /\ stopPc \in {"waitClaim", "drain"} /\ ~deadlinePassed
    /\ deadlinePassed' = TRUE
    /\ UNCHANGED <<leaseVars, timedJobs, wstate, mainPc, stopPc, stopTodo, abandoning, intakeClosed, workerId, limit,
                   workerHeartbeat, execVars>>

StopWaitsForClaim ==
    /\ stopPc = "waitClaim"
    /\ limit = 0 \/ deadlinePassed
    /\ stopPc' = "drain"
    /\ UNCHANGED <<leaseVars, timedJobs, wstate, mainPc, stopTodo, abandoning, deadlinePassed, intakeClosed, workerId,
                   limit, workerHeartbeat, execVars>>

\* Slip: the wait for the tasks has no deadline.
DrainUnbounded == \A x \in Execs : ~TaskAlive(x)

DrainOver == deadlinePassed \/ \A x \in Execs : ~TaskAlive(x)

\* Slip: a task in the middle of its ack is cancelled as well.
ToCancelMidAck == {x \in Slots : TaskAlive(x)}

\* The tasks to cancel: a settled one is left to finish its ack.
ToCancel == {x \in Slots : TaskAlive(x) /\ ~settled[x]}

\* The step that sees the end of the wait closes the intake, names the reason
\* to all that hold a slot and cancels those that have not settled.
StopDrain ==
    /\ stopPc = "drain" /\ DrainOver
    /\ intakeClosed' = TRUE
    /\ reason' = [x \in Execs |-> reason[x] \/ x \in Slots]
    /\ cancelled' = [x \in Execs |-> cancelled[x] \/ x \in ToCancel]
    /\ stopPc' = "grace"
    /\ UNCHANGED <<leaseVars, timedJobs, wstate, mainPc, stopTodo, abandoning, deadlinePassed, workerId, limit,
                   workerHeartbeat, active, phase, settled, leaseLost, ack, heartbeat>>

\* All tasks are done or ACK_GRACE_SECONDS are over, at any time therefore.
\* What still has a slot is abandoned, one after the other.
StopGrace ==
    /\ stopPc = "grace"
    /\ stopTodo' = Slots
    /\ stopPc' = "abandon"
    /\ UNCHANGED <<leaseVars, timedJobs, wstate, mainPc, abandoning, deadlinePassed, intakeClosed, workerId, limit,
                   workerHeartbeat, execVars>>

\* Slip: only the slot is freed.
AbandonUnreported(x) ==
    /\ stopPc = "abandon" /\ abandoning = {} /\ x \in stopTodo
    /\ stopTodo' = stopTodo \ {x} /\ abandoning' = {x}
    /\ FreeSlot(x)
    /\ UNCHANGED <<leaseVars, timedJobs, wstate, mainPc, stopPc, deadlinePassed, intakeClosed, workerId,
                   limit, workerHeartbeat, phase, cancelled, flagVars, ack>>

\* Slip: an execution that cannot be acked keeps its slot.
AbandonIfUnsettled(x) ==
    /\ stopPc = "abandon" /\ abandoning = {} /\ x \in stopTodo
    /\ stopTodo' = stopTodo \ {x} /\ abandoning' = {x}
    /\ \/ SendAck(x, "stop") /\ UNCHANGED <<active, heartbeat>>
       \/ ~CanSettle(x) /\ UNCHANGED <<active, heartbeat, settled, ack>>
    /\ UNCHANGED <<leaseVars, timedJobs, wstate, mainPc, stopPc, deadlinePassed, intakeClosed, workerId,
                   limit, workerHeartbeat, phase, cancelled, reason, leaseLost>>

StopAbandons(x) ==
    /\ stopPc = "abandon" /\ abandoning = {} /\ x \in stopTodo
    /\ stopTodo' = stopTodo \ {x} /\ abandoning' = {x}
    /\ \/ SendAck(x, "stop") /\ UNCHANGED <<active, heartbeat>>
       \/ ~CanSettle(x) /\ FreeSlot(x) /\ UNCHANGED <<settled, ack>>
    /\ UNCHANGED <<leaseVars, timedJobs, wstate, mainPc, stopPc, deadlinePassed, intakeClosed, workerId,
                   limit, workerHeartbeat, phase, cancelled, reason, leaseLost>>

\* _abandon_job has its ack answered and the heartbeat task seen out.
StopAbandonsNext ==
    /\ \E x \in abandoning : ack[x]["stop"] \notin {"sent", "landed"} /\ heartbeat[x] = "off"
    /\ abandoning' = {}
    /\ UNCHANGED <<leaseVars, timedJobs, wstate, mainPc, stopPc, stopTodo, deadlinePassed, intakeClosed,
                   workerId, limit, workerHeartbeat, execVars>>

\* Every abandoned job is through; the worker heartbeat is cancelled.
StopAbandoned ==
    /\ stopPc = "abandon" /\ stopTodo = {} /\ abandoning = {}
    /\ stopPc' = "heartbeat"
    /\ workerHeartbeat' = IF workerHeartbeat = "off" THEN "off" ELSE "asked"
    /\ UNCHANGED <<leaseVars, timedJobs, wstate, mainPc, stopTodo, abandoning, deadlinePassed, intakeClosed, workerId,
                   limit, execVars>>

\* Its task is awaited, then the deregistration leaves.
StopDeregisters ==
    /\ stopPc = "heartbeat" /\ workerHeartbeat = "off"
    /\ stopPc' = "deregister"
    /\ UNCHANGED <<leaseVars, timedJobs, wstate, mainPc, stopTodo, abandoning, deadlinePassed, intakeClosed, workerId,
                   limit, workerHeartbeat, execVars>>

\* It answers or fails.
StopEnds ==
    /\ stopPc = "deregister"
    /\ wstate' = "stopped" /\ workerId' = FALSE /\ stopPc' = "done"
    /\ UNCHANGED <<leaseVars, timedJobs, mainPc, stopTodo, abandoning, deadlinePassed, intakeClosed, limit,
                   workerHeartbeat, execVars>>

WorkerHeartbeatStep ==
    /\ workerHeartbeat # "off"
    /\ workerHeartbeat' =
         CASE workerHeartbeat = "asked"  -> "off"
           [] workerHeartbeat = "asleep" ->
                IF wstate \in {"running", "stopping"} /\ workerId THEN "sent" ELSE "off"
           [] workerHeartbeat = "sent"   ->
                IF wstate \in {"running", "stopping"} /\ workerId THEN "asleep" ELSE "off"
    /\ UNCHANGED <<leaseVars, timedJobs, wstate, mainPc, stopVars, intakeClosed, workerId, limit, execVars>>

-----------------------------------------------------------------------------

LeaseExpires ==
    /\ \E j \in Jobs : ExpireLease(j)
    /\ UNCHANGED <<ctlVars, execVars>>

MainStep ==
    \/ RegisterReturns \/ RegisterFails \/ PollStart \/ StartJobs \/ PollEnds
    \/ LeaveLoop \/ StartReturns
    \/ \E S \in SUBSET Claimable : ClaimReturns(S) \/ ClaimFails(S)
    \/ \E x \in Execs : ReleaseJob(x) \/ ReleaseReturns(x)

TaskStep(x) ==
    \/ TaskStarts(x) \/ TaskNeverStarts(x) \/ CleanupEnds(x) \/ AckCut(x)
    \/ CancelReachesHandler(x) \/ HandlerCatchesCancel(x) \/ HandlerSwallowsCancel(x)

AckStep(x, c) == AckLands(x, c) \/ AckAnswered(x, c) \/ AckRejected(x, c)

HeartbeatStep(x) ==
    HeartbeatWakes(x) \/ HeartbeatAnswered(x) \/ HeartbeatRejected(x) \/ HeartbeatCancelled(x)

StopStep ==
    \/ StopWaitsForClaim \/ StopDrain \/ StopGrace \/ StopAbandonsNext \/ StopAbandoned
    \/ StopDeregisters \/ StopEnds
    \/ \E x \in Execs : StopAbandons(x)

Next ==
    \/ StartCall \/ MainStep
    \/ StopCall \/ StopStep \/ DeadlinePasses \/ WorkerHeartbeatStep
    \/ LeaseExpires
    \/ \E x \in Execs :
          \/ TaskStep(x) \/ HeartbeatStep(x)
          \/ HandlerReturns(x) \/ JobTimesOut(x) \/ HandlerCancelsItself(x)
          \/ \E c \in Callers : AckStep(x, c)

\* The event loop runs every task that is ready, requests end (the client has a
\* timeout), timers expire.  No fairness for start(), stop(), the end of a
\* handler or of a lease.
Fairness ==
    /\ WF_vars(MainStep) /\ WF_vars(StopStep) /\ WF_vars(DeadlinePasses)
    /\ WF_vars(WorkerHeartbeatStep)
    /\ \A x \in Execs :
          /\ WF_vars(TaskStep(x)) /\ WF_vars(HeartbeatStep(x))
          /\ \A c \in Callers : WF_vars(AckStep(x, c))

Spec == Init /\ [][Next]_vars

FairSpec == Spec /\ Fairness

-----------------------------------------------------------------------------
(* Safety *)

\* Executions the worker took on: _register_job gave them a slot.
TakenOn == {x \in Execs : TaskAlive(x) \/ phase[x] \in {"finished", "dropped"}}

\* A later execution of the same job has taken the slot over.
Superseded(x) == \E y \in TakenOn : y[1] = x[1] /\ y[2] > x[2]

\* Its handler let a CancelledError of its own out.
Dropped(x) == phase[x] \in {"dropping", "dropped"}

\* No execution is dropped silently: once its task is through and its slot is
\* free, it was settled or its lease is gone -- also when the cancellation
\* struck before the task's first step, or at the await of an ack.  (What a
\* handler's own CancelledError does is HandlersAreReported, below.)
NoSilentDrop ==
    \A x \in Execs : phase[x] = "finished" /\ ~Owns(x) /\ Live(x) => settled[x]

\* A cancellation reaches an ack on the wire only after the lease was lost:
\* stop() never cuts off the answer of a handler that came back in time.
AckCutOnlyWhenLost == \A x \in Execs : ack[x]["process"] = "cut" => leaseLost[x]

\* Jobs being run and jobs a claim may still bring stay within the concurrency,
\* with a job claimed again while its old execution holds the slot.
SlotsWithinLimit == mainPc # "deliver" => Cardinality(Slots) + limit <= Concurrency

\* When stop() is through, nothing of it runs on: no slot, no heartbeat of the
\* worker, and no job heartbeat but those of superseded executions.  start()
\* returns after it, with every job of a late claim failed, so that the caller may
\* close the client.
QuietWhenStopped ==
    /\ stopPc = "done" =>
           /\ Slots = {} /\ workerHeartbeat = "off"
           /\ \A x \in Execs : heartbeat[x] \in {"asleep", "sent"} => Superseded(x)
    /\ mainPc = "returned" =>
           stopPc = "done" /\ \A x \in Execs : phase[x] \notin {"received", "releasing"}

-----------------------------------------------------------------------------
(* The contract of WorkerContract *)

AnswerCount(x) ==
    Cardinality({c \in Callers : ack[x][c] # "none"})
        + IF phase[x] \in {"releasing", "released"} THEN 1 ELSE 0

Contract == INSTANCE WorkerContract WITH
    leased  <- {x \in Execs : x[2] <= attempts[x[1]]},
    live    <- {x \in Execs : Live(x) /\ ~Dropped(x)},
    takenOn <- TakenOn,
    answers <- [x \in Execs |-> AnswerCount(x)],
    open    <- wstate # "stopped"

\* The asynchronous worker keeps the contract of the synchronous one: one
\* answer per execution, none taken on once it is closed, and none it still
\* leases left unanswered then, but for dropped ones.
KeepsContract == Contract!Spec

-----------------------------------------------------------------------------
(* Liveness *)

\* stop() ends although handlers swallow their cancellation and a claim
\* outlives the shutdown timeout, and start() returns after it.
StopTerminates == wstate = "stopping" ~> wstate = "stopped" /\ mainPc = "returned"

\* Every job held when stop() is called, or brought by the claim then in
\* flight, is answered, unless its lease is gone.
HeldJobsAreAnswered ==
    \A x \in Execs :
        stopPc # "none" /\ phase[x] \in {"received", "created", "running"}
            ~> AnswerCount(x) > 0 \/ ~Live(x) \/ Dropped(x)

-----------------------------------------------------------------------------
(* What a comment says and the code does not do *)

\* _execute_handler: "a handler that threw is always reported as failed" - a
\* CancelledError of something the handler awaited is thrown as well.
HandlersAreReported == \A x \in Execs : phase[x] = "dropped" /\ Live(x) => settled[x]
=============================================================================

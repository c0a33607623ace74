---------------------------- MODULE SpooledWorker ----------------------------
(***************************************************************************)
(* The synchronous worker runtime, spooled/worker/worker.py: one instance  *)
(* of SpooledWorker against the queue server of JobLeases.                 *)
(*                                                                         *)
(* Threads: the main thread runs start() and its poll loop; stop() runs on *)
(* another thread or, as a signal handler, on the main thread; every       *)
(* execution has a pool thread, a job-timeout timer and a heartbeat timer. *)
(* A section of code under self._lock is one action, unless a signal       *)
(* handler on the same thread can come between its halves: the lock is     *)
(* re-entrant.  An HTTP call is at least two: it leaves, and later its     *)
(* answer is acted upon.                                                   *)
(***************************************************************************)
EXTENDS JobLeases, Integers

CONSTANTS
    Concurrency,   \* size of the thread pool
    TimedJobs,     \* jobs that come with a timeout_seconds
    StopThreads,   \* where stop() may run: TRUE, on the main thread; FALSE, on another
    EarlyStop      \* stop() may also be called while start() still registers

ASSUME ConcurrencyAssumption == Concurrency \in Nat \ {0}
ASSUME TimedAssumption       == TimedJobs \subseteq Jobs
ASSUME StopAssumption        == StopThreads \subseteq BOOLEAN /\ EarlyStop \in BOOLEAN

VARIABLES
    wstate,            \* self._state
    mainPc,            \* where the thread in start() is
    stopPc,            \* where the thread in stop() is
    stopOnMain,        \* stop() runs as a signal handler of the main thread
    stopTodo,          \* executions stop() has still to abandon
    stopCalled,        \* history: stop() was called after start()
    deadlinePassed,    \* shutdown_timeout ran out since stop()
    intakeClosed,      \* self._intake_closed
    workerId,          \* self._worker_id is set
    registeredId,      \* self._registered_worker_id is set
    executor,          \* self._executor: "none" or "open"
    limit,             \* limit of the claim in flight, 0 when there is none
    active,            \* self._active_jobs: job -> lease number, or NoSlot
    abandonedRunning,  \* self._abandoned_running
    phase,             \* per execution: its path from claim to cleanup
    settled,           \* ActiveJob.settled
    abandoned,         \* ActiveJob.abandoned
    leaseLost,         \* ActiveJob.lease_lost
    ack,               \* per execution and caller: progress of its ack
    heartbeat,         \* per execution: the heartbeat timer
    timeoutTimer       \* per execution: the job-timeout timer

stopVars == <<stopPc, stopOnMain, stopTodo, stopCalled, deadlinePassed>>
idVars   == <<workerId, registeredId>>
slotVars == <<active, abandoned, abandonedRunning>>
timerVars == <<heartbeat, timeoutTimer>>
ctlVars == <<wstate, mainPc, stopVars, intakeClosed, idVars, executor, limit>>
execVars == <<slotVars, phase, settled, leaseLost, ack, timerVars>>
vars == <<leaseVars, ctlVars, execVars>>

WorkerStates == {"idle", "starting", "running", "stopping", "stopped", "error"}
MainPcs == {"none", "registering", "registered", "idle", "claiming", "deliver",
            "awaitStop", "returned", "failed"}
StopPcs == {"none", "waitPoll", "drain", "abandon", "grace", "deregister", "deregistered",
            "done"}
Phases == {"unclaimed", "lost", "received", "dropped",
           "admitted", "registered", "late", "submitting", "orphaned", "stranded",
           "queued", "running", "acking", "cleanup", "finished",
           "releasing", "relsent", "released", "stuck"}

\* Who may ack an execution: its handler's thread, its timeout timer, stop().
Callers  == {"handler", "timer", "stop"}
Granted  == {"claimed", "sent", "landed", "over", "done"}
AckPcs   == Granted \cup {"none", "signalled", "refused", "quit"}

NoSlot == 0

ControlTypeOK ==
    /\ wstate \in WorkerStates
    /\ mainPc \in MainPcs
    /\ stopPc \in StopPcs
    /\ stopTodo \in SUBSET Execs
    /\ stopOnMain \in BOOLEAN /\ stopCalled \in BOOLEAN /\ deadlinePassed \in BOOLEAN
    /\ intakeClosed \in BOOLEAN /\ workerId \in BOOLEAN /\ registeredId \in BOOLEAN
    /\ executor \in {"none", "open"}
    /\ limit \in 0 .. Concurrency

ExecTypeOK ==
    /\ active \in [Jobs -> 0 .. MaxAttempts]
    /\ abandonedRunning \in Nat
    /\ phase \in [Execs -> Phases]
    /\ settled \in [Execs -> BOOLEAN]
    /\ abandoned \in [Execs -> BOOLEAN]
    /\ leaseLost \in [Execs -> BOOLEAN]
    /\ ack \in [Execs -> [Callers -> AckPcs]]
    /\ heartbeat \in [Execs -> {"off", "armed", "sent"}]
    /\ timeoutTimer \in [Execs -> {"off", "armed", "fired"}]

TypeOK == LeaseTypeOK /\ ControlTypeOK /\ ExecTypeOK

Init ==
    /\ LeaseInit
    /\ wstate = "idle" /\ mainPc = "none"
    /\ stopPc = "none" /\ stopOnMain = FALSE /\ stopTodo = {}
    /\ stopCalled = FALSE /\ deadlinePassed = FALSE
    /\ intakeClosed = FALSE
    /\ workerId = FALSE /\ registeredId = FALSE
    /\ executor = "none" /\ limit = 0
    /\ active = [j \in Jobs |-> NoSlot]
    /\ abandonedRunning = 0
    /\ phase = [x \in Execs |-> "unclaimed"]
    /\ settled = [x \in Execs |-> FALSE]
    /\ abandoned = [x \in Execs |-> FALSE]
    /\ leaseLost = [x \in Execs |-> FALSE]
    /\ ack = [x \in Execs |-> [c \in Callers |-> "none"]]
    /\ heartbeat = [x \in Execs |-> "off"]
    /\ timeoutTimer = [x \in Execs |-> "off"]

-----------------------------------------------------------------------------
(* Shared state *)

\* self._active_jobs.get(job.id) is active
Owns(x) == active[x[1]] = x[2]

ActiveSlots == {j \in Jobs : active[j] # NoSlot}

\* Slip: forget that an abandoned handler still occupies its thread.
AvailableIgnoringAbandoned == Concurrency - Cardinality(ActiveSlots)

AvailableSlots == Concurrency - Cardinality(ActiveSlots) - abandonedRunning

PollInFlight == mainPc \in {"claiming", "deliver"}

\* A signal handler suspends the thread it runs on until it returns.
MainRuns == stopOnMain => stopPc \in {"none", "done"}

\* The one execution _process_job is busy with.
InProcessJob ==
    {x \in Execs : phase[x] \in {"admitted", "registered", "late", "submitting",
                                 "releasing", "relsent"}}

\* Threads of the pool at work.
BusyThreads == {x \in Execs : phase[x] \in {"running", "acking", "cleanup"}}

SetPhase(x, p) == phase' = [phase EXCEPT ![x] = p]
SetAck(x, c, p) == ack' = [ack EXCEPT ![x][c] = p]

\* Timer.cancel() has no effect on a timer whose function already runs.
CancelTimers(x) ==
    /\ heartbeat' = [heartbeat EXCEPT ![x] = IF @ = "armed" THEN "off" ELSE @]
    /\ timeoutTimer' = [timeoutTimer EXCEPT ![x] = IF @ = "armed" THEN "off" ELSE @]

\* Slip: delete the slot of the job id, whoever holds it.
FreeSlotByJobId(x) == active' = [active EXCEPT ![x[1]] = NoSlot]

FreeSlot(x) == active' = IF Owns(x) THEN [active EXCEPT ![x[1]] = NoSlot] ELSE active

\* Slip: no check that the execution was settled already.
CanSettleAgain(x) == ~leaseLost[x] /\ Owns(x) /\ workerId

CanSettle(x) == ~leaseLost[x] /\ ~settled[x] /\ Owns(x) /\ workerId

-----------------------------------------------------------------------------
(* start(): register, then the poll loop *)

StartCall ==
    /\ wstate = "idle" /\ mainPc = "none"
    /\ wstate' = "starting" /\ mainPc' = "registering"
    /\ UNCHANGED <<leaseVars, stopVars, intakeClosed, idVars, executor, limit,
                   execVars>>

RegisterReturns ==
    /\ mainPc = "registering"
    /\ workerId' = TRUE /\ registeredId' = TRUE
    /\ executor' = "open"
    /\ mainPc' = "registered"
    /\ UNCHANGED <<leaseVars, wstate, stopVars, intakeClosed, limit, execVars>>

RegisterFails ==
    /\ mainPc = "registering"
    /\ wstate' = "error" /\ mainPc' = "failed"
    /\ UNCHANGED <<leaseVars, stopVars, intakeClosed, idVars, executor, limit,
                   execVars>>

EnterLoop ==
    /\ mainPc = "registered"
    /\ wstate' = "running" /\ mainPc' = "idle"
    /\ UNCHANGED <<leaseVars, stopVars, intakeClosed, idVars, executor, limit,
                   execVars>>

\* Slip: start() does not wait for a stop() on another thread.
LeaveLoopAtOnce ==
    /\ MainRuns
    /\ mainPc = "idle" /\ wstate # "running"
    /\ mainPc' = "returned"
    /\ UNCHANGED <<leaseVars, wstate, stopVars, intakeClosed, idVars, executor, limit,
                   execVars>>

LeaveLoop ==
    /\ MainRuns
    /\ mainPc = "idle" /\ wstate # "running"
    /\ mainPc' = IF wstate = "stopping" THEN "awaitStop" ELSE "returned"
    /\ UNCHANGED <<leaseVars, wstate, stopVars, intakeClosed, idVars, executor, limit,
                   execVars>>

StartReturns ==
    /\ mainPc = "awaitStop" /\ stopPc = "done"
    /\ mainPc' = "returned"
    /\ UNCHANGED <<leaseVars, wstate, stopVars, intakeClosed, idVars, executor, limit,
                   execVars>>

-----------------------------------------------------------------------------
(* _poll and _process_job, on the main thread *)

PollStart ==
    /\ MainRuns
    /\ mainPc = "idle" /\ wstate = "running" /\ workerId
    /\ AvailableSlots > 0
    /\ limit' = AvailableSlots
    /\ mainPc' = "claiming"
    /\ UNCHANGED <<leaseVars, wstate, stopVars, intakeClosed, idVars, executor,
                   execVars>>

\* jobs.claim leases the jobs in S; its answer arrives, or is lost on the way.
Claim(S, outcome) ==
    /\ MainRuns
    /\ mainPc = "claiming"
    /\ Cardinality(S) <= limit
    /\ GrantLeases(S)
    /\ phase' = [x \in Execs |-> IF x \in NewLeases(S) THEN outcome ELSE phase[x]]
    /\ mainPc' = IF outcome = "received" THEN "deliver" ELSE "idle"
    /\ limit' = 0
    /\ UNCHANGED <<wstate, stopVars, intakeClosed, idVars, executor, slotVars, settled,
                   leaseLost, ack, timerVars>>

ClaimReturns(S) == Claim(S, "received")
ClaimFails(S)   == Claim(S, "lost")

PollEnds ==
    /\ MainRuns
    /\ mainPc = "deliver"
    /\ InProcessJob = {} /\ \A x \in Execs : phase[x] # "received"
    /\ mainPc' = "idle"
    /\ UNCHANGED <<leaseVars, wstate, stopVars, intakeClosed, idVars, executor, limit,
                   execVars>>

\* Slip: do not look whether stop() has closed the intake.
AdmitAlways(x) ==
    /\ MainRuns
    /\ phase[x] = "received" /\ InProcessJob = {}
    /\ SetPhase(x, "admitted")
    /\ UNCHANGED <<leaseVars, ctlVars, slotVars, settled, leaseLost, ack, timerVars>>

\* The locked section of _process_job, first half: is the intake closed?
CheckIntake(x) ==
    /\ MainRuns
    /\ phase[x] = "received" /\ InProcessJob = {}
    /\ SetPhase(x, IF intakeClosed THEN "releasing" ELSE "admitted")
    /\ UNCHANGED <<leaseVars, ctlVars, slotVars, settled, leaseLost, ack, timerVars>>

\* Second half: the job takes its slot.  A stop() on another thread waits for the lock
\* meanwhile (StopDrain); one in a signal handler of this thread does not, and may have
\* closed the intake, drained and deregistered by now.
RegisterJob(x) ==
    /\ MainRuns
    /\ phase[x] = "admitted"
    /\ active' = [active EXCEPT ![x[1]] = x[2]]
    /\ SetPhase(x, IF intakeClosed THEN "late" ELSE "registered")
    /\ UNCHANGED <<leaseVars, ctlVars, abandoned, abandonedRunning, settled, leaseLost,
                   ack, timerVars>>

\* First heartbeat of the execution, whose timer a signal handler's stop() between the
\* check and the start does not hold up; then the check of self._executor: without a
\* pool the job is left as it is.
ArmHeartbeat(x) ==
    /\ MainRuns
    /\ phase[x] \in {"registered", "late"}
    /\ \E checkedBefore \in {FALSE, stopOnMain} :
          heartbeat' = [heartbeat EXCEPT ![x] = IF Owns(x) \/ checkedBefore THEN "armed" ELSE @]
    /\ SetPhase(x, IF executor = "open" THEN "submitting"
                   ELSE IF phase[x] = "late" THEN "stranded" ELSE "orphaned")
    /\ UNCHANGED <<leaseVars, ctlVars, slotVars, settled, leaseLost, ack, timeoutTimer>>

\* Slip: give a thread back that was never counted as abandoned.
CleanupUncounted(x) ==
    /\ FreeSlot(x)
    /\ abandoned' = [abandoned EXCEPT ![x] = FALSE]
    /\ abandonedRunning' = abandonedRunning - 1
    /\ CancelTimers(x)
    /\ SetPhase(x, "finished")

\* _cleanup_job: its effect on the slot, the thread count and the timers.
CleanupEffect(x) ==
    /\ FreeSlot(x)
    /\ abandoned' = [abandoned EXCEPT ![x] = FALSE]
    /\ abandonedRunning' = IF abandoned[x] /\ abandonedRunning > 0
                           THEN abandonedRunning - 1 ELSE abandonedRunning
    /\ CancelTimers(x)
    /\ SetPhase(x, "finished")

\* Slip: ignore the RuntimeError of a pool that was shut down meanwhile.
SubmitWithoutCleanup(x) ==
    /\ MainRuns
    /\ phase[x] = "submitting"
    /\ SetPhase(x, IF executor = "open" THEN "queued" ELSE "finished")
    /\ UNCHANGED <<leaseVars, ctlVars, slotVars, settled, leaseLost, ack, timerVars>>

\* self._executor is read again and given the job.  A pool that stop() has shut down
\* meanwhile raises the RuntimeError that _process_job cleans up after; but stop() also
\* takes the attribute away, and then an AttributeError ends the whole poll, with what
\* it still had to deliver.
Submit(x) ==
    /\ MainRuns
    /\ phase[x] = "submitting"
    /\ \/ /\ executor = "open"
          /\ SetPhase(x, "queued") /\ UNCHANGED <<mainPc, slotVars, timerVars>>
       \/ executor # "open" /\ CleanupEffect(x) /\ UNCHANGED mainPc
       \/ /\ executor # "open"
          /\ phase' = [y \in Execs |-> IF y = x THEN "orphaned"
                                      ELSE IF phase[y] = "received" THEN "dropped"
                                      ELSE phase[y]]
          /\ mainPc' = "idle"
          /\ UNCHANGED <<slotVars, timerVars>>
    /\ UNCHANGED <<leaseVars, wstate, stopVars, intakeClosed, idVars, executor, limit,
                   settled, leaseLost, ack>>

\* Slip: release with the live worker id only, which stop() has cleared.
ReleaseWithLiveId(x) ==
    /\ MainRuns
    /\ phase[x] = "releasing"
    /\ SetPhase(x, IF workerId THEN "relsent" ELSE "stuck")
    /\ UNCHANGED <<leaseVars, ctlVars, slotVars, settled, leaseLost, ack, timerVars>>

\* _release_unstarted_job: fail a job that came after the drain.
ReleaseJob(x) ==
    /\ MainRuns
    /\ phase[x] = "releasing"
    /\ SetPhase(x, IF workerId \/ registeredId THEN "relsent" ELSE "stuck")
    /\ UNCHANGED <<leaseVars, ctlVars, slotVars, settled, leaseLost, ack, timerVars>>

ReleaseReturns(x) ==
    /\ MainRuns
    /\ phase[x] = "relsent"
    /\ AcceptAck(x) \/ UNCHANGED leaseVars
    /\ SetPhase(x, "released")
    /\ UNCHANGED <<ctlVars, slotVars, settled, leaseLost, ack, timerVars>>

-----------------------------------------------------------------------------
(* The pool thread of an execution *)

\* _start_job_timeout arms the timer unless the job has no timeout, or was failed
\* meanwhile.
HandlerStart(x) ==
    /\ phase[x] = "queued"
    /\ Cardinality(BusyThreads) < Concurrency
    /\ SetPhase(x, "running")
    /\ timeoutTimer' = [timeoutTimer EXCEPT ![x] =
                           IF x[1] \in TimedJobs /\ ~settled[x] THEN "armed" ELSE @]
    /\ UNCHANGED <<leaseVars, ctlVars, slotVars, settled, leaseLost, ack, heartbeat>>

\* The handler returns or raises; complete and fail start with _claim_settlement.
HandlerReturn(x) ==
    /\ phase[x] = "running"
    /\ IF CanSettle(x)
       THEN /\ settled' = [settled EXCEPT ![x] = TRUE]
            /\ SetAck(x, "handler", "claimed")
            /\ SetPhase(x, "acking")
       ELSE /\ SetAck(x, "handler", "refused")
            /\ SetPhase(x, "cleanup")
            /\ UNCHANGED settled
    /\ UNCHANGED <<leaseVars, ctlVars, slotVars, leaseLost, timerVars>>

\* The handler ends with a BaseException, say a SystemExit: neither `except Exception`
\* nor `else` runs, and the execution goes to _cleanup_job without asking for its ack.
HandlerQuits(x) ==
    /\ phase[x] = "running"
    /\ SetAck(x, "handler", "quit")
    /\ SetPhase(x, "cleanup")
    /\ UNCHANGED <<leaseVars, ctlVars, slotVars, settled, leaseLost, timerVars>>

Cleanup(x) ==
    /\ \/ phase[x] = "cleanup" /\ UNCHANGED ack
       \/ /\ phase[x] = "acking" /\ ack[x]["handler"] = "over"
          /\ SetAck(x, "handler", "done")
    /\ CleanupEffect(x)
    /\ UNCHANGED <<leaseVars, ctlVars, settled, leaseLost>>

-----------------------------------------------------------------------------
(* Acknowledgements, on whichever thread was granted the settlement *)

\* _lose_lease: nothing more is sent for the execution.
LoseLease(x) ==
    /\ leaseLost' = [leaseLost EXCEPT ![x] = TRUE]
    /\ timeoutTimer' = [timeoutTimer EXCEPT ![x] = IF @ = "armed" THEN "off" ELSE @]

\* _send_fail and _complete_job look at lease_lost once more before sending.
AckSend(x, c) ==
    /\ ack[x][c] = "claimed"
    /\ SetAck(x, c, IF leaseLost[x] THEN "over" ELSE "sent")
    /\ UNCHANGED <<leaseVars, ctlVars, slotVars, phase, settled, leaseLost, timerVars>>

\* The request lands, or fails on the way with an error that is only reported.
AckArrives(x, c) ==
    /\ ack[x][c] = "sent"
    /\ \/ AcceptAck(x) /\ SetAck(x, c, "landed")
       \/ SetAck(x, c, "over") /\ UNCHANGED leaseVars
    /\ UNCHANGED <<ctlVars, slotVars, phase, settled, leaseLost, timerVars>>

AckAnswered(x, c) ==
    /\ ack[x][c] = "landed"
    /\ SetAck(x, c, "over")
    /\ UNCHANGED <<leaseVars, ctlVars, slotVars, phase, settled, leaseLost, timerVars>>

\* 409 LEASE_EXPIRED: the lease was gone before the request came, or the first
\* answer got lost and the HTTP layer replayed a request that had landed.
AckRejected(x, c) ==
    /\ ack[x][c] \in {"sent", "landed"} /\ ~Live(x)
    /\ SetAck(x, c, "over")
    /\ LoseLease(x)
    /\ heartbeat' = [heartbeat EXCEPT ![x] = IF @ = "armed" THEN "off" ELSE @]
    /\ UNCHANGED <<leaseVars, ctlVars, slotVars, phase, settled>>

-----------------------------------------------------------------------------
(* _abandon_job, from the timeout timer or from stop() *)

\* _on_job_timeout; the handler is signalled before the settlement is claimed.
TimeoutFires(x) ==
    /\ timeoutTimer[x] = "armed"
    /\ timeoutTimer' = [timeoutTimer EXCEPT ![x] = "fired"]
    /\ SetAck(x, "timer", "signalled")
    /\ UNCHANGED <<leaseVars, ctlVars, slotVars, phase, settled, leaseLost, heartbeat>>

\* Slip: fail the job without asking for the settlement.
AbandonUnclaimed(x, c) ==
    /\ ack[x][c] = "signalled"
    /\ SetAck(x, c, "claimed") /\ settled' = [settled EXCEPT ![x] = TRUE]
    /\ UNCHANGED <<leaseVars, ctlVars, slotVars, phase, leaseLost, timerVars>>

AbandonClaim(x, c) ==
    /\ ack[x][c] = "signalled"
    /\ IF CanSettle(x)
       THEN SetAck(x, c, "claimed") /\ settled' = [settled EXCEPT ![x] = TRUE]
       ELSE SetAck(x, c, "refused") /\ UNCHANGED settled
    /\ UNCHANGED <<leaseVars, ctlVars, slotVars, phase, leaseLost, timerVars>>

AbandonEnds(x, c) ==
    /\ c # "handler" /\ ack[x][c] = "over"
    /\ SetAck(x, c, "done")
    /\ FreeSlot(x)
    /\ abandoned' = [abandoned EXCEPT ![x] = TRUE]
    /\ abandonedRunning' = IF abandoned[x] THEN abandonedRunning ELSE abandonedRunning + 1
    /\ CancelTimers(x)
    /\ UNCHANGED <<leaseVars, ctlVars, phase, settled, leaseLost>>

-----------------------------------------------------------------------------
(* _schedule_job_heartbeat *)

MayBeat(x) == ~leaseLost[x] /\ ~settled[x] /\ Owns(x)

HeartbeatFires(x) ==
    /\ heartbeat[x] = "armed"
    /\ heartbeat' = [heartbeat EXCEPT ![x] = IF MayBeat(x) /\ workerId THEN "sent" ELSE "off"]
    /\ UNCHANGED <<leaseVars, ctlVars, slotVars, phase, settled, leaseLost, ack,
                   timeoutTimer>>

\* Renewed, or an error that does not tell the lease is gone: beat again.
HeartbeatAnswered(x) ==
    /\ heartbeat[x] = "sent"
    /\ heartbeat' = [heartbeat EXCEPT ![x] = IF MayBeat(x) THEN "armed" ELSE "off"]
    /\ UNCHANGED <<leaseVars, ctlVars, slotVars, phase, settled, leaseLost, ack,
                   timeoutTimer>>

HeartbeatRejected(x) ==
    /\ heartbeat[x] = "sent" /\ ~Live(x)
    /\ LoseLease(x)
    /\ heartbeat' = [heartbeat EXCEPT ![x] = "off"]
    /\ UNCHANGED <<leaseVars, ctlVars, slotVars, phase, settled, ack>>

-----------------------------------------------------------------------------
(* stop() *)

\* Called while start() still registers: returns without any effect.
StopIgnored ==
    /\ EarlyStop
    /\ wstate = "starting" /\ ~stopCalled
    /\ stopCalled' = TRUE
    /\ UNCHANGED <<leaseVars, wstate, mainPc, stopPc, stopOnMain, stopTodo,
                   deadlinePassed, intakeClosed, idVars, executor, limit, execVars>>

StopCall(onMain) ==
    /\ wstate = "running"
    /\ wstate' = "stopping" /\ stopPc' = "waitPoll"
    /\ stopOnMain' = onMain /\ stopCalled' = TRUE
    /\ UNCHANGED <<leaseVars, mainPc, stopTodo, deadlinePassed, intakeClosed, idVars,
                   executor, limit, execVars>>

DeadlinePasses ==
    /\ stopPc \in {"waitPoll", "drain"} /\ ~deadlinePassed
    /\ deadlinePassed' = TRUE
    /\ UNCHANGED <<leaseVars, wstate, mainPc, stopPc, stopOnMain, stopTodo, stopCalled,
                   intakeClosed, idVars, executor, limit, execVars>>

\* _wait_for_inflight_poll: the poll thread does not wait for itself.
PollWaitOver == stopOnMain \/ ~PollInFlight \/ deadlinePassed

StopWaitPoll ==
    /\ stopPc = "waitPoll" /\ PollWaitOver
    /\ stopPc' = "drain"
    /\ UNCHANGED <<leaseVars, wstate, mainPc, stopOnMain, stopTodo, stopCalled,
                   deadlinePassed, intakeClosed, idVars, executor, limit, execVars>>

\* Slip: wait for the handlers however long they take.
DrainUnbounded == ActiveSlots = {}

DrainOver == ActiveSlots = {} \/ deadlinePassed

\* _wait_for_idle closes the intake in the locked step that ends the wait; the
\* executions to abandon are those which hold a slot then, as none can take one
\* before stop() is over.  The lock may be in the hands of _process_job.
StopDrain ==
    /\ stopPc = "drain" /\ DrainOver
    /\ stopOnMain \/ \A x \in Execs : phase[x] # "admitted"
    /\ intakeClosed' = TRUE
    /\ stopTodo' = {x \in Execs : Owns(x)}
    /\ stopPc' = "abandon"
    /\ UNCHANGED <<leaseVars, wstate, mainPc, stopOnMain, stopCalled, deadlinePassed, idVars,
                   executor, limit, execVars>>

StopAbandoning ==
    \E y \in Execs : ack[y]["stop"] \in {"signalled", "claimed", "sent", "landed", "over"}

StopAbandon(x) ==
    /\ stopPc = "abandon" /\ x \in stopTodo /\ ~StopAbandoning
    /\ stopTodo' = stopTodo \ {x}
    /\ SetAck(x, "stop", "signalled")
    /\ UNCHANGED <<leaseVars, wstate, mainPc, stopPc, stopOnMain, stopCalled,
                   deadlinePassed, intakeClosed, idVars, executor, limit, slotVars,
                   phase, settled, leaseLost, timerVars>>

StopAbandoned ==
    /\ stopPc = "abandon" /\ stopTodo = {} /\ ~StopAbandoning
    /\ stopPc' = "grace"
    /\ UNCHANGED <<leaseVars, wstate, mainPc, stopOnMain, stopTodo, stopCalled,
                   deadlinePassed, intakeClosed, idVars, executor, limit, execVars>>

\* The last wait ends when no job is active or ACK_GRACE_SECONDS are over, at
\* any time therefore; the executor is shut down without waiting for it.
StopTeardown ==
    /\ stopPc = "grace"
    /\ executor' = "none"
    /\ stopPc' = "deregister"
    /\ UNCHANGED <<leaseVars, wstate, mainPc, stopOnMain, stopTodo, stopCalled,
                   deadlinePassed, intakeClosed, idVars, limit, execVars>>

\* workers.deregister answers or fails; the worker is stopped, which start() may see
\* before stop() is through with its callbacks.
StopDeregister ==
    /\ stopPc = "deregister"
    /\ wstate' = "stopped"
    /\ stopPc' = "deregistered"
    /\ UNCHANGED <<leaseVars, mainPc, stopOnMain, stopTodo, stopCalled, deadlinePassed,
                   intakeClosed, idVars, executor, limit, execVars>>

\* self._worker_id is cleared and self._stopped_event set.
StopFinishes ==
    /\ stopPc = "deregistered"
    /\ workerId' = FALSE
    /\ stopPc' = "done"
    /\ UNCHANGED <<leaseVars, wstate, mainPc, stopOnMain, stopTodo, stopCalled, deadlinePassed,
                   intakeClosed, registeredId, executor, limit, execVars>>

-----------------------------------------------------------------------------

LeaseExpires ==
    /\ \E j \in Jobs : ExpireLease(j)
    /\ UNCHANGED <<ctlVars, execVars>>

ProcessJob(x) ==
    \/ CheckIntake(x) \/ RegisterJob(x) \/ ArmHeartbeat(x) \/ Submit(x)
    \/ ReleaseJob(x) \/ ReleaseReturns(x)

MainStep ==
    \/ RegisterReturns \/ RegisterFails \/ EnterLoop \/ LeaveLoop \/ StartReturns
    \/ PollStart \/ PollEnds
    \/ \E S \in SUBSET Claimable : ClaimReturns(S) \/ ClaimFails(S)
    \/ \E x \in Execs : ProcessJob(x)

StopStep ==
    \/ StopWaitPoll \/ StopDrain \/ StopAbandoned \/ StopTeardown
    \/ StopDeregister \/ StopFinishes
    \/ \E x \in Execs : StopAbandon(x)

AckStep(x, c) == AckSend(x, c) \/ AckArrives(x, c) \/ AckAnswered(x, c) \/ AckRejected(x, c)

AbandonStep(x, c) == AbandonClaim(x, c) \/ AbandonEnds(x, c)

HeartbeatStep(x) == HeartbeatFires(x) \/ HeartbeatAnswered(x) \/ HeartbeatRejected(x)

Next ==
    \/ StartCall \/ MainStep
    \/ StopIgnored \/ StopStep \/ DeadlinePasses
    \/ \E onMain \in StopThreads : StopCall(onMain)
    \/ LeaseExpires
    \/ \E x \in Execs :
          \/ HandlerStart(x) \/ HandlerReturn(x) \/ HandlerQuits(x) \/ Cleanup(x)
          \/ TimeoutFires(x) \/ HeartbeatStep(x)
          \/ \E c \in Callers : AckStep(x, c) \/ AbandonStep(x, c)

\* Threads run, HTTP calls end (the client has a timeout), timers expire.  No
\* fairness for what the user or the server decides: start(), stop(), the end
\* of a handler, the end of a lease, the outcome of a call.
Fairness ==
    /\ WF_vars(MainStep) /\ WF_vars(StopStep) /\ WF_vars(DeadlinePasses)
    /\ \A x \in Execs :
          /\ WF_vars(HandlerStart(x)) /\ WF_vars(Cleanup(x)) /\ WF_vars(HeartbeatStep(x))
          /\ \A c \in Callers : WF_vars(AckStep(x, c)) /\ WF_vars(AbandonStep(x, c))

Spec == Init /\ [][Next]_vars

FairSpec == Spec /\ Fairness

-----------------------------------------------------------------------------
(* Safety *)

\* Executions that joined the drain: _process_job gave them a slot.
Registered == {x \in Execs : phase[x] \in {"registered", "submitting", "orphaned", "queued",
                                           "running", "acking", "cleanup", "finished"}}

\* An execution is acked by one thread at most: the handler's thread, the
\* timeout timer and stop() race for _claim_settlement, and a handler that
\* returns as it is timed out never sends both complete and fail.
SingleAck ==
    \A x \in Execs : \A c, d \in Callers :
        ack[x][c] \in Granted /\ ack[x][d] \in Granted => c = d

\* Executions that were given a slot, the ones after stop() included.
Slotted == Registered \cup {x \in Execs : phase[x] \in {"late", "stranded"}}

\* A later execution of the same job was given the slot.
Superseded(x) == \E y \in Slotted : y[1] = x[1] /\ y[2] > x[2]

\* The slots in use, the threads of abandoned handlers that have not returned
\* and the jobs a claim has brought or may still bring never exceed the
\* concurrency: _poll reads len(_active_jobs) and _abandoned_running while
\* handlers, timers and heartbeats change both.  A superseded execution is not
\* counted: it lost its slot without having been abandoned, and its thread is
\* one the worker no longer knows of.
ThreadCapacity ==
    Cardinality(ActiveSlots)
        + Cardinality({x \in Execs : abandoned[x] /\ phase[x] # "finished" /\ ~Superseded(x)})
        + Cardinality({x \in Execs : phase[x] \in {"received", "admitted"}})
        + limit <= Concurrency

\* _abandoned_running is the number of executions marked abandoned: no
\* execution is counted twice, and max(0, ..) in _cleanup_job never has to act.
AbandonedCountExact == abandonedRunning = Cardinality({x \in Execs : abandoned[x]})

\* An execution whose handler ended with a BaseException (_execute_handler).
Quit(x) == ack[x]["handler"] = "quit"

\* A slot is held by an execution on its way to _cleanup_job.  Two exceptions, both of
\* stop() taking the pool away under _process_job: a job that is never run keeps its
\* slot if its lease was lost before stop() could fail it, and a job that got its slot
\* while a signal handler ran the whole of stop() keeps it for good.
NoSlotLeak ==
    \A x \in Execs : Owns(x) =>
        /\ phase[x] # "finished"
        /\ phase[x] = "orphaned" => leaseLost[x]

\* Once stop() has deregistered, no execution that joined its drain still holds a live
\* lease without its ack having been claimed, unless its handler ended with a
\* BaseException: deregistering requeues nothing, such a job hangs until its lease runs
\* out.
NothingLeftBehind ==
    wstate = "stopped" => \A x \in Registered : Live(x) => settled[x] \/ Quit(x)

\* start() returns last: the worker has been deregistered, and the poll thread has no
\* call on the wire and no job of a claim in its hands, so closing the client cuts
\* nothing off.  (What an AttributeError of submit() made it drop before is gone for
\* good: HeldJobsAreAnswered.)
StartReturnsLast ==
    mainPc = "returned" =>
        /\ wstate = "stopped"
        /\ InProcessJob = {}
        /\ \A x \in Execs : phase[x] \notin {"received", "stuck"}

-----------------------------------------------------------------------------
(* Action properties *)

\* The result of a handler is dropped for a reason: the lease is gone, the job timed
\* out, or the shutdown timeout ran out, as the documentation says, or the handler ended
\* with a BaseException, which it does not say.  In particular the end of an older
\* execution of the job never takes the slot away from the execution that replaced it.
ResultDroppedForAReason ==
    [][\A x \in Execs :
          phase[x] = "running" /\ phase'[x] = "cleanup" =>
              ~Live(x) \/ leaseLost[x] \/ timeoutTimer[x] = "fired" \/ deadlinePassed
                  \/ Quit(x)']_vars

-----------------------------------------------------------------------------
(* Liveness *)

\* stop() ends although handlers may never return and a claim may outlive the
\* shutdown timeout, on whichever thread it runs.
StopTerminates == wstate = "stopping" ~> stopPc = "done"

\* The ack or the release of the execution is on the wire, or was.
Answered(x) ==
    \/ phase[x] \in {"relsent", "released"}
    \/ \E c \in Callers : ack[x][c] \in {"sent", "landed", "over", "done"}

\* Nobody will answer the execution: its handler ended with a BaseException, submit()
\* ended the poll it came with, or it got its slot when stop() was over.
NeverAnswered(x) == Quit(x) \/ phase[x] \in {"dropped", "late", "stranded"}

\* Every job the worker holds when it is told to stop, or gets from the claim
\* then in flight, is answered, unless its lease is gone or it is one of the three
\* kinds that nobody answers.
HeldJobsAreAnswered ==
    \A x \in Execs :
        stopPc # "none" /\ phase[x] \in {"received", "admitted", "registered", "submitting",
                                         "queued", "running"}
            ~> Answered(x) \/ ~Live(x) \/ NeverAnswered(x)

-----------------------------------------------------------------------------
(* What the documentation says and the code does not do *)

\* worker.py on ActiveJob.abandoned: "True while the handler thread still runs
\* after the SDK gave up on the job".
AbandonedThreadStillRuns == \A x \in Execs : abandoned[x] => phase[x] # "finished"
=============================================================================

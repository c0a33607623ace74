----------------------- MODULE SpooledWorkerInvariants -----------------------
(***************************************************************************)
(* Inductive invariants of the synchronous worker: what has to be known    *)
(* besides SingleAck and NothingLeftBehind for every step to keep them.    *)
(***************************************************************************)
EXTENDS SpooledWorker

\* Whoever was granted the ack of an execution found it unsettled, and settled it.
GrantedAreSettled ==
    \A x \in Execs : \A c \in Callers : ack[x][c] \in Granted => settled[x]

AckInv == TypeOK /\ GrantedAreSettled /\ SingleAck

-----------------------------------------------------------------------------

Leased(x) == x[2] <= attempts[x[1]]

\* start() has registered the worker.
Started == mainPc \notin {"none", "registering", "failed"}

\* The worker knows of leased executions only, and of none before it started.
KnownAreLeased ==
    \A x \in Execs :
        /\ phase[x] # "unclaimed" => Leased(x) /\ Started
        /\ heartbeat[x] # "off" \/ settled[x] \/ Owns(x) => phase[x] # "unclaimed"

\* A lease reported lost is lost for good.
LostAreLost == \A x \in Execs : leaseLost[x] => Leased(x) /\ ~Live(x)

\* Jobs a claim returned wait for the poll thread, one execution per job, and
\* are younger than the executions of the same job that were taken on.
ReceivedAreNew ==
    \A y \in Execs : phase[y] \in {"received", "admitted"} =>
        /\ mainPc = "deliver"
        /\ \A x \in Execs : x[1] = y[1] /\ phase[x] \in {"received", "admitted"} => x = y
        /\ \A x \in Slotted : x[1] = y[1] => x[2] < y[2]

\* An execution that may still be acked holds the slot of its job.
UnsettledOwnTheirSlot ==
    \A x \in Registered : Live(x) /\ ~settled[x] => Owns(x) \/ Quit(x)

\* A handler that is through has settled its execution, had no right to, or quit.
ReturnedAreSettled ==
    \A x \in Execs :
        phase[x] \in {"acking", "cleanup", "finished"} /\ Live(x) => settled[x] \/ Quit(x)

\* A handler that quits goes straight to _cleanup_job.
QuitIsOver == \A x \in Execs : Quit(x) => phase[x] \in {"cleanup", "finished"}

\* The poll thread delivers one job at a time.
OneAtATime == \A x, y \in InProcessJob : x = y

\* The worker id and the thread pool live from register to the end of stop().
IdAndPoolWhileRunning ==
    /\ Started /\ stopPc # "done" => workerId
    /\ stopPc = "done" => ~workerId
    /\ Started /\ stopPc \notin {"deregister", "deregistered", "done"} => executor = "open"
    /\ wstate \notin {"idle", "starting", "error"} => Started /\ mainPc # "registered"
    /\ stopPc # "none" => wstate \in {"stopping", "stopped"}
    /\ wstate = "stopped" <=> stopPc \in {"deregistered", "done"}

\* How far stop() has come with what it found at the end of the drain.
StopProgress ==
    /\ stopPc \in {"abandon", "grace", "deregister", "deregistered", "done"} => intakeClosed
    /\ stopPc = "abandon" =>
          \A x \in Registered :
              Live(x) /\ ~settled[x] =>
                  x \in stopTodo \/ ack[x]["stop"] = "signalled" \/ Quit(x)
    /\ stopPc \in {"grace", "deregister", "deregistered", "done"} =>
          \A x \in Registered : Live(x) => settled[x] \/ Quit(x)

\* stop() on another thread closes no intake while _process_job holds the lock: a job is
\* late only if all of stop() ran inside its locked section, and then there is no pool.
LateAfterStop ==
    /\ \A x \in Execs : phase[x] = "admitted" /\ intakeClosed => stopOnMain /\ stopPc # "none"
    /\ \A x \in Execs : phase[x] \in {"late", "stranded"} => stopPc = "done"
    /\ stopPc \in {"deregister", "deregistered", "done"} => executor = "none"

ShutdownInv ==
    /\ AckInv
    /\ KnownAreLeased /\ LostAreLost /\ ReceivedAreNew
    /\ UnsettledOwnTheirSlot /\ ReturnedAreSettled /\ QuitIsOver /\ OneAtATime
    /\ IdAndPoolWhileRunning /\ StopProgress /\ LateAfterStop

\* Jobs of a claim on their way to the pool, or back to the queue.
InDelivery ==
    {"received", "admitted", "registered", "late", "submitting", "releasing", "relsent"}

\* What start() has done and has ahead: it delivers the jobs of a claim before anything
\* else, releases late ones with the id it registered, and returns after stop().
StartInv ==
    /\ Started => registeredId
    /\ mainPc \in {"idle", "claiming", "deliver", "awaitStop", "returned"} =>
           wstate \in {"running", "stopping", "stopped"}
    /\ mainPc = "returned" => wstate = "stopped"
    /\ \A x \in Execs : phase[x] \in InDelivery => mainPc = "deliver"
    /\ \A x \in Execs : phase[x] # "stuck"

\* Only an execution that was given a slot holds one, or was settled.
SettledWereTakenOn ==
    \A x \in Execs : (Owns(x) => x \in Slotted) /\ (settled[x] => x \in Registered)

\* What is settled was granted to somebody.
SettledAreGranted ==
    \A x \in Execs : settled[x] => \E c \in Callers : ack[x][c] \in Granted

\* Each caller asks for the settlement of an execution once: a handler when it returns,
\* a timer when it fires, stop() when it takes the execution from what it has to abandon.
AskedOnce ==
    \A x \in Execs :
        /\ ack[x]["handler"] # "none" => phase[x] \in {"acking", "cleanup", "finished"}
        /\ ack[x]["timer"] # "none" => timeoutTimer[x] = "fired"
        /\ timeoutTimer[x] # "off" => phase[x] \in {"running", "acking", "cleanup", "finished"}
        /\ ack[x]["stop"] # "none" =>
               stopPc \in {"abandon", "grace", "deregister", "deregistered", "done"}
                   /\ x \notin stopTodo

ContractInv == ShutdownInv /\ SettledWereTakenOn /\ SettledAreGranted /\ AskedOnce

\* stop() abandons executions after the shutdown timeout only: a drain that ended before
\* it found no slot in use.
AbandonedAfterDeadline ==
    stopTodo # {} \/ (\E x \in Execs : ack[x]["stop"] # "none") => deadlinePassed

ResultInv == ContractInv /\ AbandonedAfterDeadline

\* A job on its way to the pool.
Unstarted == {x \in Execs : phase[x] \in {"registered", "submitting", "orphaned"}}

\* stop() has yet to fail a job that is not started and whose slot it found, is at it, or
\* has no right to as the lease is lost; else the job no longer has the slot.
UnstartedAreFailed ==
    \A x \in Unstarted : Owns(x) /\ ~leaseLost[x] =>
        /\ stopPc = "abandon" =>
               x \in stopTodo \/ ack[x]["stop"] \in {"signalled", "claimed", "sent", "landed", "over"}
        /\ stopPc \notin {"grace", "deregister", "deregistered", "done"}

SlotInv == ContractInv /\ UnstartedAreFailed /\ NoSlotLeak

\* A claim has a limit while it is in flight.
LimitOfClaim == limit # 0 => mainPc = "claiming"

\* An execution keeps its slot until it has been cleaned up or abandoned, or until a
\* later execution of its job was given the slot.
SlotUntilGivenUp ==
    \A x \in Registered :
        phase[x] # "finished" /\ ~abandoned[x] /\ ~Superseded(x) => Owns(x)

CapacityInv ==
    ContractInv /\ StartInv /\ LimitOfClaim /\ SlotUntilGivenUp /\ AbandonedCountExact
        /\ ThreadCapacity
=============================================================================

--------------------- MODULE AsyncSpooledWorkerInvariants ---------------------
(***************************************************************************)
(* The inductive invariant of the asynchronous worker: what has to be      *)
(* known besides its safety properties for every step to keep them.        *)
(***************************************************************************)
EXTENDS AsyncSpooledWorker

\* Whoever sends an ack has settled the execution, and nobody settles it twice.
SettledOnce ==
    \A x \in Execs :
        /\ settled[x] <=> \E c \in Callers : ack[x][c] # "none"
        /\ ack[x]["process"] # "none" => ack[x]["stop"] = "none"

\* A task is at the await of its ack as long as the ack is on its way, and is
\* cancelled there only when the lease is lost.
AckAwaited ==
    \A x \in Execs :
        /\ phase[x] = "acking" <=> ack[x]["process"] \in {"sent", "landed"}
        /\ phase[x] = "acking" /\ cancelled[x] => leaseLost[x]
        /\ phase[x] \in {"created", "running"} => ack[x]["process"] = "none"

AckInv == TypeOK /\ SettledOnce /\ AckAwaited /\ AckCutOnlyWhenLost

-----------------------------------------------------------------------------

Leased(x) == x[2] <= attempts[x[1]]

\* The worker knows of leased executions only, and of none before it is registered.
KnownAreLeased ==
    \A x \in Execs :
        /\ phase[x] # "unclaimed" => Leased(x) /\ Registered
        /\ heartbeat[x] # "off" \/ Owns(x) \/ settled[x] => x \in TakenOn

\* A lease reported lost is lost for good.
LostAreLost == \A x \in Execs : leaseLost[x] => Leased(x) /\ ~Live(x)

\* Jobs a claim returned wait for the poll, one execution per job, and are younger than
\* the executions of the same job that were taken on.
ReceivedAreNew ==
    /\ \A y \in Execs : phase[y] \in {"received", "releasing"} => mainPc = "deliver"
    /\ \A y \in Execs : phase[y] = "releasing" => intakeClosed
    /\ \A x, y \in Received : x[1] = y[1] => x = y
    /\ \A y \in Received : \A x \in TakenOn : x[1] = y[1] => x[2] < y[2]

\* An execution that may still be acked holds the slot of its job.
UnsettledOwnTheirSlot ==
    \A x \in TakenOn : Live(x) /\ ~settled[x] /\ ~Dropped(x) => Owns(x)

\* The states of start() and stop(), and the worker id.
ControlInv ==
    /\ mainPc = "none" => wstate = "idle"
    /\ mainPc = "registering" => wstate = "starting"
    /\ mainPc = "failed" => wstate = "error"
    /\ Registered => wstate \in {"running", "stopping", "stopped"}
    /\ stopPc # "none" <=> wstate \in {"stopping", "stopped"}
    /\ wstate = "stopped" <=> stopPc = "done"
    /\ Registered /\ stopPc # "done" => workerId
    /\ mainPc = "returned" => stopPc = "done"

\* How far stop() has come with what held a slot when the drain ended.
StopProgress ==
    /\ stopPc \in {"grace", "abandon", "heartbeat", "deregister", "done"} => intakeClosed
    /\ stopPc # "abandon" => abandoning = {}
    /\ \A x, y \in abandoning : x = y
    /\ stopPc \in {"none", "waitClaim", "drain"} => \A x \in Execs : ack[x]["stop"] = "none"
    /\ stopPc = "abandon" =>
           \A x \in Slots : x \in stopTodo \/ (x \in abandoning /\ ack[x]["stop"] \in {"sent", "landed"})
    /\ stopPc \in {"heartbeat", "deregister", "done"} => Slots = {}
    /\ stopPc \in {"deregister", "done"} => workerHeartbeat = "off"

\* Heartbeats beat for the owner of a slot, or for one that was superseded; a task that
\* has not started and will has its slot, and the intake is open.
BeatingOwn ==
    \A x \in Execs : ~Superseded(x) =>
        /\ heartbeat[x] \in {"asleep", "sent"} => Owns(x)
        /\ phase[x] = "created" /\ ~cancelled[x] => Owns(x) /\ ~intakeClosed

ShutdownInv ==
    /\ AckInv
    /\ KnownAreLeased /\ LostAreLost /\ ReceivedAreNew /\ UnsettledOwnTheirSlot
    /\ ControlInv /\ StopProgress /\ BeatingOwn

\* Slots in use and what the claim in flight may bring, or has brought.
ClaimFits ==
    /\ Cardinality(Slots) + limit <= Concurrency
    /\ Cardinality(Received) <= limit
    /\ limit # 0 => mainPc \in {"claiming", "deliver"}

AsyncInv == ShutdownInv /\ ClaimFits
=============================================================================

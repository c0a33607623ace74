----------------------- MODULE SpooledWorkerRefinement -----------------------
(***************************************************************************)
(* The synchronous worker keeps the worker's contract with the queue.      *)
(***************************************************************************)
EXTENDS SpooledWorker

\* The ack of an execution is decided by _claim_settlement, the release of a
\* job that came too late when its fail leaves.
AnswerCount(x) ==
    Cardinality({c \in Callers : ack[x][c] \in Granted})
        + IF phase[x] \in {"relsent", "released"} THEN 1 ELSE 0

\* The queue waits for the answer to a live lease, the worker owes it; except that it
\* gives up an execution whose handler ends with a BaseException, and gives no account
\* of that.  A job that gets its slot after the drain is never taken on: the worker will
\* neither run nor answer it.
Contract == INSTANCE WorkerContract WITH
    leased  <- {x \in Execs : x[2] <= attempts[x[1]]},
    live    <- {x \in Execs : Live(x) /\ ~Quit(x)},
    takenOn <- Registered,
    answers <- [x \in Execs |-> AnswerCount(x)],
    open    <- wstate # "stopped"

\* Every step of the worker is a step of the contract or leaves it alone: the
\* job timeout, stop(), late claims and lost leases all go through it.
KeepsContract == Contract!Spec
=============================================================================

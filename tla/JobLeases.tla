------------------------------ MODULE JobLeases ------------------------------
(***************************************************************************)
(* The queue server, as far as the workers of the SDK can tell: it leases  *)
(* jobs to a claim, it lets a lease run out, and it accepts an             *)
(* acknowledgement (complete or fail) only from the execution that holds   *)
(* the live lease.  The server is not part of the repository; it is        *)
(* modelled from how spooled/worker uses jobs.claim, jobs.complete,        *)
(* jobs.fail and jobs.heartbeat.                                           *)
(*                                                                         *)
(* One lease of a job is one execution of it: <<job, n>> is the n-th lease *)
(* the server granted on the job.                                          *)
(***************************************************************************)
EXTENDS Naturals, FiniteSets

CONSTANTS
    Jobs,         \* job ids
    MaxAttempts   \* bound: leases granted on one job

ASSUME JobsAssumption     == IsFiniteSet(Jobs)
ASSUME AttemptsAssumption == MaxAttempts \in Nat \ {0}

VARIABLES
    jobStatus,    \* [Jobs -> {"pending", "leased", "closed"}]
    attempts      \* [Jobs -> Nat]: leases granted so far

leaseVars == <<jobStatus, attempts>>

JobStatus == {"pending", "leased", "closed"}

Execs == Jobs \X (1 .. MaxAttempts)

LeaseTypeOK ==
    /\ jobStatus \in [Jobs -> JobStatus]
    /\ attempts \in [Jobs -> 0 .. MaxAttempts]

LeaseInit ==
    /\ jobStatus = [j \in Jobs |-> "pending"]
    /\ attempts = [j \in Jobs |-> 0]

\* Execution x holds the lease the server currently honours.
Live(x) == jobStatus[x[1]] = "leased" /\ attempts[x[1]] = x[2]

Claimable == {j \in Jobs : jobStatus[j] = "pending" /\ attempts[j] < MaxAttempts}

\* The executions a claim of the jobs in S creates.
NewLeases(S) == {<<j, attempts[j] + 1>> : j \in S}

GrantLeases(S) ==
    /\ jobStatus' = [j \in Jobs |-> IF j \in S THEN "leased" ELSE jobStatus[j]]
    /\ attempts' = [j \in Jobs |-> IF j \in S THEN attempts[j] + 1 ELSE attempts[j]]

\* An acknowledgement of the live lease lands: complete and a fail without
\* retries left close the job, any other fail puts it back in the queue.
AcceptAck(x) ==
    /\ Live(x)
    /\ \E s \in {"pending", "closed"} : jobStatus' = [jobStatus EXCEPT ![x[1]] = s]
    /\ UNCHANGED attempts

\* The scheduler takes an expired lease back and requeues the job.
ExpireLease(j) ==
    /\ jobStatus[j] = "leased"
    /\ jobStatus' = [jobStatus EXCEPT ![j] = "pending"]
    /\ UNCHANGED attempts
=============================================================================

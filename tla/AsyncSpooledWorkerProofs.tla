----------------------- MODULE AsyncSpooledWorkerProofs -----------------------
(***************************************************************************)
(* Theorems about the asynchronous worker, for every set of jobs, every    *)
(* number of leases and every concurrency: its safety properties, and that *)
(* it keeps the contract of WorkerContract.                                *)
(*                                                                         *)
(* A step of one execution is first summed up by what it does to that      *)
(* execution (Effect) and by its leaving the others alone (Kept); the      *)
(* invariants are then preserved by effects, not by the actions.           *)
(***************************************************************************)
EXTENDS AsyncSpooledWorkerInvariants, FiniteSetTheorems, TLAPS

USE DEF leaseVars, stopVars, ctlVars, flagVars, execVars, vars

-----------------------------------------------------------------------------
(* Executions, and the steps one by one *)

\* An execution is a job and the number of its lease.
LEMMA ExecParts ==
    \A x \in Execs : x[1] \in Jobs /\ x[2] \in 1 .. MaxAttempts /\ x = <<x[1], x[2]>>
  BY AttemptsAssumption DEF Execs

\* Sets of executions are finite, and a subset is not larger.
LEMMA FiniteParts ==
    /\ \A A \in SUBSET Execs : IsFiniteSet(A) /\ Cardinality(A) \in Nat
    /\ \A A \in SUBSET Execs : \A B \in SUBSET A : Cardinality(B) <= Cardinality(A)
  <1>1. IsFiniteSet(1 .. MaxAttempts)
    BY AttemptsAssumption, FS_Interval
  <1>2. IsFiniteSet(Execs)
    BY <1>1, JobsAssumption, FS_Product DEF Execs
  <1>3. \A A \in SUBSET Execs : IsFiniteSet(A)
    BY <1>2, FS_Subset
  <1> QED BY <1>3, FS_Subset, FS_CardinalityType

\* The steps of start() and stop() that concern no execution.
ControlStep ==
    \/ StartCall \/ RegisterReturns \/ RegisterFails \/ PollStart \/ PollEnds \/ LeaveLoop
    \/ StartReturns \/ StopCall \/ DeadlinePasses \/ StopWaitsForClaim \/ StopGrace
    \/ StopAbandonsNext \/ StopAbandoned \/ StopDeregisters \/ StopEnds \/ WorkerHeartbeatStep

\* The steps of one execution, those others take on its behalf included.
ExecStep(y) ==
    \/ ReleaseJob(y) \/ ReleaseReturns(y) \/ TaskStep(y) \/ HeartbeatStep(y)
    \/ HandlerReturns(y) \/ JobTimesOut(y) \/ HandlerCancelsItself(y) \/ StopAbandons(y)
    \/ \E c \in Callers : AckStep(y, c)

ClaimStep(S) == ClaimReturns(S) \/ ClaimFails(S)

\* The steps, one by one.
LEMMA WorkerSteps ==
    ASSUME [Next]_vars
    PROVE  \/ ControlStep \/ LeaseExpires \/ UNCHANGED vars
           \/ \E S \in SUBSET Claimable : ClaimStep(S)
           \/ StartJobs \/ StopDrain
           \/ \E y \in Execs : ExecStep(y)
  BY DEF Next, MainStep, StopStep, ControlStep, ExecStep, ClaimStep

\* Control steps leave the leases and the executions alone.
LEMMA ControlKeepsExecs == ControlStep => UNCHANGED <<leaseVars, execVars>>
  BY DEF ControlStep, StartCall, RegisterReturns, RegisterFails, PollStart, PollEnds, LeaveLoop,
         StartReturns, StopCall, DeadlinePasses, StopWaitsForClaim, StopGrace, StopAbandonsNext,
         StopAbandoned, StopDeregisters, StopEnds, WorkerHeartbeatStep

-----------------------------------------------------------------------------
(* Types *)

LEMMA LeaseTypeStep ==
    ASSUME LeaseTypeOK,
           \/ UNCHANGED leaseVars
           \/ \E x \in Execs : AcceptAck(x)
           \/ \E j \in Jobs : ExpireLease(j)
           \/ \E S \in SUBSET Claimable : GrantLeases(S)
    PROVE  LeaseTypeOK'
  <1>1. CASE UNCHANGED leaseVars
    BY <1>1 DEF LeaseTypeOK
  <1>2. CASE (\E x \in Execs : AcceptAck(x)) \/ (\E j \in Jobs : ExpireLease(j))
    BY <1>2, ExecParts DEF LeaseTypeOK, AcceptAck, ExpireLease, JobStatus
  <1>3. ASSUME NEW S \in SUBSET Claimable, GrantLeases(S) PROVE LeaseTypeOK'
    <2>1. \A j \in S : j \in Jobs /\ attempts[j] + 1 \in 0 .. MaxAttempts
      BY AttemptsAssumption DEF LeaseTypeOK, Claimable
    <2>2. attempts' \in [Jobs -> 0 .. MaxAttempts]
      BY <1>3, <2>1 DEF LeaseTypeOK, GrantLeases
    <2> QED BY <1>3, <2>2 DEF LeaseTypeOK, GrantLeases, JobStatus
  <1> QED BY <1>1, <1>2, <1>3

\* Setting the ack of one caller.
LEMMA SetAckType ==
    ASSUME ack \in [Execs -> [Callers -> AckPcs]], NEW x \in Execs, NEW c \in Callers,
           NEW p \in AckPcs, ack' = [ack EXCEPT ![x][c] = p]
    PROVE  /\ ack' \in [Execs -> [Callers -> AckPcs]]
           /\ ack'[x][c] = p
           /\ \A d \in Callers : d # c => ack'[x][d] = ack[x][d]
           /\ \A z \in Execs : z # x => ack'[z] = ack[z]
  <1> DEFINE row == [ack[x] EXCEPT ![c] = p]
  <1>1. row \in [Callers -> AckPcs] /\ ack' = [ack EXCEPT ![x] = row]
    OBVIOUS
  <1>2. row[c] = p /\ \A d \in Callers : d # c => row[d] = ack[x][d]
    OBVIOUS
  <1> HIDE DEF row
  <1> QED BY <1>1, <1>2

ControlTypes ==
    /\ timedJobs \in SUBSET Jobs
    /\ wstate \in {"idle", "starting", "running", "stopping", "stopped", "error"}
    /\ mainPc \in MainPcs /\ stopPc \in StopPcs /\ stopTodo \in SUBSET Execs
    /\ abandoning \in SUBSET Execs
    /\ deadlinePassed \in BOOLEAN /\ intakeClosed \in BOOLEAN /\ workerId \in BOOLEAN
    /\ limit \in 0 .. Concurrency
    /\ workerHeartbeat \in Heartbeats

ExecTypes ==
    /\ active \in [Jobs -> 0 .. MaxAttempts]
    /\ phase \in [Execs -> Phases]
    /\ cancelled \in [Execs -> BOOLEAN] /\ reason \in [Execs -> BOOLEAN]
    /\ settled \in [Execs -> BOOLEAN] /\ leaseLost \in [Execs -> BOOLEAN]
    /\ ack \in [Execs -> [Callers -> AckPcs]]
    /\ heartbeat \in [Execs -> Heartbeats]

LEMMA Types == TypeOK <=> LeaseTypeOK /\ ControlTypes /\ ExecTypes
  BY DEF TypeOK, ControlTypes, ExecTypes

LEMMA TypesNext == TypeOK' <=> LeaseTypeOK' /\ ControlTypes' /\ ExecTypes'
  BY DEF TypeOK, ControlTypes, ExecTypes

\* The slots in use are a number, and a claim asks for what is left.
LEMMA SlotsCount ==
    /\ Cardinality(Slots) \in Nat
    /\ Cardinality(Slots) < Concurrency => Concurrency - Cardinality(Slots) \in 0 .. Concurrency
  <1>1. Slots \in SUBSET Execs
    BY DEF Slots
  <1>2. Cardinality(Slots) \in Nat
    BY <1>1, FiniteParts
  <1> QED BY <1>2, ConcurrencyAssumption

-----------------------------------------------------------------------------
(* What the step of an execution does to it *)

\* An execution a step leaves alone.
Kept(x) ==
    /\ phase'[x] = phase[x] /\ cancelled'[x] = cancelled[x] /\ reason'[x] = reason[x]
    /\ settled'[x] = settled[x] /\ leaseLost'[x] = leaseLost[x]
    /\ ack'[x] = ack[x] /\ heartbeat'[x] = heartbeat[x]
    /\ Owns(x)' <=> Owns(x)

\* Its slot is given up and its heartbeat cancelled.
Freed(y) ==
    /\ ~Owns(y)'
    /\ heartbeat'[y] = IF heartbeat[y] = "off" THEN "off" ELSE "asked"

SlotKept(y) == (Owns(y)' <=> Owns(y)) /\ heartbeat'[y] = heartbeat[y]

AcksKept(y) == settled'[y] = settled[y] /\ \A d \in Callers : ack'[y][d] = ack[y][d]

\* Its ack leaves for caller c.
Acked(y, c) ==
    /\ CanSettle(y) /\ settled'[y] = TRUE /\ SlotKept(y)
    /\ ack'[y][c] = "sent" /\ \A d \in Callers : d # c => ack'[y][d] = ack[y][d]

\* The ack of caller c goes on from one of the states of from to p.
AckMoves(y, c, from, p) ==
    /\ ack[y][c] \in from /\ ack'[y][c] = p
    /\ \A d \in Callers : d # c => ack'[y][d] = ack[y][d]
    /\ settled'[y] = settled[y]

\* A late job is released.
ReleaseEffect(y) ==
    /\ mainPc = "deliver" /\ intakeClosed /\ Registered /\ phase[y] = "received"
    /\ phase'[y] = "releasing" /\ UNCHANGED leaseVars
    /\ AcksKept(y) /\ SlotKept(y)
    /\ leaseLost'[y] = leaseLost[y] /\ cancelled'[y] = cancelled[y]

ReleasedEffect(y) ==
    /\ phase[y] = "releasing" /\ phase'[y] = "released"
    /\ AcceptAck(y) \/ UNCHANGED leaseVars
    /\ AcksKept(y) /\ SlotKept(y)
    /\ leaseLost'[y] = leaseLost[y] /\ cancelled'[y] = cancelled[y]

\* The task starts, dies before its first step, comes through its cleanup, or has its
\* handler swallow a cancellation.
TaskEffect(y) ==
    /\ AcksKept(y) /\ (Owns(y)' <=> Owns(y)) /\ leaseLost'[y] = leaseLost[y]
    /\ cancelled'[y] = FALSE /\ UNCHANGED leaseVars
    /\ \/ /\ phase[y] = "created" /\ phase'[y] = "running" /\ ~cancelled[y]
          /\ heartbeat'[y] = "asleep"
       \/ /\ heartbeat'[y] = heartbeat[y]
          /\ \/ phase[y] = "created" /\ phase'[y] = "finished"
             \/ phase[y] = "cleanup" /\ phase'[y] = "finished"
             \/ phase[y] = "dropping" /\ phase'[y] = "dropped"
             \/ phase[y] = "running" /\ phase'[y] = "running"

\* The handler ends: it is reported, or there is nothing to report.
HandlerEffect(y) ==
    /\ phase[y] = "running" /\ cancelled'[y] = FALSE /\ leaseLost'[y] = leaseLost[y]
    /\ UNCHANGED leaseVars
    /\ \/ Acked(y, "process") /\ phase'[y] = "acking"
       \/ ~CanSettle(y) /\ AcksKept(y) /\ Freed(y) /\ phase'[y] = "cleanup"
       \/ AcksKept(y) /\ Freed(y) /\ phase'[y] = "dropping"

\* An ack on the wire: it lands, ends with an answer, or is cut off.
AckEffect(y) ==
    \/ /\ \E c \in Callers : AckMoves(y, c, {"sent"}, "landed")
       /\ AcceptAck(y) /\ SlotKept(y)
       /\ phase'[y] = phase[y] /\ leaseLost'[y] = leaseLost[y] /\ cancelled'[y] = cancelled[y]
    \/ /\ \E c \in Callers :
             /\ AckMoves(y, c, {"sent", "landed"}, "done")
             /\ phase'[y] = IF c = "process" THEN "cleanup" ELSE phase[y]
             /\ \/ leaseLost'[y] = leaseLost[y] /\ cancelled'[y] = cancelled[y]
                \/ ~Live(y) /\ leaseLost'[y] = TRUE /\ (cancelled[y] => cancelled'[y])
       /\ Freed(y) /\ UNCHANGED leaseVars
    \/ /\ phase[y] = "acking" /\ cancelled[y] /\ phase'[y] = "cleanup"
       /\ ack'[y]["process"] = "cut" /\ ack'[y]["stop"] = ack[y]["stop"]
       /\ settled'[y] = settled[y] /\ leaseLost'[y] = leaseLost[y] /\ cancelled'[y] = FALSE
       /\ Freed(y) /\ UNCHANGED leaseVars

\* A heartbeat beats for the owner of the slot; one that is refused loses the lease.
HeartbeatEffect(y) ==
    /\ phase'[y] = phase[y] /\ AcksKept(y) /\ (Owns(y)' <=> Owns(y)) /\ UNCHANGED leaseVars
    /\ heartbeat[y] # "off"
    /\ \/ heartbeat'[y] = "off" /\ leaseLost'[y] = leaseLost[y] /\ cancelled'[y] = cancelled[y]
       \/ /\ heartbeat[y] \in {"asleep", "sent"} /\ heartbeat'[y] \in {"asleep", "sent"}
          /\ leaseLost'[y] = leaseLost[y] /\ cancelled'[y] = cancelled[y]
       \/ /\ ~Live(y) /\ leaseLost'[y] = TRUE /\ heartbeat'[y] = "off"
          /\ cancelled[y] => cancelled'[y]

\* stop() abandons the execution.
AbandonEffect(y) ==
    /\ stopPc = "abandon" /\ abandoning = {} /\ y \in stopTodo
    /\ stopTodo' = stopTodo \ {y} /\ abandoning' = {y}
    /\ UNCHANGED <<leaseVars, timedJobs, wstate, mainPc, stopPc, deadlinePassed, intakeClosed,
                   workerId, limit, workerHeartbeat>>
    /\ phase'[y] = phase[y] /\ leaseLost'[y] = leaseLost[y] /\ cancelled'[y] = cancelled[y]
    /\ \/ Acked(y, "stop")
       \/ ~CanSettle(y) /\ AcksKept(y) /\ Freed(y)

OwnEffect(y) ==
    ReleaseEffect(y) \/ ReleasedEffect(y) \/ TaskEffect(y) \/ HandlerEffect(y)
        \/ AckEffect(y) \/ HeartbeatEffect(y)

Effect(y) ==
    /\ \A x \in Execs : x # y => Kept(x)
    /\ (OwnEffect(y) /\ UNCHANGED ctlVars) \/ AbandonEffect(y)

\* Freeing one slot leaves the others.
LEMMA FreeSlotFrees ==
    ASSUME ExecTypes, NEW y \in Execs,
           active' = IF Owns(y) THEN [active EXCEPT ![y[1]] = NoSlot] ELSE active
    PROVE  /\ active' \in [Jobs -> 0 .. MaxAttempts]
           /\ ~Owns(y)' /\ \A x \in Execs : x # y => (Owns(x)' <=> Owns(x))
  <1>1. \A x \in Execs : x[1] \in Jobs /\ x[2] \in 1 .. MaxAttempts /\ x[2] # NoSlot
    BY ExecParts DEF NoSlot
  <1>2. active \in [Jobs -> 0 .. MaxAttempts] /\ NoSlot \in 0 .. MaxAttempts
    BY AttemptsAssumption DEF ExecTypes, NoSlot
  <1>3. CASE ~Owns(y)
    BY <1>2, <1>3 DEF Owns
  <1>4. CASE Owns(y)
    <2>1. active' = [active EXCEPT ![y[1]] = NoSlot]
      BY <1>4
    <2>2. active' \in [Jobs -> 0 .. MaxAttempts] /\ active'[y[1]] = NoSlot
      BY <1>1, <1>2, <2>1
    <2>3. ASSUME NEW x \in Execs, x # y PROVE Owns(x)' <=> Owns(x)
      <3>1. CASE x[1] = y[1]
        <4>1. x[2] # y[2]
          BY <2>3, <3>1, ExecParts
        <4> QED BY <1>1, <1>4, <2>2, <3>1, <4>1 DEF Owns
      <3>2. CASE x[1] # y[1]
        BY <1>1, <1>2, <2>1, <3>2 DEF Owns
      <3> QED BY <3>1, <3>2
    <2>4. ~Owns(y)'
      BY <1>1, <2>2 DEF Owns
    <2> QED BY <2>2, <2>3, <2>4
  <1> QED BY <1>3, <1>4

\* The acks and settlements of one execution, when its ack leaves.
LEMMA SendAckActs ==
    ASSUME ExecTypes, NEW y \in Execs, NEW c \in Callers, SendAck(y, c),
           UNCHANGED <<active, heartbeat>>
    PROVE  /\ Acked(y, c)
           /\ settled' \in [Execs -> BOOLEAN] /\ ack' \in [Execs -> [Callers -> AckPcs]]
           /\ \A x \in Execs : x # y => settled'[x] = settled[x] /\ ack'[x] = ack[x]
  <1>1. "sent" \in AckPcs /\ ack' = [ack EXCEPT ![y][c] = "sent"]
    BY DEF SendAck, AckPcs
  <1>2. /\ ack' \in [Execs -> [Callers -> AckPcs]] /\ ack'[y][c] = "sent"
        /\ \A d \in Callers : d # c => ack'[y][d] = ack[y][d]
        /\ \A z \in Execs : z # y => ack'[z] = ack[z]
    BY <1>1, SetAckType DEF ExecTypes
  <1>3. CanSettle(y) /\ settled' = [settled EXCEPT ![y] = TRUE]
    BY DEF SendAck
  <1> QED BY <1>2, <1>3 DEF ExecTypes, Acked, SlotKept, Owns

LEMMA FreeSlotActs ==
    ASSUME ExecTypes, NEW y \in Execs, FreeSlot(y)
    PROVE  /\ Freed(y)
           /\ active' \in [Jobs -> 0 .. MaxAttempts] /\ heartbeat' \in [Execs -> Heartbeats]
           /\ \A x \in Execs : x # y => heartbeat'[x] = heartbeat[x] /\ (Owns(x)' <=> Owns(x))
  BY FreeSlotFrees DEF ExecTypes, FreeSlot, Freed, Heartbeats

\* The end of a handler, as reported.
LEMMA ReportEndActs ==
    ASSUME ExecTypes, NEW y \in Execs, phase[y] = "running", ReportEnd(y) \/ Unwind(y),
           cancelled' = [cancelled EXCEPT ![y] = FALSE],
           UNCHANGED <<leaseVars, ctlVars, reason, leaseLost>>
    PROVE  ExecTypes' /\ Effect(y)
  <1>1. CASE SendAck(y, "process") /\ phase' = [phase EXCEPT ![y] = "acking"]
             /\ UNCHANGED <<active, heartbeat>>
    <2>1. /\ Acked(y, "process")
          /\ settled' \in [Execs -> BOOLEAN] /\ ack' \in [Execs -> [Callers -> AckPcs]]
          /\ \A x \in Execs : x # y => settled'[x] = settled[x] /\ ack'[x] = ack[x]
      BY <1>1, SendAckActs DEF Callers
    <2>2. ExecTypes'
      BY <1>1, <2>1 DEF ExecTypes, Phases
    <2>3. \A x \in Execs : x # y => Kept(x)
      BY <1>1, <2>1 DEF ExecTypes, Kept, Owns
    <2>4. HandlerEffect(y)
      BY <1>1, <2>1 DEF ExecTypes, HandlerEffect
    <2> QED BY <2>2, <2>3, <2>4 DEF Effect, OwnEffect
  <1>2. ASSUME NEW p \in {"cleanup", "dropping"}, p = "cleanup" => ~CanSettle(y),
               FreeSlot(y), phase' = [phase EXCEPT ![y] = p], UNCHANGED <<settled, ack>>
        PROVE  ExecTypes' /\ Effect(y)
    <2>1. /\ Freed(y)
          /\ active' \in [Jobs -> 0 .. MaxAttempts] /\ heartbeat' \in [Execs -> Heartbeats]
          /\ \A x \in Execs : x # y => heartbeat'[x] = heartbeat[x] /\ (Owns(x)' <=> Owns(x))
      BY <1>2, FreeSlotActs
    <2>2. ExecTypes'
      BY <1>2, <2>1 DEF ExecTypes, Phases
    <2>3. \A x \in Execs : x # y => Kept(x)
      BY <1>2, <2>1 DEF ExecTypes, Kept
    <2>4. HandlerEffect(y)
      BY <1>2, <2>1 DEF ExecTypes, HandlerEffect, AcksKept
    <2> QED BY <2>2, <2>3, <2>4 DEF Effect, OwnEffect
  <1>3. leaseLost[y] => ~CanSettle(y)
    BY DEF CanSettle
  <1> QED BY <1>1, <1>2, <1>3 DEF ReportEnd, Unwind

\* The caller of an ack goes on to its cleanup.
LEMMA AckEndsActs ==
    ASSUME ExecTypes, NEW y \in Execs, NEW c \in Callers, NEW end \in {"done", "cut"},
           AckEnds(y, c, end),
           heartbeat' = [heartbeat EXCEPT ![y] = IF @ = "off" THEN "off" ELSE "asked"]
    PROVE  /\ Freed(y)
           /\ ack'[y][c] = end /\ \A d \in Callers : d # c => ack'[y][d] = ack[y][d]
           /\ phase'[y] = IF c = "process" THEN "cleanup" ELSE phase[y]
           /\ active' \in [Jobs -> 0 .. MaxAttempts] /\ heartbeat' \in [Execs -> Heartbeats]
           /\ ack' \in [Execs -> [Callers -> AckPcs]] /\ phase' \in [Execs -> Phases]
           /\ \A x \in Execs : x # y =>
                 /\ heartbeat'[x] = heartbeat[x] /\ ack'[x] = ack[x] /\ phase'[x] = phase[x]
                 /\ Owns(x)' <=> Owns(x)
  <1>1. end \in AckPcs /\ ack' = [ack EXCEPT ![y][c] = end]
    BY DEF AckEnds, AckPcs
  <1>2. /\ ack' \in [Execs -> [Callers -> AckPcs]] /\ ack'[y][c] = end
        /\ \A d \in Callers : d # c => ack'[y][d] = ack[y][d]
        /\ \A z \in Execs : z # y => ack'[z] = ack[z]
    BY <1>1, SetAckType DEF ExecTypes
  <1>3. FreeSlot(y)
    BY DEF AckEnds, FreeSlot
  <1>4. phase' = IF c = "process" THEN [phase EXCEPT ![y] = "cleanup"] ELSE phase
    BY DEF AckEnds
  <1>5. /\ phase' \in [Execs -> Phases]
        /\ phase'[y] = IF c = "process" THEN "cleanup" ELSE phase[y]
        /\ \A x \in Execs : x # y => phase'[x] = phase[x]
    BY <1>4 DEF ExecTypes, Phases
  <1> QED BY <1>2, <1>3, <1>5, FreeSlotActs

\* The step of an execution keeps the types, has its effect, and leaves the others alone.
LEMMA ExecStepActs ==
    ASSUME TypeOK, NEW y \in Execs, ExecStep(y)
    PROVE  ExecTypes' /\ Effect(y) /\ (UNCHANGED leaseVars \/ AcceptAck(y))
  <1>0. ExecTypes
    BY Types
  <1>1. CASE ReleaseJob(y) \/ ReleaseReturns(y)
    <2>1. PICK p \in {"releasing", "released"} : phase' = [phase EXCEPT ![y] = p]
      BY <1>1 DEF ReleaseJob, ReleaseReturns
    <2>2. /\ UNCHANGED <<ctlVars, active, cancelled, flagVars, ack, heartbeat>>
          /\ UNCHANGED leaseVars \/ AcceptAck(y)
      BY <1>1 DEF ReleaseJob, ReleaseReturns
    <2>3. ExecTypes'
      BY <1>0, <2>1, <2>2 DEF ExecTypes, Phases
    <2>4. \A x \in Execs : x # y => Kept(x)
      BY <1>0, <2>1, <2>2 DEF ExecTypes, Kept, Owns
    <2>5. ReleaseEffect(y) \/ ReleasedEffect(y)
      BY <1>0, <1>1, <2>2
         DEF ExecTypes, ReleaseJob, ReleaseReturns, ReleaseEffect, ReleasedEffect, AcksKept,
             SlotKept, Owns
    <2> QED BY <2>2, <2>3, <2>4, <2>5 DEF Effect, OwnEffect
  <1>2. CASE TaskStarts(y) \/ TaskNeverStarts(y) \/ CleanupEnds(y) \/ HandlerSwallowsCancel(y)
    <2>1. UNCHANGED <<leaseVars, ctlVars, active, flagVars, ack>>
      BY <1>2 DEF TaskStarts, TaskNeverStarts, CleanupEnds, HandlerSwallowsCancel
    <2>2. ExecTypes'
      BY <1>0, <1>2, <2>1 DEF ExecTypes, TaskStarts, TaskNeverStarts, CleanupEnds,
                              HandlerSwallowsCancel, Phases, Heartbeats
    <2>3. \A x \in Execs : x # y => Kept(x)
      BY <1>0, <1>2, <2>1 DEF ExecTypes, TaskStarts, TaskNeverStarts, CleanupEnds,
                              HandlerSwallowsCancel, Kept, Owns
    <2>4. TaskEffect(y)
      BY <1>0, <1>2, <2>1 DEF ExecTypes, TaskStarts, TaskNeverStarts, CleanupEnds,
                              HandlerSwallowsCancel, TaskEffect, AcksKept, Owns
    <2> QED BY <2>1, <2>2, <2>3, <2>4 DEF Effect, OwnEffect
  <1>3. CASE \/ CancelReachesHandler(y) \/ HandlerCatchesCancel(y)
             \/ HandlerReturns(y) \/ JobTimesOut(y) \/ HandlerCancelsItself(y)
    <2>1. /\ phase[y] = "running" /\ (ReportEnd(y) \/ Unwind(y))
          /\ UNCHANGED <<leaseVars, ctlVars, reason, leaseLost>>
      BY <1>3 DEF CancelReachesHandler, HandlerCatchesCancel, HandlerReturns, JobTimesOut,
                  HandlerCancelsItself
    <2>2. cancelled' = [cancelled EXCEPT ![y] = FALSE]
      BY <1>0, <1>3 DEF ExecTypes, CancelReachesHandler, HandlerCatchesCancel, HandlerReturns,
                        JobTimesOut, HandlerCancelsItself
    <2> QED BY <1>0, <2>1, <2>2, ReportEndActs
  <1>4. CASE AckCut(y)
    <2>1. /\ AckEnds(y, "process", "cut")
          /\ heartbeat' = [heartbeat EXCEPT ![y] = IF @ = "off" THEN "off" ELSE "asked"]
          /\ cancelled' = [cancelled EXCEPT ![y] = FALSE] /\ phase[y] = "acking" /\ cancelled[y]
          /\ UNCHANGED <<leaseVars, ctlVars, flagVars>>
      BY <1>4 DEF AckCut
    <2>2. /\ Freed(y)
          /\ ack'[y]["process"] = "cut" /\ ack'[y]["stop"] = ack[y]["stop"]
          /\ phase'[y] = "cleanup"
          /\ active' \in [Jobs -> 0 .. MaxAttempts] /\ heartbeat' \in [Execs -> Heartbeats]
          /\ ack' \in [Execs -> [Callers -> AckPcs]] /\ phase' \in [Execs -> Phases]
          /\ \A x \in Execs : x # y =>
                /\ heartbeat'[x] = heartbeat[x] /\ ack'[x] = ack[x] /\ phase'[x] = phase[x]
                /\ Owns(x)' <=> Owns(x)
      BY <1>0, <2>1, AckEndsActs DEF Callers
    <2>3. ExecTypes'
      BY <1>0, <2>1, <2>2 DEF ExecTypes
    <2>4. \A x \in Execs : x # y => Kept(x)
      BY <1>0, <2>1, <2>2 DEF ExecTypes, Kept
    <2>5. AckEffect(y)
      BY <1>0, <2>1, <2>2 DEF ExecTypes, AckEffect
    <2> QED BY <2>1, <2>3, <2>4, <2>5 DEF Effect, OwnEffect
  <1>5. ASSUME NEW c \in Callers, AckLands(y, c)
        PROVE  ExecTypes' /\ Effect(y) /\ AcceptAck(y)
    <2>1. /\ ack[y][c] = "sent" /\ AcceptAck(y) /\ ack' = [ack EXCEPT ![y][c] = "landed"]
          /\ UNCHANGED <<ctlVars, active, phase, cancelled, flagVars, heartbeat>>
          /\ "landed" \in AckPcs
      BY <1>5 DEF AckLands, AckPcs
    <2>2. /\ ack' \in [Execs -> [Callers -> AckPcs]] /\ ack'[y][c] = "landed"
          /\ \A d \in Callers : d # c => ack'[y][d] = ack[y][d]
          /\ \A z \in Execs : z # y => ack'[z] = ack[z]
      BY <1>0, <2>1, SetAckType DEF ExecTypes
    <2>3. ExecTypes' /\ \A x \in Execs : x # y => Kept(x)
      BY <1>0, <2>1, <2>2 DEF ExecTypes, Kept, Owns
    <2>4. AckEffect(y)
      BY <2>1, <2>2 DEF AckEffect, AckMoves, SlotKept, Owns
    <2> QED BY <2>1, <2>3, <2>4 DEF Effect, OwnEffect
  <1>6. ASSUME NEW c \in Callers, AckAnswered(y, c) \/ AckRejected(y, c)
        PROVE  ExecTypes' /\ Effect(y) /\ UNCHANGED leaseVars
    <2>1. /\ AckEnds(y, c, "done")
          /\ heartbeat' = [heartbeat EXCEPT ![y] = IF @ = "off" THEN "off" ELSE "asked"]
          /\ ack[y][c] \in {"sent", "landed"}
          /\ UNCHANGED <<leaseVars, ctlVars, reason, settled>>
      BY <1>6 DEF AckAnswered, AckRejected
    <2>2. /\ Freed(y)
          /\ ack'[y][c] = "done" /\ \A d \in Callers : d # c => ack'[y][d] = ack[y][d]
          /\ phase'[y] = IF c = "process" THEN "cleanup" ELSE phase[y]
          /\ active' \in [Jobs -> 0 .. MaxAttempts] /\ heartbeat' \in [Execs -> Heartbeats]
          /\ ack' \in [Execs -> [Callers -> AckPcs]] /\ phase' \in [Execs -> Phases]
          /\ \A x \in Execs : x # y =>
                /\ heartbeat'[x] = heartbeat[x] /\ ack'[x] = ack[x] /\ phase'[x] = phase[x]
                /\ Owns(x)' <=> Owns(x)
      BY <1>0, <2>1, AckEndsActs
    <2>3. /\ cancelled' \in [Execs -> BOOLEAN] /\ leaseLost' \in [Execs -> BOOLEAN]
          /\ \A x \in Execs : x # y => cancelled'[x] = cancelled[x] /\ leaseLost'[x] = leaseLost[x]
          /\ \/ leaseLost'[y] = leaseLost[y] /\ cancelled'[y] = cancelled[y]
             \/ ~Live(y) /\ leaseLost'[y] = TRUE /\ (cancelled[y] => cancelled'[y])
      BY <1>0, <1>6 DEF ExecTypes, AckAnswered, AckRejected
    <2>4. ExecTypes'
      BY <1>0, <2>1, <2>2, <2>3 DEF ExecTypes
    <2>5. \A x \in Execs : x # y => Kept(x)
      BY <1>0, <2>1, <2>2, <2>3 DEF ExecTypes, Kept
    <2>6. AckEffect(y)
      BY <2>1, <2>2, <2>3 DEF AckEffect, AckMoves
    <2> QED BY <2>1, <2>4, <2>5, <2>6 DEF Effect, OwnEffect
  <1>7. CASE HeartbeatStep(y)
    <2>1. UNCHANGED <<leaseVars, ctlVars, active, phase, reason, settled, ack>>
      BY <1>7 DEF HeartbeatStep, HeartbeatWakes, HeartbeatAnswered, HeartbeatRejected,
                  HeartbeatCancelled
    <2>2. /\ heartbeat' \in [Execs -> Heartbeats]
          /\ cancelled' \in [Execs -> BOOLEAN] /\ leaseLost' \in [Execs -> BOOLEAN]
          /\ \A x \in Execs : x # y => /\ cancelled'[x] = cancelled[x] /\ leaseLost'[x] = leaseLost[x]
                                       /\ heartbeat'[x] = heartbeat[x]
      BY <1>0, <1>7 DEF ExecTypes, HeartbeatStep, HeartbeatWakes, HeartbeatAnswered,
                        HeartbeatRejected, HeartbeatCancelled, Heartbeats
    <2>3. ExecTypes'
      BY <1>0, <2>1, <2>2 DEF ExecTypes
    <2>4. \A x \in Execs : x # y => Kept(x)
      BY <1>0, <2>1, <2>2 DEF ExecTypes, Kept, Owns
    <2>5. HeartbeatEffect(y)
      BY <1>0, <1>7, <2>1 DEF ExecTypes, HeartbeatStep, HeartbeatWakes, HeartbeatAnswered,
                        HeartbeatRejected, HeartbeatCancelled, HeartbeatEffect, AcksKept, Owns
    <2> QED BY <2>1, <2>3, <2>4, <2>5 DEF Effect, OwnEffect
  <1>8. CASE StopAbandons(y)
    <2>1. /\ stopPc = "abandon" /\ abandoning = {} /\ y \in stopTodo
          /\ stopTodo' = stopTodo \ {y} /\ abandoning' = {y}
          /\ UNCHANGED <<leaseVars, timedJobs, wstate, mainPc, stopPc, deadlinePassed,
                         intakeClosed, workerId, limit, workerHeartbeat, phase, cancelled,
                         reason, leaseLost>>
      BY <1>8 DEF StopAbandons
    <2>2. CASE SendAck(y, "stop") /\ UNCHANGED <<active, heartbeat>>
      <3>1. /\ Acked(y, "stop")
            /\ settled' \in [Execs -> BOOLEAN] /\ ack' \in [Execs -> [Callers -> AckPcs]]
            /\ \A x \in Execs : x # y => settled'[x] = settled[x] /\ ack'[x] = ack[x]
        BY <1>0, <2>2, SendAckActs DEF Callers
      <3>2. ExecTypes' /\ \A x \in Execs : x # y => Kept(x)
        BY <1>0, <2>1, <2>2, <3>1 DEF ExecTypes, Kept, Owns
      <3>3. AbandonEffect(y)
        BY <2>1, <3>1 DEF AbandonEffect
      <3> QED BY <2>1, <3>2, <3>3 DEF Effect
    <2>3. CASE ~CanSettle(y) /\ FreeSlot(y) /\ UNCHANGED <<settled, ack>>
      <3>1. /\ Freed(y)
            /\ active' \in [Jobs -> 0 .. MaxAttempts] /\ heartbeat' \in [Execs -> Heartbeats]
            /\ \A x \in Execs : x # y => heartbeat'[x] = heartbeat[x] /\ (Owns(x)' <=> Owns(x))
        BY <1>0, <2>3, FreeSlotActs
      <3>2. ExecTypes' /\ \A x \in Execs : x # y => Kept(x)
        BY <1>0, <2>1, <2>3, <3>1 DEF ExecTypes, Kept
      <3>3. AbandonEffect(y)
        BY <2>1, <2>3, <3>1 DEF AbandonEffect, AcksKept
      <3> QED BY <2>1, <3>2, <3>3 DEF Effect
    <2> QED BY <1>8, <2>2, <2>3 DEF StopAbandons
  <1> QED
    BY <1>1, <1>2, <1>3, <1>4, <1>5, <1>6, <1>7, <1>8 DEF ExecStep, TaskStep, AckStep, Effect

LEMMA ControlTypesKept ==
    ASSUME ControlTypes, ControlStep
    PROVE  ControlTypes'
  <1>1. CASE StartCall
    BY <1>1 DEF ControlTypes, StartCall, MainPcs
  <1>5. CASE RegisterReturns \/ RegisterFails
    BY <1>5 DEF ControlTypes, RegisterReturns, RegisterFails, MainPcs, Heartbeats
  <1>6. CASE PollEnds
    BY <1>6, ConcurrencyAssumption DEF ControlTypes, PollEnds, MainPcs
  <1>7. CASE LeaveLoop \/ StartReturns
    BY <1>7 DEF ControlTypes, LeaveLoop, StartReturns, MainPcs
  <1>2. CASE PollStart
    BY <1>2, SlotsCount DEF ControlTypes, PollStart, MainPcs
  <1>3. CASE StopCall \/ DeadlinePasses \/ StopWaitsForClaim
    BY <1>3 DEF ControlTypes, StopCall, DeadlinePasses, StopWaitsForClaim, StopPcs
  <1>8. CASE StopGrace \/ StopAbandonsNext
    BY <1>8 DEF ControlTypes, StopGrace, StopAbandonsNext, StopPcs, Slots
  <1>9. CASE StopAbandoned \/ StopDeregisters
    BY <1>9 DEF ControlTypes, StopAbandoned, StopDeregisters, StopPcs, Heartbeats
  <1>10. CASE StopEnds
    BY <1>10 DEF ControlTypes, StopEnds, StopPcs
  <1>4. CASE WorkerHeartbeatStep
    <2>1. /\ UNCHANGED <<timedJobs, wstate, mainPc, stopVars, intakeClosed, workerId, limit>>
          /\ workerHeartbeat # "off"
      BY <1>4 DEF WorkerHeartbeatStep
    <2>2. workerHeartbeat \in {"asleep", "sent", "asked"}
      BY <2>1 DEF ControlTypes, Heartbeats
    <2>3. workerHeartbeat' \in Heartbeats
      BY <1>4, <2>2, Zenon DEF WorkerHeartbeatStep, Heartbeats
    <2> QED BY <2>1, <2>3 DEF ControlTypes
  <1> QED
    BY <1>1, <1>2, <1>3, <1>4, <1>5, <1>6, <1>7, <1>8, <1>9, <1>10 DEF ControlStep

LEMMA InitTypeOK == Init => TypeOK
  <1> SUFFICES ASSUME Init PROVE TypeOK
    OBVIOUS
  <1>1. LeaseTypeOK
    BY AttemptsAssumption DEF Init, LeaseInit, LeaseTypeOK, JobStatus
  <1>2. ControlTypes
    <2>1. limit \in 0 .. Concurrency
      BY ConcurrencyAssumption DEF Init
    <2>2. mainPc \in MainPcs /\ stopPc \in StopPcs /\ workerHeartbeat \in Heartbeats
      BY DEF Init, MainPcs, StopPcs, Heartbeats
    <2> QED BY <2>1, <2>2 DEF Init, ControlTypes
  <1>3. ExecTypes
    BY AttemptsAssumption DEF Init, ExecTypes, NoSlot, Phases, AckPcs, Heartbeats
  <1> QED BY <1>1, <1>2, <1>3, Types

LEMMA NextTypeOK ==
    ASSUME TypeOK, [Next]_vars
    PROVE  TypeOK'
  <1>0. LeaseTypeOK /\ ControlTypes /\ ExecTypes
    BY Types
  <1>1. CASE ControlStep \/ UNCHANGED vars
    <2>1. ControlTypes'
      BY <1>0, <1>1, ControlTypesKept DEF ControlTypes
    <2>2. UNCHANGED <<leaseVars, execVars>>
      BY <1>1, ControlKeepsExecs
    <2> QED BY <1>0, <2>1, <2>2, LeaseTypeStep, TypesNext DEF ExecTypes
  <1>2. CASE LeaseExpires
    BY <1>0, <1>2, LeaseTypeStep, TypesNext DEF LeaseExpires, ControlTypes, ExecTypes
  <1>3. ASSUME NEW S \in SUBSET Claimable, ClaimStep(S)
        PROVE  TypeOK'
    <2>1. LeaseTypeOK'
      BY <1>0, <1>3, LeaseTypeStep DEF ClaimStep, ClaimReturns, ClaimFails
    <2>2. ControlTypes'
      BY <1>0, <1>3, ConcurrencyAssumption DEF ClaimStep, ClaimReturns, ClaimFails, ControlTypes, MainPcs
    <2>3. ExecTypes'
      BY <1>0, <1>3 DEF ClaimStep, ClaimReturns, ClaimFails, ExecTypes, Phases
    <2> QED BY <2>1, <2>2, <2>3, TypesNext
  <1>4. CASE StartJobs
    <2>1. ControlTypes' /\ LeaseTypeOK'
      BY <1>0, <1>4, ConcurrencyAssumption, LeaseTypeStep DEF StartJobs, ControlTypes, MainPcs
    <2>2. active' \in [Jobs -> 0 .. MaxAttempts]
      <3>1. ASSUME NEW j \in Jobs, \E x \in Received : x[1] = j
            PROVE  (CHOOSE x \in Received : x[1] = j)[2] \in 0 .. MaxAttempts
        <4>1. (CHOOSE x \in Received : x[1] = j) \in Execs
          BY <3>1 DEF Received
        <4> QED BY <4>1, ExecParts
      <3> QED BY <1>0, <1>4, <3>1 DEF StartJobs, ExecTypes
    <2>3. ExecTypes'
      BY <1>0, <1>4, <2>2 DEF StartJobs, ExecTypes, Phases
    <2> QED BY <2>1, <2>3, TypesNext
  <1>5. CASE StopDrain
    BY <1>0, <1>5, LeaseTypeStep, TypesNext DEF StopDrain, ControlTypes, ExecTypes, StopPcs
  <1>6. ASSUME NEW y \in Execs, ExecStep(y)
        PROVE  TypeOK'
    <2>1. ExecTypes' /\ Effect(y) /\ (UNCHANGED leaseVars \/ AcceptAck(y))
      BY <1>6, ExecStepActs
    <2>2. ControlTypes'
      BY <1>0, <2>1 DEF Effect, AbandonEffect, ControlTypes
    <2>3. LeaseTypeOK'
      BY <1>0, <2>1, LeaseTypeStep
    <2> QED BY <2>1, <2>2, <2>3, TypesNext
  <1> QED BY <1>1, <1>2, <1>3, <1>4, <1>5, <1>6, WorkerSteps

\* Every variable keeps its type: slots are lease numbers, and the claim never asks for
\* more than the concurrency.
THEOREM TypeInvariant == Spec => []TypeOK
  BY InitTypeOK, NextTypeOK, PTL DEF Spec

-----------------------------------------------------------------------------
(* Leases end, knowledge stays *)

\* A lease of the past is not live again, and stays granted.
LEMMA LeasesOnlyEnd ==
    ASSUME TypeOK, [Next]_vars, NEW x \in Execs, Leased(x)
    PROVE  Leased(x)' /\ (Live(x)' => Live(x))
  <1>0. jobStatus \in [Jobs -> JobStatus] /\ attempts \in [Jobs -> 0 .. MaxAttempts] /\ x[1] \in Jobs
    BY ExecParts DEF TypeOK, LeaseTypeOK
  <1>1. CASE UNCHANGED leaseVars
    BY <1>1 DEF Leased, Live
  <1>2. CASE (\E y \in Execs : AcceptAck(y)) \/ LeaseExpires
    BY <1>0, <1>2, ExecParts DEF AcceptAck, LeaseExpires, ExpireLease, Leased, Live
  <1>3. ASSUME NEW S \in SUBSET Claimable, GrantLeases(S)
        PROVE  Leased(x)' /\ (Live(x)' => Live(x))
    BY <1>0, <1>3, ExecParts DEF GrantLeases, Leased, Live
  <1>4. ASSUME NEW y \in Execs, ExecStep(y) PROVE UNCHANGED leaseVars \/ AcceptAck(y)
    BY <1>4, ExecStepActs
  <1> QED
    BY <1>1, <1>2, <1>3, <1>4, WorkerSteps, ControlKeepsExecs
       DEF ClaimStep, ClaimReturns, ClaimFails, StartJobs, StopDrain

\* A claim changes the phase of executions nobody knew.
LEMMA ClaimOfUnknown ==
    ASSUME TypeOK, KnownAreLeased, NEW S \in SUBSET Claimable, ClaimStep(S)
    PROVE  /\ \A x \in NewLeases(S) : x \in Execs /\ ~Leased(x) /\ Leased(x)' /\ phase[x] = "unclaimed"
           /\ \A x \in Execs : x \notin NewLeases(S) => phase'[x] = phase[x]
           /\ \A x \in NewLeases(S) : phase'[x] \in {"received", "lost"}
           /\ \A x, y \in NewLeases(S) : x[1] = y[1] => x = y
           /\ UNCHANGED <<active, cancelled, flagVars, ack, heartbeat, stopVars, wstate,
                          intakeClosed, workerId, workerHeartbeat>>
           /\ mainPc = "claiming" /\ mainPc' \in {"deliver", "idle"}
  <1>0. attempts \in [Jobs -> 0 .. MaxAttempts] /\ phase \in [Execs -> Phases]
    BY DEF TypeOK, LeaseTypeOK
  <1>1. \A j \in S : j \in Jobs /\ attempts[j] + 1 \in 1 .. MaxAttempts
    BY <1>0, AttemptsAssumption DEF Claimable
  <1>2. \A x \in NewLeases(S) : /\ x \in Execs /\ x[1] \in S /\ x[2] = attempts[x[1]] + 1
                                /\ x = <<x[1], attempts[x[1]] + 1>>
    BY <1>1 DEF NewLeases, Execs
  <1>3. \A x \in NewLeases(S) : ~Leased(x) /\ Leased(x)'
    <2>1. GrantLeases(S)
      BY DEF ClaimStep, ClaimReturns, ClaimFails
    <2>2. \A x \in NewLeases(S) : attempts'[x[1]] = attempts[x[1]] + 1
      BY <1>1, <1>2, <2>1 DEF GrantLeases
    <2> QED BY <1>0, <1>1, <1>2, <2>2 DEF Leased
  <1>4. \A x \in NewLeases(S) : phase[x] = "unclaimed"
    BY <1>2, <1>3 DEF KnownAreLeased
  <1>5. \A x, y \in NewLeases(S) : x[1] = y[1] => x = y
    BY <1>2
  <1>6. phase' = [x \in Execs |-> IF x \in NewLeases(S) THEN "received" ELSE phase[x]]
        \/ phase' = [x \in Execs |-> IF x \in NewLeases(S) THEN "lost" ELSE phase[x]]
    BY DEF ClaimStep, ClaimReturns, ClaimFails
  <1>7. /\ UNCHANGED <<active, cancelled, flagVars, ack, heartbeat, stopVars, wstate,
                       intakeClosed, workerId, workerHeartbeat>>
        /\ mainPc = "claiming" /\ mainPc' \in {"deliver", "idle"}
    BY DEF ClaimStep, ClaimReturns, ClaimFails
  <1> QED BY <1>2, <1>3, <1>4, <1>5, <1>6, <1>7

\* What each kind of step changes of the executions.
LEMMA OtherSteps ==
    ASSUME ControlStep \/ LeaseExpires \/ UNCHANGED vars
    PROVE  UNCHANGED execVars
  BY ControlKeepsExecs DEF LeaseExpires

LEMMA StartJobsActs ==
    ASSUME TypeOK, StartJobs
    PROVE  /\ UNCHANGED <<leaseVars, cancelled, flagVars, ack, heartbeat, wstate, stopVars,
                          intakeClosed, workerId, workerHeartbeat>>
           /\ mainPc = "deliver" /\ ~intakeClosed /\ mainPc' = "idle" /\ limit' = 0
           /\ \A x \in Execs : phase'[x] = IF phase[x] = "received" THEN "created" ELSE phase[x]
  BY DEF StartJobs, Received

LEMMA StopDrainActs ==
    ASSUME TypeOK, StopDrain
    PROVE  /\ UNCHANGED <<leaseVars, active, phase, settled, leaseLost, ack, heartbeat, wstate,
                          mainPc, stopTodo, abandoning, workerId, limit, workerHeartbeat>>
           /\ stopPc = "drain" /\ stopPc' = "grace" /\ intakeClosed' = TRUE
           /\ \A x \in Execs : cancelled'[x] <=> cancelled[x] \/ x \in ToCancel
  BY DEF StopDrain

\* An execution that was taken on stays one, and a settled one stays settled.
LEMMA TakenOnForGood ==
    ASSUME TypeOK, KnownAreLeased, [Next]_vars, NEW x \in TakenOn
    PROVE  x \in TakenOn'
  <1>0. x \in Execs /\ phase[x] \in {"created", "running", "acking", "cleanup", "dropping",
                                     "finished", "dropped"}
    BY DEF TakenOn, TaskAlive
  <1>1. CASE phase'[x] = phase[x]
    BY <1>0, <1>1 DEF TakenOn, TaskAlive
  <1>2. ASSUME NEW S \in SUBSET Claimable, ClaimStep(S) PROVE phase'[x] = phase[x]
    BY <1>0, <1>2, ClaimOfUnknown
  <1>3. CASE StartJobs
    BY <1>0, <1>1, <1>3, StartJobsActs
  <1>4. ASSUME NEW y \in Execs, Effect(y) PROVE x \in TakenOn'
    <2>1. CASE x = y
      BY <1>0, <1>4, <2>1
         DEF Effect, OwnEffect, ReleaseEffect, ReleasedEffect, TaskEffect, HandlerEffect,
             AckEffect, HeartbeatEffect, AbandonEffect, TakenOn, TaskAlive
    <2>2. CASE x # y
      BY <1>0, <1>1, <1>4, <2>2 DEF Effect, Kept
    <2> QED BY <2>1, <2>2
  <1> QED
    BY <1>1, <1>2, <1>3, <1>4, WorkerSteps, OtherSteps, StopDrainActs, ExecStepActs

LEMMA SettledForGood ==
    ASSUME TypeOK, [Next]_vars, NEW x \in Execs, settled[x]
    PROVE  settled'[x]
  <1>1. CASE settled'[x] = settled[x]
    BY <1>1
  <1>2. ASSUME NEW S \in SUBSET Claimable, ClaimStep(S) PROVE settled'[x] = settled[x]
    BY <1>2 DEF ClaimStep, ClaimReturns, ClaimFails
  <1>3. ASSUME NEW y \in Execs, Effect(y) PROVE settled'[x]
    <2>1. CASE x = y
      BY <1>3, <2>1
         DEF Effect, OwnEffect, ReleaseEffect, ReleasedEffect, TaskEffect, HandlerEffect,
             AckEffect, AckMoves, HeartbeatEffect, AbandonEffect, Acked, AcksKept
    <2>2. CASE x # y
      BY <1>1, <1>3, <2>2 DEF Effect, Kept
    <2> QED BY <2>1, <2>2
  <1> QED
    BY <1>1, <1>2, <1>3, WorkerSteps, OtherSteps, StartJobsActs, StopDrainActs, ExecStepActs

-----------------------------------------------------------------------------
(* Acks *)

\* Every step preserves SettledOnce.
LEMMA SettledOnceStep ==
    ASSUME ShutdownInv, [Next]_vars
    PROVE  SettledOnce'
  <1>0. TypeOK /\ SettledOnce /\ AckAwaited
    BY DEF ShutdownInv, AckInv
  <1>1. CASE UNCHANGED <<settled, ack>>
    BY <1>0, <1>1 DEF SettledOnce
  <1>2. ASSUME NEW S \in SUBSET Claimable, ClaimStep(S) PROVE UNCHANGED <<settled, ack>>
    BY <1>2 DEF ClaimStep, ClaimReturns, ClaimFails
  <1>3. ASSUME NEW y \in Execs, Effect(y) PROVE SettledOnce'
    <2>1. settled[y] \in BOOLEAN
      BY <1>0 DEF TypeOK
    <2>2. /\ settled'[y] <=> \E c \in Callers : ack'[y][c] # "none"
          /\ ack'[y]["process"] # "none" => ack'[y]["stop"] = "none"
      BY <1>0, <1>3, <2>1
         DEF Effect, OwnEffect, ReleaseEffect, ReleasedEffect, TaskEffect, HandlerEffect,
             AckEffect, AckMoves, HeartbeatEffect, AbandonEffect, Acked, AcksKept, CanSettle,
             SettledOnce, AckAwaited, Callers
    <2> QED BY <1>0, <1>3, <2>2 DEF Effect, Kept, SettledOnce
  <1> QED
    BY <1>0, <1>1, <1>2, <1>3, WorkerSteps, OtherSteps, StartJobsActs, StopDrainActs, ExecStepActs

\* Every step preserves AckAwaited: only a lost lease cancels a task at its ack.
LEMMA AckAwaitedStep ==
    ASSUME ShutdownInv, [Next]_vars
    PROVE  AckAwaited'
  <1>0. TypeOK /\ SettledOnce /\ AckAwaited /\ KnownAreLeased
    BY DEF ShutdownInv, AckInv
  <1>1. CASE UNCHANGED <<ack, phase, cancelled, leaseLost>>
    BY <1>0, <1>1 DEF AckAwaited
  <1>2. ASSUME NEW S \in SUBSET Claimable, ClaimStep(S) PROVE AckAwaited'
    BY <1>0, <1>2, ClaimOfUnknown DEF AckAwaited
  <1>3. CASE StartJobs
    <2>1. \A x \in Execs : phase[x] = "received" => ack[x]["process"] = "none"
      BY <1>0 DEF KnownAreLeased, SettledOnce, TakenOn, TaskAlive, Callers
    <2> QED BY <1>0, <1>3, <2>1, StartJobsActs DEF AckAwaited
  <1>4. CASE StopDrain
    <2>1. \A x \in ToCancel : phase[x] # "acking"
      BY <1>0 DEF ToCancel, Slots, SettledOnce, AckAwaited, Callers
    <2> QED BY <1>0, <1>4, <2>1, StopDrainActs DEF AckAwaited
  <1>5. ASSUME NEW y \in Execs, Effect(y) PROVE AckAwaited'
    <2>1. settled[y] \in BOOLEAN /\ ack[y]["process"] \in AckPcs
      BY <1>0 DEF TypeOK, Callers
    <2>2. /\ phase'[y] = "acking" <=> ack'[y]["process"] \in {"sent", "landed"}
          /\ phase'[y] = "acking" /\ cancelled'[y] => leaseLost'[y]
          /\ phase'[y] \in {"created", "running"} => ack'[y]["process"] = "none"
      BY <1>0, <1>5, <2>1
         DEF Effect, OwnEffect, ReleaseEffect, ReleasedEffect, TaskEffect, HandlerEffect,
             AckEffect, AckMoves, HeartbeatEffect, AbandonEffect, Acked, AcksKept, CanSettle,
             SettledOnce, AckAwaited, Callers, AckPcs
    <2> QED BY <1>0, <1>5, <2>2 DEF Effect, Kept, AckAwaited
  <1> QED
    BY <1>0, <1>1, <1>2, <1>3, <1>4, <1>5, WorkerSteps, OtherSteps, ExecStepActs

\* Every step preserves AckCutOnlyWhenLost.
LEMMA AckCutStep ==
    ASSUME ShutdownInv, [Next]_vars
    PROVE  AckCutOnlyWhenLost'
  <1>0. TypeOK /\ SettledOnce /\ AckAwaited /\ AckCutOnlyWhenLost
    BY DEF ShutdownInv, AckInv
  <1>1. CASE UNCHANGED <<ack, leaseLost>>
    BY <1>0, <1>1 DEF AckCutOnlyWhenLost
  <1>2. ASSUME NEW S \in SUBSET Claimable, ClaimStep(S) PROVE UNCHANGED <<ack, leaseLost>>
    BY <1>2 DEF ClaimStep, ClaimReturns, ClaimFails
  <1>3. ASSUME NEW y \in Execs, Effect(y) PROVE AckCutOnlyWhenLost'
    <2>1. ack'[y]["process"] = "cut" => leaseLost'[y]
      BY <1>0, <1>3
         DEF Effect, OwnEffect, ReleaseEffect, ReleasedEffect, TaskEffect, HandlerEffect,
             AckEffect, AckMoves, HeartbeatEffect, AbandonEffect, Acked, AcksKept,
             AckAwaited, AckCutOnlyWhenLost, Callers
    <2> QED BY <1>0, <1>3, <2>1 DEF Effect, Kept, AckCutOnlyWhenLost
  <1> QED
    BY <1>0, <1>1, <1>2, <1>3, WorkerSteps, OtherSteps, StartJobsActs, StopDrainActs, ExecStepActs

-----------------------------------------------------------------------------
(* Slots *)

\* The jobs of a claim take the slots of their jobs.
LEMMA StartJobsSlots ==
    ASSUME TypeOK, ReceivedAreNew, StartJobs, NEW x \in Execs
    PROVE  Owns(x)' <=> x \in Received \/ (Owns(x) /\ \A y \in Received : y[1] # x[1])
  <1>0. x[1] \in Jobs /\ Received \subseteq Execs
    BY ExecParts DEF Received
  <1>1. active'[x[1]] = IF \E y \in Received : y[1] = x[1]
                        THEN (CHOOSE y \in Received : y[1] = x[1])[2] ELSE active[x[1]]
    BY <1>0 DEF StartJobs
  <1>2. CASE \E y \in Received : y[1] = x[1]
    <2>1. PICK y \in Received : y = CHOOSE z \in Received : z[1] = x[1]
      BY <1>2
    <2>2. y[1] = x[1]
      BY <1>2, <2>1
    <2>3. active'[x[1]] = y[2]
      BY <1>1, <1>2, <2>1
    <2>4. x \in Received <=> x = y
      BY <2>2 DEF ReceivedAreNew
    <2>5. x = y <=> x[2] = y[2]
      BY <1>0, <2>2, ExecParts
    <2> QED BY <1>2, <2>2, <2>3, <2>4, <2>5 DEF Owns
  <1>3. CASE \A y \in Received : y[1] # x[1]
    BY <1>1, <1>3 DEF Owns
  <1> QED BY <1>2, <1>3

\* Only StartJobs gives out slots.
LEMMA SlotTakenByStartJobs ==
    ASSUME TypeOK, ReceivedAreNew, [Next]_vars, NEW x \in Execs, Owns(x)', ~Owns(x)
    PROVE  StartJobs /\ x \in Received
  <1>1. active'[x[1]] # active[x[1]]
    BY DEF Owns
  <1>2. ASSUME NEW S \in SUBSET Claimable, ClaimStep(S) PROVE FALSE
    BY <1>1, <1>2 DEF ClaimStep, ClaimReturns, ClaimFails
  <1>3. ASSUME NEW y \in Execs, Effect(y) PROVE FALSE
    <2>1. x = y
      BY <1>3 DEF Effect, Kept
    <2> QED
      BY <1>3, <2>1
         DEF Effect, OwnEffect, ReleaseEffect, ReleasedEffect, TaskEffect, HandlerEffect,
             AckEffect, HeartbeatEffect, AbandonEffect, Acked, SlotKept, Freed
  <1> QED
    BY <1>1, <1>2, <1>3, WorkerSteps, OtherSteps, StopDrainActs, ExecStepActs, StartJobsSlots

-----------------------------------------------------------------------------
(* What the worker knows *)

\* start() registers once.
LEMMA RegisteredForGood ==
    ASSUME ControlInv, [Next]_vars, Registered
    PROVE  Registered'
  <1>1. CASE mainPc' = mainPc
    BY <1>1 DEF Registered
  <1>2. CASE ControlStep
    <2>1. CASE \/ StartCall \/ RegisterReturns \/ RegisterFails \/ PollStart \/ PollEnds
               \/ LeaveLoop \/ StartReturns
      BY <2>1 DEF StartCall, RegisterReturns, RegisterFails, PollStart, PollEnds, LeaveLoop,
                  StartReturns, Registered, ControlInv
    <2>2. CASE \/ StopCall \/ DeadlinePasses \/ StopWaitsForClaim \/ StopGrace
               \/ StopAbandonsNext \/ StopAbandoned \/ StopDeregisters \/ StopEnds
               \/ WorkerHeartbeatStep
      BY <1>1, <2>2 DEF StopCall, DeadlinePasses, StopWaitsForClaim, StopGrace,
                        StopAbandonsNext, StopAbandoned, StopDeregisters, StopEnds,
                        WorkerHeartbeatStep
    <2> QED BY <1>2, <2>1, <2>2 DEF ControlStep
  <1>3. CASE StartJobs \/ \E S \in SUBSET Claimable : ClaimStep(S)
    BY <1>3 DEF StartJobs, ClaimStep, ClaimReturns, ClaimFails, Registered
  <1>4. ASSUME NEW y \in Execs, ExecStep(y) PROVE mainPc' = mainPc
    BY <1>4 DEF ExecStep, ReleaseJob, ReleaseReturns, TaskStep, TaskStarts, TaskNeverStarts,
                CleanupEnds, AckCut, CancelReachesHandler, HandlerCatchesCancel,
                HandlerSwallowsCancel, HeartbeatStep, HeartbeatWakes, HeartbeatAnswered,
                HeartbeatRejected, HeartbeatCancelled, HandlerReturns, JobTimesOut,
                HandlerCancelsItself, StopAbandons, AckStep, AckLands, AckAnswered, AckRejected
  <1> QED BY <1>1, <1>2, <1>3, <1>4, WorkerSteps DEF LeaseExpires, StopDrain

\* Every step preserves KnownAreLeased.
LEMMA KnownAreLeasedStep ==
    ASSUME ShutdownInv, [Next]_vars
    PROVE  KnownAreLeased'
  <1>0. TypeOK /\ KnownAreLeased /\ ReceivedAreNew /\ ControlInv
    BY DEF ShutdownInv, AckInv
  <1>1. ASSUME NEW x \in Execs, phase'[x] # "unclaimed"
        PROVE  Leased(x)' /\ Registered'
    <2>1. CASE phase[x] # "unclaimed"
      BY <1>0, <2>1, LeasesOnlyEnd, RegisteredForGood DEF KnownAreLeased
    <2>2. CASE phase[x] = "unclaimed"
      <3>1. ASSUME NEW S \in SUBSET Claimable, ClaimStep(S) PROVE Leased(x)' /\ Registered'
        BY <1>0, <1>1, <2>2, <3>1, ClaimOfUnknown DEF Registered
      <3>2. ASSUME NEW y \in Execs, Effect(y) PROVE FALSE
        <4>1. x = y
          BY <1>1, <2>2, <3>2 DEF Effect, Kept
        <4>2. ack[x]["process"] = "none" /\ ack[x]["stop"] = "none" /\ heartbeat[x] = "off" /\ ~Owns(x)
          BY <1>0, <2>2 DEF ShutdownInv, AckInv, KnownAreLeased, TakenOn, TaskAlive, SettledOnce, Callers
        <4> QED
          BY <1>1, <2>2, <3>2, <4>1, <4>2
             DEF Effect, OwnEffect, ReleaseEffect, ReleasedEffect, TaskEffect, HandlerEffect,
                 AckEffect, AckMoves, HeartbeatEffect, AbandonEffect, Callers
      <3> QED
        BY <1>0, <1>1, <2>2, <3>1, <3>2, WorkerSteps, OtherSteps, StartJobsActs, StopDrainActs,
           ExecStepActs
    <2> QED BY <2>1, <2>2
  <1>2. ASSUME NEW x \in Execs, heartbeat'[x] # "off" \/ Owns(x)' \/ settled'[x]
        PROVE  x \in TakenOn'
    <2>1. CASE x \in TakenOn
      BY <1>0, <2>1, TakenOnForGood
    <2>2. CASE Owns(x)' /\ ~Owns(x)
      <3>1. StartJobs /\ phase[x] = "received"
        BY <1>0, <2>2, SlotTakenByStartJobs DEF Received
      <3>2. phase'[x] = "created"
        BY <1>0, <3>1, StartJobsActs
      <3> QED BY <3>2 DEF TakenOn, TaskAlive
    <2>3. CASE x \notin TakenOn /\ (heartbeat'[x] # "off" \/ settled'[x])
      <3>1. heartbeat[x] = "off" /\ ~settled[x] /\ ~Owns(x)
        BY <1>0, <2>3 DEF KnownAreLeased
      <3>2. ASSUME NEW y \in Execs, Effect(y) PROVE x \in TakenOn'
        <4>1. x = y
          BY <2>3, <3>1, <3>2 DEF Effect, Kept
        <4> QED
          BY <2>3, <3>1, <3>2, <4>1
             DEF Effect, OwnEffect, ReleaseEffect, ReleasedEffect, TaskEffect, HandlerEffect,
                 AckEffect, AckMoves, HeartbeatEffect, AbandonEffect, Acked, AcksKept, SlotKept,
                 Freed, CanSettle, TakenOn, TaskAlive
      <3>3. ASSUME NEW S \in SUBSET Claimable, ClaimStep(S) PROVE FALSE
        BY <2>3, <3>1, <3>3 DEF ClaimStep, ClaimReturns, ClaimFails
      <3> QED
        BY <1>0, <2>3, <3>1, <3>2, <3>3, WorkerSteps, OtherSteps, StartJobsActs, StopDrainActs,
           ExecStepActs
    <2>4. heartbeat'[x] # "off" \/ settled'[x] \/ (Owns(x)' /\ ~Owns(x)) \/ Owns(x)
      BY <1>2
    <2>5. Owns(x) => x \in TakenOn
      BY <1>0 DEF KnownAreLeased
    <2> QED BY <2>1, <2>2, <2>3, <2>4, <2>5
  <1> QED BY <1>1, <1>2 DEF KnownAreLeased

\* Every step preserves LostAreLost.
LEMMA LostAreLostStep ==
    ASSUME ShutdownInv, [Next]_vars
    PROVE  LostAreLost'
  <1>0. TypeOK /\ KnownAreLeased /\ LostAreLost /\ SettledOnce
    BY DEF ShutdownInv, AckInv
  <1> SUFFICES ASSUME NEW x \in Execs, leaseLost'[x] PROVE Leased(x)' /\ ~Live(x)'
    BY DEF LostAreLost
  <1>1. CASE leaseLost[x]
    BY <1>0, <1>1, LeasesOnlyEnd DEF LostAreLost
  <1>2. CASE ~leaseLost[x]
    <2>1. ASSUME NEW y \in Execs, Effect(y) PROVE Leased(x) /\ ~Live(x)
      <3>1. x = y
        BY <1>2, <2>1 DEF Effect, Kept
      <3>2. /\ ~Live(x)
            /\ heartbeat[x] # "off" \/ \E c \in Callers : ack[x][c] \in {"sent", "landed"}
        BY <1>2, <2>1, <3>1
           DEF Effect, OwnEffect, ReleaseEffect, ReleasedEffect, TaskEffect, HandlerEffect,
               AckEffect, AckMoves, HeartbeatEffect, AbandonEffect
      <3>3. heartbeat[x] # "off" \/ settled[x]
        BY <1>0, <3>2 DEF SettledOnce
      <3> QED BY <1>0, <3>2, <3>3 DEF KnownAreLeased, TakenOn, TaskAlive
    <2>2. ASSUME NEW S \in SUBSET Claimable, ClaimStep(S) PROVE FALSE
      BY <1>2, <2>2 DEF ClaimStep, ClaimReturns, ClaimFails
    <2>3. Leased(x) /\ ~Live(x)
      BY <1>0, <1>2, <2>1, <2>2, WorkerSteps, OtherSteps, StartJobsActs, StopDrainActs, ExecStepActs
    <2> QED BY <1>0, <2>3, LeasesOnlyEnd
  <1> QED BY <1>1, <1>2

\* Executions are taken on by StartJobs, and received from a claim.
LEMMA TakenOnByStartJobs ==
    ASSUME ShutdownInv, [Next]_vars, NEW x \in TakenOn', x \notin TakenOn
    PROVE  StartJobs /\ x \in Received
  <1>0. TypeOK /\ KnownAreLeased /\ SettledOnce /\ x \in Execs
    BY DEF ShutdownInv, AckInv, TakenOn
  <1>1. phase'[x] # phase[x]
    BY DEF TakenOn, TaskAlive
  <1>2. ASSUME NEW S \in SUBSET Claimable, ClaimStep(S) PROVE FALSE
    BY <1>0, <1>1, <1>2, ClaimOfUnknown DEF TakenOn, TaskAlive
  <1>3. ASSUME NEW y \in Execs, Effect(y) PROVE FALSE
    <2>1. x = y
      BY <1>0, <1>1, <1>3 DEF Effect, Kept
    <2>2. ack[x]["process"] = "none" /\ ack[x]["stop"] = "none"
      BY <1>0 DEF KnownAreLeased, SettledOnce, Callers
    <2> QED
      BY <1>0, <1>3, <2>1, <2>2
         DEF Effect, OwnEffect, ReleaseEffect, ReleasedEffect, TaskEffect, HandlerEffect,
             AckEffect, AckMoves, HeartbeatEffect, AbandonEffect, TakenOn, TaskAlive, Callers
  <1>4. CASE StartJobs
    BY <1>0, <1>1, <1>4, StartJobsActs DEF Received
  <1> QED
    BY <1>1, <1>2, <1>3, <1>4, WorkerSteps, OtherSteps, StopDrainActs, <1>0, ExecStepActs

LEMMA ReceivedByClaim ==
    ASSUME ShutdownInv, [Next]_vars, NEW x \in Received', x \notin Received
    PROVE  \E S \in SUBSET Claimable : ClaimReturns(S) /\ x \in NewLeases(S)
  <1>0. TypeOK /\ KnownAreLeased /\ x \in Execs /\ phase'[x] = "received" /\ phase[x] # "received"
    BY DEF ShutdownInv, AckInv, Received
  <1>1. ASSUME NEW S \in SUBSET Claimable, ClaimStep(S)
        PROVE  ClaimReturns(S) /\ x \in NewLeases(S)
    BY <1>0, <1>1 DEF ClaimStep, ClaimReturns, ClaimFails
  <1>2. ASSUME NEW y \in Execs, Effect(y) PROVE FALSE
    <2>1. x = y
      BY <1>0, <1>2 DEF Effect, Kept
    <2> QED
      BY <1>0, <1>2, <2>1
         DEF Effect, OwnEffect, ReleaseEffect, ReleasedEffect, TaskEffect, HandlerEffect,
             AckEffect, HeartbeatEffect, AbandonEffect
  <1> QED
    BY <1>0, <1>1, <1>2, WorkerSteps, OtherSteps, StartJobsActs, StopDrainActs, ExecStepActs

\* What came with a claim is gone when its poll ends.
LEMMA DeliveryEnds ==
    ASSUME ControlInv, ControlStep, mainPc = "deliver", mainPc' # "deliver"
    PROVE  PollEnds
  <1>1. ASSUME \/ StopCall \/ DeadlinePasses \/ StopWaitsForClaim \/ StopGrace
               \/ StopAbandonsNext \/ StopAbandoned \/ StopDeregisters \/ StopEnds
               \/ WorkerHeartbeatStep
        PROVE  FALSE
    BY <1>1 DEF StopCall, DeadlinePasses, StopWaitsForClaim, StopGrace, StopAbandonsNext,
                StopAbandoned, StopDeregisters, StopEnds, WorkerHeartbeatStep
  <1>2. ASSUME StartCall \/ RegisterReturns \/ RegisterFails \/ PollStart \/ LeaveLoop \/ StartReturns
        PROVE  FALSE
    BY <1>2 DEF StartCall, RegisterReturns, RegisterFails, PollStart, LeaveLoop, StartReturns,
                ControlInv, Registered
  <1> QED BY <1>1, <1>2 DEF ControlStep

\* The intake closes once.
LEMMA IntakeClosedForGood ==
    ASSUME TypeOK, [Next]_vars, intakeClosed
    PROVE  intakeClosed'
  <1>1. CASE ControlStep
    BY <1>1
       DEF ControlStep, StartCall, RegisterReturns, RegisterFails, PollStart, PollEnds, LeaveLoop,
           StartReturns, StopCall, DeadlinePasses, StopWaitsForClaim, StopGrace,
           StopAbandonsNext, StopAbandoned, StopDeregisters, StopEnds, WorkerHeartbeatStep
  <1>2. CASE LeaseExpires \/ UNCHANGED vars \/ \E S \in SUBSET Claimable : ClaimStep(S)
    BY <1>2 DEF LeaseExpires, ClaimStep, ClaimReturns, ClaimFails
  <1>3. ASSUME NEW y \in Execs, Effect(y) PROVE intakeClosed'
    BY <1>3 DEF Effect, AbandonEffect
  <1> QED BY <1>1, <1>2, <1>3, WorkerSteps, StartJobsActs, StopDrainActs, ExecStepActs

\* Every step preserves ReceivedAreNew.
LEMMA ReceivedAreNewStep ==
    ASSUME ShutdownInv, [Next]_vars
    PROVE  ReceivedAreNew'
  <1>0. TypeOK /\ KnownAreLeased /\ ReceivedAreNew /\ ControlInv
    BY DEF ShutdownInv, AckInv
  <1>1. ASSUME NEW x \in Execs, phase'[x] = "received" PROVE mainPc' = "deliver"
    <2>1. CASE phase[x] = "received"
      <3>1. mainPc = "deliver"
        BY <1>0, <2>1 DEF ReceivedAreNew
      <3>2. ~StartJobs /\ ~PollEnds /\ \A S \in SUBSET Claimable : ~ClaimStep(S)
        BY <1>0, <1>1, <2>1, <3>1, StartJobsActs DEF PollEnds, ClaimStep, ClaimReturns, ClaimFails
      <3>3. ASSUME NEW y \in Execs, Effect(y) PROVE mainPc' = mainPc
        BY <3>3 DEF Effect, AbandonEffect
      <3> QED
        BY <1>0, <3>1, <3>2, <3>3, WorkerSteps, DeliveryEnds, StopDrainActs, ExecStepActs
           DEF LeaseExpires
    <2>2. CASE phase[x] # "received"
      <3>1. x \in Received' /\ x \notin Received
        BY <1>1, <2>2 DEF Received
      <3> QED BY <3>1, ReceivedByClaim DEF ClaimReturns
    <2> QED BY <2>1, <2>2
  <1>2. ASSUME NEW x \in Execs, phase'[x] = "releasing" PROVE mainPc' = "deliver" /\ intakeClosed'
    <2>1. CASE phase[x] = "releasing"
      <3>1. mainPc = "deliver" /\ intakeClosed
        BY <1>0, <2>1 DEF ReceivedAreNew
      <3>2. ~StartJobs /\ ~PollEnds /\ \A S \in SUBSET Claimable : ~ClaimStep(S)
        BY <1>0, <2>1, <3>1, StartJobsActs DEF PollEnds, ClaimStep, ClaimReturns, ClaimFails
      <3>3. ASSUME NEW y \in Execs, Effect(y) PROVE mainPc' = mainPc
        BY <3>3 DEF Effect, AbandonEffect
      <3>4. mainPc' = "deliver"
        BY <1>0, <3>1, <3>2, <3>3, WorkerSteps, DeliveryEnds, StopDrainActs, ExecStepActs
           DEF LeaseExpires
      <3> QED BY <1>0, <3>1, <3>4, IntakeClosedForGood
    <2>2. CASE phase[x] # "releasing"
      <3>1. ASSUME NEW y \in Execs, Effect(y) PROVE mainPc' = "deliver" /\ intakeClosed'
        <4>1. x = y
          BY <1>2, <2>2, <3>1 DEF Effect, Kept
        <4> QED
          BY <1>2, <2>2, <3>1, <4>1
             DEF Effect, OwnEffect, ReleaseEffect, ReleasedEffect, TaskEffect, HandlerEffect,
                 AckEffect, HeartbeatEffect, AbandonEffect
      <3>2. ASSUME NEW S \in SUBSET Claimable, ClaimStep(S) PROVE FALSE
        BY <1>2, <2>2, <3>2 DEF ClaimStep, ClaimReturns, ClaimFails
      <3> QED
        BY <1>0, <1>2, <2>2, <3>1, <3>2, WorkerSteps, OtherSteps, StartJobsActs, StopDrainActs,
           ExecStepActs
    <2> QED BY <2>1, <2>2
  <1>3. ASSUME NEW S \in SUBSET Claimable, ClaimReturns(S)
        PROVE  /\ \A x, y \in Received' : x[1] = y[1] => x = y
               /\ \A y \in Received' : \A x \in TakenOn' : x[1] = y[1] => x[2] < y[2]
    <2>1. Received = {}
      BY <1>0, <1>3 DEF ClaimReturns, ReceivedAreNew, Received
    <2>2. Received' \subseteq NewLeases(S)
      BY <1>3, <2>1 DEF ClaimReturns, Received
    <2>3. ClaimStep(S)
      BY <1>3 DEF ClaimStep
    <2>4. ASSUME NEW y \in Received', NEW x \in TakenOn', x[1] = y[1] PROVE x[2] < y[2]
      <3>1. x \in TakenOn /\ x \in Execs
        BY <1>0, <1>3, TakenOnByStartJobs DEF TakenOn, ClaimReturns, StartJobs
      <3>2. Leased(x)
        BY <1>0, <3>1 DEF KnownAreLeased, TakenOn, TaskAlive
      <3>3. y \in Execs /\ ~Leased(y)
        BY <1>0, <2>2, <2>3, ClaimOfUnknown
      <3>4. attempts \in [Jobs -> 0 .. MaxAttempts]
        BY <1>0 DEF TypeOK, LeaseTypeOK
      <3> QED BY <2>4, <3>1, <3>2, <3>3, <3>4, ExecParts, AttemptsAssumption DEF Leased
    <2> QED BY <1>0, <2>2, <2>3, <2>4, ClaimOfUnknown
  <1>4. CASE \A S \in SUBSET Claimable : ~ClaimReturns(S)
    <2>1. Received' \subseteq Received
      BY <1>4, ReceivedByClaim
    <2>2. ASSUME NEW y \in Received' PROVE TakenOn' \subseteq TakenOn
      <3>1. ~StartJobs
        BY <1>0, <2>1, <2>2, StartJobsActs DEF Received
      <3> QED BY <3>1, TakenOnByStartJobs
    <2> QED BY <1>0, <1>1, <1>2, <2>1, <2>2 DEF ReceivedAreNew
  <1>5. CASE \E S \in SUBSET Claimable : ClaimReturns(S)
    BY <1>1, <1>2, <1>3, <1>5 DEF ReceivedAreNew
  <1> QED BY <1>4, <1>5

-----------------------------------------------------------------------------
(* Who holds a slot *)

\* An execution that holds its slot can be acked while its lease is live.
LEMMA LiveCanSettle ==
    ASSUME ShutdownInv, NEW x \in Execs, Live(x), Owns(x), ~settled[x]
    PROVE  CanSettle(x)
  <1>1. ~leaseLost[x]
    BY DEF ShutdownInv, LostAreLost
  <1>2. Registered
    BY DEF ShutdownInv, KnownAreLeased, TakenOn, TaskAlive
  <1>3. stopPc # "done"
    BY DEF ShutdownInv, StopProgress, Slots
  <1> QED BY <1>1, <1>2, <1>3 DEF CanSettle, ShutdownInv, ControlInv

\* A slot is freed by the end of its execution, or taken by a later one.
LEMMA SlotLost ==
    ASSUME ShutdownInv, [Next]_vars, NEW x \in Execs, Owns(x), ~Owns(x)'
    PROVE  \/ ~CanSettle(x) \/ settled[x] \/ Dropped(x)'
           \/ StartJobs /\ \E y \in Received : y[1] = x[1]
  <1>0. TypeOK /\ SettledOnce /\ AckAwaited /\ ReceivedAreNew
    BY DEF ShutdownInv, AckInv
  <1>1. active' # active
    BY DEF Owns
  <1>2. ASSUME NEW S \in SUBSET Claimable, ClaimStep(S) PROVE FALSE
    BY <1>1, <1>2 DEF ClaimStep, ClaimReturns, ClaimFails
  <1>3. ASSUME NEW y \in Execs, Effect(y) PROVE ~CanSettle(x) \/ settled[x] \/ Dropped(x)'
    <2>1. x = y
      BY <1>3 DEF Effect, Kept
    <2>2. \A c \in Callers : ack[x][c] # "none" => settled[x]
      BY <1>0 DEF SettledOnce
    <2>3. phase[x] = "acking" => settled[x]
      BY <1>0, <2>2 DEF AckAwaited, Callers
    <2> QED
      BY <1>3, <2>1, <2>2, <2>3
         DEF Effect, OwnEffect, ReleaseEffect, ReleasedEffect, TaskEffect, HandlerEffect,
             AckEffect, AckMoves, HeartbeatEffect, AbandonEffect, Acked, SlotKept, Dropped
  <1>4. CASE StartJobs
    BY <1>0, <1>4, StartJobsSlots
  <1> QED
    BY <1>0, <1>1, <1>2, <1>3, <1>4, WorkerSteps, OtherSteps, StopDrainActs, ExecStepActs

\* A dropped execution stays dropped.
LEMMA DroppedForGood ==
    ASSUME ShutdownInv, [Next]_vars, NEW x \in Execs, Dropped(x)
    PROVE  Dropped(x)'
  <1>0. TypeOK /\ KnownAreLeased /\ AckAwaited /\ phase[x] \in {"dropping", "dropped"}
    BY DEF ShutdownInv, AckInv, Dropped
  <1>1. CASE phase'[x] = phase[x]
    BY <1>0, <1>1 DEF Dropped
  <1>2. ASSUME NEW S \in SUBSET Claimable, ClaimStep(S) PROVE phase'[x] = phase[x]
    BY <1>0, <1>2, ClaimOfUnknown
  <1>3. ASSUME NEW y \in Execs, Effect(y) PROVE Dropped(x)'
    <2>1. CASE x = y
      BY <1>0, <1>3, <2>1
         DEF Effect, OwnEffect, ReleaseEffect, ReleasedEffect, TaskEffect, HandlerEffect,
             AckEffect, AckMoves, HeartbeatEffect, AbandonEffect, Dropped, AckAwaited, Callers
    <2>2. CASE x # y
      BY <1>1, <1>3, <2>2 DEF Effect, Kept
    <2> QED BY <2>1, <2>2
  <1> QED
    BY <1>0, <1>1, <1>2, <1>3, WorkerSteps, OtherSteps, StartJobsActs, StopDrainActs, ExecStepActs

\* Every step preserves UnsettledOwnTheirSlot.
LEMMA UnsettledOwnTheirSlotStep ==
    ASSUME ShutdownInv, [Next]_vars
    PROVE  UnsettledOwnTheirSlot'
  <1>0. TypeOK /\ KnownAreLeased /\ ReceivedAreNew /\ UnsettledOwnTheirSlot
    BY DEF ShutdownInv, AckInv
  <1> SUFFICES ASSUME NEW x \in TakenOn', Live(x)', ~settled'[x], ~Dropped(x)'
               PROVE  Owns(x)'
    BY DEF UnsettledOwnTheirSlot
  <1>1. x \in Execs
    BY DEF TakenOn
  <1>2. CASE x \notin TakenOn
    BY <1>0, <1>1, <1>2, TakenOnByStartJobs, StartJobsSlots
  <1>3. CASE x \in TakenOn
    <2>1. Leased(x)
      BY <1>0, <1>1, <1>3 DEF KnownAreLeased, TakenOn, TaskAlive
    <2>2. Live(x) /\ ~settled[x] /\ ~Dropped(x)
      BY <1>0, <1>1, <2>1, LeasesOnlyEnd, SettledForGood, DroppedForGood
    <2>3. Owns(x)
      BY <1>0, <1>3, <2>2 DEF UnsettledOwnTheirSlot
    <2>4. CanSettle(x)
      BY <1>1, <2>2, <2>3, LiveCanSettle
    <2>5. ASSUME NEW y \in Received, y[1] = x[1] PROVE FALSE
      <3>1. x[2] < y[2]
        BY <1>0, <1>3, <2>5 DEF ReceivedAreNew
      <3>2. y \in Execs /\ Leased(y)
        BY <1>0 DEF Received, KnownAreLeased
      <3>3. attempts \in [Jobs -> 0 .. MaxAttempts]
        BY <1>0 DEF TypeOK, LeaseTypeOK
      <3> QED BY <1>1, <2>2, <2>5, <3>1, <3>2, <3>3, ExecParts, AttemptsAssumption DEF Leased, Live
    <2> QED BY <1>1, <2>2, <2>3, <2>4, <2>5, SlotLost
  <1> QED BY <1>2, <1>3

-----------------------------------------------------------------------------
(* start() and stop() *)

\* Every step preserves ControlInv.
LEMMA ControlInvStep ==
    ASSUME ShutdownInv, [Next]_vars
    PROVE  ControlInv'
  <1>0. TypeOK /\ ControlInv
    BY DEF ShutdownInv, AckInv
  <1>1. CASE StartCall
    BY <1>0, <1>1 DEF StartCall, ControlInv, Registered
  <1>2. CASE RegisterReturns \/ RegisterFails
    BY <1>0, <1>2 DEF RegisterReturns, RegisterFails, ControlInv, Registered
  <1>3. CASE PollStart \/ PollEnds \/ StartReturns
    BY <1>0, <1>3 DEF PollStart, PollEnds, StartReturns, ControlInv, Registered
  <1>4. CASE LeaveLoop
    BY <1>0, <1>4 DEF LeaveLoop, ControlInv, Registered
  <1>5. CASE StopCall
    BY <1>0, <1>5 DEF StopCall, ControlInv, Registered
  <1>6. CASE \/ StopWaitsForClaim \/ StopGrace \/ StopAbandoned \/ StopDeregisters \/ StopDrain
    BY <1>0, <1>6 DEF StopWaitsForClaim, StopGrace, StopAbandoned, StopDeregisters, StopDrain,
                      ControlInv, Registered
  <1>7. CASE StopEnds
    BY <1>0, <1>7 DEF StopEnds, ControlInv, Registered
  <1>8. CASE UNCHANGED <<mainPc, wstate, stopPc, workerId>>
    BY <1>0, <1>8 DEF ControlInv, Registered
  <1>9. CASE DeadlinePasses \/ StopAbandonsNext \/ WorkerHeartbeatStep \/ LeaseExpires \/ UNCHANGED vars
    BY <1>8, <1>9 DEF DeadlinePasses, StopAbandonsNext, WorkerHeartbeatStep, LeaseExpires
  <1>10. CASE StartJobs \/ \E S \in SUBSET Claimable : ClaimStep(S)
    BY <1>0, <1>10 DEF StartJobs, ClaimStep, ClaimReturns, ClaimFails, ControlInv, Registered
  <1>11. ASSUME NEW y \in Execs, Effect(y) PROVE UNCHANGED <<mainPc, wstate, stopPc, workerId>>
    BY <1>11 DEF Effect, AbandonEffect
  <1> QED
    BY <1>0, <1>1, <1>2, <1>3, <1>4, <1>5, <1>6, <1>7, <1>8, <1>9, <1>10, <1>11, WorkerSteps,
       ExecStepActs DEF ControlStep

\* Every step preserves StopProgress.
LEMMA StopProgressStep ==
    ASSUME ShutdownInv, [Next]_vars
    PROVE  StopProgress'
  <1>0. TypeOK /\ StopProgress /\ ControlInv /\ stopPc \in StopPcs /\ ReceivedAreNew
    BY DEF ShutdownInv, AckInv, TypeOK
  <1>1. CASE UNCHANGED <<stopPc, stopTodo, abandoning, intakeClosed, workerHeartbeat, active, ack>>
    BY <1>0, <1>1 DEF StopProgress, Slots, Owns
  <1>2. CASE \/ StartCall \/ RegisterFails \/ PollStart \/ PollEnds \/ LeaveLoop
             \/ StartReturns \/ DeadlinePasses \/ LeaseExpires \/ UNCHANGED vars
             \/ \E S \in SUBSET Claimable : ClaimStep(S)
    BY <1>1, <1>2 DEF StartCall, RegisterFails, PollStart, PollEnds, LeaveLoop, StartReturns,
                      DeadlinePasses, LeaseExpires, ClaimStep, ClaimReturns, ClaimFails
  <1>3. CASE ControlStep
    <2>1. UNCHANGED <<active, ack>> /\ Slots' = Slots
      BY <1>3, ControlKeepsExecs DEF Slots, Owns
    <2>2. CASE RegisterReturns
      BY <1>0, <2>1, <2>2 DEF RegisterReturns, StopProgress, ControlInv
    <2>3. CASE StopCall
      BY <1>0, <2>1, <2>3 DEF StopCall, StopProgress
    <2>4. CASE StopWaitsForClaim \/ StopGrace
      BY <1>0, <2>1, <2>4 DEF StopWaitsForClaim, StopGrace, StopProgress
    <2>5. CASE StopAbandonsNext
      BY <1>0, <2>1, <2>5 DEF StopAbandonsNext, StopProgress
    <2>6. CASE StopAbandoned
      BY <1>0, <2>1, <2>6 DEF StopAbandoned, StopProgress
    <2>7. CASE StopDeregisters \/ StopEnds
      BY <1>0, <2>1, <2>7 DEF StopDeregisters, StopEnds, StopProgress
    <2>8. CASE WorkerHeartbeatStep
      BY <1>0, <2>1, <2>8 DEF WorkerHeartbeatStep, StopProgress
    <2> QED BY <1>2, <1>3, <2>2, <2>3, <2>4, <2>5, <2>6, <2>7, <2>8 DEF ControlStep
  <1>4. CASE StartJobs
    BY <1>0, <1>4, StartJobsActs DEF StopProgress, StopPcs
  <1>5. CASE StopDrain
    BY <1>0, <1>5, StopDrainActs DEF StopProgress
  <1>6. ASSUME NEW y \in Execs, Effect(y) PROVE StopProgress'
    <2>2. Slots' \subseteq Slots
      <3>1. ASSUME NEW x \in Execs, Owns(x)' PROVE Owns(x)
        <4>1. CASE x # y
          BY <1>6, <3>1, <4>1 DEF Effect, Kept
        <4>2. CASE x = y
          BY <1>6, <3>1, <4>2
             DEF Effect, OwnEffect, ReleaseEffect, ReleasedEffect, TaskEffect, HandlerEffect,
                 AckEffect, HeartbeatEffect, AbandonEffect, Acked, SlotKept, Freed
        <4> QED BY <4>1, <4>2
      <3> QED BY <3>1 DEF Slots
    <2>3. CASE OwnEffect(y) /\ UNCHANGED ctlVars
      <3>1. /\ ack[y]["stop"] = "none" => ack'[y]["stop"] = "none"
            /\ ack[y]["stop"] \in {"sent", "landed"} /\ Owns(y)' => ack'[y]["stop"] \in {"sent", "landed"}
        BY <2>3
           DEF OwnEffect, ReleaseEffect, ReleasedEffect, TaskEffect, HandlerEffect,
               AckEffect, AckMoves, HeartbeatEffect, Acked, AcksKept, Freed, Callers
      <3>2. \A x \in Execs : x # y => ack'[x] = ack[x]
        BY <1>6 DEF Effect, Kept
      <3> QED BY <1>0, <2>2, <2>3, <3>1, <3>2 DEF StopProgress, Slots
    <2>4. CASE AbandonEffect(y)
      <3>1. Owns(y)' => ack'[y]["stop"] = "sent"
        BY <2>4 DEF AbandonEffect, Acked, Freed
      <3> QED BY <1>0, <2>2, <2>4, <3>1 DEF AbandonEffect, StopProgress, Slots
    <2> QED BY <1>6, <2>3, <2>4 DEF Effect
  <1> QED
    BY <1>0, <1>2, <1>3, <1>4, <1>5, <1>6, WorkerSteps, ExecStepActs

\* Only the drain of stop() closes the intake.
LEMMA IntakeKept ==
    ASSUME ControlStep \/ LeaseExpires \/ UNCHANGED vars
    PROVE  intakeClosed' = intakeClosed
  BY DEF ControlStep, StartCall, RegisterReturns, RegisterFails, PollStart, PollEnds, LeaveLoop,
         StartReturns, StopCall, DeadlinePasses, StopWaitsForClaim, StopGrace,
         StopAbandonsNext, StopAbandoned, StopDeregisters, StopEnds, WorkerHeartbeatStep,
         LeaseExpires

\* Every step preserves BeatingOwn.
LEMMA BeatingOwnStep ==
    ASSUME ShutdownInv, [Next]_vars
    PROVE  BeatingOwn'
  <1>0. TypeOK /\ KnownAreLeased /\ ReceivedAreNew /\ StopProgress /\ BeatingOwn /\ SettledOnce
        /\ stopPc \in StopPcs
    BY DEF ShutdownInv, AckInv, TypeOK
  <1> SUFFICES ASSUME NEW x \in Execs, ~Superseded(x)'
               PROVE  /\ heartbeat'[x] \in {"asleep", "sent"} => Owns(x)'
                      /\ phase'[x] = "created" /\ ~cancelled'[x] => Owns(x)' /\ ~intakeClosed'
    BY DEF BeatingOwn
  <1>1. ~Superseded(x)
    BY <1>0, TakenOnForGood DEF Superseded
  <1>2. /\ heartbeat[x] \in {"asleep", "sent"} => Owns(x)
        /\ phase[x] = "created" /\ ~cancelled[x] => Owns(x) /\ ~intakeClosed
    BY <1>0, <1>1 DEF BeatingOwn
  <1>3. CASE ControlStep \/ LeaseExpires \/ UNCHANGED vars
    BY <1>2, <1>3, OtherSteps, IntakeKept DEF Owns
  <1>4. ASSUME NEW S \in SUBSET Claimable, ClaimStep(S)
        PROVE  /\ UNCHANGED <<active, heartbeat, cancelled, intakeClosed>>
               /\ phase'[x] = "created" => phase[x] = "created"
    BY <1>0, <1>4, ClaimOfUnknown
  <1>5. CASE StartJobs
    <2>1. heartbeat[x] \in {"asleep", "sent"} \/ phase[x] = "created" => x \in TakenOn
      BY <1>0 DEF KnownAreLeased, TakenOn, TaskAlive
    <2>2. ASSUME NEW y \in Received, y[1] = x[1], x \in TakenOn PROVE FALSE
      <3>1. x[2] < y[2]
        BY <1>0, <2>2 DEF ReceivedAreNew
      <3>2. y \in TakenOn'
        BY <1>0, <1>5, StartJobsActs DEF Received, TakenOn, TaskAlive
      <3>3. x[2] \in Int /\ y[2] \in Int
        BY ExecParts DEF Received
      <3> QED BY <2>2, <3>1, <3>2, <3>3 DEF Superseded
    <2>3. Owns(x)' <=> x \in Received \/ (Owns(x) /\ \A y \in Received : y[1] # x[1])
      BY <1>0, <1>5, StartJobsSlots
    <2>4. phase'[x] = "created" => phase[x] = "created" \/ x \in Received
      BY <1>0, <1>5, StartJobsActs DEF Received
    <2> QED BY <1>0, <1>2, <1>5, <2>1, <2>2, <2>3, <2>4, StartJobsActs
  <1>6. CASE StopDrain
    <2>1. UNCHANGED <<active, heartbeat, phase>> /\ stopPc = "drain"
          /\ (cancelled'[x] <=> cancelled[x] \/ x \in ToCancel)
      BY <1>0, <1>6, StopDrainActs
    <2>2. ASSUME phase[x] = "created", ~cancelled[x] PROVE x \in ToCancel
      <3>1. ~settled[x]
        <4>1. ack[x]["stop"] = "none" /\ ack[x]["process"] = "none"
          BY <1>0, <2>1, <2>2 DEF StopProgress, ShutdownInv, AckInv, AckAwaited
        <4> QED BY <1>0, <4>1 DEF SettledOnce, Callers
      <3> QED BY <1>2, <2>2, <3>1 DEF ToCancel, Slots, TaskAlive
    <2> QED BY <1>2, <2>1, <2>2 DEF Owns
  <1>7. ASSUME NEW y \in Execs, Effect(y)
        PROVE  /\ heartbeat'[x] \in {"asleep", "sent"} => Owns(x)'
               /\ phase'[x] = "created" /\ ~cancelled'[x] => Owns(x)' /\ ~intakeClosed'
    <2>1. intakeClosed' = intakeClosed
      BY <1>7 DEF Effect, AbandonEffect
    <2>2. CASE x # y
      BY <1>2, <1>7, <2>1, <2>2 DEF Effect, Kept
    <2>3. CASE x = y
      <3>1. ack[x]["stop"] # "none" \/ stopPc = "abandon" => intakeClosed
        BY <1>0 DEF StopProgress, StopPcs
      <3>2. phase[x] = "created" => ack[x]["process"] = "none"
        BY DEF ShutdownInv, AckInv, AckAwaited
      <3> QED
        BY <1>2, <1>7, <2>1, <2>3, <3>1, <3>2
           DEF Effect, OwnEffect, ReleaseEffect, ReleasedEffect, TaskEffect, HandlerEffect,
               AckEffect, AckMoves, HeartbeatEffect, AbandonEffect, Acked, AcksKept, SlotKept,
               Freed, Callers
    <2> QED BY <2>2, <2>3
  <1> QED
    BY <1>0, <1>2, <1>3, <1>4, <1>5, <1>6, <1>7, WorkerSteps, ExecStepActs DEF Owns

LEMMA InitShutdownInv == Init => ShutdownInv
  <1> SUFFICES ASSUME Init PROVE ShutdownInv
    OBVIOUS
  <1>1. TypeOK
    BY InitTypeOK
  <1>2. SettledOnce /\ AckAwaited /\ AckCutOnlyWhenLost
    BY DEF Init, SettledOnce, AckAwaited, AckCutOnlyWhenLost, Callers
  <1>3. TakenOn = {} /\ Received = {} /\ Slots = {}
    BY ExecParts DEF Init, TakenOn, TaskAlive, Received, Slots, Owns, NoSlot
  <1>4. KnownAreLeased
    BY <1>3, ExecParts DEF Init, KnownAreLeased, Owns, NoSlot
  <1>5. LostAreLost /\ UnsettledOwnTheirSlot /\ BeatingOwn
    BY <1>3 DEF Init, LostAreLost, UnsettledOwnTheirSlot, BeatingOwn
  <1>6. ReceivedAreNew
    BY <1>3 DEF Init, ReceivedAreNew
  <1>7. ControlInv
    BY DEF Init, ControlInv, Registered
  <1>8. StopProgress
    BY DEF Init, StopProgress, Callers
  <1> QED BY <1>8, <1>1, <1>2, <1>4, <1>5, <1>6, <1>7 DEF ShutdownInv, AckInv

\* The invariant behind the safety properties: every execution that may still be acked holds
\* the slot of its job, and stop() passes over none.
THEOREM ShutdownInvariant == Spec => []ShutdownInv
<1>1. ShutdownInv /\ [Next]_vars => ShutdownInv'
  <2> SUFFICES ASSUME ShutdownInv, [Next]_vars PROVE ShutdownInv'
    OBVIOUS
  <2>1. TypeOK'
    BY NextTypeOK DEF ShutdownInv, AckInv
  <2>2. AckInv'
    BY <2>1, SettledOnceStep, AckAwaitedStep, AckCutStep DEF AckInv
  <2> QED
    BY <2>2, KnownAreLeasedStep, LostAreLostStep, ReceivedAreNewStep,
       UnsettledOwnTheirSlotStep, ControlInvStep, StopProgressStep, BeatingOwnStep
       DEF ShutdownInv
<1> QED
  BY InitShutdownInv, <1>1, PTL DEF Spec

\* No execution is dropped silently: one whose task is through and whose slot is free was
\* settled or has lost its lease, wherever the cancellation of its task struck.
THEOREM NoSilentDropHolds == Spec => []NoSilentDrop
<1>1. ShutdownInv => NoSilentDrop
  BY DEF ShutdownInv, UnsettledOwnTheirSlot, NoSilentDrop, TakenOn, Dropped
<1> QED
  BY ShutdownInvariant, <1>1, PTL

\* stop() and lost heartbeats cut off the answer of a handler only when the lease is lost.
THEOREM AckCutOnlyWhenLostHolds == Spec => []AckCutOnlyWhenLost
<1>1. ShutdownInv => AckCutOnlyWhenLost
  BY DEF ShutdownInv, AckInv
<1> QED
  BY ShutdownInvariant, <1>1, PTL

\* When stop() is through nothing of it runs on, and start() returns after it with every job
\* of a late claim failed: the caller may close the client.
THEOREM QuietWhenStoppedHolds == Spec => []QuietWhenStopped
<1>1. ShutdownInv => QuietWhenStopped
  <2> SUFFICES ASSUME ShutdownInv PROVE QuietWhenStopped
    OBVIOUS
  <2>1. ASSUME stopPc = "done"
        PROVE  /\ Slots = {} /\ workerHeartbeat = "off"
               /\ \A x \in Execs : heartbeat[x] \in {"asleep", "sent"} => Superseded(x)
    BY <2>1 DEF ShutdownInv, StopProgress, BeatingOwn, Slots
  <2>2. ASSUME mainPc = "returned"
        PROVE  stopPc = "done" /\ \A x \in Execs : phase[x] \notin {"received", "releasing"}
    BY <2>2 DEF ShutdownInv, ControlInv, ReceivedAreNew
  <2> QED BY <2>1, <2>2 DEF QuietWhenStopped
<1> QED
  BY ShutdownInvariant, <1>1, PTL

-----------------------------------------------------------------------------
(* Slots and claims within the concurrency *)

\* As many executions come with a claim as jobs were claimed.
LEMMA ClaimCount ==
    ASSUME TypeOK, NEW S \in SUBSET Claimable
    PROVE  Cardinality(NewLeases(S)) <= Cardinality(S)
  <1>1. S \subseteq Jobs
    BY DEF Claimable
  <1>2. IsFiniteSet(S)
    BY <1>1, JobsAssumption, FS_Subset
  <1> DEFINE f == [j \in S |-> <<j, attempts[j] + 1>>]
  <1>3. f \in Surjection(S, NewLeases(S))
    BY DEF NewLeases, Surjection
  <1> QED BY <1>2, <1>3, FS_Surjection

\* Every step preserves ClaimFits.
LEMMA ClaimFitsStep ==
    ASSUME ShutdownInv, ClaimFits, [Next]_vars
    PROVE  ClaimFits'
  <1>0. /\ TypeOK /\ ReceivedAreNew /\ limit \in Nat /\ Slots \in SUBSET Execs
        /\ Received \in SUBSET Execs
        /\ Cardinality(Slots) \in Nat /\ Cardinality(Received) \in Nat
        /\ Slots' \in SUBSET Execs /\ Received' \in SUBSET Execs
        /\ Cardinality(Slots') \in Nat /\ Cardinality(Received') \in Nat
    <2>1. /\ Slots \in SUBSET Execs /\ Received \in SUBSET Execs
          /\ Slots' \in SUBSET Execs /\ Received' \in SUBSET Execs
      BY DEF Slots, Received
    <2> QED BY <2>1, FiniteParts, ConcurrencyAssumption DEF ShutdownInv, AckInv, TypeOK
  <1>1. ASSUME Slots' \subseteq Slots, Received' \subseteq Received,
               limit' = limit, mainPc' = mainPc
        PROVE  ClaimFits'
    <2>1. Cardinality(Slots') <= Cardinality(Slots) /\ Cardinality(Received') <= Cardinality(Received)
      BY <1>0, <1>1, FiniteParts
    <2> QED BY <1>0, <1>1, <2>1, ConcurrencyAssumption DEF ClaimFits
  <1>2. CASE ControlStep \/ LeaseExpires \/ UNCHANGED vars
    <2>1. Slots' = Slots /\ Received' = Received
      BY <1>2, OtherSteps DEF Slots, Owns, Received
    <2>2. mainPc \notin {"claiming", "deliver"} => limit = 0 /\ Received = {}
      BY <1>0 DEF ClaimFits, ReceivedAreNew, Received
    <2>3. CASE UNCHANGED <<limit, mainPc>>
      BY <1>1, <2>1, <2>3
    <2>4. CASE \/ StopCall \/ DeadlinePasses \/ StopWaitsForClaim \/ StopGrace
               \/ StopAbandonsNext \/ StopAbandoned \/ StopDeregisters \/ StopEnds
               \/ WorkerHeartbeatStep \/ LeaseExpires \/ UNCHANGED vars
      BY <2>3, <2>4 DEF StopCall, DeadlinePasses, StopWaitsForClaim, StopGrace,
                        StopAbandonsNext, StopAbandoned, StopDeregisters, StopEnds,
                        WorkerHeartbeatStep, LeaseExpires
    <2>5. CASE \/ StartCall \/ RegisterReturns \/ RegisterFails \/ LeaveLoop \/ StartReturns
      <3>1. mainPc \notin {"claiming", "deliver"} /\ limit' = limit
        BY <2>5 DEF StartCall, RegisterReturns, RegisterFails, LeaveLoop, StartReturns,
                    ShutdownInv, ControlInv, Registered
      <3> QED BY <2>1, <2>2, <3>1 DEF ClaimFits
    <2>6. CASE PollStart
      <3>1. limit' = Concurrency - Cardinality(Slots) /\ mainPc' = "claiming" /\ Received = {}
            /\ Cardinality(Slots) < Concurrency
        BY <2>2, <2>6 DEF PollStart
      <3>2. Cardinality(Received') = 0
        BY <2>1, <3>1, FS_EmptySet
      <3> QED BY <1>0, <2>1, <3>1, <3>2, ConcurrencyAssumption DEF ClaimFits
    <2>7. CASE PollEnds
      <3>1. limit' = 0 /\ Received = {}
        BY <2>7 DEF PollEnds, Received
      <3>2. Cardinality(Received') = 0
        BY <2>1, <3>1, FS_EmptySet
      <3> QED BY <1>0, <2>1, <3>1, <3>2, ConcurrencyAssumption DEF ClaimFits
    <2> QED BY <1>2, <2>4, <2>5, <2>6, <2>7 DEF ControlStep
  <1>3. CASE StopDrain
    BY <1>0, <1>1, <1>3, StopDrainActs DEF Slots, Owns, Received
  <1>4. ASSUME NEW S \in SUBSET Claimable, ClaimStep(S) PROVE ClaimFits'
    <2>1. Slots' = Slots /\ Received = {}
      BY <1>0, <1>4 DEF ClaimStep, ClaimReturns, ClaimFails, ReceivedAreNew, Slots, Owns, Received
    <2>2. CASE ClaimReturns(S)
      <3>1. Received' \subseteq NewLeases(S) /\ NewLeases(S) \in SUBSET Execs
        BY <1>0, <1>4, <2>1, <2>2, ClaimOfUnknown
           DEF ClaimReturns, Received, ShutdownInv
      <3>2. Cardinality(Received') <= Cardinality(NewLeases(S)) /\ Cardinality(NewLeases(S)) \in Nat
        BY <3>1, FiniteParts
      <3>3. IsFiniteSet(S) /\ Cardinality(S) \in Nat
        <4>1. S \subseteq Jobs
          BY DEF Claimable
        <4> QED BY <4>1, JobsAssumption, FS_Subset, FS_CardinalityType
      <3>4. Cardinality(S) <= limit /\ limit' = limit /\ mainPc' = "deliver"
        BY <2>2 DEF ClaimReturns
      <3>5. Cardinality(Received') <= limit'
        BY <1>0, <3>2, <3>3, <3>4, ClaimCount
      <3> QED BY <2>1, <3>4, <3>5 DEF ClaimFits
    <2>3. CASE ClaimFails(S)
      <3>1. Received' = {} /\ limit' = 0
        BY <2>1, <2>3 DEF ClaimFails, Received
      <3>2. Cardinality(Received') = 0
        BY <3>1, FS_EmptySet
      <3> QED BY <1>0, <2>1, <3>1, <3>2, ConcurrencyAssumption DEF ClaimFits
    <2> QED BY <1>4, <2>2, <2>3 DEF ClaimStep
  <1>5. CASE StartJobs
    <2>1. Slots' \subseteq Slots \cup Received /\ Received' = {} /\ limit' = 0
      BY <1>0, <1>5, StartJobsSlots, StartJobsActs DEF Slots, Received
    <2>2. /\ Slots \cup Received \in SUBSET Execs
          /\ Cardinality(Slots \cup Received) <= Cardinality(Slots) + Cardinality(Received)
      <3>1. IsFiniteSet(Slots) /\ IsFiniteSet(Received) /\ Slots \cap Received \in SUBSET Execs
        BY <1>0, FiniteParts
      <3>2. Cardinality(Slots \cup Received) =
                Cardinality(Slots) + Cardinality(Received) - Cardinality(Slots \cap Received)
        BY <3>1, FS_Union
      <3>3. Cardinality(Slots \cap Received) \in Nat
        BY <3>1, FiniteParts
      <3> QED BY <1>0, <3>2, <3>3
    <2>3. Cardinality(Slots') <= Cardinality(Slots \cup Received)
          /\ Cardinality(Slots \cup Received) \in Nat
      BY <2>1, <2>2, FiniteParts
    <2>4. Cardinality(Received') = 0
      BY <2>1, FS_EmptySet
    <2> QED BY <1>0, <2>1, <2>2, <2>3, <2>4, ConcurrencyAssumption DEF ClaimFits
  <1>6. ASSUME NEW y \in Execs, Effect(y) PROVE ClaimFits'
    <2>1. limit' = limit /\ mainPc' = mainPc
      BY <1>6 DEF Effect, AbandonEffect
    <2>2. ASSUME NEW x \in Execs
          PROVE  (Owns(x)' => Owns(x)) /\ (phase'[x] = "received" => phase[x] = "received")
      <3>1. CASE x # y
        BY <1>6, <3>1 DEF Effect, Kept
      <3>2. CASE x = y
        BY <1>6, <3>2
           DEF Effect, OwnEffect, ReleaseEffect, ReleasedEffect, TaskEffect, HandlerEffect,
               AckEffect, HeartbeatEffect, AbandonEffect, Acked, SlotKept, Freed
      <3> QED BY <3>1, <3>2
    <2> QED BY <1>1, <2>1, <2>2 DEF Slots, Received
  <1> QED
    BY <1>0, <1>2, <1>3, <1>4, <1>5, <1>6, WorkerSteps, ExecStepActs

\* Executions with a slot and jobs a claim may still bring stay within the concurrency,
\* also when a job is claimed again while its old execution holds the slot.
THEOREM SlotsWithinLimitHolds == Spec => []SlotsWithinLimit
<1>1. Init => ClaimFits
  <2> SUFFICES ASSUME Init PROVE ClaimFits
    OBVIOUS
  <2>1. Slots = {} /\ Received = {} /\ limit = 0
    BY ExecParts DEF Init, Received, Slots, Owns, NoSlot
  <2>2. Cardinality(Slots) = 0 /\ Cardinality(Received) = 0
    BY <2>1, FS_EmptySet
  <2> QED BY <2>1, <2>2, ConcurrencyAssumption DEF ClaimFits
<1>2. ShutdownInv /\ ClaimFits /\ [Next]_vars => ClaimFits'
  BY ClaimFitsStep
<1>3. ClaimFits => SlotsWithinLimit
  BY DEF ClaimFits, SlotsWithinLimit
<1> QED
  BY ShutdownInvariant, <1>1, <1>2, <1>3, PTL DEF Spec

-----------------------------------------------------------------------------
(* The worker implements its contract *)

\* An execution was answered by its settlement, or by the release of a job that came late.
Done(x) == settled[x] \/ phase[x] \in {"releasing", "released"}

LiveShown(x) == Live(x) /\ ~Dropped(x)

\* A set whose members are equal has one or none.
LEMMA OneOrNone ==
    ASSUME NEW G, \A c, d \in G : c = d
    PROVE  Cardinality(G) = IF G = {} THEN 0 ELSE 1
  <1>1. CASE G = {}
    BY <1>1, FS_EmptySet
  <1>2. CASE G # {}
    <2>1. PICK c \in G : G = {c}
      BY <1>2
    <2> QED BY <1>2, <2>1, FS_Singleton
  <1> QED BY <1>1, <1>2

\* What the contract sees of settlements and releases.
AnswersShown == \A x \in Execs : AnswerCount(x) = IF Done(x) THEN 1 ELSE 0

\* An execution is answered once if it is done, and else not at all.
LEMMA AnswersAre == ShutdownInv => AnswersShown
  <1> SUFFICES ASSUME ShutdownInv, NEW x \in Execs
               PROVE  AnswerCount(x) = IF Done(x) THEN 1 ELSE 0
    BY DEF AnswersShown
  <1> DEFINE G == {c \in Callers : ack[x][c] # "none"}
  <1>1. \A c, d \in G : c = d
    BY DEF ShutdownInv, AckInv, SettledOnce, Callers
  <1>2. Cardinality(G) = IF G = {} THEN 0 ELSE 1
    BY <1>1, OneOrNone
  <1>3. settled[x] <=> G # {}
    BY DEF ShutdownInv, AckInv, SettledOnce
  <1>4. settled[x] => phase[x] \notin {"releasing", "released"}
    BY DEF ShutdownInv, KnownAreLeased, TakenOn, TaskAlive
  <1> QED BY <1>2, <1>3, <1>4 DEF AnswerCount, Done

\* A step that changes none of what the contract sees.
LEMMA Unseen ==
    ASSUME AnswersShown, AnswersShown', UNCHANGED attempts, TakenOn' = TakenOn,
           \A x \in Execs : (Done(x)' <=> Done(x)) /\ (LiveShown(x)' <=> LiveShown(x)),
           wstate' = "stopped" <=> wstate = "stopped"
    PROVE  UNCHANGED Contract!contractVars
  <1>1. \A x \in Execs : AnswerCount(x)' = AnswerCount(x)
    BY DEF AnswersShown
  <1> QED BY <1>1 DEF Contract!contractVars, LiveShown

\* The settlement of an execution, or the release of a late one.
LEMMA SeenAsAnswer ==
    ASSUME AnswersShown, AnswersShown', UNCHANGED attempts, TakenOn' = TakenOn,
           wstate' = wstate, NEW y \in Execs, Leased(y), ~Done(y), Done(y)',
           \A x \in Execs : LiveShown(x)' <=> LiveShown(x),
           \A x \in Execs : x # y => (Done(x)' <=> Done(x))
    PROVE  Contract!Answer(y)
  <1>1. AnswerCount(y) = 0 /\ AnswerCount(y)' = 1
    BY DEF AnswersShown
  <1>2. \A x \in Execs : x # y => AnswerCount(x)' = AnswerCount(x)
    BY DEF AnswersShown
  <1> QED BY <1>1, <1>2 DEF Contract!Answer, LiveShown, Leased

\* A lease ends when its ack lands, when it runs out, or when its handler drops it.
LEMMA SeenAsEnd ==
    ASSUME AnswersShown, AnswersShown', UNCHANGED attempts, TakenOn' = TakenOn,
           wstate' = wstate, NEW y \in Execs,
           \A x \in Execs : LiveShown(x)' <=> LiveShown(x) /\ x # y,
           \A x \in Execs : Done(x)' <=> Done(x)
    PROVE  Contract!EndLease(y)
  <1>1. \A x \in Execs : AnswerCount(x)' = AnswerCount(x)
    BY DEF AnswersShown
  <1> QED BY <1>1 DEF Contract!EndLease, LiveShown

\* Of start() and stop() the contract sees the end of stop(), which finds every live
\* execution that was taken on settled.
LEMMA ControlSeen ==
    ASSUME ShutdownInv, AnswersShown, AnswersShown', ControlStep
    PROVE  Contract!Close \/ UNCHANGED Contract!contractVars
  <1>1. UNCHANGED <<leaseVars, execVars>>
    BY ControlKeepsExecs
  <1>2. TakenOn' = TakenOn
        /\ \A x \in Execs : (Done(x)' <=> Done(x)) /\ (LiveShown(x)' <=> LiveShown(x))
    BY <1>1 DEF TakenOn, TaskAlive, Done, LiveShown, Live, Dropped
  <1>3. CASE StopEnds
    <2>1. wstate # "stopped" /\ wstate' = "stopped"
      BY <1>3 DEF StopEnds, ShutdownInv, ControlInv
    <2>2. \A x \in TakenOn : LiveShown(x) => settled[x]
      BY <1>3 DEF StopEnds, ShutdownInv, StopProgress, UnsettledOwnTheirSlot, LiveShown, Slots,
                  TakenOn
    <2>3. \A x \in TakenOn : LiveShown(x) => AnswerCount(x) = 1
      BY <2>2 DEF AnswersShown, Done, TakenOn
    <2>4. \A x \in Execs : AnswerCount(x)' = AnswerCount(x)
      BY <1>2 DEF AnswersShown
    <2> QED BY <1>1, <1>2, <2>1, <2>3, <2>4 DEF Contract!Close, LiveShown, TakenOn
  <1>4. CASE ~StopEnds
    <2>1. \/ wstate' = wstate
          \/ StartCall \/ RegisterReturns \/ RegisterFails \/ StopCall
      BY <1>4 DEF ControlStep, PollStart, PollEnds, LeaveLoop, StartReturns, DeadlinePasses,
                  StopWaitsForClaim, StopGrace, StopAbandonsNext, StopAbandoned,
                  StopDeregisters, WorkerHeartbeatStep
    <2>2. wstate' = "stopped" <=> wstate = "stopped"
      BY <2>1 DEF StartCall, RegisterReturns, RegisterFails, StopCall, ShutdownInv, ControlInv
    <2> QED BY <1>1, <1>2, <2>2, Unseen
  <1> QED BY <1>3, <1>4

\* A lease that runs out.
LEMMA ExpirySeen ==
    ASSUME ShutdownInv, AnswersShown, AnswersShown', LeaseExpires
    PROVE  (\E x \in Execs : Contract!EndLease(x)) \/ UNCHANGED Contract!contractVars
  <1>1. PICK j \in Jobs : ExpireLease(j)
    BY DEF LeaseExpires
  <1>2. /\ TakenOn' = TakenOn /\ wstate' = wstate
        /\ \A x \in Execs : (Done(x)' <=> Done(x)) /\ (Dropped(x)' <=> Dropped(x))
    BY DEF LeaseExpires, TakenOn, TaskAlive, Done, Dropped
  <1>3. attempts[j] \in 0 .. MaxAttempts /\ jobStatus \in [Jobs -> JobStatus]
    BY DEF ShutdownInv, AckInv, TypeOK, LeaseTypeOK
  <1>4. jobStatus[j] = "leased" /\ jobStatus' = [jobStatus EXCEPT ![j] = "pending"]
        /\ UNCHANGED attempts
    BY <1>1 DEF ExpireLease
  <1>5. CASE attempts[j] # 0
    <2>1. PICK y : y = <<j, attempts[j]>>
      OBVIOUS
    <2>2. y \in Execs /\ y[1] = j /\ y[2] = attempts[j]
      BY <1>3, <1>5, <2>1, AttemptsAssumption DEF Execs
    <2>3. \A x \in Execs : Live(x)' <=> Live(x) /\ x # y
      BY <1>3, <1>4, <2>2, ExecParts DEF Live
    <2>4. \A x \in Execs : LiveShown(x)' <=> LiveShown(x) /\ x # y
      BY <1>2, <2>3 DEF LiveShown
    <2> QED BY <1>2, <1>4, <2>2, <2>4, SeenAsEnd
  <1>6. CASE attempts[j] = 0
    <2>1. \A x \in Execs : Live(x)' <=> Live(x)
      BY <1>3, <1>4, <1>6, ExecParts DEF Live
    <2>2. \A x \in Execs : LiveShown(x)' <=> LiveShown(x)
      BY <1>2, <2>1 DEF LiveShown
    <2> QED BY <1>2, <1>4, <2>2, Unseen
  <1> QED BY <1>5, <1>6

\* A claim creates leases of executions the worker does not know.
LEMMA ClaimSeen ==
    ASSUME ShutdownInv, AnswersShown, AnswersShown', [Next]_vars,
           NEW S \in SUBSET Claimable, ClaimStep(S)
    PROVE  \E L \in SUBSET Execs : L \cap {x \in Execs : Leased(x)} = {} /\ Contract!Lease(L)
  <1>1. PICK L : L = NewLeases(S)
    OBVIOUS
  <1>2. /\ attempts \in [Jobs -> 0 .. MaxAttempts] /\ jobStatus \in [Jobs -> JobStatus]
        /\ TypeOK /\ KnownAreLeased
    BY DEF ShutdownInv, AckInv, TypeOK, LeaseTypeOK
  <1>3. /\ L \subseteq Execs /\ \A x \in L : ~Leased(x) /\ phase[x] = "unclaimed"
        /\ \A x \in L : phase'[x] \in {"received", "lost"}
        /\ \A x \in Execs : x \notin L => phase'[x] = phase[x]
        /\ UNCHANGED <<settled, wstate>>
    BY <1>1, <1>2, ClaimOfUnknown
  <1>4. GrantLeases(S)
    BY DEF ClaimStep, ClaimReturns, ClaimFails
  <1>5. \A x \in Execs : x \in L <=> x[1] \in S /\ x[2] = attempts[x[1]] + 1
    BY <1>1, <1>2, ExecParts DEF NewLeases, Claimable
  <1>6. \A x \in Execs : (Done(x)' <=> Done(x)) /\ (Dropped(x)' <=> Dropped(x))
    BY <1>3 DEF Done, Dropped
  <1>7. TakenOn' = TakenOn
    BY <1>3 DEF TakenOn, TaskAlive
  <1>8. \A x \in Execs : AnswerCount(x)' = AnswerCount(x)
    BY <1>6 DEF AnswersShown
  <1>9. \A x \in Execs : Leased(x)' <=> Leased(x) \/ x \in L
    BY <1>2, <1>4, <1>5, ExecParts DEF GrantLeases, Leased
  <1>10. \A x \in Execs : Live(x)' <=> Live(x) \/ x \in L
    <2> SUFFICES ASSUME NEW x \in Execs PROVE Live(x)' <=> Live(x) \/ x \in L
      OBVIOUS
    <2>1. CASE x[1] \in S
      BY <1>2, <1>4, <1>5, <2>1, ExecParts DEF GrantLeases, Live, Claimable
    <2>2. CASE x[1] \notin S
      BY <1>2, <1>4, <1>5, <2>2, ExecParts DEF GrantLeases, Live
    <2> QED BY <2>1, <2>2
  <1>11. \A x \in L : ~Dropped(x)
    BY <1>3 DEF Dropped
  <1>12. \A x \in Execs : LiveShown(x)' <=> LiveShown(x) \/ x \in L
    BY <1>6, <1>10, <1>11 DEF LiveShown
  <1>13. Contract!Lease(L)
    BY <1>3, <1>7, <1>8, <1>9, <1>12 DEF Contract!Lease, Leased, LiveShown
  <1> QED BY <1>3, <1>13

\* The jobs of a claim are taken on together.
LEMMA StartJobsSeen ==
    ASSUME ShutdownInv, AnswersShown, AnswersShown', StartJobs
    PROVE  \E R \in SUBSET {x \in Execs : Leased(x)} : Contract!TakeOn(R)
  <1>1. PICK R : R = Received
    OBVIOUS
  <1>2. /\ UNCHANGED <<leaseVars, settled, wstate>> /\ ~intakeClosed
        /\ \A x \in Execs : phase'[x] = IF phase[x] = "received" THEN "created" ELSE phase[x]
    BY StartJobsActs DEF ShutdownInv, AckInv
  <1>3. \A x \in R : x \in Execs /\ phase[x] = "received" /\ Leased(x) /\ ~Done(x) /\ x \notin TakenOn
    BY <1>1 DEF Received, ShutdownInv, KnownAreLeased, Done, TakenOn, TaskAlive
  <1>4. TakenOn' = TakenOn \cup R
    BY <1>1, <1>2 DEF TakenOn, TaskAlive, Received
  <1>5. \A x \in Execs : (Done(x)' <=> Done(x)) /\ (LiveShown(x)' <=> LiveShown(x))
    BY <1>2 DEF Done, LiveShown, Live, Dropped
  <1>6. \A x \in Execs : AnswerCount(x)' = AnswerCount(x)
    BY <1>5 DEF AnswersShown
  <1>7. \A x \in R : AnswerCount(x) = 0
    BY <1>3 DEF AnswersShown
  <1>8. wstate # "stopped"
    BY <1>2 DEF ShutdownInv, ControlInv, StopProgress
  <1>9. Contract!TakeOn(R)
    BY <1>2, <1>3, <1>4, <1>5, <1>6, <1>7, <1>8 DEF Contract!TakeOn, LiveShown
  <1> QED BY <1>3, <1>9

\* The step of an execution answers for it, ends its lease, or is unseen.
LEMMA ExecStepSeen ==
    ASSUME ShutdownInv, AnswersShown, AnswersShown', [Next]_vars, NEW y \in Execs, ExecStep(y)
    PROVE  Contract!Answer(y) \/ Contract!EndLease(y) \/ UNCHANGED Contract!contractVars
  <1>0. /\ TypeOK /\ KnownAreLeased /\ SettledOnce /\ AckAwaited
        /\ settled[y] \in BOOLEAN /\ jobStatus \in [Jobs -> JobStatus]
    BY DEF ShutdownInv, AckInv, TypeOK, LeaseTypeOK
  <1>1. Effect(y) /\ (UNCHANGED leaseVars \/ AcceptAck(y))
    BY <1>0, ExecStepActs
  <1>2. UNCHANGED <<attempts, wstate>> /\ ~StartJobs
    <2>1. UNCHANGED <<attempts, wstate, intakeClosed, mainPc>>
      BY <1>1 DEF Effect, AbandonEffect, AcceptAck
    <2> QED BY <2>1, <1>0, StartJobsActs
  <1>3. TakenOn' = TakenOn
    BY <1>0, <1>2, TakenOnForGood, TakenOnByStartJobs
  <1>4. \A x \in Execs : x # y => (Done(x)' <=> Done(x)) /\ (Dropped(x)' <=> Dropped(x))
    BY <1>1 DEF Effect, Kept, Done, Dropped
  <1>5. Dropped(y) => Dropped(y)'
    BY DroppedForGood
  <1>6. \/ UNCHANGED leaseVars
        \/ Live(y) /\ \E s \in {"pending", "closed"} : jobStatus' = [jobStatus EXCEPT ![y[1]] = s]
    BY <1>1 DEF AcceptAck
  <1>7. \/ \A x \in Execs : Live(x)' <=> Live(x)
        \/ \A x \in Execs : Live(x)' <=> Live(x) /\ x # y
    BY <1>0, <1>2, <1>6, ExecParts DEF Live
  <1>8. \/ Done(y)' <=> Done(y)
        \/ ~Done(y) /\ Done(y)' /\ UNCHANGED leaseVars /\ (Dropped(y)' <=> Dropped(y))
           /\ phase[y] # "unclaimed"
    <2>1. phase[y] = "acking" \/ (\E c \in Callers : ack[y][c] # "none") => settled[y]
      BY <1>0 DEF SettledOnce, AckAwaited, Callers
    <2>2. settled[y] \/ Owns(y) => phase[y] \in {"created", "running", "acking", "cleanup",
                                                 "dropping", "finished", "dropped"}
      BY <1>0 DEF KnownAreLeased, TakenOn, TaskAlive
    <2> QED
      BY <1>0, <1>1, <2>1, <2>2
         DEF Effect, OwnEffect, ReleaseEffect, ReleasedEffect, TaskEffect, HandlerEffect,
             AckEffect, AckMoves, HeartbeatEffect, AbandonEffect, Acked, AcksKept, CanSettle,
             Done, Dropped
  <1>9. CASE Done(y)' <=> Done(y)
    <2>1. \A x \in Execs : Done(x)' <=> Done(x)
      BY <1>4, <1>9
    <2>2. \/ \A x \in Execs : LiveShown(x)' <=> LiveShown(x)
          \/ \A x \in Execs : LiveShown(x)' <=> LiveShown(x) /\ x # y
      BY <1>4, <1>5, <1>7 DEF LiveShown
    <2> QED BY <1>2, <1>3, <2>1, <2>2, SeenAsEnd, Unseen
  <1>10. CASE ~Done(y) /\ Done(y)' /\ UNCHANGED leaseVars /\ (Dropped(y)' <=> Dropped(y))
              /\ phase[y] # "unclaimed"
    <2>1. Leased(y)
      BY <1>0, <1>10 DEF KnownAreLeased
    <2>2. \A x \in Execs : LiveShown(x)' <=> LiveShown(x)
      BY <1>4, <1>10 DEF LiveShown, Live
    <2> QED BY <1>2, <1>3, <1>4, <1>10, <2>1, <2>2, SeenAsAnswer
  <1> QED BY <1>8, <1>9, <1>10

\* Every step of the worker is one of the contract, or unseen.
LEMMA StepSeen ==
    ASSUME ShutdownInv, AnswersShown, AnswersShown', [Next]_vars
    PROVE  [Contract!Next]_(Contract!contractVars)
  <1>1. CASE ControlStep
    BY <1>1, ControlSeen DEF Contract!Next
  <1>2. CASE LeaseExpires
    BY <1>2, ExpirySeen DEF Contract!Next
  <1>3. CASE UNCHANGED vars \/ StopDrain
    <2>1. UNCHANGED <<leaseVars, phase, settled, wstate>>
      BY <1>3, StopDrainActs DEF ShutdownInv, AckInv
    <2>2. TakenOn' = TakenOn
          /\ \A x \in Execs : (Done(x)' <=> Done(x)) /\ (LiveShown(x)' <=> LiveShown(x))
      BY <2>1 DEF TakenOn, TaskAlive, Done, LiveShown, Live, Dropped
    <2> QED BY <2>1, <2>2, Unseen
  <1>4. ASSUME NEW S \in SUBSET Claimable, ClaimStep(S)
        PROVE  Contract!Next
    <2>1. PICK L \in SUBSET Execs : L \cap {x \in Execs : Leased(x)} = {} /\ Contract!Lease(L)
      BY <1>4, ClaimSeen
    <2> QED BY <2>1 DEF Contract!Next, Leased
  <1>5. CASE StartJobs
    BY <1>5, StartJobsSeen DEF Contract!Next, Leased
  <1>6. ASSUME NEW y \in Execs, ExecStep(y)
        PROVE  [Contract!Next]_(Contract!contractVars)
    BY <1>6, ExecStepSeen DEF Contract!Next
  <1> QED
    BY <1>1, <1>2, <1>3, <1>4, <1>5, <1>6, WorkerSteps

\* The worker begins as the contract does.
LEMMA InitSeen == Init => Contract!Init
  <1> SUFFICES ASSUME Init PROVE Contract!Init
    OBVIOUS
  <1>1. TakenOn = {} /\ wstate # "stopped" /\ \A x \in Execs : ~Done(x)
    BY DEF Init, TakenOn, TaskAlive, Done
  <1>2. \A x \in Execs : x[2] > attempts[x[1]] /\ ~Live(x)
    BY ExecParts DEF Init, LeaseInit, Live
  <1>3. AnswersShown
    BY InitShutdownInv, AnswersAre
  <1> QED BY <1>1, <1>2, <1>3, ExecParts DEF Contract!Init, AnswersShown, Init, LeaseInit

\* The asynchronous worker implements the contract: whichever task answers for an execution,
\* it answers once; a claim is taken on as a whole or failed as a whole; stop() deregisters
\* with every live execution it took on answered, but for those their handler dropped.
THEOREM AsyncWorkerKeepsContract == Spec => KeepsContract
<1>1. ShutdownInv /\ AnswersShown /\ AnswersShown' /\ [Next]_vars
          => [Contract!Next]_(Contract!contractVars)
  BY StepSeen
<1> QED
  BY InitSeen, ShutdownInvariant, AnswersAre, <1>1, PTL DEF Spec, KeepsContract, Contract!Spec
=============================================================================

------------------------- MODULE SpooledWorkerProofs -------------------------
(***************************************************************************)
(* Theorems about the synchronous worker, for every set of jobs, every     *)
(* number of leases and every concurrency.                                 *)
(***************************************************************************)
EXTENDS SpooledWorkerInvariants, FiniteSetTheorems, TLAPS

USE DEF leaseVars, stopVars, idVars, slotVars, timerVars, ctlVars, execVars, vars

-----------------------------------------------------------------------------
(* Lemmas: the parts of an execution, and what the helpers assign *)

\* An execution is a job and the number of its lease.
LEMMA ExecParts ==
    \A x \in Execs : x[1] \in Jobs /\ x[2] \in 1 .. MaxAttempts /\ x = <<x[1], x[2]>>
  BY AttemptsAssumption DEF Execs

\* The number of free slots is an integer no larger than the concurrency.
LEMMA AvailableSlotsBound ==
    ASSUME TypeOK
    PROVE  AvailableSlots \in Int /\ AvailableSlots <= Concurrency
  <1>1. ActiveSlots \subseteq Jobs
    BY DEF ActiveSlots
  <1>2. Cardinality(ActiveSlots) \in Nat
    BY <1>1, JobsAssumption, FS_Subset, FS_CardinalityType
  <1> QED
    BY <1>2, ConcurrencyAssumption DEF AvailableSlots, TypeOK, ExecTypeOK

\* The helpers that update one execution keep the types of what they assign.
LEMMA SetPhaseType ==
    ASSUME ExecTypeOK, NEW x \in Execs, NEW p \in Phases, SetPhase(x, p)
    PROVE  phase' \in [Execs -> Phases]
  BY DEF ExecTypeOK, SetPhase

LEMMA SetAckType ==
    ASSUME ExecTypeOK, NEW x \in Execs, NEW c \in Callers, NEW p \in AckPcs, SetAck(x, c, p)
    PROVE  ack' \in [Execs -> [Callers -> AckPcs]]
  <1>0. ack \in [Execs -> [Callers -> AckPcs]]
    BY DEF ExecTypeOK
  <1>1. ack[x] \in [Callers -> AckPcs]
    BY <1>0
  <1>2. [ack[x] EXCEPT ![c] = p] \in [Callers -> AckPcs]
    BY <1>1
  <1>3. ack' = [ack EXCEPT ![x] = [ack[x] EXCEPT ![c] = p]]
    BY <1>0 DEF SetAck
  <1> DEFINE row == [ack[x] EXCEPT ![c] = p]
  <1>4. row \in [Callers -> AckPcs] /\ ack' = [ack EXCEPT ![x] = row]
    BY <1>2, <1>3
  <1> HIDE DEF row
  <1> QED
    BY <1>0, <1>4

LEMMA FreeSlotType ==
    ASSUME ExecTypeOK, NEW x \in Execs, FreeSlot(x)
    PROVE  active' \in [Jobs -> 0 .. MaxAttempts]
  <1>1. NoSlot \in 0 .. MaxAttempts
    BY AttemptsAssumption DEF NoSlot
  <1>2. [active EXCEPT ![x[1]] = NoSlot] \in [Jobs -> 0 .. MaxAttempts]
    BY <1>1 DEF ExecTypeOK
  <1> QED
    BY <1>2 DEF ExecTypeOK, FreeSlot

LEMMA CancelTimersType ==
    ASSUME ExecTypeOK, NEW x \in Execs, CancelTimers(x)
    PROVE  /\ heartbeat' \in [Execs -> {"off", "armed", "sent"}]
           /\ timeoutTimer' \in [Execs -> {"off", "armed", "fired"}]
  BY DEF ExecTypeOK, CancelTimers

LEMMA CleanupEffectType ==
    ASSUME ExecTypeOK, NEW x \in Execs, CleanupEffect(x),
           UNCHANGED <<settled, leaseLost>>, ack' \in [Execs -> [Callers -> AckPcs]]
    PROVE  ExecTypeOK'
  <1>1. active' \in [Jobs -> 0 .. MaxAttempts]
    BY FreeSlotType DEF CleanupEffect
  <1>2. /\ heartbeat' \in [Execs -> {"off", "armed", "sent"}]
        /\ timeoutTimer' \in [Execs -> {"off", "armed", "fired"}]
    BY CancelTimersType DEF CleanupEffect
  <1>3. phase' \in [Execs -> Phases]
    BY SetPhaseType DEF CleanupEffect, Phases
  <1>4. abandonedRunning' \in Nat /\ abandoned' \in [Execs -> BOOLEAN]
    BY DEF CleanupEffect, ExecTypeOK
  <1> QED
    BY <1>1, <1>2, <1>3, <1>4 DEF ExecTypeOK

LEMMA AcceptAckType ==
    ASSUME LeaseTypeOK, NEW x \in Execs, AcceptAck(x)
    PROVE  LeaseTypeOK'
  BY ExecParts DEF LeaseTypeOK, AcceptAck, JobStatus

LEMMA GrantLeasesType ==
    ASSUME LeaseTypeOK, NEW S \in SUBSET Claimable, GrantLeases(S)
    PROVE  LeaseTypeOK'
  <1>1. \A j \in S : j \in Jobs /\ attempts[j] + 1 \in 0 .. MaxAttempts
    BY AttemptsAssumption DEF LeaseTypeOK, Claimable
  <1>2. attempts' \in [Jobs -> 0 .. MaxAttempts]
    BY <1>1 DEF LeaseTypeOK, GrantLeases
  <1>3. jobStatus' \in [Jobs -> JobStatus]
    BY DEF LeaseTypeOK, GrantLeases, JobStatus
  <1> QED
    BY <1>2, <1>3 DEF LeaseTypeOK

-----------------------------------------------------------------------------
LEMMA InitTypeOK == Init => TypeOK
  <1> SUFFICES ASSUME Init PROVE TypeOK
    OBVIOUS
  <1>1. LeaseTypeOK
    BY AttemptsAssumption DEF Init, LeaseInit, LeaseTypeOK, JobStatus
  <1>2. ControlTypeOK
    <2>1. limit \in 0 .. Concurrency
      BY ConcurrencyAssumption DEF Init
    <2>2. wstate \in WorkerStates /\ mainPc \in MainPcs /\ stopPc \in StopPcs
      BY DEF Init, WorkerStates, MainPcs, StopPcs
    <2> QED
      BY <2>1, <2>2 DEF Init, ControlTypeOK
  <1>3. ack \in [Execs -> [Callers -> AckPcs]] /\ phase \in [Execs -> Phases]
    BY DEF Init, AckPcs, Phases
  <1>4. active \in [Jobs -> 0 .. MaxAttempts]
    BY AttemptsAssumption DEF Init, NoSlot
  <1> QED
    BY <1>1, <1>2, <1>3, <1>4 DEF Init, TypeOK, ExecTypeOK

LEMMA NextTypeOK ==
    ASSUME TypeOK, [Next]_vars
    PROVE  TypeOK'
  <1>1. CASE UNCHANGED vars
    BY <1>1 DEF TypeOK, LeaseTypeOK, ControlTypeOK, ExecTypeOK
  <1>2. CASE StartCall
    BY <1>2
       DEF TypeOK, LeaseTypeOK, ControlTypeOK, ExecTypeOK, StartCall, WorkerStates, MainPcs
  <1>3. CASE RegisterReturns
    BY <1>3 DEF TypeOK, LeaseTypeOK, ControlTypeOK, ExecTypeOK, RegisterReturns, MainPcs
  <1>4. CASE RegisterFails
    BY <1>4
       DEF TypeOK, LeaseTypeOK, ControlTypeOK, ExecTypeOK, RegisterFails, WorkerStates,
           MainPcs
  <1>5. CASE EnterLoop
    BY <1>5
       DEF TypeOK, LeaseTypeOK, ControlTypeOK, ExecTypeOK, EnterLoop, WorkerStates, MainPcs
  <1>6. CASE LeaveLoop
    BY <1>6 DEF TypeOK, LeaseTypeOK, ControlTypeOK, ExecTypeOK, LeaveLoop, MainPcs
  <1>7. CASE StartReturns
    BY <1>7 DEF TypeOK, LeaseTypeOK, ControlTypeOK, ExecTypeOK, StartReturns, MainPcs
  <1>8. CASE PollStart
    BY <1>8, AvailableSlotsBound
       DEF TypeOK, LeaseTypeOK, ControlTypeOK, ExecTypeOK, PollStart, MainPcs
  <1>9. CASE PollEnds
    BY <1>9 DEF TypeOK, LeaseTypeOK, ControlTypeOK, ExecTypeOK, PollEnds, MainPcs
  <1>10. CASE StopIgnored
    BY <1>10 DEF TypeOK, LeaseTypeOK, ControlTypeOK, ExecTypeOK, StopIgnored
  <1>11. CASE DeadlinePasses
    BY <1>11 DEF TypeOK, LeaseTypeOK, ControlTypeOK, ExecTypeOK, DeadlinePasses
  <1>12. CASE StopWaitPoll
    BY <1>12 DEF TypeOK, LeaseTypeOK, ControlTypeOK, ExecTypeOK, StopWaitPoll, StopPcs
  <1>13. CASE StopDrain
    BY <1>13 DEF TypeOK, LeaseTypeOK, ControlTypeOK, ExecTypeOK, StopDrain, StopPcs
  <1>14. CASE StopAbandoned
    BY <1>14 DEF TypeOK, LeaseTypeOK, ControlTypeOK, ExecTypeOK, StopAbandoned, StopPcs
  <1>15. CASE StopTeardown
    BY <1>15 DEF TypeOK, LeaseTypeOK, ControlTypeOK, ExecTypeOK, StopTeardown, StopPcs
  <1>16. CASE StopDeregister \/ StopFinishes
    BY <1>16
       DEF TypeOK, LeaseTypeOK, ControlTypeOK, ExecTypeOK, StopDeregister, StopFinishes,
           WorkerStates, StopPcs
  <1>17. CASE LeaseExpires
    BY <1>17
       DEF TypeOK, LeaseTypeOK, ControlTypeOK, ExecTypeOK, LeaseExpires, ExpireLease,
           JobStatus
  <1>18. ASSUME NEW S \in SUBSET Claimable, ClaimReturns(S) \/ ClaimFails(S)
       PROVE  TypeOK'
    <2>1. LeaseTypeOK'
      BY <1>18, GrantLeasesType DEF TypeOK, ClaimReturns, ClaimFails, Claim
    <2>2. phase' \in [Execs -> Phases]
      BY <1>18 DEF TypeOK, ExecTypeOK, ClaimReturns, ClaimFails, Claim, Phases
    <2>3. ControlTypeOK'
      BY <1>18, ConcurrencyAssumption
         DEF TypeOK, ControlTypeOK, ClaimReturns, ClaimFails, Claim, MainPcs
    <2> QED
      BY <1>18, <2>1, <2>2, <2>3
         DEF TypeOK, LeaseTypeOK, ControlTypeOK, ExecTypeOK, ClaimReturns, ClaimFails, Claim
  <1>19. ASSUME NEW onMain \in StopThreads, StopCall(onMain)
       PROVE  TypeOK'
    BY <1>19, StopAssumption
       DEF TypeOK, LeaseTypeOK, ControlTypeOK, ExecTypeOK, StopCall, WorkerStates, StopPcs
  <1>20. ASSUME NEW x \in Execs, CheckIntake(x) \/ RegisterJob(x)
       PROVE  TypeOK'
    <2>1. phase' \in [Execs -> Phases]
      BY <1>20, SetPhaseType DEF TypeOK, CheckIntake, RegisterJob, Phases
    <2>2. active' \in [Jobs -> 0 .. MaxAttempts]
      BY <1>20, ExecParts, AttemptsAssumption DEF TypeOK, ExecTypeOK, CheckIntake, RegisterJob
    <2> QED
      BY <1>20, <2>1, <2>2
         DEF TypeOK, LeaseTypeOK, ControlTypeOK, ExecTypeOK, CheckIntake, RegisterJob
  <1>21. ASSUME NEW x \in Execs, ArmHeartbeat(x)
       PROVE  TypeOK'
    BY <1>21
       DEF TypeOK, LeaseTypeOK, ControlTypeOK, ExecTypeOK, ArmHeartbeat, SetPhase, Phases
  <1>22. ASSUME NEW x \in Execs, Submit(x)
       PROVE  TypeOK'
    <2>1. UNCHANGED <<settled, leaseLost, ack>> /\ mainPc' \in {mainPc, "idle"}
      BY <1>22 DEF Submit
    <2>2. LeaseTypeOK' /\ ControlTypeOK'
      BY <1>22, <2>1 DEF TypeOK, LeaseTypeOK, ControlTypeOK, Submit, MainPcs
    <2>3. CASE UNCHANGED <<slotVars, timerVars>>
      <3>1. phase' \in [Execs -> Phases] \/ CleanupEffect(x)
        BY <1>22, SetPhaseType DEF TypeOK, ExecTypeOK, Submit, Phases
      <3> QED
        BY <2>1, <2>2, <2>3, <3>1, CleanupEffectType DEF TypeOK, ExecTypeOK
    <2>4. CASE CleanupEffect(x)
      BY <2>1, <2>2, <2>4, CleanupEffectType DEF TypeOK, ExecTypeOK
    <2> QED
      BY <1>22, <2>3, <2>4 DEF Submit
  <1>23. ASSUME NEW x \in Execs, ReleaseJob(x)
       PROVE  TypeOK'
    BY <1>23
       DEF TypeOK, LeaseTypeOK, ControlTypeOK, ExecTypeOK, ReleaseJob, SetPhase, Phases
  <1>24. ASSUME NEW x \in Execs, ReleaseReturns(x)
       PROVE  TypeOK'
    <2>1. phase' \in [Execs -> Phases]
      BY <1>24, SetPhaseType DEF TypeOK, ReleaseReturns, Phases
    <2>2. LeaseTypeOK'
      BY <1>24, AcceptAckType DEF TypeOK, LeaseTypeOK, ReleaseReturns
    <2> QED
      BY <1>24, <2>1, <2>2
         DEF TypeOK, LeaseTypeOK, ControlTypeOK, ExecTypeOK, ReleaseReturns
  <1>25. ASSUME NEW x \in Execs, HandlerStart(x)
       PROVE  TypeOK'
    BY <1>25
       DEF TypeOK, LeaseTypeOK, ControlTypeOK, ExecTypeOK, HandlerStart, SetPhase, Phases
  <1>26. ASSUME NEW x \in Execs, HandlerReturn(x)
       PROVE  TypeOK'
    <2>1. ack' \in [Execs -> [Callers -> AckPcs]]
      BY <1>26, SetAckType DEF TypeOK, HandlerReturn, AckPcs, Granted, Callers
    <2>2. phase' \in [Execs -> Phases]
      BY <1>26, SetPhaseType DEF TypeOK, HandlerReturn, Phases
    <2>3. settled' \in [Execs -> BOOLEAN]
      BY <1>26 DEF TypeOK, ExecTypeOK, HandlerReturn
    <2> QED
      BY <1>26, <2>1, <2>2, <2>3
         DEF TypeOK, LeaseTypeOK, ControlTypeOK, ExecTypeOK, HandlerReturn
  <1>39. ASSUME NEW x \in Execs, HandlerQuits(x)
       PROVE  TypeOK'
    <2>1. ack' \in [Execs -> [Callers -> AckPcs]] /\ phase' \in [Execs -> Phases]
      BY <1>39, SetAckType, SetPhaseType DEF TypeOK, HandlerQuits, AckPcs, Callers, Phases
    <2> QED
      BY <1>39, <2>1 DEF TypeOK, LeaseTypeOK, ControlTypeOK, ExecTypeOK, HandlerQuits
  <1>27. ASSUME NEW x \in Execs, Cleanup(x)
       PROVE  TypeOK'
    <2>1. ack' \in [Execs -> [Callers -> AckPcs]]
      BY <1>27, SetAckType DEF TypeOK, ExecTypeOK, Cleanup, AckPcs, Granted, Callers
    <2>2. ExecTypeOK'
      BY <1>27, <2>1, CleanupEffectType DEF TypeOK, Cleanup
    <2>3. LeaseTypeOK' /\ ControlTypeOK'
      BY <1>27 DEF TypeOK, LeaseTypeOK, ControlTypeOK, Cleanup
    <2> QED
      BY <2>2, <2>3 DEF TypeOK
  <1>28. ASSUME NEW x \in Execs, TimeoutFires(x)
       PROVE  TypeOK'
    BY <1>28, SetAckType
       DEF TypeOK, LeaseTypeOK, ControlTypeOK, ExecTypeOK, TimeoutFires, AckPcs, Callers
  <1>29. ASSUME NEW x \in Execs, HeartbeatFires(x)
       PROVE  TypeOK'
    BY <1>29 DEF TypeOK, LeaseTypeOK, ControlTypeOK, ExecTypeOK, HeartbeatFires
  <1>30. ASSUME NEW x \in Execs, HeartbeatAnswered(x)
       PROVE  TypeOK'
    BY <1>30 DEF TypeOK, LeaseTypeOK, ControlTypeOK, ExecTypeOK, HeartbeatAnswered
  <1>31. ASSUME NEW x \in Execs, HeartbeatRejected(x)
       PROVE  TypeOK'
    BY <1>31
       DEF TypeOK, LeaseTypeOK, ControlTypeOK, ExecTypeOK, HeartbeatRejected, LoseLease
  <1>32. ASSUME NEW x \in Execs, StopAbandon(x)
       PROVE  TypeOK'
    BY <1>32, SetAckType
       DEF TypeOK, LeaseTypeOK, ControlTypeOK, ExecTypeOK, StopAbandon, AckPcs, Callers
  <1>33. ASSUME NEW x \in Execs, NEW c \in Callers, AckSend(x, c)
       PROVE  TypeOK'
    BY <1>33, SetAckType
       DEF TypeOK, LeaseTypeOK, ControlTypeOK, ExecTypeOK, AckSend, AckPcs, Granted
  <1>34. ASSUME NEW x \in Execs, NEW c \in Callers, AckArrives(x, c)
       PROVE  TypeOK'
    <2>1. ack' \in [Execs -> [Callers -> AckPcs]]
      BY <1>34, SetAckType DEF TypeOK, AckArrives, AckPcs, Granted
    <2>2. LeaseTypeOK'
      BY <1>34, AcceptAckType DEF TypeOK, LeaseTypeOK, AckArrives
    <2> QED
      BY <1>34, <2>1, <2>2 DEF TypeOK, LeaseTypeOK, ControlTypeOK, ExecTypeOK, AckArrives
  <1>35. ASSUME NEW x \in Execs, NEW c \in Callers, AckAnswered(x, c)
       PROVE  TypeOK'
    BY <1>35, SetAckType
       DEF TypeOK, LeaseTypeOK, ControlTypeOK, ExecTypeOK, AckAnswered, AckPcs, Granted
  <1>36. ASSUME NEW x \in Execs, NEW c \in Callers, AckRejected(x, c)
       PROVE  TypeOK'
    BY <1>36, SetAckType
       DEF TypeOK, LeaseTypeOK, ControlTypeOK, ExecTypeOK, AckRejected, AckPcs, Granted,
           LoseLease
  <1>37. ASSUME NEW x \in Execs, NEW c \in Callers, AbandonClaim(x, c)
       PROVE  TypeOK'
    <2>1. ack' \in [Execs -> [Callers -> AckPcs]]
      BY <1>37, SetAckType DEF TypeOK, AbandonClaim, AckPcs, Granted
    <2>2. settled' \in [Execs -> BOOLEAN]
      BY <1>37 DEF TypeOK, ExecTypeOK, AbandonClaim
    <2> QED
      BY <1>37, <2>1, <2>2 DEF TypeOK, LeaseTypeOK, ControlTypeOK, ExecTypeOK, AbandonClaim
  <1>38. ASSUME NEW x \in Execs, NEW c \in Callers, AbandonEnds(x, c)
       PROVE  TypeOK'
    <2>1. ack' \in [Execs -> [Callers -> AckPcs]]
      BY <1>38, SetAckType DEF TypeOK, AbandonEnds, AckPcs, Granted
    <2>2. active' \in [Jobs -> 0 .. MaxAttempts]
      BY <1>38, FreeSlotType DEF TypeOK, AbandonEnds
    <2>3. /\ heartbeat' \in [Execs -> {"off", "armed", "sent"}]
             /\ timeoutTimer' \in [Execs -> {"off", "armed", "fired"}]
      BY <1>38, CancelTimersType DEF TypeOK, AbandonEnds
    <2>4. abandoned' \in [Execs -> BOOLEAN] /\ abandonedRunning' \in Nat
      BY <1>38 DEF TypeOK, ExecTypeOK, AbandonEnds
    <2> QED
      BY <1>38, <2>1, <2>2, <2>3, <2>4
         DEF TypeOK, LeaseTypeOK, ControlTypeOK, ExecTypeOK, AbandonEnds
  <1> QED
    BY <1>1, <1>2, <1>3, <1>4, <1>5, <1>6, <1>7, <1>8, <1>9, <1>10, <1>11, <1>12, <1>13, <1>14,
       <1>15, <1>16, <1>17, <1>18, <1>19, <1>20, <1>21, <1>22, <1>23, <1>24, <1>25, <1>26,
       <1>27, <1>28, <1>29, <1>30, <1>31, <1>32, <1>33, <1>34, <1>35, <1>36, <1>37, <1>38, <1>39
       DEF Next, MainStep, StopStep, ProcessJob, AckStep, AbandonStep, HeartbeatStep

\* Every variable keeps its type: slots are lease numbers, the claim never asks
\* for more than the concurrency, _abandoned_running never goes below zero.
THEOREM TypeInvariant == Spec => []TypeOK
  BY InitTypeOK, NextTypeOK, PTL DEF Spec

-----------------------------------------------------------------------------
(* One ack per execution *)

\* A step that grants nothing and forgets no settlement keeps both facts.
LEMMA NoGrantKeepsAcks ==
    ASSUME GrantedAreSettled, SingleAck,
           \A x \in Execs : \A c \in Callers : ack'[x][c] \in Granted => ack[x][c] \in Granted,
           \A x \in Execs : settled[x] => settled'[x]
    PROVE  GrantedAreSettled' /\ SingleAck'
  BY DEF GrantedAreSettled, SingleAck

\* A step that grants the ack of one unsettled execution, and settles it, does.
LEMMA OneGrantKeepsAcks ==
    ASSUME GrantedAreSettled, SingleAck,
           NEW y \in Execs, NEW d \in Callers, ~settled[y], settled'[y],
           \A x \in Execs : \A c \in Callers :
               ack'[x][c] \in Granted => ack[x][c] \in Granted \/ (x = y /\ c = d),
           \A x \in Execs : settled[x] => settled'[x]
    PROVE  GrantedAreSettled' /\ SingleAck'
  BY DEF GrantedAreSettled, SingleAck

\* What SetAck and the settled flag of one execution leave alone.
LEMMA SetAckElsewhere ==
    ASSUME ExecTypeOK, NEW y \in Execs, NEW d \in Callers, NEW p, SetAck(y, d, p)
    PROVE  /\ ack'[y][d] = p
           /\ \A x \in Execs : \A c \in Callers : x # y \/ c # d => ack'[x][c] = ack[x][c]
  BY DEF ExecTypeOK, SetAck

LEMMA InitAckInv == Init => AckInv
  <1>1. Init => TypeOK
    BY InitTypeOK
  <1>2. Init => GrantedAreSettled /\ SingleAck
    BY DEF Init, GrantedAreSettled, SingleAck, Granted
  <1> QED
    BY <1>1, <1>2 DEF AckInv

LEMMA NextAckInv ==
    ASSUME AckInv, [Next]_vars
    PROVE  AckInv'
  <1>1. TypeOK /\ TypeOK' /\ GrantedAreSettled /\ SingleAck
    BY NextTypeOK DEF AckInv
  <1>2. SUFFICES GrantedAreSettled' /\ SingleAck'
    BY <1>1 DEF AckInv
  <1> USE <1>1
  <1>3. ASSUME UNCHANGED <<ack, settled>>
        PROVE  GrantedAreSettled' /\ SingleAck'
    BY <1>3 DEF GrantedAreSettled, SingleAck
  <1>4. CASE UNCHANGED vars
    BY <1>4, <1>3
  <1>5. CASE StartCall \/ RegisterReturns \/ RegisterFails \/ EnterLoop \/ LeaveLoop \/ StartReturns
    BY <1>5, <1>3
       DEF StartCall, RegisterReturns, RegisterFails, EnterLoop, LeaveLoop, StartReturns
  <1>6. CASE PollStart \/ PollEnds \/ LeaseExpires
    BY <1>6, <1>3 DEF PollStart, PollEnds, LeaseExpires
  <1>7. CASE StopIgnored \/ DeadlinePasses \/ StopWaitPoll \/ StopDrain \/ StopAbandoned
               \/ StopTeardown \/ StopDeregister \/ StopFinishes
    BY <1>7, <1>3
       DEF StopIgnored, DeadlinePasses, StopWaitPoll, StopDrain, StopAbandoned,
           StopTeardown, StopDeregister, StopFinishes
  <1>8. ASSUME NEW S \in SUBSET Claimable, ClaimReturns(S) \/ ClaimFails(S)
        PROVE  GrantedAreSettled' /\ SingleAck'
    BY <1>8, <1>3 DEF ClaimReturns, ClaimFails, Claim
  <1>9. ASSUME NEW onMain \in StopThreads, StopCall(onMain)
        PROVE  GrantedAreSettled' /\ SingleAck'
    BY <1>9, <1>3 DEF StopCall
  <1>10. ASSUME NEW x \in Execs, ProcessJob(x)
        PROVE  GrantedAreSettled' /\ SingleAck'
    BY <1>10, <1>3
       DEF ProcessJob, CheckIntake, RegisterJob, ArmHeartbeat, Submit, ReleaseJob, ReleaseReturns
  <1>11. ASSUME NEW x \in Execs, HeartbeatStep(x) \/ HandlerStart(x)
        PROVE  GrantedAreSettled' /\ SingleAck'
    BY <1>11, <1>3
       DEF HeartbeatStep, HeartbeatFires, HeartbeatAnswered, HeartbeatRejected, HandlerStart
  <1>12. ASSUME NEW x \in Execs, TimeoutFires(x) \/ StopAbandon(x) \/ HandlerQuits(x)
        PROVE  GrantedAreSettled' /\ SingleAck'
    <2>1. SetAck(x, "timer", "signalled") \/ SetAck(x, "stop", "signalled")
             \/ SetAck(x, "handler", "quit")
      BY <1>12 DEF TimeoutFires, StopAbandon, HandlerQuits
    <2>2. {"signalled", "quit"} \cap Granted = {} /\ settled' = settled
      BY <1>12 DEF TimeoutFires, StopAbandon, HandlerQuits, Granted
    <2> QED
      BY <2>1, <2>2, SetAckElsewhere, NoGrantKeepsAcks DEF TypeOK, Callers
  <1>13. ASSUME NEW x \in Execs, HandlerReturn(x)
        PROVE  GrantedAreSettled' /\ SingleAck'
    <2>1. CASE CanSettle(x)
      <3>1. SetAck(x, "handler", "claimed") /\ settled' = [settled EXCEPT ![x] = TRUE]
        BY <1>13, <2>1 DEF HandlerReturn
      <3>2. "handler" \in Callers
        BY DEF Callers
      <3> QED
        BY <2>1, <3>1, <3>2, SetAckElsewhere, OneGrantKeepsAcks
           DEF TypeOK, ExecTypeOK, CanSettle
    <2>2. CASE ~CanSettle(x)
      <3>1. SetAck(x, "handler", "refused") /\ settled' = settled /\ "refused" \notin Granted
        BY <1>13, <2>2 DEF HandlerReturn, Granted
      <3> QED
        BY <3>1, SetAckElsewhere, NoGrantKeepsAcks DEF TypeOK, Callers
    <2> QED
      BY <2>1, <2>2
  <1>14. ASSUME NEW x \in Execs, Cleanup(x)
        PROVE  GrantedAreSettled' /\ SingleAck'
    <2>1. settled' = settled
      BY <1>14 DEF Cleanup
    <2>2. CASE UNCHANGED ack
      BY <2>1, <2>2, <1>3
    <2>3. CASE ack[x]["handler"] = "over" /\ SetAck(x, "handler", "done")
      BY <2>1, <2>3, SetAckElsewhere, NoGrantKeepsAcks DEF TypeOK, Callers, Granted
    <2> QED
      BY <1>14, <2>2, <2>3 DEF Cleanup
  <1>15. ASSUME NEW x \in Execs, NEW c \in Callers, AckStep(x, c) \/ AbandonEnds(x, c)
        PROVE  GrantedAreSettled' /\ SingleAck'
    <2>1. ack[x][c] \in Granted /\ settled' = settled
      BY <1>15 DEF AckStep, AckSend, AckArrives, AckAnswered, AckRejected, AbandonEnds, Granted
    <2>2. PICK p \in AckPcs : SetAck(x, c, p)
      BY <1>15 DEF AckStep, AckSend, AckArrives, AckAnswered, AckRejected, AbandonEnds, Granted,
               AckPcs
    <2> QED
      BY <2>1, <2>2, SetAckElsewhere, NoGrantKeepsAcks DEF TypeOK
  <1>16. ASSUME NEW x \in Execs, NEW c \in Callers, AbandonClaim(x, c)
        PROVE  GrantedAreSettled' /\ SingleAck'
    <2>1. CASE CanSettle(x)
      <3>1. SetAck(x, c, "claimed") /\ settled' = [settled EXCEPT ![x] = TRUE]
        BY <1>16, <2>1 DEF AbandonClaim
      <3>2. ~settled[x] /\ settled'[x] /\ \A y \in Execs : settled[y] => settled'[y]
        BY <2>1, <3>1 DEF TypeOK, ExecTypeOK, CanSettle
      <3>3. \A y \in Execs : \A d \in Callers :
                ack'[y][d] \in Granted => ack[y][d] \in Granted \/ (y = x /\ d = c)
        BY <3>1, SetAckElsewhere DEF TypeOK
      <3> QED
        BY <3>2, <3>3, OneGrantKeepsAcks
    <2>2. CASE ~CanSettle(x)
      <3>1. SetAck(x, c, "refused") /\ settled' = settled /\ "refused" \notin Granted
        BY <1>16, <2>2 DEF AbandonClaim, Granted
      <3> QED
        BY <3>1, SetAckElsewhere, NoGrantKeepsAcks DEF TypeOK
    <2> QED
      BY <2>1, <2>2
  <1> QED
    BY <1>4, <1>5, <1>6, <1>7, <1>8, <1>9, <1>10, <1>11, <1>12, <1>13, <1>14, <1>15, <1>16
       DEF Next, MainStep, StopStep, AbandonStep

\* _claim_settlement lets the handler's thread, the timeout timer and stop()
\* ack an execution at most once between them.
THEOREM AckInvariant == Spec => []AckInv
  BY InitAckInv, NextAckInv, PTL DEF Spec

\* At most one of complete and fail is ever sent for an execution.
THEOREM SingleAckHolds == Spec => []SingleAck
  BY AckInvariant, PTL DEF AckInv

-----------------------------------------------------------------------------
(* stop(): what a step may do to leases, settlements, slots and the executions *)
(* taken on, whichever it is *)

\* Leases are granted in order: an execution created once stays created, and a
\* lease that is gone does not come back.
LEMMA LeasesOnlyEnd ==
    ASSUME ShutdownInv, [Next]_vars, NEW x \in Execs, Leased(x)
    PROVE  Leased(x)' /\ (Live(x)' => Live(x))
  <1>1. CASE UNCHANGED leaseVars
    BY <1>1 DEF Leased, Live
  <1>2. CASE StartCall \/ RegisterReturns \/ RegisterFails \/ EnterLoop
             \/ LeaveLoop \/ StartReturns \/ PollStart \/ PollEnds
             \/ StopIgnored \/ DeadlinePasses \/ StopWaitPoll \/ StopDrain
             \/ StopAbandoned \/ StopTeardown \/ StopDeregister \/ StopFinishes
    BY <1>2, <1>1
       DEF StartCall, RegisterReturns, RegisterFails, EnterLoop, LeaveLoop, StartReturns,
           PollStart, PollEnds, StopIgnored, DeadlinePasses, StopWaitPoll, StopDrain,
           StopAbandoned, StopTeardown, StopDeregister, StopFinishes
  <1>3. ASSUME NEW onMain \in StopThreads, StopCall(onMain)
        PROVE  Leased(x)' /\ (Live(x)' => Live(x))
    BY <1>3, <1>1 DEF StopCall
  <1>4. ASSUME NEW S \in SUBSET Claimable, ClaimReturns(S) \/ ClaimFails(S)
        PROVE  Leased(x)' /\ (Live(x)' => Live(x))
    BY <1>4, ExecParts
       DEF ShutdownInv, AckInv, TypeOK, LeaseTypeOK, ClaimReturns, ClaimFails, Claim,
           GrantLeases, Leased, Live
  <1>5. CASE LeaseExpires
    BY <1>5, ExecParts
       DEF ShutdownInv, AckInv, TypeOK, LeaseTypeOK, LeaseExpires, ExpireLease, Leased, Live
  <1>6. ASSUME NEW y \in Execs,
               CheckIntake(y) \/ RegisterJob(y) \/ ArmHeartbeat(y) \/ Submit(y) \/ ReleaseJob(y)
             \/ HandlerStart(y) \/ HandlerReturn(y) \/ HandlerQuits(y) \/ Cleanup(y) \/ TimeoutFires(y)
             \/ HeartbeatFires(y) \/ HeartbeatAnswered(y) \/ HeartbeatRejected(y) \/ StopAbandon(y)
        PROVE  Leased(x)' /\ (Live(x)' => Live(x))
    BY <1>6, <1>1
       DEF CheckIntake, RegisterJob, ArmHeartbeat, Submit, ReleaseJob, HandlerStart, HandlerReturn, HandlerQuits,
           Cleanup, TimeoutFires, HeartbeatFires, HeartbeatAnswered, HeartbeatRejected,
           StopAbandon
  <1>7. ASSUME NEW y \in Execs, NEW c \in Callers,
               AckSend(y, c) \/ AckAnswered(y, c) \/ AckRejected(y, c) \/ AbandonClaim(y, c)
             \/ AbandonEnds(y, c)
        PROVE  Leased(x)' /\ (Live(x)' => Live(x))
    BY <1>7, <1>1 DEF AckSend, AckAnswered, AckRejected, AbandonClaim, AbandonEnds
  <1>8. ASSUME NEW y \in Execs, AcceptAck(y)
        PROVE  Leased(x)' /\ (Live(x)' => Live(x))
    BY <1>8, ExecParts DEF ShutdownInv, AckInv, TypeOK, LeaseTypeOK, AcceptAck, Leased, Live
  <1>9. ASSUME NEW y \in Execs, ReleaseReturns(y)
        PROVE  Leased(x)' /\ (Live(x)' => Live(x))
    BY <1>9, <1>1, <1>8 DEF ReleaseReturns
  <1>10. ASSUME NEW y \in Execs, NEW c \in Callers, AckArrives(y, c)
        PROVE  Leased(x)' /\ (Live(x)' => Live(x))
    BY <1>10, <1>1, <1>8 DEF AckArrives
  <1> QED
    BY <1>1, <1>2, <1>3, <1>4, <1>5, <1>6, <1>7, <1>8, <1>9, <1>10
       DEF Next, MainStep, StopStep, ProcessJob, AckStep, AbandonStep, HeartbeatStep

\* A settlement is never taken back.
LEMMA SettledForGood ==
    ASSUME ShutdownInv, [Next]_vars, NEW x \in Execs, settled[x]
    PROVE  settled'[x]
  <1>1. CASE UNCHANGED settled
    BY <1>1
  <1>2. CASE StartCall \/ RegisterReturns \/ RegisterFails \/ EnterLoop
             \/ LeaveLoop \/ StartReturns \/ PollStart \/ PollEnds
             \/ StopIgnored \/ DeadlinePasses \/ StopWaitPoll \/ StopDrain
             \/ StopAbandoned \/ StopTeardown \/ StopDeregister \/ StopFinishes \/ LeaseExpires
    BY <1>2, <1>1
       DEF StartCall, RegisterReturns, RegisterFails, EnterLoop, LeaveLoop, StartReturns,
           PollStart, PollEnds, StopIgnored, DeadlinePasses, StopWaitPoll, StopDrain,
           StopAbandoned, StopTeardown, StopDeregister, StopFinishes, LeaseExpires
  <1>3. ASSUME NEW onMain \in StopThreads, StopCall(onMain)
        PROVE  settled'[x]
    BY <1>3, <1>1 DEF StopCall
  <1>4. ASSUME NEW S \in SUBSET Claimable, ClaimReturns(S) \/ ClaimFails(S)
        PROVE  settled'[x]
    BY <1>4, <1>1 DEF ClaimReturns, ClaimFails, Claim
  <1>5. ASSUME NEW y \in Execs,
               CheckIntake(y) \/ RegisterJob(y) \/ ArmHeartbeat(y) \/ Submit(y) \/ ReleaseJob(y)
             \/ ReleaseReturns(y) \/ HandlerStart(y) \/ Cleanup(y) \/ TimeoutFires(y)
             \/ HeartbeatFires(y) \/ HeartbeatAnswered(y) \/ HeartbeatRejected(y) \/ StopAbandon(y)
        PROVE  settled'[x]
    BY <1>5, <1>1
       DEF CheckIntake, RegisterJob, ArmHeartbeat, Submit, ReleaseJob, ReleaseReturns, HandlerStart,
           Cleanup, TimeoutFires, HeartbeatFires, HeartbeatAnswered, HeartbeatRejected,
           StopAbandon
  <1>6. ASSUME NEW y \in Execs, NEW c \in Callers,
               AckSend(y, c) \/ AckArrives(y, c) \/ AckAnswered(y, c) \/ AckRejected(y, c)
             \/ AbandonEnds(y, c)
        PROVE  settled'[x]
    BY <1>6, <1>1 DEF AckSend, AckArrives, AckAnswered, AckRejected, AbandonEnds
  <1>7. ASSUME NEW y \in Execs, NEW c \in Callers, HandlerReturn(y) \/ HandlerQuits(y) \/ AbandonClaim(y, c)
        PROVE  settled'[x]
    BY <1>7 DEF ShutdownInv, AckInv, TypeOK, ExecTypeOK, HandlerReturn, HandlerQuits, AbandonClaim
  <1> QED
    BY <1>1, <1>2, <1>3, <1>4, <1>5, <1>6, <1>7
       DEF Next, MainStep, StopStep, ProcessJob, AckStep, AbandonStep, HeartbeatStep,
           Callers

\* A claim changes nothing about an execution that is known.
LEMMA ClaimKeepsKnown ==
    ASSUME ShutdownInv, NEW S \in SUBSET Claimable, ClaimReturns(S) \/ ClaimFails(S),
           NEW x \in Execs, phase[x] # "unclaimed"
    PROVE  phase'[x] = phase[x]
  <1>1. Leased(x)
    BY DEF ShutdownInv, KnownAreLeased
  <1>2. x \notin NewLeases(S)
    BY <1>1, ExecParts
       DEF NewLeases, Leased, ShutdownInv, AckInv, TypeOK, LeaseTypeOK, Claimable
  <1> QED
    BY <1>2 DEF ClaimReturns, ClaimFails, Claim

\* What a step does to the phase of an execution, if it is not the one it is about.
LEMMA PhaseElsewhere ==
    ASSUME ShutdownInv, [Next]_vars, NEW x \in Execs, phase'[x] # phase[x]
    PROVE  \/ \E S \in SUBSET Claimable : ClaimReturns(S) \/ ClaimFails(S)
           \/ CheckIntake(x) \/ RegisterJob(x) \/ ArmHeartbeat(x) \/ ReleaseJob(x)
           \/ ReleaseReturns(x) \/ HandlerStart(x) \/ HandlerReturn(x) \/ HandlerQuits(x)
           \/ Submit(x) \/ Cleanup(x)
           \/ /\ phase[x] = "received" /\ phase'[x] = "dropped"
              /\ \E y \in Execs : Submit(y)
  <1> DEFINE Mover ==
           \/ \E S \in SUBSET Claimable : ClaimReturns(S) \/ ClaimFails(S)
           \/ CheckIntake(x) \/ RegisterJob(x) \/ ArmHeartbeat(x) \/ ReleaseJob(x)
           \/ ReleaseReturns(x) \/ HandlerStart(x) \/ HandlerReturn(x) \/ HandlerQuits(x)
           \/ Submit(x) \/ Cleanup(x)
           \/ /\ phase[x] = "received" /\ phase'[x] = "dropped"
              /\ \E y \in Execs : Submit(y)
  <1>1. CASE UNCHANGED phase
    BY <1>1
  <1>2. CASE StartCall \/ RegisterReturns \/ RegisterFails \/ EnterLoop
             \/ LeaveLoop \/ StartReturns \/ PollStart \/ PollEnds
             \/ StopIgnored \/ DeadlinePasses \/ StopWaitPoll \/ StopDrain
             \/ StopAbandoned \/ StopTeardown \/ StopDeregister \/ StopFinishes \/ LeaseExpires
    BY <1>2, <1>1
       DEF StartCall, RegisterReturns, RegisterFails, EnterLoop, LeaveLoop, StartReturns,
           PollStart, PollEnds, StopIgnored, DeadlinePasses, StopWaitPoll, StopDrain,
           StopAbandoned, StopTeardown, StopDeregister, StopFinishes, LeaseExpires
  <1>3. ASSUME NEW onMain \in StopThreads, StopCall(onMain)
        PROVE  Mover
    BY <1>3, <1>1 DEF StopCall
  <1>4. ASSUME NEW S \in SUBSET Claimable, ClaimReturns(S) \/ ClaimFails(S)
        PROVE  Mover
    BY <1>4
  <1>5. ASSUME NEW y \in Execs,
               TimeoutFires(y) \/ HeartbeatFires(y) \/ HeartbeatAnswered(y) \/ HeartbeatRejected(y)
             \/ StopAbandon(y)
        PROVE  Mover
    BY <1>5, <1>1
       DEF TimeoutFires, HeartbeatFires, HeartbeatAnswered, HeartbeatRejected, StopAbandon
  <1>6. ASSUME NEW y \in Execs, NEW c \in Callers,
               AckSend(y, c) \/ AckArrives(y, c) \/ AckAnswered(y, c) \/ AckRejected(y, c)
             \/ AbandonClaim(y, c) \/ AbandonEnds(y, c)
        PROVE  Mover
    BY <1>6, <1>1
       DEF AckSend, AckArrives, AckAnswered, AckRejected, AbandonClaim, AbandonEnds
  <1>7. ASSUME NEW y \in Execs, NEW p, SetPhase(y, p), y # x
        PROVE  FALSE
    BY <1>7 DEF ShutdownInv, AckInv, TypeOK, ExecTypeOK, SetPhase
  <1>8. ASSUME NEW y \in Execs,
               CheckIntake(y) \/ RegisterJob(y) \/ ArmHeartbeat(y) \/ ReleaseJob(y)
             \/ ReleaseReturns(y) \/ HandlerStart(y) \/ HandlerQuits(y) \/ Cleanup(y)
        PROVE  Mover
    <2>1. CASE y = x
      BY <1>8, <2>1
    <2>2. CASE y # x
      BY <1>7, <1>8, <2>2
         DEF CheckIntake, RegisterJob, ArmHeartbeat, ReleaseJob, ReleaseReturns, HandlerStart,
             HandlerQuits, Cleanup, CleanupEffect
    <2> QED
      BY <2>1, <2>2
  <1>9. ASSUME NEW y \in Execs, HandlerReturn(y)
        PROVE  Mover
    <2>1. CASE y = x
      BY <1>9, <2>1
    <2>2. CASE y # x
      BY <1>7, <1>9, <2>2 DEF HandlerReturn
    <2> QED
      BY <2>1, <2>2
  <1>10. ASSUME NEW y \in Execs, Submit(y)
         PROVE  Mover
    <2>1. CASE y = x
      BY <1>10, <2>1
    <2>2. CASE y # x
      <3>1. CASE \E p : SetPhase(y, p)
        BY <1>7, <2>2, <3>1
      <3>2. CASE phase' = [z \in Execs |-> IF z = y THEN "orphaned"
                                         ELSE IF phase[z] = "received" THEN "dropped"
                                         ELSE phase[z]]
        BY <1>10, <2>2, <3>2
      <3> QED
        BY <1>10, <3>1, <3>2 DEF Submit, CleanupEffect
    <2> QED
      BY <2>1, <2>2
  <1> QED
    BY <1>1, <1>2, <1>3, <1>4, <1>5, <1>6, <1>8, <1>9, <1>10
       DEF Next, MainStep, StopStep, ProcessJob, AckStep, AbandonStep, HeartbeatStep

\* Only RegisterJob gives a slot; an execution that is late stays so.
LEMMA SlottedByRegister ==
    ASSUME ShutdownInv, [Next]_vars, NEW x \in Execs
    PROVE  /\ x \in Slotted' /\ x \notin Slotted =>
                RegisterJob(x) /\ phase[x] = "admitted" /\ Owns(x)'
           /\ phase[x] \in {"late", "stranded"} => phase'[x] \in {"late", "stranded"}
  <1> USE DEF Slotted, Registered
  <1>0. phase \in [Execs -> Phases] /\ active \in [Jobs -> 0 .. MaxAttempts]
    BY DEF ShutdownInv, AckInv, TypeOK, ExecTypeOK
  <1>1. CASE phase'[x] = phase[x]
    BY <1>1
  <1>2. ASSUME NEW S \in SUBSET Claimable, ClaimReturns(S) \/ ClaimFails(S)
        PROVE  phase'[x] = phase[x] \/ phase'[x] \in {"received", "lost"}
    BY <1>0, <1>2 DEF ClaimReturns, ClaimFails, Claim
  <1>3. ASSUME NEW S \in SUBSET Claimable, ClaimReturns(S) \/ ClaimFails(S),
               phase[x] \in {"late", "stranded"}
        PROVE  phase'[x] = phase[x]
    BY <1>3, ClaimKeepsKnown
  <1>4. CASE CheckIntake(x) \/ ReleaseJob(x) \/ ReleaseReturns(x) \/ HandlerStart(x)
             \/ HandlerQuits(x) \/ Cleanup(x) \/ Submit(x)
    BY <1>0, <1>4
       DEF CheckIntake, ReleaseJob, ReleaseReturns, HandlerStart, HandlerQuits, Cleanup,
           CleanupEffect, Submit, SetPhase
  <1>5. CASE HandlerReturn(x)
    BY <1>0, <1>5 DEF HandlerReturn, SetPhase
  <1>6. CASE ArmHeartbeat(x)
    <2>1. phase[x] = "late" => executor = "none"
      BY DEF ShutdownInv, LateAfterStop
    <2> QED
      BY <1>0, <1>6, <2>1 DEF ArmHeartbeat, SetPhase
  <1>7. CASE RegisterJob(x)
    BY <1>0, <1>7, ExecParts DEF RegisterJob, SetPhase, Owns
  <1> QED
    BY <1>1, <1>2, <1>3, <1>4, <1>5, <1>6, <1>7, PhaseElsewhere

\* Only RegisterJob takes an execution on, while the intake is open.
LEMMA TakenOnByRegister ==
    ASSUME ShutdownInv, [Next]_vars, NEW x \in Registered', x \notin Registered
    PROVE  RegisterJob(x) /\ phase[x] = "admitted" /\ ~intakeClosed /\ Owns(x)'
  <1>1. x \in Execs /\ x \in Slotted' /\ phase'[x] \notin {"late", "stranded"}
    BY DEF Registered, Slotted
  <1>2. RegisterJob(x) /\ phase[x] = "admitted" /\ Owns(x)'
    BY <1>1, SlottedByRegister DEF Slotted
  <1>3. ~intakeClosed
    BY <1>1, <1>2 DEF RegisterJob, SetPhase, ShutdownInv, AckInv, TypeOK, ExecTypeOK
  <1> QED
    BY <1>2, <1>3

\* Only HandlerQuits ends an execution without asking for its ack, and for good.
LEMMA QuitByHandler ==
    ASSUME ShutdownInv, [Next]_vars, NEW x \in Execs
    PROVE  (Quit(x)' => Quit(x) \/ HandlerQuits(x)) /\ (Quit(x) => Quit(x)')
  <1> USE DEF Quit
  <1>0. ack \in [Execs -> [Callers -> AckPcs]] /\ "handler" \in Callers
    BY DEF ShutdownInv, AckInv, TypeOK, ExecTypeOK, Callers
  <1> DEFINE Kept == (Quit(x)' => Quit(x) \/ HandlerQuits(x)) /\ (Quit(x) => Quit(x)')
  <1>1. CASE UNCHANGED ack
    BY <1>1
  <1>2. CASE StartCall \/ RegisterReturns \/ RegisterFails \/ EnterLoop
             \/ LeaveLoop \/ StartReturns \/ PollStart \/ PollEnds
             \/ StopIgnored \/ DeadlinePasses \/ StopWaitPoll \/ StopDrain
             \/ StopAbandoned \/ StopTeardown \/ StopDeregister \/ StopFinishes \/ LeaseExpires
    BY <1>2, <1>1
       DEF StartCall, RegisterReturns, RegisterFails, EnterLoop, LeaveLoop, StartReturns,
           PollStart, PollEnds, StopIgnored, DeadlinePasses, StopWaitPoll, StopDrain,
           StopAbandoned, StopTeardown, StopDeregister, StopFinishes, LeaseExpires
  <1>3. ASSUME NEW onMain \in StopThreads, StopCall(onMain)
        PROVE  Kept
    BY <1>3, <1>1 DEF StopCall
  <1>4. ASSUME NEW S \in SUBSET Claimable, ClaimReturns(S) \/ ClaimFails(S)
        PROVE  Kept
    BY <1>4, <1>1 DEF ClaimReturns, ClaimFails, Claim
  <1>5. ASSUME NEW y \in Execs,
               CheckIntake(y) \/ RegisterJob(y) \/ ArmHeartbeat(y) \/ Submit(y) \/ ReleaseJob(y)
             \/ ReleaseReturns(y) \/ HandlerStart(y) \/ HeartbeatFires(y)
             \/ HeartbeatAnswered(y) \/ HeartbeatRejected(y)
        PROVE  Kept
    BY <1>5, <1>1
       DEF CheckIntake, RegisterJob, ArmHeartbeat, Submit, ReleaseJob, ReleaseReturns,
           HandlerStart, HeartbeatFires, HeartbeatAnswered, HeartbeatRejected
  <1>6. ASSUME NEW y \in Execs, NEW c \in Callers, NEW p \in AckPcs \ {"quit"}, SetAck(y, c, p),
               ack[y][c] # "quit" \/ c # "handler"
        PROVE  Kept
    <2>1. ack'[x]["handler"] = IF y = x /\ c = "handler" THEN p ELSE ack[x]["handler"]
      BY <1>0, <1>6 DEF SetAck
    <2> QED
      BY <1>6, <2>1
  <1>7. ASSUME NEW y \in Execs, NEW c \in Callers,
               AckSend(y, c) \/ AckArrives(y, c) \/ AckAnswered(y, c) \/ AckRejected(y, c)
             \/ AbandonClaim(y, c) \/ AbandonEnds(y, c)
        PROVE  Kept
    <2>1. ack[y][c] # "quit" /\ \E p \in AckPcs \ {"quit"} : SetAck(y, c, p)
      BY <1>7
         DEF AckSend, AckArrives, AckAnswered, AckRejected, AbandonClaim, AbandonEnds, AckPcs,
             Granted
    <2> QED
      BY <1>6, <2>1
  <1>8. ASSUME NEW y \in Execs, TimeoutFires(y) \/ StopAbandon(y)
        PROVE  Kept
    <2>1. \E c \in Callers : c # "handler" /\ SetAck(y, c, "signalled")
      BY <1>8 DEF TimeoutFires, StopAbandon, Callers
    <2> QED
      BY <1>6, <2>1 DEF AckPcs
  <1>9. ASSUME NEW y \in Execs, Cleanup(y)
        PROVE  Kept
    <2>1. \/ UNCHANGED ack
          \/ ack[y]["handler"] = "over" /\ SetAck(y, "handler", "done")
      BY <1>9 DEF Cleanup
    <2> QED
      BY <1>0, <1>1, <1>6, <2>1 DEF AckPcs, Granted
  <1>10. ASSUME NEW y \in Execs, HandlerReturn(y)
         PROVE  Kept
    <2>1. phase[y] = "running" /\ \E p \in AckPcs \ {"quit"} : SetAck(y, "handler", p)
      BY <1>10 DEF HandlerReturn, AckPcs, Granted
    <2>2. ack[y]["handler"] # "quit"
      BY <2>1 DEF ShutdownInv, QuitIsOver
    <2> QED
      BY <1>0, <1>6, <2>1, <2>2
  <1>11. ASSUME NEW y \in Execs, HandlerQuits(y)
         PROVE  Kept
    <2>1. CASE y = x
      BY <1>0, <1>11, <2>1 DEF HandlerQuits, SetAck
    <2>2. CASE y # x
      BY <1>0, <1>11, <2>2 DEF HandlerQuits, SetAck
    <2> QED
      BY <2>1, <2>2
  <1> QED
    BY <1>1, <1>2, <1>3, <1>4, <1>5, <1>7, <1>8, <1>9, <1>10, <1>11
       DEF Next, MainStep, StopStep, ProcessJob, AckStep, AbandonStep, HeartbeatStep

\* Submit finds the pool shut down only once stop() has dealt with every
\* execution that holds a live lease.
LEMMA NoPoolNoLiveWork ==
    ASSUME ShutdownInv, NEW x \in Registered, executor # "open", Live(x)
    PROVE  settled[x] \/ Quit(x)
  <1>1. phase[x] # "unclaimed" /\ x \in Execs
    BY DEF Registered
  <1>2. Started
    BY <1>1 DEF ShutdownInv, KnownAreLeased
  <1>3. stopPc \in {"deregister", "deregistered", "done"}
    BY <1>2 DEF ShutdownInv, IdAndPoolWhileRunning
  <1> QED
    BY <1>3 DEF ShutdownInv, StopProgress

\* An execution loses its slot only when it is settled or its lease is gone.
LEMMA SlotKept ==
    ASSUME ShutdownInv, [Next]_vars, NEW x \in Registered, Owns(x), Live(x)', ~settled'[x],
           ~Quit(x)'
    PROVE  Owns(x)'
  <1>1. x \in Execs /\ Leased(x) /\ Live(x) /\ ~settled[x] /\ ~Quit(x)
    <2>1. x \in Execs /\ phase[x] # "unclaimed"
      BY DEF Registered
    <2> QED
      BY <2>1, LeasesOnlyEnd, SettledForGood, QuitByHandler DEF ShutdownInv, KnownAreLeased
  <1>2. CASE UNCHANGED active
    BY <1>2 DEF Owns
  <1>3. ASSUME NEW y \in Execs, FreeSlot(y), y # x
        PROVE  Owns(x)'
    BY <1>1, <1>3, ExecParts DEF ShutdownInv, AckInv, TypeOK, ExecTypeOK, FreeSlot, Owns
  <1>4. CASE StartCall \/ RegisterReturns \/ RegisterFails \/ EnterLoop
             \/ LeaveLoop \/ StartReturns \/ PollStart \/ PollEnds
             \/ StopIgnored \/ DeadlinePasses \/ StopWaitPoll \/ StopDrain
             \/ StopAbandoned \/ StopTeardown \/ StopDeregister \/ StopFinishes \/ LeaseExpires
    BY <1>4, <1>2
       DEF StartCall, RegisterReturns, RegisterFails, EnterLoop, LeaveLoop, StartReturns,
           PollStart, PollEnds, StopIgnored, DeadlinePasses, StopWaitPoll, StopDrain,
           StopAbandoned, StopTeardown, StopDeregister, StopFinishes, LeaseExpires
  <1>5. ASSUME NEW onMain \in StopThreads, StopCall(onMain)
        PROVE  Owns(x)'
    BY <1>5, <1>2 DEF StopCall
  <1>6. ASSUME NEW S \in SUBSET Claimable, ClaimReturns(S) \/ ClaimFails(S)
        PROVE  Owns(x)'
    BY <1>6, <1>2 DEF ClaimReturns, ClaimFails, Claim
  <1>11. ASSUME NEW y \in Execs,
                CheckIntake(y) \/ ArmHeartbeat(y) \/ ReleaseJob(y) \/ ReleaseReturns(y)
             \/ HandlerStart(y) \/ HandlerReturn(y) \/ HandlerQuits(y) \/ TimeoutFires(y)
             \/ HeartbeatFires(y) \/ HeartbeatAnswered(y)
             \/ HeartbeatRejected(y) \/ StopAbandon(y)
         PROVE  Owns(x)'
    BY <1>11, <1>2
       DEF CheckIntake, ArmHeartbeat, ReleaseJob, ReleaseReturns, HandlerStart, HandlerReturn,
           HandlerQuits, TimeoutFires, HeartbeatFires, HeartbeatAnswered, HeartbeatRejected, StopAbandon
  <1>12. ASSUME NEW y \in Execs, NEW c \in Callers,
                AckSend(y, c) \/ AckArrives(y, c) \/ AckAnswered(y, c) \/ AckRejected(y, c)
             \/ AbandonClaim(y, c)
         PROVE  Owns(x)'
    BY <1>12, <1>2 DEF AckSend, AckArrives, AckAnswered, AckRejected, AbandonClaim
  <1>7. ASSUME NEW y \in Execs, RegisterJob(y)
        PROVE  Owns(x)'
    <2>1. phase[y] = "admitted" /\ y # x /\ x \in Slotted
      BY <1>7 DEF RegisterJob, Registered, Slotted
    <2>2. x[1] # y[1]
      <3>1. SUFFICES ASSUME x[1] = y[1] PROVE FALSE
        OBVIOUS
      <3>2. x[2] < y[2] /\ y[2] <= attempts[y[1]]
        BY <1>1, <2>1, <3>1 DEF ShutdownInv, ReceivedAreNew, KnownAreLeased, Leased
      <3>3. attempts[x[1]] = x[2]
        BY <1>1 DEF Live
      <3> QED
        BY <1>1, <3>1, <3>2, <3>3, ExecParts
           DEF ShutdownInv, AckInv, TypeOK, LeaseTypeOK
    <2> QED
      BY <1>1, <1>7, <2>2, ExecParts
         DEF ShutdownInv, AckInv, TypeOK, ExecTypeOK, RegisterJob, Owns
  <1>8. ASSUME NEW y \in Execs, Submit(y)
        PROVE  Owns(x)'
    <2>1. CASE executor = "open"
      BY <1>8, <2>1, <1>2 DEF Submit
    <2>2. CASE executor # "open"
      <3>1. y # x
        BY <1>1, <2>2, NoPoolNoLiveWork
      <3> QED
        BY <1>8, <2>2, <3>1, <1>2, <1>3 DEF Submit, CleanupEffect
    <2> QED
      BY <2>1, <2>2
  <1>9. ASSUME NEW y \in Execs, Cleanup(y)
        PROVE  Owns(x)'
    <2>1. phase[y] \in {"cleanup", "acking"}
      BY <1>9 DEF Cleanup
    <2>2. y # x
      BY <1>1, <2>1 DEF ShutdownInv, ReturnedAreSettled
    <2> QED
      BY <1>9, <2>2, <1>3 DEF Cleanup, CleanupEffect
  <1>10. ASSUME NEW y \in Execs, NEW c \in Callers, AbandonEnds(y, c)
         PROVE  Owns(x)'
    <2>1. ack[y][c] \in Granted
      BY <1>10 DEF AbandonEnds, Granted
    <2>2. y # x
      BY <1>1, <2>1 DEF ShutdownInv, AckInv, GrantedAreSettled
    <2> QED
      BY <1>10, <2>2, <1>3 DEF AbandonEnds
  <1> QED
    BY <1>2, <1>4, <1>5, <1>6, <1>7, <1>8, <1>9, <1>10, <1>11, <1>12
       DEF Next, MainStep, StopStep, ProcessJob, AckStep, AbandonStep, HeartbeatStep

\* Only a claim makes an execution known, and none is forgotten.
LEMMA KnownByClaim ==
    ASSUME ShutdownInv, [Next]_vars, NEW x \in Execs,
           phase[x] = "unclaimed", phase'[x] # "unclaimed"
    PROVE  \E S \in SUBSET Claimable : (ClaimReturns(S) \/ ClaimFails(S)) /\ x \in NewLeases(S)
  <1>1. PICK S \in SUBSET Claimable : ClaimReturns(S) \/ ClaimFails(S)
    BY PhaseElsewhere
       DEF CheckIntake, RegisterJob, ArmHeartbeat, ReleaseJob, ReleaseReturns, HandlerStart,
           HandlerReturn, HandlerQuits, Submit, Cleanup
  <1> QED
    BY <1>1 DEF ClaimReturns, ClaimFails, Claim, NewLeases

LEMMA KnownForGood ==
    ASSUME ShutdownInv, [Next]_vars, NEW x \in Execs, phase[x] # "unclaimed"
    PROVE  phase'[x] # "unclaimed"
  <1>1. SUFFICES ASSUME phase'[x] = "unclaimed" PROVE FALSE
    OBVIOUS
  <1>2. phase \in [Execs -> Phases] /\ phase'[x] # phase[x]
    BY <1>1 DEF ShutdownInv, AckInv, TypeOK, ExecTypeOK
  <1>3. ASSUME NEW S \in SUBSET Claimable, ClaimReturns(S) \/ ClaimFails(S)
        PROVE  FALSE
    BY <1>1, <1>3 DEF ClaimReturns, ClaimFails, Claim
  <1>4. CASE CheckIntake(x) \/ RegisterJob(x) \/ ArmHeartbeat(x) \/ ReleaseJob(x)
             \/ ReleaseReturns(x) \/ HandlerStart(x) \/ HandlerQuits(x)
    BY <1>1, <1>2, <1>4
       DEF CheckIntake, RegisterJob, ArmHeartbeat, ReleaseJob, ReleaseReturns, HandlerStart,
           HandlerQuits, SetPhase
  <1>5. CASE HandlerReturn(x) \/ Submit(x) \/ Cleanup(x)
    BY <1>1, <1>2, <1>5 DEF HandlerReturn, Submit, Cleanup, CleanupEffect, SetPhase
  <1> QED
    BY <1>1, <1>2, <1>3, <1>4, <1>5, PhaseElsewhere

\* Once the worker is registered, it stays so; deliveries end when all are dealt with.
LEMMA StartedForGood ==
    ASSUME ShutdownInv, [Next]_vars
    PROVE  /\ Started => Started'
           /\ mainPc = "deliver" /\ mainPc' # "deliver" =>
                 PollEnds \/ \E y \in Execs : Submit(y) /\ phase'[y] = "orphaned"
  <1> DEFINE Delivered == PollEnds \/ \E y \in Execs : Submit(y) /\ phase'[y] = "orphaned"
  <1>1. CASE UNCHANGED mainPc
    BY <1>1 DEF Started
  <1>2. CASE StartCall \/ RegisterReturns \/ RegisterFails \/ EnterLoop
             \/ LeaveLoop \/ StartReturns \/ PollStart \/ PollEnds
    BY <1>2
       DEF Started, StartCall, RegisterReturns, RegisterFails, EnterLoop, LeaveLoop,
           StartReturns, PollStart, PollEnds
  <1>3. CASE StopIgnored \/ DeadlinePasses \/ StopWaitPoll \/ StopDrain
             \/ StopAbandoned \/ StopTeardown \/ StopDeregister \/ StopFinishes \/ LeaseExpires
    BY <1>3, <1>1
       DEF StopIgnored, DeadlinePasses, StopWaitPoll, StopDrain, StopAbandoned,
           StopTeardown, StopDeregister, StopFinishes, LeaseExpires
  <1>4. ASSUME NEW onMain \in StopThreads, StopCall(onMain)
        PROVE  (Started => Started') /\ (mainPc = "deliver" /\ mainPc' # "deliver" => Delivered)
    BY <1>4, <1>1 DEF StopCall
  <1>5. ASSUME NEW S \in SUBSET Claimable, ClaimReturns(S) \/ ClaimFails(S)
        PROVE  (Started => Started') /\ (mainPc = "deliver" /\ mainPc' # "deliver" => Delivered)
    BY <1>5 DEF ClaimReturns, ClaimFails, Claim, Started
  <1>6. ASSUME NEW y \in Execs,
               CheckIntake(y) \/ RegisterJob(y) \/ ArmHeartbeat(y) \/ ReleaseJob(y)
             \/ ReleaseReturns(y) \/ HandlerStart(y) \/ HandlerReturn(y) \/ HandlerQuits(y) \/ Cleanup(y)
             \/ TimeoutFires(y) \/ HeartbeatFires(y) \/ HeartbeatAnswered(y) \/ HeartbeatRejected(y)
             \/ StopAbandon(y)
        PROVE  (Started => Started') /\ (mainPc = "deliver" /\ mainPc' # "deliver" => Delivered)
    BY <1>6, <1>1
       DEF CheckIntake, RegisterJob, ArmHeartbeat, ReleaseJob, ReleaseReturns, HandlerStart,
           HandlerReturn, HandlerQuits, Cleanup, TimeoutFires, HeartbeatFires, HeartbeatAnswered,
           HeartbeatRejected, StopAbandon
  <1>7. ASSUME NEW y \in Execs, NEW c \in Callers,
               AckSend(y, c) \/ AckArrives(y, c) \/ AckAnswered(y, c) \/ AckRejected(y, c)
             \/ AbandonClaim(y, c) \/ AbandonEnds(y, c)
        PROVE  (Started => Started') /\ (mainPc = "deliver" /\ mainPc' # "deliver" => Delivered)
    BY <1>7, <1>1
       DEF AckSend, AckArrives, AckAnswered, AckRejected, AbandonClaim, AbandonEnds
  <1>8. ASSUME NEW y \in Execs, Submit(y)
        PROVE  (Started => Started') /\ (mainPc = "deliver" /\ mainPc' # "deliver" => Delivered)
    <2>1. CASE UNCHANGED mainPc
      BY <1>1, <2>1
    <2>2. CASE ~UNCHANGED mainPc
      <3>1. mainPc' = "idle" /\ phase'[y] = "orphaned"
        BY <1>8, <2>2 DEF Submit
      <3> QED
        BY <1>8, <3>1 DEF Started
    <2> QED
      BY <2>1, <2>2
  <1> QED
    BY <1>1, <1>2, <1>3, <1>4, <1>5, <1>6, <1>7, <1>8
       DEF Next, MainStep, StopStep, ProcessJob, AckStep, AbandonStep, HeartbeatStep

\* What makes an execution own a slot, settled, or beat: it is known by then.
LEMMA OnlyKnownAct ==
    ASSUME ShutdownInv, [Next]_vars, NEW x \in Execs, phase[x] = "unclaimed"
    PROVE  heartbeat'[x] = "off" /\ ~settled'[x] /\ ~Owns(x)'
  <1> USE DEF ShutdownInv, AckInv, TypeOK
  <1>1. heartbeat[x] = "off" /\ ~settled[x] /\ ~Owns(x)
    BY DEF KnownAreLeased
  <1>2. x[2] # NoSlot
    BY ExecParts DEF NoSlot
  <1>3. CASE UNCHANGED <<heartbeat, settled, active>>
    BY <1>3, <1>1 DEF Owns
  <1>4. CASE StartCall \/ RegisterReturns \/ RegisterFails \/ EnterLoop
             \/ LeaveLoop \/ StartReturns \/ PollStart \/ PollEnds
             \/ StopIgnored \/ DeadlinePasses \/ StopWaitPoll \/ StopDrain
             \/ StopAbandoned \/ StopTeardown \/ StopDeregister \/ StopFinishes \/ LeaseExpires
    BY <1>4, <1>3
       DEF StartCall, RegisterReturns, RegisterFails, EnterLoop, LeaveLoop, StartReturns,
           PollStart, PollEnds, StopIgnored, DeadlinePasses, StopWaitPoll, StopDrain,
           StopAbandoned, StopTeardown, StopDeregister, StopFinishes, LeaseExpires
  <1>5. ASSUME NEW onMain \in StopThreads, StopCall(onMain)
        PROVE  heartbeat'[x] = "off" /\ ~settled'[x] /\ ~Owns(x)'
    BY <1>5, <1>3 DEF StopCall
  <1>6. ASSUME NEW S \in SUBSET Claimable, ClaimReturns(S) \/ ClaimFails(S)
        PROVE  heartbeat'[x] = "off" /\ ~settled'[x] /\ ~Owns(x)'
    BY <1>6, <1>3 DEF ClaimReturns, ClaimFails, Claim
  <1>7. ASSUME NEW y \in Execs,
               ReleaseJob(y) \/ ReleaseReturns(y) \/ HandlerStart(y) \/ TimeoutFires(y)
             \/ StopAbandon(y)
        PROVE  heartbeat'[x] = "off" /\ ~settled'[x] /\ ~Owns(x)'
    BY <1>7, <1>3 DEF ReleaseJob, ReleaseReturns, HandlerStart, TimeoutFires, StopAbandon
  <1>8. ASSUME NEW y \in Execs, NEW c \in Callers,
               AckSend(y, c) \/ AckArrives(y, c) \/ AckAnswered(y, c)
        PROVE  heartbeat'[x] = "off" /\ ~settled'[x] /\ ~Owns(x)'
    BY <1>8, <1>3 DEF AckSend, AckArrives, AckAnswered
  <1>9. ASSUME NEW y \in Execs,
               HeartbeatFires(y) \/ HeartbeatAnswered(y) \/ HeartbeatRejected(y)
        PROVE  heartbeat'[x] = "off" /\ ~settled'[x] /\ ~Owns(x)'
    BY <1>9, <1>1 DEF ExecTypeOK, Owns, HeartbeatFires, HeartbeatAnswered, HeartbeatRejected
  <1>10. ASSUME NEW y \in Execs, NEW c \in Callers,
               AckRejected(y, c)
        PROVE  heartbeat'[x] = "off" /\ ~settled'[x] /\ ~Owns(x)'
    BY <1>10, <1>1 DEF ExecTypeOK, Owns, AckRejected
  <1>11. ASSUME NEW y \in Execs,
               CheckIntake(y) \/ RegisterJob(y) \/ ArmHeartbeat(y) \/ HandlerReturn(y) \/ HandlerQuits(y)
        PROVE  heartbeat'[x] = "off" /\ ~settled'[x] /\ ~Owns(x)'
    BY <1>11, <1>1, ExecParts DEF ExecTypeOK, Owns, CheckIntake, RegisterJob, ArmHeartbeat, HandlerReturn,
           HandlerQuits
  <1>12. ASSUME NEW y \in Execs, NEW c \in Callers,
               AbandonClaim(y, c)
        PROVE  heartbeat'[x] = "off" /\ ~settled'[x] /\ ~Owns(x)'
    BY <1>12, <1>1 DEF ExecTypeOK, Owns, AbandonClaim, CanSettle
  <1>13. ASSUME NEW y \in Execs, FreeSlot(y), CancelTimers(y), UNCHANGED settled
        PROVE  heartbeat'[x] = "off" /\ ~settled'[x] /\ ~Owns(x)'
    BY <1>13, <1>1, <1>2, ExecParts DEF ExecTypeOK, Owns, FreeSlot, CancelTimers
  <1>14. ASSUME NEW y \in Execs, NEW c \in Callers,
               AbandonEnds(y, c)
        PROVE  heartbeat'[x] = "off" /\ ~settled'[x] /\ ~Owns(x)'
    BY <1>14, <1>13 DEF AbandonEnds
  <1>15. ASSUME NEW y \in Execs, Submit(y) \/ Cleanup(y)
        PROVE  heartbeat'[x] = "off" /\ ~settled'[x] /\ ~Owns(x)'
    BY <1>15, <1>3, <1>13 DEF Submit, Cleanup, CleanupEffect
  <1> QED
    BY <1>3, <1>4, <1>5, <1>6, <1>7, <1>8, <1>9, <1>10, <1>11, <1>12, <1>13, <1>14, <1>15
       DEF Next, MainStep, StopStep, ProcessJob, AckStep, AbandonStep, HeartbeatStep

LEMMA KnownAreLeasedStep ==
    ASSUME ShutdownInv, TypeOK', [Next]_vars
    PROVE  KnownAreLeased'
  <1>1. SUFFICES ASSUME NEW x \in Execs
                 PROVE  /\ phase'[x] # "unclaimed" => Leased(x)' /\ Started'
                        /\ heartbeat'[x] # "off" \/ settled'[x] \/ Owns(x)' => phase'[x] # "unclaimed"
    BY DEF KnownAreLeased
  <1>2. CASE phase[x] # "unclaimed"
    BY <1>2, LeasesOnlyEnd, StartedForGood, KnownForGood DEF ShutdownInv, KnownAreLeased
  <1>3. CASE phase[x] = "unclaimed"
    <2>1. heartbeat'[x] = "off" /\ ~settled'[x] /\ ~Owns(x)'
      BY <1>3, OnlyKnownAct
    <2>2. ASSUME phase'[x] # "unclaimed" PROVE Leased(x)' /\ Started'
      <3>1. PICK S \in SUBSET Claimable :
                (ClaimReturns(S) \/ ClaimFails(S)) /\ x \in NewLeases(S)
        BY <1>3, <2>2, KnownByClaim
      <3>2. x[1] \in S /\ x[2] = attempts[x[1]] + 1 /\ x[1] \in Jobs
        BY <3>1, ExecParts DEF NewLeases
      <3>3. attempts'[x[1]] = attempts[x[1]] + 1 /\ Started'
        BY <3>1, <3>2 DEF ClaimReturns, ClaimFails, Claim, GrantLeases, Started
      <3> QED
        BY <3>2, <3>3, ExecParts DEF ShutdownInv, AckInv, TypeOK, LeaseTypeOK, Leased
    <2> QED
      BY <2>1, <2>2
  <1> QED
    BY <1>2, <1>3

-----------------------------------------------------------------------------
(* Who does what *)

\* A lease is reported lost by the answer to a heartbeat or to an ack.
LEMMA LostByAnswer ==
    ASSUME ShutdownInv, [Next]_vars, NEW x \in Execs, leaseLost'[x], ~leaseLost[x]
    PROVE  /\ heartbeat[x] # "off" \/ settled[x]
           /\ ~Live(x) /\ UNCHANGED leaseVars
  <1>1. CASE UNCHANGED leaseLost
    BY <1>1
  <1>2. CASE StartCall \/ RegisterReturns \/ RegisterFails \/ EnterLoop
             \/ LeaveLoop \/ StartReturns \/ PollStart \/ PollEnds
             \/ StopIgnored \/ DeadlinePasses \/ StopWaitPoll \/ StopDrain
             \/ StopAbandoned \/ StopTeardown \/ StopDeregister \/ StopFinishes \/ LeaseExpires
    BY <1>2, <1>1
       DEF StartCall, RegisterReturns, RegisterFails, EnterLoop, LeaveLoop, StartReturns,
           PollStart, PollEnds, StopIgnored, DeadlinePasses, StopWaitPoll, StopDrain,
           StopAbandoned, StopTeardown, StopDeregister, StopFinishes, LeaseExpires
  <1>3. ASSUME NEW onMain \in StopThreads, StopCall(onMain)
        PROVE  /\ heartbeat[x] # "off" \/ settled[x]
               /\ ~Live(x) /\ UNCHANGED leaseVars
    BY <1>3, <1>1 DEF StopCall
  <1>4. ASSUME NEW S \in SUBSET Claimable, ClaimReturns(S) \/ ClaimFails(S)
        PROVE  /\ heartbeat[x] # "off" \/ settled[x]
               /\ ~Live(x) /\ UNCHANGED leaseVars
    BY <1>4, <1>1 DEF ClaimReturns, ClaimFails, Claim
  <1>5. ASSUME NEW y \in Execs,
               CheckIntake(y) \/ RegisterJob(y) \/ ArmHeartbeat(y) \/ Submit(y) \/ ReleaseJob(y)
             \/ ReleaseReturns(y) \/ HandlerStart(y) \/ HandlerReturn(y) \/ HandlerQuits(y) \/ Cleanup(y)
             \/ TimeoutFires(y) \/ HeartbeatFires(y) \/ HeartbeatAnswered(y) \/ StopAbandon(y)
        PROVE  /\ heartbeat[x] # "off" \/ settled[x]
               /\ ~Live(x) /\ UNCHANGED leaseVars
    BY <1>5, <1>1
       DEF CheckIntake, RegisterJob, ArmHeartbeat, Submit, ReleaseJob, ReleaseReturns, HandlerStart,
           HandlerReturn, HandlerQuits, Cleanup, TimeoutFires, HeartbeatFires, HeartbeatAnswered,
           StopAbandon
  <1>6. ASSUME NEW y \in Execs, NEW c \in Callers,
               AckSend(y, c) \/ AckArrives(y, c) \/ AckAnswered(y, c) \/ AbandonClaim(y, c)
             \/ AbandonEnds(y, c)
        PROVE  /\ heartbeat[x] # "off" \/ settled[x]
               /\ ~Live(x) /\ UNCHANGED leaseVars
    BY <1>6, <1>1 DEF AckSend, AckArrives, AckAnswered, AbandonClaim, AbandonEnds
  <1>7. ASSUME NEW y \in Execs, HeartbeatRejected(y)
        PROVE  /\ heartbeat[x] # "off" \/ settled[x]
               /\ ~Live(x) /\ UNCHANGED leaseVars
    BY <1>7 DEF HeartbeatRejected, ShutdownInv, AckInv, TypeOK, ExecTypeOK, LoseLease
  <1>8. ASSUME NEW y \in Execs, NEW c \in Callers, AckRejected(y, c)
        PROVE  /\ heartbeat[x] # "off" \/ settled[x]
               /\ ~Live(x) /\ UNCHANGED leaseVars
    BY <1>8
       DEF AckRejected, ShutdownInv, AckInv, TypeOK, ExecTypeOK, LoseLease,
           GrantedAreSettled, Granted
  <1> QED
    BY <1>1, <1>2, <1>3, <1>4, <1>5, <1>6, <1>7, <1>8
       DEF Next, MainStep, StopStep, ProcessJob, AckStep, AbandonStep, HeartbeatStep,
           Callers

\* A job waits for the poll thread because a claim just returned it.
LEMMA ReceivedByClaim ==
    ASSUME ShutdownInv, [Next]_vars, NEW x \in Execs,
           phase'[x] = "received", phase[x] # "received"
    PROVE  \E S \in SUBSET Claimable : ClaimReturns(S) /\ x \in NewLeases(S)
  <1>1. phase \in [Execs -> Phases]
    BY DEF ShutdownInv, AckInv, TypeOK, ExecTypeOK
  <1>2. ~(CheckIntake(x) \/ RegisterJob(x) \/ ArmHeartbeat(x) \/ ReleaseJob(x)
          \/ ReleaseReturns(x) \/ HandlerStart(x) \/ HandlerQuits(x))
    BY <1>1
       DEF CheckIntake, RegisterJob, ArmHeartbeat, ReleaseJob, ReleaseReturns, HandlerStart,
           HandlerQuits, SetPhase
  <1>3. ~(HandlerReturn(x) \/ Submit(x) \/ Cleanup(x))
    BY <1>1 DEF HandlerReturn, Submit, Cleanup, CleanupEffect, SetPhase
  <1>4. PICK S \in SUBSET Claimable : ClaimReturns(S) \/ ClaimFails(S)
    BY <1>2, <1>3, PhaseElsewhere
  <1> QED
    BY <1>1, <1>4 DEF ClaimReturns, ClaimFails, Claim

\* A job is about to get its slot because the poll thread found the intake open.
LEMMA AdmittedByCheck ==
    ASSUME ShutdownInv, [Next]_vars, NEW x \in Execs,
           phase'[x] = "admitted", phase[x] # "admitted"
    PROVE  CheckIntake(x) /\ phase[x] = "received" /\ ~intakeClosed
  <1>1. phase \in [Execs -> Phases]
    BY DEF ShutdownInv, AckInv, TypeOK, ExecTypeOK
  <1>2. ~(RegisterJob(x) \/ ArmHeartbeat(x) \/ ReleaseJob(x)
          \/ ReleaseReturns(x) \/ HandlerStart(x) \/ HandlerQuits(x))
    BY <1>1
       DEF RegisterJob, ArmHeartbeat, ReleaseJob, ReleaseReturns, HandlerStart, HandlerQuits,
           SetPhase
  <1>3. ~(HandlerReturn(x) \/ Submit(x) \/ Cleanup(x))
    BY <1>1 DEF HandlerReturn, Submit, Cleanup, CleanupEffect, SetPhase
  <1>4. ASSUME NEW S \in SUBSET Claimable, ClaimReturns(S) \/ ClaimFails(S)
        PROVE  FALSE
    BY <1>1, <1>4 DEF ClaimReturns, ClaimFails, Claim
  <1>5. CheckIntake(x)
    BY <1>2, <1>3, <1>4, PhaseElsewhere
  <1> QED
    BY <1>1, <1>5 DEF CheckIntake, SetPhase

\* An execution gets to its cleanup when its handler is through, or when there is
\* no pool left to run it.
LEMMA ReturnedBy ==
    ASSUME ShutdownInv, [Next]_vars, NEW x \in Execs,
           phase'[x] \in {"acking", "cleanup", "finished"},
           phase[x] \notin {"acking", "cleanup", "finished"}
    PROVE  \/ HandlerReturn(x) \/ HandlerQuits(x)
           \/ Submit(x) /\ x \in Registered /\ executor # "open"
  <1>1. phase \in [Execs -> Phases]
    BY DEF ShutdownInv, AckInv, TypeOK, ExecTypeOK
  <1>2. ~(CheckIntake(x) \/ RegisterJob(x) \/ ArmHeartbeat(x) \/ ReleaseJob(x)
          \/ ReleaseReturns(x) \/ HandlerStart(x) \/ Cleanup(x))
    BY <1>1
       DEF CheckIntake, RegisterJob, ArmHeartbeat, ReleaseJob, ReleaseReturns, HandlerStart,
           Cleanup, SetPhase
  <1>3. ASSUME NEW S \in SUBSET Claimable, ClaimReturns(S) \/ ClaimFails(S)
        PROVE  FALSE
    BY <1>1, <1>3 DEF ClaimReturns, ClaimFails, Claim
  <1>4. Submit(x) => x \in Registered /\ executor # "open"
    BY <1>1 DEF Submit, Registered, SetPhase
  <1> QED
    BY <1>2, <1>3, <1>4, PhaseElsewhere

\* The poll thread takes up a job when it is busy with none.
LEMMA InProcessByCheck ==
    ASSUME ShutdownInv, [Next]_vars, NEW x \in InProcessJob', x \notin InProcessJob
    PROVE  CheckIntake(x) /\ InProcessJob = {}
  <1>0. x \in Execs /\ phase \in [Execs -> Phases]
    BY DEF ShutdownInv, AckInv, TypeOK, ExecTypeOK, InProcessJob
  <1>1. ~(RegisterJob(x) \/ ArmHeartbeat(x) \/ ReleaseJob(x) \/ ReleaseReturns(x)
          \/ HandlerStart(x) \/ HandlerQuits(x))
    BY <1>0
       DEF RegisterJob, ArmHeartbeat, ReleaseJob, ReleaseReturns, HandlerStart, HandlerQuits,
           SetPhase, InProcessJob
  <1>2. ~(HandlerReturn(x) \/ Submit(x) \/ Cleanup(x))
    BY <1>0 DEF HandlerReturn, Submit, Cleanup, CleanupEffect, SetPhase, InProcessJob
  <1>3. ASSUME NEW S \in SUBSET Claimable, ClaimReturns(S) \/ ClaimFails(S)
        PROVE  FALSE
    BY <1>0, <1>3 DEF ClaimReturns, ClaimFails, Claim, InProcessJob
  <1>4. phase'[x] # phase[x] /\ phase'[x] # "dropped"
    BY <1>0 DEF InProcessJob
  <1>5. CheckIntake(x)
    BY <1>0, <1>1, <1>2, <1>3, <1>4, PhaseElsewhere
  <1> QED
    BY <1>5 DEF CheckIntake

\* stop() answers its own signal by asking for the settlement.
LEMMA SignalTaken ==
    ASSUME ShutdownInv, [Next]_vars, NEW x \in Execs,
           ack[x]["stop"] = "signalled", ack'[x]["stop"] # "signalled"
    PROVE  AbandonClaim(x, "stop")
  <1>1. CASE UNCHANGED ack
    BY <1>1
  <1>2. CASE StartCall \/ RegisterReturns \/ RegisterFails \/ EnterLoop
             \/ LeaveLoop \/ StartReturns \/ PollStart \/ PollEnds
             \/ StopIgnored \/ DeadlinePasses \/ StopWaitPoll \/ StopDrain
             \/ StopAbandoned \/ StopTeardown \/ StopDeregister \/ StopFinishes \/ LeaseExpires
    BY <1>2, <1>1
       DEF StartCall, RegisterReturns, RegisterFails, EnterLoop, LeaveLoop, StartReturns,
           PollStart, PollEnds, StopIgnored, DeadlinePasses, StopWaitPoll, StopDrain,
           StopAbandoned, StopTeardown, StopDeregister, StopFinishes, LeaseExpires
  <1>3. ASSUME NEW onMain \in StopThreads, StopCall(onMain)
        PROVE  AbandonClaim(x, "stop")
    BY <1>3, <1>1 DEF StopCall
  <1>4. ASSUME NEW S \in SUBSET Claimable, ClaimReturns(S) \/ ClaimFails(S)
        PROVE  AbandonClaim(x, "stop")
    BY <1>4, <1>1 DEF ClaimReturns, ClaimFails, Claim
  <1>5. ASSUME NEW y \in Execs,
               CheckIntake(y) \/ RegisterJob(y) \/ ArmHeartbeat(y) \/ Submit(y) \/ ReleaseJob(y)
             \/ ReleaseReturns(y) \/ HandlerStart(y) \/ HeartbeatFires(y) \/ HeartbeatAnswered(y)
             \/ HeartbeatRejected(y)
        PROVE  AbandonClaim(x, "stop")
    BY <1>5, <1>1
       DEF CheckIntake, RegisterJob, ArmHeartbeat, Submit, ReleaseJob, ReleaseReturns, HandlerStart,
           HeartbeatFires, HeartbeatAnswered, HeartbeatRejected
  <1>6. ASSUME NEW y \in Execs, HandlerReturn(y) \/ HandlerQuits(y) \/ Cleanup(y)
                 \/ TimeoutFires(y) \/ StopAbandon(y)
        PROVE  AbandonClaim(x, "stop")
    BY <1>6
       DEF HandlerReturn, HandlerQuits, Cleanup, TimeoutFires, StopAbandon, ShutdownInv, AckInv,
           TypeOK, ExecTypeOK, SetAck, Callers
  <1>7. ASSUME NEW y \in Execs, NEW c \in Callers, AckSend(y, c) \/ AckArrives(y, c)
                 \/ AckAnswered(y, c) \/ AckRejected(y, c)
             \/ AbandonClaim(y, c) \/ AbandonEnds(y, c)
        PROVE  AbandonClaim(x, "stop")
    BY <1>7
       DEF AckSend, AckArrives, AckAnswered, AckRejected, AbandonClaim, AbandonEnds,
           ShutdownInv, AckInv, TypeOK, ExecTypeOK, SetAck, Callers
  <1> QED
    BY <1>1, <1>2, <1>3, <1>4, <1>5, <1>6, <1>7
       DEF Next, MainStep, StopStep, ProcessJob, AckStep, AbandonStep, HeartbeatStep,
           Callers

\* stop() goes through its stages in order, on one thread, and keeps the intake closed.
LEMMA StopAdvances ==
    ASSUME ShutdownInv, [Next]_vars
    PROVE  /\ intakeClosed => intakeClosed'
           /\ intakeClosed' => intakeClosed \/ StopDrain
           /\ stopPc # "none" => stopPc' # "none" /\ (stopOnMain => stopOnMain')
           /\ stopPc = "done" => stopPc' = "done"
           /\ stopPc' \in {"grace", "deregister", "deregistered", "done"} =>
                 stopPc \in {"grace", "deregister", "deregistered", "done"} \/ StopAbandoned
           /\ stopPc' = "abandon" =>
                 \/ StopDrain
                 \/ /\ stopPc = "abandon"
                    /\ stopTodo' = stopTodo \/ \E y \in Execs : StopAbandon(y)
  <1> DEFINE Advance ==
        /\ intakeClosed => intakeClosed'
        /\ intakeClosed' => intakeClosed \/ StopDrain
        /\ stopPc # "none" => stopPc' # "none" /\ (stopOnMain => stopOnMain')
        /\ stopPc = "done" => stopPc' = "done"
        /\ stopPc' \in {"grace", "deregister", "deregistered", "done"} =>
              stopPc \in {"grace", "deregister", "deregistered", "done"} \/ StopAbandoned
        /\ stopPc' = "abandon" =>
              \/ StopDrain
              \/ /\ stopPc = "abandon"
                 /\ stopTodo' = stopTodo \/ \E y \in Execs : StopAbandon(y)
  <1>1. CASE UNCHANGED <<intakeClosed, stopPc, stopTodo, stopOnMain>>
    BY <1>1
  <1>2. CASE StartCall \/ RegisterReturns \/ RegisterFails \/ EnterLoop
             \/ LeaveLoop \/ StartReturns \/ PollStart \/ PollEnds
             \/ StopIgnored \/ DeadlinePasses \/ LeaseExpires
    BY <1>2, <1>1
       DEF StartCall, RegisterReturns, RegisterFails, EnterLoop, LeaveLoop, StartReturns,
           PollStart, PollEnds, StopIgnored, DeadlinePasses, LeaseExpires
  <1>3. CASE StopWaitPoll \/ StopDrain \/ StopAbandoned \/ StopTeardown
             \/ StopDeregister \/ StopFinishes
    BY <1>3 DEF StopWaitPoll, StopDrain, StopAbandoned, StopTeardown, StopDeregister, StopFinishes
  <1>4. ASSUME NEW onMain \in StopThreads, StopCall(onMain)
        PROVE  Advance
    BY <1>4 DEF StopCall, ShutdownInv, IdAndPoolWhileRunning
  <1>5. ASSUME NEW S \in SUBSET Claimable, ClaimReturns(S) \/ ClaimFails(S)
        PROVE  Advance
    BY <1>5, <1>1 DEF ClaimReturns, ClaimFails, Claim
  <1>6. ASSUME NEW y \in Execs,
               CheckIntake(y) \/ RegisterJob(y) \/ ArmHeartbeat(y) \/ Submit(y) \/ ReleaseJob(y)
             \/ ReleaseReturns(y) \/ HandlerStart(y) \/ HandlerReturn(y) \/ HandlerQuits(y) \/ Cleanup(y)
             \/ TimeoutFires(y) \/ HeartbeatFires(y) \/ HeartbeatAnswered(y) \/ HeartbeatRejected(y)
        PROVE  Advance
    BY <1>6, <1>1
       DEF CheckIntake, RegisterJob, ArmHeartbeat, Submit, ReleaseJob, ReleaseReturns, HandlerStart,
           HandlerReturn, HandlerQuits, Cleanup, TimeoutFires, HeartbeatFires, HeartbeatAnswered,
           HeartbeatRejected
  <1>7. ASSUME NEW y \in Execs, NEW c \in Callers,
               AckSend(y, c) \/ AckArrives(y, c) \/ AckAnswered(y, c) \/ AckRejected(y, c)
             \/ AbandonClaim(y, c) \/ AbandonEnds(y, c)
        PROVE  Advance
    BY <1>7, <1>1
       DEF AckSend, AckArrives, AckAnswered, AckRejected, AbandonClaim, AbandonEnds
  <1>8. ASSUME NEW y \in Execs, StopAbandon(y)
        PROVE  Advance
    BY <1>8 DEF StopAbandon
  <1> QED
    BY <1>1, <1>2, <1>3, <1>4, <1>5, <1>6, <1>7, <1>8
       DEF Next, MainStep, StopStep, ProcessJob, AckStep, AbandonStep, HeartbeatStep

-----------------------------------------------------------------------------
(* Every part of the invariant is kept *)

LEMMA LostAreLostStep ==
    ASSUME ShutdownInv, [Next]_vars
    PROVE  LostAreLost'
  <1>1. SUFFICES ASSUME NEW x \in Execs, leaseLost'[x]
                 PROVE  Leased(x)' /\ ~Live(x)'
    BY DEF LostAreLost
  <1>2. Leased(x) /\ ~Live(x)
    <2>1. CASE leaseLost[x]
      BY <2>1 DEF ShutdownInv, LostAreLost
    <2>2. CASE ~leaseLost[x]
      BY <1>1, <2>2, LostByAnswer DEF ShutdownInv, KnownAreLeased
    <2> QED
      BY <2>1, <2>2
  <1> QED
    BY <1>2, LeasesOnlyEnd

LEMMA ReceivedAreNewStep ==
    ASSUME ShutdownInv, [Next]_vars
    PROVE  ReceivedAreNew'
  <1> DEFINE Waits(x) == phase[x] \in {"received", "admitted"}
             Waiting(x) == phase'[x] \in {"received", "admitted"}
  <1>1. SUFFICES ASSUME NEW y \in Execs, Waiting(y)
                 PROVE  /\ mainPc' = "deliver"
                        /\ \A x \in Execs : x[1] = y[1] /\ Waiting(x) => x = y
                        /\ \A x \in Slotted' : x[1] = y[1] => x[2] < y[2]
    BY DEF ReceivedAreNew
  <1>2. ASSUME NEW x \in Execs, Waiting(x), ~Waits(x)
        PROVE  \E S \in SUBSET Claimable : ClaimReturns(S) /\ x \in NewLeases(S)
    BY <1>2, AdmittedByCheck, ReceivedByClaim
  <1>3. ASSUME NEW x \in Slotted', x \notin Slotted
        PROVE  x \in Execs /\ phase[x] = "admitted" /\ ~Waiting(x)
    <2>1. x \in Execs
      BY <1>3 DEF Slotted, Registered
    <2> QED
      BY <1>3, <2>1, SlottedByRegister DEF Slotted, Registered
  <1>4. CASE Waits(y)
    <2>1. mainPc = "deliver"
      BY <1>4 DEF ShutdownInv, ReceivedAreNew
    <2>2. ~PollEnds
      BY <1>4 DEF PollEnds, InProcessJob
    <2>3. ASSUME NEW z \in Execs, Submit(z), phase'[z] = "orphaned"
          PROVE  FALSE
      <3>1. phase[z] = "submitting" /\ z # y
        BY <1>4, <2>3 DEF Submit
      <3>2. phase[y] = "received"
        BY <1>4, <3>1 DEF ShutdownInv, OneAtATime, InProcessJob
      <3>3. phase'[y] = "dropped"
        BY <2>3, <3>1, <3>2
           DEF Submit, SetPhase, CleanupEffect, ShutdownInv, AckInv, TypeOK, ExecTypeOK
      <3> QED
        BY <1>1, <3>3
    <2>4. mainPc' = "deliver"
      BY <2>1, <2>2, <2>3, StartedForGood
    <2>5. \A x \in Execs : Waiting(x) => Waits(x)
      BY <1>2, <2>1 DEF ClaimReturns, Claim
    <2>6. ASSUME NEW x \in Slotted', x[1] = y[1]
          PROVE  x[2] < y[2]
      <3>1. CASE x \in Slotted
        BY <1>4, <2>6, <3>1 DEF ShutdownInv, ReceivedAreNew
      <3>2. CASE x \notin Slotted
        BY <1>1, <1>3, <1>4, <2>6, <3>2 DEF ShutdownInv, ReceivedAreNew
      <3> QED
        BY <3>1, <3>2
    <2> QED
      BY <1>4, <2>4, <2>5, <2>6 DEF ShutdownInv, ReceivedAreNew
  <1>5. CASE ~Waits(y)
    <2>1. PICK S \in SUBSET Claimable : ClaimReturns(S) /\ y \in NewLeases(S)
      BY <1>1, <1>2, <1>5
    <2>2. mainPc = "claiming" /\ mainPc' = "deliver"
      BY <2>1 DEF ClaimReturns, Claim
    <2>3. \A x \in Execs : ~Waits(x)
      BY <2>2 DEF ShutdownInv, ReceivedAreNew
    <2>4. \A x \in Execs : Waiting(x) => x \in NewLeases(S)
      BY <2>1, <2>3 DEF ClaimReturns, Claim
    <2>5. \A x \in Execs : x \in NewLeases(S) => x[2] = attempts[x[1]] + 1
      BY DEF NewLeases
    <2>6. ASSUME NEW x \in Slotted', x[1] = y[1]
          PROVE  x[2] < y[2]
      <3>1. x \in Slotted
        BY <1>3, <2>3, <2>6
      <3>2. x \in Execs /\ Leased(x)
        BY <3>1 DEF Slotted, Registered, ShutdownInv, KnownAreLeased
      <3>3. attempts[x[1]] \in Nat /\ x[2] \in Nat
        BY <3>2, ExecParts DEF ShutdownInv, AckInv, TypeOK, LeaseTypeOK
      <3> QED
        BY <2>1, <2>5, <2>6, <3>2, <3>3 DEF Leased
    <2> QED
      BY <2>1, <2>2, <2>4, <2>5, <2>6, ExecParts
  <1> QED
    BY <1>4, <1>5

LEMMA UnsettledOwnTheirSlotStep ==
    ASSUME ShutdownInv, [Next]_vars
    PROVE  UnsettledOwnTheirSlot'
  <1>1. SUFFICES ASSUME NEW x \in Registered', Live(x)', ~settled'[x], ~Quit(x)'
                 PROVE  Owns(x)'
    BY DEF UnsettledOwnTheirSlot
  <1>2. CASE x \notin Registered
    BY <1>2, TakenOnByRegister
  <1>3. CASE x \in Registered
    <2>1. x \in Execs /\ Leased(x)
      BY <1>3 DEF Registered, ShutdownInv, KnownAreLeased
    <2>2. Live(x) /\ ~settled[x] /\ ~Quit(x)
      BY <1>1, <2>1, LeasesOnlyEnd, SettledForGood, QuitByHandler
    <2> QED
      BY <1>1, <1>3, <2>2, SlotKept DEF ShutdownInv, UnsettledOwnTheirSlot
  <1> QED
    BY <1>2, <1>3

\* A live execution that was taken on, is not settled and has not quit passes CanSettle
\* as long as stop() has not ended; afterwards there is none.
LEMMA LiveCanSettle ==
    ASSUME ShutdownInv, NEW x \in Registered, Live(x)
    PROVE  settled[x] \/ Quit(x) \/ CanSettle(x)
  <1>1. x \in Execs /\ phase[x] # "unclaimed"
    BY DEF Registered
  <1>2. ~leaseLost[x] /\ Started
    BY <1>1 DEF ShutdownInv, LostAreLost, KnownAreLeased
  <1>3. CASE stopPc = "done"
    BY <1>3 DEF ShutdownInv, StopProgress
  <1>4. CASE stopPc # "done"
    BY <1>2, <1>4
       DEF ShutdownInv, IdAndPoolWhileRunning, UnsettledOwnTheirSlot, CanSettle
  <1> QED
    BY <1>3, <1>4

LEMMA ReturnedAreSettledStep ==
    ASSUME ShutdownInv, [Next]_vars
    PROVE  ReturnedAreSettled'
  <1>1. SUFFICES ASSUME NEW x \in Execs, phase'[x] \in {"acking", "cleanup", "finished"}, Live(x)'
                 PROVE  settled'[x] \/ Quit(x)'
    BY DEF ReturnedAreSettled
  <1>2. CASE phase[x] \in {"acking", "cleanup", "finished"}
    <2>1. Live(x)
      BY <1>1, <1>2, LeasesOnlyEnd DEF ShutdownInv, KnownAreLeased
    <2> QED
      BY <1>2, <2>1, SettledForGood, QuitByHandler DEF ShutdownInv, ReturnedAreSettled
  <1>3. CASE HandlerReturn(x)
    <2>1. Live(x) /\ x \in Registered /\ ~Quit(x)
      BY <1>1, <1>3 DEF HandlerReturn, Live, Registered, ShutdownInv, QuitIsOver
    <2>2. settled[x] \/ CanSettle(x)
      BY <2>1, LiveCanSettle
    <2>3. ASSUME CanSettle(x) PROVE settled'[x]
      BY <1>3, <2>3 DEF HandlerReturn, ShutdownInv, AckInv, TypeOK, ExecTypeOK
    <2> QED
      BY <2>2, <2>3, SettledForGood
  <1>4. CASE Submit(x) /\ x \in Registered /\ executor # "open"
    <2>1. Live(x)
      BY <1>1, <1>4 DEF Submit, Live
    <2> QED
      BY <1>4, <2>1, NoPoolNoLiveWork, SettledForGood, QuitByHandler
  <1>5. CASE HandlerQuits(x)
    BY <1>5
       DEF HandlerQuits, SetAck, Quit, Callers, ShutdownInv, AckInv, TypeOK, ExecTypeOK
  <1> QED
    BY <1>1, <1>2, <1>3, <1>4, <1>5, ReturnedBy

LEMMA QuitIsOverStep ==
    ASSUME ShutdownInv, [Next]_vars
    PROVE  QuitIsOver'
  <1>1. SUFFICES ASSUME NEW x \in Execs, Quit(x)'
                 PROVE  phase'[x] \in {"cleanup", "finished"}
    BY DEF QuitIsOver
  <1>2. phase \in [Execs -> Phases]
    BY DEF ShutdownInv, AckInv, TypeOK, ExecTypeOK
  <1>3. CASE HandlerQuits(x)
    BY <1>2, <1>3 DEF HandlerQuits, SetPhase
  <1>4. CASE Quit(x)
    <2>1. phase[x] \in {"cleanup", "finished"}
      BY <1>4 DEF ShutdownInv, QuitIsOver
    <2>2. CASE Cleanup(x)
      BY <1>2, <2>2 DEF Cleanup, CleanupEffect, SetPhase
    <2>3. phase'[x] = phase[x] \/ Cleanup(x)
      BY <2>1, PhaseElsewhere, ClaimKeepsKnown
         DEF CheckIntake, RegisterJob, ArmHeartbeat, ReleaseJob, ReleaseReturns, HandlerStart,
             HandlerReturn, HandlerQuits, Submit
    <2> QED
      BY <2>1, <2>2, <2>3
  <1> QED
    BY <1>1, <1>3, <1>4, QuitByHandler

LEMMA OneAtATimeStep ==
    ASSUME ShutdownInv, [Next]_vars
    PROVE  OneAtATime'
  <1>1. SUFFICES ASSUME NEW x \in InProcessJob', NEW y \in InProcessJob', x # y
                 PROVE  FALSE
    BY DEF OneAtATime
  <1>2. CASE x \in InProcessJob /\ y \in InProcessJob
    BY <1>1, <1>2 DEF ShutdownInv, OneAtATime
  <1>3. CASE x \notin InProcessJob /\ y \notin InProcessJob
    <2>1. CheckIntake(x) /\ CheckIntake(y) /\ x \in Execs /\ y \in Execs
      BY <1>3, InProcessByCheck DEF InProcessJob
    <2>2. phase'[y] = "received"
      BY <1>1, <2>1 DEF CheckIntake, SetPhase, ShutdownInv, AckInv, TypeOK, ExecTypeOK
    <2> QED
      BY <2>2 DEF InProcessJob
  <1> QED
    BY <1>2, <1>3, InProcessByCheck

LEMMA IdAndPoolStep ==
    ASSUME ShutdownInv, [Next]_vars
    PROVE  /\ IdAndPoolWhileRunning'
           /\ stopPc' \in {"deregister", "deregistered", "done"} => executor' = "none"
  <1> DEFINE Pool == stopPc \in {"deregister", "deregistered", "done"} => executor = "none"
  <1>0. IdAndPoolWhileRunning /\ Pool
    BY DEF ShutdownInv, LateAfterStop
  <1>1. CASE UNCHANGED <<wstate, mainPc, stopPc, workerId, executor>>
    BY <1>0, <1>1 DEF IdAndPoolWhileRunning, Started
  <1>2. CASE StopIgnored \/ DeadlinePasses \/ LeaseExpires
    BY <1>2, <1>1 DEF StopIgnored, DeadlinePasses, LeaseExpires
  <1>3. CASE StartCall \/ RegisterReturns \/ RegisterFails \/ EnterLoop
             \/ LeaveLoop \/ StartReturns \/ PollStart \/ PollEnds
             \/ StopWaitPoll \/ StopDrain \/ StopAbandoned \/ StopTeardown
             \/ StopDeregister \/ StopFinishes
    BY <1>0, <1>3
       DEF StartCall, RegisterReturns, RegisterFails, EnterLoop, LeaveLoop, StartReturns,
           PollStart, PollEnds, StopWaitPoll, StopDrain, StopAbandoned, StopTeardown,
           StopDeregister, StopFinishes, IdAndPoolWhileRunning, Started
  <1>4. ASSUME NEW onMain \in StopThreads, StopCall(onMain)
        PROVE  IdAndPoolWhileRunning' /\ Pool'
    BY <1>0, <1>4 DEF StopCall, IdAndPoolWhileRunning, Started
  <1>5. ASSUME NEW S \in SUBSET Claimable, ClaimReturns(S) \/ ClaimFails(S)
        PROVE  IdAndPoolWhileRunning' /\ Pool'
    BY <1>0, <1>5 DEF ClaimReturns, ClaimFails, Claim, IdAndPoolWhileRunning, Started
  <1>6. ASSUME NEW y \in Execs,
               CheckIntake(y) \/ RegisterJob(y) \/ ArmHeartbeat(y) \/ ReleaseJob(y)
             \/ ReleaseReturns(y) \/ HandlerStart(y) \/ HandlerReturn(y) \/ HandlerQuits(y)
             \/ Cleanup(y) \/ TimeoutFires(y) \/ HeartbeatFires(y) \/ HeartbeatAnswered(y)
             \/ HeartbeatRejected(y) \/ StopAbandon(y)
        PROVE  IdAndPoolWhileRunning' /\ Pool'
    BY <1>6, <1>1
       DEF CheckIntake, RegisterJob, ArmHeartbeat, ReleaseJob, ReleaseReturns, HandlerStart,
           HandlerReturn, HandlerQuits, Cleanup, TimeoutFires, HeartbeatFires, HeartbeatAnswered,
           HeartbeatRejected, StopAbandon
  <1>7. ASSUME NEW y \in Execs, NEW c \in Callers,
               AckSend(y, c) \/ AckArrives(y, c) \/ AckAnswered(y, c) \/ AckRejected(y, c)
             \/ AbandonClaim(y, c) \/ AbandonEnds(y, c)
        PROVE  IdAndPoolWhileRunning' /\ Pool'
    BY <1>7, <1>1
       DEF AckSend, AckArrives, AckAnswered, AckRejected, AbandonClaim, AbandonEnds
  <1>8. ASSUME NEW y \in Execs, Submit(y)
        PROVE  IdAndPoolWhileRunning' /\ Pool'
    <2>1. UNCHANGED <<wstate, stopPc, workerId, executor>> /\ mainPc' \in {mainPc, "idle"}
      BY <1>8 DEF Submit
    <2>2. Started
      BY <1>8 DEF Submit, ShutdownInv, KnownAreLeased
    <2> QED
      BY <1>0, <2>1, <2>2 DEF IdAndPoolWhileRunning, Started
  <1> QED
    BY <1>1, <1>2, <1>3, <1>4, <1>5, <1>6, <1>7, <1>8
       DEF Next, MainStep, StopStep, ProcessJob, AckStep, AbandonStep, HeartbeatStep

LEMMA LateAfterStopStep ==
    ASSUME ShutdownInv, [Next]_vars
    PROVE  LateAfterStop'
  <1>0. phase \in [Execs -> Phases]
    BY DEF ShutdownInv, AckInv, TypeOK, ExecTypeOK
  <1>1. ASSUME NEW x \in Execs, phase'[x] = "admitted", intakeClosed'
        PROVE  stopOnMain' /\ stopPc' # "none"
    <2>1. phase[x] = "admitted"
      BY <1>1, AdmittedByCheck DEF CheckIntake
    <2>2. CASE intakeClosed
      BY <2>1, <2>2, StopAdvances DEF ShutdownInv, LateAfterStop
    <2>3. CASE StopDrain
      BY <2>1, <2>3 DEF StopDrain
    <2> QED
      BY <1>1, <2>2, <2>3, StopAdvances
  <1>2. ASSUME NEW x \in Execs, phase'[x] \in {"late", "stranded"}
        PROVE  stopPc' = "done"
    <2>1. CASE phase[x] \in {"late", "stranded"}
      BY <2>1, StopAdvances DEF ShutdownInv, LateAfterStop
    <2>2. CASE RegisterJob(x)
      <3>1. phase[x] = "admitted" /\ intakeClosed /\ MainRuns /\ stopPc' = stopPc
        BY <1>0, <1>2, <2>2 DEF RegisterJob, SetPhase
      <3> QED
        BY <3>1 DEF ShutdownInv, LateAfterStop, MainRuns
    <2>3. ~(CheckIntake(x) \/ ReleaseJob(x) \/ ReleaseReturns(x) \/ HandlerStart(x)
            \/ HandlerQuits(x))
      BY <1>0, <1>2
         DEF CheckIntake, ReleaseJob, ReleaseReturns, HandlerStart, HandlerQuits, SetPhase
    <2>6. ArmHeartbeat(x) => phase[x] = "late"
      BY <1>0, <1>2 DEF ArmHeartbeat, SetPhase
    <2>4. ~(HandlerReturn(x) \/ Submit(x) \/ Cleanup(x))
      BY <1>0, <1>2 DEF HandlerReturn, Submit, Cleanup, CleanupEffect, SetPhase
    <2>5. ASSUME NEW S \in SUBSET Claimable, ClaimReturns(S) \/ ClaimFails(S)
          PROVE  phase[x] \in {"late", "stranded"}
      BY <1>2, <2>5 DEF ClaimReturns, ClaimFails, Claim
    <2> QED
      BY <1>2, <2>1, <2>2, <2>3, <2>4, <2>5, <2>6, PhaseElsewhere
  <1> QED
    BY <1>1, <1>2, IdAndPoolStep DEF LateAfterStop

LEMMA StopProgressStep ==
    ASSUME ShutdownInv, [Next]_vars
    PROVE  StopProgress'
  <1>1. ASSUME intakeClosed, NEW x \in Registered', Live(x)', ~settled'[x], ~Quit(x)'
        PROVE  x \in Registered /\ Live(x) /\ ~settled[x] /\ ~Quit(x)
    <2>1. x \in Registered
      BY <1>1, TakenOnByRegister
    <2>2. x \in Execs /\ Leased(x)
      BY <2>1 DEF Registered, ShutdownInv, KnownAreLeased
    <2> QED
      BY <1>1, <2>1, <2>2, LeasesOnlyEnd, SettledForGood, QuitByHandler
  <1>2. stopPc' \in {"abandon", "grace", "deregister", "deregistered", "done"} => intakeClosed'
    BY StopAdvances DEF ShutdownInv, StopProgress, StopDrain, StopAbandoned
  <1>3. ASSUME stopPc' = "abandon", NEW x \in Registered', Live(x)', ~settled'[x], ~Quit(x)'
        PROVE  x \in stopTodo' \/ ack'[x]["stop"] = "signalled"
    <2>1. CASE StopDrain
      <3>1. x \in Registered /\ x \in Execs /\ Live(x) /\ ~settled[x] /\ ~Quit(x)
        BY <1>3, <2>1 DEF StopDrain, Registered, Live, Quit
      <3> QED
        BY <2>1, <3>1 DEF StopDrain, ShutdownInv, UnsettledOwnTheirSlot
    <2>2. CASE stopPc = "abandon"
      <3>1. x \in Registered /\ Live(x) /\ ~settled[x] /\ ~Quit(x) /\ x \in Execs
        BY <1>1, <1>3, <2>2 DEF ShutdownInv, StopProgress, Registered
      <3>2. CASE ack[x]["stop"] = "signalled"
        <4>1. CASE AbandonClaim(x, "stop")
          BY <1>3, <3>1, <4>1, LiveCanSettle
             DEF AbandonClaim, ShutdownInv, AckInv, TypeOK, ExecTypeOK
        <4> QED
          BY <3>1, <3>2, <4>1, SignalTaken
      <3>3. CASE x \in stopTodo
        <4>1. CASE stopTodo' = stopTodo
          BY <3>3, <4>1
        <4>2. ASSUME NEW y \in Execs, StopAbandon(y)
              PROVE  x \in stopTodo' \/ ack'[x]["stop"] = "signalled"
          BY <3>1, <3>3, <4>2
             DEF StopAbandon, SetAck, Callers, ShutdownInv, AckInv, TypeOK, ExecTypeOK
        <4>3. CASE StopDrain
          BY <2>1, <4>3
        <4> QED
          BY <1>3, <4>1, <4>2, <4>3, StopAdvances
      <3> QED
        BY <2>2, <3>1, <3>2, <3>3 DEF ShutdownInv, StopProgress
    <2> QED
      BY <1>3, <2>1, <2>2, StopAdvances
  <1>4. ASSUME stopPc' \in {"grace", "deregister", "deregistered", "done"},
               NEW x \in Registered', Live(x)', ~settled'[x], ~Quit(x)'
        PROVE  FALSE
    <2>1. stopPc \in {"abandon", "grace", "deregister", "deregistered", "done"}
      BY <1>4, StopAdvances DEF StopAbandoned
    <2>2. x \in Registered /\ Live(x) /\ ~settled[x] /\ ~Quit(x) /\ x \in Execs
      BY <1>1, <1>4, <2>1 DEF ShutdownInv, StopProgress, Registered
    <2>3. CASE StopAbandoned
      BY <2>2, <2>3 DEF StopAbandoned, StopAbandoning, ShutdownInv, StopProgress
    <2>4. CASE stopPc \in {"grace", "deregister", "deregistered", "done"}
      BY <2>2, <2>4 DEF ShutdownInv, StopProgress
    <2> QED
      BY <1>4, <2>3, <2>4, StopAdvances
  <1> QED
    BY <1>2, <1>3, <1>4 DEF StopProgress

-----------------------------------------------------------------------------
(* The theorems *)

LEMMA InitShutdownInv == Init => ShutdownInv
  <1>1. SUFFICES ASSUME Init PROVE ShutdownInv
    OBVIOUS
  <1>2. AckInv
    BY <1>1, InitAckInv
  <1>3. \A x \in Execs : ~Owns(x) /\ ~Quit(x)
    BY <1>1, ExecParts DEF Init, Owns, NoSlot, Quit, Callers
  <1>4. Registered = {} /\ InProcessJob = {}
    BY <1>1 DEF Init, Registered, InProcessJob
  <1> QED
    BY <1>1, <1>2, <1>3, <1>4
       DEF Init, ShutdownInv, KnownAreLeased, LostAreLost, ReceivedAreNew,
           UnsettledOwnTheirSlot, ReturnedAreSettled, QuitIsOver, OneAtATime,
           IdAndPoolWhileRunning, StopProgress, LateAfterStop, Started

LEMMA NextShutdownInv ==
    ASSUME ShutdownInv, [Next]_vars
    PROVE  ShutdownInv'
  <1>1. AckInv'
    BY NextAckInv DEF ShutdownInv
  <1>2. KnownAreLeased'
    BY <1>1, KnownAreLeasedStep DEF AckInv
  <1> QED
    BY <1>1, <1>2, LostAreLostStep, ReceivedAreNewStep, UnsettledOwnTheirSlotStep,
       ReturnedAreSettledStep, QuitIsOverStep, OneAtATimeStep, IdAndPoolStep,
       StopProgressStep, LateAfterStopStep
       DEF ShutdownInv

\* The invariant of the shutdown: it ties slots, settlements and leases to the
\* stages of stop(), and is what NothingLeftBehind rests on.
THEOREM ShutdownInvariant == Spec => []ShutdownInv
  BY InitShutdownInv, NextShutdownInv, PTL DEF Spec

\* Once stop() has deregistered, every execution that joined its drain has been acked,
\* or its ack granted, or has lost its lease, or its handler ended with a BaseException.
THEOREM NothingLeftBehindHolds == Spec => []NothingLeftBehind
<1>1. ShutdownInv => NothingLeftBehind
  BY DEF ShutdownInv, IdAndPoolWhileRunning, StopProgress, NothingLeftBehind
<1> QED
  BY ShutdownInvariant, <1>1, PTL

-----------------------------------------------------------------------------
(* start() *)

\* A step that leaves the thread of start() and stop() alone keeps StartInv, unless
\* it moves an execution into delivery.
LEMMA StartKept ==
    ASSUME StartInv, UNCHANGED ctlVars,
           \A x \in Execs : phase'[x] \in InDelivery \cup {"stuck"} =>
               phase'[x] # "stuck" /\ mainPc = "deliver"
    PROVE  StartInv'
  BY DEF StartInv, Started, InDelivery

LEMMA StartInvStep ==
    ASSUME ShutdownInv, StartInv, [Next]_vars
    PROVE  StartInv'
  <1>0. phase \in [Execs -> Phases] /\ IdAndPoolWhileRunning /\ KnownAreLeased
    BY DEF ShutdownInv, AckInv, TypeOK, ExecTypeOK
  <1>1. CASE UNCHANGED <<ctlVars, phase>>
    BY <1>1, StartKept DEF StartInv
  <1>2. CASE StartCall \/ RegisterReturns \/ RegisterFails \/ EnterLoop \/ LeaveLoop
             \/ StartReturns \/ PollStart
    BY <1>0, <1>2
       DEF StartCall, RegisterReturns, RegisterFails, EnterLoop, LeaveLoop, StartReturns,
           PollStart, StartInv, Started, InDelivery, IdAndPoolWhileRunning, KnownAreLeased
  <1>3. CASE PollEnds
    BY <1>0, <1>3 DEF PollEnds, InProcessJob, StartInv, Started, InDelivery
  <1>4. ASSUME NEW S \in SUBSET Claimable, ClaimReturns(S) \/ ClaimFails(S)
        PROVE  StartInv'
    <2>1. mainPc = "claiming" /\ UNCHANGED <<wstate, stopVars, idVars>>
      BY <1>4 DEF ClaimReturns, ClaimFails, Claim
    <2>2. \A x \in Execs : phase[x] \notin InDelivery
      BY <2>1 DEF StartInv
    <2>3. CASE ClaimReturns(S)
      <3>1. mainPc' = "deliver" /\ \A x \in Execs : phase'[x] \in {phase[x], "received"}
        BY <2>3 DEF ClaimReturns, Claim
      <3> QED BY <2>1, <3>1 DEF StartInv, Started
    <2>4. CASE ClaimFails(S)
      <3>1. mainPc' = "idle" /\ \A x \in Execs : phase'[x] \in {phase[x], "lost"}
        BY <2>4 DEF ClaimFails, Claim
      <3> QED BY <2>1, <2>2, <3>1 DEF StartInv, Started, InDelivery
    <2> QED BY <1>4, <2>3, <2>4
  <1>5. ASSUME NEW x \in Execs,
               CheckIntake(x) \/ RegisterJob(x) \/ ArmHeartbeat(x) \/ ReleaseJob(x)
             \/ ReleaseReturns(x) \/ (Submit(x) /\ UNCHANGED mainPc)
        PROVE  StartInv'
    <2>1. phase[x] \in InDelivery /\ mainPc = "deliver"
      BY <1>5
         DEF CheckIntake, RegisterJob, ArmHeartbeat, Submit, ReleaseJob, ReleaseReturns,
             InDelivery, StartInv
    <2>2. /\ UNCHANGED ctlVars
          /\ phase'[x] # "stuck" \/ ~registeredId
          /\ \A y \in Execs \ {x} : phase'[y] \in {phase[y], "dropped"}
      BY <1>0, <1>5
         DEF CheckIntake, RegisterJob, ArmHeartbeat, Submit, ReleaseJob, ReleaseReturns,
             CleanupEffect, SetPhase
    <2>3. Started
      BY <1>0, <2>1 DEF KnownAreLeased, InDelivery
    <2> QED BY <2>1, <2>2, <2>3, StartKept DEF StartInv, InDelivery
  <1>12. ASSUME NEW x \in Execs, Submit(x), mainPc' # mainPc
         PROVE  StartInv'
    <2>1. /\ phase[x] = "submitting" /\ mainPc' = "idle"
          /\ phase' = [y \in Execs |-> IF y = x THEN "orphaned"
                                      ELSE IF phase[y] = "received" THEN "dropped"
                                      ELSE phase[y]]
          /\ UNCHANGED <<wstate, stopVars, intakeClosed, idVars, executor, limit>>
      BY <1>12 DEF Submit
    <2>2. Started /\ mainPc = "deliver"
      BY <1>0, <2>1 DEF KnownAreLeased, StartInv, InDelivery
    <2>3. \A y \in InProcessJob : y = x
      BY <2>1 DEF ShutdownInv, OneAtATime, InProcessJob
    <2>4. \A y \in Execs : phase'[y] \notin InDelivery /\ phase'[y] # "stuck"
      BY <2>1, <2>3 DEF InDelivery, InProcessJob, StartInv
    <2> QED BY <2>1, <2>2, <2>4 DEF StartInv, Started
  <1>6. ASSUME NEW onMain \in StopThreads, StopCall(onMain)
        PROVE  StartInv'
    BY <1>0, <1>6 DEF StopCall, StartInv, Started, IdAndPoolWhileRunning
  <1>7. CASE StopIgnored \/ DeadlinePasses \/ StopWaitPoll \/ StopDrain \/ StopAbandoned
             \/ StopTeardown \/ StopDeregister \/ StopFinishes \/ LeaseExpires
    BY <1>0, <1>7
       DEF StopIgnored, DeadlinePasses, StopWaitPoll, StopDrain, StopAbandoned, StopTeardown,
           StopDeregister, StopFinishes, LeaseExpires, StartInv, Started, InDelivery
  <1>8. ASSUME NEW x \in Execs, StopAbandon(x)
        PROVE  StartInv'
    BY <1>8 DEF StopAbandon, StartInv, Started
  <1>9. ASSUME NEW x \in Execs, HandlerStart(x) \/ HandlerReturn(x) \/ HandlerQuits(x) \/ Cleanup(x)
        PROVE  StartInv'
    <2>1. /\ UNCHANGED ctlVars
          /\ phase'[x] \in {"running", "acking", "cleanup", "finished"}
          /\ \A y \in Execs \ {x} : phase'[y] = phase[y]
      BY <1>0, <1>9 DEF HandlerStart, HandlerReturn, HandlerQuits, Cleanup, CleanupEffect, SetPhase
    <2> QED BY <2>1, StartKept DEF StartInv, InDelivery
  <1>10. ASSUME NEW x \in Execs, TimeoutFires(x) \/ HeartbeatStep(x)
         PROVE  StartInv'
    BY <1>1, <1>10
       DEF TimeoutFires, HeartbeatStep, HeartbeatFires, HeartbeatAnswered, HeartbeatRejected
  <1>11. ASSUME NEW x \in Execs, NEW c \in Callers, AckStep(x, c) \/ AbandonStep(x, c)
         PROVE  StartInv'
    BY <1>1, <1>11
       DEF AckStep, AckSend, AckArrives, AckAnswered, AckRejected, AbandonStep, AbandonClaim,
           AbandonEnds
  <1> QED
    BY <1>1, <1>2, <1>3, <1>4, <1>5, <1>6, <1>7, <1>8, <1>9, <1>10, <1>11, <1>12
       DEF Next, MainStep, StopStep, ProcessJob

\* start() returns after stop() has deregistered, and leaves no call of the poll thread
\* on the wire and no job between the queue and the pool: what comes after the drain has
\* been failed with the id the worker registered with, unless submit() ended the poll.
THEOREM StartReturnsLastHolds == Spec => []StartReturnsLast
<1>1. Init => StartInv
  BY DEF Init, StartInv, Started, InDelivery
<1>2. StartInv => StartReturnsLast
  BY DEF StartInv, StartReturnsLast, InDelivery, InProcessJob
<1> QED
  BY <1>1, <1>2, ShutdownInvariant, StartInvStep, PTL DEF Spec
=============================================================================

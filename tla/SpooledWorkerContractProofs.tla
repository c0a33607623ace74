--------------------- MODULE SpooledWorkerContractProofs ---------------------
(***************************************************************************)
(* What the synchronous worker promises, for every set of jobs, every      *)
(* number of leases and every concurrency: it keeps the contract of        *)
(* WorkerContract, drops results for a reason only, and uses no more       *)
(* threads than it has.  The answer to an execution is its settlement:     *)
(* what is settled was granted to one caller, and each caller asks once.   *)
(***************************************************************************)
EXTENDS SpooledWorkerProofs, SpooledWorkerRefinement

USE DEF leaseVars, stopVars, idVars, slotVars, timerVars, ctlVars, execVars, vars

-----------------------------------------------------------------------------
(* What the steps do to slots, settlements and acks *)

\* The steps of the threads of start() and stop() that concern no execution.
ControlStep ==
    \/ StartCall \/ RegisterReturns \/ RegisterFails \/ EnterLoop \/ LeaveLoop \/ StartReturns
    \/ PollStart \/ PollEnds
    \/ StopIgnored \/ DeadlinePasses \/ StopWaitPoll \/ StopDrain \/ StopAbandoned
    \/ StopTeardown \/ StopDeregister \/ StopFinishes
    \/ \E onMain \in StopThreads : StopCall(onMain)

\* They leave the leases and the executions alone.
LEMMA ControlKeepsExecs == ControlStep => UNCHANGED <<leaseVars, execVars>>
  BY DEF ControlStep, StartCall, RegisterReturns, RegisterFails, EnterLoop, LeaveLoop,
         StartReturns, PollStart, PollEnds, StopIgnored, DeadlinePasses, StopWaitPoll,
         StopDrain, StopAbandoned, StopTeardown, StopDeregister, StopFinishes, StopCall

\* The steps, one by one.
LEMMA WorkerSteps ==
    ASSUME [Next]_vars
    PROVE  \/ ControlStep \/ LeaseExpires \/ UNCHANGED vars
           \/ \E S \in SUBSET Claimable : ClaimReturns(S) \/ ClaimFails(S)
           \/ \E x \in Execs :
                 \/ CheckIntake(x) \/ RegisterJob(x) \/ ArmHeartbeat(x) \/ Submit(x) \/ ReleaseJob(x)
                 \/ ReleaseReturns(x) \/ HandlerStart(x) \/ HandlerReturn(x) \/ HandlerQuits(x) \/ Cleanup(x)
                 \/ TimeoutFires(x) \/ HeartbeatStep(x) \/ StopAbandon(x)
                 \/ \E c \in Callers : AckStep(x, c) \/ AbandonStep(x, c)
  BY DEF Next, MainStep, StopStep, ProcessJob, ControlStep

\* An execution that was taken on stays one, and keeps having been given a slot.
LEMMA TakenOnForGood ==
    ASSUME ShutdownInv, [Next]_vars
    PROVE  Registered \subseteq Registered' /\ Slotted \subseteq Slotted'
  <1>0. phase \in [Execs -> Phases]
    BY DEF ShutdownInv, AckInv, TypeOK, ExecTypeOK
  <1>1. ASSUME NEW x \in Registered
        PROVE  x \in Registered'
    <2>0. x \in Execs
      BY DEF Registered
    <2>1. CASE phase'[x] = phase[x]
      BY <2>1 DEF Registered
    <2>2. CASE ArmHeartbeat(x) \/ HandlerStart(x) \/ HandlerQuits(x)
      BY <1>0, <1>1, <2>0, <2>2
         DEF ArmHeartbeat, HandlerStart, HandlerQuits, SetPhase, Registered
    <2>3. CASE Submit(x) \/ Cleanup(x) \/ HandlerReturn(x)
      BY <1>0, <2>0, <2>3 DEF Submit, Cleanup, CleanupEffect, HandlerReturn, SetPhase, Registered
    <2>4. ~(CheckIntake(x) \/ RegisterJob(x) \/ ReleaseJob(x) \/ ReleaseReturns(x))
      BY DEF CheckIntake, RegisterJob, ReleaseJob, ReleaseReturns, Registered
    <2>5. phase[x] \notin {"unclaimed", "received"}
      BY DEF Registered
    <2> QED BY <2>0, <2>1, <2>2, <2>3, <2>4, <2>5, PhaseElsewhere, ClaimKeepsKnown
  <1>2. \A x \in Execs : phase[x] \in {"late", "stranded"} => phase'[x] \in {"late", "stranded"}
    BY SlottedByRegister
  <1> QED BY <1>1, <1>2 DEF Slotted

\* A slot is taken by RegisterJob, and freed by others.
LEMMA SlotTakenByRegister ==
    ASSUME ShutdownInv, [Next]_vars, NEW x \in Execs, Owns(x)', ~Owns(x)
    PROVE  RegisterJob(x)
  <1>0. active \in [Jobs -> 0 .. MaxAttempts] /\ x[1] \in Jobs /\ x[2] # NoSlot
    BY ExecParts DEF ShutdownInv, AckInv, TypeOK, ExecTypeOK, NoSlot
  <1>1. active'[x[1]] # active[x[1]]
    BY DEF Owns
  <1>2. ASSUME NEW y \in Execs, FreeSlot(y) PROVE FALSE
    BY <1>0, <1>1, <1>2 DEF FreeSlot, Owns
  <1>3. ~(ControlStep \/ LeaseExpires \/ UNCHANGED vars)
    BY <1>1, ControlKeepsExecs DEF LeaseExpires
  <1>4. ~(\E S \in SUBSET Claimable : ClaimReturns(S) \/ ClaimFails(S))
    BY <1>1 DEF ClaimReturns, ClaimFails, Claim
  <1>5. ASSUME NEW y \in Execs,
               \/ CheckIntake(y) \/ ArmHeartbeat(y) \/ ReleaseJob(y) \/ ReleaseReturns(y)
               \/ HandlerStart(y) \/ HandlerReturn(y) \/ HandlerQuits(y) \/ TimeoutFires(y)
               \/ HeartbeatStep(y) \/ StopAbandon(y)
        PROVE  FALSE
    BY <1>1, <1>5
       DEF CheckIntake, ArmHeartbeat, ReleaseJob, ReleaseReturns, HandlerStart, HandlerReturn,
           HandlerQuits, TimeoutFires,
           HeartbeatStep, HeartbeatFires, HeartbeatAnswered, HeartbeatRejected, StopAbandon
  <1>6. ASSUME NEW y \in Execs, Submit(y) \/ Cleanup(y) PROVE FALSE
    BY <1>1, <1>2, <1>6 DEF Submit, Cleanup, CleanupEffect
  <1>7. ASSUME NEW y \in Execs, NEW c \in Callers, AckStep(y, c) \/ AbandonStep(y, c)
        PROVE  FALSE
    BY <1>1, <1>2, <1>7 DEF AckStep, AckSend, AckArrives, AckAnswered, AckRejected,
                            AbandonStep, AbandonClaim, AbandonEnds
  <1>8. ASSUME NEW y \in Execs, RegisterJob(y) PROVE RegisterJob(x)
    <2>1. active' = [active EXCEPT ![y[1]] = y[2]]
      BY <1>8 DEF RegisterJob
    <2>2. y[1] = x[1] /\ y[2] = x[2]
      BY <1>0, <1>1, <2>1, ExecParts DEF Owns
    <2> QED BY <1>8, <2>1, <2>2, ExecParts
  <1> QED
    BY <1>3, <1>4, <1>5, <1>6, <1>7, <1>8, WorkerSteps

\* An execution becomes settled when the settlement is granted to one who asks for it.
LEMMA SettledByGrant ==
    ASSUME ShutdownInv, [Next]_vars, NEW x \in Execs, settled'[x], ~settled[x]
    PROVE  /\ Owns(x)
           /\ HandlerReturn(x) \/ \E c \in Callers : CanSettle(x) /\ AbandonClaim(x, c)
           /\ \E c \in Callers : ack'[x][c] = "claimed"
  <1>0. /\ settled \in [Execs -> BOOLEAN] /\ ack \in [Execs -> [Callers -> AckPcs]]
        /\ settled' # settled
    BY DEF ShutdownInv, AckInv, TypeOK, ExecTypeOK
  <1>1. ~(ControlStep \/ LeaseExpires \/ UNCHANGED vars)
    BY <1>0, ControlKeepsExecs DEF LeaseExpires
  <1>2. ~(\E S \in SUBSET Claimable : ClaimReturns(S) \/ ClaimFails(S))
    BY <1>0 DEF ClaimReturns, ClaimFails, Claim
  <1>3. ASSUME NEW y \in Execs,
               \/ CheckIntake(y) \/ RegisterJob(y) \/ ArmHeartbeat(y) \/ Submit(y) \/ ReleaseJob(y)
               \/ ReleaseReturns(y) \/ HandlerStart(y) \/ HandlerQuits(y) \/ Cleanup(y)
               \/ TimeoutFires(y) \/ HeartbeatStep(y) \/ StopAbandon(y)
        PROVE  FALSE
    BY <1>0, <1>3
       DEF CheckIntake, RegisterJob, ArmHeartbeat, Submit, ReleaseJob, ReleaseReturns, HandlerStart,
           HandlerQuits, Cleanup, TimeoutFires, HeartbeatStep, HeartbeatFires, HeartbeatAnswered,
           HeartbeatRejected, StopAbandon
  <1>4. ASSUME NEW y \in Execs, NEW c \in Callers,
               AckStep(y, c) \/ AbandonEnds(y, c)
        PROVE  FALSE
    BY <1>0, <1>4 DEF AckStep, AckSend, AckArrives, AckAnswered, AckRejected, AbandonEnds
  <1>5. ASSUME NEW y \in Execs, HandlerReturn(y)
        PROVE  Owns(x) /\ HandlerReturn(x) /\ ack'[x]["handler"] = "claimed"
    <2>1. CanSettle(y) /\ settled' = [settled EXCEPT ![y] = TRUE] /\ SetAck(y, "handler", "claimed")
      BY <1>0, <1>5 DEF HandlerReturn
    <2>2. x = y
      BY <1>0, <2>1
    <2> QED BY <1>0, <1>5, <2>1, <2>2 DEF CanSettle, SetAck, Callers
  <1>6. ASSUME NEW y \in Execs, NEW c \in Callers, AbandonClaim(y, c)
        PROVE  CanSettle(x) /\ Owns(x) /\ AbandonClaim(x, c) /\ ack'[x][c] = "claimed"
    <2>1. CanSettle(y) /\ settled' = [settled EXCEPT ![y] = TRUE] /\ SetAck(y, c, "claimed")
      BY <1>0, <1>6 DEF AbandonClaim
    <2>2. x = y
      BY <1>0, <2>1
    <2> QED BY <1>0, <1>6, <2>1, <2>2 DEF CanSettle, SetAck
  <1> QED
    BY <1>1, <1>2, <1>3, <1>4, <1>5, <1>6, WorkerSteps DEF AbandonStep, Callers

\* Every step preserves SettledWereTakenOn.
LEMMA SettledWereTakenOnStep ==
    ASSUME ShutdownInv, SettledWereTakenOn, [Next]_vars
    PROVE  SettledWereTakenOn'
  <1>1. ASSUME NEW x \in Execs, Owns(x)' PROVE x \in Slotted'
    <2>1. CASE Owns(x)
      BY <2>1, TakenOnForGood DEF SettledWereTakenOn
    <2>2. CASE RegisterJob(x)
      BY <2>2
         DEF RegisterJob, SetPhase, Slotted, Registered, ShutdownInv, AckInv, TypeOK, ExecTypeOK
    <2> QED BY <1>1, <2>1, <2>2, SlotTakenByRegister
  <1>2. ASSUME NEW x \in Execs, settled'[x] PROVE x \in Registered'
    <2>1. CASE settled[x]
      BY <2>1, TakenOnForGood DEF SettledWereTakenOn
    <2>2. CASE HandlerReturn(x)
      BY <2>2, TakenOnForGood DEF HandlerReturn, Registered
    <2>3. ASSUME NEW c \in Callers, CanSettle(x), AbandonClaim(x, c) PROVE x \in Registered
      <3>1. x \in Slotted /\ workerId
        BY <2>3 DEF CanSettle, SettledWereTakenOn
      <3> QED BY <3>1 DEF Slotted, ShutdownInv, LateAfterStop, IdAndPoolWhileRunning
    <2> QED BY <1>2, <2>1, <2>2, <2>3, SettledByGrant, TakenOnForGood
  <1> QED BY <1>1, <1>2 DEF SettledWereTakenOn

\* The rights to ask: each caller's ack leaves "none" once.
LEMMA AskedOnceStep ==
    ASSUME ShutdownInv, AskedOnce, [Next]_vars
    PROVE  AskedOnce'
  <1>0. /\ phase \in [Execs -> Phases] /\ ack \in [Execs -> [Callers -> AckPcs]]
        /\ timeoutTimer \in [Execs -> {"off", "armed", "fired"}]
        /\ stopTodo \in SUBSET Execs
    BY DEF ShutdownInv, AckInv, TypeOK, ExecTypeOK, ControlTypeOK
  <1>1. CASE UNCHANGED <<phase, ack, timeoutTimer, stopPc, stopTodo>>
    BY <1>1 DEF AskedOnce
  <1>2. CASE \/ StartCall \/ RegisterReturns \/ RegisterFails \/ EnterLoop \/ LeaveLoop
             \/ StartReturns \/ PollStart \/ PollEnds \/ StopIgnored \/ DeadlinePasses
             \/ LeaseExpires \/ UNCHANGED vars
    BY <1>1, <1>2
       DEF StartCall, RegisterReturns, RegisterFails, EnterLoop, LeaveLoop, StartReturns,
           PollStart, PollEnds, StopIgnored, DeadlinePasses, LeaseExpires
  <1>3. CASE \/ StopWaitPoll \/ StopDrain \/ StopAbandoned \/ StopTeardown \/ StopDeregister \/ StopFinishes
             \/ \E onMain \in StopThreads : StopCall(onMain)
    <2>1. UNCHANGED <<phase, ack, timeoutTimer>>
      BY <1>3 DEF StopWaitPoll, StopDrain, StopAbandoned, StopTeardown, StopDeregister, StopFinishes, StopCall
    <2>2. CASE stopPc \in {"none", "waitPoll", "drain"}
      <3>1. \A x \in Execs : ack'[x]["stop"] = "none"
        BY <2>1, <2>2 DEF AskedOnce
      <3> QED BY <2>1, <3>1 DEF AskedOnce
    <2>3. CASE stopPc \notin {"none", "waitPoll", "drain"}
      <3>1. stopPc' \in {"abandon", "grace", "deregister", "deregistered", "done"} /\ stopTodo' = stopTodo
        BY <1>0, <1>3, <2>3
           DEF StopWaitPoll, StopDrain, StopAbandoned, StopTeardown, StopDeregister, StopFinishes, StopCall,
               StopPcs, ShutdownInv, AckInv, TypeOK, ControlTypeOK, IdAndPoolWhileRunning
      <3> QED BY <2>1, <3>1 DEF AskedOnce
    <2> QED BY <2>2, <2>3
  <1>4. ASSUME NEW S \in SUBSET Claimable, ClaimReturns(S) \/ ClaimFails(S)
        PROVE  AskedOnce'
    <2>1. UNCHANGED <<ack, timeoutTimer, stopPc, stopTodo>>
      BY <1>4 DEF ClaimReturns, ClaimFails, Claim
    <2>2. \A x \in Execs : phase[x] \in {"running", "acking", "cleanup", "finished"} =>
                           phase'[x] = phase[x]
      BY <1>4, ClaimKeepsKnown
    <2> QED BY <2>1, <2>2 DEF AskedOnce
  <1>5. ASSUME NEW y \in Execs, CheckIntake(y) \/ RegisterJob(y) \/ ArmHeartbeat(y)
                 \/ ReleaseJob(y) \/ ReleaseReturns(y)
        PROVE  AskedOnce'
    <2>1. UNCHANGED <<ack, timeoutTimer, stopPc, stopTodo>>
      BY <1>5 DEF CheckIntake, RegisterJob, ArmHeartbeat, ReleaseJob, ReleaseReturns
    <2>2. \A x \in Execs : phase[x] \in {"running", "acking", "cleanup", "finished"} =>
                           phase'[x] = phase[x]
      BY <1>0, <1>5 DEF CheckIntake, RegisterJob, ArmHeartbeat, ReleaseJob, ReleaseReturns, SetPhase
    <2> QED BY <2>1, <2>2 DEF AskedOnce
  <1>6. ASSUME NEW y \in Execs, Submit(y)
        PROVE  AskedOnce'
    <2>1. UNCHANGED <<ack, stopPc, stopTodo>>
      BY <1>6 DEF Submit
    <2>2. \A x \in Execs : /\ \/ timeoutTimer'[x] = timeoutTimer[x]
                              \/ timeoutTimer[x] = "armed" /\ timeoutTimer'[x] = "off"
                           /\ phase[x] \in {"running", "acking", "cleanup", "finished"} =>
                                  phase'[x] = phase[x]
      <3>1. /\ phase[y] = "submitting"
            /\ \A x \in Execs \ {y} : phase'[x] = phase[x] \/ phase[x] = "received"
        BY <1>0, <1>6 DEF Submit, CleanupEffect, SetPhase
      <3>2. UNCHANGED timeoutTimer \/ CancelTimers(y)
        BY <1>6 DEF Submit, CleanupEffect
      <3>3. \A x \in Execs : \/ timeoutTimer'[x] = timeoutTimer[x]
                             \/ timeoutTimer[x] = "armed" /\ timeoutTimer'[x] = "off"
        BY <1>0, <3>2 DEF CancelTimers
      <3> QED BY <3>1, <3>3
    <2> QED BY <2>1, <2>2 DEF AskedOnce
  <1>7. ASSUME NEW y \in Execs, HandlerStart(y)
        PROVE  AskedOnce'
    <2>1. UNCHANGED <<ack, stopPc, stopTodo>> /\ timeoutTimer[y] = "off" /\ phase'[y] = "running"
      BY <1>0, <1>7 DEF HandlerStart, SetPhase, AskedOnce
    <2>2. ack[y]["timer"] = "none" /\ ack[y]["handler"] = "none"
      BY <1>7, <2>1 DEF HandlerStart, AskedOnce
    <2>3. \A x \in Execs \ {y} : timeoutTimer'[x] = timeoutTimer[x] /\ phase'[x] = phase[x]
      BY <1>0, <1>7 DEF HandlerStart, SetPhase
    <2> QED BY <2>1, <2>2, <2>3 DEF AskedOnce
  <1>8. ASSUME NEW y \in Execs, HandlerReturn(y)
        PROVE  AskedOnce'
    <2>1. /\ UNCHANGED <<timeoutTimer, stopPc, stopTodo>>
          /\ phase'[y] \in {"acking", "cleanup"}
          /\ \A x \in Execs \ {y} : phase'[x] = phase[x] /\ ack'[x] = ack[x]
          /\ ack'[y]["timer"] = ack[y]["timer"] /\ ack'[y]["stop"] = ack[y]["stop"]
      BY <1>0, <1>8 DEF HandlerReturn, SetPhase, SetAck, Callers
    <2> QED BY <2>1 DEF AskedOnce
  <1>14. ASSUME NEW y \in Execs, HandlerQuits(y)
         PROVE  AskedOnce'
    <2>1. /\ UNCHANGED <<timeoutTimer, stopPc, stopTodo>>
          /\ phase'[y] = "cleanup"
          /\ \A x \in Execs \ {y} : phase'[x] = phase[x] /\ ack'[x] = ack[x]
          /\ ack'[y]["timer"] = ack[y]["timer"] /\ ack'[y]["stop"] = ack[y]["stop"]
      BY <1>0, <1>14 DEF HandlerQuits, SetPhase, SetAck, Callers
    <2> QED BY <2>1 DEF AskedOnce
  <1>9. ASSUME NEW y \in Execs, Cleanup(y)
        PROVE  AskedOnce'
    <2>1. /\ UNCHANGED <<stopPc, stopTodo>>
          /\ phase[y] \in {"acking", "cleanup"} /\ phase'[y] = "finished"
          /\ \A x \in Execs \ {y} : phase'[x] = phase[x] /\ ack'[x] = ack[x]
                                    /\ timeoutTimer'[x] = timeoutTimer[x]
          /\ ack'[y]["timer"] = ack[y]["timer"] /\ ack'[y]["stop"] = ack[y]["stop"]
          /\ \/ timeoutTimer'[y] = timeoutTimer[y]
             \/ timeoutTimer[y] = "armed" /\ timeoutTimer'[y] = "off"
      BY <1>0, <1>9 DEF Cleanup, CleanupEffect, CancelTimers, SetPhase, SetAck, Callers
    <2> QED BY <2>1 DEF AskedOnce
  <1>10. ASSUME NEW y \in Execs, TimeoutFires(y)
         PROVE  AskedOnce'
    <2>1. /\ UNCHANGED <<phase, stopPc, stopTodo>>
          /\ timeoutTimer[y] = "armed" /\ timeoutTimer'[y] = "fired"
          /\ \A x \in Execs \ {y} : ack'[x] = ack[x] /\ timeoutTimer'[x] = timeoutTimer[x]
          /\ ack'[y]["handler"] = ack[y]["handler"] /\ ack'[y]["stop"] = ack[y]["stop"]
      BY <1>0, <1>10 DEF TimeoutFires, SetAck, Callers
    <2> QED BY <2>1 DEF AskedOnce
  <1>11. ASSUME NEW y \in Execs, HeartbeatStep(y)
         PROVE  AskedOnce'
    <2>1. UNCHANGED <<phase, ack, stopPc, stopTodo>>
      BY <1>11 DEF HeartbeatStep, HeartbeatFires, HeartbeatAnswered, HeartbeatRejected
    <2>2. \A x \in Execs : \/ timeoutTimer'[x] = timeoutTimer[x]
                           \/ timeoutTimer[x] = "armed" /\ timeoutTimer'[x] = "off"
      BY <1>0, <1>11 DEF HeartbeatStep, HeartbeatFires, HeartbeatAnswered, HeartbeatRejected,
                         LoseLease
    <2> QED BY <2>1, <2>2 DEF AskedOnce
  <1>12. ASSUME NEW y \in Execs, StopAbandon(y)
         PROVE  AskedOnce'
    <2>1. /\ UNCHANGED <<phase, timeoutTimer, stopPc>>
          /\ stopPc = "abandon" /\ stopTodo' = stopTodo \ {y}
          /\ \A x \in Execs \ {y} : ack'[x] = ack[x]
          /\ ack'[y]["timer"] = ack[y]["timer"] /\ ack'[y]["handler"] = ack[y]["handler"]
      BY <1>0, <1>12 DEF StopAbandon, SetAck, Callers
    <2> QED BY <2>1 DEF AskedOnce
  <1>13. ASSUME NEW y \in Execs, NEW c \in Callers, AckStep(y, c) \/ AbandonStep(y, c)
         PROVE  AskedOnce'
    <2>1. /\ UNCHANGED <<phase, stopPc, stopTodo>>
          /\ ack[y][c] # "none"
          /\ \A x \in Execs : \A d \in Callers : x # y \/ d # c => ack'[x][d] = ack[x][d]
      BY <1>0, <1>13
         DEF AckStep, AckSend, AckArrives, AckAnswered, AckRejected, AbandonStep, AbandonClaim,
             AbandonEnds, SetAck
    <2>2. \A x \in Execs : \/ timeoutTimer'[x] = timeoutTimer[x]
                           \/ timeoutTimer[x] = "armed" /\ timeoutTimer'[x] = "off"
      BY <1>0, <1>13
         DEF AckStep, AckSend, AckArrives, AckAnswered, AckRejected, AbandonStep, AbandonClaim,
             AbandonEnds, LoseLease, CancelTimers
    <2>3. \A x \in Execs : \A d \in Callers : ack'[x][d] # "none" => ack[x][d] # "none"
      BY <2>1
    <2> QED BY <2>1, <2>2, <2>3 DEF AskedOnce, Callers
  <1> QED
    BY <1>2, <1>3, <1>4, <1>5, <1>6, <1>7, <1>8, <1>9, <1>10, <1>11, <1>12, <1>13, <1>14,
       WorkerSteps
       DEF ControlStep

-----------------------------------------------------------------------------
(* A grant is for good, and what is settled was granted *)

\* A granted ack is never asked for again.
LEMMA GrantedForGood ==
    ASSUME ShutdownInv, AskedOnce, [Next]_vars,
           NEW x \in Execs, NEW c \in Callers, ack[x][c] \in Granted
    PROVE  ack'[x][c] \in Granted
  <1>0. ack \in [Execs -> [Callers -> AckPcs]]
    BY DEF ShutdownInv, AckInv, TypeOK, ExecTypeOK
  <1>1. CASE UNCHANGED ack
    BY <1>1
  <1>2. CASE ControlStep \/ LeaseExpires \/ UNCHANGED vars
    BY <1>1, <1>2, ControlKeepsExecs DEF LeaseExpires
  <1>3. ASSUME NEW S \in SUBSET Claimable, ClaimReturns(S) \/ ClaimFails(S)
        PROVE  UNCHANGED ack
    BY <1>3 DEF ClaimReturns, ClaimFails, Claim
  <1>4. ASSUME NEW y \in Execs,
               \/ CheckIntake(y) \/ RegisterJob(y) \/ ArmHeartbeat(y) \/ Submit(y) \/ ReleaseJob(y)
               \/ ReleaseReturns(y) \/ HandlerStart(y) \/ HeartbeatStep(y)
        PROVE  UNCHANGED ack
    BY <1>4 DEF CheckIntake, RegisterJob, ArmHeartbeat, Submit, ReleaseJob, ReleaseReturns, HandlerStart,
                HeartbeatStep, HeartbeatFires, HeartbeatAnswered, HeartbeatRejected
  <1>5. ASSUME NEW y \in Execs, HandlerReturn(y)
        PROVE  ack'[x][c] \in Granted
    <2>1. x # y \/ c # "handler"
      BY <1>5 DEF HandlerReturn, AskedOnce, Granted
    <2> QED BY <1>0, <1>5, <2>1 DEF HandlerReturn, SetAck
  <1>11. ASSUME NEW y \in Execs, HandlerQuits(y)
         PROVE  ack'[x][c] \in Granted
    <2>1. x # y \/ c # "handler"
      BY <1>11 DEF HandlerQuits, AskedOnce, Granted
    <2> QED BY <1>0, <1>11, <2>1 DEF HandlerQuits, SetAck
  <1>6. ASSUME NEW y \in Execs, Cleanup(y)
        PROVE  ack'[x][c] \in Granted
    BY <1>0, <1>6 DEF Cleanup, SetAck, Granted, Callers
  <1>7. ASSUME NEW y \in Execs, TimeoutFires(y)
        PROVE  ack'[x][c] \in Granted
    <2>1. x # y \/ c # "timer"
      BY <1>7 DEF TimeoutFires, AskedOnce, Granted
    <2> QED BY <1>0, <1>7, <2>1 DEF TimeoutFires, SetAck
  <1>8. ASSUME NEW y \in Execs, StopAbandon(y)
        PROVE  ack'[x][c] \in Granted
    <2>1. x # y \/ c # "stop"
      BY <1>8 DEF StopAbandon, AskedOnce, Granted
    <2> QED BY <1>0, <1>8, <2>1 DEF StopAbandon, SetAck
  <1>9. ASSUME NEW y \in Execs, NEW d \in Callers, AckStep(y, d) \/ AbandonEnds(y, d)
        PROVE  ack'[x][c] \in Granted
    <2>1. \E p \in Granted : SetAck(y, d, p)
      BY <1>9 DEF AckStep, AckSend, AckArrives, AckAnswered, AckRejected, AbandonEnds, Granted
    <2> QED BY <1>0, <2>1 DEF SetAck
  <1>10. ASSUME NEW y \in Execs, NEW d \in Callers, AbandonClaim(y, d)
         PROVE  ack'[x][c] \in Granted
    <2>1. x # y \/ c # d
      BY <1>10 DEF AbandonClaim, Granted
    <2> QED BY <1>0, <1>10, <2>1 DEF AbandonClaim, SetAck
  <1> QED
    BY <1>1, <1>2, <1>3, <1>4, <1>5, <1>6, <1>7, <1>8, <1>9, <1>10, <1>11, WorkerSteps
       DEF AbandonStep

\* Every step preserves SettledAreGranted.
LEMMA SettledAreGrantedStep ==
    ASSUME ShutdownInv, AskedOnce, SettledAreGranted, [Next]_vars
    PROVE  SettledAreGranted'
  <1> SUFFICES ASSUME NEW x \in Execs, settled'[x]
               PROVE  \E c \in Callers : ack'[x][c] \in Granted
    BY DEF SettledAreGranted
  <1>1. CASE settled[x]
    BY <1>1, GrantedForGood DEF SettledAreGranted
  <1>2. CASE ~settled[x]
    BY <1>2, SettledByGrant DEF Granted
  <1> QED BY <1>1, <1>2

\* Nothing is settled at the beginning.
LEMMA InitContractInv == Init => ContractInv
  <1> SUFFICES ASSUME Init PROVE ContractInv
    OBVIOUS
  <1>1. ShutdownInv
    BY InitShutdownInv
  <1>2. SettledWereTakenOn
    BY ExecParts DEF Init, SettledWereTakenOn, Owns, NoSlot
  <1>3. SettledAreGranted /\ AskedOnce
    BY DEF Init, SettledAreGranted, AskedOnce, Callers
  <1> QED BY <1>1, <1>2, <1>3 DEF ContractInv

\* What is settled was taken on, and granted to one caller who asked for it once.
THEOREM ContractInvariant == Spec => []ContractInv
<1>1. ShutdownInv /\ [Next]_vars /\ ShutdownInv' /\ ContractInv => ContractInv'
  BY SettledWereTakenOnStep, SettledAreGrantedStep, AskedOnceStep DEF ContractInv
<1> QED
  BY InitContractInv, ShutdownInvariant, <1>1, PTL DEF Spec

-----------------------------------------------------------------------------
(* The worker implements its contract *)

\* An execution was answered by its settlement, or by the release of a job that came late.
Done(x) == settled[x] \/ phase[x] \in {"relsent", "released"}

\* A set whose members are equal has one or none.
LEMMA OneOrNone ==
    ASSUME NEW G, \A c, d \in G : c = d
    PROVE  Cardinality(G) = IF G = {} THEN 0 ELSE 1
  <1>1. CASE G = {}
    BY <1>1, FS_EmptySet
  <1>2. CASE G # {}
    <2>1. PICK c \in G : G = {c}
      BY <1>2
    <2> QED BY <1>2, <2>1, FS_Singleton
  <1> QED BY <1>1, <1>2

\* What the contract sees of settlements and releases.
AnswersShown == \A x \in Execs : AnswerCount(x) = IF Done(x) THEN 1 ELSE 0

\* An execution is answered once if it is done, and else not at all.
LEMMA AnswersAre == ContractInv => AnswersShown
  <1> SUFFICES ASSUME ContractInv, NEW x \in Execs
               PROVE  AnswerCount(x) = IF Done(x) THEN 1 ELSE 0
    BY DEF AnswersShown
  <1> DEFINE G == {c \in Callers : ack[x][c] \in Granted}
  <1>1. Cardinality(G) = IF G = {} THEN 0 ELSE 1
    BY OneOrNone DEF ContractInv, ShutdownInv, AckInv, SingleAck
  <1>2. settled[x] <=> G # {}
    BY DEF ContractInv, ShutdownInv, AckInv, GrantedAreSettled, SettledAreGranted
  <1>3. settled[x] => phase[x] \notin {"relsent", "released"}
    BY DEF ContractInv, SettledWereTakenOn, Registered
  <1> QED BY <1>1, <1>2, <1>3 DEF AnswerCount, Done

\* No handler ends with a BaseException in this step.
QuitKept == \A x \in Execs : Quit(x)' <=> Quit(x)

\* A step that changes none of what the contract sees.
LEMMA Unseen ==
    ASSUME AnswersShown, AnswersShown', UNCHANGED leaseVars, Registered' = Registered, QuitKept,
           \A x \in Execs : Done(x)' <=> Done(x),
           wstate' = "stopped" <=> wstate = "stopped"
    PROVE  UNCHANGED Contract!contractVars
  <1>1. \A x \in Execs : AnswerCount(x)' = AnswerCount(x)
    BY DEF AnswersShown
  <1> QED BY <1>1 DEF Contract!contractVars, Live, QuitKept

\* The settlement of an execution, or the release of a late one.
LEMMA SeenAsAnswer ==
    ASSUME AnswersShown, AnswersShown', UNCHANGED leaseVars, Registered' = Registered,
           wstate' = wstate, NEW y \in Execs, Leased(y), ~Done(y), Done(y)', QuitKept,
           \A x \in Execs \ {y} : Done(x)' <=> Done(x)
    PROVE  Contract!Answer(y)
  <1>1. AnswerCount(y) = 0 /\ AnswerCount(y)' = 1
    BY DEF AnswersShown
  <1>2. \A x \in Execs \ {y} : AnswerCount(x)' = AnswerCount(x)
    BY DEF AnswersShown
  <1> QED BY <1>1, <1>2 DEF Contract!Answer, Live, Leased, QuitKept

\* A lease ends when its ack lands, or when it runs out.
LEMMA SeenAsEnd ==
    ASSUME ContractInv, AnswersShown, AnswersShown', UNCHANGED attempts, Registered' = Registered,
           wstate' = wstate, NEW y \in Execs, Live(y), QuitKept,
           \E s \in {"pending", "closed"} : jobStatus' = [jobStatus EXCEPT ![y[1]] = s],
           \A x \in Execs : Done(x)' <=> Done(x)
    PROVE  Contract!EndLease(y)
  <1>1. \A x \in Execs : AnswerCount(x)' = AnswerCount(x)
    BY DEF AnswersShown
  <1>2. jobStatus \in [Jobs -> JobStatus]
    BY DEF ContractInv, ShutdownInv, AckInv, TypeOK, LeaseTypeOK
  <1>3. \A x \in Execs : Live(x)' <=> Live(x) /\ x # y
    BY <1>2, ExecParts DEF Live
  <1> QED BY <1>1, <1>3 DEF Contract!EndLease, QuitKept

\* Of start() and stop() the contract sees deregistering, which finds every live
\* execution that was taken on settled.
LEMMA ControlSeen ==
    ASSUME ContractInv, AnswersShown, AnswersShown', QuitKept, ControlStep
    PROVE  Contract!Close \/ UNCHANGED Contract!contractVars
  <1>1. UNCHANGED <<leaseVars, execVars>>
    BY ControlKeepsExecs
  <1>2. Registered' = Registered /\ \A x \in Execs : Done(x)' <=> Done(x)
    BY <1>1 DEF Registered, Done
  <1>3. wstate' = "stopped" /\ wstate # "stopped" => StopDeregister
    BY DEF ControlStep, StartCall, RegisterReturns, RegisterFails, EnterLoop, LeaveLoop,
           StartReturns, PollStart, PollEnds, StopIgnored, DeadlinePasses, StopWaitPoll,
           StopDrain, StopAbandoned, StopTeardown, StopDeregister, StopFinishes, StopCall
  <1>4. wstate = "stopped" => wstate' = "stopped"
    BY DEF ControlStep, StartCall, RegisterReturns, RegisterFails, EnterLoop, LeaveLoop,
           StartReturns, PollStart, PollEnds, StopIgnored, DeadlinePasses, StopWaitPoll,
           StopDrain, StopAbandoned, StopTeardown, StopDeregister, StopFinishes, StopCall,
           ContractInv, ShutdownInv, IdAndPoolWhileRunning, Started
  <1>5. CASE StopDeregister
    <2>1. wstate # "stopped" /\ wstate' = "stopped"
      BY <1>5 DEF StopDeregister, StopFinishes, ContractInv, ShutdownInv, IdAndPoolWhileRunning
    <2>2. \A x \in Registered : Live(x) /\ ~Quit(x) => AnswerCount(x) = 1
      BY <1>5 DEF StopDeregister, StopFinishes, ContractInv, ShutdownInv, StopProgress, AnswersShown, Done,
                  Registered
    <2>3. \A x \in Execs : AnswerCount(x)' = AnswerCount(x)
      BY <1>2 DEF AnswersShown
    <2> QED BY <1>1, <1>2, <2>1, <2>2, <2>3 DEF Contract!Close, Live, Registered, QuitKept
  <1>6. CASE ~StopDeregister
    BY <1>1, <1>2, <1>3, <1>4, <1>6, Unseen
  <1> QED BY <1>5, <1>6

\* A lease that runs out.
LEMMA ExpirySeen ==
    ASSUME ContractInv, AnswersShown, AnswersShown', QuitKept, LeaseExpires
    PROVE  (\E x \in Execs : Contract!EndLease(x)) \/ UNCHANGED Contract!contractVars
  <1>1. PICK j \in Jobs : ExpireLease(j)
    BY DEF LeaseExpires
  <1>2. /\ Registered' = Registered /\ wstate' = wstate
        /\ \A x \in Execs : Done(x)' <=> Done(x)
    BY DEF LeaseExpires, Registered, Done
  <1>3. attempts[j] \in 0 .. MaxAttempts /\ jobStatus \in [Jobs -> JobStatus]
    BY DEF ContractInv, ShutdownInv, AckInv, TypeOK, LeaseTypeOK
  <1>4. CASE attempts[j] # 0
    <2>1. <<j, attempts[j]>> \in Execs
      BY <1>3, <1>4, AttemptsAssumption DEF Execs
    <2>2. Live(<<j, attempts[j]>>)
      BY <1>1 DEF ExpireLease, Live
    <2> QED BY <1>1, <1>2, <2>1, <2>2, SeenAsEnd DEF ExpireLease
  <1>5. CASE attempts[j] = 0
    <2>1. \A x \in Execs : Live(x)' <=> Live(x)
      BY <1>1, <1>3, <1>5, ExecParts DEF ExpireLease, Live
    <2>2. \A x \in Execs : AnswerCount(x)' = AnswerCount(x)
      BY <1>2 DEF AnswersShown
    <2> QED BY <1>1, <1>2, <2>1, <2>2 DEF Contract!contractVars, ExpireLease, QuitKept
  <1> QED BY <1>4, <1>5

\* A claim creates leases of executions the worker does not know.
LEMMA ClaimSeen ==
    ASSUME ContractInv, AnswersShown, AnswersShown', QuitKept,
           NEW S \in SUBSET Claimable, ClaimReturns(S) \/ ClaimFails(S)
    PROVE  \E L \in SUBSET Execs : L \cap {x \in Execs : Leased(x)} = {} /\ Contract!Lease(L)
  <1>10. PICK L : L = NewLeases(S)
    OBVIOUS
  <1>0. /\ attempts \in [Jobs -> 0 .. MaxAttempts] /\ jobStatus \in [Jobs -> JobStatus]
        /\ phase \in [Execs -> Phases]
    BY DEF ContractInv, ShutdownInv, AckInv, TypeOK, LeaseTypeOK, ExecTypeOK
  <1>1. L \subseteq Execs /\ \A x \in L : ~Leased(x) /\ x[1] \in S
    BY <1>0, <1>10, AttemptsAssumption DEF NewLeases, Claimable, Execs, Leased
  <1>2. GrantLeases(S) /\ UNCHANGED <<wstate, settled>>
    BY DEF ClaimReturns, ClaimFails, Claim
  <1>3. \A x \in Execs : x \in L <=> x[1] \in S /\ x[2] = attempts[x[1]] + 1
    BY <1>0, <1>10, ExecParts DEF NewLeases, Claimable
  <1>4. /\ \A x \in L : phase[x] = "unclaimed" /\ phase'[x] \in {"received", "lost"}
        /\ \A x \in Execs \ L : phase'[x] = phase[x]
    <2>1. \A x \in L : phase[x] = "unclaimed"
      BY <1>1 DEF ContractInv, ShutdownInv, KnownAreLeased
    <2> QED BY <1>1, <1>10, <2>1 DEF ClaimReturns, ClaimFails, Claim
  <1>5. Registered' = Registered /\ \A x \in Execs : Done(x)' <=> Done(x)
    BY <1>2, <1>4 DEF Registered, Done
  <1>6. \A x \in Execs : AnswerCount(x)' = AnswerCount(x)
    BY <1>5 DEF AnswersShown
  <1>7. \A x \in Execs : Leased(x)' <=> Leased(x) \/ x \in L
    BY <1>0, <1>2, <1>3, ExecParts DEF GrantLeases, Leased
  <1>8. \A x \in Execs : Live(x)' <=> Live(x) \/ x \in L
    <2> SUFFICES ASSUME NEW x \in Execs PROVE Live(x)' <=> Live(x) \/ x \in L
      OBVIOUS
    <2>1. CASE x[1] \in S
      BY <1>0, <1>2, <1>3, <2>1, ExecParts DEF GrantLeases, Live, Claimable
    <2>2. CASE x[1] \notin S
      BY <1>0, <1>2, <1>3, <2>2, ExecParts DEF GrantLeases, Live
    <2> QED BY <2>1, <2>2
  <1>11. \A x \in L : ~Quit(x)
    BY <1>1, <1>4 DEF ContractInv, ShutdownInv, QuitIsOver
  <1>9. Contract!Lease(L)
    BY <1>1, <1>2, <1>5, <1>6, <1>7, <1>8, <1>11 DEF Contract!Lease, Leased, QuitKept
  <1> QED BY <1>1, <1>9

\* The steps of one execution.
LEMMA ProcessJobSeen ==
    ASSUME ContractInv, AnswersShown, AnswersShown', QuitKept, NEW y \in Execs, ProcessJob(y)
    PROVE  \/ Contract!TakeOn({y}) \/ Contract!EndLease(y) \/ Contract!Answer(y)
           \/ UNCHANGED Contract!contractVars
  <1>0. phase \in [Execs -> Phases] /\ wstate' = wstate /\ settled' = settled
    BY DEF ContractInv, ShutdownInv, AckInv, TypeOK, ExecTypeOK, ProcessJob, CheckIntake, RegisterJob,
           ArmHeartbeat, Submit, ReleaseJob, ReleaseReturns, ctlVars
  <1>1. phase[y] # "unclaimed" => Leased(y)
    BY DEF ContractInv, ShutdownInv, KnownAreLeased
  <1>3. CASE RegisterJob(y) /\ ~intakeClosed
    <2>1. phase[y] = "admitted" /\ phase' = [phase EXCEPT ![y] = "registered"] /\ UNCHANGED leaseVars
      BY <1>3 DEF RegisterJob, SetPhase
    <2>2. y \notin Registered /\ Registered' = Registered \cup {y}
      BY <1>0, <2>1 DEF Registered
    <2>3. \A x \in Execs : Done(x)' <=> Done(x)
      BY <1>0, <2>1 DEF Done
    <2>4. ~Done(y)
      BY <2>1, <2>2 DEF Done, ContractInv, SettledWereTakenOn
    <2>5. AnswerCount(y) = 0 /\ \A x \in Execs : AnswerCount(x)' = AnswerCount(x)
      BY <2>3, <2>4 DEF AnswersShown
    <2>6. wstate # "stopped"
      BY <1>3 DEF ContractInv, ShutdownInv, IdAndPoolWhileRunning, StopProgress
    <2> QED BY <1>0, <2>1, <2>2, <2>5, <2>6 DEF Contract!TakeOn, Live, QuitKept
  <1>4. CASE CheckIntake(y) \/ (RegisterJob(y) /\ intakeClosed)
    <2>1. /\ phase[y] \in {"received", "admitted"} /\ UNCHANGED leaseVars
          /\ \E p \in {"admitted", "releasing", "late"} : phase' = [phase EXCEPT ![y] = p]
      BY <1>4 DEF CheckIntake, RegisterJob, SetPhase
    <2>2. Registered' = Registered /\ \A x \in Execs : Done(x)' <=> Done(x)
      BY <1>0, <2>1 DEF Registered, Done
    <2> QED BY <1>0, <2>1, <2>2, Unseen
  <1>5. CASE ArmHeartbeat(y)
    <2>1. /\ phase[y] \in {"registered", "late"} /\ UNCHANGED leaseVars
          /\ phase[y] = "late" => executor # "open"
      BY <1>5 DEF ArmHeartbeat, ContractInv, ShutdownInv, LateAfterStop
    <2>2. Registered' = Registered /\ \A x \in Execs : Done(x)' <=> Done(x)
      BY <1>0, <1>5, <2>1 DEF ArmHeartbeat, SetPhase, Registered, Done
    <2> QED BY <1>0, <2>1, <2>2, Unseen
  <1>8. CASE Submit(y)
    <2>1. Registered' = Registered /\ \A x \in Execs : Done(x)' <=> Done(x)
      BY <1>0, <1>8 DEF Submit, CleanupEffect, SetPhase, Registered, Done
    <2> QED BY <1>0, <1>8, <2>1, Unseen DEF Submit
  <1>6. CASE ReleaseJob(y)
    <2>1. /\ phase[y] = "releasing" /\ UNCHANGED leaseVars
          /\ \E p \in {"relsent", "stuck"} : phase' = [phase EXCEPT ![y] = p]
      BY <1>6 DEF ReleaseJob, SetPhase
    <2>2. Registered' = Registered /\ \A x \in Execs \ {y} : Done(x)' <=> Done(x)
      BY <1>0, <2>1 DEF Registered, Done
    <2>3. ~Done(y)
      BY <2>1 DEF Done, ContractInv, SettledWereTakenOn, Registered
    <2>4. CASE Done(y)'
      BY <1>0, <1>1, <2>1, <2>2, <2>3, <2>4, SeenAsAnswer
    <2>5. CASE ~Done(y)'
      BY <1>0, <2>1, <2>2, <2>3, <2>5, Unseen
    <2> QED BY <2>4, <2>5
  <1>7. CASE ReleaseReturns(y)
    <2>1. /\ phase[y] = "relsent" /\ (AcceptAck(y) \/ UNCHANGED leaseVars)
          /\ phase' = [phase EXCEPT ![y] = "released"]
      BY <1>7 DEF ReleaseReturns, SetPhase
    <2>2. Registered' = Registered /\ \A x \in Execs : Done(x)' <=> Done(x)
      BY <1>0, <2>1 DEF Registered, Done
    <2>3. CASE AcceptAck(y)
      BY <1>0, <2>2, <2>3, SeenAsEnd DEF AcceptAck
    <2>4. CASE UNCHANGED leaseVars
      BY <1>0, <2>2, <2>4, Unseen
    <2> QED BY <2>1, <2>3, <2>4
  <1> QED BY <1>3, <1>4, <1>5, <1>6, <1>7, <1>8 DEF ProcessJob

\* A handler that returns answers, if the settlement is granted to it.
LEMMA HandlerSeen ==
    ASSUME ContractInv, AnswersShown, AnswersShown', QuitKept, NEW y \in Execs,
           HandlerStart(y) \/ HandlerReturn(y) \/ Cleanup(y)
    PROVE  Contract!Answer(y) \/ UNCHANGED Contract!contractVars
  <1>0. /\ phase \in [Execs -> Phases] /\ settled \in [Execs -> BOOLEAN]
        /\ UNCHANGED <<wstate, leaseVars>>
    BY DEF ContractInv, ShutdownInv, AckInv, TypeOK, ExecTypeOK, HandlerStart, HandlerReturn,
           Cleanup, ctlVars
  <1>1. /\ phase[y] \in {"queued", "running", "acking", "cleanup"}
        /\ \E p \in {"running", "acking", "cleanup", "finished"} :
              phase' = [phase EXCEPT ![y] = p]
    BY DEF HandlerStart, HandlerReturn, Cleanup, CleanupEffect, SetPhase
  <1>2. Registered' = Registered
    BY <1>0, <1>1 DEF Registered
  <1>3. CASE settled' = settled
    BY <1>0, <1>1, <1>2, <1>3, Unseen DEF Done
  <1>4. CASE settled' # settled
    <2>1. HandlerReturn(y) /\ CanSettle(y) /\ settled' = [settled EXCEPT ![y] = TRUE]
      BY <1>4 DEF HandlerStart, HandlerReturn, Cleanup
    <2>2. ~Done(y) /\ Done(y)' /\ \A x \in Execs \ {y} : Done(x)' <=> Done(x)
      BY <1>0, <1>1, <2>1 DEF Done, CanSettle
    <2>3. Leased(y)
      BY <1>1 DEF ContractInv, ShutdownInv, KnownAreLeased
    <2> QED BY <1>0, <1>2, <2>2, <2>3, SeenAsAnswer
  <1> QED BY <1>3, <1>4

\* The worker gives up an execution whose handler ends with a BaseException.
LEMMA QuitSeen ==
    ASSUME ContractInv, AnswersShown, AnswersShown', [Next]_vars, NEW y \in Execs, HandlerQuits(y)
    PROVE  Contract!EndLease(y)
  <1>0. phase \in [Execs -> Phases] /\ ack \in [Execs -> [Callers -> AckPcs]] /\ ShutdownInv
    BY DEF ContractInv, ShutdownInv, AckInv, TypeOK, ExecTypeOK
  <1>1. /\ UNCHANGED <<leaseVars, wstate, settled>> /\ phase[y] = "running"
        /\ phase' = [phase EXCEPT ![y] = "cleanup"]
    BY DEF HandlerQuits, SetPhase
  <1>2. Registered' = Registered /\ \A x \in Execs : Done(x)' <=> Done(x)
    BY <1>0, <1>1 DEF Registered, Done
  <1>3. \A x \in Execs : AnswerCount(x)' = AnswerCount(x)
    BY <1>2 DEF AnswersShown
  <1>4. \A x \in Execs : Quit(x)' <=> Quit(x) \/ x = y
    BY <1>0 DEF HandlerQuits, SetAck, Quit, Callers
  <1> QED BY <1>1, <1>2, <1>3, <1>4 DEF Contract!EndLease, Live

\* Timers, heartbeats and the signals of stop() are no answer.
LEMMA TimersSeen ==
    ASSUME ContractInv, AnswersShown, AnswersShown', QuitKept, NEW y \in Execs,
           TimeoutFires(y) \/ HeartbeatStep(y) \/ StopAbandon(y)
    PROVE  UNCHANGED Contract!contractVars
  <1>1. UNCHANGED <<leaseVars, wstate, phase, settled>>
    BY DEF TimeoutFires, HeartbeatStep, HeartbeatFires, HeartbeatAnswered, HeartbeatRejected,
           StopAbandon, ctlVars
  <1>2. Registered' = Registered /\ \A x \in Execs : Done(x)' <=> Done(x)
    BY <1>1 DEF Registered, Done
  <1> QED BY <1>1, <1>2, Unseen

\* Acks end leases when they land; asking for the settlement may be granted.
LEMMA AcksSeen ==
    ASSUME ContractInv, AnswersShown, AnswersShown', QuitKept, NEW y \in Execs, NEW c \in Callers,
           AckStep(y, c) \/ AbandonStep(y, c)
    PROVE  Contract!EndLease(y) \/ Contract!Answer(y) \/ UNCHANGED Contract!contractVars
  <1>0. UNCHANGED <<wstate, phase>> /\ settled \in [Execs -> BOOLEAN]
    BY DEF ContractInv, ShutdownInv, AckInv, TypeOK, ExecTypeOK, AckStep, AckSend, AckArrives,
           AckAnswered, AckRejected, AbandonStep, AbandonClaim, AbandonEnds, ctlVars
  <1>1. Registered' = Registered
    BY <1>0 DEF Registered
  <1>2. \/ settled' = settled /\ (AcceptAck(y) \/ UNCHANGED leaseVars)
        \/ CanSettle(y) /\ settled' = [settled EXCEPT ![y] = TRUE] /\ UNCHANGED leaseVars
    BY DEF AckStep, AckSend, AckArrives, AckAnswered, AckRejected, AbandonStep, AbandonClaim,
           AbandonEnds
  <1>3. CASE settled' = settled
    <2>1. \A x \in Execs : Done(x)' <=> Done(x)
      BY <1>0, <1>3 DEF Done
    <2>2. CASE AcceptAck(y)
      BY <1>0, <1>1, <2>1, <2>2, SeenAsEnd DEF AcceptAck
    <2>3. CASE UNCHANGED leaseVars
      BY <1>0, <1>1, <2>1, <2>3, Unseen
    <2>4. CanSettle(y) /\ settled' = [settled EXCEPT ![y] = TRUE] => FALSE
      BY <1>0, <1>3 DEF CanSettle
    <2> QED BY <1>2, <2>2, <2>3, <2>4
  <1>4. CASE CanSettle(y) /\ settled' = [settled EXCEPT ![y] = TRUE] /\ UNCHANGED leaseVars
    <2>1. y \in Slotted /\ phase[y] \notin {"late", "stranded"}
      BY <1>4 DEF CanSettle, ContractInv, SettledWereTakenOn, ShutdownInv, LateAfterStop,
                  IdAndPoolWhileRunning
    <2>5. y \in Registered
      BY <2>1 DEF Slotted
    <2>2. ~Done(y) /\ Done(y)' /\ \A x \in Execs \ {y} : Done(x)' <=> Done(x)
      BY <1>0, <1>4, <2>5 DEF Done, CanSettle, Registered
    <2>3. Leased(y)
      BY <2>5 DEF ContractInv, ShutdownInv, KnownAreLeased, Registered
    <2> QED BY <1>0, <1>1, <1>4, <2>2, <2>3, SeenAsAnswer
  <1> QED BY <1>2, <1>3, <1>4

\* Every step of the worker is one of the contract, or unseen.
LEMMA StepSeen ==
    ASSUME ContractInv, AnswersShown, AnswersShown', [Next]_vars
    PROVE  [Contract!Next]_(Contract!contractVars)
  <1>9. CASE \E y \in Execs : HandlerQuits(y)
    BY <1>9, QuitSeen DEF Contract!Next
  <1>10. SUFFICES ASSUME ~(\E y \in Execs : HandlerQuits(y))
                  PROVE  [Contract!Next]_(Contract!contractVars)
    BY <1>9
  <1>11. QuitKept
    BY <1>10, QuitByHandler DEF QuitKept, ContractInv
  <1> USE <1>11
  <1>1. CASE ControlStep
    BY <1>1, ControlSeen DEF Contract!Next
  <1>2. CASE LeaseExpires
    BY <1>2, ExpirySeen DEF Contract!Next
  <1>3. CASE UNCHANGED vars
    <2>1. Registered' = Registered /\ \A x \in Execs : Done(x)' <=> Done(x)
      BY <1>3 DEF Registered, Done
    <2> QED BY <1>3, <2>1, Unseen
  <1>4. ASSUME NEW S \in SUBSET Claimable, ClaimReturns(S) \/ ClaimFails(S)
        PROVE  Contract!Next
    <2>1. PICK L \in SUBSET Execs : L \cap {x \in Execs : Leased(x)} = {} /\ Contract!Lease(L)
      BY <1>4, ClaimSeen
    <2> QED BY <2>1 DEF Contract!Next, Leased
  <1>5. ASSUME NEW y \in Execs, ProcessJob(y)
        PROVE  [Contract!Next]_(Contract!contractVars)
    <2>1. CASE Contract!TakeOn({y})
      <3>1. Leased(y)
        BY <1>5 DEF ContractInv, ShutdownInv, KnownAreLeased, ProcessJob, CheckIntake, RegisterJob,
                    ArmHeartbeat, Submit, ReleaseJob, ReleaseReturns
      <3> QED BY <2>1, <3>1 DEF Contract!Next, Leased
    <2>2. CASE Contract!EndLease(y) \/ Contract!Answer(y)
      BY <2>2 DEF Contract!Next
    <2> QED BY <1>5, <2>1, <2>2, ProcessJobSeen
  <1>6. ASSUME NEW y \in Execs, HandlerStart(y) \/ HandlerReturn(y) \/ Cleanup(y)
        PROVE  [Contract!Next]_(Contract!contractVars)
    BY <1>6, HandlerSeen DEF Contract!Next
  <1>7. ASSUME NEW y \in Execs, TimeoutFires(y) \/ HeartbeatStep(y) \/ StopAbandon(y)
        PROVE  UNCHANGED Contract!contractVars
    BY <1>7, TimersSeen
  <1>8. ASSUME NEW y \in Execs, NEW c \in Callers, AckStep(y, c) \/ AbandonStep(y, c)
        PROVE  [Contract!Next]_(Contract!contractVars)
    BY <1>8, AcksSeen DEF Contract!Next
  <1> QED
    BY <1>1, <1>2, <1>3, <1>4, <1>5, <1>6, <1>7, <1>8, <1>10, WorkerSteps DEF ProcessJob

\* The worker begins as the contract does.
LEMMA InitSeen == Init => Contract!Init
  <1> SUFFICES ASSUME Init PROVE Contract!Init
    OBVIOUS
  <1>1. Registered = {} /\ wstate # "stopped" /\ \A x \in Execs : ~Done(x)
    BY DEF Init, Registered, Done
  <1>2. \A x \in Execs : x[2] > attempts[x[1]] /\ ~Live(x)
    BY ExecParts DEF Init, LeaseInit, Live
  <1>3. AnswersShown
    BY InitContractInv, AnswersAre
  <1> QED BY <1>1, <1>2, <1>3, ExecParts DEF Contract!Init, AnswersShown, Init, LeaseInit

\* The worker implements the contract: whichever thread answers for an execution, it
\* answers once; it takes none on after the drain, and deregisters with every live
\* execution it took on answered, but those it gave up when their handler quit.
THEOREM WorkerKeepsContract == Spec => KeepsContract
<1>1. ContractInv /\ AnswersShown /\ AnswersShown' /\ [Next]_vars
          => [Contract!Next]_(Contract!contractVars)
  BY StepSeen
<1> QED
  BY InitSeen, ContractInvariant, AnswersAre, <1>1, PTL DEF Spec, KeepsContract, Contract!Spec

-----------------------------------------------------------------------------
(* Dropped results *)

\* Every step preserves AbandonedAfterDeadline.
LEMMA AbandonedAfterDeadlineStep ==
    ASSUME ShutdownInv, AbandonedAfterDeadline, [Next]_vars
    PROVE  AbandonedAfterDeadline'
  <1>0. ack \in [Execs -> [Callers -> AckPcs]] /\ stopTodo \in SUBSET Execs
    BY DEF ShutdownInv, AckInv, TypeOK, ExecTypeOK, ControlTypeOK
  <1>1. CASE UNCHANGED <<ack, stopTodo>> /\ deadlinePassed' \in {deadlinePassed, TRUE}
    BY <1>1 DEF AbandonedAfterDeadline
  <1>2. CASE \/ StartCall \/ RegisterReturns \/ RegisterFails \/ EnterLoop \/ LeaveLoop
             \/ StartReturns \/ PollStart \/ PollEnds \/ StopIgnored \/ DeadlinePasses
             \/ StopWaitPoll \/ StopAbandoned \/ StopTeardown \/ StopDeregister \/ StopFinishes
             \/ LeaseExpires \/ UNCHANGED vars
    BY <1>1, <1>2
       DEF StartCall, RegisterReturns, RegisterFails, EnterLoop, LeaveLoop, StartReturns,
           PollStart, PollEnds, StopIgnored, DeadlinePasses, StopWaitPoll, StopAbandoned,
           StopTeardown, StopDeregister, StopFinishes, LeaseExpires
  <1>3. ASSUME NEW onMain \in StopThreads, StopCall(onMain)
        PROVE  AbandonedAfterDeadline'
    BY <1>1, <1>3 DEF StopCall
  <1>4. CASE StopDrain
    <2>1. UNCHANGED <<ack, deadlinePassed>> /\ stopTodo' = {x \in Execs : Owns(x)} /\ DrainOver
      BY <1>4 DEF StopDrain
    <2>2. ActiveSlots = {} => stopTodo' = {}
      <3> SUFFICES ASSUME NEW x \in Execs, Owns(x) PROVE x[1] \in ActiveSlots
        BY <2>1
      <3> QED BY ExecParts DEF Owns, ActiveSlots, NoSlot
    <2> QED BY <2>1, <2>2 DEF DrainOver, AbandonedAfterDeadline
  <1>5. ASSUME NEW S \in SUBSET Claimable, ClaimReturns(S) \/ ClaimFails(S)
        PROVE  AbandonedAfterDeadline'
    BY <1>1, <1>5 DEF ClaimReturns, ClaimFails, Claim
  <1>6. ASSUME NEW y \in Execs,
               \/ CheckIntake(y) \/ RegisterJob(y) \/ ArmHeartbeat(y) \/ Submit(y) \/ ReleaseJob(y)
               \/ ReleaseReturns(y) \/ HandlerStart(y) \/ HeartbeatStep(y)
        PROVE  AbandonedAfterDeadline'
    BY <1>1, <1>6
       DEF CheckIntake, RegisterJob, ArmHeartbeat, Submit, ReleaseJob, ReleaseReturns, HandlerStart,
           HeartbeatStep, HeartbeatFires, HeartbeatAnswered, HeartbeatRejected
  <1>7. ASSUME NEW y \in Execs, HandlerReturn(y) \/ HandlerQuits(y) \/ Cleanup(y) \/ TimeoutFires(y)
        PROVE  AbandonedAfterDeadline'
    <2>1. /\ UNCHANGED <<stopTodo, deadlinePassed>>
          /\ \A x \in Execs : ack'[x]["stop"] = ack[x]["stop"]
      BY <1>0, <1>7 DEF HandlerReturn, HandlerQuits, Cleanup, TimeoutFires, SetAck, Callers
    <2> QED BY <2>1 DEF AbandonedAfterDeadline
  <1>8. ASSUME NEW y \in Execs, StopAbandon(y)
        PROVE  AbandonedAfterDeadline'
    BY <1>8 DEF StopAbandon, AbandonedAfterDeadline
  <1>9. ASSUME NEW y \in Execs, NEW c \in Callers, AckStep(y, c) \/ AbandonStep(y, c)
        PROVE  AbandonedAfterDeadline'
    <2>1. UNCHANGED <<stopTodo, deadlinePassed>> /\ ack[y][c] # "none"
      BY <1>9 DEF AckStep, AckSend, AckArrives, AckAnswered, AckRejected, AbandonStep,
                  AbandonClaim, AbandonEnds
    <2>2. \A x \in Execs : x # y \/ c # "stop" => ack'[x]["stop"] = ack[x]["stop"]
      BY <1>0, <1>9 DEF AckStep, AckSend, AckArrives, AckAnswered, AckRejected, AbandonStep,
                        AbandonClaim, AbandonEnds, SetAck, Callers
    <2> QED BY <2>1, <2>2 DEF AbandonedAfterDeadline
  <1> QED
    BY <1>2, <1>3, <1>4, <1>5, <1>6, <1>7, <1>8, <1>9, WorkerSteps DEF ControlStep

\* A handler whose settlement is refused has lost the lease, or the race against its
\* timeout or against a stop() whose deadline has passed.
LEMMA RefusedForAReason ==
    ASSUME ResultInv, NEW x \in Execs, phase[x] = "running", ~CanSettle(x)
    PROVE  ~Live(x) \/ leaseLost[x] \/ timeoutTimer[x] = "fired" \/ deadlinePassed
  <1> SUFFICES ASSUME Live(x), ~leaseLost[x]
               PROVE  timeoutTimer[x] = "fired" \/ deadlinePassed
    OBVIOUS
  <1>1. x \in Registered
    BY DEF Registered
  <1>2. settled[x]
    BY <1>1, LiveCanSettle DEF ResultInv, ContractInv, Quit, ShutdownInv, QuitIsOver
  <1>3. PICK c \in Callers : ack[x][c] \in Granted
    BY <1>2 DEF ResultInv, ContractInv, SettledAreGranted
  <1>4. ack[x][c] # "none"
    BY <1>3 DEF Granted
  <1> QED BY <1>4 DEF ResultInv, ContractInv, AskedOnce, AbandonedAfterDeadline, Callers

\* No result is dropped without a reason the documentation gives, whatever the slots, the
\* timers and stop() do meanwhile: a handler is refused the settlement only when the lease
\* is gone, its timeout fired, or the shutdown timeout ran out; but one that ends with a
\* BaseException does not ask.
THEOREM ResultDroppedForAReasonHolds == Spec => ResultDroppedForAReason
<1>1. Init => AbandonedAfterDeadline
  BY DEF Init, AbandonedAfterDeadline, Callers
<1>2. Spec => []ResultInv
  BY <1>1, ContractInvariant, AbandonedAfterDeadlineStep, PTL
     DEF Spec, ContractInv, ResultInv
<1>3. ResultInv /\ [Next]_vars =>
          [\A x \in Execs : phase[x] = "running" /\ phase'[x] = "cleanup" =>
              ~Live(x) \/ leaseLost[x] \/ timeoutTimer[x] = "fired" \/ deadlinePassed
                  \/ Quit(x)']_vars
  <2> SUFFICES ASSUME ResultInv, [Next]_vars, NEW x \in Execs,
                      phase[x] = "running", phase'[x] = "cleanup"
               PROVE  ~Live(x) \/ leaseLost[x] \/ timeoutTimer[x] = "fired" \/ deadlinePassed
                          \/ Quit(x)'
    OBVIOUS
  <2>1. CASE HandlerReturn(x)
    <3>1. ~CanSettle(x)
      BY <2>1 DEF HandlerReturn, SetPhase, ResultInv, ContractInv, ShutdownInv, AckInv, TypeOK,
                  ExecTypeOK
    <3> QED BY <3>1, RefusedForAReason
  <2>2. CASE HandlerQuits(x)
    BY <2>2 DEF HandlerQuits, SetAck, Quit, Callers, ResultInv, ContractInv, ShutdownInv, AckInv,
                TypeOK, ExecTypeOK
  <2> QED BY <2>1, <2>2, ReturnedBy DEF ResultInv, ContractInv, Submit
<1> QED BY <1>2, <1>3, PTL DEF Spec, ResultDroppedForAReason

-----------------------------------------------------------------------------
(* Threads: what frees a slot, what marks an execution abandoned *)

\* A slot is freed by the cleanup of its execution, by the one who abandoned it, or by a
\* later execution that takes it.
LEMMA SlotLost ==
    ASSUME ShutdownInv, [Next]_vars, NEW x \in Execs, Owns(x), ~Owns(x)'
    PROVE  \/ phase'[x] = "finished"
           \/ \E c \in Callers : AbandonEnds(x, c)
           \/ \E y \in Execs : RegisterJob(y) /\ y[1] = x[1]
  <1>0. /\ active \in [Jobs -> 0 .. MaxAttempts] /\ phase \in [Execs -> Phases]
        /\ x[1] \in Jobs /\ active'[x[1]] # active[x[1]]
    BY ExecParts DEF ShutdownInv, AckInv, TypeOK, ExecTypeOK, Owns
  <1>1. ASSUME NEW y \in Execs, FreeSlot(y) PROVE y = x
    <2>1. Owns(y) /\ y[1] = x[1]
      BY <1>0, <1>1 DEF FreeSlot
    <2> QED BY <2>1, ExecParts DEF Owns
  <1>2. ~(ControlStep \/ LeaseExpires \/ UNCHANGED vars)
    BY <1>0, ControlKeepsExecs DEF LeaseExpires
  <1>3. ~(\E S \in SUBSET Claimable : ClaimReturns(S) \/ ClaimFails(S))
    BY <1>0 DEF ClaimReturns, ClaimFails, Claim
  <1>4. ASSUME NEW y \in Execs,
               \/ CheckIntake(y) \/ ArmHeartbeat(y) \/ ReleaseJob(y) \/ ReleaseReturns(y)
               \/ HandlerStart(y) \/ HandlerReturn(y) \/ HandlerQuits(y) \/ TimeoutFires(y)
               \/ HeartbeatStep(y) \/ StopAbandon(y)
               \/ \E c \in Callers : AckStep(y, c) \/ AbandonClaim(y, c)
        PROVE  FALSE
    BY <1>0, <1>4
       DEF CheckIntake, ArmHeartbeat, ReleaseJob, ReleaseReturns, HandlerStart, HandlerReturn,
           HandlerQuits, TimeoutFires, HeartbeatStep, HeartbeatFires, HeartbeatAnswered,
           HeartbeatRejected, StopAbandon,
           AckStep, AckSend, AckArrives, AckAnswered, AckRejected, AbandonClaim
  <1>5. ASSUME NEW y \in Execs, Submit(y) \/ Cleanup(y)
        PROVE  phase'[x] = "finished"
    <2>1. FreeSlot(y) /\ SetPhase(y, "finished")
      BY <1>0, <1>5 DEF Submit, Cleanup, CleanupEffect
    <2> QED BY <1>0, <1>1, <2>1 DEF SetPhase
  <1>6. ASSUME NEW y \in Execs, NEW c \in Callers, AbandonEnds(y, c)
        PROVE  AbandonEnds(x, c)
    BY <1>1, <1>6 DEF AbandonEnds
  <1>7. ASSUME NEW y \in Execs, RegisterJob(y)
        PROVE  y[1] = x[1]
    BY <1>0, <1>7 DEF RegisterJob
  <1> QED
    BY <1>2, <1>3, <1>4, <1>5, <1>6, <1>7, WorkerSteps DEF AbandonStep

\* _cleanup_job comes last.
LEMMA FinishedForGood ==
    ASSUME ShutdownInv, [Next]_vars, NEW x \in Execs, phase[x] = "finished"
    PROVE  phase'[x] = "finished"
  BY PhaseElsewhere, ClaimKeepsKnown
     DEF CheckIntake, RegisterJob, ArmHeartbeat, ReleaseJob, ReleaseReturns, HandlerStart,
         HandlerReturn, HandlerQuits, Submit, Cleanup

\* Abandoning counts an execution, its cleanup takes it back, nothing else touches the count.
LEMMA AbandonedBy ==
    ASSUME ShutdownInv, [Next]_vars
    PROVE  \/ UNCHANGED <<abandoned, abandonedRunning>>
           \/ \E x \in Execs : \E c \in Callers : AbandonEnds(x, c)
           \/ \E x \in Execs : CleanupEffect(x)
  <1>1. CASE ControlStep \/ LeaseExpires \/ UNCHANGED vars
    BY <1>1, ControlKeepsExecs DEF LeaseExpires
  <1>2. ASSUME NEW S \in SUBSET Claimable, ClaimReturns(S) \/ ClaimFails(S)
        PROVE  UNCHANGED <<abandoned, abandonedRunning>>
    BY <1>2 DEF ClaimReturns, ClaimFails, Claim
  <1>3. ASSUME NEW y \in Execs,
               \/ CheckIntake(y) \/ RegisterJob(y) \/ ArmHeartbeat(y) \/ ReleaseJob(y) \/ ReleaseReturns(y)
               \/ HandlerStart(y) \/ HandlerReturn(y) \/ HandlerQuits(y) \/ TimeoutFires(y) \/ HeartbeatStep(y)
               \/ StopAbandon(y) \/ \E c \in Callers : AckStep(y, c) \/ AbandonClaim(y, c)
        PROVE  UNCHANGED <<abandoned, abandonedRunning>>
    BY <1>3
       DEF CheckIntake, RegisterJob, ArmHeartbeat, ReleaseJob, ReleaseReturns, HandlerStart,
           HandlerReturn, HandlerQuits,
           TimeoutFires, HeartbeatStep, HeartbeatFires, HeartbeatAnswered, HeartbeatRejected,
           StopAbandon, AckStep, AckSend, AckArrives, AckAnswered, AckRejected, AbandonClaim
  <1>4. ASSUME NEW y \in Execs, Submit(y) \/ Cleanup(y)
        PROVE  UNCHANGED <<abandoned, abandonedRunning>> \/ CleanupEffect(y)
    BY <1>4 DEF Submit, Cleanup
  <1> QED
    BY <1>1, <1>2, <1>3, <1>4, WorkerSteps DEF AbandonStep

\* Sets of executions and of jobs are finite.
LEMMA FiniteParts ==
    /\ \A A \in SUBSET Execs : IsFiniteSet(A) /\ Cardinality(A) \in Nat
    /\ \A J \in SUBSET Jobs : IsFiniteSet(J) /\ Cardinality(J) \in Nat
  <1>1. IsFiniteSet(1 .. MaxAttempts)
    BY AttemptsAssumption, FS_Interval
  <1>2. IsFiniteSet(Execs)
    BY <1>1, JobsAssumption, FS_Product DEF Execs
  <1> QED BY <1>2, JobsAssumption, FS_Subset, FS_CardinalityType

\* Every step preserves AbandonedCountExact.
LEMMA AbandonedCountStep ==
    ASSUME ShutdownInv, AbandonedCountExact, [Next]_vars
    PROVE  AbandonedCountExact'
  <1> DEFINE A == {x \in Execs : abandoned[x]}
  <1>0. abandoned \in [Execs -> BOOLEAN] /\ IsFiniteSet(A) /\ Cardinality(A) \in Nat
    BY FiniteParts DEF ShutdownInv, AckInv, TypeOK, ExecTypeOK
  <1>1. CASE UNCHANGED <<abandoned, abandonedRunning>>
    BY <1>1 DEF AbandonedCountExact
  <1>2. ASSUME NEW x \in Execs, NEW c \in Callers, AbandonEnds(x, c)
        PROVE  AbandonedCountExact'
    <2>1. A' = A \cup {x}
      BY <1>0, <1>2 DEF AbandonEnds
    <2>2. Cardinality(A \cup {x}) = IF x \in A THEN Cardinality(A) ELSE Cardinality(A) + 1
      BY <1>0, FS_AddElement
    <2> QED BY <1>2, <2>1, <2>2 DEF AbandonEnds, AbandonedCountExact
  <1>3. ASSUME NEW x \in Execs, CleanupEffect(x)
        PROVE  AbandonedCountExact'
    <2>1. A' = A \ {x}
      BY <1>0, <1>3 DEF CleanupEffect
    <2>2. Cardinality(A \ {x}) = IF x \in A THEN Cardinality(A) - 1 ELSE Cardinality(A)
      BY <1>0, FS_RemoveElement
    <2>3. IsFiniteSet(A \ {x}) /\ Cardinality(A \ {x}) \in Nat
      BY <1>0, FS_RemoveElement, FS_CardinalityType
    <2> QED BY <1>0, <1>3, <2>1, <2>2, <2>3 DEF CleanupEffect, AbandonedCountExact
  <1> QED BY <1>1, <1>2, <1>3, AbandonedBy

\* Every step preserves SlotUntilGivenUp.
LEMMA SlotUntilGivenUpStep ==
    ASSUME ShutdownInv, SlotUntilGivenUp, [Next]_vars
    PROVE  SlotUntilGivenUp'
  <1>0. abandoned \in [Execs -> BOOLEAN] /\ phase \in [Execs -> Phases]
    BY DEF ShutdownInv, AckInv, TypeOK, ExecTypeOK
  <1> SUFFICES ASSUME NEW x \in Registered',
                      phase'[x] # "finished", ~abandoned'[x], ~Superseded(x)'
               PROVE  Owns(x)'
    BY DEF SlotUntilGivenUp
  <1>1. CASE x \notin Registered
    BY <1>1, TakenOnByRegister
  <1>2. CASE x \in Registered
    <2>0. x \in Execs
      BY DEF Registered
    <2>1. phase[x] # "finished" /\ ~Superseded(x)
      BY <2>0, FinishedForGood, TakenOnForGood DEF Superseded
    <2>2. ~abandoned[x]
      <3>1. ASSUME NEW y \in Execs, CleanupEffect(y) PROVE ~abandoned[x]
        BY <1>0, <2>0, <3>1 DEF CleanupEffect, SetPhase
      <3>2. ASSUME NEW y \in Execs, NEW c \in Callers, AbandonEnds(y, c) PROVE ~abandoned[x]
        BY <1>0, <2>0, <3>2 DEF AbandonEnds
      <3> QED BY <3>1, <3>2, AbandonedBy
    <2>3. Owns(x)
      BY <1>2, <2>1, <2>2 DEF SlotUntilGivenUp
    <2>4. ASSUME NEW c \in Callers, AbandonEnds(x, c) PROVE FALSE
      BY <1>0, <2>0, <2>4 DEF AbandonEnds
    <2>5. ASSUME NEW y \in Execs, RegisterJob(y), y[1] = x[1] PROVE FALSE
      <3>1. phase[y] = "admitted" /\ phase'[y] \in {"registered", "late"} /\ x \in Slotted
        BY <1>0, <1>2, <2>5 DEF RegisterJob, SetPhase, Slotted
      <3>2. x[2] < y[2] /\ y \in Slotted'
        BY <2>5, <3>1 DEF ShutdownInv, ReceivedAreNew, Slotted, Registered
      <3> QED BY <2>5, <3>2, <2>0, ExecParts DEF Superseded
    <2> QED BY <2>0, <2>3, <2>4, <2>5, SlotLost
  <1> QED BY <1>1, <1>2

\* Every step preserves LimitOfClaim.
LEMMA LimitOfClaimStep ==
    ASSUME StartInv, LimitOfClaim, [Next]_vars
    PROVE  LimitOfClaim' /\ (limit' \in {0, limit} \/ PollStart)
  <1>1. CASE StartCall \/ RegisterReturns \/ RegisterFails \/ EnterLoop \/ LeaveLoop
             \/ StartReturns \/ PollStart \/ PollEnds
    BY <1>1 DEF StartCall, RegisterReturns, RegisterFails, EnterLoop, LeaveLoop, StartReturns,
                PollStart, PollEnds, LimitOfClaim
  <1>2. CASE UNCHANGED <<limit, mainPc>>
    BY <1>2 DEF LimitOfClaim
  <1>3. CASE \/ StopIgnored \/ DeadlinePasses \/ StopWaitPoll \/ StopDrain \/ StopAbandoned
             \/ StopTeardown \/ StopDeregister \/ StopFinishes \/ LeaseExpires \/ UNCHANGED vars
             \/ \E onMain \in StopThreads : StopCall(onMain)
    BY <1>2, <1>3 DEF StopIgnored, DeadlinePasses, StopWaitPoll, StopDrain, StopAbandoned,
                      StopTeardown, StopDeregister, StopFinishes, LeaseExpires, StopCall
  <1>4. ASSUME NEW S \in SUBSET Claimable, ClaimReturns(S) \/ ClaimFails(S)
        PROVE  limit' = 0
    BY <1>4 DEF ClaimReturns, ClaimFails, Claim
  <1>5. ASSUME NEW y \in Execs,
               \/ CheckIntake(y) \/ RegisterJob(y) \/ ArmHeartbeat(y) \/ ReleaseJob(y)
               \/ ReleaseReturns(y) \/ HandlerStart(y) \/ HandlerReturn(y) \/ HandlerQuits(y) \/ Cleanup(y)
               \/ TimeoutFires(y) \/ HeartbeatStep(y) \/ StopAbandon(y)
               \/ \E c \in Callers : AckStep(y, c) \/ AbandonStep(y, c)
        PROVE  UNCHANGED <<limit, mainPc>>
    BY <1>5
       DEF CheckIntake, RegisterJob, ArmHeartbeat, ReleaseJob, ReleaseReturns, HandlerStart,
           HandlerReturn, HandlerQuits, Cleanup, TimeoutFires, HeartbeatStep, HeartbeatFires,
           HeartbeatAnswered, HeartbeatRejected, StopAbandon, AckStep, AckSend, AckArrives,
           AckAnswered, AckRejected, AbandonStep, AbandonClaim, AbandonEnds
  <1>6. ASSUME NEW y \in Execs, Submit(y)
        PROVE  UNCHANGED limit /\ (mainPc' = mainPc \/ limit = 0)
    BY <1>6 DEF Submit, StartInv, InDelivery, LimitOfClaim
  <1> QED
    BY <1>1, <1>2, <1>3, <1>4, <1>5, <1>6, WorkerSteps DEF ControlStep, LimitOfClaim

-----------------------------------------------------------------------------
(* Threads: the count *)

\* Abandoned handlers that occupy a thread, and jobs a claim has brought.
Stray == {x \in Execs : abandoned[x] /\ phase[x] # "finished" /\ ~Superseded(x)}
Came  == {x \in Execs : phase[x] \in {"received", "admitted"}}

\* What is counted, and what may be added to it.
LEMMA Counted ==
    /\ ActiveSlots \in SUBSET Jobs /\ Stray \in SUBSET Execs /\ Came \in SUBSET Execs
    /\ ThreadCapacity <=>
           Cardinality(ActiveSlots) + Cardinality(Stray) + Cardinality(Came) + limit <= Concurrency
  BY DEF ActiveSlots, Stray, Came, ThreadCapacity

\* The same in the next state.
LEMMA CountedNext ==
    /\ ActiveSlots' \in SUBSET Jobs /\ Stray' \in SUBSET Execs /\ Came' \in SUBSET Execs
    /\ ThreadCapacity' <=>
           Cardinality(ActiveSlots)' + Cardinality(Stray)' + Cardinality(Came)' + limit'
               <= Concurrency
  BY DEF ActiveSlots, Stray, Came, ThreadCapacity

\* A subset is not larger.
LEMMA Fewer ==
    /\ \A A \in SUBSET Execs : \A B \in SUBSET A : Cardinality(B) <= Cardinality(A)
    /\ \A A \in SUBSET Jobs : \A B \in SUBSET A : Cardinality(B) <= Cardinality(A)
  BY FiniteParts, FS_Subset

\* A slot is taken by RegisterJob alone.
LEMMA SlotsOnlyFreed ==
    ASSUME ShutdownInv, ShutdownInv', [Next]_vars, NEW j \in ActiveSlots', j \notin ActiveSlots
    PROVE  \E x \in Execs : RegisterJob(x) /\ x[1] = j
  <1>1. j \in Jobs /\ active'[j] # NoSlot /\ active[j] = NoSlot
    BY DEF ActiveSlots
  <1>2. active'[j] \in 1 .. MaxAttempts
    BY <1>1 DEF ShutdownInv, AckInv, TypeOK, ExecTypeOK, NoSlot
  <1>3. PICK x \in Execs : x = <<j, active'[j]>>
    BY <1>1, <1>2 DEF Execs
  <1>4. Owns(x)' /\ ~Owns(x)
    BY <1>1, <1>3 DEF Owns
  <1> QED BY <1>3, <1>4, SlotTakenByRegister

\* An execution becomes stray when it has been abandoned.
LEMMA StrayByAbandon ==
    ASSUME ShutdownInv, [Next]_vars, NEW x \in Stray', x \notin Stray
    PROVE  ~abandoned[x] /\ x \in Execs /\ \E c \in Callers : AbandonEnds(x, c)
  <1>0. abandoned \in [Execs -> BOOLEAN] /\ x \in Execs
    BY DEF ShutdownInv, AckInv, TypeOK, ExecTypeOK, Stray
  <1>1. phase[x] # "finished" /\ ~Superseded(x) /\ abandoned'[x]
    BY <1>0, FinishedForGood, TakenOnForGood DEF Stray, Superseded
  <1>2. ~abandoned[x]
    BY <1>0, <1>1 DEF Stray
  <1>3. ASSUME NEW y \in Execs, CleanupEffect(y) PROVE FALSE
    BY <1>0, <1>1, <1>2, <1>3 DEF CleanupEffect
  <1>4. ASSUME NEW y \in Execs, NEW c \in Callers, AbandonEnds(y, c) PROVE AbandonEnds(x, c)
    <2>1. x = y
      BY <1>0, <1>1, <1>2, <1>4 DEF AbandonEnds
    <2> QED BY <1>4, <2>1
  <1> QED BY <1>0, <1>1, <1>2, <1>3, <1>4, AbandonedBy

\* When a claim leaves, no earlier one has brought jobs that wait: the limit is what is
\* free, and the count of abandoned handlers is not below their number.
LEMMA CapacityAtPoll ==
    ASSUME CapacityInv, PollStart
    PROVE  ThreadCapacity'
  <1>1. UNCHANGED <<active, abandoned, phase>> /\ limit' = AvailableSlots
    BY DEF PollStart
  <1>2. ActiveSlots' = ActiveSlots /\ Stray' = Stray /\ Came' = Came
    BY <1>1 DEF ActiveSlots, Stray, Came, Superseded, Slotted, Registered
  <1>3. Came = {}
    BY DEF PollStart, CapacityInv, StartInv, Came, InDelivery
  <1>4. Cardinality(Stray) <= abandonedRunning
    <2>1. Stray \in SUBSET {x \in Execs : abandoned[x]}
      BY DEF Stray
    <2> QED BY <2>1, Fewer DEF CapacityInv, AbandonedCountExact
  <1>5. abandonedRunning \in Nat /\ Cardinality(ActiveSlots) \in Nat /\ Cardinality(Stray) \in Nat
    BY FiniteParts, Counted DEF CapacityInv, ContractInv, ShutdownInv, AckInv, TypeOK, ExecTypeOK
  <1> QED
    BY <1>1, <1>2, <1>3, <1>4, <1>5, CountedNext, FS_EmptySet, ConcurrencyAssumption
       DEF AvailableSlots

\* A claim brings no more than its limit.
LEMMA CapacityAtClaim ==
    ASSUME CapacityInv, NEW S \in SUBSET Claimable, ClaimReturns(S)
    PROVE  ThreadCapacity'
  <1>0. /\ mainPc = "claiming" /\ Cardinality(S) <= limit /\ limit' = 0
        /\ UNCHANGED <<active, abandoned>>
        /\ \A x \in Execs : phase'[x] = IF x \in NewLeases(S) THEN "received" ELSE phase[x]
    BY DEF ClaimReturns, Claim
  <1>1. Came' \subseteq NewLeases(S) /\ NewLeases(S) \in SUBSET Execs
    <2>1. \A x \in Execs : phase[x] \notin {"received", "admitted"}
      BY <1>0 DEF CapacityInv, StartInv, InDelivery
    <2>2. attempts \in [Jobs -> 0 .. MaxAttempts]
      BY DEF CapacityInv, ContractInv, ShutdownInv, AckInv, TypeOK, LeaseTypeOK
    <2> QED BY <1>0, <2>1, <2>2, AttemptsAssumption DEF Came, NewLeases, Claimable, Execs
  <1>2. Cardinality(NewLeases(S)) <= Cardinality(S)
    <2> DEFINE f == [j \in S |-> <<j, attempts[j] + 1>>]
    <2>1. f \in Surjection(S, NewLeases(S))
      BY DEF Surjection, NewLeases
    <2>2. IsFiniteSet(S)
      BY FiniteParts DEF Claimable
    <2> QED BY <2>1, <2>2, FS_Surjection
  <1>3. Cardinality(Came') <= limit
    <2>1. Cardinality(Came') <= Cardinality(NewLeases(S))
      BY <1>1, Fewer
    <2>2. S \in SUBSET Jobs
      BY DEF Claimable
    <2>3. /\ Cardinality(Came') \in Nat /\ Cardinality(NewLeases(S)) \in Nat
          /\ Cardinality(S) \in Nat /\ limit \in Nat
      BY <1>1, <2>2, FiniteParts, CountedNext
         DEF CapacityInv, ContractInv, ShutdownInv, AckInv, TypeOK, ControlTypeOK
    <2> QED BY <1>0, <1>2, <2>1, <2>3
  <1>4. ActiveSlots' = ActiveSlots /\ Stray' = Stray
    <2>1. \A x \in NewLeases(S) : phase[x] = "unclaimed"
      <3> SUFFICES ASSUME NEW x \in NewLeases(S), Leased(x) PROVE FALSE
        BY <1>1 DEF CapacityInv, ContractInv, ShutdownInv, KnownAreLeased
      <3> QED
        BY <1>1, ExecParts
           DEF NewLeases, Leased, Claimable, CapacityInv, ContractInv, ShutdownInv, AckInv,
               TypeOK, LeaseTypeOK
    <2>2. Slotted' = Slotted
      BY <1>0, <1>1, <2>1 DEF Slotted, Registered
    <2>3. \A x \in Execs : phase'[x] = "finished" <=> phase[x] = "finished"
      BY <1>0, <1>1, <2>1
    <2> QED BY <1>0, <2>2, <2>3 DEF ActiveSlots, Stray, Superseded
  <1>5. /\ Cardinality(ActiveSlots) \in Nat /\ Cardinality(Stray) \in Nat
        /\ Cardinality(Came) \in Nat /\ Cardinality(Came') \in Nat
        /\ limit \in Nat /\ Concurrency \in Nat
    BY FiniteParts, Counted, CountedNext, ConcurrencyAssumption
       DEF CapacityInv, ContractInv, ShutdownInv, AckInv, TypeOK, ControlTypeOK
  <1> QED
    BY <1>0, <1>3, <1>4, <1>5, Counted, CountedNext DEF CapacityInv

\* Any other step: a job that takes a slot was counted when it came, and who gives an
\* abandoned handler up gives back the slot of its execution.
LEMMA CapacityElsewhere ==
    ASSUME CapacityInv, ShutdownInv', [Next]_vars, limit' \in {0, limit}, Came' \subseteq Came
    PROVE  ThreadCapacity'
  <1>0. ShutdownInv /\ SlotUntilGivenUp /\ ThreadCapacity
    BY DEF CapacityInv, ContractInv
  <1>1. /\ Cardinality(ActiveSlots) \in Nat /\ Cardinality(ActiveSlots') \in Nat
        /\ Cardinality(Stray) \in Nat /\ Cardinality(Stray') \in Nat
        /\ Cardinality(Came) \in Nat /\ Cardinality(Came') \in Nat
        /\ limit \in Nat /\ Concurrency \in Nat
        /\ IsFiniteSet(ActiveSlots) /\ IsFiniteSet(Stray) /\ IsFiniteSet(Came)
    BY <1>0, FiniteParts, Counted, CountedNext, ConcurrencyAssumption
       DEF ShutdownInv, AckInv, TypeOK, ControlTypeOK
  <1>2. Cardinality(Came') <= Cardinality(Came)
    BY Fewer, Counted
  <1>3. ASSUME NEW x \in Execs, RegisterJob(x)
        PROVE  ThreadCapacity'
    <2>1. phase[x] = "admitted" /\ phase'[x] \in {"registered", "late"} /\ UNCHANGED abandoned
          /\ active' = [active EXCEPT ![x[1]] = x[2]]
      BY <1>0, <1>3 DEF RegisterJob, SetPhase, ShutdownInv, AckInv, TypeOK, ExecTypeOK
    <2>2. Stray' \in SUBSET Stray
      BY <1>0, <2>1, StrayByAbandon DEF AbandonEnds, Stray
    <2>3. ActiveSlots' \in SUBSET (ActiveSlots \cup {x[1]})
      BY <2>1 DEF ActiveSlots
    <2>4. Came' \in SUBSET (Came \ {x}) /\ x \in Came
      BY <2>1 DEF Came
    <2>5. Cardinality(ActiveSlots') <= Cardinality(ActiveSlots) + 1
      <3>1. /\ IsFiniteSet(ActiveSlots \cup {x[1]})
            /\ Cardinality(ActiveSlots \cup {x[1]}) =
                   IF x[1] \in ActiveSlots THEN Cardinality(ActiveSlots)
                                           ELSE Cardinality(ActiveSlots) + 1
        BY <1>1, FS_AddElement
      <3>2. Cardinality(ActiveSlots') <= Cardinality(ActiveSlots \cup {x[1]})
        BY <2>3, <3>1, FS_Subset
      <3> QED BY <1>1, <3>1, <3>2
    <2>6. Cardinality(Came') <= Cardinality(Came) - 1
      <3>1. IsFiniteSet(Came \ {x}) /\ Cardinality(Came \ {x}) = Cardinality(Came) - 1
        BY <1>1, <2>4, FS_RemoveElement
      <3> QED BY <2>4, <3>1, FS_Subset
    <2>7. Cardinality(Stray') <= Cardinality(Stray)
      BY <2>2, Fewer, Counted
    <2> QED BY <1>0, <1>1, <2>5, <2>6, <2>7, Counted, CountedNext
  <1>4. ASSUME NEW x \in Execs, NEW c \in Callers, AbandonEnds(x, c)
        PROVE  ThreadCapacity'
    <2>1. Stray' \in SUBSET (Stray \cup {x})
      <3>1. ASSUME NEW y \in Stray', y \notin Stray PROVE y = x
        BY <1>0, <1>4, <3>1, StrayByAbandon DEF AbandonEnds, ShutdownInv, AckInv, TypeOK, ExecTypeOK, Stray
      <3> QED BY <3>1
    <2>2. ActiveSlots' \in SUBSET ActiveSlots
      BY <1>4 DEF AbandonEnds, FreeSlot, ActiveSlots, NoSlot
    <2>3. CASE Stray' \in SUBSET Stray
      <3>1. Cardinality(Stray') <= Cardinality(Stray)
            /\ Cardinality(ActiveSlots') <= Cardinality(ActiveSlots)
        BY <2>2, <2>3, Fewer, Counted
      <3> QED BY <1>0, <1>1, <1>2, <3>1, Counted, CountedNext
    <2>4. CASE ~(Stray' \in SUBSET Stray)
      <3>1. x \in Stray' /\ x \notin Stray
        BY <2>1, <2>4
      <3>2. ~abandoned[x] /\ phase[x] # "finished" /\ ~Superseded(x)
        BY <1>0, <3>1, StrayByAbandon, FinishedForGood, TakenOnForGood DEF Stray, Superseded
      <3>3. x \in Registered
        <4>1. settled[x]
          BY <1>4 DEF AbandonEnds, CapacityInv, ContractInv, ShutdownInv, AckInv,
                      GrantedAreSettled, Granted
        <4> QED BY <4>1 DEF CapacityInv, ContractInv, SettledWereTakenOn
      <3>4. Owns(x)
        BY <1>0, <3>2, <3>3 DEF SlotUntilGivenUp
      <3>5. x[1] \in ActiveSlots /\ ActiveSlots' = ActiveSlots \ {x[1]}
        BY <1>0, <1>4, <3>4, ExecParts
           DEF AbandonEnds, FreeSlot, Owns, ActiveSlots, NoSlot, ShutdownInv, AckInv, TypeOK,
               ExecTypeOK
      <3>6. Cardinality(ActiveSlots') = Cardinality(ActiveSlots) - 1
        BY <1>1, <3>5, FS_RemoveElement
      <3>7. Cardinality(Stray') <= Cardinality(Stray) + 1
        <4>1. /\ IsFiniteSet(Stray \cup {x})
              /\ Cardinality(Stray \cup {x}) = Cardinality(Stray) + 1
          BY <1>1, <3>1, FS_AddElement
        <4> QED BY <2>1, <4>1, FS_Subset
      <3> QED BY <1>0, <1>1, <1>2, <3>6, <3>7, Counted, CountedNext
    <2> QED BY <2>3, <2>4
  <1>5. CASE /\ ~(\E x \in Execs : RegisterJob(x))
             /\ ~(\E x \in Execs : \E c \in Callers : AbandonEnds(x, c))
    <2>1. ActiveSlots' \in SUBSET ActiveSlots /\ Stray' \in SUBSET Stray
      BY <1>0, <1>5, SlotsOnlyFreed, StrayByAbandon
    <2>2. Cardinality(Stray') <= Cardinality(Stray)
          /\ Cardinality(ActiveSlots') <= Cardinality(ActiveSlots)
      BY <2>1, Fewer, Counted
    <2> QED BY <1>0, <1>1, <1>2, <2>2, Counted, CountedNext
  <1> QED BY <1>3, <1>4, <1>5

\* Every step preserves ThreadCapacity.
LEMMA ThreadCapacityStep ==
    ASSUME CapacityInv, ShutdownInv', [Next]_vars
    PROVE  ThreadCapacity'
  <1>0. ShutdownInv /\ StartInv /\ LimitOfClaim
    BY DEF CapacityInv, ContractInv
  <1>1. CASE PollStart
    BY <1>1, CapacityAtPoll
  <1>2. ASSUME NEW S \in SUBSET Claimable, ClaimReturns(S)
        PROVE  ThreadCapacity'
    BY <1>2, CapacityAtClaim
  <1>3. CASE ~PollStart /\ ~(\E S \in SUBSET Claimable : ClaimReturns(S))
    <2>1. limit' \in {0, limit}
      BY <1>0, <1>3, LimitOfClaimStep
    <2>2. Came' \subseteq Came
      BY <1>0, <1>3, ReceivedByClaim, AdmittedByCheck DEF Came
    <2> QED BY <2>1, <2>2, CapacityElsewhere
  <1> QED BY <1>1, <1>2, <1>3

\* The threads in use, the abandoned handlers that have not returned and the jobs a claim
\* has brought or may bring fit the pool at any time, although _poll reads the slots and
\* the count of abandoned handlers while timers, handlers and stop() change both.
THEOREM ThreadCapacityHolds == Spec => []ThreadCapacity
<1>1. Init => CapacityInv
  <2> SUFFICES ASSUME Init PROVE CapacityInv
    OBVIOUS
  <2>1. ContractInv /\ StartInv /\ LimitOfClaim /\ SlotUntilGivenUp
    BY InitContractInv
       DEF Init, StartInv, Started, InDelivery, LimitOfClaim, SlotUntilGivenUp, Registered
  <2>2. ActiveSlots = {} /\ Stray = {} /\ Came = {} /\ {x \in Execs : abandoned[x]} = {}
    BY DEF Init, ActiveSlots, Stray, Came, NoSlot
  <2>3. Cardinality({}) = 0 /\ limit = 0 /\ abandonedRunning = 0
    BY FS_EmptySet DEF Init
  <2>4. AbandonedCountExact
    BY <2>2, <2>3 DEF AbandonedCountExact
  <2>5. ThreadCapacity
    BY <2>2, <2>3, Counted, ConcurrencyAssumption
  <2> QED BY <2>1, <2>4, <2>5 DEF CapacityInv
<1>2. CapacityInv /\ ContractInv' /\ [Next]_vars => CapacityInv'
  <2> SUFFICES ASSUME CapacityInv, ContractInv', [Next]_vars PROVE CapacityInv'
    OBVIOUS
  <2>1. ShutdownInv /\ ShutdownInv'
    BY DEF CapacityInv, ContractInv
  <2> QED
    BY <2>1, StartInvStep, LimitOfClaimStep, SlotUntilGivenUpStep, AbandonedCountStep,
       ThreadCapacityStep
       DEF CapacityInv
<1>3. CapacityInv => ThreadCapacity
  BY DEF CapacityInv
<1> QED BY <1>1, <1>2, <1>3, ContractInvariant, PTL DEF Spec

-----------------------------------------------------------------------------
(* Slots *)

\* A lease that was reported lost stays so.
LEMMA LostForGood ==
    ASSUME ShutdownInv, [Next]_vars, NEW x \in Execs, leaseLost[x]
    PROVE  leaseLost'[x]
  <1>0. leaseLost \in [Execs -> BOOLEAN]
    BY DEF ShutdownInv, AckInv, TypeOK, ExecTypeOK
  <1>1. CASE ControlStep \/ LeaseExpires \/ UNCHANGED vars
    BY <1>1, ControlKeepsExecs DEF LeaseExpires
  <1>2. ASSUME NEW S \in SUBSET Claimable, ClaimReturns(S) \/ ClaimFails(S)
        PROVE  leaseLost'[x]
    BY <1>2 DEF ClaimReturns, ClaimFails, Claim
  <1>3. ASSUME NEW y \in Execs,
               \/ CheckIntake(y) \/ RegisterJob(y) \/ ArmHeartbeat(y) \/ Submit(y)
               \/ ReleaseJob(y) \/ ReleaseReturns(y) \/ HandlerStart(y) \/ HandlerReturn(y)
               \/ HandlerQuits(y) \/ Cleanup(y) \/ TimeoutFires(y) \/ StopAbandon(y)
               \/ \E c \in Callers : AbandonStep(y, c)
        PROVE  leaseLost'[x]
    BY <1>3
       DEF CheckIntake, RegisterJob, ArmHeartbeat, Submit, ReleaseJob, ReleaseReturns,
           HandlerStart, HandlerReturn, HandlerQuits, Cleanup, TimeoutFires, StopAbandon,
           AbandonStep, AbandonClaim, AbandonEnds
  <1>4. ASSUME NEW y \in Execs, HeartbeatStep(y) \/ \E c \in Callers : AckStep(y, c)
        PROVE  leaseLost'[x]
    BY <1>0, <1>4
       DEF HeartbeatStep, HeartbeatFires, HeartbeatAnswered, HeartbeatRejected, AckStep, AckSend,
           AckArrives, AckAnswered, AckRejected, LoseLease
  <1> QED BY <1>1, <1>2, <1>3, <1>4, WorkerSteps

\* Of an execution that is not run nobody but stop() is granted the ack.
LEMMA UnstartedAreUnsettled ==
    ASSUME ContractInv, NEW x \in Unstarted, ack[x]["stop"] \notin Granted
    PROVE  ~settled[x] /\ ~Quit(x)
  BY DEF Unstarted, ContractInv, SettledAreGranted, AskedOnce, Callers, Granted, Quit

\* The ack that stop() claims for an execution it may still fail goes all the way.
LEMMA StopGoesOn ==
    ASSUME ContractInv, [Next]_vars, NEW x \in Unstarted, Owns(x), ~leaseLost[x], Owns(x)',
           stopPc = "abandon",
           ack[x]["stop"] \in {"signalled", "claimed", "sent", "landed", "over"}
    PROVE  ack'[x]["stop"] \in {"signalled", "claimed", "sent", "landed", "over"}
  <1>0. /\ ack \in [Execs -> [Callers -> AckPcs]] /\ x \in Execs /\ ShutdownInv
        /\ phase[x] \in {"registered", "submitting", "orphaned"} /\ "stop" \in Callers
    BY DEF ContractInv, ShutdownInv, AckInv, TypeOK, ExecTypeOK, Unstarted, Callers
  <1> DEFINE Asked == ack'[x]["stop"] \in {"signalled", "claimed", "sent", "landed", "over"}
  <1>1. CASE ControlStep \/ LeaseExpires \/ UNCHANGED vars
    BY <1>1, ControlKeepsExecs DEF LeaseExpires
  <1>2. ASSUME NEW S \in SUBSET Claimable, ClaimReturns(S) \/ ClaimFails(S)
        PROVE  Asked
    BY <1>2 DEF ClaimReturns, ClaimFails, Claim
  <1>3. ASSUME NEW y \in Execs,
               \/ CheckIntake(y) \/ RegisterJob(y) \/ ArmHeartbeat(y) \/ Submit(y)
               \/ ReleaseJob(y) \/ ReleaseReturns(y) \/ HandlerStart(y) \/ HeartbeatStep(y)
        PROVE  Asked
    BY <1>3
       DEF CheckIntake, RegisterJob, ArmHeartbeat, Submit, ReleaseJob, ReleaseReturns,
           HandlerStart, HeartbeatStep, HeartbeatFires, HeartbeatAnswered, HeartbeatRejected
  <1>4. ASSUME NEW y \in Execs,
               HandlerReturn(y) \/ HandlerQuits(y) \/ Cleanup(y) \/ TimeoutFires(y)
        PROVE  Asked
    BY <1>0, <1>4
       DEF HandlerReturn, HandlerQuits, Cleanup, TimeoutFires, SetAck, Callers
  <1>5. ASSUME NEW y \in Execs, StopAbandon(y)
        PROVE  Asked
    BY <1>0, <1>5 DEF StopAbandon, SetAck
  <1>6. ASSUME NEW y \in Execs, NEW c \in Callers, AckStep(y, c)
        PROVE  Asked
    BY <1>0, <1>6 DEF AckStep, AckSend, AckArrives, AckAnswered, AckRejected, SetAck
  <1>7. ASSUME NEW y \in Execs, NEW c \in Callers, AbandonEnds(y, c)
        PROVE  Asked
    <2>1. CASE x = y
      <3>1. FreeSlot(x)
        BY <1>7, <2>1 DEF AbandonEnds
      <3> QED
        BY <1>0, <3>1, ExecParts
           DEF FreeSlot, Owns, NoSlot, ShutdownInv, AckInv, TypeOK, ExecTypeOK
    <2>2. CASE x # y
      BY <1>0, <1>7, <2>2 DEF AbandonEnds, SetAck
    <2> QED BY <2>1, <2>2
  <1>8. ASSUME NEW y \in Execs, NEW c \in Callers, AbandonClaim(y, c)
        PROVE  Asked
    <2>1. CASE x = y /\ c = "stop"
      <3>1. ~settled[x]
        BY <1>8, <2>1, UnstartedAreUnsettled DEF AbandonClaim, Granted
      <3>2. workerId
        BY <1>0 DEF ShutdownInv, KnownAreLeased, IdAndPoolWhileRunning
      <3>3. CanSettle(x)
        BY <3>1, <3>2 DEF CanSettle
      <3> QED BY <1>0, <1>8, <2>1, <3>3 DEF AbandonClaim, SetAck
    <2>2. CASE x # y \/ c # "stop"
      BY <1>0, <1>8, <2>2 DEF AbandonClaim, SetAck
    <2> QED BY <2>1, <2>2
  <1> QED
    BY <1>1, <1>2, <1>3, <1>4, <1>5, <1>6, <1>7, <1>8, WorkerSteps DEF AbandonStep

\* Every step preserves UnstartedAreFailed.
LEMMA UnstartedAreFailedStep ==
    ASSUME ContractInv, UnstartedAreFailed, [Next]_vars
    PROVE  UnstartedAreFailed'
  <1>0. /\ phase \in [Execs -> Phases] /\ ShutdownInv
        /\ ack \in [Execs -> [Callers -> AckPcs]] /\ "stop" \in Callers
    BY DEF ContractInv, ShutdownInv, AckInv, TypeOK, ExecTypeOK, Callers
  <1> DEFINE Asked(p) == p \in {"signalled", "claimed", "sent", "landed", "over"}
  <1> SUFFICES ASSUME NEW x \in Unstarted', Owns(x)', ~leaseLost'[x]
               PROVE  /\ stopPc' = "abandon" => x \in stopTodo' \/ Asked(ack'[x]["stop"])
                      /\ stopPc' \notin {"grace", "deregister", "deregistered", "done"}
    BY DEF UnstartedAreFailed
  <1>1. x \in Execs /\ ~leaseLost[x] /\ x \in Registered'
    BY <1>0, LostForGood DEF Unstarted, Registered
  <1>2. CASE x \notin Registered
    <2>1. RegisterJob(x) /\ ~intakeClosed
      BY <1>0, <1>1, <1>2, TakenOnByRegister
    <2>2. stopPc' = stopPc /\ stopPc \notin {"abandon", "grace", "deregister", "deregistered", "done"}
      BY <1>0, <2>1 DEF RegisterJob, ShutdownInv, StopProgress
    <2> QED BY <2>2
  <1>3. CASE x \in Registered
    <2>1. ~RegisterJob(x)
      BY <1>3 DEF RegisterJob, Registered
    <2>2. Owns(x)
      BY <1>0, <1>1, <2>1, SlotTakenByRegister
    <2>3. x \in Unstarted
      <3>1. phase[x] \notin {"unclaimed", "received", "admitted"}
        BY <1>3 DEF Registered
      <3>2. ~(CheckIntake(x) \/ ReleaseJob(x) \/ ReleaseReturns(x))
        BY <1>3 DEF CheckIntake, ReleaseJob, ReleaseReturns, Registered
      <3>3. ~(HandlerStart(x) \/ HandlerQuits(x) \/ Cleanup(x) \/ HandlerReturn(x))
        BY <1>0, <1>1
           DEF HandlerStart, HandlerQuits, Cleanup, CleanupEffect, HandlerReturn, SetPhase, Unstarted
      <3>4. ArmHeartbeat(x) \/ Submit(x) => x \in Unstarted
        BY <1>1, <1>3 DEF ArmHeartbeat, Submit, Unstarted, Registered
      <3>5. phase'[x] = phase[x] => x \in Unstarted
        BY DEF Unstarted
      <3> QED BY <1>0, <1>1, <2>1, <3>1, <3>2, <3>3, <3>4, <3>5, PhaseElsewhere, ClaimKeepsKnown
    <2>4. /\ stopPc = "abandon" => x \in stopTodo \/ Asked(ack[x]["stop"])
          /\ stopPc \notin {"grace", "deregister", "deregistered", "done"}
      BY <1>1, <2>2, <2>3 DEF UnstartedAreFailed
    <2>5. stopPc' \notin {"grace", "deregister", "deregistered", "done"}
      BY <1>0, <1>1, <2>4, StopAdvances DEF StopAbandoned, StopAbandoning
    <2>6. ASSUME stopPc' = "abandon" PROVE x \in stopTodo' \/ Asked(ack'[x]["stop"])
      <3>1. CASE StopDrain
        BY <1>1, <2>2, <3>1 DEF StopDrain
      <3>2. CASE stopPc = "abandon" /\ Asked(ack[x]["stop"])
        BY <1>1, <2>2, <2>3, <3>2, StopGoesOn
      <3>3. CASE stopPc = "abandon" /\ x \in stopTodo
        <4>1. ASSUME NEW y \in Execs, StopAbandon(y)
              PROVE  x \in stopTodo' \/ Asked(ack'[x]["stop"])
          BY <1>0, <1>1, <3>3, <4>1 DEF StopAbandon, SetAck
        <4> QED BY <1>0, <2>6, <3>1, <3>3, <4>1, StopAdvances
      <3> QED BY <1>0, <2>4, <2>6, <3>1, <3>2, <3>3, StopAdvances
    <2> QED BY <2>5, <2>6
  <1> QED BY <1>2, <1>3

\* A slot is not held by an execution that has been cleaned up.
LEMMA CleanedUpHoldNoSlot ==
    ASSUME ShutdownInv, NoSlotLeak, [Next]_vars, NEW x \in Execs, Owns(x)'
    PROVE  phase'[x] # "finished"
  <1> SUFFICES ASSUME phase'[x] = "finished" PROVE FALSE
    OBVIOUS
  <1>0. /\ phase \in [Execs -> Phases] /\ active \in [Jobs -> 0 .. MaxAttempts]
        /\ x[1] \in Jobs /\ x[2] # NoSlot
    BY ExecParts DEF ShutdownInv, AckInv, TypeOK, ExecTypeOK, NoSlot
  <1>1. ASSUME FreeSlot(x) PROVE FALSE
    BY <1>0, <1>1 DEF FreeSlot, Owns
  <1>2. ~RegisterJob(x)
    BY <1>0 DEF RegisterJob, SetPhase
  <1>3. Owns(x) /\ phase[x] # "finished"
    BY <1>2, SlotTakenByRegister DEF NoSlotLeak
  <1>4. ~(Submit(x) \/ Cleanup(x))
    BY <1>0, <1>1 DEF Submit, Cleanup, CleanupEffect, SetPhase
  <1>5. ~(HandlerReturn(x) \/ HandlerQuits(x))
    BY <1>0 DEF HandlerReturn, HandlerQuits, SetPhase
  <1>6. phase[x] \in {"acking", "cleanup"}
    BY <1>3, <1>4, <1>5, ReturnedBy
  <1> QED
    BY <1>3, <1>4, <1>5, <1>6, PhaseElsewhere, ClaimKeepsKnown
       DEF CheckIntake, RegisterJob, ArmHeartbeat, ReleaseJob, ReleaseReturns, HandlerStart

\* Every step preserves NoSlotLeak.
LEMMA NoSlotLeakStep ==
    ASSUME SlotInv, [Next]_vars
    PROVE  NoSlotLeak'
  <1>0. /\ ShutdownInv /\ ContractInv /\ NoSlotLeak /\ UnstartedAreFailed
        /\ phase \in [Execs -> Phases]
    BY DEF SlotInv, ContractInv, ShutdownInv, AckInv, TypeOK, ExecTypeOK
  <1> SUFFICES ASSUME NEW x \in Execs, Owns(x)', phase'[x] = "orphaned"
               PROVE  leaseLost'[x]
    BY <1>0, CleanedUpHoldNoSlot DEF NoSlotLeak
  <1>1. ~RegisterJob(x)
    BY <1>0 DEF RegisterJob, SetPhase
  <1>2. Owns(x)
    BY <1>0, <1>1, SlotTakenByRegister
  <1>3. CASE phase[x] = "orphaned"
    BY <1>0, <1>2, <1>3, LostForGood DEF NoSlotLeak
  <1>4. CASE ArmHeartbeat(x) \/ Submit(x)
    <2>1. phase[x] \in {"registered", "submitting"} /\ executor # "open"
      BY <1>0, <1>4 DEF ArmHeartbeat, Submit, CleanupEffect, SetPhase
    <2>2. stopPc \in {"deregister", "deregistered", "done"}
      BY <1>0, <2>1 DEF ShutdownInv, KnownAreLeased, IdAndPoolWhileRunning
    <2>3. leaseLost[x]
      BY <1>0, <1>2, <2>1, <2>2 DEF UnstartedAreFailed, Unstarted
    <2> QED BY <1>0, <2>3, LostForGood
  <1>5. ~(CheckIntake(x) \/ ReleaseJob(x) \/ ReleaseReturns(x) \/ HandlerStart(x)
          \/ HandlerQuits(x))
    BY <1>0
       DEF CheckIntake, ReleaseJob, ReleaseReturns, HandlerStart, HandlerQuits, SetPhase
  <1>6. ~(HandlerReturn(x) \/ Cleanup(x))
    BY <1>0 DEF HandlerReturn, Cleanup, CleanupEffect, SetPhase
  <1>7. ASSUME NEW S \in SUBSET Claimable, ClaimReturns(S) \/ ClaimFails(S)
        PROVE  phase[x] = "orphaned"
    BY <1>7 DEF ClaimReturns, ClaimFails, Claim
  <1> QED BY <1>0, <1>1, <1>3, <1>4, <1>5, <1>6, <1>7, PhaseElsewhere

\* Whatever ends an execution, its slot is free afterwards: no path through
\* _cleanup_job leaves an entry in _active_jobs, and where stop() takes the pool away
\* from _process_job, it has failed the job before, unless its lease was lost.
THEOREM NoSlotLeakHolds == Spec => []NoSlotLeak
<1>1. Init => UnstartedAreFailed /\ NoSlotLeak
  BY DEF Init, UnstartedAreFailed, Unstarted, NoSlotLeak
<1>2. ContractInv' /\ SlotInv /\ [Next]_vars => SlotInv'
  BY UnstartedAreFailedStep, NoSlotLeakStep DEF SlotInv
<1>3. SlotInv => NoSlotLeak
  BY DEF SlotInv
<1> QED BY <1>1, <1>2, <1>3, ContractInvariant, PTL DEF Spec, SlotInv
=============================================================================

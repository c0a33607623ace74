--------------------------- MODULE WorkerContract ----------------------------
(***************************************************************************)
(* What a worker promises to the queue, in four words: it answers every    *)
(* execution at most once, takes none on after it is closed, and does not  *)
(* close while an execution it took on still holds a live lease that       *)
(* nobody has answered and it has not given up.  Claims in flight when it  *)
(* closes still come in, and may only be answered.                         *)
(***************************************************************************)
EXTENDS Naturals

CONSTANT Execs       \* executions: one per lease of a job

VARIABLES
    leased,          \* executions the server ever created for this worker
    live,            \* those whose lease is live and which the worker has not given up
    takenOn,         \* those the worker decided to run
    answers,         \* per execution, how often it was answered
    open             \* the worker has not deregistered yet

contractVars == <<leased, live, takenOn, answers, open>>

Init ==
    /\ leased = {} /\ live = {} /\ takenOn = {}
    /\ answers = [x \in Execs |-> 0]
    /\ open = TRUE

Lease(S) ==
    /\ S \cap leased = {}
    /\ leased' = leased \cup S /\ live' = live \cup S
    /\ UNCHANGED <<takenOn, answers, open>>

\* The lease runs out, an answer settles it, or the worker gives the execution up.
EndLease(x) ==
    /\ live' = live \ {x}
    /\ UNCHANGED <<leased, takenOn, answers, open>>

TakeOn(S) ==
    /\ open
    /\ S \cap takenOn = {} /\ \A x \in S : answers[x] = 0
    /\ takenOn' = takenOn \cup S
    /\ UNCHANGED <<leased, live, answers, open>>

Answer(x) ==
    /\ x \in leased /\ answers[x] = 0
    /\ answers' = [answers EXCEPT ![x] = 1]
    /\ UNCHANGED <<leased, live, takenOn, open>>

Close ==
    /\ open
    /\ \A x \in takenOn \cap live : answers[x] = 1
    /\ open' = FALSE
    /\ UNCHANGED <<leased, live, takenOn, answers>>

Next ==
    \/ \E S \in SUBSET (Execs \ leased) : Lease(S)
    \/ \E S \in SUBSET leased : TakeOn(S)
    \/ \E x \in Execs : EndLease(x) \/ Answer(x)
    \/ Close

Spec == Init /\ [][Next]_contractVars
=============================================================================

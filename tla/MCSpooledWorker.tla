--------------------------- MODULE MCSpooledWorker ---------------------------
(***************************************************************************)
(* The worker for TLC: job ids are interchangeable model values.           *)
(***************************************************************************)
EXTENDS SpooledWorkerInvariants, SpooledWorkerRefinement, TLC

Symmetry == Permutations(Jobs)

\* Bound: the timeout of one of the executions fires.
OneTimeout == Cardinality({x \in Execs : timeoutTimer[x] = "fired"}) <= 1
=============================================================================

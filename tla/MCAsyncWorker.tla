---------------------------- MODULE MCAsyncWorker ----------------------------
(***************************************************************************)
(* The asynchronous worker for TLC: job ids are interchangeable.           *)
(***************************************************************************)
EXTENDS AsyncSpooledWorkerInvariants, TLC

Symmetry == Permutations(Jobs)
=============================================================================

------------------------------ MODULE MCStreams ------------------------------
(***************************************************************************)
(* The clients of the realtime streams for TLC.                            *)
(***************************************************************************)
EXTENDS RealtimeClients, TLC

CONSTANTS f1, f2, timerA, timerB, task
=============================================================================

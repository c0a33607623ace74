----------------------------- MODULE MCHttpClients -----------------------------
(***************************************************************************)
(* HttpClients for TLC: one caller whose request is safe to replay and one *)
(* whose request is not.                                                   *)
(***************************************************************************)
EXTENDS HttpClients

CONSTANTS reader, writer

MCCalls == Threads \X {"call", "refresh"}
=============================================================================

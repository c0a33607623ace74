------------------------------ MODULE MCJobCalls ------------------------------
(***************************************************************************)
(* The calls of the API, for TLC: an execution is one of JobsApi, of       *)
(* ManagementApi, of a bidirectional gRPC stream or of a gRPC job stream.  *)
(***************************************************************************)
EXTENDS JobsApi, Sequences

CONSTANTS j1, j2, u1, u2, Users, NoCall, MaxRequests

VARIABLES
    client,       \* what this execution is of
    thing,
    requests, started, ended, stream, callState, generator, user, receiving, sent, owed,
    onWire, jobStream

M == INSTANCE ManagementApi
G == INSTANCE GrpcStreams

processVars == <<requests, started, ended, stream, callState, generator, user, receiving,
                 sent, owed, onWire>>
allVars == <<client, jobsVars, thing, processVars, jobStream>>

MCInit ==
    /\ ServerInit /\ thing = "theirs" /\ G!GrpcInit
    /\ \/ client \in {"two jobs", "two leases", "process jobs", "stream jobs"} /\ JobsInit
       \/ client = "management" /\ M!ManagementInit

\* Bounds: two jobs with one lease between them, or two leases of one job.
WithinBounds ==
    \/ client = "two jobs" /\ issued' <= 1
    \/ client = "two leases" /\ status'[j2] = "absent" /\ call'.args.job = j1

MCNext ==
    /\ UNCHANGED client
    /\ \/ client \in {"two jobs", "two leases"} /\ JobsNext /\ WithinBounds
          /\ UNCHANGED <<thing, processVars, jobStream>>
       \/ client = "management" /\ M!ManagementNext
          /\ UNCHANGED <<serverVars, processVars, jobStream>>
       \/ client = "process jobs" /\ G!ProcessNext /\ UNCHANGED <<jobsVars, thing, jobStream>>
       \/ client = "stream jobs" /\ G!JobStreamNext /\ UNCHANGED <<jobsVars, thing, processVars>>

\* That of GrpcSpec: a stream at rest asks for nothing.
MCFairness ==
    /\ G!ProcessFairness
    /\ WF_jobStream(client = "stream jobs" /\ G!NextJob)
    /\ WF_jobStream(jobStream.call # "open" /\ G!NextReturns)

MCSpec == MCInit /\ [][MCNext]_allVars /\ MCFairness

-----------------------------------------------------------------------------
(* Properties of the instance, for the configurations *)

RequestsAreSent == G!RequestsAreSent
\* Whoever waits for an answer or a job of a stream that another thread ends or
\* cancels stops waiting.
ReadersAreReleased == G!ReceiveReturns /\ G!CancelStopsReader
EndSendsTheRest == G!EndSendsTheRest
=============================================================================

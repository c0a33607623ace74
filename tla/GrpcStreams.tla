----------------------------- MODULE GrpcStreams -----------------------------
(***************************************************************************)
(* The streams of spooled/grpc/client.py.  ProcessJobsStream: threads of   *)
(* the application send requests through a queue and receive the answers,  *)
(* a thread of the gRPC library drains the queue by request_generator, one *)
(* for each call that was opened.  _ensure_started takes no lock, so that  *)
(* two threads may each open one.  JobStream: one thread iterates the jobs *)
(* the server streams, any thread cancels.                                 *)
(*                                                                         *)
(* A call is named by the thread that opened it; requests are numbered.    *)
(***************************************************************************)
EXTENDS Naturals, Sequences

CONSTANTS
    Users,         \* threads of the application
    NoCall,        \* self._stream before a call is opened
    MaxRequests    \* bound: requests sent over the stream

VARIABLES
    requests,      \* self._request_queue; None is its end signal
    started,       \* self._started
    ended,         \* self._ended
    stream,        \* self._stream
    callState,     \* per call: "none", "open", "finished", "failed" or "cancelled"
    generator,     \* per call: "waiting", "timed out" or "over"
    user,          \* per thread: where it is
    receiving,     \* per thread: the call whose answers it iterates
    sent,          \* history: requests put into the queue
    owed,          \* history: requests put before anybody ended the stream
    onWire,        \* history: requests sent to the server
    jobStream      \* a JobStream: [cancelled, call, reader]

processVars == <<requests, started, ended, stream, callState, generator, user, receiving,
                 sent, owed, onWire>>
grpcVars == <<processVars, jobStream>>

None == 0

GrpcTypeOK ==
    /\ requests \in Seq(0 .. MaxRequests)
    /\ started \in BOOLEAN /\ ended \in BOOLEAN
    /\ stream \in Users \cup {NoCall}
    /\ callState \in [Users -> {"none", "open", "finished", "failed", "cancelled"}]
    /\ generator \in [Users -> {"waiting", "timed out", "over"}]
    /\ user \in [Users -> {"idle", "opening", "opened", "ready", "ending", "cancelling",
                           "cancelled"}]
    /\ receiving \in [Users -> Users \cup {NoCall}]
    /\ sent \in 0 .. MaxRequests /\ owed \in 0 .. sent /\ onWire \subseteq 1 .. sent
    /\ jobStream \in [cancelled : BOOLEAN, call : {"open", "ended", "failed", "cancelled"},
                      reader : {"idle", "waiting", "stopped", "raised"}]

GrpcInit ==
    /\ requests = <<>> /\ started = FALSE /\ ended = FALSE /\ stream = NoCall
    /\ callState = [u \in Users |-> "none"] /\ generator = [u \in Users |-> "waiting"]
    /\ user = [u \in Users |-> "idle"] /\ receiving = [u \in Users |-> NoCall]
    /\ sent = 0 /\ owed = 0 /\ onWire = {}
    /\ jobStream = [cancelled |-> FALSE, call |-> "open", reader |-> "idle"]

UserGoes(u, place) == user' = [user EXCEPT ![u] = place]
CallBecomes(c, state) == callState' = [callState EXCEPT ![c] = state]
GeneratorBecomes(c, state) == generator' = [generator EXCEPT ![c] = state]

-----------------------------------------------------------------------------
(* The application *)

Receiving(u) == receiving[u] # NoCall

\* _ensure_started, of send and of receive
EnsureStarted(u) ==
    /\ user[u] = "idle" /\ ~Receiving(u)
    /\ UserGoes(u, IF started THEN "ready" ELSE "opening")
    /\ UNCHANGED <<requests, started, ended, stream, callState, generator, receiving,
                   sent, owed, onWire>>

\* A thread opens at most one call: started is set by the time it looks again.
OpenCall(u) ==
    /\ user[u] = "opening"
    /\ CallBecomes(u, "open") /\ stream' = u
    /\ UserGoes(u, "opened")
    /\ UNCHANGED <<requests, started, ended, generator, receiving, sent, owed, onWire>>

MarkStarted(u) ==
    /\ user[u] = "opened"
    /\ started' = TRUE
    /\ UserGoes(u, "ready")
    /\ UNCHANGED <<requests, ended, stream, callState, generator, receiving, sent, owed, onWire>>

\* Also from the body of the loop over the answers, where the call is open.
Send(u) ==
    /\ user[u] = "ready" \/ (user[u] = "idle" /\ Receiving(u))
    /\ sent < MaxRequests
    /\ sent' = sent + 1
    /\ requests' = Append(requests, sent + 1)
    /\ owed' = IF ended THEN owed ELSE sent + 1
    /\ UserGoes(u, "idle")
    /\ UNCHANGED <<started, ended, stream, callState, generator, receiving, onWire>>

Receive(u) ==
    /\ user[u] = "ready"
    /\ receiving' = [receiving EXCEPT ![u] = stream]
    /\ UserGoes(u, "idle")
    /\ UNCHANGED <<requests, started, ended, stream, callState, generator, sent, owed, onWire>>

\* Returns, or raises what the call ended with.
ReceiveEnds(u) ==
    /\ user[u] \in {"idle", "cancelled"} /\ Receiving(u)
    /\ callState[receiving[u]] # "open"
    /\ receiving' = [receiving EXCEPT ![u] = NoCall]
    /\ UNCHANGED <<requests, started, ended, stream, callState, generator, user, sent, owed,
                   onWire>>

\* end and cancel set the flag first.
SetEnded(u) ==
    /\ user[u] = "idle"
    /\ (~ended /\ UserGoes(u, "ending")) \/ UserGoes(u, "cancelling")
    /\ ended' = TRUE
    /\ UNCHANGED <<requests, started, stream, callState, generator, receiving, sent, owed,
                   onWire>>

End(u) ==
    /\ user[u] = "ending"
    /\ requests' = Append(requests, None)
    /\ UserGoes(u, "idle")
    /\ UNCHANGED <<started, ended, stream, callState, generator, receiving, sent, owed, onWire>>

\* The thread is done with the stream: it only leaves the loop it may be in.
Cancel(u) ==
    /\ user[u] = "cancelling"
    /\ requests' = Append(requests, None)
    /\ callState' = [c \in Users |->
                        IF c = stream /\ callState[c] = "open" THEN "cancelled" ELSE callState[c]]
    /\ UserGoes(u, "cancelled")
    /\ UNCHANGED <<started, ended, stream, generator, receiving, sent, owed, onWire>>

-----------------------------------------------------------------------------
(* request_generator, on a thread of the library *)

Consumes(c) == callState[c] = "open"

GeneratorTakes(c) ==
    /\ Consumes(c) /\ generator[c] = "waiting" /\ requests # <<>>
    /\ requests' = Tail(requests)
    /\ IF Head(requests) = None
       THEN GeneratorBecomes(c, "over") /\ UNCHANGED onWire
       ELSE onWire' = onWire \cup {Head(requests)} /\ UNCHANGED generator
    /\ UNCHANGED <<started, ended, stream, callState, user, receiving, sent, owed>>

\* queue.Empty
GeneratorTimesOut(c) ==
    /\ Consumes(c) /\ generator[c] = "waiting" /\ requests = <<>>
    /\ GeneratorBecomes(c, "timed out")
    /\ UNCHANGED <<requests, started, ended, stream, callState, user, receiving, sent, owed,
                   onWire>>

\* Slip: only the end signal ends the generator.
LooksAgainAlways(c) ==
    /\ Consumes(c) /\ generator[c] = "timed out"
    /\ GeneratorBecomes(c, "waiting")
    /\ UNCHANGED <<requests, started, ended, stream, callState, user, receiving, sent, owed,
                   onWire>>

\* Slip: a second without a request ends the generator.
LooksOnce(c) ==
    /\ Consumes(c) /\ generator[c] = "timed out"
    /\ GeneratorBecomes(c, "over")
    /\ UNCHANGED <<requests, started, ended, stream, callState, user, receiving, sent, owed,
                   onWire>>

LooksAgain(c) ==
    /\ Consumes(c) /\ generator[c] = "timed out"
    /\ GeneratorBecomes(c, IF ended THEN "over" ELSE "waiting")
    /\ UNCHANGED <<requests, started, ended, stream, callState, user, receiving, sent, owed,
                   onWire>>

\* The server answers what it was sent and closes its side after the client's.
ServerFinishes(c) ==
    /\ Consumes(c) /\ generator[c] = "over"
    /\ CallBecomes(c, "finished")
    /\ UNCHANGED <<requests, started, ended, stream, generator, user, receiving, sent, owed,
                   onWire>>

CallFails(c) ==
    /\ Consumes(c)
    /\ CallBecomes(c, "failed")
    /\ UNCHANGED <<requests, started, ended, stream, generator, user, receiving, sent, owed,
                   onWire>>

GeneratorStep(c) == GeneratorTakes(c) \/ GeneratorTimesOut(c) \/ LooksAgain(c)

\* A thread inside a call of the SDK.
UserStep(u) ==
    OpenCall(u) \/ MarkStarted(u) \/ ReceiveEnds(u) \/ End(u) \/ Cancel(u)

ProcessNext ==
    \E u \in Users :
        \/ EnsureStarted(u) \/ Send(u) \/ Receive(u) \/ SetEnded(u)
        \/ UserStep(u) \/ GeneratorStep(u) \/ ServerFinishes(u) \/ CallFails(u)

-----------------------------------------------------------------------------
(* JobStream *)

\* __next__ of a stream that is not cancelled waits in the call.
NextJob ==
    /\ jobStream.reader = "idle"
    /\ jobStream' = [jobStream EXCEPT !.reader = IF jobStream.cancelled THEN "stopped" ELSE "waiting"]

CallEnds ==
    /\ jobStream.call = "open"
    /\ \E how \in {"ended", "failed"} : jobStream' = [jobStream EXCEPT !.call = how]

\* A job, the end of the call (on_end) or its error (on_error), which a call
\* that was cancelled raises as well.
NextReturns ==
    /\ jobStream.reader = "waiting"
    /\ \/ jobStream.call = "open" /\ jobStream' = [jobStream EXCEPT !.reader = "idle"]
       \/ jobStream.call = "ended" /\ jobStream' = [jobStream EXCEPT !.reader = "stopped"]
       \/ /\ jobStream.call \in {"failed", "cancelled"}
          /\ jobStream' = [jobStream EXCEPT !.reader = "raised"]

CancelJobs ==
    /\ ~jobStream.cancelled
    /\ jobStream' = [jobStream EXCEPT
                        !.cancelled = TRUE,
                        !.call = IF @ = "open" THEN "cancelled" ELSE @]

JobStreamNext == NextJob \/ CallEnds \/ NextReturns \/ CancelJobs

-----------------------------------------------------------------------------

GrpcNext ==
    \/ ProcessNext /\ UNCHANGED jobStream
    \/ JobStreamNext /\ UNCHANGED processVars

\* Threads finish what they began and the library's threads run; a server
\* closes a call the client has closed.  It may send no job for good, and the
\* application need not call anything, except that a reader reads on.
ProcessFairness ==
    \A c \in Users :
        /\ WF_processVars(UserStep(c))
        /\ WF_processVars(GeneratorStep(c)) /\ WF_processVars(ServerFinishes(c))

ReaderFairness == WF_jobStream(NextJob) /\ WF_jobStream(jobStream.call # "open" /\ NextReturns)

GrpcSpec == GrpcInit /\ [][GrpcNext]_grpcVars /\ ProcessFairness /\ ReaderFairness

-----------------------------------------------------------------------------
(* Properties *)

Broken(c) == callState[c] \in {"failed", "cancelled"}

\* What was put into the queue of a stream that nobody ends is sent, however long
\* the pause since the last request, while a call is left to carry it.
RequestsAreSent ==
    \A r \in 1 .. MaxRequests :
        r <= sent ~> r \in onWire \/ ended \/ \E c \in Users : Broken(c)

\* After end() or cancel() no receive() waits for good: also if two threads opened
\* a call each, with one end signal and one cancellation for both.
ReceiveReturns == \A u \in Users : ended /\ Receiving(u) ~> ~Receiving(u)

\* A reader that waits for a job stops when another thread cancels the stream.
CancelStopsReader == jobStream.cancelled ~> jobStream.reader \in {"stopped", "raised"}

\* "Send a request to the server": what was sent before end() "signals that no
\* more requests will be sent" reaches the server before its stream is closed.
EndSendsTheRest ==
    (\A c \in Users : callState[c] \in {"none", "finished"}) /\ stream # NoCall
        => 1 .. owed \subseteq onWire
=============================================================================

------------------------------ MODULE SSEClient ------------------------------
(***************************************************************************)
(* The synchronous SSEClient, spooled/realtime/sse.py: a consumer thread   *)
(* iterates over events(), which reconnects by itself, and another thread  *)
(* of the application connects and closes.  They share the attributes of   *)
(* the client without a lock.                                              *)
(*                                                                         *)
(* The attributes are one record, which the methods without a wait in      *)
(* them transform; a wait (the dial, the backoff) is between two steps.    *)
(***************************************************************************)
EXTENDS Naturals

CONSTANTS
    MaxReconnects,   \* max_reconnect_attempts; auto_reconnect = False is a budget of 0
    MaxSSECalls      \* bound: calls of each thread

VARIABLES
    sse,    \* the attributes, the history of the stream and the bound
    ssePc   \* per thread: where it is

SSEThreads == {"consumer", "user"}

SSEStates == {"disconnected", "connecting", "connected", "reconnecting"}
ConsumerPcs == {"idle", "dial", "answered", "loop", "reading", "cut", "again", "backoff",
                "sleeping", "over"}
UserPcs == {"idle", "dial", "answered", "closing"}

SSEClients ==
    [state : SSEStates,
     attempts : 0 .. MaxReconnects,
     closed : BOOLEAN, finished : BOOLEAN,
     holds : SUBSET {"client", "response", "parser"},  \* attributes that are not None
     jobStream : BOOLEAN,                    \* job_id is set
     redialing : BOOLEAN,                    \* the consumer is in _reconnect
     redials : Nat,                          \* history: dials of _reconnect since an event
     refused : BOOLEAN,                      \* history: the server rejected the consumer
     calls : [SSEThreads -> 0 .. MaxSSECalls]]

SSETypeOK ==
    /\ sse \in SSEClients
    /\ ssePc \in [SSEThreads -> ConsumerPcs \cup UserPcs]
    /\ ssePc["consumer"] \in ConsumerPcs /\ ssePc["user"] \in UserPcs

SSEInit ==
    /\ \E job \in BOOLEAN :
          sse = [state |-> "disconnected", attempts |-> 0, closed |-> FALSE,
                 finished |-> FALSE, holds |-> {}, jobStream |-> job, redialing |-> FALSE,
                 redials |-> 0, refused |-> FALSE, calls |-> [t \in SSEThreads |-> 0]]
    /\ ssePc = [t \in SSEThreads |-> "idle"]

-----------------------------------------------------------------------------
(* What the methods do to the attributes between two waits *)

\* _open up to the dial.
Dialing(s) == [s EXCEPT !.state = "connecting", !.holds = @ \cup {"client"}]

\* connect: a fresh retry budget.
Connecting(s) == Dialing([s EXCEPT !.attempts = 0, !.finished = FALSE, !.redials = 0])

\* _open once the response is a success.
Opened(s) ==
    [s EXCEPT !.holds = @ \cup {"parser"}, !.state = "connected", !.closed = FALSE]

\* _teardown, with the state that follows it.
TornDown(s) == [s EXCEPT !.holds = {}, !.state = "disconnected"]

\* _reopen; the history counts the dial.
Redialing(s) ==
    [Dialing(TornDown(s)) EXCEPT !.redialing = TRUE, !.redials = @ + 1]

MayReconnect(s) == ~s.closed /\ s.attempts < MaxReconnects

\* After an open that failed, _reconnect tries once more; connect() raises.
WorthRetrying(s, retryable) == s.redialing /\ retryable

Delivered(s, terminal) ==
    [s EXCEPT !.attempts = 0, !.redials = 0, !.finished = @ \/ (s.jobStream /\ terminal)]

Called(s, t) == [s EXCEPT !.calls[t] = @ + 1]

-----------------------------------------------------------------------------

SSEGoto(t, p) == ssePc' = [ssePc EXCEPT ![t] = p]

MayCall(t) == sse.calls[t] < MaxSSECalls

\* events(), for the first time or after it ended.
ConsumerStarts ==
    /\ MayCall("consumer") /\ ssePc["consumer"] \in {"idle", "over"}
    /\ LET s == [Called(sse, "consumer") EXCEPT !.redialing = FALSE, !.refused = FALSE]
       IN  IF "parser" \in sse.holds \/ sse.state = "connected"
           THEN sse' = s /\ SSEGoto("consumer", "loop")
           ELSE sse' = Connecting(s) /\ SSEGoto("consumer", "dial")

UserConnects ==
    /\ MayCall("user") /\ ssePc["user"] = "idle"
    /\ sse.state # "connected"
    /\ sse' = Connecting(Called(sse, "user"))
    /\ SSEGoto("user", "dial")

ServerAnswers(t) ==
    /\ ssePc[t] = "dial"
    /\ sse' = [sse EXCEPT !.holds = @ \cup {"response"}]
    /\ SSEGoto(t, "answered")

\* The other thread may have torn the response down meanwhile.
OpenEnds(t) ==
    /\ ssePc[t] = "answered" /\ "response" \in sse.holds
    /\ sse' = Opened(sse)
    /\ SSEGoto(t, IF t = "user" THEN "idle" ELSE "loop")

\* What reads the response that is torn down fails.
Cut(pcs) == IF pcs["consumer"] = "reading" THEN [pcs EXCEPT !["consumer"] = "cut"] ELSE pcs

\* The dial fails, the server refuses, or an attribute is None by now.
OpenFails(t) ==
    /\ ssePc[t] \in {"dial", "answered"}
    /\ \E retryable \in BOOLEAN :
          /\ "response" \in sse.holds \/ ssePc[t] = "dial" \/ retryable
          /\ sse' = [TornDown(sse) EXCEPT !.refused = @ \/ (t = "consumer" /\ ~retryable)]
          /\ ssePc' = [Cut(ssePc) EXCEPT ![t] =
                IF t = "user" THEN "idle"
                ELSE IF WorthRetrying(sse, retryable) THEN "again" ELSE "over"]

-----------------------------------------------------------------------------
(* events() *)

\* The head of the loop; without a parser, events() of None raises.
EnterLoop ==
    /\ ssePc["consumer"] = "loop"
    /\ SSEGoto("consumer", IF sse.closed THEN "over"
                           ELSE IF "parser" \in sse.holds THEN "reading" ELSE "again")
    /\ UNCHANGED sse

\* A stream that was cut may have an event in its buffer.
EventArrives ==
    /\ ssePc["consumer"] \in {"reading", "cut"}
    /\ IF sse.closed
       THEN SSEGoto("consumer", "over") /\ UNCHANGED sse
       ELSE \E terminal \in BOOLEAN : sse' = Delivered(sse, terminal) /\ UNCHANGED ssePc

\* The server ends the stream: on purpose after a terminal event, or not.
StreamEnds ==
    /\ ssePc["consumer"] = "reading"
    /\ IF sse.finished
       THEN /\ sse' = [TornDown(sse) EXCEPT !.closed = TRUE]
            /\ SSEGoto("consumer", "over")
       ELSE SSEGoto("consumer", IF sse.closed THEN "over" ELSE "again") /\ UNCHANGED sse

StreamBreaks ==
    /\ ssePc["consumer"] \in {"reading", "cut"}
    /\ SSEGoto("consumer", IF sse.closed THEN "over" ELSE "again")
    /\ UNCHANGED sse

\* The head of the loop in _reconnect.
SpendAttempt ==
    /\ ssePc["consumer"] = "again"
    /\ IF MayReconnect(sse)
       THEN sse' = [sse EXCEPT !.attempts = @ + 1] /\ SSEGoto("consumer", "backoff")
       ELSE UNCHANGED sse /\ SSEGoto("consumer", "over")

BackOff ==
    /\ ssePc["consumer"] = "backoff"
    /\ sse' = [sse EXCEPT !.state = "reconnecting"]
    /\ SSEGoto("consumer", "sleeping")

WakeUp ==
    /\ ssePc["consumer"] = "sleeping"
    /\ IF sse.closed
       THEN SSEGoto("consumer", "over") /\ UNCHANGED sse
       ELSE SSEGoto("consumer", "dial") /\ sse' = Redialing(sse)

-----------------------------------------------------------------------------
(* close() *)

UserCloses ==
    /\ MayCall("user") /\ ssePc["user"] = "idle"
    /\ sse' = [Called(sse, "user") EXCEPT !.closed = TRUE]
    /\ SSEGoto("user", "closing")

\* Slip: close() leaves the response open.
CloseWithoutTeardown ==
    /\ ssePc["user"] = "closing"
    /\ sse' = [sse EXCEPT !.state = "disconnected"]
    /\ SSEGoto("user", "idle")

CloseEnds ==
    /\ ssePc["user"] = "closing"
    /\ sse' = TornDown(sse)
    /\ ssePc' = [Cut(ssePc) EXCEPT !["user"] = "idle"]

-----------------------------------------------------------------------------

OpenStep(t) == ServerAnswers(t) \/ OpenEnds(t) \/ OpenFails(t)

ConsumerStep ==
    OpenStep("consumer") \/ EnterLoop \/ SpendAttempt \/ BackOff \/ WakeUp

StreamStep == EventArrives \/ StreamEnds \/ StreamBreaks

UserStep == OpenStep("user") \/ CloseEnds

SSENext ==
    ConsumerStarts \/ UserConnects \/ UserCloses \/ ConsumerStep \/ StreamStep \/ UserStep

sseVars == <<sse, ssePc>>

\* What the threads do by themselves: dials end, the backoff ends, and reading a
\* response that was torn down fails.  A stream that is open may stay silent.
Reads == ssePc["consumer"] = "cut" /\ StreamBreaks

SSEFairness ==
    /\ WF_sseVars(ConsumerStep) /\ WF_sseVars(UserStep) /\ WF_sseVars(Reads)

SSESpec == SSEInit /\ [][SSENext]_sseVars

-----------------------------------------------------------------------------
(* Properties *)

\* A consumer on its own redials max_reconnect_attempts times at most for every
\* event that arrives, however often streams open and deliver nothing, and not at
\* all once the server has rejected its token or its subscription (_reconnect).
RedialsAreEarned ==
    /\ sse.calls["user"] = 0 => sse.redials <= MaxReconnects
    /\ sse.refused => ssePc["consumer"] = "over"

\* close() ends the iteration of the other thread, wherever it is: dialing, backing
\* off or reading a silent stream.  An open under way may undo the close first.
CloseEndsIteration ==
    sse.closed ~> ssePc["consumer"] \in {"idle", "over"} \/ ~sse.closed
=============================================================================

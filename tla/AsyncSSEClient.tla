---------------------------- MODULE AsyncSSEClient ----------------------------
(***************************************************************************)
(* The AsyncSSEClient, spooled/realtime/sse.py: the consumer and the user  *)
(* are tasks of one event loop, and another task runs at an await only.    *)
(* What the methods do to the attributes is what they do in SSEClient; the *)
(* response takes the place of the parser, and closing it is an await,     *)
(* after which _teardown forgets whatever the attributes hold by then.     *)
(* (The _teardown of an open that failed is one step with the failure.)    *)
(***************************************************************************)
EXTENDS Naturals

CONSTANTS MaxReconnects, MaxSSECalls

VARIABLES asse, assePc

S == INSTANCE SSEClient WITH sse <- asse, ssePc <- assePc

asseVars == <<asse, assePc>>

AsyncSSEInit == S!SSEInit

Goto(t, p) == assePc' = [assePc EXCEPT ![t] = p]

\* connect() and the start of events(): nothing is awaited before the dial.
ConsumerStarts == S!ConsumerStarts

UserConnects == S!UserConnects

\* The answer to the dial and what _open does with a success.
OpenEnds(t) ==
    /\ assePc[t] = "dial"
    /\ asse' = [S!Opened(asse) EXCEPT !.holds = @ \cup {"response"}]
    /\ Goto(t, IF t = "user" THEN "idle" ELSE "loop")

\* What the consumer does about a loss, up to the next await: _reconnect spends
\* an attempt and backs off, or events() ends.
Lost(s, pcs) ==
    IF S!MayReconnect(s)
    THEN /\ asse' = [s EXCEPT !.attempts = @ + 1, !.state = "reconnecting"]
         /\ assePc' = [pcs EXCEPT !["consumer"] = "sleeping"]
    ELSE asse' = s /\ assePc' = [pcs EXCEPT !["consumer"] = "over"]

OpenFails(t) ==
    /\ assePc[t] = "dial"
    /\ \E retryable \in BOOLEAN :
          LET s == [S!TornDown(asse) EXCEPT !.refused = @ \/ (t = "consumer" /\ ~retryable)]
          IN  IF t = "consumer" /\ S!WorthRetrying(asse, retryable)
              THEN Lost(s, assePc)
              ELSE /\ asse' = s
                   /\ assePc' = [S!Cut(assePc) EXCEPT ![t] =
                                    IF t = "user" THEN "idle" ELSE "over"]

\* The head of the loop: the assertion on the response fails like the stream does.
EnterLoop ==
    /\ assePc["consumer"] = "loop"
    /\ IF ~asse.closed /\ "parser" \in asse.holds
       THEN UNCHANGED asse /\ Goto("consumer", "reading")
       ELSE Lost(asse, assePc)

EventArrives == S!EventArrives

StreamEnds ==
    /\ assePc["consumer"] = "reading"
    /\ IF asse.finished
       THEN asse' = [asse EXCEPT !.closed = TRUE] /\ Goto("consumer", "closing")
       ELSE Lost(asse, assePc)

StreamBreaks == assePc["consumer"] \in {"reading", "cut"} /\ Lost(asse, assePc)

\* _reopen awaits its _teardown before the dial.
WakeUp ==
    /\ assePc["consumer"] = "sleeping"
    /\ Goto("consumer", IF asse.closed THEN "over" ELSE "reopening")
    /\ UNCHANGED asse

Reopen ==
    /\ assePc["consumer"] = "reopening"
    /\ asse' = S!Redialing(asse)
    /\ Goto("consumer", "dial")

\* close() of either task up to its await: the response it finds is closed.
UserCloses ==
    /\ S!MayCall("user") /\ assePc["user"] = "idle"
    /\ asse' = [S!Called(asse, "user") EXCEPT !.closed = TRUE]
    /\ assePc' = [S!Cut(assePc) EXCEPT !["user"] = "closing"]

CloseEnds(t) ==
    /\ assePc[t] = "closing"
    /\ asse' = S!TornDown(asse)
    /\ assePc' = [S!Cut(assePc) EXCEPT ![t] = IF t = "user" THEN "idle" ELSE "over"]

OpenStep(t) == OpenEnds(t) \/ OpenFails(t)

ConsumerStep ==
    OpenStep("consumer") \/ EnterLoop \/ WakeUp \/ Reopen \/ CloseEnds("consumer")

StreamStep == EventArrives \/ StreamEnds \/ StreamBreaks

UserStep == OpenStep("user") \/ CloseEnds("user")

AsyncSSENext ==
    ConsumerStarts \/ UserConnects \/ UserCloses \/ ConsumerStep \/ StreamStep \/ UserStep

Reads == assePc["consumer"] = "cut" /\ StreamBreaks

AsyncSSEFairness ==
    /\ WF_asseVars(ConsumerStep) /\ WF_asseVars(UserStep) /\ WF_asseVars(Reads)

-----------------------------------------------------------------------------
(* Properties *)

\* RedialsAreEarned of SSEClient, across the awaits.
AsyncRedialsAreEarned == S!RedialsAreEarned

\* CloseEndsIteration of SSEClient: a close() that awaits still ends events().
AsyncCloseEndsIteration == S!CloseEndsIteration
=============================================================================

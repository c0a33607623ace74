--------------------------- MODULE SpooledRealtime ---------------------------
(***************************************************************************)
(* SpooledRealtime over SSE, spooled/realtime/unified.py: the thread of    *)
(* the user, a thread that receives from each stream, a timer thread for   *)
(* each reconnect.  They share the attributes of the client, without a     *)
(* lock.  (Over a WebSocket the same methods do what WebSocketClient does.) *)
(*                                                                         *)
(* Streams, timers and receive threads are slots: one that is over is used *)
(* again, so that no number of reconnects bounds a behaviour.              *)
(***************************************************************************)
EXTENDS Naturals, Sequences, SequencesExt

CONSTANTS
    Filters,       \* subscription filters
    JobFilters,    \* those that name a job
    NoFilter,      \* the stream of all events
    MaxRetries,    \* options.max_reconnect_attempts
    HasSSE,        \* HAS_SSE: sseclient is installed
    Slots,         \* bound: streams, timers and receive threads at a time
    MaxRTCalls     \* bound: calls of the user

VARIABLES
    rt,       \* the attributes of the client
    feeds,    \* per stream: its state and its filter
    rtPc,     \* per thread: where it is
    rtArg,    \* per thread: the filter it dials for, the stream it opened or reads
    rtCalls   \* per method: calls so far

rtVars == <<rt, feeds, rtPc, rtArg, rtCalls>>

RTMethods == {"connect", "disconnect", "subscribe", "unsubscribe"}

Caller == <<"caller", 0>>
Timer(n) == <<"timer", n>>
Receiver(n) == <<"receiver", n>>
Timers == {Timer(n) : n \in Slots}
Receivers == {Receiver(n) : n \in Slots}
Dialers == {Caller} \cup Timers
RTThreads == Dialers \cup Receivers

NoStream == 0
NoTimer == <<>>

RTTypeOK ==
    /\ rt \in [state : {"disconnected", "connecting", "connected", "reconnecting"},
               attempts : 0 .. MaxRetries,
               timer : Timers \cup {NoTimer},          \* _reconnect_timer
               stop : BOOLEAN,                         \* _stop_event
               subs : Seq(Filters),                    \* _subscriptions, oldest first
               stream : Slots \cup {NoStream},         \* _sse_response
               client : Slots \cup {NoStream},         \* _sse_client, by its response
               jobStream : BOOLEAN,                    \* _sse_job_stream
               error : BOOLEAN,                        \* last_error is set
               deaf : BOOLEAN,                         \* history: CONNECTED without _sse_client
               redials : 0 .. MaxRetries + 1]          \* history: timers since an event
    /\ feeds \in [Slots -> [state : {"free", "open", "ended", "closed"},
                            filter : Filters \cup {NoFilter}]]
    /\ rtPc \in [RTThreads -> {"none", "dial", "opened", "made", "connected", "failed",
                               "rejected", "armed", "starting", "begins", "reading",
                               "terminal", "lost", "budget", "schedule", "cancelled",
                               "stopped", "closed"}]
    /\ rtArg \in [RTThreads -> Filters \cup {NoFilter} \cup Slots \cup {NoStream}]
    /\ rtCalls \in [RTMethods -> 0 .. MaxRTCalls]

RTInit ==
    /\ rt = [state |-> "disconnected", attempts |-> 0, timer |-> NoTimer, stop |-> FALSE,
             subs |-> <<>>, stream |-> NoStream, client |-> NoStream, jobStream |-> FALSE,
             error |-> FALSE, deaf |-> FALSE, redials |-> 0]
    /\ feeds = [s \in Slots |-> [state |-> "free", filter |-> NoFilter]]
    /\ rtPc = [x \in RTThreads |-> "none"]
    /\ rtArg = [x \in RTThreads |-> NoStream]
    /\ rtCalls = [m \in RTMethods |-> 0]

Goto(x, p) == rtPc' = [rtPc EXCEPT ![x] = p]

Call(m) ==
    /\ rtPc[Caller] = "none" /\ FoldSet(LAMBDA k, n : rtCalls[k] + n, 0, RTMethods) < MaxRTCalls
    /\ rtCalls' = [rtCalls EXCEPT ![m] = @ + 1]

-----------------------------------------------------------------------------
(* connect(), of the user and of do_reconnect *)

\* _build_sse_url: the filter given, or the oldest subscription.
Target(f) == IF f = NoFilter /\ rt.subs # <<>> THEN Head(rt.subs) ELSE f

Connect(x, f) ==
    IF rt.state \in {"connected", "connecting"}
    THEN Goto(x, "none") /\ UNCHANGED <<rt, rtArg>>
    ELSE /\ rt' = [rt EXCEPT !.state = "connecting"]
         /\ Goto(x, "dial")
         /\ rtArg' = [rtArg EXCEPT ![x] = Target(f)]

\* A slot that nobody refers to any more.
Free(s) ==
    /\ feeds[s].state # "open" /\ rt.stream # s /\ rt.client # s
    /\ \A x \in RTThreads : rtArg[x] # s

DialSucceeds(x) ==
    /\ rtPc[x] = "dial"
    /\ \E s \in Slots :
          /\ Free(s) /\ \A u \in Slots : Free(u) => s <= u
          /\ feeds' = [feeds EXCEPT ![s] = [state |-> "open", filter |-> rtArg[x]]]
          /\ rt' = [rt EXCEPT !.stream = s]
          /\ rtArg' = [rtArg EXCEPT ![x] = s]
    /\ Goto(x, "opened")
    /\ UNCHANGED rtCalls

\* The answer is looked at, and a client made to iterate over it; without an answer,
\* which another thread may have closed and cleared meanwhile, that raises.
CreateClient(x) ==
    /\ rtPc[x] = "opened"
    /\ IF rt.stream = NoStream
       THEN Goto(x, "failed") /\ UNCHANGED rt
       ELSE /\ rt' = [rt EXCEPT !.client = IF HasSSE THEN rt.stream ELSE @]
            /\ Goto(x, "made")
    /\ UNCHANGED <<feeds, rtArg, rtCalls>>

\* Slip: a stream that opens restores the retry budget.
SetConnectedRestoring(x) ==
    /\ rtPc[x] = "made"
    /\ rt' = [rt EXCEPT !.state = "connected", !.attempts = 0, !.deaf = rt.client = NoStream,
                        !.jobStream = feeds[rtArg[x]].filter \in JobFilters]
    /\ Goto(x, "connected")
    /\ UNCHANGED <<feeds, rtArg, rtCalls>>

\* The client is not looked at again.
SetConnected(x) ==
    /\ rtPc[x] = "made"
    /\ rt' = [rt EXCEPT !.state = "connected", !.deaf = rt.client = NoStream,
                        !.jobStream = feeds[rtArg[x]].filter \in JobFilters]
    /\ Goto(x, "connected")
    /\ UNCHANGED <<feeds, rtArg, rtCalls>>

StartReceiver(x) ==
    /\ rtPc[x] = "connected"
    /\ \E n \in Slots :
          /\ rtPc[Receiver(n)] = "none" /\ \A k \in Slots : k < n => rtPc[Receiver(k)] # "none"
          /\ rtPc' = [rtPc EXCEPT ![x] = "none", ![Receiver(n)] = "starting"]
    /\ rt' = [rt EXCEPT !.stop = FALSE]
    /\ rtArg' = [rtArg EXCEPT ![x] = NoStream]
    /\ UNCHANGED <<feeds, rtCalls>>

\* The dial fails, or the server refuses: for good, or not.
DialFails(x) ==
    /\ rtPc[x] = "dial"
    /\ \E p \in {"failed", "rejected"} : Goto(x, p)
    /\ UNCHANGED <<rt, feeds, rtArg, rtCalls>>

\* _disconnect_sse closes the response the client has now, whoever opened it.
Closed == IF rt.stream = NoStream THEN feeds ELSE [feeds EXCEPT ![rt.stream].state = "closed"]

\* connect() raises; do_reconnect() tries again unless it is futile.
AfterFailure(x) ==
    IF x = Caller \/ rtPc[x] = "rejected" THEN "none" ELSE "lost"

\* Slip: what the server rejects leaves the client connecting.
ConnectRaisesConnecting(x) ==
    /\ rtPc[x] \in {"failed", "rejected"}
    /\ rt' = [rt EXCEPT !.stream = NoStream, !.client = NoStream,
                        !.error = @ \/ (x # Caller /\ rtPc[x] = "rejected")]
    /\ feeds' = Closed
    /\ Goto(x, AfterFailure(x))
    /\ rtArg' = [rtArg EXCEPT ![x] = NoStream]
    /\ UNCHANGED rtCalls

\* The end of _connect_sse with an exception, and _give_up.
ConnectRaises(x) ==
    /\ rtPc[x] \in {"failed", "rejected"}
    /\ rt' = [rt EXCEPT !.stream = NoStream, !.client = NoStream,
                        !.state = "disconnected",
                        !.error = @ \/ (x # Caller /\ rtPc[x] = "rejected")]
    /\ feeds' = Closed
    /\ Goto(x, AfterFailure(x))
    /\ rtArg' = [rtArg EXCEPT ![x] = NoStream]
    /\ UNCHANGED rtCalls

-----------------------------------------------------------------------------
(* _sse_receive_loop *)

ReceiverStarts(r) ==
    /\ rtPc[r] = "starting"
    /\ Goto(r, IF rt.client = NoStream THEN "none" ELSE "begins")
    /\ UNCHANGED <<rt, feeds, rtArg, rtCalls>>

\* The client is read again, to iterate over its events.
ReceiverBegins(r) ==
    /\ rtPc[r] = "begins"
    /\ Goto(r, IF rt.client # NoStream THEN "reading" ELSE IF rt.stop THEN "none" ELSE "lost")
    /\ rtArg' = [rtArg EXCEPT ![r] = rt.client]
    /\ UNCHANGED <<rt, feeds, rtCalls>>

Reads(r) == rtPc[r] \in {"reading", "terminal"}

ReceiverEnds(r, p) ==
    /\ Goto(r, p)
    /\ rtArg' = [rtArg EXCEPT ![r] = NoStream]

\* An event: one that ends a job stream is remembered by the thread.
EventArrives(r) ==
    /\ Reads(r) /\ feeds[rtArg[r]].state = "open"
    /\ IF rt.stop
       THEN ReceiverEnds(r, "none") /\ UNCHANGED rt
       ELSE /\ rt' = [rt EXCEPT !.attempts = 0, !.redials = 0]
            /\ \E p \in {rtPc[r]} \cup
                   (IF rt.jobStream THEN {"terminal"} ELSE {}) :
                  Goto(r, p)
            /\ UNCHANGED rtArg
    /\ UNCHANGED <<feeds, rtCalls>>

\* The stream raises: it broke, it was closed, or another thread iterates over it.
StreamBreaks(r) ==
    /\ Reads(r)
    /\ \/ feeds[rtArg[r]].state \in {"ended", "closed"}
       \/ \E q \in Receivers \ {r} : Reads(q) /\ rtArg[q] = rtArg[r]
    /\ ReceiverEnds(r, IF rt.stop THEN "none" ELSE "lost")
    /\ UNCHANGED <<rt, feeds, rtCalls>>

\* Slip: a job stream that is over leaves the client connected.
StreamEndsQuietly(r) ==
    /\ Reads(r) /\ feeds[rtArg[r]].state = "ended"
    /\ ReceiverEnds(r, IF rt.stop \/ rtPc[r] = "terminal" THEN "none" ELSE "lost")
    /\ UNCHANGED <<rt, feeds, rtCalls>>

\* The stream ends without an error.
StreamEnds(r) ==
    /\ Reads(r) /\ feeds[rtArg[r]].state = "ended"
    /\ IF ~rt.stop /\ rtPc[r] = "terminal"
       THEN /\ rt' = [rt EXCEPT !.stream = NoStream, !.client = NoStream,
                                !.state = "disconnected"]
            /\ feeds' = Closed
            /\ ReceiverEnds(r, "none")
       ELSE /\ ReceiverEnds(r, IF rt.stop THEN "none" ELSE "lost")
            /\ UNCHANGED <<rt, feeds>>
    /\ UNCHANGED rtCalls

-----------------------------------------------------------------------------
(* _handle_disconnect and _schedule_reconnect *)

Lost(x) ==
    /\ rtPc[x] = "lost"
    /\ rt' = [rt EXCEPT !.stream = NoStream, !.client = NoStream]
    /\ feeds' = Closed
    /\ Goto(x, "budget")
    /\ UNCHANGED <<rtArg, rtCalls>>

\* auto_reconnect = False is a budget of zero.
Budget(x) ==
    /\ rtPc[x] = "budget"
    /\ IF rt.attempts < MaxRetries
       THEN /\ rt' = [rt EXCEPT !.state = "reconnecting", !.attempts = @ + 1]
            /\ Goto(x, "schedule")
       ELSE rt' = [rt EXCEPT !.state = "disconnected"] /\ Goto(x, "none")
    /\ UNCHANGED <<feeds, rtArg, rtCalls>>

StartTimer(x) ==
    /\ rtPc[x] = "schedule"
    /\ \E n \in Slots :
          /\ rtPc[Timer(n)] = "none" /\ \A k \in Slots : k < n => rtPc[Timer(k)] # "none"
          /\ rt' = [rt EXCEPT !.timer = Timer(n),
                              !.redials = IF @ > MaxRetries THEN @ ELSE @ + 1]
          /\ rtPc' = [rtPc EXCEPT ![Timer(n)] = "armed", ![x] = "none"]
    /\ UNCHANGED <<feeds, rtArg, rtCalls>>

TimerFires(x) ==
    /\ x \in Timers /\ rtPc[x] = "armed"
    /\ Connect(x, NoFilter)
    /\ UNCHANGED <<feeds, rtCalls>>

-----------------------------------------------------------------------------
(* The methods of the user *)

UserConnects(f) ==
    /\ Call("connect")
    /\ Connect(Caller, f)
    /\ UNCHANGED feeds

\* disconnect(), of the user and of the reconnect() in subscribe(), whose filter
\* waits in rtArg.
DisconnectStart ==
    /\ rtPc' = IF rt.timer # NoTimer /\ rtPc[rt.timer] = "armed"
               THEN [rtPc EXCEPT ![Caller] = "cancelled", ![rt.timer] = "none"]
               ELSE [rtPc EXCEPT ![Caller] = "cancelled"]

UserDisconnects ==
    /\ Call("disconnect")
    /\ DisconnectStart
    /\ rt' = [rt EXCEPT !.timer = NoTimer]
    /\ UNCHANGED <<feeds, rtArg>>

DisconnectStops ==
    /\ rtPc[Caller] = "cancelled"
    /\ rt' = [rt EXCEPT !.stop = TRUE]
    /\ Goto(Caller, "stopped")
    /\ UNCHANGED <<feeds, rtArg, rtCalls>>

DisconnectCloses ==
    /\ rtPc[Caller] = "stopped"
    /\ rt' = [rt EXCEPT !.stream = NoStream, !.client = NoStream]
    /\ feeds' = Closed
    /\ Goto(Caller, "closed")
    /\ UNCHANGED <<rtArg, rtCalls>>

\* A reconnect() goes on with connect().
DisconnectEnds ==
    /\ rtPc[Caller] = "closed"
    /\ IF rtArg[Caller] \in Filters
       THEN /\ rt' = [rt EXCEPT !.state = "connecting", !.attempts = 0, !.redials = 0]
            /\ Goto(Caller, "dial")
       ELSE /\ rt' = [rt EXCEPT !.state = "disconnected", !.attempts = 0, !.redials = 0]
            /\ Goto(Caller, "none")
    /\ UNCHANGED <<feeds, rtArg, rtCalls>>

Subscribe(f) ==
    /\ Call("subscribe")
    /\ f \notin Range(rt.subs)
    /\ IF rt.state = "connected"
       THEN /\ DisconnectStart
            /\ rt' = [rt EXCEPT !.subs = Append(@, f), !.timer = NoTimer]
            /\ rtArg' = [rtArg EXCEPT ![Caller] = f]
       ELSE rt' = [rt EXCEPT !.subs = Append(@, f)] /\ UNCHANGED <<rtPc, rtArg>>
    /\ UNCHANGED feeds

Unsubscribe(f) ==
    /\ Call("unsubscribe")
    /\ f \in Range(rt.subs)
    /\ rt' = [rt EXCEPT !.subs = SelectSeq(@, LAMBDA g : g # f)]
    /\ UNCHANGED <<feeds, rtPc, rtArg>>

-----------------------------------------------------------------------------

ServerEndsStream(s) ==
    /\ feeds[s].state = "open"
    /\ feeds' = [feeds EXCEPT ![s].state = "ended"]
    /\ UNCHANGED <<rt, rtPc, rtArg, rtCalls>>

DialStep(x) ==
    \/ DialSucceeds(x) \/ DialFails(x) \/ CreateClient(x) \/ SetConnected(x)
    \/ StartReceiver(x) \/ ConnectRaises(x)

LossStep(x) == Lost(x) \/ Budget(x) \/ StartTimer(x)

TimerStep(x) == TimerFires(x) \/ DialStep(x) \/ LossStep(x)

CallerStep ==
    DialStep(Caller) \/ DisconnectStops \/ DisconnectCloses \/ DisconnectEnds

ReceiverStep(r) ==
    ReceiverStarts(r) \/ ReceiverBegins(r) \/ StreamBreaks(r) \/ StreamEnds(r) \/ LossStep(r)

RTNext ==
    \/ \E f \in Filters \cup {NoFilter} : UserConnects(f)
    \/ UserDisconnects \/ \E f \in Filters : Subscribe(f) \/ Unsubscribe(f)
    \/ CallerStep
    \/ \E x \in Timers : TimerStep(x)
    \/ \E r \in Receivers : ReceiverStep(r) \/ EventArrives(r)
    \/ \E s \in Slots : ServerEndsStream(s)

RTFairness ==
    /\ WF_rtVars(CallerStep)
    /\ \A x \in Timers : WF_rtVars(TimerStep(x))
    /\ \A r \in Receivers : WF_rtVars(ReceiverStep(r))

RTSpec == RTInit /\ [][RTNext]_rtVars

-----------------------------------------------------------------------------
(* Properties *)

RTAtRest ==
    /\ rtPc[Caller] = "none"
    /\ \A x \in Timers : rtPc[x] = "none"
    /\ \A r \in Receivers : rtPc[r] \in {"none", "reading", "terminal"}

\* The user has called connect() and nothing else.
OnItsOwn == rtCalls = [m \in RTMethods |-> IF m = "connect" THEN 1 ELSE 0]

\* Streams that open and deliver nothing spend the budget: on its own a client
\* starts max_reconnect_attempts timers at most between two events
\* (_handle_disconnect, _sse_receive_loop).
QuietStreamsSpendBudget == OnItsOwn => rt.redials <= MaxRetries

\* Once the server has rejected a reconnect (last_error), nothing dials again unless
\* the user asks for it (_give_up).
RejectionIsFinal ==
    rt.error /\ OnItsOwn => RTAtRest /\ rt.state = "disconnected"

\* A client that is connecting or reconnecting comes to an end of it, with a stream
\* or without.
RealtimePendingEnds ==
    \A p \in {"connecting", "reconnecting"} : rt.state = p ~> rt.state # p

\* A client at rest that says it is connected receives from its stream, unless it had no
\* SSE client to receive with when it began to say so: none was made, or another thread
\* took it away between its making and CONNECTED (_connect_sse, _disconnect_sse).
ConnectedReceives ==
    RTAtRest /\ rt.state = "connected" /\ ~rt.deaf =>
        \E r \in Receivers : Reads(r) /\ rtArg[r] = rt.stream
=============================================================================

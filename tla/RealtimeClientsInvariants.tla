----------------------- MODULE RealtimeClientsInvariants -----------------------
(***************************************************************************)
(* The inductive invariants behind the safety properties of                *)
(* RealtimeClients, one for each of its clients.                           *)
(***************************************************************************)
EXTENDS RealtimeClients

-----------------------------------------------------------------------------
(* SSEClient and AsyncSSEClient: the attributes s, the threads or tasks at pcs *)

IterationPcs == SSE!ConsumerPcs \cup SSE!UserPcs \cup {"reopening"}

\* A consumer that nobody interferes with has spent an attempt on every redial since
\* the last event, and on the one it is waiting to begin.
RedialsSpent(s, pcs) ==
    s.calls["user"] = 0 =>
        /\ pcs["user"] = "idle"
        /\ s.redials <= s.attempts
        /\ pcs["consumer"] \in {"backoff", "sleeping", "reopening"} => s.redials < s.attempts

IterationInv(s, pcs) ==
    /\ s \in SSE!SSEClients
    /\ pcs \in [SSE!SSEThreads -> IterationPcs]
    /\ RedialsSpent(s, pcs)
    /\ s.refused => pcs["consumer"] = "over"

-----------------------------------------------------------------------------
(* AsyncWebSocketClient *)

AWBudgetInv == aws.redials <= aws.attempts

\* What the server does not know yet of the subscriptions, on the socket the client is
\* connected over, a task is about to tell it, unless an iteration has raised or was
\* moved past it.
ToldInv ==
    aws.state = "connected" /\ aws.sock \in AWS!In("open") =>
        /\ awSocks[aws.sock].subs \subseteq aws.subs
        /\ \A f \in aws.subs \ awSocks[aws.sock].subs :
               \/ aws.raised \/ f \in aws.passed
               \/ \E t \in AWS!Tasks :
                      awPc[t] = "resubscribe" /\ f \notin awVal[t].past \cup awVal[t].skip

AWInv == AWS!AWTypeOK /\ AWBudgetInv /\ ToldInv

-----------------------------------------------------------------------------
(* SpooledRealtime *)

RTFields == {"state", "attempts", "timer", "stop", "subs", "stream", "client", "jobStream",
             "error", "deaf", "redials"}

RTShape ==
    /\ DOMAIN rt = RTFields
    /\ rt.attempts \in 0 .. MaxRetries /\ rt.redials \in Nat /\ rt.error \in BOOLEAN
    /\ DOMAIN rtPc = RT!RTThreads /\ DOMAIN rtArg = RT!RTThreads
    /\ rtCalls \in [RT!RTMethods -> Nat]

\* The user has called nothing, or connect() once.
Calm == \A m \in RT!RTMethods : rtCalls[m] <= (IF m = "connect" THEN 1 ELSE 0)

Active(x) == rtPc[x] # "none"

\* A calm client is one chain of threads, each of which starts the next: one runs at a
\* time, the timers it has started and the one it is about to start were paid for, and
\* a rejection has ended it.
Chain ==
    /\ rtCalls["connect"] = 0 =>
           ~rt.error /\ rt.redials = 0 /\ \A x \in RT!RTThreads : ~Active(x)
    /\ rtPc[RT!Caller] \notin {"cancelled", "stopped", "closed"}
    /\ \A x, y \in RT!RTThreads : Active(x) /\ Active(y) => x = y
    /\ rt.redials <= rt.attempts
    /\ \A x \in RT!RTThreads : rtPc[x] = "schedule" => rt.redials < rt.attempts
    /\ rt.error => rt.state = "disconnected" /\ \A x \in RT!RTThreads : ~Active(x)

ChainInv == Calm => Chain

\* The stop event of a connected client is set by a disconnect() under way, or about
\* to be cleared.
StopInv ==
    rt.state = "connected" /\ rt.stop =>
        \/ rtPc[RT!Caller] \in {"stopped", "closed"}
        \/ \E x \in RT!Dialers : rtPc[x] = "connected"

\* The client iterates over the stream there is, unless another one has just been opened.
SSEClientInv ==
    /\ rt.client \in {RT!NoStream, rt.stream} \/ \E x \in RT!Dialers : rtPc[x] = "opened"
    /\ rt.stream = RT!NoStream \/ ~HasSSE => rt.client = RT!NoStream

\* A connected client that has lost its SSE client is about to say that it is not
\* connected.
ClientGoneInv ==
    rt.state = "connected" /\ ~rt.deaf /\ rt.client = RT!NoStream =>
        \/ rtPc[RT!Caller] = "closed"
        \/ \E x \in RT!RTThreads : rtPc[x] = "budget"

\* A connected client has a thread that receives, or is on its way to one, or away from
\* being connected.
ReceivedInv ==
    rt.state = "connected" /\ ~rt.deaf =>
        \/ \E r \in RT!Receivers :
               \/ rtPc[r] \in {"starting", "begins"}
               \/ RT!Reads(r) /\ rtArg[r] = rt.stream
        \/ \E x \in RT!RTThreads : rtPc[x] \in {"lost", "budget"}
        \/ \E x \in RT!Dialers :
               rtPc[x] \in {"opened", "made", "connected", "failed", "rejected"}
        \/ rtPc[RT!Caller] \in {"stopped", "closed"}

\* The threads are where their kind may be.
KindsInv ==
    /\ rtPc[RT!Caller] \in {"none", "dial", "opened", "made", "connected", "failed", "rejected",
                            "cancelled", "stopped", "closed"}
    /\ \A x \in RT!Timers :
           rtPc[x] \in {"none", "armed", "dial", "opened", "made", "connected", "failed",
                        "rejected", "lost", "budget", "schedule"}
    /\ \A r \in RT!Receivers :
           rtPc[r] \in {"none", "starting", "begins", "reading", "terminal", "lost",
                        "budget", "schedule"}

RTInv == RTShape /\ KindsInv /\ ChainInv /\ StopInv /\ SSEClientInv /\ ClientGoneInv
         /\ ReceivedInv

StreamsInv ==
    IterationInv(sse, ssePc) /\ IterationInv(asse, assePc) /\ AWInv /\ RTInv
=============================================================================

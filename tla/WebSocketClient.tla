--------------------------- MODULE WebSocketClient ---------------------------
(***************************************************************************)
(* The synchronous WebSocketClient, spooled/realtime/websocket.py: the     *)
(* thread of the user, a receive thread for every socket, a timer thread   *)
(* for every reconnect.  They share the attributes of the client, without  *)
(* a lock.                                                                 *)
(*                                                                         *)
(* One action is what a thread does between two points where another one   *)
(* matters: a call on the socket, a wait, the next shared attribute.       *)
(***************************************************************************)
EXTENDS Naturals, FiniteSets

CONSTANTS
    Filters,               \* subscription filters
    NoFilter,              \* none of the filters
    MaxReconnectAttempts,  \* options.max_reconnect_attempts
    MayBeStable,           \* a connection may stay up for STABLE_CONNECTION_SECONDS
    MaxCalls,              \* bound: per method, the calls of the user
    MaxSockets             \* bound: sockets that get dialed

Methods == {"connect", "disconnect", "subscribe", "unsubscribe"}

ASSUME BoundsAssumption ==
    /\ MaxReconnectAttempts \in Nat /\ MaxSockets \in Nat
    /\ MaxCalls \in [Methods -> Nat] /\ MayBeStable \in BOOLEAN
ASSUME FiltersAssumption == IsFiniteSet(Filters) /\ NoFilter \notin Filters

Sockets == 1 .. MaxSockets
NoSocket == 0

\* Every timer spends an attempt; a disconnect() or a stable socket refills the budget.
Timers == 1 .. (MaxReconnectAttempts + 1) * (MaxSockets + MaxCalls["disconnect"] + 1)
NoTimer == 0

User == <<"user", 0>>
Timer(n) == <<"timer", n>>
Receiver(s) == <<"receiver", s>>

Dialers == {User} \cup {Timer(n) : n \in Timers}
Receivers == {Receiver(s) : s \in Sockets}
Threads == Dialers \cup Receivers

VARIABLES
    state,          \* self._state
    ws,             \* self._ws
    attempts,       \* self._reconnect_attempts
    connectedAt,    \* self._connected_at is set
    timer,          \* self._reconnect_timer
    stopEvent,      \* self._stop_event
    subscriptions,  \* self._subscriptions
    sockets,        \* per socket: "new", "open" or "closed"
    subscribed,     \* per socket: what the server has been told to send
    pc,             \* per thread: where it is
    sock,           \* per thread: the socket it has dialed or receives from
    filter,         \* per dialer: the filter of the command at hand
    iter,           \* per dialer: its iteration over subscriptions
    calls,          \* per method: calls of the user so far
    final,          \* history: a disconnect() that met no loss and no dial, and nothing since
    passed,         \* history: entries that iterations on the socket there is were moved past
    untold          \* history: what the user dropped could not be told on the socket there is

clientVars == <<state, ws, attempts, connectedAt, timer, stopEvent, subscriptions>>
serverVars == <<sockets, subscribed>>
threadVars == <<pc, sock, filter, iter>>
userVars == <<calls, final, passed, untold>>
vars == <<clientVars, serverVars, threadVars, userVars>>

UserPcs == {"idle", "dial", "dialed", "connected", "resubscribe", "sending",
            "cancelled", "stopped", "closed", "subscribing", "unsubscribing"}
TimerPcs == {"none", "armed", "cancelled", "dial", "dialed", "connected", "resubscribe", "sending",
             "lost", "budget", "spend", "schedule", "done"}
ReceiverPcs == {"none", "check", "recv", "receiving", "failed", "lost", "budget", "spend", "schedule",
                "done"}

\* An iteration over the dictionary: the entries it has yielded, the entries it was
\* moved past, the size of the dictionary when it began, the entries it may still yield.
Iterations ==
    [past : SUBSET Filters, skip : SUBSET Filters,
     size : 0 .. Cardinality(Filters), left : 0 .. Cardinality(Filters)]

NoIteration == [past |-> {}, skip |-> {}, size |-> 0, left |-> 0]

TypeOK ==
    /\ state \in {"disconnected", "connecting", "connected", "reconnecting"}
    /\ ws \in Sockets \cup {NoSocket}
    /\ attempts \in Nat
    /\ connectedAt \in BOOLEAN /\ stopEvent \in BOOLEAN
    /\ timer \in Timers \cup {NoTimer}
    /\ subscriptions \subseteq Filters
    /\ sockets \in [Sockets -> {"new", "open", "closed"}]
    /\ subscribed \in [Sockets -> SUBSET Filters]
    /\ DOMAIN pc = Threads /\ pc[User] \in UserPcs
    /\ \A n \in Timers : pc[Timer(n)] \in TimerPcs
    /\ \A s \in Sockets : pc[Receiver(s)] \in ReceiverPcs
    /\ sock \in [Threads -> Sockets \cup {NoSocket}]
    /\ filter \in [Dialers -> Filters \cup {NoFilter}]
    /\ iter \in [Dialers -> Iterations]
    /\ \A x \in Dialers :
           pc[x] \in {"sending", "subscribing", "unsubscribing"} => filter[x] \in Filters
    /\ calls \in [Methods -> Nat] /\ final \in BOOLEAN /\ untold \in BOOLEAN
    /\ passed \subseteq Filters

Init ==
    /\ state = "disconnected"
    /\ ws = NoSocket
    /\ attempts = 0 /\ connectedAt = FALSE
    /\ timer = NoTimer /\ stopEvent = FALSE
    /\ subscriptions = {}
    /\ sockets = [s \in Sockets |-> "new"] /\ subscribed = [s \in Sockets |-> {}]
    /\ pc = [x \in Threads |-> IF x = User THEN "idle" ELSE "none"]
    /\ sock = [x \in Threads |-> NoSocket]
    /\ filter = [x \in Dialers |-> NoFilter]
    /\ iter = [x \in Dialers |-> NoIteration]
    /\ calls = [m \in Methods |-> 0] /\ final = FALSE /\ untold = FALSE
    /\ passed = {}

Goto(x, p) == pc' = [pc EXCEPT ![x] = p]

New == {s \in Sockets : sockets[s] = "new"}

Call(method) ==
    /\ calls[method] < MaxCalls[method]
    /\ pc[User] = "idle"
    /\ calls' = [calls EXCEPT ![method] = @ + 1]

-----------------------------------------------------------------------------
(* connect() and do_reconnect() *)

Connect ==
    /\ Call("connect")
    /\ final' = FALSE
    /\ IF state \in {"connected", "connecting"}
       THEN UNCHANGED <<state, pc>>
       ELSE state' = "connecting" /\ Goto(User, "dial")
    /\ UNCHANGED <<ws, attempts, connectedAt, timer, stopEvent, subscriptions, serverVars,
                   sock, filter, iter, passed, untold>>

TimerFires(n) ==
    /\ pc[Timer(n)] = "armed"
    /\ Goto(Timer(n), "dial")
    /\ UNCHANGED <<clientVars, serverVars, sock, filter, iter, userVars>>

DialSucceeds(x) ==
    /\ pc[x] = "dial"
    /\ \E s \in New :
          /\ \A u \in New : s <= u
          /\ ws' = s
          /\ sockets' = [sockets EXCEPT ![s] = "open"]
          /\ sock' = [sock EXCEPT ![x] = s]
    /\ Goto(x, "dialed")
    /\ untold' = FALSE /\ passed' = UNION {iter[y].skip : y \in Dialers}
    /\ UNCHANGED <<state, attempts, connectedAt, timer, stopEvent, subscriptions, subscribed,
                   filter, iter, calls, final>>

\* What follows an exception: connect() raises, do_reconnect() handles a disconnect.
Fails(x) ==
    IF x = User
    THEN state' = "disconnected" /\ Goto(User, "idle")
    ELSE Goto(x, "lost") /\ UNCHANGED state

DialFails(x) ==
    /\ pc[x] = "dial"
    /\ Fails(x)
    /\ UNCHANGED <<ws, attempts, connectedAt, timer, stopEvent, subscriptions, serverVars,
                   sock, filter, iter, userVars>>

SetConnected(x) ==
    /\ pc[x] = "dialed"
    /\ state' = "connected" /\ connectedAt' = TRUE
    /\ Goto(x, "connected")
    /\ UNCHANGED <<ws, attempts, timer, stopEvent, subscriptions, serverVars, sock, filter,
                   iter, userVars>>

StartReceiver(x) ==
    /\ pc[x] = "connected"
    /\ stopEvent' = FALSE
    /\ pc' = [pc EXCEPT ![x] = "resubscribe", ![Receiver(sock[x])] = "check"]
    /\ iter' = [iter EXCEPT ![x] = [past |-> {}, skip |-> {}, size |-> Cardinality(subscriptions),
                                    left |-> Cardinality(subscriptions)]]
    /\ UNCHANGED <<state, ws, attempts, connectedAt, timer, subscriptions, serverVars, sock,
                   filter, userVars>>

CanSend == ws # NoSocket /\ state = "connected" /\ sockets[ws] = "open"

\* _send_command, with what the server sends events for after it; what it raises
\* is caught, or is the user's.
Send(filters) ==
    subscribed' = IF CanSend THEN [subscribed EXCEPT ![ws] = filters] ELSE subscribed

SendSubscribe(x) == Send(subscribed[ws] \cup {filter[x]})

SendUnsubscribe(x) == Send(subscribed[ws] \ {filter[x]})

\* Slip: nothing is subscribed again.
NothingRest(x) == {}

\* Entries of the dictionary the iteration of _resubscribe_all has ahead.
Rest(x) == subscriptions \ (iter[x].past \cup iter[x].skip)

\* An iteration raises when the size of the dictionary is not what it was, or when it
\* meets more entries than there were.  It ends without a word when it has skipped some.
Intact(x) ==
    Cardinality(subscriptions) = iter[x].size /\ (Rest(x) # {} => iter[x].left > 0)

ResubscribeNext(x) ==
    /\ pc[x] = "resubscribe" /\ Intact(x)
    /\ \E f \in Rest(x) :
          /\ filter' = [filter EXCEPT ![x] = f]
          /\ iter' = [iter EXCEPT ![x].past = @ \cup {f}, ![x].left = @ - 1]
    /\ Goto(x, "sending")
    /\ UNCHANGED <<clientVars, serverVars, sock, userVars>>

ResubscribeSend(x) ==
    /\ pc[x] = "sending"
    /\ SendSubscribe(x)
    /\ Goto(x, "resubscribe")
    /\ filter' = [filter EXCEPT ![x] = NoFilter]
    /\ UNCHANGED <<clientVars, sockets, sock, iter, userVars>>

Resubscribed(x) ==
    /\ pc[x] = "resubscribe" /\ Intact(x) /\ Rest(x) = {}
    /\ Goto(x, IF x = User THEN "idle" ELSE "done")
    /\ iter' = [iter EXCEPT ![x] = NoIteration]
    /\ UNCHANGED <<clientVars, serverVars, sock, filter, userVars>>

ResubscribeFails(x) ==
    /\ pc[x] = "resubscribe" /\ ~Intact(x)
    /\ Fails(x)
    /\ iter' = [iter EXCEPT ![x] = NoIteration]
    /\ UNCHANGED <<ws, attempts, connectedAt, timer, stopEvent, subscriptions, serverVars,
                   sock, filter, userVars>>

-----------------------------------------------------------------------------
(* _receive_loop *)

Check(r) ==
    /\ pc[r] = "check"
    /\ Goto(r, IF ~stopEvent /\ ws # NoSocket THEN "recv" ELSE "done")
    /\ UNCHANGED <<clientVars, serverVars, sock, filter, iter, userVars>>

\* self._ws is read once more; another thread may be in recv() of that socket.
Recv(r) ==
    /\ pc[r] = "recv"
    /\ sock' = [sock EXCEPT ![r] = ws]
    /\ Goto(r, IF ws = NoSocket \/ \E q \in Receivers : pc[q] = "receiving" /\ sock[q] = ws
               THEN "failed" ELSE "receiving")
    /\ UNCHANGED <<clientVars, serverVars, filter, iter, userVars>>

\* A message and its handlers, or a timeout of one second.
Received(r) ==
    /\ pc[r] = "receiving" /\ sockets[sock[r]] = "open"
    /\ Goto(r, "check")
    /\ UNCHANGED <<clientVars, serverVars, sock, filter, iter, userVars>>

RecvFails(r) ==
    /\ pc[r] = "receiving" /\ sockets[sock[r]] = "closed"
    /\ Goto(r, "failed")
    /\ UNCHANGED <<clientVars, serverVars, sock, filter, iter, userVars>>

\* Slip: the receive loop ends without handling the loss.
FailedQuietly(r) ==
    /\ pc[r] = "failed"
    /\ Goto(r, "done")
    /\ UNCHANGED <<clientVars, serverVars, sock, filter, iter, userVars>>

Failed(r) ==
    /\ pc[r] = "failed"
    /\ Goto(r, IF stopEvent THEN "done" ELSE "lost")
    /\ UNCHANGED <<clientVars, serverVars, sock, filter, iter, userVars>>

-----------------------------------------------------------------------------
(* _handle_disconnect and _schedule_reconnect *)

\* Slip: a socket that opened refills the budget, however soon it closed.
RefillAlways(x) ==
    /\ pc[x] = "lost"
    /\ ws' = NoSocket /\ connectedAt' = FALSE
    /\ attempts' = IF connectedAt THEN 0 ELSE attempts
    /\ Goto(x, "budget")
    /\ UNCHANGED <<state, timer, stopEvent, subscriptions, serverVars, sock, filter, iter,
                   userVars>>

Lost(x) ==
    /\ pc[x] = "lost"
    /\ ws' = NoSocket /\ connectedAt' = FALSE
    /\ attempts' \in {attempts} \cup (IF connectedAt /\ MayBeStable THEN {0} ELSE {})
    /\ Goto(x, "budget")
    /\ UNCHANGED <<state, timer, stopEvent, subscriptions, serverVars, sock, filter, iter,
                   userVars>>

Budget(x) ==
    /\ pc[x] = "budget" /\ attempts < MaxReconnectAttempts
    /\ Goto(x, "spend")
    /\ UNCHANGED <<clientVars, serverVars, sock, filter, iter, userVars>>

SpendAttempt(x) ==
    /\ pc[x] = "spend"
    /\ state' = "reconnecting" /\ attempts' = attempts + 1
    /\ Goto(x, "schedule")
    /\ UNCHANGED <<ws, connectedAt, timer, stopEvent, subscriptions, serverVars, sock, filter,
                   iter, userVars>>

\* auto_reconnect = False is a budget of zero.
GiveUp(x) ==
    /\ pc[x] = "budget" /\ attempts >= MaxReconnectAttempts
    /\ state' = "disconnected"
    /\ Goto(x, "done")
    /\ UNCHANGED <<ws, attempts, connectedAt, timer, stopEvent, subscriptions, serverVars,
                   sock, filter, iter, userVars>>

StartTimer(x) ==
    /\ pc[x] = "schedule"
    /\ \E n \in Timers :
          /\ pc[Timer(n)] = "none" /\ \A k \in 1 .. n - 1 : pc[Timer(k)] # "none"
          /\ timer' = n
          /\ pc' = [pc EXCEPT ![Timer(n)] = "armed", ![x] = "done"]
    /\ UNCHANGED <<state, ws, attempts, connectedAt, stopEvent, subscriptions, serverVars,
                   sock, filter, iter, userVars>>

-----------------------------------------------------------------------------
(* disconnect() *)

\* One thread receives at most, from the open socket of the client, and none is about
\* to notice a loss.
Receives(r) == pc[r] \in {"check", "recv", "receiving"}

ReceivingAlone ==
    /\ \A r \in Receivers :
           \/ pc[r] \in {"none", "done"}
           \/ /\ Receives(r) /\ ws # NoSocket /\ sockets[ws] = "open"
              /\ pc[r] = "receiving" => sock[r] = ws
    /\ \A r, q \in Receivers : Receives(r) /\ Receives(q) => r = q

\* No thread dials or handles a loss, and the timer that waits is the client's.
Settled ==
    /\ \A n \in Timers :
           /\ pc[Timer(n)] \in {"none", "armed", "cancelled", "done"}
           /\ pc[Timer(n)] = "armed" => timer = n
    /\ ReceivingAlone

\* Slip: the timer is forgotten and still fires.
TimerForgotten == pc

TimerCancelled ==
    IF timer # NoTimer /\ pc[Timer(timer)] = "armed"
    THEN [pc EXCEPT ![Timer(timer)] = "cancelled"] ELSE pc

DisconnectCancel ==
    /\ Call("disconnect")
    /\ pc' = [TimerCancelled EXCEPT ![User] = "cancelled"]
    /\ timer' = NoTimer
    /\ final' = Settled
    /\ UNCHANGED <<state, ws, attempts, connectedAt, stopEvent, subscriptions, serverVars,
                   sock, filter, iter, passed, untold>>

DisconnectStop ==
    /\ pc[User] = "cancelled"
    /\ stopEvent' = TRUE
    /\ Goto(User, "stopped")
    /\ UNCHANGED <<state, ws, attempts, connectedAt, timer, subscriptions, serverVars, sock,
                   filter, iter, userVars>>

DisconnectClose ==
    /\ pc[User] = "stopped"
    /\ ws' = NoSocket
    /\ sockets' = IF ws = NoSocket THEN sockets ELSE [sockets EXCEPT ![ws] = "closed"]
    /\ Goto(User, "closed")
    /\ UNCHANGED <<state, attempts, connectedAt, timer, stopEvent, subscriptions, subscribed,
                   sock, filter, iter, userVars>>

DisconnectEnds ==
    /\ pc[User] = "closed"
    /\ state' = "disconnected"
    /\ attempts' = 0 /\ connectedAt' = FALSE
    /\ subscriptions' = {}
    /\ iter' = [x \in Dialers |-> [iter[x] EXCEPT !.past = {}, !.skip = {}]]
    /\ Goto(User, "idle")
    /\ untold' = (untold \/ ws # NoSocket)
    /\ UNCHANGED <<ws, timer, stopEvent, serverVars, sock, filter, calls, final, passed>>

-----------------------------------------------------------------------------
(* subscribe() and unsubscribe() *)

Iterating == {x \in Dialers : pc[x] \in {"resubscribe", "sending"}}

\* An insert may make the dictionary a new table, without the holes of what was removed.
\* An iteration under way keeps its position, and is past the entries that have closed
\* up over holes behind it: none before its first entry.  How full the table is, and how
\* many holes it has, is left open.
Overtaken(f) ==
    {skips \in [Iterating -> SUBSET (subscriptions \cup {f})] :
         \A x \in Iterating :
             /\ skips[x] \cap iter[x].past = {}
             /\ skips[x] # {} => iter[x].left < iter[x].size}

Subscribe(f) ==
    /\ Call("subscribe")
    /\ f \notin subscriptions
    /\ subscriptions' = subscriptions \cup {f}
    /\ \E skips \in Overtaken(f) :
          /\ iter' = [x \in Dialers |-> IF x \in Iterating
                                       THEN [iter[x] EXCEPT !.skip = @ \cup skips[x]]
                                       ELSE iter[x]]
          /\ passed' = passed \cup UNION {skips[x] : x \in Iterating}
    /\ filter' = [filter EXCEPT ![User] = f]
    /\ Goto(User, "subscribing")
    /\ UNCHANGED <<state, ws, attempts, connectedAt, timer, stopEvent, serverVars, sock,
                   final, untold>>

SubscribeEnds ==
    /\ pc[User] = "subscribing"
    /\ SendSubscribe(User)
    /\ Goto(User, "idle")
    /\ filter' = [filter EXCEPT ![User] = NoFilter]
    /\ UNCHANGED <<clientVars, sockets, sock, iter, userVars>>

\* The entry of a filter that comes back is a new one.
Unsubscribe(f) ==
    /\ Call("unsubscribe")
    /\ f \in subscriptions
    /\ subscriptions' = subscriptions \ {f}
    /\ iter' = [x \in Dialers |-> [iter[x] EXCEPT !.past = @ \ {f},
                                                         !.skip = @ \ {f}]]
    /\ filter' = [filter EXCEPT ![User] = f]
    /\ Goto(User, "unsubscribing")
    /\ UNCHANGED <<state, ws, attempts, connectedAt, timer, stopEvent, serverVars, sock,
                   final, passed, untold>>

UnsubscribeEnds ==
    /\ pc[User] = "unsubscribing"
    /\ SendUnsubscribe(User)
    /\ Goto(User, "idle")
    /\ filter' = [filter EXCEPT ![User] = NoFilter]
    /\ untold' = (untold \/ (ws # NoSocket /\ ~CanSend))
    /\ UNCHANGED <<clientVars, sockets, sock, iter, calls, final, passed>>

-----------------------------------------------------------------------------

ServerCloses(s) ==
    /\ sockets[s] = "open"
    /\ sockets' = [sockets EXCEPT ![s] = "closed"]
    /\ final' = FALSE
    /\ UNCHANGED <<clientVars, subscribed, threadVars, calls, passed, untold>>

DialStep(x) ==
    \/ DialSucceeds(x) \/ DialFails(x) \/ SetConnected(x) \/ StartReceiver(x)
    \/ ResubscribeNext(x) \/ ResubscribeSend(x) \/ Resubscribed(x) \/ ResubscribeFails(x)

LossStep(x) == Lost(x) \/ Budget(x) \/ SpendAttempt(x) \/ GiveUp(x) \/ StartTimer(x)

TimerStep(n) == TimerFires(n) \/ DialStep(Timer(n)) \/ LossStep(Timer(n))

ReceiverStep(r) ==
    Check(r) \/ Recv(r) \/ Received(r) \/ RecvFails(r) \/ Failed(r) \/ LossStep(r)

UserStep ==
    \/ DialStep(User)
    \/ DisconnectStop \/ DisconnectClose \/ DisconnectEnds
    \/ SubscribeEnds \/ UnsubscribeEnds

UserCall ==
    \/ Connect \/ DisconnectCancel
    \/ \E f \in Filters : Subscribe(f) \/ Unsubscribe(f)

Next ==
    \/ UserCall \/ UserStep
    \/ \E n \in Timers : TimerStep(n)
    \/ \E r \in Receivers : ReceiverStep(r)
    \/ \E s \in Sockets : ServerCloses(s)

Spec == Init /\ [][Next]_vars

\* Threads that can run do run; dials end and timers expire.
Fairness ==
    /\ WF_vars(UserStep)
    /\ \A n \in Timers : WF_vars(TimerStep(n))
    /\ \A r \in Receivers : WF_vars(ReceiverStep(r))

FairSpec == Spec /\ Fairness

-----------------------------------------------------------------------------
(* Properties *)

\* Nobody is about to touch the client: the user is not in a call, no timer is
\* pending or dialing, no loss is being handled.
AtRest ==
    /\ pc[User] = "idle"
    /\ \A n \in Timers : pc[Timer(n)] \in {"none", "cancelled", "done"}
    /\ \A r \in Receivers : pc[r] \in {"none", "check", "recv", "receiving", "failed", "done"}

Started == {n \in Timers : pc[Timer(n)] # "none"}

\* The user has called nothing, or connect() once, and no socket is stable.
Quiet ==
    ~MayBeStable /\ \A m \in Methods : calls[m] <= (IF m = "connect" THEN 1 ELSE 0)

\* With no socket stable and one call of connect(), the budget is spent once: no
\* more than max_reconnect_attempts timers are ever started, however often the
\* server accepts and closes (_reset_budget_if_stable, _handle_disconnect).
BudgetHeld == Quiet => Cardinality(Started) <= MaxReconnectAttempts

\* Whatever subscribe() and unsubscribe() met - no socket, a reconnect half way, an
\* iteration of _resubscribe_all - a client at rest on an open socket receives the
\* events of the subscriptions it holds, but for entries that an insert under the
\* iteration has moved it past; and of no other, unless there were such entries, or it
\* could not tell the server on that socket what it dropped.
SubscriptionsReachServer ==
    AtRest /\ CanSend =>
        /\ subscriptions \subseteq subscribed[ws] \cup passed
        /\ ~untold /\ passed = {} => subscribed[ws] \subseteq subscriptions

\* A disconnect() of a connection that one thread receives from and that stays up to its
\* end, or of a client that backs off with one timer, is final: the pending reconnect is
\* cancelled, and the receive thread does not take the closed socket for a loss
\* (disconnect, _receive_loop).
DisconnectIsFinal == AtRest /\ final => state = "disconnected"

\* A client does not hold on to a socket that is closed: whichever thread receives
\* from it, some thread handles the loss (_receive_loop, _handle_disconnect).
LossNoticed ==
    \A s \in Sockets : ws = s /\ sockets[s] = "closed" ~> ws # s

\* A client that says it is connecting or reconnecting comes to an end of it: some
\* thread is left that dials or gives up, whatever raised (connect, do_reconnect).
PendingStatesEnd ==
    \A p \in {"connecting", "reconnecting"} : state = p ~> state # p

\* In whatever order threads die, dial and disconnect, no loss is left unhandled and no
\* dial without an end.
LossesAreHandled == LossNoticed /\ PendingStatesEnd
=============================================================================

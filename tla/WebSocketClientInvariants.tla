----------------------- MODULE WebSocketClientInvariants -----------------------
(***************************************************************************)
(* The inductive invariants behind the safety properties of                *)
(* WebSocketClient.                                                        *)
(***************************************************************************)
EXTENDS WebSocketClient

-----------------------------------------------------------------------------
(* The retry budget *)

\* A thread that dials, receives or handles a loss, or a timer that will.
InChain(x) ==
    pc[x] \in {"armed", "dial", "dialed", "connected", "check", "recv", "receiving", "failed",
               "lost", "budget", "spend", "schedule"}

\* The attempts that timers were started for.
Used == IF \E x \in Threads : pc[x] = "schedule" THEN attempts - 1 ELSE attempts

\* A quiet client is one chain of threads, each of which starts the next, and every
\* timer of it was paid for.
Paid ==
    /\ subscriptions = {}
    /\ pc[User] \in {"idle", "dial", "dialed", "connected", "resubscribe"}
    /\ \A x \in Dialers : pc[x] # "sending" /\ (pc[x] = "resubscribe" => iter[x].size = 0)
    /\ calls["connect"] = 0 => \A x \in Threads : ~InChain(x)
    /\ \A x, y \in Threads : InChain(x) /\ InChain(y) => x = y
    /\ attempts <= MaxReconnectAttempts
    /\ \A x \in Threads :
           /\ pc[x] = "spend" => attempts < MaxReconnectAttempts
           /\ pc[x] = "schedule" => attempts > 0
    /\ Started = 1 .. Used

BudgetInv == Quiet => Paid

-----------------------------------------------------------------------------
(* disconnect() *)

\* What a disconnect() that met no loss and no dial has left, stage by stage.
Disconnected ==
    /\ \A n \in Timers : pc[Timer(n)] \in {"none", "cancelled", "done"}
    /\ pc[User] \notin {"dial", "dialed", "connected", "resubscribe", "sending"}
    /\ pc[User] = "cancelled" => ReceivingAlone
    /\ pc[User] # "cancelled" =>
           /\ stopEvent
           /\ \A r \in Receivers : pc[r] \notin {"lost", "budget", "spend", "schedule"}
    /\ pc[User] \notin {"cancelled", "stopped", "closed"} => state = "disconnected"

FinalInv == final => Disconnected

-----------------------------------------------------------------------------
(* Subscriptions *)

\* Thread x is going to subscribe to f on the socket the client has.
WillTell(x, f) ==
    \/ pc[x] \in {"dialed", "connected"}
    \/ pc[x] \in {"resubscribe", "sending"} /\ f \notin iter[x].past \cup iter[x].skip
    \/ pc[x] \in {"sending", "subscribing"} /\ filter[x] = f

\* What a connected client subscribed to and the server was not told, some thread is
\* going to tell it, unless its iteration was moved past it or the client is about to
\* let go of the socket.
MissingInv ==
    CanSend => \A f \in subscriptions \ subscribed[ws] :
        \/ f \in passed
        \/ \E x \in Dialers : WillTell(x, f)
        \/ \E n \in Timers : pc[Timer(n)] = "lost"

\* Commands of the user are about what it has just changed.
CommandInv ==
    /\ pc[User] = "subscribing" => filter[User] \in subscriptions
    /\ pc[User] = "unsubscribing" => filter[User] \notin subscriptions
    /\ pc[User] = "sending" => filter[User] \in iter[User].past

\* The iteration of timer n has lost an entry it had yielded: it is going to raise,
\* unless it was moved past another.
Doomed(n) ==
    /\ pc[Timer(n)] \in {"resubscribe", "sending"}
    /\ Cardinality(iter[Timer(n)].past) + iter[Timer(n)].left < iter[Timer(n)].size

IterInv ==
    /\ \A x \in Dialers :
           /\ iter[x].past \subseteq subscriptions
           /\ iter[x].skip \subseteq passed
           /\ Cardinality(iter[x].past) + iter[x].left <= iter[x].size
    /\ \A n \in Timers :
           pc[Timer(n)] = "sending" => filter[Timer(n)] \in iter[Timer(n)].past \/ Doomed(n)

HasSocket == ws # NoSocket /\ sockets[ws] = "open"

\* What the server was told and the client has dropped, the user is about to tell it,
\* unless a timer is going to let go of the socket; if no iteration was moved past
\* anything.
ExtraInv ==
    HasSocket /\ ~untold /\ passed = {} =>
        \A f \in subscribed[ws] \ subscriptions :
            \/ pc[User] = "unsubscribing" /\ filter[User] = f
            \/ \E n \in Timers : Doomed(n) \/ pc[Timer(n)] = "lost"

NewInv == \A s \in Sockets : sockets[s] = "new" => subscribed[s] = {}

SubscriptionsInv == MissingInv /\ CommandInv /\ IterInv /\ ExtraInv /\ NewInv

WebSocketInv == TypeOK /\ BudgetInv /\ FinalInv /\ SubscriptionsInv
=============================================================================

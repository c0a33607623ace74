------------------------- MODULE AsyncWebSocketClient -------------------------
(***************************************************************************)
(* The AsyncWebSocketClient, spooled/realtime/websocket.py: one task       *)
(* iterates over events() and reconnects inside it, another one calls the  *)
(* methods.  A task is interrupted at an await only: a dial, the backoff,  *)
(* a send, the close of a socket, the next message.                        *)
(*                                                                         *)
(* Sockets are slots: one that is closed and that nobody reads is reused.  *)
(***************************************************************************)
EXTENDS Naturals, FiniteSets

CONSTANTS
    Filters,       \* subscription filters
    MaxRetries,    \* options.max_reconnect_attempts; 0 if not auto_reconnect
    Slots,         \* bound: sockets at a time
    MaxAWCalls     \* bound: calls of the methods

VARIABLES
    aws,       \* the attributes of the client
    awSocks,   \* per socket: its state, and what the server was told to send on it
    awPc,      \* per task: where it is
    awVal,     \* per task: the socket it reads, its iteration over _subscriptions
    awCalls    \* calls of the methods so far

awVars == <<aws, awSocks, awPc, awVal, awCalls>>

Tasks == {"consumer", "user"}
NoSock == 0
NoVal == [sock |-> NoSock, past |-> {}, skip |-> {}, size |-> 0, left |-> 0]

AWTypeOK ==
    /\ aws \in [state : {"disconnected", "connecting", "connected", "reconnecting"},
                attempts : 0 .. MaxRetries,
                sock : Slots \cup {NoSock},      \* _ws
                subs : SUBSET Filters,           \* _subscriptions
                redials : 0 .. MaxRetries + 1,   \* history: reconnects events() began
                raised : BOOLEAN,                \* history: _resubscribe_all raised
                passed : SUBSET Filters]         \* history: entries it was moved past
    /\ awSocks \in [Slots -> [state : {"free", "open", "closed"}, subs : SUBSET Filters]]
    /\ awPc \in [Tasks -> {"idle", "dial", "resubscribe", "reading", "sleeping", "over",
                           "closing"}]
    /\ awVal \in [Tasks -> [sock : Slots \cup {NoSock}, past : SUBSET Filters,
                            skip : SUBSET Filters, size : 0 .. Cardinality(Filters),
                            left : 0 .. Cardinality(Filters)]]
    /\ awCalls \in 0 .. MaxAWCalls

AWInit ==
    /\ aws = [state |-> "disconnected", attempts |-> 0, sock |-> NoSock, subs |-> {},
              redials |-> 0, raised |-> FALSE, passed |-> {}]
    /\ awSocks = [s \in Slots |-> [state |-> "free", subs |-> {}]]
    /\ awPc = [t \in Tasks |-> "idle"]
    /\ awVal = [t \in Tasks |-> NoVal]
    /\ awCalls = 0

Goto(t, p) == awPc' = [awPc EXCEPT ![t] = p]

Call ==
    /\ awPc["user"] = "idle" /\ awCalls < MaxAWCalls
    /\ awCalls' = awCalls + 1

-----------------------------------------------------------------------------
(* connect(), and the dial of _do_reconnect *)

UserConnects ==
    /\ Call
    /\ aws.state \notin {"connected", "connecting"}
    /\ aws' = [aws EXCEPT !.state = "connecting"]
    /\ Goto("user", "dial")
    /\ UNCHANGED <<awSocks, awVal>>

In(p) == {s \in Slots : awSocks[s].state = p}

Free(s) == s \notin In("open") /\ aws.sock # s /\ \A t \in Tasks : awVal[t].sock # s

\* _mark_socket_open leaves the retry budget alone.
MarkOpen == aws

DialSucceeds(t) ==
    /\ awPc[t] = "dial"
    /\ \E s \in Slots :
          /\ Free(s) /\ \A u \in Slots : Free(u) => s <= u
          /\ awSocks' = [awSocks EXCEPT ![s] = [state |-> "open", subs |-> {}]]
          /\ aws' = [MarkOpen EXCEPT !.sock = s, !.state = "connected", !.raised = FALSE,
                                    !.passed = {}]
    /\ awVal' = [awVal EXCEPT ![t] = [NoVal EXCEPT !.size = Cardinality(aws.subs),
                                                   !.left = Cardinality(aws.subs)]]
    /\ Goto(t, "resubscribe")
    /\ UNCHANGED awCalls

\* Where a task is when its dial, or what it does on the new socket, is over.
After(t, raised) ==
    IF t = "user" THEN "idle" ELSE IF raised THEN "over" ELSE "reading"

\* events() does not catch what _do_reconnect raises: it ends, in state RECONNECTING.
DialFails(t) ==
    /\ awPc[t] = "dial"
    /\ aws' = IF t = "user" THEN [aws EXCEPT !.state = "disconnected"] ELSE aws
    /\ Goto(t, After(t, TRUE))
    /\ UNCHANGED <<awSocks, awVal, awCalls>>

Sendable == aws.sock # NoSock /\ aws.state = "connected"

\* _send_command, on the socket there is now; a closed one raises.
Delivered(f, drop) ==
    IF Sendable /\ awSocks[aws.sock].state = "open"
    THEN [awSocks EXCEPT ![aws.sock].subs = IF drop THEN @ \ {f} ELSE @ \cup {f}]
    ELSE awSocks

\* Slip: nothing is subscribed again.
NothingRest(t) == {}

\* Entries of the dictionary the iteration of _resubscribe_all has ahead.
Rest(t) == aws.subs \ (awVal[t].past \cup awVal[t].skip)

\* The iteration raises when the size of the dictionary is not what it was, or when it
\* meets more entries than there were; it ends without a word when it has skipped some.
\* A send that fails is passed over.
Intact(t) ==
    Cardinality(aws.subs) = awVal[t].size /\ (Rest(t) # {} => awVal[t].left > 0)

ResubscribeNext(t) ==
    /\ awPc[t] = "resubscribe" /\ Intact(t)
    /\ \E f \in Rest(t) :
          /\ awSocks' = Delivered(f, FALSE)
          /\ awVal' = [awVal EXCEPT ![t].past = @ \cup {f}, ![t].left = @ - 1]
    /\ UNCHANGED <<aws, awPc, awCalls>>

Resubscribed(t) ==
    /\ awPc[t] = "resubscribe" /\ Intact(t) /\ Rest(t) = {}
    /\ Goto(t, After(t, FALSE))
    /\ awVal' = [awVal EXCEPT ![t] = IF t = "user" THEN NoVal
                                     ELSE [NoVal EXCEPT !.sock = aws.sock]]
    /\ UNCHANGED <<aws, awSocks, awCalls>>

ResubscribeFails(t) ==
    /\ awPc[t] = "resubscribe" /\ ~Intact(t)
    /\ aws' = [aws EXCEPT !.raised = TRUE,
                          !.state = IF t = "user" THEN "disconnected" ELSE @]
    /\ Goto(t, After(t, TRUE))
    /\ awVal' = [awVal EXCEPT ![t] = NoVal]
    /\ UNCHANGED <<awSocks, awCalls>>

-----------------------------------------------------------------------------
(* events() *)

ConsumerStarts ==
    /\ awPc["consumer"] \in {"idle", "over"} /\ awCalls < MaxAWCalls
    /\ aws.sock # NoSock
    /\ awCalls' = awCalls + 1
    /\ aws' = [aws EXCEPT !.redials = 0]
    /\ Goto("consumer", "reading")
    /\ awVal' = [awVal EXCEPT !["consumer"] = [NoVal EXCEPT !.sock = aws.sock]]
    /\ UNCHANGED awSocks

\* A message changes nothing but the handlers' world.
MessageArrives ==
    /\ awPc["consumer"] = "reading"
    /\ awVal["consumer"].sock \in In("open")
    /\ UNCHANGED awVars

\* The server closes the socket with a normal close, and the iteration ends.
SocketEnds ==
    /\ awPc["consumer"] = "reading"
    /\ awVal["consumer"].sock \in In("closed")
    /\ Goto("consumer", "over")
    /\ awVal' = [awVal EXCEPT !["consumer"] = NoVal]
    /\ UNCHANGED <<aws, awSocks, awCalls>>

\* It breaks, or there is none: no socket was up for STABLE_CONNECTION_SECONDS.
SocketBreaks ==
    /\ awPc["consumer"] = "reading"
    /\ awVal["consumer"].sock \notin In("open")
    /\ IF aws.attempts < MaxRetries
       THEN /\ aws' = [aws EXCEPT !.state = "reconnecting", !.attempts = @ + 1,
                                  !.redials = IF @ > MaxRetries THEN @ ELSE @ + 1]
            /\ Goto("consumer", "sleeping")
       ELSE aws' = [aws EXCEPT !.state = "disconnected"] /\ Goto("consumer", "over")
    /\ awVal' = [awVal EXCEPT !["consumer"] = NoVal]
    /\ UNCHANGED <<awSocks, awCalls>>

WakeUp ==
    /\ awPc["consumer"] = "sleeping"
    /\ Goto("consumer", "dial")
    /\ UNCHANGED <<aws, awSocks, awVal, awCalls>>

-----------------------------------------------------------------------------
(* disconnect(), subscribe(), unsubscribe() *)

CloseSock == IF aws.sock = NoSock THEN awSocks ELSE [awSocks EXCEPT ![aws.sock].state = "closed"]

DisconnectedNow ==
    /\ aws' = [aws EXCEPT !.sock = NoSock, !.state = "disconnected", !.attempts = 0,
                          !.redials = 0, !.subs = {}]
    /\ awVal' = [t \in Tasks |-> [awVal[t] EXCEPT !.past = {}, !.skip = {}]]

\* Nothing is awaited when there is no socket.
UserDisconnects ==
    /\ Call
    /\ awSocks' = CloseSock
    /\ IF aws.sock = NoSock
       THEN DisconnectedNow /\ UNCHANGED awPc
       ELSE Goto("user", "closing") /\ UNCHANGED <<aws, awVal>>

DisconnectEnds ==
    /\ awPc["user"] = "closing"
    /\ DisconnectedNow
    /\ Goto("user", "idle")
    /\ UNCHANGED <<awSocks, awCalls>>

\* An insert may make the dictionary a new table, without the holes of what was removed.
\* An iteration of the consumer under way keeps its position, and is past the entries
\* that have closed up over holes behind it: none before its first entry.  How full the
\* table is, and how many holes it has, is left open.
Overtaken(f) ==
    IF awPc["consumer"] = "resubscribe" /\ awVal["consumer"].left < awVal["consumer"].size
    THEN SUBSET ((aws.subs \cup {f}) \ awVal["consumer"].past)
    ELSE {{}}

\* subscribe(): without a connection nothing is sent.
UserSubscribes(f) ==
    /\ Call
    /\ f \notin aws.subs
    /\ \E skips \in Overtaken(f) :
          /\ aws' = [aws EXCEPT !.subs = @ \cup {f}, !.passed = @ \cup skips]
          /\ awVal' = [awVal EXCEPT !["consumer"].skip = @ \cup skips]
    /\ awSocks' = Delivered(f, FALSE)
    /\ UNCHANGED awPc

UserUnsubscribes(f) ==
    /\ Call
    /\ f \in aws.subs
    /\ aws' = [aws EXCEPT !.subs = @ \ {f}]
    /\ awSocks' = Delivered(f, TRUE)
    /\ awVal' = [t \in Tasks |-> [awVal[t] EXCEPT !.past = @ \ {f}, !.skip = @ \ {f}]]
    /\ UNCHANGED awPc

-----------------------------------------------------------------------------

ServerCloses(s) ==
    /\ awSocks[s].state = "open"
    /\ awSocks' = [awSocks EXCEPT ![s].state = "closed"]
    /\ UNCHANGED <<aws, awPc, awVal, awCalls>>

DialStep(t) ==
    \/ DialSucceeds(t) \/ DialFails(t)
    \/ ResubscribeNext(t) \/ Resubscribed(t) \/ ResubscribeFails(t)

AWNext ==
    \/ UserConnects \/ UserDisconnects \/ DisconnectEnds
    \/ \E f \in Filters : UserSubscribes(f) \/ UserUnsubscribes(f)
    \/ \E t \in Tasks : DialStep(t)
    \/ ConsumerStarts \/ MessageArrives \/ SocketEnds \/ SocketBreaks \/ WakeUp
    \/ \E s \in Slots : ServerCloses(s)

AWSpec == AWInit /\ [][AWNext]_awVars

-----------------------------------------------------------------------------
(* Properties *)

\* A server that accepts and closes spends the budget: one events() reconnects
\* max_reconnect_attempts times at most, however many of its dials succeed.
AsyncBudgetHeld == aws.redials <= MaxRetries

\* A consumer that reads the socket the client has receives the events of the
\* subscriptions the client holds and of no other, whatever subscribe() and
\* unsubscribe() did while it was reconnecting, unless subscribing again raised to the
\* caller; but for entries that an insert under the iteration has moved it past.
AsyncSubscriptionsReachServer ==
    /\ awPc = [t \in Tasks |-> IF t = "consumer" THEN "reading" ELSE "idle"]
    /\ aws.state = "connected" /\ ~aws.raised
    /\ awVal["consumer"].sock = aws.sock /\ aws.sock \in In("open")
    => /\ awSocks[aws.sock].subs \subseteq aws.subs
       /\ aws.subs \subseteq awSocks[aws.sock].subs \cup aws.passed
=============================================================================

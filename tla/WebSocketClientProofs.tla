------------------------- MODULE WebSocketClientProofs -------------------------
(***************************************************************************)
(* Theorems about WebSocketClient, for all filters, budgets and bounds:    *)
(* its safety properties.                                                  *)
(***************************************************************************)
EXTENDS WebSocketClientInvariants, FiniteSetTheorems, TLAPS

-----------------------------------------------------------------------------
(* The threads and the values they hold *)

\* The threads are of three kinds.
LEMMA Kinds ==
    /\ User \in Threads /\ User \in Dialers /\ User \notin Receivers
    /\ \A n \in Timers : /\ Timer(n) \in Threads /\ Timer(n) \in Dialers
                         /\ Timer(n) \notin Receivers /\ Timer(n) # User
                         /\ \A k \in Timers : Timer(k) = Timer(n) => k = n
    /\ \A r \in Receivers : r \in Threads /\ r # User /\ r \notin Dialers
    /\ \A s \in Sockets : Receiver(s) \in Receivers
    /\ \A x \in Dialers : x \in Threads /\ (x = User \/ \E n \in Timers : x = Timer(n))
    /\ \A x \in Threads : x \in Dialers \/ x \in Receivers
  BY DEF User, Timer, Receiver, Dialers, Receivers, Threads

\* Where the threads of each kind may be.
PcTyped ==
    /\ DOMAIN pc = Threads /\ pc[User] \in UserPcs
    /\ \A n \in Timers : pc[Timer(n)] \in TimerPcs
    /\ \A r \in Receivers : pc[r] \in ReceiverPcs

AttributesTyped ==
    /\ state \in {"disconnected", "connecting", "connected", "reconnecting"}
    /\ ws \in Sockets \cup {NoSocket}
    /\ attempts \in Nat
    /\ connectedAt \in BOOLEAN /\ stopEvent \in BOOLEAN
    /\ timer \in Timers \cup {NoTimer}
    /\ subscriptions \subseteq Filters

SocketsTyped ==
    /\ sockets \in [Sockets -> {"new", "open", "closed"}]
    /\ subscribed \in [Sockets -> SUBSET Filters]

ValuesTyped ==
    /\ sock \in [Threads -> Sockets \cup {NoSocket}]
    /\ filter \in [Dialers -> Filters \cup {NoFilter}]
    /\ iter \in [Dialers -> Iterations]

CommandTyped ==
    \A x \in Dialers :
        pc[x] \in {"sending", "subscribing", "unsubscribing"} => filter[x] \in Filters

CallsTyped ==
    /\ calls \in [Methods -> Nat] /\ final \in BOOLEAN /\ untold \in BOOLEAN
    /\ passed \subseteq Filters

LEMMA TypeParts ==
    TypeOK <=> /\ PcTyped /\ AttributesTyped /\ SocketsTyped /\ ValuesTyped
               /\ CommandTyped /\ CallsTyped
  BY DEF TypeOK, PcTyped, AttributesTyped, SocketsTyped, ValuesTyped, CommandTyped, CallsTyped,
         Receivers

LEMMA TypePartsNext ==
    ASSUME PcTyped', AttributesTyped', SocketsTyped', ValuesTyped', CommandTyped', CallsTyped'
    PROVE  TypeOK'
  BY DEF TypeOK, PcTyped, AttributesTyped, SocketsTyped, ValuesTyped, CommandTyped, CallsTyped,
         Receivers

\* A step of one thread leaves the others where they are.
LEMMA Moved ==
    ASSUME PcTyped, NEW x \in Threads, NEW p, Goto(x, p)
    PROVE  /\ DOMAIN pc' = Threads /\ pc'[x] = p
           /\ \A y \in Threads \ {x} : pc'[y] = pc[y]
  BY DEF PcTyped, Goto

\* Where a step may take a thread of each kind.
LEMMA MovedTyped ==
    ASSUME PcTyped, NEW x \in Threads, NEW p, Goto(x, p),
           x = User => p \in UserPcs,
           \A n \in Timers : x = Timer(n) => p \in TimerPcs,
           x \in Receivers => p \in ReceiverPcs
    PROVE  PcTyped'
<1>1. /\ DOMAIN pc' = Threads /\ pc'[x] = p /\ \A y \in Threads \ {x} : pc'[y] = pc[y]
  BY Moved
<1> QED  BY <1>1, Kinds DEF PcTyped

LEMMA ReceiversOf ==
    \A r \in Receivers : \E s \in Sockets : r = Receiver(s)
  BY DEF Receivers

LEMMA FilterCounts ==
    ASSUME NEW S \in SUBSET Filters
    PROVE  /\ IsFiniteSet(S) /\ Cardinality(S) \in 0 .. Cardinality(Filters)
           /\ Cardinality(Filters) \in Nat
           /\ \A f \in Filters \ S : Cardinality(S \cup {f}) = Cardinality(S) + 1
           /\ \A f \in S : Cardinality(S \ {f}) = Cardinality(S) - 1
           /\ \A T \in SUBSET S : Cardinality(T) \in Nat /\ Cardinality(T) <= Cardinality(S)
           /\ Cardinality(S) = 0 <=> S = {}
<1>1. IsFiniteSet(S) /\ Cardinality(S) <= Cardinality(Filters)
  BY FiltersAssumption, FS_Subset
<1>2. Cardinality(S) \in Nat /\ Cardinality(Filters) \in Nat
  BY <1>1, FiltersAssumption, FS_CardinalityType
<1>3. \A f \in Filters \ S : Cardinality(S \cup {f}) = Cardinality(S) + 1
  BY <1>1, FS_AddElement
<1>4. \A f \in S : Cardinality(S \ {f}) = Cardinality(S) - 1
  BY <1>1, FS_RemoveElement
<1>5. \A T \in SUBSET S : Cardinality(T) \in Nat /\ Cardinality(T) <= Cardinality(S)
  BY <1>1, FS_Subset, FS_CardinalityType
<1>6. Cardinality(S) = 0 <=> S = {}
  BY <1>1, FS_EmptySet
<1> QED  BY <1>1, <1>2, <1>3, <1>4, <1>5, <1>6

LEMMA NoCount == Cardinality({}) = 0
  BY FS_EmptySet

LEMMA NoIterationTyped == NoIteration \in Iterations
<1>1. Cardinality(Filters) \in Nat
  BY FilterCounts
<1> QED  BY <1>1 DEF NoIteration, Iterations

LEMMA Starts ==
    ASSUME Init
    PROVE  WebSocketInv
<1>1. NoIteration \in Iterations
  BY NoIterationTyped
<1>2. \A x \in Threads : pc[x] = IF x = User THEN "idle" ELSE "none"
  BY DEF Init
<1>3. TypeOK
  <2>1. PcTyped
    BY <1>2, Kinds DEF Init, PcTyped, UserPcs, TimerPcs, ReceiverPcs
  <2>2. AttributesTyped /\ SocketsTyped /\ CallsTyped
    BY DEF Init, AttributesTyped, SocketsTyped, CallsTyped
  <2>3. ValuesTyped
    BY <1>1 DEF Init, ValuesTyped
  <2>4. CommandTyped
    BY <1>2, Kinds DEF CommandTyped
  <2> QED BY <2>1, <2>2, <2>3, <2>4, TypeParts
<1>4. BudgetInv
  <2>1. Started = {}
    BY <1>2, Kinds DEF Started
  <2>2. Used = 0
    BY <1>2, Kinds DEF Used, Init
  <2>3. Started = 1 .. Used
    BY <2>1, <2>2
  <2> QED
    BY <1>2, <2>3, Kinds, BoundsAssumption DEF BudgetInv, Paid, InChain, Init
<1>5. FinalInv /\ NewInv /\ ~CanSend /\ ws = NoSocket
  BY DEF Init, FinalInv, NewInv, CanSend
<1>6. MissingInv /\ ExtraInv
  BY <1>5 DEF MissingInv, ExtraInv, HasSocket
<1>7. CommandInv /\ IterInv
  <2>1. \A x \in Dialers :
            /\ iter[x].past = {} /\ iter[x].skip = {}
            /\ Cardinality(iter[x].past) + iter[x].left <= iter[x].size
    <3>1. \A x \in Dialers : /\ iter[x].past = {} /\ iter[x].skip = {}
                             /\ iter[x].left = 0 /\ iter[x].size = 0
      BY DEF Init, NoIteration
    <3>2. \A x \in Dialers : Cardinality(iter[x].past) = 0
      BY <3>1, NoCount, Zenon
    <3> QED BY <3>1, <3>2
  <2>2. pc[User] = "idle" /\ \A n \in Timers : pc[Timer(n)] = "none"
    BY <1>2, Kinds
  <2> QED BY <2>1, <2>2 DEF CommandInv, IterInv
<1> QED  BY <1>3, <1>4, <1>5, <1>6, <1>7 DEF WebSocketInv, SubscriptionsInv

-----------------------------------------------------------------------------
(* Type correctness *)

\* What a dialer sends, and to which socket.
LEMMA SendTyped ==
    ASSUME AttributesTyped, SocketsTyped, sockets' = sockets, NEW f \in Filters,
           Send(subscribed[ws] \cup {f}) \/ Send(subscribed[ws] \ {f})
    PROVE  SocketsTyped'
<1>1. CASE ~CanSend
  BY <1>1 DEF Send, SocketsTyped
<1>2. CASE CanSend
  <2>1. subscribed[ws] \subseteq Filters
    BY <1>2 DEF CanSend, AttributesTyped, SocketsTyped
  <2>2. PICK F \in SUBSET Filters : subscribed' = [subscribed EXCEPT ![ws] = F]
    BY <1>2, <2>1 DEF Send
  <2> QED BY <2>2 DEF SocketsTyped
<1> QED  BY <1>1, <1>2

\* The threads that are about to send have a filter.
LEMMA CommandKept ==
    ASSUME CommandTyped,
           \A y \in Dialers :
               \/ pc'[y] = pc[y] /\ filter'[y] = filter[y]
               \/ pc'[y] \notin {"sending", "subscribing", "unsubscribing"}
               \/ filter'[y] \in Filters
    PROVE  CommandTyped'
  BY DEF CommandTyped

LEMMA DialTyped ==
    ASSUME TypeOK, NEW x \in Dialers, DialStep(x)
    PROVE  TypeOK'
<1>0. PcTyped /\ AttributesTyped /\ SocketsTyped /\ ValuesTyped /\ CallsTyped
      /\ CommandTyped
  BY TypeParts
<1>1. x \in Threads /\ x \notin Receivers
  BY Kinds
<1> USE DEF UserPcs, TimerPcs
<1>2. CASE DialSucceeds(x)
  <2>1. PcTyped'
    BY <1>0, <1>1, <1>2, MovedTyped DEF DialSucceeds
  <2>2. PICK s \in Sockets :
            ws' = s /\ sockets' = [sockets EXCEPT ![s] = "open"] /\ sock' = [sock EXCEPT ![x] = s]
    BY <1>2 DEF DialSucceeds, New
  <2>3. AttributesTyped'
    BY <1>0, <1>2, <2>2 DEF DialSucceeds, AttributesTyped
  <2>4. SocketsTyped' /\ ValuesTyped'
    BY <1>0, <1>2, <2>2 DEF DialSucceeds, SocketsTyped, ValuesTyped
  <2>5. CallsTyped'
    <3>1. passed' = UNION {iter[y].skip : y \in Dialers}
      BY <1>2 DEF DialSucceeds
    <3>2. \A y \in Dialers : iter[y].skip \subseteq Filters
      BY <1>0 DEF ValuesTyped, Iterations
    <3>3. passed' \subseteq Filters
      BY <3>1, <3>2
    <3> QED BY <1>0, <1>2, <3>3 DEF DialSucceeds, CallsTyped
  <2>20. CommandTyped'
    <3>1. filter' = filter /\ Goto(x, "dialed")
      BY <1>2 DEF DialSucceeds
    <3> QED BY <1>0, <1>1, <3>1, Moved, CommandKept, Kinds
  <2> QED BY <2>1, <2>3, <2>4, <2>5, <2>20, TypePartsNext
<1>3. CASE DialFails(x) \/ ResubscribeFails(x)
  <2>1. PICK p \in {"idle", "lost"} : Goto(x, p) /\ (p = "idle" <=> x = User)
    BY <1>3 DEF DialFails, ResubscribeFails, Fails
  <2>2. PcTyped'
    BY <1>0, <1>1, <2>1, Kinds, MovedTyped
  <2>3. AttributesTyped'
    BY <1>0, <1>3 DEF DialFails, ResubscribeFails, Fails, AttributesTyped
  <2>4. SocketsTyped' /\ CallsTyped'
    BY <1>0, <1>3 DEF DialFails, ResubscribeFails, SocketsTyped, CallsTyped, serverVars, userVars
  <2>5. ValuesTyped'
    BY <1>0, <1>3, NoIterationTyped DEF DialFails, ResubscribeFails, ValuesTyped
  <2>20. CommandTyped'
    <3>1. filter' = filter
      BY <1>3 DEF DialFails, ResubscribeFails
    <3> QED BY <1>0, <1>1, <2>1, <3>1, Moved, CommandKept, Kinds
  <2> QED BY <2>2, <2>3, <2>4, <2>5, <2>20, TypePartsNext
<1>4. CASE SetConnected(x)
  <2>1. PcTyped'
    BY <1>0, <1>1, <1>4, MovedTyped DEF SetConnected
  <2>2. AttributesTyped' /\ SocketsTyped'
    BY <1>0, <1>4 DEF SetConnected, AttributesTyped, SocketsTyped, serverVars
  <2>3. ValuesTyped' /\ CallsTyped'
    BY <1>0, <1>4 DEF SetConnected, ValuesTyped, CallsTyped, userVars
  <2>20. CommandTyped'
    <3>1. filter' = filter /\ Goto(x, "connected")
      BY <1>4 DEF SetConnected
    <3> QED BY <1>0, <1>1, <3>1, Moved, CommandKept, Kinds
  <2> QED BY <2>1, <2>2, <2>3, <2>20, TypePartsNext
<1>5. CASE StartReceiver(x)
  <2>1. PcTyped'
    <3>1. /\ pc' = [pc EXCEPT ![x] = "resubscribe", ![Receiver(sock[x])] = "check"]
      BY <1>5 DEF StartReceiver
    <3>2. \A y \in Dialers : y # Receiver(sock[x])
      BY DEF Dialers, User, Timer, Receiver
    <3>3. \A y \in Threads :
              pc'[y] = IF y = Receiver(sock[x]) THEN "check"
                       ELSE IF y = x THEN "resubscribe" ELSE pc[y]
      BY <1>0, <3>1 DEF PcTyped
    <3>4. DOMAIN pc' = Threads
      BY <1>0, <3>1 DEF PcTyped
    <3> QED BY <1>0, <3>2, <3>3, <3>4, Kinds DEF PcTyped, ReceiverPcs
  <2>2. AttributesTyped' /\ SocketsTyped'
    BY <1>0, <1>5 DEF StartReceiver, AttributesTyped, SocketsTyped, serverVars
  <2>3. ValuesTyped'
    <3>1. [past |-> {}, skip |-> {}, size |-> Cardinality(subscriptions),
           left |-> Cardinality(subscriptions)]
          \in Iterations
      BY <1>0, FilterCounts DEF AttributesTyped, Iterations
    <3> QED BY <1>0, <1>5, <3>1 DEF StartReceiver, ValuesTyped
  <2>4. CallsTyped'
    BY <1>0, <1>5 DEF StartReceiver, CallsTyped, userVars
  <2>20. CommandTyped'
    <3>1. \A y \in Dialers : y # Receiver(sock[x])
      BY DEF Dialers, User, Timer, Receiver
    <3>2. /\ pc' = [pc EXCEPT ![x] = "resubscribe", ![Receiver(sock[x])] = "check"]
          /\ filter' = filter
      BY <1>5 DEF StartReceiver
    <3>3. pc'[x] = "resubscribe" /\ \A y \in Dialers \ {x} : pc'[y] = pc[y]
      BY <1>0, <3>1, <3>2, Kinds DEF PcTyped
    <3> QED BY <1>0, <3>2, <3>3, CommandKept
  <2> QED BY <2>1, <2>2, <2>3, <2>4, <2>20, TypePartsNext
<1>6. CASE ResubscribeNext(x)
  <2>1. PcTyped'
    BY <1>0, <1>1, <1>6, MovedTyped DEF ResubscribeNext
  <2>2. AttributesTyped' /\ SocketsTyped' /\ CallsTyped'
    BY <1>0, <1>6
       DEF ResubscribeNext, AttributesTyped, SocketsTyped, CallsTyped, clientVars, serverVars,
           userVars
  <2>3. PICK f \in Rest(x) :
            /\ filter' = [filter EXCEPT ![x] = f] /\ sock' = sock
            /\ iter' = [iter EXCEPT ![x].past = @ \cup {f}, ![x].left = @ - 1]
    BY <1>6, Zenon DEF ResubscribeNext
  <2>4. f \in Filters
    BY <1>0 DEF Rest, AttributesTyped
  <2>5. iter[x].left > 0
    BY <1>6 DEF ResubscribeNext, Intact
  <2>6. iter[x] \in Iterations
    BY <1>0 DEF ValuesTyped
  <2>7. iter' = [iter EXCEPT ![x] = [past |-> iter[x].past \cup {f}, skip |-> iter[x].skip,
                                     size |-> iter[x].size, left |-> iter[x].left - 1]]
    BY <1>0, <2>3, <2>6 DEF ValuesTyped, Iterations
  <2>8. [past |-> iter[x].past \cup {f}, skip |-> iter[x].skip, size |-> iter[x].size,
         left |-> iter[x].left - 1]
        \in Iterations
    <3>1. /\ iter[x].past \in SUBSET Filters /\ iter[x].skip \in SUBSET Filters
          /\ iter[x].size \in 0 .. Cardinality(Filters)
          /\ iter[x].left \in 0 .. Cardinality(Filters) /\ Cardinality(Filters) \in Nat
      BY <2>6, FilterCounts DEF Iterations
    <3>2. iter[x].left - 1 \in 0 .. Cardinality(Filters)
      BY <2>5, <3>1
    <3>3. iter[x].past \cup {f} \in SUBSET Filters
      BY <2>4, <3>1
    <3> QED BY <3>1, <3>2, <3>3 DEF Iterations
  <2>9. ValuesTyped'
    BY <1>0, <2>3, <2>4, <2>7, <2>8 DEF ValuesTyped
  <2>20. CommandTyped'
    <3>1. Goto(x, "sending")
      BY <1>6 DEF ResubscribeNext
    <3> QED BY <1>0, <1>1, <2>3, <2>4, <3>1, Moved, CommandKept, Kinds DEF ValuesTyped
  <2> QED BY <2>1, <2>2, <2>9, <2>20, TypePartsNext
<1>7. CASE ResubscribeSend(x)
  <2>1. PcTyped'
    BY <1>0, <1>1, <1>7, MovedTyped DEF ResubscribeSend
  <2>2. AttributesTyped' /\ CallsTyped'
    BY <1>0, <1>7 DEF ResubscribeSend, AttributesTyped, CallsTyped, clientVars, userVars
  <2>3. ValuesTyped'
    BY <1>0, <1>7 DEF ResubscribeSend, ValuesTyped
  <2>4. SocketsTyped'
    <3>1. filter[x] \in Filters
      BY <1>0, <1>7 DEF ResubscribeSend, CommandTyped
    <3>2. Send(subscribed[ws] \cup {filter[x]}) /\ sockets' = sockets
      BY <1>7 DEF ResubscribeSend, SendSubscribe
    <3> QED BY <1>0, <3>1, <3>2, SendTyped
  <2>20. CommandTyped'
    <3>1. Goto(x, "resubscribe") /\ filter' = [filter EXCEPT ![x] = NoFilter]
      BY <1>7 DEF ResubscribeSend
    <3> QED BY <1>0, <1>1, <3>1, Moved, CommandKept, Kinds DEF ValuesTyped
  <2> QED BY <2>1, <2>2, <2>3, <2>4, <2>20, TypePartsNext
<1>8. CASE Resubscribed(x)
  <2>1. PICK p \in {"idle", "done"} : Goto(x, p) /\ (p = "idle" <=> x = User)
    BY <1>8 DEF Resubscribed
  <2>2. PcTyped'
    BY <1>0, <1>1, <2>1, Kinds, MovedTyped
  <2>3. AttributesTyped' /\ SocketsTyped' /\ CallsTyped'
    BY <1>0, <1>8
       DEF Resubscribed, AttributesTyped, SocketsTyped, CallsTyped, clientVars, serverVars,
           userVars
  <2>4. ValuesTyped'
    BY <1>0, <1>8, NoIterationTyped DEF Resubscribed, ValuesTyped
  <2>20. CommandTyped'
    <3>1. filter' = filter
      BY <1>8 DEF Resubscribed
    <3> QED BY <1>0, <1>1, <2>1, <3>1, Moved, CommandKept, Kinds
  <2> QED BY <2>2, <2>3, <2>4, <2>20, TypePartsNext
<1> QED  BY <1>2, <1>3, <1>4, <1>5, <1>6, <1>7, <1>8 DEF DialStep

\* A step of a thread that goes nowhere near a command.
LEMMA GotoTyped ==
    ASSUME TypeOK, NEW x \in Threads, NEW p, Goto(x, p),
           x = User => p \in UserPcs,
           \A n \in Timers : x = Timer(n) => p \in TimerPcs,
           x \in Receivers => p \in ReceiverPcs,
           p \notin {"sending", "subscribing", "unsubscribing"},
           UNCHANGED <<filter, iter, calls, final, passed>>,
           AttributesTyped', SocketsTyped', untold' \in BOOLEAN,
           sock' \in [Threads -> Sockets \cup {NoSocket}]
    PROVE  TypeOK'
<1>1. PcTyped /\ ValuesTyped /\ CommandTyped /\ CallsTyped
  BY TypeParts
<1>2. PcTyped'
  BY <1>1, MovedTyped
<1>3. ValuesTyped' /\ CallsTyped'
  BY <1>1 DEF ValuesTyped, CallsTyped
<1>4. CommandTyped'
  BY <1>1, Moved, CommandKept, Kinds
<1> QED  BY <1>2, <1>3, <1>4, TypePartsNext

LEMMA LossTyped ==
    ASSUME TypeOK, NEW x \in Threads \ {User}, LossStep(x)
    PROVE  TypeOK'
<1>0. PcTyped /\ AttributesTyped /\ SocketsTyped /\ ValuesTyped /\ CallsTyped
  BY TypeParts
<1>1. ASSUME NEW p \in {"budget", "spend", "schedule", "done"}, Goto(x, p),
             UNCHANGED <<serverVars, sock, filter, iter, userVars>>, AttributesTyped'
      PROVE  TypeOK'
  <2>1. SocketsTyped' /\ untold' \in BOOLEAN
        /\ UNCHANGED <<filter, iter, calls, final, passed>>
    BY <1>0, <1>1 DEF SocketsTyped, serverVars, userVars, CallsTyped
  <2>2. sock' \in [Threads -> Sockets \cup {NoSocket}]
    BY <1>0, <1>1 DEF ValuesTyped
  <2> QED BY <1>1, <2>1, <2>2, GotoTyped DEF TimerPcs, ReceiverPcs
<1>2. CASE Lost(x)
  <2>1. AttributesTyped'
    <3>1. attempts' \in Nat
      BY <1>0, <1>2 DEF Lost, AttributesTyped
    <3>2. ws' = NoSocket /\ connectedAt' = FALSE
      BY <1>2 DEF Lost
    <3>3. UNCHANGED <<state, timer, stopEvent, subscriptions>>
      BY <1>2 DEF Lost
    <3> QED BY <1>0, <3>1, <3>2, <3>3 DEF AttributesTyped
  <2> QED BY <1>1, <1>2, <2>1 DEF Lost
<1>3. CASE Budget(x) \/ SpendAttempt(x) \/ GiveUp(x)
  <2>1. AttributesTyped'
    BY <1>0, <1>3 DEF Budget, SpendAttempt, GiveUp, AttributesTyped, clientVars
  <2>2. \E p \in {"spend", "schedule", "done"} : Goto(x, p)
    BY <1>3 DEF Budget, SpendAttempt, GiveUp
  <2>3. UNCHANGED <<serverVars, sock, filter, iter, userVars>>
    BY <1>3 DEF Budget, SpendAttempt, GiveUp
  <2> QED BY <1>1, <2>1, <2>2, <2>3
<1>4. CASE StartTimer(x)
  <2>1. PICK n \in Timers :
            timer' = n /\ pc' = [pc EXCEPT ![Timer(n)] = "armed", ![x] = "done"]
    BY <1>4 DEF StartTimer
  <2>2. /\ DOMAIN pc' = Threads
        /\ \A y \in Threads : pc'[y] = IF y = x THEN "done"
                                       ELSE IF y = Timer(n) THEN "armed" ELSE pc[y]
    BY <1>0, <2>1, Kinds DEF PcTyped
  <2>3. PcTyped'
    BY <1>0, <2>2, Kinds DEF PcTyped, TimerPcs, ReceiverPcs
  <2>4. AttributesTyped' /\ SocketsTyped'
    BY <1>0, <1>4, <2>1 DEF StartTimer, AttributesTyped, SocketsTyped, serverVars
  <2>5. ValuesTyped' /\ CallsTyped' /\ filter' = filter
    BY <1>0, <1>4 DEF StartTimer, ValuesTyped, CallsTyped, userVars
  <2>6. CommandTyped'
    BY <2>2, <2>5, Kinds, TypeParts DEF CommandTyped
  <2> QED BY <2>3, <2>4, <2>5, <2>6, TypePartsNext
<1> QED  BY <1>2, <1>3, <1>4 DEF LossStep

LEMMA ReceiverTyped ==
    ASSUME TypeOK, NEW r \in Receivers, ReceiverStep(r)
    PROVE  TypeOK'
<1>0. PcTyped /\ AttributesTyped /\ SocketsTyped /\ ValuesTyped /\ CallsTyped
  BY TypeParts
<1>1. r \in Threads \ {User} /\ \A n \in Timers : r # Timer(n)
  BY Kinds
<1>2. CASE Check(r) \/ Received(r) \/ RecvFails(r) \/ Failed(r) \/ Recv(r)
  <2>1. \E p \in {"recv", "done", "check", "failed", "lost", "receiving"} : Goto(r, p)
    BY <1>2 DEF Check, Received, RecvFails, Failed, Recv
  <2>2. UNCHANGED <<clientVars, serverVars, filter, iter, userVars>>
    BY <1>2 DEF Check, Received, RecvFails, Failed, Recv
  <2>3. sock' \in [Threads -> Sockets \cup {NoSocket}]
    BY <1>0, <1>2 DEF Check, Received, RecvFails, Failed, Recv, ValuesTyped, AttributesTyped
  <2>4. AttributesTyped' /\ SocketsTyped' /\ untold' \in BOOLEAN
    BY <1>0, <2>2
       DEF AttributesTyped, SocketsTyped, CallsTyped, clientVars, serverVars, userVars
  <2>5. UNCHANGED <<filter, iter, calls, final, passed>>
    BY <2>2 DEF userVars
  <2> QED BY <1>1, <2>1, <2>3, <2>4, <2>5, GotoTyped DEF ReceiverPcs
<1> QED  BY <1>1, <1>2, LossTyped DEF ReceiverStep

LEMMA CallTyped ==
    ASSUME CallsTyped, NEW m \in Methods, Call(m)
    PROVE  calls' \in [Methods -> Nat] /\ pc[User] = "idle"
  BY DEF CallsTyped, Call

\* disconnect() takes one timer at most from the client.
LEMMA Cancels ==
    ASSUME PcTyped, pc' = [TimerCancelled EXCEPT ![User] = "cancelled"]
    PROVE  /\ DOMAIN pc' = Threads /\ pc'[User] = "cancelled"
           /\ \A y \in Threads \ {User} :
                  \/ pc'[y] = pc[y]
                  \/ pc[y] = "armed" /\ y = Timer(timer) /\ pc'[y] = "cancelled"
           /\ timer \in Timers /\ pc[Timer(timer)] = "armed" =>
                  pc'[Timer(timer)] = "cancelled"
<1>1. CASE timer # NoTimer /\ pc[Timer(timer)] = "armed"
  <2>1. pc' = [[pc EXCEPT ![Timer(timer)] = "cancelled"] EXCEPT ![User] = "cancelled"]
    BY <1>1 DEF TimerCancelled
  <2> QED BY <1>1, <2>1, Kinds DEF PcTyped
<1>2. CASE ~(timer # NoTimer /\ pc[Timer(timer)] = "armed")
  <2>1. pc' = [pc EXCEPT ![User] = "cancelled"]
    BY <1>2 DEF TimerCancelled
  <2>2. timer \in Timers => timer # NoTimer
    BY DEF Timers, NoTimer
  <2> QED BY <1>2, <2>1, <2>2, Kinds DEF PcTyped
<1> QED  BY <1>1, <1>2

\* An insert adds to what iterations were moved past, and to nothing else of them.
LEMMA OvertakenTyped ==
    ASSUME ValuesTyped, AttributesTyped, CallsTyped, NEW f \in Filters, Subscribe(f)
    PROVE  /\ iter' \in [Dialers -> Iterations] /\ passed' \subseteq Filters
           /\ passed \subseteq passed'
           /\ \A x \in Dialers :
                  /\ iter'[x].past = iter[x].past /\ iter'[x].left = iter[x].left
                  /\ iter'[x].size = iter[x].size /\ iter[x].skip \subseteq iter'[x].skip
                  /\ iter'[x].skip \subseteq iter[x].skip \cup passed'
<1>1. PICK skips \in Overtaken(f) :
          /\ iter' = [x \in Dialers |-> IF x \in Iterating
                                       THEN [iter[x] EXCEPT !.skip = @ \cup skips[x]]
                                       ELSE iter[x]]
          /\ passed' = passed \cup UNION {skips[x] : x \in Iterating}
  BY DEF Subscribe
<1>2. \A x \in Iterating : skips[x] \subseteq Filters /\ skips[x] \subseteq passed'
  <2>1. skips \in [Iterating -> SUBSET (subscriptions \cup {f})]
    BY DEF Overtaken
  <2>2. subscriptions \cup {f} \subseteq Filters
    BY DEF AttributesTyped
  <2> QED BY <1>1, <2>1, <2>2
<1>3. passed' \subseteq Filters /\ passed \subseteq passed'
  BY <1>1, <1>2 DEF CallsTyped
<1>4. ASSUME NEW x \in Dialers
      PROVE  /\ iter'[x] \in Iterations
             /\ iter'[x].past = iter[x].past /\ iter'[x].left = iter[x].left
             /\ iter'[x].size = iter[x].size /\ iter[x].skip \subseteq iter'[x].skip
             /\ iter'[x].skip \subseteq iter[x].skip \cup passed'
  <2>1. iter[x] \in Iterations
    BY DEF ValuesTyped
  <2>2. CASE x \in Iterating
    <3>1. iter'[x] = [iter[x] EXCEPT !.skip = @ \cup skips[x]]
      BY <1>1, <2>2
    <3> QED BY <1>2, <2>1, <2>2, <3>1 DEF Iterations
  <2>3. CASE x \notin Iterating
    BY <1>1, <2>1, <2>3
  <2> QED BY <2>2, <2>3
<1>5. iter' \in [Dialers -> Iterations]
  <2>1. iter' = [x \in Dialers |-> iter'[x]]
    BY <1>1
  <2> QED BY <1>4, <2>1
<1> QED  BY <1>3, <1>4, <1>5

LEMMA UserTyped ==
    ASSUME TypeOK, UserCall \/ DisconnectStop \/ DisconnectClose \/ DisconnectEnds
                   \/ SubscribeEnds \/ UnsubscribeEnds
    PROVE  TypeOK'
<1>0. PcTyped /\ AttributesTyped /\ SocketsTyped /\ ValuesTyped /\ CommandTyped /\ CallsTyped
  BY TypeParts
<1>1. CASE Connect
  <2>1. calls' \in [Methods -> Nat]
    BY <1>0, <1>1, CallTyped DEF Connect, Methods
  <2>2. PcTyped' /\ CommandTyped'
    <3>1. CASE UNCHANGED pc
      BY <1>0, <1>1, <3>1 DEF Connect, PcTyped, CommandTyped
    <3>2. CASE Goto(User, "dial")
      <4>1. PcTyped'
        BY <1>0, <3>2, Kinds, MovedTyped DEF UserPcs
      <4>2. filter' = filter
        BY <1>1 DEF Connect
      <4> QED BY <1>0, <3>2, <4>1, <4>2, Moved, CommandKept, Kinds
    <3> QED BY <1>1, <3>1, <3>2 DEF Connect
  <2>3. AttributesTyped' /\ SocketsTyped' /\ ValuesTyped'
    BY <1>0, <1>1 DEF Connect, AttributesTyped, SocketsTyped, ValuesTyped, serverVars
  <2>4. CallsTyped'
    BY <1>0, <1>1, <2>1 DEF Connect, CallsTyped
  <2> QED BY <2>2, <2>3, <2>4, TypePartsNext
<1>2. CASE DisconnectCancel
  <2>1. calls' \in [Methods -> Nat]
    BY <1>0, <1>2, CallTyped DEF DisconnectCancel, Methods
  <2>2. /\ pc' = [TimerCancelled EXCEPT ![User] = "cancelled"]
        /\ timer' = NoTimer /\ final' = Settled
        /\ UNCHANGED <<state, ws, attempts, connectedAt, stopEvent, subscriptions, serverVars,
                       sock, filter, iter, passed, untold>>
    BY <1>2 DEF DisconnectCancel
  <2>3. PcTyped'
    BY <1>0, <2>2, Cancels, Kinds DEF PcTyped, UserPcs, TimerPcs, ReceiverPcs
  <2>4. CommandTyped'
    BY <1>0, <2>2, Cancels, Kinds DEF CommandTyped
  <2>5. AttributesTyped' /\ SocketsTyped' /\ ValuesTyped'
    BY <1>0, <2>2 DEF AttributesTyped, SocketsTyped, ValuesTyped, serverVars
  <2>6. Settled \in BOOLEAN
    BY DEF Settled
  <2>7. CallsTyped'
    BY <1>0, <2>1, <2>2, <2>6 DEF CallsTyped
  <2> QED BY <2>3, <2>4, <2>5, <2>7, TypePartsNext
<1>3. CASE \E f \in Filters : Subscribe(f) \/ Unsubscribe(f)
  <2>1. PICK f \in Filters : Subscribe(f) \/ Unsubscribe(f)
    BY <1>3
  <2>2. calls' \in [Methods -> Nat]
    BY <1>0, <2>1, CallTyped DEF Subscribe, Unsubscribe, Methods
  <2>3. /\ filter' = [filter EXCEPT ![User] = f]
        /\ \E p \in {"subscribing", "unsubscribing"} : Goto(User, p)
    BY <2>1 DEF Subscribe, Unsubscribe
  <2>4. PcTyped'
    BY <1>0, <2>3, MovedTyped, Kinds DEF UserPcs
  <2>5. CommandTyped'
    BY <1>0, <2>3, Moved, CommandKept, Kinds DEF ValuesTyped
  <2>6. AttributesTyped' /\ SocketsTyped'
    BY <1>0, <2>1 DEF Subscribe, Unsubscribe, AttributesTyped, SocketsTyped, serverVars
  <2>7. iter' \in [Dialers -> Iterations] /\ passed' \subseteq Filters
    <3>1. CASE Subscribe(f)
      BY <1>0, <2>1, <3>1, OvertakenTyped
    <3>2. CASE Unsubscribe(f)
      <4>1. iter' = [x \in Dialers |-> [iter[x] EXCEPT !.past = @ \ {f}, !.skip = @ \ {f}]]
        BY <3>2 DEF Unsubscribe
      <4>2. \A x \in Dialers : [iter[x] EXCEPT !.past = @ \ {f}, !.skip = @ \ {f}] \in Iterations
        BY <1>0 DEF ValuesTyped, Iterations
      <4>3. passed' = passed
        BY <3>2 DEF Unsubscribe
      <4> QED BY <1>0, <4>1, <4>2, <4>3 DEF CallsTyped
    <3> QED BY <2>1, <3>1, <3>2
  <2>8. ValuesTyped'
    BY <1>0, <2>1, <2>3, <2>7 DEF Subscribe, Unsubscribe, ValuesTyped
  <2>9. CallsTyped'
    BY <1>0, <2>1, <2>2, <2>7 DEF Subscribe, Unsubscribe, CallsTyped
  <2> QED BY <2>4, <2>5, <2>6, <2>8, <2>9, TypePartsNext
<1>4. CASE DisconnectStop \/ DisconnectClose
  <2>1. \E p \in {"stopped", "closed"} : Goto(User, p)
    BY <1>4 DEF DisconnectStop, DisconnectClose
  <2>2. UNCHANGED <<sock, filter, iter, calls, final, passed, untold>>
    BY <1>4 DEF DisconnectStop, DisconnectClose, userVars
  <2>3. AttributesTyped'
    BY <1>0, <1>4 DEF DisconnectStop, DisconnectClose, AttributesTyped
  <2>4. SocketsTyped'
    BY <1>0, <1>4 DEF DisconnectStop, DisconnectClose, SocketsTyped, AttributesTyped, serverVars
  <2>5. sock' \in [Threads -> Sockets \cup {NoSocket}] /\ untold' \in BOOLEAN
    BY <1>0, <2>2 DEF ValuesTyped, CallsTyped
  <2> QED BY <2>1, <2>2, <2>3, <2>4, <2>5, GotoTyped, Kinds DEF UserPcs
<1>5. CASE DisconnectEnds
  <2>1. Goto(User, "idle") /\ filter' = filter
    BY <1>5 DEF DisconnectEnds
  <2>2. PcTyped'
    BY <1>0, <2>1, MovedTyped, Kinds DEF UserPcs
  <2>3. CommandTyped'
    BY <1>0, <2>1, Moved, CommandKept, Kinds
  <2>4. AttributesTyped' /\ SocketsTyped' /\ CallsTyped'
    BY <1>0, <1>5 DEF DisconnectEnds, AttributesTyped, SocketsTyped, CallsTyped, serverVars
  <2>5. iter' = [x \in Dialers |-> [iter[x] EXCEPT !.past = {}, !.skip = {}]] /\ sock' = sock
    BY <1>5 DEF DisconnectEnds
  <2>6. \A x \in Dialers : [iter[x] EXCEPT !.past = {}, !.skip = {}] \in Iterations
    BY <1>0 DEF ValuesTyped, Iterations
  <2>7. ValuesTyped'
    BY <1>0, <2>1, <2>5, <2>6 DEF ValuesTyped
  <2> QED BY <2>2, <2>3, <2>4, <2>7, TypePartsNext
<1>6. CASE SubscribeEnds \/ UnsubscribeEnds
  <2>1. /\ Goto(User, "idle") /\ filter' = [filter EXCEPT ![User] = NoFilter]
        /\ UNCHANGED <<clientVars, sockets, sock, iter, calls, final, passed>>
        /\ Send(subscribed[ws] \cup {filter[User]}) \/ Send(subscribed[ws] \ {filter[User]})
        /\ untold' \in {untold, untold \/ (ws # NoSocket /\ ~CanSend)}
    BY <1>6 DEF SubscribeEnds, UnsubscribeEnds, SendSubscribe, SendUnsubscribe, userVars
  <2>2. filter[User] \in Filters
    BY <1>0, <1>6, Kinds DEF SubscribeEnds, UnsubscribeEnds, CommandTyped
  <2>3. PcTyped'
    BY <1>0, <2>1, MovedTyped, Kinds DEF UserPcs
  <2>4. CommandTyped'
    BY <1>0, <2>1, Moved, CommandKept, Kinds DEF ValuesTyped
  <2>5. AttributesTyped' /\ ValuesTyped'
    BY <1>0, <2>1 DEF AttributesTyped, ValuesTyped, clientVars
  <2>6. CallsTyped'
    BY <1>0, <2>1 DEF CallsTyped
  <2>7. SocketsTyped'
    BY <1>0, <2>1, <2>2, SendTyped
  <2> QED BY <2>3, <2>4, <2>5, <2>6, <2>7, TypePartsNext
<1> QED
  BY <1>1, <1>2, <1>3, <1>4, <1>5, <1>6 DEF UserCall

LEMMA TypeStep ==
    ASSUME TypeOK, [Next]_vars
    PROVE  TypeOK'
<1>1. CASE UserCall \/ UserStep
  BY <1>1, UserTyped, DialTyped, Kinds DEF UserStep
<1>2. ASSUME NEW n \in Timers, TimerStep(n) PROVE TypeOK'
  <2>1. CASE TimerFires(n)
    <3>1. PcTyped /\ AttributesTyped /\ SocketsTyped /\ ValuesTyped /\ CallsTyped
      BY TypeParts
    <3>2. /\ Goto(Timer(n), "dial")
          /\ UNCHANGED <<clientVars, serverVars, sock, filter, iter, userVars>>
      BY <2>1 DEF TimerFires
    <3>3. /\ AttributesTyped' /\ SocketsTyped' /\ untold' \in BOOLEAN
          /\ sock' \in [Threads -> Sockets \cup {NoSocket}]
          /\ UNCHANGED <<filter, iter, calls, final, passed>>
      BY <3>1, <3>2
         DEF AttributesTyped, SocketsTyped, CallsTyped, ValuesTyped, clientVars, serverVars,
             userVars
    <3> QED BY <3>2, <3>3, GotoTyped, Kinds DEF TimerPcs
  <2>2. CASE DialStep(Timer(n))
    BY <2>2, DialTyped, Kinds
  <2>3. CASE LossStep(Timer(n))
    BY <2>3, LossTyped, Kinds
  <2> QED BY <1>2, <2>1, <2>2, <2>3 DEF TimerStep
<1>3. ASSUME NEW s \in Sockets, ServerCloses(s) PROVE TypeOK'
  <2>1. PcTyped /\ AttributesTyped /\ SocketsTyped /\ ValuesTyped /\ CommandTyped /\ CallsTyped
    BY TypeParts
  <2>2. PcTyped' /\ AttributesTyped' /\ ValuesTyped' /\ CommandTyped'
    BY <1>3, <2>1
       DEF ServerCloses, PcTyped, AttributesTyped, ValuesTyped, CommandTyped, clientVars,
           threadVars
  <2>3. SocketsTyped' /\ CallsTyped'
    BY <1>3, <2>1 DEF ServerCloses, SocketsTyped, CallsTyped
  <2> QED BY <2>2, <2>3, TypePartsNext
<1>4. CASE UNCHANGED vars
  BY <1>4 DEF vars, clientVars, serverVars, threadVars, userVars, TypeOK
<1> QED  BY <1>1, <1>2, <1>3, <1>4, ReceiverTyped DEF Next

-----------------------------------------------------------------------------
(* The retry budget *)

\* A call is one more of its method, and no other than the first connect() is quiet.
LEMMA CallFacts ==
    ASSUME TypeOK, NEW m \in Methods, Call(m)
    PROVE  /\ pc[User] = "idle" /\ calls'[m] # 0
           /\ Quiet' => Quiet /\ m = "connect" /\ calls["connect"] = 0
<1>1. pc[User] = "idle" /\ calls' = [calls EXCEPT ![m] = @ + 1]
  BY DEF Call
<1>2. calls \in [Methods -> Nat]
  BY DEF TypeOK
<1>3. /\ calls'[m] = calls[m] + 1 /\ calls[m] \in Nat
      /\ \A k \in Methods : calls[k] \in Nat /\ calls[k] <= calls'[k] /\ calls'[k] \in Nat
  BY <1>1, <1>2
<1>4. ASSUME Quiet' PROVE Quiet /\ m = "connect" /\ calls["connect"] = 0
  <2>1. /\ ~MayBeStable
        /\ \A k \in Methods : calls'[k] <= (IF k = "connect" THEN 1 ELSE 0)
    BY <1>4 DEF Quiet
  <2>2. m = "connect"
    BY <1>3, <2>1
  <2>3. calls["connect"] = 0
    BY <1>3, <2>1, <2>2
  <2>4. Quiet
    BY <1>3, <2>1 DEF Quiet
  <2> QED BY <2>2, <2>3, <2>4
<1> QED  BY <1>1, <1>3, <1>4

LEMMA SameCalls ==
    ASSUME [Next]_vars, ~UserCall
    PROVE  calls' = calls
<1>1. ASSUME NEW x \in Threads, DialStep(x) PROVE calls' = calls
  BY <1>1, Zenon
     DEF DialStep, DialSucceeds, DialFails, SetConnected, StartReceiver, ResubscribeNext,
         ResubscribeSend, Resubscribed, ResubscribeFails, userVars
<1>2. ASSUME NEW x \in Threads, LossStep(x) PROVE calls' = calls
  BY <1>2, Zenon DEF LossStep, Lost, Budget, SpendAttempt, GiveUp, StartTimer, userVars
<1>3. CASE UserStep
  BY <1>1, <1>3, Kinds
     DEF UserStep, DisconnectStop, DisconnectClose, DisconnectEnds, SubscribeEnds,
         UnsubscribeEnds, userVars
<1>4. ASSUME NEW n \in Timers, TimerStep(n) PROVE calls' = calls
  BY <1>1, <1>2, <1>4, Kinds DEF TimerStep, TimerFires, userVars
<1>5. ASSUME NEW r \in Receivers, ReceiverStep(r) PROVE calls' = calls
  BY <1>2, <1>5, Kinds DEF ReceiverStep, Check, Recv, Received, RecvFails, Failed, userVars
<1> QED
  BY <1>3, <1>4, <1>5 DEF Next, ServerCloses, vars, userVars

\* The thread the chain is at is the only one of it.
LEMMA Alone ==
    ASSUME TypeOK, Paid, NEW x \in Threads, InChain(x)
    PROVE  /\ \A y \in Threads \ {x} : ~InChain(y)
           /\ calls["connect"] # 0 /\ attempts <= MaxReconnectAttempts
           /\ pc[x] = "spend" => attempts < MaxReconnectAttempts
           /\ Started = 1 .. (IF pc[x] = "schedule" THEN attempts - 1 ELSE attempts)
<1>1. \A y \in Threads \ {x} : ~InChain(y)
  BY DEF Paid
<1>2. (\E y \in Threads : pc[y] = "schedule") <=> pc[x] = "schedule"
  BY <1>1 DEF InChain
<1> QED  BY <1>1, <1>2 DEF Paid, Used

\* What it takes for a step to leave the chain at thread z, or nowhere.
LEMMA Linked ==
    ASSUME NEW z \in Threads,
           \A y \in Threads \ {z} : ~InChain(y)',
           calls'["connect"] # 0, subscriptions' = {},
           pc'[User] \in {"idle", "dial", "dialed", "connected", "resubscribe"},
           \A x \in Dialers :
               pc'[x] # "sending" /\ (pc'[x] = "resubscribe" => iter'[x].size = 0),
           attempts' \in Nat, attempts' <= MaxReconnectAttempts,
           pc'[z] = "spend" => attempts' < MaxReconnectAttempts,
           pc'[z] = "schedule" => attempts' > 0,
           Started' = 1 .. (IF pc'[z] = "schedule" THEN attempts' - 1 ELSE attempts')
    PROVE  Paid'
<1>1. \A y \in Threads \ {z} : pc'[y] \notin {"schedule", "spend"}
  BY DEF InChain
<1>2. (\E y \in Threads : pc'[y] = "schedule") <=> pc'[z] = "schedule"
  BY <1>1
<1>3. Used' = IF pc'[z] = "schedule" THEN attempts' - 1 ELSE attempts'
  BY <1>2 DEF Used
<1>4. \A x \in Threads : /\ pc'[x] = "spend" => attempts' < MaxReconnectAttempts
                         /\ pc'[x] = "schedule" => attempts' > 0
  BY <1>1
<1>5. \A x, y \in Threads : InChain(x)' /\ InChain(y)' => x = y
  OBVIOUS
<1> QED  BY <1>3, <1>4, <1>5 DEF Paid

\* A thread of the chain moves on, without a timer or an iteration.
LEMMA MovesOn ==
    ASSUME TypeOK, Paid, NEW x \in Threads, InChain(x), pc[x] # "schedule",
           NEW p, Goto(x, p), p \notin {"none", "sending", "resubscribe", "schedule"},
           x = User => p \in {"idle", "dial", "dialed", "connected"},
           p = "spend" => attempts < MaxReconnectAttempts,
           UNCHANGED <<calls, subscriptions, attempts, iter>>
    PROVE  Paid'
<1>1. /\ \A y \in Threads \ {x} : ~InChain(y)
      /\ calls["connect"] # 0 /\ attempts <= MaxReconnectAttempts
      /\ Started = 1 .. attempts
  BY Alone
<1>2. /\ DOMAIN pc' = Threads /\ pc'[x] = p /\ \A y \in Threads \ {x} : pc'[y] = pc[y]
  BY Moved, TypeParts
<1>3. \A y \in Threads \ {x} : ~InChain(y)'
  BY <1>1, <1>2 DEF InChain
<1>4. Started' = Started
  <2>1. pc[x] # "none"
    BY DEF InChain
  <2> QED BY <1>2, <2>1, Kinds DEF Started
<1>5. /\ subscriptions' = {}
      /\ pc'[User] \in {"idle", "dial", "dialed", "connected", "resubscribe"}
      /\ \A y \in Dialers :
             pc'[y] # "sending" /\ (pc'[y] = "resubscribe" => iter'[y].size = 0)
  BY <1>2, Kinds DEF Paid
<1>6. attempts' \in Nat
  BY DEF TypeOK
<1> QED  BY <1>1, <1>2, <1>3, <1>4, <1>5, <1>6, Linked

LEMMA DialPaid ==
    ASSUME TypeOK, Paid, NEW x \in Dialers, DialStep(x)
    PROVE  Paid'
<1>1. x \in Threads /\ DOMAIN pc = Threads
  BY Kinds DEF TypeOK
<1>2. pc[x] # "sending" /\ (pc[x] = "resubscribe" => iter[x].size = 0) /\ subscriptions = {}
  BY DEF Paid
<1>3. CASE DialSucceeds(x) \/ DialFails(x) \/ SetConnected(x)
  <2>1. InChain(x) /\ pc[x] # "schedule"
    BY <1>3 DEF DialSucceeds, DialFails, SetConnected, InChain
  <2>2. PICK p \in {"dialed", "idle", "lost", "connected"} :
            Goto(x, p) /\ (x = User => p # "lost")
    BY <1>3 DEF DialSucceeds, DialFails, SetConnected, Fails
  <2>3. UNCHANGED <<calls, subscriptions, attempts, iter>>
    BY <1>3 DEF DialSucceeds, DialFails, SetConnected, userVars
  <2> QED BY <1>1, <2>1, <2>2, <2>3, MovesOn
<1>4. CASE StartReceiver(x)
  <2>1. InChain(x) /\ pc[x] = "connected"
    BY <1>4 DEF StartReceiver, InChain
  <2>2. /\ \A y \in Threads \ {x} : ~InChain(y)
        /\ calls["connect"] # 0 /\ attempts <= MaxReconnectAttempts
        /\ Started = 1 .. attempts
    BY <1>1, <2>1, Alone
  <2>3. \A y \in Dialers : y # Receiver(sock[x])
    BY DEF Dialers, User, Timer, Receiver
  <2>4. pc' = [pc EXCEPT ![x] = "resubscribe", ![Receiver(sock[x])] = "check"]
    BY <1>4 DEF StartReceiver
  <2>5. /\ \A y \in Threads : y # Receiver(sock[x]) /\ y # x => pc'[y] = pc[y]
        /\ pc'[x] = "resubscribe"
        /\ Receiver(sock[x]) \in Threads => pc'[Receiver(sock[x])] = "check"
    BY <1>1, <2>3, <2>4
  <2>6. PICK z \in Threads : \A y \in Threads \ {z} : ~InChain(y)'
    BY <1>1, <2>2, <2>5 DEF InChain
  <2>7. Started' = Started
    BY <2>1, <2>3, <2>5, Kinds DEF Started
  <2>8. iter' = [iter EXCEPT ![x] = [past |-> {}, skip |-> {}, size |-> Cardinality(subscriptions),
                                     left |-> Cardinality(subscriptions)]]
    BY <1>4 DEF StartReceiver
  <2>9. iter'[x].size = 0 /\ \A y \in Dialers \ {x} : iter'[y] = iter[y]
    BY <1>2, <2>8, NoCount DEF TypeOK
  <2>10. UNCHANGED <<calls, subscriptions, attempts>> /\ attempts \in Nat
    BY <1>4 DEF StartReceiver, userVars, TypeOK
  <2>11. /\ pc'[User] \in {"idle", "dial", "dialed", "connected", "resubscribe"}
         /\ \A y \in Dialers :
                pc'[y] # "sending" /\ (pc'[y] = "resubscribe" => iter'[y].size = 0)
    BY <2>3, <2>5, <2>9, Kinds DEF Paid
  <2>12. pc'[z] \notin {"spend", "schedule"}
    BY <2>1, <2>2, <2>5, <1>1 DEF InChain
  <2> QED BY <1>2, <2>2, <2>6, <2>7, <2>10, <2>11, <2>12, Linked
<1>5. CASE Resubscribed(x)
  <2>1. Goto(x, IF x = User THEN "idle" ELSE "done") /\ pc[x] = "resubscribe"
    BY <1>5 DEF Resubscribed
  <2>2. /\ pc'[x] \in {"idle", "done"} /\ (x = User => pc'[x] = "idle")
        /\ \A y \in Threads \ {x} : pc'[y] = pc[y]
    BY <1>1, <2>1, Moved, TypeParts
  <2>3. iter' = [iter EXCEPT ![x] = NoIteration]
        /\ UNCHANGED <<calls, subscriptions, attempts>>
    BY <1>5 DEF Resubscribed, clientVars, userVars
  <2>4. \A y \in Dialers \ {x} : iter'[y] = iter[y]
    BY <2>3 DEF TypeOK
  <2>5. Started' = Started
    BY <2>1, <2>2, Kinds DEF Started
  <2>6. \A y \in Threads : /\ InChain(y)' => InChain(y)
                           /\ pc'[y] = "spend" <=> pc[y] = "spend"
                           /\ pc'[y] = "schedule" <=> pc[y] = "schedule"
    BY <2>1, <2>2 DEF InChain
  <2>7. Used' = Used
    BY <2>3, <2>6 DEF Used
  <2>8. \A y \in Dialers :
            pc'[y] # "sending" /\ (pc'[y] = "resubscribe" => iter'[y].size = 0)
    BY <2>2, <2>4, Kinds DEF Paid
  <2>9. pc'[User] \in {"idle", "dial", "dialed", "connected", "resubscribe"}
    BY <2>2, Kinds DEF Paid
  <2> QED BY <2>3, <2>5, <2>6, <2>7, <2>8, <2>9 DEF Paid
<1>6. ~ResubscribeNext(x) /\ ~ResubscribeSend(x)
  BY <1>2 DEF ResubscribeNext, ResubscribeSend, Rest
<1>7. ~ResubscribeFails(x)
  <2>1. Rest(x) = {}
    BY <1>2 DEF Rest
  <2>2. pc[x] = "resubscribe" => Intact(x)
    BY <1>2, <2>1, NoCount DEF Intact
  <2> QED BY <2>2 DEF ResubscribeFails
<1> QED  BY <1>3, <1>4, <1>5, <1>6, <1>7 DEF DialStep

LEMMA LossPaid ==
    ASSUME TypeOK, Paid, ~MayBeStable, NEW x \in Threads \ {User}, LossStep(x)
    PROVE  Paid'
<1>0. x \in Threads /\ DOMAIN pc = Threads /\ attempts \in Nat
  BY DEF TypeOK
<1>1. InChain(x)
  BY DEF LossStep, Lost, Budget, SpendAttempt, GiveUp, StartTimer, InChain
<1>2. /\ \A y \in Threads \ {x} : ~InChain(y)
      /\ calls["connect"] # 0 /\ attempts <= MaxReconnectAttempts
      /\ pc[x] = "spend" => attempts < MaxReconnectAttempts
      /\ Started = 1 .. (IF pc[x] = "schedule" THEN attempts - 1 ELSE attempts)
  BY <1>0, <1>1, Alone
<1>3. CASE Lost(x) \/ Budget(x) \/ GiveUp(x)
  <2>1. pc[x] \in {"lost", "budget"} /\ UNCHANGED <<calls, subscriptions, attempts, iter>>
    BY <1>3 DEF Lost, Budget, GiveUp, userVars, clientVars
  <2>2. PICK p \in {"budget", "spend", "done"} :
            Goto(x, p) /\ (p = "spend" => attempts < MaxReconnectAttempts)
    BY <1>3 DEF Lost, Budget, GiveUp
  <2> QED BY <1>0, <1>1, <2>1, <2>2, MovesOn
<1>4. CASE SpendAttempt(x)
  <2>1. /\ Goto(x, "schedule") /\ pc[x] = "spend" /\ attempts' = attempts + 1
        /\ UNCHANGED <<calls, subscriptions, iter>>
    BY <1>4 DEF SpendAttempt, userVars
  <2>2. pc'[x] = "schedule" /\ \A y \in Threads \ {x} : pc'[y] = pc[y]
    BY <1>0, <2>1, Moved, TypeParts
  <2>3. \A y \in Threads \ {x} : ~InChain(y)'
    BY <1>2, <2>2 DEF InChain
  <2>4. Started' = Started
    BY <2>1, <2>2, Kinds DEF Started
  <2>5. /\ subscriptions' = {}
        /\ pc'[User] \in {"idle", "dial", "dialed", "connected", "resubscribe"}
        /\ \A y \in Dialers :
               pc'[y] # "sending" /\ (pc'[y] = "resubscribe" => iter'[y].size = 0)
    BY <2>1, <2>2, Kinds DEF Paid
  <2>6. /\ attempts' \in Nat /\ attempts' <= MaxReconnectAttempts /\ attempts' > 0
        /\ attempts' - 1 = attempts
    BY <1>0, <1>2, <2>1, BoundsAssumption
  <2>7. Started' = 1 .. (attempts' - 1)
    BY <1>2, <2>1, <2>4, <2>6
  <2> QED BY <1>0, <1>2, <2>1, <2>2, <2>3, <2>5, <2>6, <2>7, Linked
<1>5. CASE StartTimer(x)
  <2>1. PICK n \in Timers :
            /\ pc[Timer(n)] = "none" /\ \A k \in 1 .. n - 1 : pc[Timer(k)] # "none"
            /\ pc' = [pc EXCEPT ![Timer(n)] = "armed", ![x] = "done"]
    BY <1>5 DEF StartTimer
  <2>2. pc[x] = "schedule" /\ UNCHANGED <<calls, subscriptions, attempts, iter>>
    BY <1>5 DEF StartTimer, userVars
  <2>3. Timer(n) # x /\ Timer(n) \in Threads
    BY <2>1, <2>2, Kinds
  <2>4. /\ pc'[x] = "done" /\ pc'[Timer(n)] = "armed"
        /\ \A y \in Threads \ {x, Timer(n)} : pc'[y] = pc[y]
    BY <1>0, <2>1, <2>3
  <2>5. \A y \in Threads \ {Timer(n)} : ~InChain(y)'
    BY <1>2, <2>4 DEF InChain
  <2>6. n = attempts /\ attempts > 0
    <3>1. Started = 1 .. attempts - 1 /\ attempts > 0
      BY <1>0, <1>2, <2>2 DEF Paid
    <3>2. n \in Nat /\ n > 0
      BY BoundsAssumption DEF Timers
    <3>3. n \notin Started
      BY <2>1 DEF Started
    <3>4. \A k \in 1 .. n - 1 : k \in Started
      <4>1. \A k \in 1 .. n - 1 : k \in Timers
        BY BoundsAssumption DEF Timers, Methods
      <4> QED BY <2>1, <4>1 DEF Started
    <3>5. n >= attempts
      BY <1>0, <3>1, <3>2, <3>3
    <3>6. n - 1 <= attempts - 1
      <4>1. CASE n = 1
        BY <1>0, <3>1, <4>1
      <4>2. CASE n > 1
        <5>1. n - 1 \in 1 .. n - 1
          BY <3>2, <4>2
        <5>2. n - 1 \in 1 .. attempts - 1
          BY <3>1, <3>4, <5>1
        <5> QED BY <1>0, <3>2, <5>2
      <4> QED BY <3>2, <4>1, <4>2
    <3> QED BY <1>0, <3>1, <3>2, <3>5, <3>6
  <2>7. Started' = 1 .. attempts
    <3>1. Started' = Started \cup {n}
      <4>1. \A k \in Timers : pc'[Timer(k)] # "none" <=> pc[Timer(k)] # "none" \/ k = n
        BY <2>2, <2>4, Kinds
      <4> QED BY <4>1 DEF Started
    <3>2. Started = 1 .. attempts - 1
      BY <1>2, <2>2
    <3> QED BY <1>0, <2>6, <3>1, <3>2
  <2>8. /\ subscriptions' = {}
        /\ pc'[User] \in {"idle", "dial", "dialed", "connected", "resubscribe"}
        /\ \A y \in Dialers :
               pc'[y] # "sending" /\ (pc'[y] = "resubscribe" => iter'[y].size = 0)
    BY <2>1, <2>2, <2>4, Kinds DEF Paid
  <2> QED BY <1>0, <1>2, <2>2, <2>3, <2>4, <2>5, <2>7, <2>8, Linked
<1> QED  BY <1>3, <1>4, <1>5 DEF LossStep

LEMMA BudgetStep ==
    ASSUME TypeOK, BudgetInv, [Next]_vars
    PROVE  BudgetInv'
<1> SUFFICES ASSUME Quiet' PROVE Paid'
  BY DEF BudgetInv
<1>1. CASE Connect
  <2>1. Call("connect") /\ "connect" \in Methods
    BY <1>1 DEF Connect, Methods
  <2>2. /\ Paid /\ pc[User] = "idle" /\ calls["connect"] = 0 /\ calls'["connect"] # 0
    BY <2>1, CallFacts DEF BudgetInv
  <2>3. \A y \in Threads : ~InChain(y)
    BY <2>2 DEF Paid
  <2>4. Started = 1 .. attempts /\ attempts \in Nat
    BY <2>2, <2>3 DEF Paid, Used, InChain, TypeOK
  <2>5. UNCHANGED <<subscriptions, attempts, iter>>
    BY <1>1 DEF Connect
  <2>6. pc'[User] \in {"idle", "dial"} /\ \A y \in Threads \ {User} : pc'[y] = pc[y]
    <3>1. CASE pc' = pc
      BY <2>2, <3>1
    <3>2. CASE Goto(User, "dial")
      BY <3>2, Moved, Kinds, TypeParts
    <3> QED BY <1>1, <3>1, <3>2 DEF Connect
  <2>7. \A y \in Threads \ {User} : ~InChain(y)'
    BY <2>3, <2>6 DEF InChain
  <2>8. Started' = Started
    BY <2>6, Kinds DEF Started
  <2>9. /\ subscriptions' = {}
        /\ \A y \in Dialers :
               pc'[y] # "sending" /\ (pc'[y] = "resubscribe" => iter'[y].size = 0)
    BY <2>2, <2>5, <2>6, Kinds DEF Paid
  <2>10. attempts <= MaxReconnectAttempts
    BY <2>2 DEF Paid
  <2> QED BY <2>2, <2>4, <2>5, <2>6, <2>7, <2>8, <2>9, <2>10, Kinds, Linked
<1>2. ~DisconnectCancel /\ \A f \in Filters : ~Subscribe(f) /\ ~Unsubscribe(f)
  <2>1. ASSUME NEW m \in {"disconnect", "subscribe", "unsubscribe"}, Call(m) PROVE FALSE
    BY <2>1, CallFacts DEF Methods
  <2> QED BY <2>1 DEF DisconnectCancel, Subscribe, Unsubscribe
<1>3. CASE ~UserCall
  <2>1. calls' = calls
    BY <1>3, SameCalls
  <2>2. Paid /\ ~MayBeStable
    BY <2>1 DEF BudgetInv, Quiet
  <2>3. pc[User] \in {"idle", "dial", "dialed", "connected", "resubscribe"}
    BY <2>2 DEF Paid
  <2>4. CASE UserStep
    <3>1. DialStep(User)
      BY <2>3, <2>4
         DEF UserStep, DisconnectStop, DisconnectClose, DisconnectEnds, SubscribeEnds,
             UnsubscribeEnds
    <3> QED BY <2>2, <3>1, DialPaid, Kinds
  <2>5. ASSUME NEW n \in Timers, TimerStep(n) PROVE Paid'
    <3>1. CASE TimerFires(n)
      <4>1. /\ Goto(Timer(n), "dial") /\ InChain(Timer(n)) /\ pc[Timer(n)] # "schedule"
            /\ UNCHANGED <<calls, subscriptions, attempts, iter>>
        BY <3>1 DEF TimerFires, InChain, clientVars, userVars
      <4> QED BY <2>2, <4>1, MovesOn, Kinds
    <3> QED BY <2>2, <2>5, <3>1, DialPaid, LossPaid, Kinds DEF TimerStep
  <2>6. ASSUME NEW r \in Receivers, ReceiverStep(r) PROVE Paid'
    <3>1. CASE Check(r) \/ Recv(r) \/ Received(r) \/ RecvFails(r) \/ Failed(r)
      <4>1. /\ InChain(r) /\ pc[r] # "schedule"
            /\ UNCHANGED <<calls, subscriptions, attempts, iter>>
        BY <3>1 DEF Check, Recv, Received, RecvFails, Failed, InChain, clientVars, userVars
      <4>2. \E p \in {"recv", "done", "failed", "receiving", "check", "lost"} : Goto(r, p)
        BY <3>1 DEF Check, Recv, Received, RecvFails, Failed
      <4> QED BY <2>2, <4>1, <4>2, MovesOn, Kinds
    <3> QED BY <2>2, <2>6, <3>1, LossPaid, Kinds DEF ReceiverStep
  <2>7. CASE UNCHANGED <<pc, iter, calls, subscriptions, attempts>>
    BY <2>2, <2>7 DEF Paid, Started, Used, InChain
  <2> QED
    BY <1>3, <2>4, <2>5, <2>6, <2>7
       DEF Next, ServerCloses, clientVars, threadVars, vars, userVars
<1> QED  BY <1>1, <1>2, <1>3 DEF UserCall

\* The budget bounds the timers of a quiet client.
LEMMA BudgetEnough ==
    ASSUME TypeOK, BudgetInv
    PROVE  BudgetHeld
<1> SUFFICES ASSUME Quiet PROVE Cardinality(Started) <= MaxReconnectAttempts
  BY DEF BudgetHeld
<1>1. Paid /\ attempts \in Nat
  BY DEF BudgetInv, TypeOK
<1>2. Used \in Int /\ Used <= attempts
  BY <1>1 DEF Used
<1>3. Cardinality(1 .. Used) = IF 1 > Used THEN 0 ELSE Used
  BY <1>2, FS_Interval
<1> QED  BY <1>1, <1>2, <1>3, BoundsAssumption DEF Paid

-----------------------------------------------------------------------------
(* disconnect() *)

\* Before the stop event is set no receive thread takes the socket for lost, and after
\* it none handles a loss.
LEMMA ReceiverDisconnected ==
    ASSUME TypeOK, Disconnected, NEW r \in Receivers, ReceiverStep(r)
    PROVE  Disconnected'
<1>0. DOMAIN pc = Threads /\ r \in Threads /\ r # User /\ \A n \in Timers : r # Timer(n)
  BY Kinds DEF TypeOK
<1>1. /\ pc[User] = "cancelled" => ReceivingAlone
      /\ pc[User] # "cancelled" => stopEvent /\ pc[r] \notin {"lost", "budget", "spend", "schedule"}
  BY DEF Disconnected
<1>2. pc[User] = "cancelled" =>
          /\ \/ pc[r] \in {"none", "done"}
             \/ /\ Receives(r) /\ ws # NoSocket /\ sockets[ws] = "open"
                /\ pc[r] = "receiving" => sock[r] = ws
          /\ \A q \in Receivers : Receives(r) /\ Receives(q) => r = q
  BY <1>1 DEF ReceivingAlone
<1>3. ~LossStep(r)
  BY <1>1, <1>2 DEF LossStep, Lost, Budget, SpendAttempt, GiveUp, StartTimer, Receives
<1>4. CASE Check(r) \/ Recv(r) \/ Received(r) \/ RecvFails(r) \/ Failed(r)
  <2>1. UNCHANGED <<clientVars, serverVars>>
    BY <1>4 DEF Check, Recv, Received, RecvFails, Failed
  <2>2. PICK p : /\ Goto(r, p)
                 /\ p \in {"recv", "done", "failed", "receiving", "check", "lost"}
                 /\ p = "receiving" => Recv(r)
                 /\ p = "lost" => ~stopEvent
    BY <1>4 DEF Check, Recv, Received, RecvFails, Failed
  <2>3. pc'[r] = p /\ \A y \in Threads \ {r} : pc'[y] = pc[y]
    BY <2>2, <1>0, Moved, TypeParts
  <2>4. pc'[User] = pc[User] /\ \A n \in Timers : pc'[Timer(n)] = pc[Timer(n)]
    BY <1>0, <2>3, Kinds
  <2>5. CASE pc[User] = "cancelled"
    <3>1. p \in {"recv", "done", "receiving", "check"}
      BY <1>2, <1>4, <2>2, <2>3, <2>5 DEF Check, Recv, Received, RecvFails, Failed, Receives, Goto
    <3>2. p = "receiving" => sock'[r] = ws
      BY <1>0, <2>2 DEF Recv, TypeOK
    <3>3. /\ \A q \in Receivers \ {r} : pc'[q] = pc[q] /\ sock'[q] = sock[q]
          /\ Receives(r)
      BY <1>2, <1>4, <2>3, <2>5, Kinds
         DEF Check, Recv, Received, RecvFails, Failed, Receives, TypeOK
    <3>4. ws' = ws /\ sockets' = sockets
      BY <2>1 DEF clientVars, serverVars
    <3>5. ReceivingAlone'
      BY <1>1, <1>2, <2>3, <2>5, <3>1, <3>2, <3>3, <3>4 DEF ReceivingAlone, Receives
    <3> QED BY <2>1, <2>4, <2>5, <3>5 DEF Disconnected, clientVars
  <2>6. CASE pc[User] # "cancelled"
    <3>1. p # "lost"
      BY <1>1, <2>2, <2>6
    <3>2. stopEvent' /\ state' = state
      BY <1>1, <2>1, <2>6 DEF clientVars
    <3>3. \A q \in Receivers : pc'[q] \notin {"lost", "budget", "spend", "schedule"}
      BY <2>2, <2>3, <2>6, <3>1, Kinds DEF Disconnected
    <3> QED BY <2>4, <2>6, <3>2, <3>3 DEF Disconnected
  <2> QED BY <2>5, <2>6
<1> QED  BY <1>3, <1>4 DEF ReceiverStep

\* A step of the user that is neither a connect() nor the start of a disconnect().
LEMMA UserDisconnected ==
    ASSUME TypeOK, Disconnected,
           \/ DisconnectStop \/ DisconnectClose \/ DisconnectEnds
           \/ SubscribeEnds \/ UnsubscribeEnds
           \/ \E f \in Filters : Subscribe(f) \/ Unsubscribe(f)
    PROVE  Disconnected'
<1>0. DOMAIN pc = Threads /\ User \in Threads
  BY Kinds DEF TypeOK
<1>1. PICK p \in {"stopped", "closed", "idle", "subscribing", "unsubscribing"} : Goto(User, p)
  BY DEF DisconnectStop, DisconnectClose, DisconnectEnds, SubscribeEnds, UnsubscribeEnds,
         Subscribe, Unsubscribe
<1>2. pc'[User] = p /\ \A y \in Threads \ {User} : pc'[y] = pc[y]
  BY <1>0, <1>1, Moved, TypeParts
<1>3. /\ \A n \in Timers : pc'[Timer(n)] = pc[Timer(n)]
      /\ \A r \in Receivers : pc'[r] = pc[r]
  BY <1>2, Kinds
<1>4. CASE DisconnectStop
  <2>1. stopEvent' /\ pc[User] = "cancelled" /\ Goto(User, "stopped")
    BY <1>4 DEF DisconnectStop
  <2>2. pc'[User] = "stopped"
    BY <1>0, <2>1, Moved, TypeParts
  <2>3. \A r \in Receivers : pc[r] \in {"none", "done", "check", "recv", "receiving"}
    BY <2>1 DEF Disconnected, ReceivingAlone, Receives
  <2> QED BY <1>3, <2>1, <2>2, <2>3 DEF Disconnected
<1>5. CASE DisconnectClose \/ DisconnectEnds
  <2>1. pc[User] \in {"stopped", "closed"} /\ stopEvent' = stopEvent
    BY <1>5 DEF DisconnectClose, DisconnectEnds
  <2>2. \/ Goto(User, "closed")
        \/ Goto(User, "idle") /\ state' = "disconnected"
    BY <1>5 DEF DisconnectClose, DisconnectEnds
  <2>3. \/ pc'[User] = "closed"
        \/ pc'[User] = "idle" /\ state' = "disconnected"
    BY <1>0, <2>2, Moved, TypeParts
  <2> QED BY <1>3, <2>1, <2>3 DEF Disconnected
<1>6. CASE \/ SubscribeEnds \/ UnsubscribeEnds
           \/ \E f \in Filters : Subscribe(f) \/ Unsubscribe(f)
  <2>1. /\ pc[User] \in {"idle", "subscribing", "unsubscribing"}
        /\ stopEvent' = stopEvent /\ state' = state
    BY <1>6 DEF SubscribeEnds, UnsubscribeEnds, Subscribe, Unsubscribe, Call, clientVars
  <2>2. pc'[User] \in {"idle", "subscribing", "unsubscribing"}
    <3>1. Goto(User, "idle") \/ Goto(User, "subscribing") \/ Goto(User, "unsubscribing")
      BY <1>6 DEF SubscribeEnds, UnsubscribeEnds, Subscribe, Unsubscribe
    <3> QED BY <1>0, <3>1, Moved, TypeParts
  <2> QED BY <1>3, <2>1, <2>2 DEF Disconnected
<1> QED  BY <1>4, <1>5, <1>6

LEMMA SameFinal ==
    ASSUME [Next]_vars, ~DisconnectCancel, ~Connect, \A s \in Sockets : ~ServerCloses(s)
    PROVE  final' = final
<1>1. ASSUME NEW x \in Threads, DialStep(x) PROVE final' = final
  BY <1>1, Zenon
     DEF DialStep, DialSucceeds, DialFails, SetConnected, StartReceiver, ResubscribeNext,
         ResubscribeSend, Resubscribed, ResubscribeFails, userVars
<1>2. ASSUME NEW x \in Threads, LossStep(x) PROVE final' = final
  BY <1>2, Zenon DEF LossStep, Lost, Budget, SpendAttempt, GiveUp, StartTimer, userVars
<1>3. CASE UserStep \/ UserCall
  BY <1>1, <1>3, Kinds
     DEF UserStep, UserCall, DisconnectStop, DisconnectClose, DisconnectEnds, SubscribeEnds,
         UnsubscribeEnds, Subscribe, Unsubscribe, userVars
<1>4. ASSUME NEW n \in Timers, TimerStep(n) PROVE final' = final
  BY <1>1, <1>2, <1>4, Kinds DEF TimerStep, TimerFires, userVars
<1>5. ASSUME NEW r \in Receivers, ReceiverStep(r) PROVE final' = final
  BY <1>2, <1>5, Kinds DEF ReceiverStep, Check, Recv, Received, RecvFails, Failed, userVars
<1> QED
  BY <1>3, <1>4, <1>5 DEF Next, vars, userVars

LEMMA FinalStep ==
    ASSUME TypeOK, FinalInv, [Next]_vars
    PROVE  FinalInv'
<1> SUFFICES ASSUME final' PROVE Disconnected'
  BY DEF FinalInv
<1>1. CASE DisconnectCancel
  <2>1. Settled
    BY <1>1 DEF DisconnectCancel
  <2>2. /\ pc' = [TimerCancelled EXCEPT ![User] = "cancelled"]
        /\ ws' = ws /\ sockets' = sockets /\ sock' = sock
    BY <1>1 DEF DisconnectCancel, serverVars
  <2>3. pc'[User] = "cancelled"
    BY <2>2, Cancels, TypeParts
  <2>4. \A n \in Timers : pc'[Timer(n)] \in {"none", "cancelled", "done"}
    BY <2>1, <2>2, Cancels, TypeParts, Kinds DEF Settled
  <2>5. \A r \in Receivers : pc'[r] = pc[r]
    BY <2>1, <2>2, Cancels, TypeParts, Kinds DEF PcTyped, ReceiverPcs
  <2>6. ReceivingAlone'
    BY <2>1, <2>2, <2>5 DEF Settled, ReceivingAlone, Receives
  <2> QED BY <2>3, <2>4, <2>6 DEF Disconnected
<1>2. ~Connect /\ \A s \in Sockets : ~ServerCloses(s)
  BY DEF Connect, ServerCloses
<1>3. CASE ~DisconnectCancel
  <2>1. final
    BY <1>2, <1>3, SameFinal
  <2>2. Disconnected
    BY <2>1 DEF FinalInv
  <2>3. ~DialStep(User)
    BY <2>2 DEF Disconnected, DialStep, DialSucceeds, DialFails, SetConnected, StartReceiver,
                ResubscribeNext, ResubscribeSend, Resubscribed, ResubscribeFails
  <2>4. ASSUME NEW n \in Timers PROVE ~TimerStep(n)
    BY <2>2
       DEF Disconnected, TimerStep, TimerFires, DialStep, DialSucceeds, DialFails, SetConnected,
           StartReceiver, ResubscribeNext, ResubscribeSend, Resubscribed, ResubscribeFails,
           LossStep, Lost, Budget, SpendAttempt, GiveUp, StartTimer
  <2>5. CASE UserCall \/ UserStep
    BY <1>2, <1>3, <2>2, <2>3, <2>5, UserDisconnected DEF UserCall, UserStep
  <2>6. CASE UNCHANGED vars
    BY <2>2, <2>6
       DEF vars, clientVars, serverVars, threadVars, Disconnected, ReceivingAlone, Receives
  <2> QED BY <1>2, <2>2, <2>4, <2>5, <2>6, ReceiverDisconnected DEF Next
<1> QED  BY <1>1, <1>3

\* A disconnect() that is final and over has left the client disconnected.
LEMMA FinalEnough ==
    ASSUME FinalInv
    PROVE  DisconnectIsFinal
  BY DEF FinalInv, Disconnected, DisconnectIsFinal, AtRest

-----------------------------------------------------------------------------
(* Subscriptions *)

\* The fields of an iteration, and what they count to.
LEMMA IterFields ==
    ASSUME TypeOK, NEW x \in Dialers
    PROVE  /\ iter[x].past \in SUBSET Filters /\ iter[x].skip \in SUBSET Filters
           /\ iter[x].left \in Nat /\ iter[x].size \in Nat
           /\ Cardinality(iter[x].past) \in Nat /\ IsFiniteSet(iter[x].past)
<1>1. iter[x] \in Iterations /\ Cardinality(Filters) \in Nat
  BY FilterCounts DEF TypeOK
<1>2. /\ iter[x].past \in SUBSET Filters /\ iter[x].skip \in SUBSET Filters
      /\ iter[x].left \in Nat /\ iter[x].size \in Nat
  BY <1>1 DEF Iterations
<1> QED  BY <1>2, FilterCounts

\* An iteration that loses an entry it was past does not get it back.
LEMMA DoomedKept ==
    ASSUME TypeOK, NEW n \in Timers, Doomed(n),
           pc'[Timer(n)] \in {"resubscribe", "sending"},
           iter'[Timer(n)].past \subseteq iter[Timer(n)].past,
           iter'[Timer(n)].left = iter[Timer(n)].left,
           iter'[Timer(n)].size = iter[Timer(n)].size
    PROVE  Doomed(n)'
<1>1. Timer(n) \in Dialers
  BY Kinds
<1>2. /\ iter[Timer(n)].past \in SUBSET Filters /\ iter[Timer(n)].left \in Nat
      /\ iter[Timer(n)].size \in Nat /\ Cardinality(iter[Timer(n)].past) \in Nat
  BY <1>1, IterFields
<1>3. /\ Cardinality(iter'[Timer(n)].past) \in Nat
      /\ Cardinality(iter'[Timer(n)].past) <= Cardinality(iter[Timer(n)].past)
  BY <1>2, FilterCounts
<1> QED  BY <1>2, <1>3 DEF Doomed

\* Where threads have something to do with subscriptions.
Commands == {"resubscribe", "sending", "subscribing", "unsubscribing"}
Busy == Commands \cup {"dialed", "connected", "lost"}

LEMMA NotBusy ==
    \A p \in {"none", "armed", "idle", "dial", "schedule", "done", "cancelled", "stopped", "closed"} :
        p \notin Busy /\ p \notin Commands
  BY DEF Busy, Commands

\* A step that leaves the subscriptions and the commands about them alone, and keeps
\* the socket of the client or lets go of it.
LEMMA SubscriptionsKept ==
    ASSUME SubscriptionsInv,
           UNCHANGED <<subscriptions, subscribed, filter, iter, passed, untold>>,
           \A s \in Sockets : sockets'[s] = "new" => sockets[s] = "new",
           CanSend' => CanSend /\ ws' = ws,
           HasSocket' => HasSocket /\ ws' = ws,
           \A y \in Dialers :
               \/ pc'[y] = pc[y]
               \/ pc'[y] \notin Commands /\ (pc[y] \notin Busy \/ ~HasSocket')
    PROVE  SubscriptionsInv'
<1>1. CommandInv'
  BY Kinds DEF SubscriptionsInv, CommandInv, Commands
<1>2. IterInv'
  BY Kinds DEF SubscriptionsInv, IterInv, Doomed, Commands
<1>3. NewInv'
  BY DEF SubscriptionsInv, NewInv
<1>4. CanSend' => HasSocket'
  BY DEF CanSend, HasSocket
<1>5. MissingInv'
  <2> SUFFICES ASSUME CanSend', NEW f \in subscriptions' \ subscribed'[ws']
               PROVE  \/ f \in passed'
                      \/ \E x \in Dialers : WillTell(x, f)'
                      \/ \E n \in Timers : pc'[Timer(n)] = "lost"
    BY DEF MissingInv
  <2>1. \/ f \in passed
        \/ \E x \in Dialers : WillTell(x, f)
        \/ \E n \in Timers : pc[Timer(n)] = "lost"
    BY DEF SubscriptionsInv, MissingInv
  <2>2. \A x \in Dialers : pc[x] \in Busy => pc'[x] = pc[x]
    BY <1>4
  <2>3. \A x \in Dialers : WillTell(x, f) => WillTell(x, f)'
    BY <2>2 DEF WillTell, Busy, Commands
  <2> QED BY <2>1, <2>2, <2>3, Kinds DEF Busy
<1>6. ExtraInv'
  <2> SUFFICES ASSUME HasSocket', ~untold', passed' = {},
                      NEW f \in subscribed'[ws'] \ subscriptions'
               PROVE  \/ pc'[User] = "unsubscribing" /\ filter'[User] = f
                      \/ \E n \in Timers : Doomed(n)' \/ pc'[Timer(n)] = "lost"
    BY DEF ExtraInv
  <2>1. \/ pc[User] = "unsubscribing" /\ filter[User] = f
        \/ \E n \in Timers : Doomed(n) \/ pc[Timer(n)] = "lost"
    BY DEF SubscriptionsInv, ExtraInv
  <2>2. \A x \in Dialers : pc[x] \in Busy => pc'[x] = pc[x]
    OBVIOUS
  <2>3. \A n \in Timers : Doomed(n) => Doomed(n)'
    BY <2>2, Kinds DEF Doomed, Busy, Commands
  <2> QED BY <2>1, <2>2, <2>3, Kinds DEF Busy, Commands
<1> QED  BY <1>1, <1>2, <1>3, <1>5, <1>6 DEF SubscriptionsInv

\* Where the entries of an iteration stand, for whoever steps.
LEMMA DialerStands ==
    ASSUME SubscriptionsInv, NEW y \in Dialers
    PROVE  /\ iter[y].past \subseteq subscriptions
           /\ iter[y].skip \subseteq passed
           /\ Cardinality(iter[y].past) + iter[y].left <= iter[y].size
  BY DEF SubscriptionsInv, IterInv

LEMMA DialSubscriptions ==
    ASSUME TypeOK, SubscriptionsInv, NEW x \in Dialers,
           DialSucceeds(x) \/ DialFails(x) \/ SetConnected(x)
    PROVE  SubscriptionsInv'
<1>0. DOMAIN pc = Threads /\ x \in Threads
  BY Kinds DEF TypeOK
<1>1. PICK p : Goto(x, p) /\ p \in {"dialed", "idle", "lost", "connected"}
               /\ (DialSucceeds(x) => p = "dialed") /\ (SetConnected(x) => p = "connected")
  BY Zenon DEF DialSucceeds, DialFails, SetConnected, Fails
<1>2. pc'[x] = p /\ \A y \in Threads \ {x} : pc'[y] = pc[y]
  BY <1>0, <1>1, Moved, TypeParts
<1>3. UNCHANGED <<subscriptions, subscribed, filter, iter>>
  BY DEF DialSucceeds, DialFails, SetConnected, serverVars
<1>4. CASE DialFails(x)
  <2>1. pc[x] = "dial" /\ (state' = state \/ state' = "disconnected")
    BY <1>4 DEF DialFails, Fails
  <2>2. UNCHANGED <<ws, sockets, passed, untold>>
    BY <1>4 DEF DialFails, serverVars, userVars
  <2>3. CanSend' => CanSend
    BY <2>1, <2>2 DEF CanSend
  <2>4. HasSocket' => HasSocket
    BY <2>2 DEF HasSocket
  <2>5. pc'[x] \notin Commands /\ pc[x] \notin Busy
    BY <1>1, <1>2, <2>1 DEF Commands, Busy
  <2> QED BY <1>2, <1>3, <2>2, <2>3, <2>4, <2>5, Kinds, SubscriptionsKept
<1>5. CASE DialSucceeds(x) \/ SetConnected(x)
  <2>1. CommandInv'
    BY <1>1, <1>2, <1>3, Kinds DEF SubscriptionsInv, CommandInv
  <2>2. IterInv'
    <3>1. \A y \in Dialers : iter[y].skip \subseteq passed'
      BY <1>5, DialerStands DEF DialSucceeds, SetConnected, userVars
    <3> QED BY <1>1, <1>2, <1>3, <3>1, Kinds DEF SubscriptionsInv, IterInv, Doomed
  <2>3. MissingInv'
    <3>1. pc'[x] \in {"dialed", "connected"}
      BY <1>1, <1>2, <1>5
    <3> QED BY <3>1 DEF MissingInv, WillTell
  <2>4. CASE DialSucceeds(x)
    <3>1. PICK s \in New : ws' = s /\ sockets' = [sockets EXCEPT ![s] = "open"]
      BY <2>4 DEF DialSucceeds
    <3>2. \A t \in Sockets : sockets'[t] = "new" => sockets[t] = "new"
      BY <3>1 DEF TypeOK, New
    <3>3. subscribed'[ws'] = {}
      BY <1>3, <3>1 DEF SubscriptionsInv, NewInv, New
    <3>4. NewInv' /\ ExtraInv'
      BY <1>3, <3>2, <3>3 DEF SubscriptionsInv, NewInv, ExtraInv
    <3> QED BY <2>1, <2>2, <2>3, <3>4 DEF SubscriptionsInv
  <2>5. CASE SetConnected(x)
    <3>1. UNCHANGED <<ws, sockets, passed, untold>> /\ pc[x] = "dialed" /\ p = "connected"
      BY <1>1, <2>5 DEF SetConnected, serverVars, userVars
    <3>2. NewInv'
      BY <1>3, <3>1 DEF SubscriptionsInv, NewInv
    <3>3. /\ pc[User] = "unsubscribing" => pc'[User] = "unsubscribing"
          /\ \A n \in Timers : pc[Timer(n)] \in {"resubscribe", "sending", "lost"} =>
                                   pc'[Timer(n)] = pc[Timer(n)]
      BY <1>2, <3>1, Kinds
    <3>4. \A n \in Timers : Doomed(n) => Doomed(n)'
      BY <1>3, <3>3 DEF Doomed
    <3>5. ExtraInv'
      BY <1>3, <3>1, <3>3, <3>4 DEF SubscriptionsInv, ExtraInv, HasSocket
    <3> QED BY <2>1, <2>2, <2>3, <3>2, <3>5 DEF SubscriptionsInv
  <2> QED BY <1>5, <2>4, <2>5
<1> QED  BY <1>4, <1>5

LEMMA LossSubscriptions ==
    ASSUME TypeOK, SubscriptionsInv, NEW x \in Threads \ {User}, LossStep(x)
    PROVE  SubscriptionsInv'
<1>0. DOMAIN pc = Threads
  BY DEF TypeOK
<1>1. UNCHANGED <<subscriptions, subscribed, sockets, filter, iter, passed, untold>>
  BY Zenon
     DEF LossStep, Lost, Budget, SpendAttempt, GiveUp, StartTimer, clientVars, serverVars,
         userVars
<1>2. CASE Lost(x)
  <2>1. ws' = NoSocket /\ ~HasSocket' /\ ~CanSend' /\ Goto(x, "budget")
    BY <1>2 DEF Lost, HasSocket, CanSend
  <2>2. pc'[x] = "budget" /\ \A y \in Threads \ {x} : pc'[y] = pc[y]
    BY <2>1, Moved, TypeParts
  <2> QED BY <1>1, <2>1, <2>2, Kinds, SubscriptionsKept DEF Commands
<1>3. CASE Budget(x) \/ SpendAttempt(x) \/ GiveUp(x)
  <2>1. PICK p \in {"spend", "schedule", "done"} : Goto(x, p)
    BY <1>3 DEF Budget, SpendAttempt, GiveUp
  <2>2. pc'[x] = p /\ \A y \in Threads \ {x} : pc'[y] = pc[y]
    BY <2>1, Moved, TypeParts
  <2>3. ws' = ws /\ pc[x] \in {"budget", "spend"} /\ state' \in {state, "reconnecting", "disconnected"}
    BY <1>3 DEF Budget, SpendAttempt, GiveUp, clientVars
  <2>4. (CanSend' => CanSend) /\ (HasSocket' => HasSocket)
    BY <1>1, <2>3 DEF CanSend, HasSocket
  <2>5. pc'[x] \notin Commands /\ pc[x] \notin Busy
    BY <2>2, <2>3 DEF Commands, Busy
  <2> QED BY <1>1, <2>2, <2>3, <2>4, <2>5, Kinds, SubscriptionsKept
<1>4. CASE StartTimer(x)
  <2>1. PICK n \in Timers : pc[Timer(n)] = "none"
                            /\ pc' = [pc EXCEPT ![Timer(n)] = "armed", ![x] = "done"]
    BY <1>4 DEF StartTimer
  <2>2. \A y \in Threads : pc'[y] = IF y = x THEN "done"
                                    ELSE IF y = Timer(n) THEN "armed" ELSE pc[y]
    BY <1>0, <2>1, Kinds
  <2>3. pc[x] = "schedule" /\ ws' = ws /\ state' = state
    BY <1>4 DEF StartTimer
  <2>4. (CanSend' => CanSend) /\ (HasSocket' => HasSocket)
    BY <1>1, <2>3 DEF CanSend, HasSocket
  <2>5. \A y \in Dialers : pc'[y] = pc[y] \/ (pc'[y] \notin Commands /\ pc[y] \notin Busy)
    BY <2>1, <2>2, <2>3, Kinds, NotBusy
  <2> QED BY <1>1, <2>3, <2>4, <2>5, SubscriptionsKept
<1> QED  BY <1>2, <1>3, <1>4 DEF LossStep

LEMMA ReceiverSubscriptions ==
    ASSUME TypeOK, SubscriptionsInv, NEW r \in Receivers, ReceiverStep(r)
    PROVE  SubscriptionsInv'
<1>1. r \in Threads \ {User} /\ r \notin Dialers
  BY Kinds
<1>2. CASE Check(r) \/ Recv(r) \/ Received(r) \/ RecvFails(r) \/ Failed(r)
  <2>1. UNCHANGED <<clientVars, serverVars, filter, iter, userVars>>
    BY <1>2 DEF Check, Received, RecvFails, Failed, Recv
  <2>2. PICK p : Goto(r, p)
    BY <1>2 DEF Check, Received, RecvFails, Failed, Recv
  <2>3. \A y \in Threads \ {r} : pc'[y] = pc[y]
    BY <1>1, <2>2, Moved, TypeParts
  <2>4. \A y \in Dialers : pc'[y] = pc[y]
    BY <1>1, <2>3, Kinds
  <2>5. UNCHANGED <<subscriptions, subscribed, sockets, filter, iter, passed, untold, ws, state>>
    BY <2>1 DEF clientVars, serverVars, userVars
  <2>6. CanSend' = CanSend /\ HasSocket' = HasSocket
    BY <2>5 DEF CanSend, HasSocket
  <2> QED BY <2>4, <2>5, <2>6, SubscriptionsKept
<1> QED  BY <1>1, <1>2, LossSubscriptions DEF ReceiverStep

\* The steps of the user and of the server that are not about a subscription.
LEMMA OtherSubscriptions ==
    ASSUME TypeOK, SubscriptionsInv,
           \/ Connect \/ DisconnectCancel \/ DisconnectStop \/ DisconnectClose
           \/ \E n \in Timers : TimerFires(n)
           \/ \E s \in Sockets : ServerCloses(s)
           \/ UNCHANGED vars
    PROVE  SubscriptionsInv'
<1>0. DOMAIN pc = Threads /\ User \in Threads
  BY Kinds DEF TypeOK
<1>1. UNCHANGED <<subscriptions, subscribed, filter, iter, passed, untold>>
  BY DEF Connect, DisconnectCancel, DisconnectStop, DisconnectClose, TimerFires, ServerCloses,
         vars, clientVars, serverVars, threadVars, userVars
<1>2. CASE Connect
  <2>1. pc[User] = "idle" /\ ws' = ws /\ sockets' = sockets
        /\ (state' = state \/ state' = "connecting")
    BY <1>2 DEF Connect, Call, serverVars
  <2>2. (CanSend' => CanSend) /\ (HasSocket' => HasSocket)
    BY <2>1 DEF CanSend, HasSocket
  <2>3. \A y \in Dialers : pc'[y] = pc[y] \/ (pc'[y] \notin Commands /\ pc[y] \notin Busy)
    BY <1>0, <1>2, <2>1, Kinds, NotBusy DEF Connect, Goto
  <2> QED BY <1>1, <2>1, <2>2, <2>3, SubscriptionsKept
<1>3. CASE DisconnectCancel
  <2>1. pc[User] = "idle" /\ UNCHANGED <<ws, sockets, state>>
        /\ pc' = [TimerCancelled EXCEPT ![User] = "cancelled"]
    BY <1>3 DEF DisconnectCancel, Call, serverVars
  <2>2. (CanSend' => CanSend) /\ (HasSocket' => HasSocket)
    BY <2>1 DEF CanSend, HasSocket
  <2>3. \A y \in Dialers : pc'[y] = pc[y] \/ (pc'[y] \notin Commands /\ pc[y] \notin Busy)
    BY <2>1, Cancels, TypeParts, Kinds, NotBusy
  <2> QED BY <1>1, <2>1, <2>2, <2>3, SubscriptionsKept
<1>4. CASE DisconnectStop
  <2>1. pc[User] = "cancelled" /\ UNCHANGED <<ws, sockets, state>> /\ Goto(User, "stopped")
    BY <1>4 DEF DisconnectStop, serverVars
  <2>2. (CanSend' => CanSend) /\ (HasSocket' => HasSocket)
    BY <2>1 DEF CanSend, HasSocket
  <2>3. pc'[User] = "stopped" /\ \A y \in Threads \ {User} : pc'[y] = pc[y]
    BY <1>0, <2>1, Moved, TypeParts
  <2>4. \A y \in Dialers : pc'[y] = pc[y] \/ (pc'[y] \notin Commands /\ pc[y] \notin Busy)
    BY <2>1, <2>3, Kinds, NotBusy
  <2> QED BY <1>1, <2>1, <2>2, <2>4, SubscriptionsKept
<1>5. CASE DisconnectClose
  <2>1. pc[User] = "stopped" /\ ws' = NoSocket /\ Goto(User, "closed")
        /\ sockets' = IF ws = NoSocket THEN sockets ELSE [sockets EXCEPT ![ws] = "closed"]
    BY <1>5 DEF DisconnectClose
  <2>2. ~CanSend' /\ ~HasSocket'
    BY <2>1 DEF CanSend, HasSocket
  <2>3. pc'[User] = "closed" /\ \A y \in Threads \ {User} : pc'[y] = pc[y]
    BY <1>0, <2>1, Moved, TypeParts
  <2>4. \A y \in Dialers : pc'[y] = pc[y] \/ (pc'[y] \notin Commands /\ pc[y] \notin Busy)
    BY <2>1, <2>3, Kinds, NotBusy
  <2>5. \A s \in Sockets : sockets'[s] = "new" => sockets[s] = "new"
    BY <2>1 DEF TypeOK
  <2> QED BY <1>1, <2>2, <2>4, <2>5, SubscriptionsKept
<1>6. ASSUME NEW n \in Timers, TimerFires(n) PROVE SubscriptionsInv'
  <2>1. pc[Timer(n)] = "armed" /\ UNCHANGED <<ws, sockets, state>> /\ Goto(Timer(n), "dial")
    BY <1>6 DEF TimerFires, clientVars, serverVars
  <2>2. (CanSend' => CanSend) /\ (HasSocket' => HasSocket)
    BY <2>1 DEF CanSend, HasSocket
  <2>3. pc'[Timer(n)] = "dial" /\ \A y \in Threads \ {Timer(n)} : pc'[y] = pc[y]
    BY <2>1, Kinds, Moved, TypeParts
  <2>4. \A y \in Dialers : pc'[y] = pc[y] \/ (pc'[y] \notin Commands /\ pc[y] \notin Busy)
    BY <2>1, <2>3, Kinds, NotBusy
  <2> QED BY <1>1, <2>1, <2>2, <2>4, SubscriptionsKept
<1>7. ASSUME NEW s \in Sockets, ServerCloses(s) PROVE SubscriptionsInv'
  <2>1. UNCHANGED <<pc, ws, state>> /\ sockets' = [sockets EXCEPT ![s] = "closed"]
    BY <1>7 DEF ServerCloses, clientVars, threadVars
  <2>2. \A t \in Sockets : sockets'[t] = sockets[t] \/ sockets'[t] = "closed"
    BY <2>1 DEF TypeOK
  <2>3. ws \in Sockets \cup {NoSocket}
    BY DEF TypeOK
  <2>4. (CanSend' => CanSend) /\ (HasSocket' => HasSocket)
    BY <2>1, <2>2, <2>3 DEF CanSend, HasSocket, NoSocket
  <2>5. \A t \in Sockets : sockets'[t] = "new" => sockets[t] = "new"
    BY <2>2
  <2>6. \A y \in Dialers : pc'[y] = pc[y]
    BY <2>1
  <2> QED BY <1>1, <2>1, <2>4, <2>5, <2>6, SubscriptionsKept
<1>8. CASE UNCHANGED vars
  <2>1. UNCHANGED <<pc, ws, state, sockets>>
    BY <1>8 DEF vars, clientVars, serverVars, threadVars
  <2>2. (CanSend' => CanSend) /\ (HasSocket' => HasSocket)
    BY <2>1 DEF CanSend, HasSocket
  <2> QED BY <1>1, <2>1, <2>2, SubscriptionsKept
<1> QED  BY <1>2, <1>3, <1>4, <1>5, <1>6, <1>7, <1>8

LEMMA StartSubscriptions ==
    ASSUME TypeOK, SubscriptionsInv, NEW x \in Dialers, StartReceiver(x)
    PROVE  SubscriptionsInv'
<1>0. DOMAIN pc = Threads /\ x \in Threads
  BY Kinds DEF TypeOK
<1>1. /\ pc[x] = "connected"
      /\ pc' = [pc EXCEPT ![x] = "resubscribe", ![Receiver(sock[x])] = "check"]
      /\ iter' = [iter EXCEPT ![x] = [past |-> {}, skip |-> {}, size |-> Cardinality(subscriptions),
                                      left |-> Cardinality(subscriptions)]]
      /\ UNCHANGED <<state, ws, subscriptions, sockets, subscribed, filter, passed, untold>>
  BY DEF StartReceiver, serverVars, userVars
<1>2. \A y \in Dialers : y # Receiver(sock[x])
  BY DEF Dialers, User, Timer, Receiver
<1>3. pc'[x] = "resubscribe" /\ \A y \in Dialers \ {x} : pc'[y] = pc[y]
  BY <1>0, <1>1, <1>2, Kinds
<1>4. /\ iter'[x].past = {} /\ iter'[x].skip = {} /\ iter'[x].left = iter'[x].size
      /\ iter'[x].size = Cardinality(subscriptions)
      /\ \A y \in Dialers \ {x} : iter'[y] = iter[y]
  BY <1>1 DEF TypeOK
<1>5. CommandInv' /\ NewInv'
  <2>1. pc'[User] = "resubscribe" \/ (pc'[User] = pc[User] /\ iter'[User] = iter[User])
    BY <1>3, <1>4, Kinds
  <2> QED BY <1>1, <2>1 DEF SubscriptionsInv, CommandInv, NewInv
<1>6. \A n \in Timers : Doomed(n) => Doomed(n)' /\ Timer(n) # x
  BY <1>1, <1>3, <1>4, Kinds DEF Doomed
<1>7. IterInv'
  <2>1. Cardinality(subscriptions) \in Nat
    BY FilterCounts DEF TypeOK
  <2>2. /\ iter'[x].past \subseteq subscriptions'
        /\ iter'[x].skip \subseteq passed'
        /\ Cardinality(iter'[x].past) + iter'[x].left <= iter'[x].size
    BY <1>4, <2>1, NoCount
  <2>3. \A y \in Dialers \ {x} : /\ iter'[y].past \subseteq subscriptions'
                                 /\ iter'[y].skip \subseteq passed'
                                 /\ Cardinality(iter'[y].past) + iter'[y].left <= iter'[y].size
    BY <1>1, <1>4, DialerStands
  <2>4. ASSUME NEW n \in Timers, pc'[Timer(n)] = "sending"
        PROVE  filter'[Timer(n)] \in iter'[Timer(n)].past \/ Doomed(n)'
    <3>1. Timer(n) # x
      BY <1>3, <2>4
    <3>2. pc[Timer(n)] = "sending" /\ iter'[Timer(n)] = iter[Timer(n)] /\ filter' = filter
      BY <1>1, <1>3, <1>4, <2>4, <3>1, Kinds
    <3> QED BY <1>6, <3>2 DEF SubscriptionsInv, IterInv
  <2> QED BY <2>2, <2>3, <2>4 DEF IterInv
<1>8. MissingInv'
  <2> SUFFICES ASSUME CanSend', NEW f \in subscriptions' \ subscribed'[ws']
               PROVE  \/ f \in passed'
                      \/ \E y \in Dialers : WillTell(y, f)'
                      \/ \E n \in Timers : pc'[Timer(n)] = "lost"
    BY DEF MissingInv
  <2>1. WillTell(x, f)'
    BY <1>3, <1>4 DEF WillTell
  <2> QED BY <2>1
<1>9. ExtraInv'
  <2>1. HasSocket' = HasSocket
    BY <1>1 DEF HasSocket
  <2>2. /\ pc[User] = "unsubscribing" => pc'[User] = "unsubscribing"
        /\ \A n \in Timers : pc[Timer(n)] = "lost" => pc'[Timer(n)] = "lost"
    BY <1>1, <1>3, Kinds
  <2> QED BY <1>1, <1>6, <2>1, <2>2 DEF SubscriptionsInv, ExtraInv
<1> QED  BY <1>5, <1>7, <1>8, <1>9 DEF SubscriptionsInv

LEMMA NextSubscriptions ==
    ASSUME TypeOK, SubscriptionsInv, NEW x \in Dialers, ResubscribeNext(x)
    PROVE  SubscriptionsInv'
<1>0. DOMAIN pc = Threads /\ x \in Threads
  BY Kinds DEF TypeOK
<1>1. PICK g \in Rest(x) :
          /\ filter' = [filter EXCEPT ![x] = g]
          /\ iter' = [iter EXCEPT ![x].past = @ \cup {g}, ![x].left = @ - 1]
  BY DEF ResubscribeNext
<1>2. /\ pc[x] = "resubscribe" /\ iter[x].left > 0 /\ Goto(x, "sending")
      /\ UNCHANGED <<state, ws, subscriptions, sockets, subscribed, passed, untold>>
  BY <1>1 DEF ResubscribeNext, Intact, clientVars, serverVars, userVars
<1>3. pc'[x] = "sending" /\ \A y \in Threads \ {x} : pc'[y] = pc[y]
  BY <1>0, <1>2, Moved, TypeParts
<1>4. g \in subscriptions /\ g \notin iter[x].past /\ g \in Filters
  BY DEF Rest, TypeOK
<1>5. /\ iter'[x].past = iter[x].past \cup {g} /\ iter'[x].left = iter[x].left - 1
      /\ iter'[x].size = iter[x].size /\ iter'[x].skip = iter[x].skip /\ filter'[x] = g
      /\ \A y \in Dialers \ {x} : iter'[y] = iter[y] /\ filter'[y] = filter[y]
  <2>1. iter[x] \in Iterations
    BY DEF TypeOK
  <2> QED BY <1>1, <2>1 DEF TypeOK, Iterations
<1>6. /\ Cardinality(iter'[x].past) = Cardinality(iter[x].past) + 1
      /\ Cardinality(iter[x].past) \in Nat /\ iter[x].left \in Nat /\ iter[x].size \in Nat
  BY <1>4, <1>5, IterFields, FilterCounts
<1>sum. Cardinality(iter'[x].past) + iter'[x].left = Cardinality(iter[x].past) + iter[x].left
  <2>1. Cardinality(iter[x].past) + 1 + (iter[x].left - 1)
            = Cardinality(iter[x].past) + iter[x].left
    BY <1>6
  <2> QED BY <1>5, <1>6, <2>1
<1>7. CommandInv' /\ NewInv'
  <2>1. pc'[User] = pc[User] \/ x = User
    BY <1>3, Kinds
  <2>2. CASE x = User
    BY <1>2, <1>3, <1>5, <2>2 DEF SubscriptionsInv, CommandInv, NewInv
  <2>3. CASE x # User
    BY <1>2, <1>5, <2>1, <2>3, Kinds DEF SubscriptionsInv, CommandInv, NewInv
  <2> QED BY <2>2, <2>3
<1>8. \A n \in Timers : Doomed(n) => Doomed(n)'
  <2> SUFFICES ASSUME NEW n \in Timers, Doomed(n) PROVE Doomed(n)'
    OBVIOUS
  <2>1. CASE Timer(n) = x
    BY <1>3, <1>5, <1>sum, <2>1 DEF Doomed
  <2>2. CASE Timer(n) # x
    BY <1>3, <1>5, <2>2, Kinds DEF Doomed
  <2> QED BY <2>1, <2>2
<1>9. IterInv'
  <2>1. ASSUME NEW y \in Dialers
        PROVE  /\ iter'[y].past \subseteq subscriptions'
               /\ iter'[y].skip \subseteq passed'
               /\ Cardinality(iter'[y].past) + iter'[y].left <= iter'[y].size
    <3>1. CASE y = x
      BY <1>2, <1>4, <1>5, <1>sum, <3>1, DialerStands
    <3>2. CASE y # x
      BY <1>2, <1>5, <3>2, DialerStands
    <3> QED BY <3>1, <3>2
  <2>2. ASSUME NEW n \in Timers, pc'[Timer(n)] = "sending"
        PROVE  filter'[Timer(n)] \in iter'[Timer(n)].past \/ Doomed(n)'
    <3>1. CASE Timer(n) = x
      BY <1>5, <3>1
    <3>2. CASE Timer(n) # x
      BY <1>3, <1>5, <1>8, <2>2, <3>2, Kinds DEF SubscriptionsInv, IterInv
    <3> QED BY <3>1, <3>2
  <2> QED BY <2>1, <2>2 DEF IterInv
<1>10. MissingInv'
  <2>1. CanSend' = CanSend
    BY <1>2 DEF CanSend
  <2>2. ASSUME NEW f, NEW y \in Dialers, WillTell(y, f) PROVE WillTell(y, f)'
    <3>1. CASE y = x
      BY <1>2, <1>3, <1>5, <2>2, <3>1 DEF WillTell
    <3>2. CASE y # x
      BY <1>3, <1>5, <2>2, <3>2, Kinds DEF WillTell
    <3> QED BY <3>1, <3>2
  <2>3. \A n \in Timers : pc[Timer(n)] = "lost" => pc'[Timer(n)] = "lost"
    BY <1>2, <1>3, Kinds
  <2> QED BY <1>2, <2>1, <2>2, <2>3 DEF SubscriptionsInv, MissingInv
<1>11. ExtraInv'
  <2>1. HasSocket' = HasSocket
    BY <1>2 DEF HasSocket
  <2>2. pc[User] = "unsubscribing" => pc'[User] = "unsubscribing" /\ filter'[User] = filter[User]
    BY <1>2, <1>3, <1>5, Kinds
  <2>3. \A n \in Timers : pc[Timer(n)] = "lost" => pc'[Timer(n)] = "lost"
    BY <1>2, <1>3, Kinds
  <2> QED BY <1>2, <1>8, <2>1, <2>2, <2>3 DEF SubscriptionsInv, ExtraInv
<1> QED  BY <1>7, <1>9, <1>10, <1>11 DEF SubscriptionsInv

\* Only the server on the socket of the client, which is open, is told something.
LEMMA ToldOnSocket ==
    ASSUME TypeOK, NEW S, Send(S)
    PROVE  /\ CanSend => ws \in Sockets /\ sockets[ws] = "open" /\ subscribed'[ws] = S
           /\ ~CanSend => subscribed' = subscribed
           /\ \A s \in Sockets : sockets[s] = "new" => subscribed'[s] = subscribed[s]
<1>1. CanSend => ws \in Sockets /\ sockets[ws] = "open"
  BY DEF CanSend, TypeOK
<1> QED  BY <1>1 DEF Send, TypeOK

LEMMA SendSubscriptions ==
    ASSUME TypeOK, SubscriptionsInv, NEW x \in Dialers, ResubscribeSend(x)
    PROVE  SubscriptionsInv'
<1>0. DOMAIN pc = Threads /\ x \in Threads
  BY Kinds DEF TypeOK
<1>1. /\ pc[x] = "sending" /\ Goto(x, "resubscribe") /\ Send(subscribed[ws] \cup {filter[x]})
      /\ filter' = [filter EXCEPT ![x] = NoFilter]
      /\ UNCHANGED <<state, ws, subscriptions, sockets, iter, passed, untold>>
  BY DEF ResubscribeSend, SendSubscribe, clientVars, userVars
<1>2. pc'[x] = "resubscribe" /\ \A y \in Threads \ {x} : pc'[y] = pc[y]
  BY <1>0, <1>1, Moved, TypeParts
<1>3. \A y \in Dialers \ {x} : filter'[y] = filter[y]
  BY <1>1 DEF TypeOK
<1>4. CanSend' = CanSend /\ HasSocket' = HasSocket
  BY <1>1 DEF CanSend, HasSocket
<1>5. CommandInv' /\ NewInv'
  <2>1. NewInv'
    BY <1>1, ToldOnSocket DEF SubscriptionsInv, NewInv
  <2>2. CommandInv'
    BY <1>1, <1>2, <1>3, Kinds DEF SubscriptionsInv, CommandInv
  <2> QED BY <2>1, <2>2
<1>6. \A n \in Timers : Doomed(n) => Doomed(n)'
  BY <1>1, <1>2, Kinds DEF Doomed
<1>7. IterInv'
  <2>1. ASSUME NEW n \in Timers, pc'[Timer(n)] = "sending"
        PROVE  filter'[Timer(n)] \in iter'[Timer(n)].past \/ Doomed(n)'
    <3>1. Timer(n) # x /\ pc[Timer(n)] = "sending" /\ filter'[Timer(n)] = filter[Timer(n)]
      BY <1>2, <1>3, <2>1, Kinds
    <3> QED BY <1>1, <1>6, <3>1 DEF SubscriptionsInv, IterInv
  <2>2. \A y \in Dialers : /\ iter'[y].past \subseteq subscriptions'
                           /\ iter'[y].skip \subseteq passed'
                           /\ Cardinality(iter'[y].past) + iter'[y].left <= iter'[y].size
    BY <1>1, DialerStands
  <2> QED BY <2>1, <2>2 DEF IterInv
<1>8. MissingInv'
  <2> SUFFICES ASSUME CanSend', NEW f \in subscriptions' \ subscribed'[ws']
               PROVE  \/ f \in passed'
                      \/ \E y \in Dialers : WillTell(y, f)'
                      \/ \E n \in Timers : pc'[Timer(n)] = "lost"
    BY DEF MissingInv
  <2>1. CanSend /\ f \in subscriptions \ subscribed[ws] /\ f # filter[x]
    BY <1>1, <1>4, ToldOnSocket
  <2>2. ASSUME NEW y \in Dialers, WillTell(y, f) PROVE WillTell(y, f)'
    <3>1. CASE y = x
      BY <1>1, <1>2, <2>1, <2>2, <3>1 DEF WillTell
    <3>2. CASE y # x
      BY <1>1, <1>2, <1>3, <2>2, <3>2, Kinds DEF WillTell
    <3> QED BY <3>1, <3>2
  <2>3. \A n \in Timers : pc[Timer(n)] = "lost" => pc'[Timer(n)] = "lost"
    BY <1>1, <1>2, Kinds
  <2> QED BY <1>1, <2>1, <2>2, <2>3 DEF SubscriptionsInv, MissingInv
<1>9. ExtraInv'
  <2> SUFFICES ASSUME HasSocket', ~untold', passed' = {},
                      NEW f \in subscribed'[ws'] \ subscriptions'
               PROVE  \/ pc'[User] = "unsubscribing" /\ filter'[User] = f
                      \/ \E n \in Timers : Doomed(n)' \/ pc'[Timer(n)] = "lost"
    BY DEF ExtraInv
  <2>1. f \in subscribed[ws] \/ f = filter[x]
    BY <1>1, <1>4, ToldOnSocket
  <2>2. CASE f \in subscribed[ws]
    <3>1. /\ pc[User] = "unsubscribing" => pc'[User] = pc[User] /\ filter'[User] = filter[User]
          /\ \A n \in Timers : pc[Timer(n)] = "lost" => pc'[Timer(n)] = "lost"
      BY <1>1, <1>2, <1>3, Kinds
    <3> QED BY <1>1, <1>4, <1>6, <2>2, <3>1 DEF SubscriptionsInv, ExtraInv
  <2>3. CASE f = filter[x]
    <3>1. f \notin iter[x].past
      BY <1>1, <2>3, DialerStands
    <3>2. x # User
      BY <1>1, <2>3, <3>1 DEF SubscriptionsInv, CommandInv
    <3>3. PICK n \in Timers : x = Timer(n)
      BY <3>2, Kinds
    <3>4. Doomed(n)
      BY <1>1, <2>3, <3>1, <3>3 DEF SubscriptionsInv, IterInv
    <3> QED BY <1>6, <3>4
  <2> QED BY <2>1, <2>2, <2>3
<1> QED  BY <1>5, <1>7, <1>8, <1>9 DEF SubscriptionsInv

\* Both ends of an iteration.
LEMMA IterationEnds ==
    ASSUME TypeOK, SubscriptionsInv, NEW x \in Dialers, NEW p \in {"idle", "done", "lost"},
           Goto(x, p), iter' = [iter EXCEPT ![x] = NoIteration],
           UNCHANGED <<subscriptions, sockets, subscribed, filter, passed>>
    PROVE  /\ CommandInv' /\ IterInv' /\ NewInv'
           /\ pc'[x] = p /\ \A y \in Dialers \ {x} : pc'[y] = pc[y] /\ iter'[y] = iter[y]
<1>1. pc'[x] = p /\ \A y \in Dialers \ {x} : pc'[y] = pc[y]
  BY Kinds, Moved, TypeParts
<1>2. iter'[x] = NoIteration /\ \A y \in Dialers \ {x} : iter'[y] = iter[y]
  BY DEF TypeOK
<1>3. CommandInv' /\ NewInv'
  BY <1>1, <1>2, Kinds DEF SubscriptionsInv, CommandInv, NewInv
<1>4. IterInv'
  <2>1. ASSUME NEW y \in Dialers
        PROVE  /\ iter'[y].past \subseteq subscriptions'
               /\ iter'[y].skip \subseteq passed'
               /\ Cardinality(iter'[y].past) + iter'[y].left <= iter'[y].size
    <3>1. CASE y = x
      BY <1>2, <3>1, NoCount DEF NoIteration
    <3>2. CASE y # x
      BY <1>2, <3>2, DialerStands
    <3> QED BY <3>1, <3>2
  <2>2. ASSUME NEW n \in Timers, pc'[Timer(n)] = "sending"
        PROVE  filter'[Timer(n)] \in iter'[Timer(n)].past \/ Doomed(n)'
    <3>1. Timer(n) # x /\ Timer(n) \in Dialers
      BY <1>1, <2>2, Kinds
    <3>2. pc[Timer(n)] = "sending" /\ iter'[Timer(n)] = iter[Timer(n)]
      BY <1>1, <1>2, <2>2, <3>1
    <3>3. Doomed(n) => Doomed(n)'
      BY <2>2, <3>2 DEF Doomed
    <3> QED BY <3>2, <3>3 DEF SubscriptionsInv, IterInv
  <2> QED BY <2>1, <2>2 DEF IterInv
<1> QED  BY <1>1, <1>2, <1>3, <1>4

LEMMA IterationSubscriptions ==
    ASSUME TypeOK, SubscriptionsInv, NEW x \in Dialers, Resubscribed(x) \/ ResubscribeFails(x)
    PROVE  SubscriptionsInv'
<1>1. /\ pc[x] = "resubscribe" /\ iter' = [iter EXCEPT ![x] = NoIteration]
      /\ UNCHANGED <<subscriptions, sockets, subscribed, filter, ws, passed, untold>>
  BY DEF Resubscribed, ResubscribeFails, clientVars, serverVars, userVars
<1>2. PICK p \in {"idle", "done", "lost"} :
          /\ Goto(x, p)
          /\ ResubscribeFails(x) =>
                 IF x = User THEN state' = "disconnected" ELSE state' = state /\ p = "lost"
          /\ Resubscribed(x) => state' = state
  BY DEF Resubscribed, ResubscribeFails, Fails, clientVars
<1>3. /\ CommandInv' /\ IterInv' /\ NewInv'
      /\ pc'[x] = p /\ \A y \in Dialers \ {x} : pc'[y] = pc[y] /\ iter'[y] = iter[y]
  BY <1>1, <1>2, IterationEnds
<1>4. /\ \A f, y : y \in Dialers \ {x} /\ WillTell(y, f) => WillTell(y, f)'
      /\ \A n \in Timers : Timer(n) # x /\ Doomed(n) => Doomed(n)'
      /\ \A n \in Timers : pc[Timer(n)] = "lost" => pc'[Timer(n)] = "lost"
      /\ pc[User] = "unsubscribing" => pc'[User] = "unsubscribing"
  BY <1>1, <1>3, Kinds DEF WillTell, Doomed
<1>5. HasSocket' = HasSocket
  BY <1>1 DEF HasSocket
<1>6. CASE ResubscribeFails(x) /\ x # User
  <2>1. PICK n \in Timers : pc'[Timer(n)] = "lost"
    BY <1>2, <1>3, <1>6, Kinds
  <2> QED BY <1>3, <2>1 DEF SubscriptionsInv, MissingInv, ExtraInv
<1>7. CASE ResubscribeFails(x) /\ x = User
  <2>1. MissingInv'
    BY <1>2, <1>7 DEF MissingInv, CanSend
  <2>2. ExtraInv'
    BY <1>1, <1>4, <1>5, <1>7, Kinds DEF SubscriptionsInv, ExtraInv
  <2> QED BY <1>3, <2>1, <2>2 DEF SubscriptionsInv
<1>8. CASE Resubscribed(x)
  <2>1. /\ subscriptions \subseteq iter[x].past \cup iter[x].skip
        /\ Cardinality(subscriptions) = iter[x].size
        /\ iter[x].past \subseteq subscriptions /\ iter[x].skip \subseteq passed
    BY <1>8, DialerStands DEF Resubscribed, Intact, Rest
  <2>2. passed = {} => \A n \in Timers : Doomed(n) => Timer(n) # x
    <3>1. passed = {} => subscriptions = iter[x].past
      BY <2>1
    <3> QED BY <2>1, <3>1, IterFields DEF Doomed
  <2>3. CanSend' = CanSend
    BY <1>1, <1>2, <1>8 DEF CanSend
  <2>4. \A f \in subscriptions : ~WillTell(x, f)
    BY <1>1, <2>1 DEF WillTell
  <2>5. MissingInv'
    <3> SUFFICES ASSUME CanSend', NEW f \in subscriptions' \ subscribed'[ws']
                 PROVE  \/ f \in passed'
                        \/ \E y \in Dialers : WillTell(y, f)'
                        \/ \E n \in Timers : pc'[Timer(n)] = "lost"
      BY DEF MissingInv
    <3>1. \/ f \in passed
          \/ \E y \in Dialers : WillTell(y, f)
          \/ \E n \in Timers : pc[Timer(n)] = "lost"
      BY <1>1, <2>3 DEF SubscriptionsInv, MissingInv
    <3>2. \A y \in Dialers : WillTell(y, f) => y # x
      BY <1>1, <2>4
    <3> QED BY <1>1, <1>4, <3>1, <3>2
  <2>6. ExtraInv'
    BY <1>1, <1>4, <1>5, <2>2 DEF SubscriptionsInv, ExtraInv
  <2> QED BY <1>3, <2>5, <2>6 DEF SubscriptionsInv
<1> QED  BY <1>6, <1>7, <1>8

LEMMA DialerSubscriptions ==
    ASSUME TypeOK, SubscriptionsInv, NEW x \in Dialers, DialStep(x)
    PROVE  SubscriptionsInv'
  BY DialSubscriptions, StartSubscriptions, NextSubscriptions, SendSubscriptions,
     IterationSubscriptions DEF DialStep

\* The iteration of x is left without the entries of S.
Loses(x, S) ==
    /\ iter'[x].past = iter[x].past \ S /\ iter'[x].skip = iter[x].skip \ S
    /\ iter'[x].left = iter[x].left /\ iter'[x].size = iter[x].size

\* The entries that unsubscribe() or disconnect() drops are dropped from every
\* iteration: a timer that was about to subscribe to one of them is going to raise.
LEMMA IterationsLose ==
    ASSUME TypeOK, SubscriptionsInv, NEW S \in SUBSET Filters,
           \A x \in Dialers : Loses(x, S),
           subscriptions' = subscriptions \ S, passed' = passed,
           \A n \in Timers : pc'[Timer(n)] = pc[Timer(n)],
           \A n \in Timers : filter'[Timer(n)] = filter[Timer(n)]
    PROVE  /\ IterInv'
           /\ \A n \in Timers : Doomed(n) => Doomed(n)'
<1>1. \A x \in Dialers : /\ iter'[x].past = iter[x].past \ S
                         /\ iter'[x].skip = iter[x].skip \ S
                         /\ iter'[x].left = iter[x].left /\ iter'[x].size = iter[x].size
  BY DEF Loses
<1>2. ASSUME NEW x \in Dialers
      PROVE  /\ Cardinality(iter'[x].past) \in Nat
             /\ Cardinality(iter'[x].past) <= Cardinality(iter[x].past)
             /\ iter[x].past \cap S # {} =>
                    Cardinality(iter'[x].past) < Cardinality(iter[x].past)
  <2>1. /\ iter[x].past \in SUBSET Filters /\ iter'[x].past \in SUBSET iter[x].past
        /\ Cardinality(iter[x].past) \in Nat
    BY <1>1, IterFields
  <2>2. /\ Cardinality(iter'[x].past) \in Nat
        /\ Cardinality(iter'[x].past) <= Cardinality(iter[x].past)
    BY <2>1, FilterCounts
  <2>3. ASSUME NEW f \in iter[x].past \cap S
        PROVE  Cardinality(iter'[x].past) < Cardinality(iter[x].past)
    <3>1. /\ Cardinality(iter[x].past \ {f}) = Cardinality(iter[x].past) - 1
          /\ iter[x].past \ {f} \in SUBSET Filters
      BY <2>1, FilterCounts
    <3>2. iter'[x].past = iter[x].past \ S /\ f \in S
      BY <1>1
    <3>3. Cardinality(iter'[x].past) <= Cardinality(iter[x].past \ {f})
      <4>1. iter'[x].past \in SUBSET (iter[x].past \ {f})
        BY <3>2
      <4> QED BY <3>1, <4>1, FilterCounts
    <3> QED BY <2>1, <2>2, <3>1, <3>3
  <2> QED BY <2>2, <2>3
<1>3. \A n \in Timers : Doomed(n) => Doomed(n)'
  <2> SUFFICES ASSUME NEW n \in Timers, Doomed(n) PROVE Doomed(n)'
    OBVIOUS
  <2>1. Timer(n) \in Dialers
    BY Kinds
  <2> QED BY <1>1, <2>1, DoomedKept DEF Doomed
<1>4. ASSUME NEW x \in Dialers
      PROVE  /\ iter'[x].past \subseteq subscriptions'
             /\ iter'[x].skip \subseteq passed'
             /\ Cardinality(iter'[x].past) + iter'[x].left <= iter'[x].size
  <2>1. /\ Cardinality(iter[x].past) + iter[x].left <= iter[x].size
        /\ iter[x].past \subseteq subscriptions /\ iter[x].skip \subseteq passed
        /\ Cardinality(iter[x].past) \in Nat /\ iter[x].left \in Nat /\ iter[x].size \in Nat
    BY DialerStands, IterFields
  <2>2. Cardinality(iter'[x].past) + iter'[x].left <= iter'[x].size
    BY <1>1, <1>2, <2>1
  <2> QED BY <1>1, <2>1, <2>2
<1>5. ASSUME NEW n \in Timers, pc'[Timer(n)] = "sending"
      PROVE  filter'[Timer(n)] \in iter'[Timer(n)].past \/ Doomed(n)'
  <2>1. Timer(n) \in Dialers /\ pc[Timer(n)] = "sending"
    BY <1>5, Kinds
  <2>2. CASE Doomed(n)
    BY <1>3, <2>2
  <2>3. CASE filter[Timer(n)] \in iter[Timer(n)].past /\ filter[Timer(n)] \notin S
    BY <1>1, <2>1, <2>3
  <2>4. CASE filter[Timer(n)] \in iter[Timer(n)].past /\ filter[Timer(n)] \in S
    <3>1. Cardinality(iter'[Timer(n)].past) < Cardinality(iter[Timer(n)].past)
      BY <1>2, <2>1, <2>4
    <3>2. Cardinality(iter'[Timer(n)].past) + iter'[Timer(n)].left < iter'[Timer(n)].size
      <4>1. /\ Cardinality(iter[Timer(n)].past) + iter[Timer(n)].left <= iter[Timer(n)].size
            /\ Cardinality(iter[Timer(n)].past) \in Nat
            /\ iter[Timer(n)].left \in Nat /\ iter[Timer(n)].size \in Nat
        BY <2>1, DialerStands, IterFields
      <4>2. Cardinality(iter'[Timer(n)].past) \in Nat
        BY <1>2, <2>1
      <4> QED BY <1>1, <2>1, <3>1, <4>1, <4>2
    <3> QED BY <1>5, <3>2 DEF Doomed
  <2> QED BY <2>1, <2>2, <2>3, <2>4 DEF SubscriptionsInv, IterInv
<1> QED  BY <1>1, <1>3, <1>4, <1>5 DEF IterInv

LEMMA DisconnectSubscriptions ==
    ASSUME TypeOK, SubscriptionsInv, DisconnectEnds
    PROVE  SubscriptionsInv'
<1>1. /\ pc[User] = "closed" /\ Goto(User, "idle") /\ state' = "disconnected"
      /\ subscriptions' = {}
      /\ untold' = (untold \/ ws # NoSocket)
      /\ UNCHANGED <<ws, sockets, subscribed, filter, passed>>
  BY DEF DisconnectEnds, serverVars
<1>2. pc'[User] = "idle" /\ \A n \in Timers : pc'[Timer(n)] = pc[Timer(n)]
  BY <1>1, Kinds, Moved, TypeParts
<1>3. IterInv'
  <2>1. ASSUME NEW x \in Dialers PROVE Loses(x, Filters)
    <3>1. iter[x].past \ Filters = {} /\ iter[x].skip \ Filters = {}
      BY IterFields
    <3>2. iter'[x] = [iter[x] EXCEPT !.past = {}, !.skip = {}] /\ iter[x] \in Iterations
      BY DEF DisconnectEnds, TypeOK
    <3> QED BY <3>1, <3>2 DEF Loses, Iterations
  <2>2. subscriptions' = subscriptions \ Filters
    BY <1>1 DEF TypeOK
  <2> QED BY <1>1, <1>2, <2>1, <2>2, IterationsLose
<1>4. MissingInv' /\ ExtraInv'
  BY <1>1 DEF MissingInv, ExtraInv, CanSend, HasSocket
<1>5. CommandInv' /\ NewInv'
  BY <1>1, <1>2 DEF SubscriptionsInv, CommandInv, NewInv
<1> QED  BY <1>3, <1>4, <1>5 DEF SubscriptionsInv

LEMMA SubscribeSubscriptions ==
    ASSUME TypeOK, SubscriptionsInv, NEW f \in Filters, Subscribe(f)
    PROVE  SubscriptionsInv'
<1>1. /\ pc[User] = "idle" /\ Goto(User, "subscribing") /\ f \notin subscriptions
      /\ subscriptions' = subscriptions \cup {f} /\ filter' = [filter EXCEPT ![User] = f]
      /\ UNCHANGED <<state, ws, sockets, subscribed, untold>>
  BY DEF Subscribe, Call, serverVars
<1>iter. /\ passed \subseteq passed'
         /\ \A x \in Dialers :
                /\ iter'[x].past = iter[x].past /\ iter'[x].left = iter[x].left
                /\ iter'[x].size = iter[x].size /\ iter'[x].skip \subseteq iter[x].skip \cup passed'
  BY TypeParts, OvertakenTyped
<1>2. pc'[User] = "subscribing" /\ \A n \in Timers : pc'[Timer(n)] = pc[Timer(n)]
  BY <1>1, Kinds, Moved, TypeParts
<1>3. filter'[User] = f /\ \A n \in Timers : filter'[Timer(n)] = filter[Timer(n)]
  BY <1>1, Kinds DEF TypeOK
<1>4. \A n \in Timers : Doomed(n) => Doomed(n)'
  BY <1>2, <1>iter, Kinds DEF Doomed
<1>5. IterInv'
  <2>1. \A x \in Dialers : /\ iter'[x].past \subseteq subscriptions'
                           /\ iter'[x].skip \subseteq passed'
                           /\ Cardinality(iter'[x].past) + iter'[x].left <= iter'[x].size
    BY <1>1, <1>iter, DialerStands
  <2>2. \A n \in Timers : pc'[Timer(n)] = "sending" =>
            filter'[Timer(n)] \in iter'[Timer(n)].past \/ Doomed(n)'
    BY <1>2, <1>3, <1>4, <1>iter, Kinds DEF SubscriptionsInv, IterInv
  <2> QED BY <2>1, <2>2 DEF IterInv
<1>6. CommandInv' /\ NewInv'
  BY <1>1, <1>2, <1>3 DEF SubscriptionsInv, CommandInv, NewInv
<1>7. MissingInv'
  <2> SUFFICES ASSUME CanSend', NEW g \in subscriptions' \ subscribed'[ws']
               PROVE  \/ g \in passed'
                      \/ \E x \in Dialers : WillTell(x, g)'
                      \/ \E n \in Timers : pc'[Timer(n)] = "lost"
    BY DEF MissingInv
  <2>1. CASE g = f
    BY <1>2, <1>3, <2>1, Kinds DEF WillTell
  <2>2. CASE g # f
    <3>1. \/ g \in passed
          \/ \E x \in Dialers : WillTell(x, g)
          \/ \E n \in Timers : pc[Timer(n)] = "lost"
      BY <1>1, <2>2 DEF SubscriptionsInv, MissingInv, CanSend
    <3>2. \A x \in Dialers : WillTell(x, g) => WillTell(x, g)' \/ g \in passed'
      BY <1>1, <1>2, <1>3, <1>iter, Kinds DEF WillTell
    <3> QED BY <1>2, <1>iter, <3>1, <3>2
  <2> QED BY <2>1, <2>2
<1>8. ExtraInv'
  <2>1. passed' = {} => passed = {}
    BY <1>iter
  <2> QED BY <1>1, <1>2, <1>4, <2>1 DEF SubscriptionsInv, ExtraInv, HasSocket
<1> QED  BY <1>5, <1>6, <1>7, <1>8 DEF SubscriptionsInv

LEMMA UnsubscribeSubscriptions ==
    ASSUME TypeOK, SubscriptionsInv, NEW f \in Filters, Unsubscribe(f)
    PROVE  SubscriptionsInv'
<1>1. /\ pc[User] = "idle" /\ Goto(User, "unsubscribing")
      /\ subscriptions' = subscriptions \ {f} /\ filter' = [filter EXCEPT ![User] = f]
      /\ UNCHANGED <<state, ws, sockets, subscribed, passed, untold>>
  BY DEF Unsubscribe, Call, serverVars
<1>2. pc'[User] = "unsubscribing" /\ \A n \in Timers : pc'[Timer(n)] = pc[Timer(n)]
  BY <1>1, Kinds, Moved, TypeParts
<1>3. filter'[User] = f /\ \A n \in Timers : filter'[Timer(n)] = filter[Timer(n)]
  BY <1>1, Kinds DEF TypeOK
<1>iter. ASSUME NEW x \in Dialers PROVE Loses(x, {f})
  <2>1. /\ iter'[x] = [iter[x] EXCEPT !.past = @ \ {f}, !.skip = @ \ {f}]
        /\ iter[x] \in Iterations
    BY DEF Unsubscribe, TypeOK
  <2> QED BY <2>1 DEF Loses, Iterations
<1>4. IterInv' /\ \A n \in Timers : Doomed(n) => Doomed(n)'
  BY <1>1, <1>2, <1>3, <1>iter, IterationsLose
<1>5. CommandInv' /\ NewInv'
  BY <1>1, <1>2, <1>3 DEF SubscriptionsInv, CommandInv, NewInv
<1>6. MissingInv'
  <2>1. \A g : \A x \in Dialers : WillTell(x, g) => WillTell(x, g)'
    BY <1>1, <1>2, <1>3, <1>iter, Kinds DEF WillTell, Loses
  <2> QED BY <1>1, <1>2, <2>1 DEF SubscriptionsInv, MissingInv, CanSend
<1>7. ExtraInv'
  <2> SUFFICES ASSUME HasSocket', ~untold', passed' = {},
                      NEW g \in subscribed'[ws'] \ subscriptions'
               PROVE  \/ pc'[User] = "unsubscribing" /\ filter'[User] = g
                      \/ \E n \in Timers : Doomed(n)' \/ pc'[Timer(n)] = "lost"
    BY DEF ExtraInv
  <2>1. CASE g = f
    BY <1>2, <1>3, <2>1
  <2>2. CASE g # f
    <3>1. \E n \in Timers : Doomed(n) \/ pc[Timer(n)] = "lost"
      BY <1>1, <2>2 DEF SubscriptionsInv, ExtraInv, HasSocket
    <3> QED BY <1>2, <1>4, <3>1
  <2> QED BY <2>1, <2>2
<1> QED  BY <1>4, <1>5, <1>6, <1>7 DEF SubscriptionsInv

LEMMA CommandSubscriptions ==
    ASSUME TypeOK, SubscriptionsInv, SubscribeEnds \/ UnsubscribeEnds
    PROVE  SubscriptionsInv'
<1>1. /\ pc[User] \in {"subscribing", "unsubscribing"} /\ Goto(User, "idle")
      /\ filter' = [filter EXCEPT ![User] = NoFilter]
      /\ UNCHANGED <<state, ws, subscriptions, sockets, iter, passed>>
      /\ SubscribeEnds => pc[User] = "subscribing" /\ Send(subscribed[ws] \cup {filter[User]})
                          /\ untold' = untold
      /\ UnsubscribeEnds => pc[User] = "unsubscribing" /\ Send(subscribed[ws] \ {filter[User]})
                            /\ untold' = (untold \/ (ws # NoSocket /\ ~CanSend))
  BY DEF SubscribeEnds, UnsubscribeEnds, SendSubscribe, SendUnsubscribe, clientVars, userVars
<1>2. pc'[User] = "idle" /\ \A n \in Timers : pc'[Timer(n)] = pc[Timer(n)]
  BY <1>1, Kinds, Moved, TypeParts
<1>3. \A n \in Timers : filter'[Timer(n)] = filter[Timer(n)]
  BY <1>1, Kinds DEF TypeOK
<1>4. CanSend' = CanSend /\ HasSocket' = HasSocket
  BY <1>1 DEF CanSend, HasSocket
<1>5. \A n \in Timers : Doomed(n) => Doomed(n)'
  BY <1>1, <1>2 DEF Doomed
<1>6. IterInv'
  BY <1>1, <1>2, <1>3, <1>5 DEF SubscriptionsInv, IterInv
<1>7. CommandInv'
  BY <1>2 DEF CommandInv
<1>8. NewInv'
  BY <1>1, ToldOnSocket DEF SubscriptionsInv, NewInv
<1>9. \A f : \A x \in Dialers \ {User} : WillTell(x, f) => WillTell(x, f)'
  BY <1>1, <1>2, <1>3, Kinds DEF WillTell
<1>10. MissingInv'
  <2> SUFFICES ASSUME CanSend', NEW f \in subscriptions' \ subscribed'[ws']
               PROVE  \/ f \in passed'
                      \/ \E x \in Dialers : WillTell(x, f)'
                      \/ \E n \in Timers : pc'[Timer(n)] = "lost"
    BY DEF MissingInv
  <2>1. /\ f \in subscriptions \ subscribed[ws]
        /\ SubscribeEnds => f # filter[User]
    <3>1. CASE SubscribeEnds
      BY <1>1, <1>4, <3>1, ToldOnSocket
    <3>2. CASE UnsubscribeEnds
      <4>1. filter[User] \notin subscriptions
        BY <1>1, <3>2 DEF SubscriptionsInv, CommandInv
      <4>2. subscribed'[ws'] = subscribed[ws] \ {filter[User]}
        BY <1>1, <1>4, <3>2, ToldOnSocket
      <4>3. ~SubscribeEnds
        BY <1>1, <3>2
      <4> QED BY <1>1, <4>1, <4>2, <4>3
    <3> QED BY <3>1, <3>2
  <2>2. ~WillTell(User, f)
    BY <1>1, <2>1 DEF WillTell
  <2> QED BY <1>1, <1>2, <1>4, <1>9, <2>1, <2>2 DEF SubscriptionsInv, MissingInv
<1>11. ExtraInv'
  <2> SUFFICES ASSUME HasSocket', ~untold', passed' = {},
                      NEW f \in subscribed'[ws'] \ subscriptions'
               PROVE  \E n \in Timers : Doomed(n)' \/ pc'[Timer(n)] = "lost"
    BY DEF ExtraInv
  <2>1. /\ f \in subscribed[ws] /\ ~untold
        /\ UnsubscribeEnds => f # filter[User]
    <3>1. CASE SubscribeEnds
      <4>1. filter[User] \in subscriptions /\ ~UnsubscribeEnds
        BY <1>1, <3>1 DEF SubscriptionsInv, CommandInv
      <4>2. subscribed'[ws'] \subseteq subscribed[ws] \cup {filter[User]}
        BY <1>1, <3>1, ToldOnSocket
      <4> QED BY <1>1, <3>1, <4>1, <4>2
    <3>2. CASE UnsubscribeEnds
      <4>1. ~untold /\ CanSend
        BY <1>1, <1>4, <3>2 DEF HasSocket
      <4>2. subscribed'[ws'] = subscribed[ws] \ {filter[User]}
        BY <1>1, <3>2, <4>1, ToldOnSocket
      <4> QED BY <4>1, <4>2
    <3> QED BY <3>1, <3>2
  <2>2. \E n \in Timers : Doomed(n) \/ pc[Timer(n)] = "lost"
    BY <1>1, <1>4, <2>1 DEF SubscriptionsInv, ExtraInv
  <2> QED BY <1>2, <1>5, <2>2
<1> QED  BY <1>6, <1>7, <1>8, <1>10, <1>11 DEF SubscriptionsInv

LEMMA SubscriptionsStep ==
    ASSUME TypeOK, SubscriptionsInv, [Next]_vars
    PROVE  SubscriptionsInv'
<1>1. CASE UserCall
  BY <1>1, OtherSubscriptions, SubscribeSubscriptions, UnsubscribeSubscriptions DEF UserCall
<1>2. CASE UserStep
  BY <1>2, Kinds, OtherSubscriptions, DialerSubscriptions, DisconnectSubscriptions,
     CommandSubscriptions DEF UserStep
<1>3. ASSUME NEW n \in Timers, TimerStep(n) PROVE SubscriptionsInv'
  <2>1. Timer(n) \in Threads \ {User} /\ Timer(n) \in Dialers
    BY Kinds
  <2> QED BY <1>3, <2>1, OtherSubscriptions, DialerSubscriptions, LossSubscriptions DEF TimerStep
<1>4. ASSUME NEW r \in Receivers, ReceiverStep(r) PROVE SubscriptionsInv'
  BY <1>4, ReceiverSubscriptions
<1>5. CASE \E s \in Sockets : ServerCloses(s)
  BY <1>5, OtherSubscriptions
<1>6. CASE UNCHANGED vars
  BY <1>6, OtherSubscriptions
<1> QED  BY <1>1, <1>2, <1>3, <1>4, <1>5, <1>6 DEF Next

\* At rest no thread is left that is going to tell the server anything.
LEMMA SubscriptionsEnough ==
    ASSUME SubscriptionsInv
    PROVE  SubscriptionsReachServer
<1> SUFFICES ASSUME AtRest, CanSend
             PROVE  /\ subscriptions \subseteq subscribed[ws] \cup passed
                    /\ ~untold /\ passed = {} => subscribed[ws] \subseteq subscriptions
  BY DEF SubscriptionsReachServer
<1>1. \A x \in Dialers : pc[x] \in {"idle", "none", "cancelled", "done"}
  BY Kinds DEF AtRest
<1>2. \A f : \A x \in Dialers : ~WillTell(x, f)
  BY <1>1 DEF WillTell
<1>3. \A n \in Timers : pc[Timer(n)] # "lost" /\ ~Doomed(n)
  BY <1>1, Kinds DEF Doomed
<1>4. HasSocket /\ pc[User] = "idle"
  BY DEF CanSend, HasSocket, AtRest
<1>5. subscriptions \subseteq subscribed[ws] \cup passed
  BY <1>2, <1>3 DEF SubscriptionsInv, MissingInv
<1>6. ~untold /\ passed = {} => subscribed[ws] \subseteq subscriptions
  BY <1>3, <1>4 DEF SubscriptionsInv, ExtraInv
<1> QED  BY <1>5, <1>6

-----------------------------------------------------------------------------
(* The theorems *)

\* The inductive invariant of the client: the types, the chain of threads that spends
\* the budget, what a final disconnect() leaves, and who is going to tell the server
\* what it does not know yet.
THEOREM WebSocketInvariant == Spec => []WebSocketInv
<1>1. Init => WebSocketInv
  BY Starts
<1>2. WebSocketInv /\ [Next]_vars => WebSocketInv'
  <2> SUFFICES ASSUME WebSocketInv, [Next]_vars PROVE WebSocketInv'
    OBVIOUS
  <2>1. TypeOK /\ BudgetInv /\ FinalInv /\ SubscriptionsInv
    BY DEF WebSocketInv
  <2>2. TypeOK' /\ BudgetInv' /\ FinalInv' /\ SubscriptionsInv'
    BY <2>1, TypeStep, BudgetStep, FinalStep, SubscriptionsStep
  <2> QED BY <2>2 DEF WebSocketInv
<1> QED  BY <1>1, <1>2, PTL DEF Spec

\* Every variable keeps to its values, every thread to its kind.
THEOREM TypeCorrect == Spec => []TypeOK
<1>1. WebSocketInv => TypeOK
  BY DEF WebSocketInv
<1> QED  BY <1>1, WebSocketInvariant, PTL

\* A client whose user called connect() once, and whose sockets are never stable, starts
\* max_reconnect_attempts timers at most, whatever the server accepts and closes
\* (_handle_disconnect, _reset_budget_if_stable).
THEOREM BudgetHeldHolds == Spec => []BudgetHeld
<1>1. WebSocketInv => BudgetHeld
  BY BudgetEnough DEF WebSocketInv
<1> QED  BY <1>1, WebSocketInvariant, PTL

\* A disconnect() that meets no loss, no dial and one timer at most is final
\* (disconnect, _receive_loop).
THEOREM DisconnectIsFinalHolds == Spec => []DisconnectIsFinal
<1>1. WebSocketInv => DisconnectIsFinal
  BY FinalEnough DEF WebSocketInv
<1> QED  BY <1>1, WebSocketInvariant, PTL

\* A client at rest on an open socket receives the events of the subscriptions it holds,
\* but for entries that an insert moved the iteration past; and of no other, if there
\* were no such entries and it could tell the server (subscribe, unsubscribe,
\* _resubscribe_all).
THEOREM SubscriptionsReachServerHolds == Spec => []SubscriptionsReachServer
<1>1. WebSocketInv => SubscriptionsReachServer
  BY SubscriptionsEnough DEF WebSocketInv
<1> QED  BY <1>1, WebSocketInvariant, PTL
=============================================================================

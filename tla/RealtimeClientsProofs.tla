------------------------- MODULE RealtimeClientsProofs -------------------------
(***************************************************************************)
(* Theorems about RealtimeClients, for all filters, slots, budgets and     *)
(* bounds: the properties of SSEClient, AsyncSSEClient,                    *)
(* AsyncWebSocketClient and SpooledRealtime that are invariants.           *)
(***************************************************************************)
EXTENDS RealtimeClientsInvariants, FiniteSetTheorems, TLAPS

\* A step of the composition is a step of each client, or leaves it alone.
LEMMA ClientSteps ==
    ASSUME [StreamsNext]_streamVars
    PROVE  /\ [SSE!SSENext]_sseVars /\ [ASSE!AsyncSSENext]_asseVars
           /\ [AWS!AWNext]_awVars /\ [RT!RTNext]_rtVars
  BY DEF StreamsNext, Of, streamVars, sseVars, asseVars, awVars, rtVars

-----------------------------------------------------------------------------
(* SSEClient *)

\* What the methods leave to the invariant: attributes, and the part they change of
\* those that the budget is about.
SameCount(s, r) == r.attempts = s.attempts /\ r.redials = s.redials /\ r.calls = s.calls

LEMMA Zero == 0 \in Nat /\ 0 \in 0 .. MaxReconnects /\ 0 \in 0 .. MaxSSECalls
  BY BudgetAssumption, CallBoundsAssumption

LEMMA TornDownFacts ==
    ASSUME NEW s \in SSE!SSEClients
    PROVE  /\ SSE!TornDown(s) \in SSE!SSEClients /\ SameCount(s, SSE!TornDown(s))
           /\ SSE!TornDown(s).refused = s.refused
  BY DEF SSE!TornDown, SSE!SSEClients, SSE!SSEStates, SameCount

LEMMA OpenedFacts ==
    ASSUME NEW s \in SSE!SSEClients
    PROVE  /\ SSE!Opened(s) \in SSE!SSEClients /\ SameCount(s, SSE!Opened(s))
           /\ SSE!Opened(s).refused = s.refused
<1>1. s.holds \cup {"parser"} \in SUBSET {"client", "response", "parser"}
  BY DEF SSE!SSEClients
<1>2. SSE!Opened(s) \in SSE!SSEClients
  BY <1>1 DEF SSE!Opened, SSE!SSEClients, SSE!SSEStates
<1> QED  BY <1>2 DEF SSE!Opened, SSE!SSEClients, SameCount

LEMMA DialingFacts ==
    ASSUME NEW s \in SSE!SSEClients
    PROVE  /\ SSE!Dialing(s) \in SSE!SSEClients /\ SameCount(s, SSE!Dialing(s))
           /\ SSE!Dialing(s).refused = s.refused
  BY DEF SSE!Dialing, SSE!SSEClients, SSE!SSEStates, SameCount

LEMMA ConnectingFacts ==
    ASSUME NEW s \in SSE!SSEClients
    PROVE  /\ SSE!Connecting(s) \in SSE!SSEClients
           /\ SSE!Connecting(s).attempts = 0 /\ SSE!Connecting(s).redials = 0
           /\ SSE!Connecting(s).calls = s.calls /\ SSE!Connecting(s).refused = s.refused
<1> DEFINE r == [s EXCEPT !.attempts = 0, !.finished = FALSE, !.redials = 0]
<1>1. r \in SSE!SSEClients
  BY Zero DEF SSE!SSEClients
<1>2. r.attempts = 0 /\ r.redials = 0 /\ r.calls = s.calls /\ r.refused = s.refused
  BY DEF SSE!SSEClients
<1>3. SSE!Connecting(s) = SSE!Dialing(r)
  BY DEF SSE!Connecting
<1> HIDE DEF r
<1> QED  BY <1>1, <1>2, <1>3, DialingFacts DEF SameCount

LEMMA RedialingFacts ==
    ASSUME NEW s \in SSE!SSEClients
    PROVE  /\ SSE!Redialing(s) \in SSE!SSEClients
           /\ SSE!Redialing(s).attempts = s.attempts
           /\ SSE!Redialing(s).redials = s.redials + 1
           /\ SSE!Redialing(s).calls = s.calls /\ SSE!Redialing(s).refused = s.refused
<1> DEFINE r == SSE!Dialing(SSE!TornDown(s))
<1>1. r \in SSE!SSEClients /\ SameCount(s, r) /\ r.refused = s.refused
  BY TornDownFacts, DialingFacts DEF SameCount
<1>2. SSE!Redialing(s) = [r EXCEPT !.redialing = TRUE, !.redials = @ + 1]
  BY DEF SSE!Redialing
<1>3. s.redials + 1 \in Nat /\ r.redials = s.redials
  BY <1>1 DEF SameCount, SSE!SSEClients
<1> HIDE DEF r
<1>4. SSE!Redialing(s) \in SSE!SSEClients
  BY <1>1, <1>2, <1>3 DEF SSE!SSEClients
<1>5. /\ SSE!Redialing(s).attempts = r.attempts /\ SSE!Redialing(s).calls = r.calls
      /\ SSE!Redialing(s).redials = r.redials + 1 /\ SSE!Redialing(s).refused = r.refused
  BY <1>1, <1>2 DEF SSE!SSEClients
<1> QED  BY <1>1, <1>3, <1>4, <1>5 DEF SameCount

LEMMA CalledFacts ==
    ASSUME NEW s \in SSE!SSEClients, NEW t \in SSE!SSEThreads, s.calls[t] < MaxSSECalls
    PROVE  /\ SSE!Called(s, t) \in SSE!SSEClients
           /\ SSE!Called(s, t).attempts = s.attempts /\ SSE!Called(s, t).redials = s.redials
           /\ SSE!Called(s, t).refused = s.refused
           /\ SSE!Called(s, t).holds = s.holds /\ SSE!Called(s, t).state = s.state
           /\ SSE!Called(s, t).calls = [s.calls EXCEPT ![t] = @ + 1]
<1>1. [s.calls EXCEPT ![t] = @ + 1] \in [SSE!SSEThreads -> 0 .. MaxSSECalls]
  BY CallBoundsAssumption DEF SSE!SSEClients
<1> QED  BY <1>1 DEF SSE!Called, SSE!SSEClients

LEMMA UserCalledFacts ==
    ASSUME NEW s \in SSE!SSEClients, s.calls["user"] < MaxSSECalls
    PROVE  /\ SSE!Called(s, "user") \in SSE!SSEClients
           /\ SSE!Called(s, "user").calls["user"] # 0
           /\ SSE!Called(s, "user").refused = s.refused
<1>1. /\ "user" \in SSE!SSEThreads /\ s.calls["user"] \in Nat
      /\ s.calls \in [SSE!SSEThreads -> 0 .. MaxSSECalls]
  BY CallBoundsAssumption DEF SSE!SSEThreads, SSE!SSEClients
<1>2. [s.calls EXCEPT !["user"] = @ + 1]["user"] # 0
  BY <1>1
<1> QED  BY <1>1, <1>2, CalledFacts

LEMMA DeliveredFacts ==
    ASSUME NEW s \in SSE!SSEClients, NEW terminal \in BOOLEAN
    PROVE  /\ SSE!Delivered(s, terminal) \in SSE!SSEClients
           /\ SSE!Delivered(s, terminal).redials = 0
           /\ SSE!Delivered(s, terminal).attempts = 0
           /\ SSE!Delivered(s, terminal).calls = s.calls
           /\ SSE!Delivered(s, terminal).refused = s.refused
<1>1. s.finished \/ (s.jobStream /\ terminal) \in BOOLEAN
  BY DEF SSE!SSEClients
<1>2. SSE!Delivered(s, terminal) \in SSE!SSEClients
  BY <1>1, Zero DEF SSE!Delivered, SSE!SSEClients
<1> QED  BY <1>2 DEF SSE!Delivered, SSE!SSEClients

LEMMA SSEStarts ==
    ASSUME SSE!SSEInit
    PROVE  IterationInv(sse, ssePc)
  BY BudgetAssumption, CallBoundsAssumption
     DEF SSE!SSEInit, IterationInv, RedialsSpent, IterationPcs, SSE!SSEClients, SSE!SSEStates,
         SSE!SSEThreads, SSE!ConsumerPcs, SSE!UserPcs

LEMMA Counters ==
    ASSUME NEW s \in SSE!SSEClients
    PROVE  /\ s.attempts \in Nat /\ s.redials \in Nat /\ s.refused \in BOOLEAN
           /\ s.calls \in [SSE!SSEThreads -> 0 .. MaxSSECalls] /\ s.calls["user"] \in Nat
  BY BudgetAssumption, CallBoundsAssumption DEF SSE!SSEClients, SSE!SSEThreads

\* Every action keeps the budget of a consumer on its own, and what rejects it ends its
\* iteration.
LEMMA SSEStep ==
    ASSUME IterationInv(sse, ssePc), [SSE!SSENext]_sseVars
    PROVE  IterationInv(sse, ssePc)'
<1>0. /\ sse \in SSE!SSEClients /\ ssePc \in [SSE!SSEThreads -> IterationPcs]
      /\ sse.attempts \in Nat /\ sse.redials \in Nat /\ sse.refused \in BOOLEAN
      /\ sse.calls \in [SSE!SSEThreads -> 0 .. MaxSSECalls] /\ sse.calls["user"] \in Nat
  BY Counters DEF IterationInv
<1> DEFINE Goal == IterationInv(sse, ssePc)'
<1> USE DEF IterationInv, RedialsSpent, IterationPcs, SSE!SSEThreads, SSE!ConsumerPcs,
            SSE!UserPcs, SSE!SSEGoto, SameCount
<1>1. ASSUME SSE!ConsumerStarts PROVE Goal
  <2>1. sse.calls["consumer"] < MaxSSECalls
    BY <1>1 DEF SSE!ConsumerStarts, SSE!MayCall
  <2> DEFINE r == SSE!Called(sse, "consumer")
             s == [r EXCEPT !.redialing = FALSE, !.refused = FALSE]
  <2>2. /\ r \in SSE!SSEClients /\ r.calls["user"] = sse.calls["user"]
        /\ r.attempts = sse.attempts /\ r.redials = sse.redials
    BY <1>0, <2>1, CalledFacts
  <2> HIDE DEF r
  <2>3. /\ s \in SSE!SSEClients /\ s.calls = r.calls /\ s.attempts = r.attempts
        /\ s.redials = r.redials /\ ~s.refused
    BY <2>2 DEF SSE!SSEClients
  <2> HIDE DEF s
  <2>4. CASE sse' = s /\ SSE!SSEGoto("consumer", "loop")
    BY <1>0, <2>2, <2>3, <2>4
  <2>5. CASE sse' = SSE!Connecting(s) /\ SSE!SSEGoto("consumer", "dial")
    BY <1>0, <2>2, <2>3, <2>5, ConnectingFacts, Zero
  <2> QED BY <1>1, <2>4, <2>5 DEF SSE!ConsumerStarts, s, r
<1>2. ASSUME SSE!UserConnects PROVE Goal
  <2>1. sse.calls["user"] < MaxSSECalls /\ ssePc' = [ssePc EXCEPT !["user"] = "dial"]
    BY <1>2 DEF SSE!UserConnects, SSE!MayCall
  <2> DEFINE r == SSE!Called(sse, "user")
  <2>2. r \in SSE!SSEClients /\ r.calls["user"] # 0 /\ r.refused = sse.refused
    BY <1>0, <2>1, UserCalledFacts
  <2> HIDE DEF r
  <2>3. /\ sse' \in SSE!SSEClients /\ sse'.calls["user"] # 0 /\ sse'.refused = sse.refused
    BY <1>2, <2>2, ConnectingFacts DEF SSE!UserConnects, r
  <2> QED BY <1>0, <2>1, <2>3
<1>3. ASSUME SSE!UserCloses PROVE Goal
  <2>1. sse.calls["user"] < MaxSSECalls /\ ssePc' = [ssePc EXCEPT !["user"] = "closing"]
    BY <1>3 DEF SSE!UserCloses, SSE!MayCall
  <2> DEFINE r == SSE!Called(sse, "user")
  <2>2. r \in SSE!SSEClients /\ r.calls["user"] # 0 /\ r.refused = sse.refused
    BY <1>0, <2>1, UserCalledFacts
  <2> HIDE DEF r
  <2>3. sse' \in SSE!SSEClients /\ sse'.calls["user"] # 0 /\ sse'.refused = sse.refused
    BY <1>3, <2>2 DEF SSE!UserCloses, r, SSE!SSEClients
  <2> QED BY <1>0, <2>1, <2>3
<1>4. ASSUME NEW t \in {"consumer", "user"}, SSE!ServerAnswers(t) \/ SSE!OpenEnds(t)
      PROVE  Goal
  <2>1. CASE SSE!ServerAnswers(t)
    <3>1. sse' \in SSE!SSEClients /\ SameCount(sse, sse') /\ sse'.refused = sse.refused
      BY <1>0, <2>1 DEF SSE!ServerAnswers, SSE!SSEClients
    <3> QED BY <1>0, <2>1, <3>1 DEF SSE!ServerAnswers
  <2>2. CASE SSE!OpenEnds(t)
    BY <1>0, <2>2, OpenedFacts DEF SSE!OpenEnds
  <2> QED BY <1>4, <2>1, <2>2
<1>5. ASSUME NEW t \in {"consumer", "user"}, SSE!OpenFails(t) PROVE Goal
  <2>1. PICK retryable \in BOOLEAN :
            /\ sse' = [SSE!TornDown(sse) EXCEPT
                           !.refused = @ \/ (t = "consumer" /\ ~retryable)]
            /\ ssePc' = [SSE!Cut(ssePc) EXCEPT ![t] =
                  IF t = "user" THEN "idle"
                  ELSE IF SSE!WorthRetrying(sse, retryable) THEN "again" ELSE "over"]
    BY <1>5 DEF SSE!OpenFails
  <2> DEFINE r == SSE!TornDown(sse)
  <2>2. r \in SSE!SSEClients /\ SameCount(sse, r) /\ r.refused = sse.refused
    BY <1>0, TornDownFacts
  <2> HIDE DEF r
  <2>3. r.refused \/ (t = "consumer" /\ ~retryable) \in BOOLEAN
    OBVIOUS
  <2>4. sse' \in SSE!SSEClients
    BY <2>1, <2>2, <2>3 DEF SSE!SSEClients, r
  <2>5. /\ SameCount(r, sse')
        /\ sse'.refused => r.refused \/ (t = "consumer" /\ ~retryable)
    BY <2>1, <2>2 DEF SSE!SSEClients, r
  <2> QED BY <1>0, <1>5, <2>1, <2>2, <2>4, <2>5 DEF SSE!OpenFails, SSE!Cut, SSE!WorthRetrying
<1>6. ASSUME SSE!EnterLoop \/ SSE!StreamBreaks PROVE Goal
  BY <1>0, <1>6 DEF SSE!EnterLoop, SSE!StreamBreaks
<1>7. ASSUME SSE!EventArrives PROVE Goal
  <2>1. CASE sse.closed
    BY <1>0, <1>7, <2>1 DEF SSE!EventArrives
  <2>2. CASE ~sse.closed
    BY <1>0, <1>7, <2>2, DeliveredFacts, Zero DEF SSE!EventArrives
  <2> QED BY <2>1, <2>2
<1>8. ASSUME SSE!StreamEnds PROVE Goal
  <2>1. CASE ~sse.finished
    BY <1>0, <1>8, <2>1 DEF SSE!StreamEnds
  <2>2. CASE sse.finished
    <3> DEFINE r == SSE!TornDown(sse)
    <3>1. r \in SSE!SSEClients /\ SameCount(sse, r) /\ r.refused = sse.refused
      BY <1>0, TornDownFacts
    <3> HIDE DEF r
    <3>2. sse' \in SSE!SSEClients /\ SameCount(r, sse') /\ sse'.refused = r.refused
      BY <1>8, <2>2, <3>1 DEF SSE!StreamEnds, SSE!SSEClients, r
    <3> QED BY <1>0, <1>8, <2>2, <3>1, <3>2 DEF SSE!StreamEnds
  <2> QED BY <2>1, <2>2
<1>9. ASSUME SSE!SpendAttempt PROVE Goal
  <2>1. CASE ~SSE!MayReconnect(sse)
    BY <1>0, <1>9, <2>1 DEF SSE!SpendAttempt
  <2>2. CASE SSE!MayReconnect(sse)
    <3>1. sse.attempts + 1 \in 0 .. MaxReconnects
      BY <1>0, <2>2, BudgetAssumption DEF SSE!MayReconnect
    <3>2. sse' \in SSE!SSEClients
      BY <1>0, <1>9, <2>2, <3>1 DEF SSE!SpendAttempt, SSE!SSEClients
    <3>3. /\ sse'.attempts = sse.attempts + 1 /\ sse'.redials = sse.redials
          /\ sse'.calls = sse.calls /\ sse'.refused = sse.refused
      BY <1>0, <1>9, <2>2 DEF SSE!SpendAttempt, SSE!SSEClients
    <3> QED BY <1>0, <1>9, <2>2, <3>2, <3>3 DEF SSE!SpendAttempt
  <2> QED BY <2>1, <2>2
<1>10. ASSUME SSE!BackOff PROVE Goal
  <2>1. sse' \in SSE!SSEClients /\ SameCount(sse, sse') /\ sse'.refused = sse.refused
    BY <1>0, <1>10 DEF SSE!BackOff, SSE!SSEClients, SSE!SSEStates
  <2> QED BY <1>0, <1>10, <2>1 DEF SSE!BackOff
<1>11. ASSUME SSE!WakeUp PROVE Goal
  <2>1. CASE sse.closed
    BY <1>0, <1>11, <2>1 DEF SSE!WakeUp
  <2>2. CASE ~sse.closed
    BY <1>0, <1>11, <2>2, RedialingFacts DEF SSE!WakeUp
  <2> QED BY <2>1, <2>2
<1>12. ASSUME SSE!CloseEnds PROVE Goal
  BY <1>0, <1>12, TornDownFacts DEF SSE!CloseEnds, SSE!Cut
<1>13. ASSUME UNCHANGED sseVars PROVE Goal
  BY <1>13 DEF sseVars
<1> QED
  BY <1>1, <1>2, <1>3, <1>4, <1>5, <1>6, <1>7, <1>8, <1>9, <1>10, <1>11, <1>12, <1>13
     DEF SSE!SSENext, SSE!ConsumerStep, SSE!StreamStep, SSE!UserStep, SSE!OpenStep

-----------------------------------------------------------------------------
(* AsyncSSEClient *)

\* The methods are those of SSEClient, on the attributes of the other client.
LEMMA SameMethods ==
    /\ \A s : /\ ASSE!S!TornDown(s) = SSE!TornDown(s) /\ ASSE!S!Opened(s) = SSE!Opened(s)
              /\ ASSE!S!Connecting(s) = SSE!Connecting(s)
              /\ ASSE!S!Redialing(s) = SSE!Redialing(s)
              /\ ASSE!S!MayReconnect(s) = SSE!MayReconnect(s)
    /\ \A s, t : ASSE!S!Called(s, t) = SSE!Called(s, t)
    /\ \A s, b : ASSE!S!Delivered(s, b) = SSE!Delivered(s, b)
    /\ \A pcs : ASSE!S!Cut(pcs) = SSE!Cut(pcs)
<1>1. \A s : ASSE!S!Dialing(s) = SSE!Dialing(s)
  BY DEF ASSE!S!Dialing, SSE!Dialing
<1>2. \A s : ASSE!S!TornDown(s) = SSE!TornDown(s)
  BY DEF ASSE!S!TornDown, SSE!TornDown
<1>3. \A s : ASSE!S!Connecting(s) = SSE!Connecting(s)
  BY <1>1 DEF ASSE!S!Connecting, SSE!Connecting
<1>4. \A s : ASSE!S!Redialing(s) = SSE!Redialing(s)
  BY <1>1, <1>2 DEF ASSE!S!Redialing, SSE!Redialing
<1>5. \A s : ASSE!S!Opened(s) = SSE!Opened(s)
  BY DEF ASSE!S!Opened, SSE!Opened
<1>6. \A s : ASSE!S!MayReconnect(s) = SSE!MayReconnect(s)
  BY DEF ASSE!S!MayReconnect, SSE!MayReconnect
<1>7. \A s, t : ASSE!S!Called(s, t) = SSE!Called(s, t)
  BY DEF ASSE!S!Called, SSE!Called
<1>8. \A s, b : ASSE!S!Delivered(s, b) = SSE!Delivered(s, b)
  BY DEF ASSE!S!Delivered, SSE!Delivered
<1>9. \A pcs : ASSE!S!Cut(pcs) = SSE!Cut(pcs)
  BY DEF ASSE!S!Cut, SSE!Cut
<1> QED  BY <1>2, <1>3, <1>4, <1>5, <1>6, <1>7, <1>8, <1>9

LEMMA AsyncSSEStarts ==
    ASSUME ASSE!AsyncSSEInit
    PROVE  IterationInv(asse, assePc)
  BY BudgetAssumption, CallBoundsAssumption
     DEF ASSE!AsyncSSEInit, ASSE!S!SSEInit, ASSE!S!SSEThreads, IterationInv, RedialsSpent,
         IterationPcs, SSE!SSEClients, SSE!SSEStates, SSE!SSEThreads, SSE!ConsumerPcs,
         SSE!UserPcs

\* A loss, met with attributes s by an iteration that is not over: an attempt is spent
\* and waits for its dial, or the iteration is over now.
LEMMA LostStep ==
    ASSUME NEW s \in SSE!SSEClients, IterationInv(s, assePc), ASSE!Lost(s, assePc),
           assePc["consumer"] # "over"
    PROVE  IterationInv(asse, assePc)'
<1>0. /\ s.attempts \in Nat /\ s.redials \in Nat /\ s.refused \in BOOLEAN
      /\ s.calls \in [SSE!SSEThreads -> 0 .. MaxSSECalls] /\ s.calls["user"] \in Nat
  BY Counters
<1> USE DEF IterationInv, RedialsSpent, IterationPcs, SSE!SSEThreads, SSE!ConsumerPcs,
            SSE!UserPcs
<1>1. CASE ~SSE!MayReconnect(s)
  BY <1>0, <1>1, SameMethods DEF ASSE!Lost
<1>2. CASE SSE!MayReconnect(s)
  <2>1. s.attempts + 1 \in 0 .. MaxReconnects
    BY <1>0, <1>2, BudgetAssumption DEF SSE!MayReconnect
  <2>2. /\ asse' = [s EXCEPT !.attempts = s.attempts + 1, !.state = "reconnecting"]
        /\ assePc' = [assePc EXCEPT !["consumer"] = "sleeping"]
    BY <1>2, SameMethods DEF ASSE!Lost
  <2>3. asse' \in SSE!SSEClients
    BY <2>1, <2>2 DEF SSE!SSEClients, SSE!SSEStates
  <2>4. /\ asse'.attempts = s.attempts + 1 /\ asse'.redials = s.redials
        /\ asse'.calls = s.calls /\ asse'.refused = s.refused
    BY <2>2 DEF SSE!SSEClients
  <2> QED BY <1>0, <2>2, <2>3, <2>4
<1> QED  BY <1>1, <1>2

\* The actions of the asynchronous client: the awaits make other steps of them.
LEMMA AsyncSSEStep ==
    ASSUME IterationInv(asse, assePc), [ASSE!AsyncSSENext]_asseVars
    PROVE  IterationInv(asse, assePc)'
<1>0. /\ asse \in SSE!SSEClients /\ assePc \in [SSE!SSEThreads -> IterationPcs]
      /\ asse.attempts \in Nat /\ asse.redials \in Nat /\ asse.refused \in BOOLEAN
      /\ asse.calls \in [SSE!SSEThreads -> 0 .. MaxSSECalls] /\ asse.calls["user"] \in Nat
  BY Counters DEF IterationInv
<1> DEFINE Goal == IterationInv(asse, assePc)'
<1> USE DEF IterationInv, RedialsSpent, IterationPcs, SSE!SSEThreads, SSE!ConsumerPcs,
            SSE!UserPcs, ASSE!Goto, SameCount
<1>1. ASSUME ASSE!ConsumerStarts PROVE Goal
  <2>1. asse.calls["consumer"] < MaxSSECalls
    BY <1>1 DEF ASSE!ConsumerStarts, ASSE!S!ConsumerStarts, ASSE!S!MayCall
  <2> DEFINE r == SSE!Called(asse, "consumer")
             s == [r EXCEPT !.redialing = FALSE, !.refused = FALSE]
  <2>2. /\ r \in SSE!SSEClients /\ r.calls["user"] = asse.calls["user"]
        /\ r.attempts = asse.attempts /\ r.redials = asse.redials
    BY <1>0, <2>1, CalledFacts
  <2> HIDE DEF r
  <2>3. /\ s \in SSE!SSEClients /\ s.calls = r.calls /\ s.attempts = r.attempts
        /\ s.redials = r.redials /\ ~s.refused
    BY <2>2 DEF SSE!SSEClients
  <2> HIDE DEF s
  <2>4. CASE asse' = s /\ ASSE!Goto("consumer", "loop")
    BY <1>0, <2>2, <2>3, <2>4
  <2>5. CASE asse' = SSE!Connecting(s) /\ ASSE!Goto("consumer", "dial")
    BY <1>0, <2>2, <2>3, <2>5, ConnectingFacts, Zero
  <2> QED BY <1>1, <2>4, <2>5, SameMethods
          DEF ASSE!ConsumerStarts, ASSE!S!ConsumerStarts, ASSE!S!SSEGoto, s, r
<1>2. ASSUME ASSE!UserConnects PROVE Goal
  <2>1. asse.calls["user"] < MaxSSECalls /\ assePc' = [assePc EXCEPT !["user"] = "dial"]
    BY <1>2 DEF ASSE!UserConnects, ASSE!S!UserConnects, ASSE!S!MayCall, ASSE!S!SSEGoto
  <2> DEFINE r == SSE!Called(asse, "user")
  <2>2. r \in SSE!SSEClients /\ r.calls["user"] # 0 /\ r.refused = asse.refused
    BY <1>0, <2>1, UserCalledFacts
  <2> HIDE DEF r
  <2>3. /\ asse' \in SSE!SSEClients /\ asse'.calls["user"] # 0
        /\ asse'.refused = asse.refused
    BY <1>2, <2>2, ConnectingFacts, SameMethods
       DEF ASSE!UserConnects, ASSE!S!UserConnects, r
  <2> QED BY <1>0, <2>1, <2>3
<1>3. ASSUME ASSE!UserCloses PROVE Goal
  <2>1. /\ asse.calls["user"] < MaxSSECalls
        /\ assePc' = [SSE!Cut(assePc) EXCEPT !["user"] = "closing"]
    BY <1>3, SameMethods DEF ASSE!UserCloses, ASSE!S!MayCall
  <2> DEFINE r == SSE!Called(asse, "user")
  <2>2. r \in SSE!SSEClients /\ r.calls["user"] # 0 /\ r.refused = asse.refused
    BY <1>0, <2>1, UserCalledFacts
  <2> HIDE DEF r
  <2>3. asse' \in SSE!SSEClients /\ asse'.calls["user"] # 0 /\ asse'.refused = asse.refused
    BY <1>3, <2>2, SameMethods DEF ASSE!UserCloses, r, SSE!SSEClients
  <2> QED BY <1>0, <2>1, <2>3 DEF SSE!Cut
<1>4. ASSUME NEW t \in {"consumer", "user"}, ASSE!OpenEnds(t) PROVE Goal
  <2> DEFINE r == SSE!Opened(asse)
  <2>1. r \in SSE!SSEClients /\ SameCount(asse, r) /\ r.refused = asse.refused
    BY <1>0, OpenedFacts
  <2> HIDE DEF r
  <2>2. asse' \in SSE!SSEClients /\ SameCount(r, asse') /\ asse'.refused = r.refused
    BY <1>4, <2>1, SameMethods DEF ASSE!OpenEnds, SSE!SSEClients, r
  <2> QED BY <1>0, <1>4, <2>1, <2>2 DEF ASSE!OpenEnds
<1>5. ASSUME NEW t \in {"consumer", "user"}, ASSE!OpenFails(t) PROVE Goal
  <2> DEFINE r == SSE!TornDown(asse)
             s(b) == [r EXCEPT !.refused = @ \/ (t = "consumer" /\ ~b)]
  <2>1. PICK b \in BOOLEAN :
            IF t = "consumer" /\ ASSE!S!WorthRetrying(asse, b)
            THEN ASSE!Lost(s(b), assePc)
            ELSE /\ asse' = s(b)
                 /\ assePc' = [SSE!Cut(assePc) EXCEPT ![t] =
                                   IF t = "user" THEN "idle" ELSE "over"]
    BY <1>5, SameMethods DEF ASSE!OpenFails
  <2>2. r \in SSE!SSEClients /\ SameCount(asse, r) /\ r.refused = asse.refused
    BY <1>0, TornDownFacts
  <2> HIDE DEF r
  <2>3. r.refused \/ (t = "consumer" /\ ~b) \in BOOLEAN
    OBVIOUS
  <2>4. s(b) \in SSE!SSEClients
    BY <2>2, <2>3 DEF SSE!SSEClients
  <2>5. SameCount(r, s(b)) /\ (s(b).refused => r.refused \/ (t = "consumer" /\ ~b))
    BY <2>2 DEF SSE!SSEClients
  <2> HIDE DEF s
  <2>6. assePc[t] = "dial"
    BY <1>5 DEF ASSE!OpenFails
  <2>7. CASE t = "consumer" /\ ASSE!S!WorthRetrying(asse, b)
    <3>1. IterationInv(s(b), assePc) /\ assePc["consumer"] # "over"
      BY <1>0, <2>2, <2>4, <2>5, <2>6, <2>7 DEF ASSE!S!WorthRetrying
    <3> QED BY <2>1, <2>4, <2>7, <3>1, LostStep
  <2>8. CASE ~(t = "consumer" /\ ASSE!S!WorthRetrying(asse, b))
    BY <1>0, <2>1, <2>2, <2>4, <2>5, <2>6, <2>8 DEF SSE!Cut
  <2> QED BY <2>7, <2>8
<1>6. ASSUME ASSE!EnterLoop \/ ASSE!StreamBreaks PROVE Goal
  <2>1. CASE ASSE!Lost(asse, assePc)
    BY <1>0, <1>6, <2>1, LostStep DEF ASSE!EnterLoop, ASSE!StreamBreaks
  <2>2. CASE UNCHANGED asse /\ ASSE!Goto("consumer", "reading") /\ ASSE!EnterLoop
    BY <1>0, <2>2 DEF ASSE!EnterLoop
  <2> QED BY <1>6, <2>1, <2>2 DEF ASSE!EnterLoop, ASSE!StreamBreaks
<1>7. ASSUME ASSE!EventArrives PROVE Goal
  <2>1. CASE asse.closed
    BY <1>0, <1>7, <2>1 DEF ASSE!EventArrives, ASSE!S!EventArrives, ASSE!S!SSEGoto
  <2>2. CASE ~asse.closed
    BY <1>0, <1>7, <2>2, DeliveredFacts, Zero, SameMethods
       DEF ASSE!EventArrives, ASSE!S!EventArrives
  <2> QED BY <2>1, <2>2
<1>8. ASSUME ASSE!StreamEnds PROVE Goal
  <2>1. CASE ~asse.finished
    BY <1>0, <1>8, <2>1, LostStep DEF ASSE!StreamEnds
  <2>2. CASE asse.finished
    <3>1. asse' \in SSE!SSEClients /\ SameCount(asse, asse') /\ asse'.refused = asse.refused
      BY <1>0, <1>8, <2>2 DEF ASSE!StreamEnds, SSE!SSEClients
    <3> QED BY <1>0, <1>8, <2>2, <3>1 DEF ASSE!StreamEnds
  <2> QED BY <2>1, <2>2
<1>9. ASSUME ASSE!WakeUp PROVE Goal
  BY <1>0, <1>9 DEF ASSE!WakeUp
<1>10. ASSUME ASSE!Reopen PROVE Goal
  BY <1>0, <1>10, RedialingFacts, SameMethods DEF ASSE!Reopen
<1>11. ASSUME NEW t \in {"consumer", "user"}, ASSE!CloseEnds(t) PROVE Goal
  BY <1>0, <1>11, TornDownFacts, SameMethods DEF ASSE!CloseEnds, SSE!Cut
<1>12. ASSUME UNCHANGED asseVars PROVE Goal
  BY <1>12 DEF asseVars
<1> QED
  BY <1>1, <1>2, <1>3, <1>4, <1>5, <1>6, <1>7, <1>8, <1>9, <1>10, <1>11, <1>12
     DEF ASSE!AsyncSSENext, ASSE!ConsumerStep, ASSE!StreamStep, ASSE!UserStep, ASSE!OpenStep

-----------------------------------------------------------------------------
(* AsyncWebSocketClient *)

AWStates == {"disconnected", "connecting", "connected", "reconnecting"}
AWPcs == {"idle", "dial", "resubscribe", "reading", "sleeping", "over", "closing"}

\* Cardinality is that of FiniteSets in the instance, too.
LEMMA SameCardinality ==
    ASSUME NEW S
    PROVE  AWS!Cardinality(S) = Cardinality(S)
  BY DEF AWS!Cardinality, Cardinality

LEMMA SubsFinite ==
    ASSUME NEW S \in SUBSET Filters
    PROVE  AWS!Cardinality(S) \in 0 .. AWS!Cardinality(Filters)
  BY FiltersAssumption, FS_Subset, FS_CardinalityType, SameCardinality

\* The attributes and the iterations, field by field.
LEMMA AWFields ==
    ASSUME AWS!AWTypeOK
    PROVE  /\ aws.state \in AWStates /\ aws.attempts \in 0 .. MaxRetries
           /\ aws.sock \in Slots \cup {AWS!NoSock} /\ aws.subs \in SUBSET Filters
           /\ aws.redials \in 0 .. MaxRetries + 1 /\ aws.raised \in BOOLEAN
           /\ aws.passed \in SUBSET Filters
           /\ awPc \in [AWS!Tasks -> AWPcs]
           /\ AWS!NoSock \notin Slots
  BY SlotsAssumption DEF AWS!AWTypeOK, AWS!NoSock, AWStates, AWPcs

AWAttrs ==
    [state : AWStates, attempts : 0 .. MaxRetries, sock : Slots \cup {AWS!NoSock},
     subs : SUBSET Filters,
     redials : 0 .. MaxRetries + 1, raised : BOOLEAN, passed : SUBSET Filters]

AWSockets == [Slots -> [state : {"free", "open", "closed"}, subs : SUBSET Filters]]
AWVals ==
    [sock : Slots \cup {AWS!NoSock}, past : SUBSET Filters, skip : SUBSET Filters,
     size : 0 .. AWS!Cardinality(Filters), left : 0 .. AWS!Cardinality(Filters)]

LEMMA AWTypeParts ==
    AWS!AWTypeOK <=> /\ aws \in AWAttrs /\ awSocks \in AWSockets /\ awPc \in [AWS!Tasks -> AWPcs]
                     /\ awVal \in [AWS!Tasks -> AWVals] /\ awCalls \in 0 .. MaxAWCalls
  BY DEF AWS!AWTypeOK, AWAttrs, AWSockets, AWVals, AWStates, AWPcs

\* The values that the actions put into the attributes.
LEMMA Zeros ==
    /\ 0 \in 0 .. MaxRetries /\ 0 \in 0 .. MaxRetries + 1 /\ 0 \in 0 .. MaxAWCalls
    /\ 0 \in 0 .. AWS!Cardinality(Filters) /\ AWS!NoSock \in Slots \cup {AWS!NoSock}
    /\ {} \in SUBSET Filters /\ AWS!Cardinality({}) = 0
  BY BudgetAssumption, CallBoundsAssumption, SubsFinite, FS_EmptySet, SameCardinality

LEMMA NoValTyped == AWS!NoVal \in AWVals
  BY Zeros DEF AWS!NoVal, AWVals

\* An iteration over nothing, on a socket.
LEMMA SockValTyped ==
    ASSUME NEW s \in Slots \cup {AWS!NoSock}
    PROVE  [AWS!NoVal EXCEPT !.sock = s] \in AWVals
  BY Zeros DEF AWS!NoVal, AWVals

LEMMA AWStarts ==
    ASSUME AWS!AWInit
    PROVE  AWInv
<1>1. aws \in AWAttrs /\ awSocks \in AWSockets
  BY Zeros DEF AWS!AWInit, AWAttrs, AWSockets, AWStates
<1>2. awPc \in [AWS!Tasks -> AWPcs] /\ awVal \in [AWS!Tasks -> AWVals]
  BY NoValTyped DEF AWS!AWInit, AWPcs
<1>3. AWS!AWTypeOK
  BY <1>1, <1>2, Zeros, AWTypeParts DEF AWS!AWInit
<1>4. AWBudgetInv /\ ToldInv
  BY DEF AWS!AWInit, AWBudgetInv, ToldInv
<1> QED  BY <1>3, <1>4 DEF AWInv

\* A command leaves every socket in the state it was in.
LEMMA DeliveredTyped ==
    ASSUME AWS!AWTypeOK, NEW f \in Filters, NEW drop \in BOOLEAN
    PROVE  /\ AWS!Delivered(f, drop) \in AWSockets
           /\ \A s \in Slots : AWS!Delivered(f, drop)[s].state = awSocks[s].state
  BY AWTypeParts, AWFields DEF AWSockets, AWS!Delivered, AWS!Sendable

\* The entries that subscribe() moves an iteration past are filters the client holds.
LEMMA OvertakenFilters ==
    ASSUME AWS!AWTypeOK, NEW f \in Filters, AWS!UserSubscribes(f)
    PROVE  \E skips \in SUBSET Filters :
               /\ aws' = [aws EXCEPT !.subs = @ \cup {f}, !.passed = @ \cup skips]
               /\ awVal' = [awVal EXCEPT !["consumer"].skip = @ \cup skips]
<1>1. AWS!Overtaken(f) \subseteq SUBSET Filters
  BY AWFields DEF AWS!Overtaken
<1> QED  BY <1>1 DEF AWS!UserSubscribes

\* What disconnect() leaves.
LEMMA DisconnectedTyped ==
    ASSUME AWS!AWTypeOK, AWS!DisconnectedNow
    PROVE  aws' \in AWAttrs /\ awVal' \in [AWS!Tasks -> AWVals]
<1>1. aws' \in AWAttrs
  BY Zeros, AWTypeParts DEF AWS!DisconnectedNow, AWAttrs, AWStates
<1>2. \A t \in AWS!Tasks : [awVal[t] EXCEPT !.past = {}, !.skip = {}] \in AWVals
  BY Zeros, AWTypeParts DEF AWVals
<1> QED  BY <1>1, <1>2 DEF AWS!DisconnectedNow

\* Every action keeps the state of the client well typed.
LEMMA AWTypeStep ==
    ASSUME AWS!AWTypeOK, [AWS!AWNext]_awVars
    PROVE  AWS!AWTypeOK'
<1> DEFINE Typed == /\ aws' \in AWAttrs /\ awSocks' \in AWSockets
                    /\ awPc' \in [AWS!Tasks -> AWPcs]
                    /\ awVal' \in [AWS!Tasks -> AWVals] /\ awCalls' \in 0 .. MaxAWCalls
<1>0. /\ aws \in AWAttrs /\ awSocks \in AWSockets /\ awPc \in [AWS!Tasks -> AWPcs]
      /\ awVal \in [AWS!Tasks -> AWVals] /\ awCalls \in 0 .. MaxAWCalls
      /\ aws.sock \in Slots \cup {AWS!NoSock} /\ aws.subs \in SUBSET Filters
  BY AWTypeParts, AWFields
<1>c. AWS!Call => awCalls' \in 0 .. MaxAWCalls
  BY <1>0, CallBoundsAssumption DEF AWS!Call
<1> USE DEF AWS!Goto, AWS!Tasks, AWPcs
<1>1. ASSUME AWS!UserConnects PROVE Typed
  BY <1>0, <1>1, <1>c DEF AWS!UserConnects, AWAttrs, AWStates
<1>2. ASSUME AWS!UserDisconnects PROVE Typed
  <2>1. awSocks' \in AWSockets
    BY <1>0, <1>2 DEF AWS!UserDisconnects, AWS!CloseSock, AWSockets
  <2> QED BY <1>0, <1>2, <1>c, <2>1, DisconnectedTyped DEF AWS!UserDisconnects
<1>3. ASSUME AWS!DisconnectEnds PROVE Typed
  BY <1>0, <1>3, DisconnectedTyped DEF AWS!DisconnectEnds
<1>4. ASSUME NEW f \in Filters, AWS!UserSubscribes(f) PROVE Typed
  <2>1. PICK skips \in SUBSET Filters :
            /\ aws' = [aws EXCEPT !.subs = @ \cup {f}, !.passed = @ \cup skips]
            /\ awVal' = [awVal EXCEPT !["consumer"].skip = @ \cup skips]
    BY <1>4, OvertakenFilters
  <2>2. /\ aws.subs \cup {f} \in SUBSET Filters /\ aws.passed \cup skips \in SUBSET Filters
        /\ awVal["consumer"].skip \cup skips \in SUBSET Filters
    BY <1>0 DEF AWAttrs, AWVals
  <2>3. aws' \in AWAttrs
    BY <1>0, <2>1, <2>2 DEF AWAttrs
  <2>4. [awVal["consumer"] EXCEPT !.skip = @ \cup skips] \in AWVals
    BY <1>0, <2>2 DEF AWVals
  <2>5. awVal' = [awVal EXCEPT !["consumer"] = [awVal["consumer"] EXCEPT !.skip = @ \cup skips]]
    BY <1>0, <2>1 DEF AWVals
  <2>6. awVal' \in [AWS!Tasks -> AWVals]
    BY <1>0, <2>4, <2>5
  <2> QED BY <1>0, <1>4, <1>c, <2>3, <2>6, DeliveredTyped DEF AWS!UserSubscribes
<1>5. ASSUME NEW f \in Filters, AWS!UserUnsubscribes(f) PROVE Typed
  <2>1. aws.subs \ {f} \in SUBSET Filters
    BY <1>0
  <2>2. aws' \in AWAttrs
    BY <1>0, <1>5, <2>1 DEF AWS!UserUnsubscribes, AWAttrs
  <2>3. \A t \in AWS!Tasks :
            [awVal[t] EXCEPT !.past = @ \ {f}, !.skip = @ \ {f}] \in AWVals
    BY <1>0 DEF AWVals
  <2>4. awVal' \in [AWS!Tasks -> AWVals]
    BY <1>5, <2>3 DEF AWS!UserUnsubscribes
  <2> QED BY <1>0, <1>5, <1>c, <2>2, <2>4, DeliveredTyped DEF AWS!UserUnsubscribes
<1>6. ASSUME NEW t \in AWS!Tasks, AWS!DialSucceeds(t) PROVE Typed
  <2>1. PICK s \in Slots :
            /\ awSocks' = [awSocks EXCEPT ![s] = [state |-> "open", subs |-> {}]]
            /\ aws' = [aws EXCEPT !.sock = s, !.state = "connected", !.raised = FALSE,
                                  !.passed = {}]
    BY <1>6 DEF AWS!DialSucceeds, AWS!MarkOpen
  <2>2. aws' \in AWAttrs /\ awSocks' \in AWSockets
    BY <1>0, <2>1 DEF AWAttrs, AWSockets, AWStates
  <2>3. AWS!Cardinality(aws.subs) \in 0 .. AWS!Cardinality(Filters)
    BY <1>0, SubsFinite
  <2>4. [AWS!NoVal EXCEPT !.size = AWS!Cardinality(aws.subs), !.left = AWS!Cardinality(aws.subs)]
            \in AWVals
    BY <2>3, NoValTyped DEF AWVals
  <2>5. awVal' \in [AWS!Tasks -> AWVals]
    BY <1>0, <1>6, <2>4 DEF AWS!DialSucceeds
  <2> QED BY <1>0, <1>6, <2>2, <2>5 DEF AWS!DialSucceeds
<1>7. ASSUME NEW t \in AWS!Tasks, AWS!DialFails(t) PROVE Typed
  BY <1>0, <1>7 DEF AWS!DialFails, AWS!After, AWAttrs, AWStates
<1>8. ASSUME NEW t \in AWS!Tasks, AWS!ResubscribeNext(t) PROVE Typed
  <2>1. PICK f \in aws.subs :
            /\ awSocks' = AWS!Delivered(f, FALSE) /\ awVal[t].left > 0
            /\ awVal' = [awVal EXCEPT ![t].past = @ \cup {f}, ![t].left = @ - 1]
    BY <1>8 DEF AWS!ResubscribeNext, AWS!Intact, AWS!Rest
  <2>2. awVal[t] \in AWVals
    BY <1>0
  <2>3. awVal[t].past \cup {f} \in SUBSET Filters
    BY <1>0, <2>2 DEF AWVals
  <2>4. awVal[t].left - 1 \in 0 .. AWS!Cardinality(Filters)
    BY <2>1, <2>2, SubsFinite DEF AWVals
  <2>5. [awVal[t] EXCEPT !.past = @ \cup {f}, !.left = @ - 1] \in AWVals
    BY <2>2, <2>3, <2>4 DEF AWVals
  <2>6. awVal' = [awVal EXCEPT ![t] = [awVal[t] EXCEPT !.past = @ \cup {f}, !.left = @ - 1]]
    BY <1>0, <2>1, <2>2 DEF AWVals
  <2>7. awVal' \in [AWS!Tasks -> AWVals]
    BY <1>0, <2>5, <2>6
  <2> QED BY <1>0, <1>8, <2>1, <2>7, DeliveredTyped DEF AWS!ResubscribeNext
<1>9. ASSUME NEW t \in AWS!Tasks, AWS!Resubscribed(t) PROVE Typed
  BY <1>0, <1>9, NoValTyped, SockValTyped DEF AWS!Resubscribed, AWS!After
<1>10. ASSUME NEW t \in AWS!Tasks, AWS!ResubscribeFails(t) PROVE Typed
  <2>1. aws' \in AWAttrs
    BY <1>0, <1>10 DEF AWS!ResubscribeFails, AWAttrs, AWStates
  <2> QED BY <1>0, <1>10, <2>1, NoValTyped DEF AWS!ResubscribeFails, AWS!After
<1>11. ASSUME AWS!ConsumerStarts PROVE Typed
  <2>1. aws' \in AWAttrs
    BY <1>0, <1>11, Zeros DEF AWS!ConsumerStarts, AWAttrs
  <2>2. awCalls' \in 0 .. MaxAWCalls
    BY <1>0, <1>11, CallBoundsAssumption DEF AWS!ConsumerStarts
  <2> QED BY <1>0, <1>11, <2>1, <2>2, SockValTyped DEF AWS!ConsumerStarts
<1>12. ASSUME AWS!MessageArrives PROVE Typed
  BY <1>0, <1>12 DEF AWS!MessageArrives, AWS!awVars
<1>13. ASSUME AWS!SocketEnds PROVE Typed
  BY <1>0, <1>13, NoValTyped DEF AWS!SocketEnds
<1>14. ASSUME AWS!SocketBreaks PROVE Typed
  <2>1. CASE aws.attempts < MaxRetries
    <3>1. aws.attempts + 1 \in 0 .. MaxRetries
      BY <2>1, AWFields, BudgetAssumption
    <3>2. (IF aws.redials > MaxRetries THEN aws.redials ELSE aws.redials + 1)
              \in 0 .. MaxRetries + 1
      BY AWFields, BudgetAssumption
    <3>3. aws' = [aws EXCEPT !.state = "reconnecting", !.attempts = aws.attempts + 1,
                             !.redials = IF aws.redials > MaxRetries THEN aws.redials
                                         ELSE aws.redials + 1]
      BY <1>0, <1>14, <2>1 DEF AWS!SocketBreaks, AWAttrs
    <3>4. aws' \in AWAttrs
      BY <1>0, <3>1, <3>2, <3>3 DEF AWAttrs, AWStates
    <3> QED BY <1>0, <1>14, <2>1, <3>4, NoValTyped DEF AWS!SocketBreaks
  <2>2. CASE ~(aws.attempts < MaxRetries)
    <3>1. aws' \in AWAttrs
      BY <1>0, <1>14, <2>2 DEF AWS!SocketBreaks, AWAttrs, AWStates
    <3> QED BY <1>0, <1>14, <2>2, <3>1, NoValTyped DEF AWS!SocketBreaks
  <2> QED BY <2>1, <2>2
<1>15. ASSUME AWS!WakeUp PROVE Typed
  BY <1>0, <1>15 DEF AWS!WakeUp
<1>16. ASSUME NEW s \in Slots, AWS!ServerCloses(s) PROVE Typed
  BY <1>0, <1>16 DEF AWS!ServerCloses, AWSockets
<1>17. ASSUME UNCHANGED awVars PROVE Typed
  BY <1>0, <1>17 DEF awVars
<1>18. Typed
  BY <1>1, <1>2, <1>3, <1>4, <1>5, <1>6, <1>7, <1>8, <1>9, <1>10, <1>11, <1>12, <1>13, <1>14,
     <1>15, <1>16, <1>17 DEF AWS!AWNext, AWS!DialStep
<1>19. AWS!AWTypeOK' <=> Typed
  BY DEF AWS!AWTypeOK, AWAttrs, AWSockets, AWVals, AWStates, AWPcs
<1> QED  BY <1>18, <1>19

\* A reconnect that begins was paid for; the count restarts with the budget or alone.
LEMMA AWBudgetStep ==
    ASSUME AWS!AWTypeOK, AWBudgetInv, [AWS!AWNext]_awVars
    PROVE  AWBudgetInv'
<1>0. aws \in AWAttrs /\ aws.attempts \in Nat /\ aws.redials \in Nat
  BY AWTypeParts, AWFields, BudgetAssumption
<1> DEFINE Same == aws'.redials = aws.redials /\ aws'.attempts = aws.attempts
<1>1. ASSUME \/ AWS!UserConnects \/ \E t \in AWS!Tasks : AWS!DialStep(t)
             \/ \E f \in Filters : AWS!UserSubscribes(f) \/ AWS!UserUnsubscribes(f)
      PROVE  Same
  BY <1>0, <1>1
     DEF AWAttrs, AWS!UserConnects, AWS!DialStep, AWS!DialSucceeds, AWS!MarkOpen, AWS!DialFails,
         AWS!ResubscribeNext, AWS!Resubscribed, AWS!ResubscribeFails, AWS!UserSubscribes,
         AWS!UserUnsubscribes
<1>2. ASSUME \/ AWS!MessageArrives \/ AWS!SocketEnds \/ AWS!WakeUp
             \/ \E s \in Slots : AWS!ServerCloses(s)
             \/ UNCHANGED awVars
      PROVE  Same
  BY <1>2 DEF AWS!MessageArrives, AWS!SocketEnds, AWS!WakeUp, AWS!ServerCloses, AWS!awVars,
              awVars
<1>3. ASSUME AWS!UserDisconnects \/ AWS!DisconnectEnds
      PROVE  Same \/ (aws'.redials = 0 /\ aws'.attempts = 0)
  BY <1>0, <1>3 DEF AWAttrs, AWS!UserDisconnects, AWS!DisconnectEnds, AWS!DisconnectedNow
<1>4. ASSUME AWS!ConsumerStarts
      PROVE  aws'.redials = 0 /\ aws'.attempts = aws.attempts
  BY <1>0, <1>4 DEF AWAttrs, AWS!ConsumerStarts
<1>5. ASSUME AWS!SocketBreaks PROVE AWBudgetInv'
  <2>1. CASE aws.attempts < MaxRetries
    <3>1. /\ aws'.attempts = aws.attempts + 1
          /\ aws'.redials = IF aws.redials > MaxRetries THEN aws.redials ELSE aws.redials + 1
      BY <1>0, <1>5, <2>1 DEF AWAttrs, AWS!SocketBreaks
    <3> QED BY <1>0, <3>1, BudgetAssumption DEF AWBudgetInv
  <2>2. CASE ~(aws.attempts < MaxRetries)
    BY <1>0, <1>5, <2>2 DEF AWAttrs, AWS!SocketBreaks, AWBudgetInv
  <2> QED BY <2>1, <2>2
<1>6. CASE Same \/ (aws'.redials = 0 /\ aws'.attempts \in Nat)
  BY <1>0, <1>6 DEF AWBudgetInv
<1> QED
  BY <1>0, <1>1, <1>2, <1>3, <1>4, <1>5, <1>6 DEF AWS!AWNext

\* A command to the server of a connected client tells it what the client holds.
LEMMA DeliveredTold ==
    ASSUME AWS!AWTypeOK, NEW f \in Filters, NEW drop \in BOOLEAN,
           aws.state = "connected", aws.sock \in AWS!In("open")
    PROVE  /\ AWS!Delivered(f, drop)[aws.sock].state = "open"
           /\ AWS!Delivered(f, drop)[aws.sock].subs =
                  IF drop THEN awSocks[aws.sock].subs \ {f} ELSE awSocks[aws.sock].subs \cup {f}
<1>1. /\ aws.sock \in Slots /\ awSocks[aws.sock].state = "open" /\ AWS!Sendable
      /\ awSocks \in AWSockets
  BY AWFields, AWTypeParts DEF AWS!In, AWS!Sendable
<1> QED  BY <1>1 DEF AWS!Delivered, AWSockets

\* No command opens a socket.
LEMMA OpenBefore ==
    ASSUME AWS!AWTypeOK, NEW f \in Filters, NEW drop \in BOOLEAN, NEW s,
           awSocks' = AWS!Delivered(f, drop), s \in AWS!In("open")'
    PROVE  s \in AWS!In("open")
  BY DeliveredTyped DEF AWS!In

\* Nothing changes what the server knows, or what it is about to be told.
LEMMA ToldKept ==
    ASSUME ToldInv, aws'.state = "connected" => aws.state = "connected",
           aws'.sock = aws.sock, aws'.subs = aws.subs, aws.raised => aws'.raised,
           aws'.passed = aws.passed,
           aws.sock \in AWS!In("open")' => /\ aws.sock \in AWS!In("open")
                                          /\ awSocks'[aws.sock].subs = awSocks[aws.sock].subs,
           \A t \in AWS!Tasks : awPc[t] = "resubscribe" =>
               /\ awPc'[t] = "resubscribe" /\ awVal'[t].past = awVal[t].past
               /\ awVal'[t].skip = awVal[t].skip
    PROVE  ToldInv'
  BY DEF ToldInv

LEMMA ToldStep ==
    ASSUME AWS!AWTypeOK, ToldInv, [AWS!AWNext]_awVars
    PROVE  ToldInv'
<1>0. /\ aws \in AWAttrs /\ awSocks \in AWSockets /\ awPc \in [AWS!Tasks -> AWPcs]
      /\ awVal \in [AWS!Tasks -> AWVals]
      /\ aws.sock \in Slots \cup {AWS!NoSock} /\ aws.subs \in SUBSET Filters
  BY AWTypeParts, AWFields
<1>1. ASSUME AWS!UserConnects \/ AWS!DisconnectEnds PROVE ToldInv'
  <2>1. aws'.state # "connected"
    BY <1>0, <1>1 DEF AWAttrs, AWS!UserConnects, AWS!DisconnectEnds, AWS!DisconnectedNow
  <2> QED BY <2>1 DEF ToldInv
<1>2. ASSUME AWS!UserDisconnects PROVE ToldInv'
  <2>1. CASE aws.sock = AWS!NoSock
    <3>1. aws'.state # "connected"
      BY <1>0, <1>2, <2>1 DEF AWAttrs, AWS!UserDisconnects, AWS!DisconnectedNow
    <3> QED BY <3>1 DEF ToldInv
  <2>2. CASE aws.sock # AWS!NoSock
    <3>1. aws' = aws /\ aws.sock \in Slots /\ awSocks'[aws.sock].state = "closed"
      BY <1>0, <1>2, <2>2 DEF AWS!UserDisconnects, AWS!CloseSock, AWSockets
    <3> QED BY <3>1 DEF ToldInv, AWS!In
  <2> QED BY <2>1, <2>2
<1>3. ASSUME NEW f \in Filters, AWS!UserSubscribes(f) PROVE ToldInv'
  <2> SUFFICES ASSUME aws'.state = "connected", aws'.sock \in AWS!In("open")'
               PROVE  /\ awSocks'[aws'.sock].subs \subseteq aws'.subs
                      /\ \A g \in aws'.subs \ awSocks'[aws'.sock].subs :
                             \/ aws'.raised \/ g \in aws'.passed
                             \/ \E t \in AWS!Tasks :
                                    /\ awPc'[t] = "resubscribe"
                                    /\ g \notin awVal'[t].past \cup awVal'[t].skip
    BY DEF ToldInv
  <2>1. /\ aws'.state = aws.state /\ aws'.sock = aws.sock /\ aws'.raised = aws.raised
        /\ aws'.subs = aws.subs \cup {f} /\ awSocks' = AWS!Delivered(f, FALSE)
        /\ awPc' = awPc /\ aws.passed \subseteq aws'.passed
        /\ \A t \in AWS!Tasks : /\ awVal'[t].past = awVal[t].past
                               /\ awVal'[t].skip \subseteq awVal[t].skip \cup aws'.passed
    <3>1. PICK skips \in SUBSET Filters :
              /\ aws' = [aws EXCEPT !.subs = @ \cup {f}, !.passed = @ \cup skips]
              /\ awVal' = [awVal EXCEPT !["consumer"].skip = @ \cup skips]
      BY <1>3, <1>0, OvertakenFilters
    <3>2. awSocks' = AWS!Delivered(f, FALSE) /\ awPc' = awPc
      BY <1>3 DEF AWS!UserSubscribes
    <3>3. /\ aws'.state = aws.state /\ aws'.sock = aws.sock /\ aws'.raised = aws.raised
          /\ aws'.subs = aws.subs \cup {f} /\ aws'.passed = aws.passed \cup skips
      BY <1>0, <3>1 DEF AWAttrs
    <3>4. \A t \in AWS!Tasks : /\ awVal'[t].past = awVal[t].past
                              /\ awVal'[t].skip \subseteq awVal[t].skip \cup skips
      BY <1>0, <3>1 DEF AWVals
    <3> QED BY <3>2, <3>3, <3>4
  <2>2. aws.state = "connected" /\ aws.sock \in AWS!In("open")
    BY <2>1, OpenBefore
  <2>3. awSocks'[aws.sock].subs = awSocks[aws.sock].subs \cup {f}
    BY <2>1, <2>2, DeliveredTold
  <2>4. awSocks'[aws'.sock].subs \subseteq aws'.subs
    BY <2>1, <2>2, <2>3 DEF ToldInv
  <2>5. ASSUME NEW g \in aws'.subs \ awSocks'[aws'.sock].subs
        PROVE  \/ aws'.raised \/ g \in aws'.passed
               \/ \E t \in AWS!Tasks :
                      /\ awPc'[t] = "resubscribe"
                      /\ g \notin awVal'[t].past \cup awVal'[t].skip
    <3>1. g \in aws.subs \ awSocks[aws.sock].subs
      BY <2>1, <2>3
    <3>2. \/ aws.raised \/ g \in aws.passed
          \/ \E t \in AWS!Tasks :
                 awPc[t] = "resubscribe" /\ g \notin awVal[t].past \cup awVal[t].skip
      BY <2>2, <3>1 DEF ToldInv
    <3> QED BY <2>1, <3>2
  <2> QED BY <2>4, <2>5
<1>4. ASSUME NEW f \in Filters, AWS!UserUnsubscribes(f) PROVE ToldInv'
  <2> SUFFICES ASSUME aws'.state = "connected", aws'.sock \in AWS!In("open")'
               PROVE  /\ awSocks'[aws'.sock].subs \subseteq aws'.subs
                      /\ \A g \in aws'.subs \ awSocks'[aws'.sock].subs :
                             \/ aws'.raised \/ g \in aws'.passed
                             \/ \E t \in AWS!Tasks :
                                    /\ awPc'[t] = "resubscribe"
                                    /\ g \notin awVal'[t].past \cup awVal'[t].skip
    BY DEF ToldInv
  <2>1. /\ aws'.state = aws.state /\ aws'.sock = aws.sock /\ aws'.raised = aws.raised
        /\ aws'.subs = aws.subs \ {f} /\ awSocks' = AWS!Delivered(f, TRUE)
        /\ awPc' = awPc /\ aws'.passed = aws.passed
    BY <1>0, <1>4 DEF AWAttrs, AWS!UserUnsubscribes
  <2>2. aws.state = "connected" /\ aws.sock \in AWS!In("open")
    BY <2>1, OpenBefore
  <2>3. awSocks'[aws.sock].subs = awSocks[aws.sock].subs \ {f}
    BY <2>1, <2>2, DeliveredTold
  <2>4. \A t \in AWS!Tasks : /\ awVal'[t].past = awVal[t].past \ {f}
                            /\ awVal'[t].skip = awVal[t].skip \ {f}
    BY <1>0, <1>4 DEF AWS!UserUnsubscribes, AWVals
  <2>5. awSocks'[aws'.sock].subs \subseteq aws'.subs
    BY <2>1, <2>2, <2>3 DEF ToldInv
  <2>6. ASSUME NEW g \in aws'.subs \ awSocks'[aws'.sock].subs
        PROVE  \/ aws'.raised \/ g \in aws'.passed
               \/ \E t \in AWS!Tasks :
                      /\ awPc'[t] = "resubscribe"
                      /\ g \notin awVal'[t].past \cup awVal'[t].skip
    <3>1. g \in aws.subs \ awSocks[aws.sock].subs
      BY <2>1, <2>3
    <3>2. \/ aws.raised \/ g \in aws.passed
          \/ \E t \in AWS!Tasks :
                 awPc[t] = "resubscribe" /\ g \notin awVal[t].past \cup awVal[t].skip
      BY <2>2, <3>1 DEF ToldInv
    <3> QED BY <2>1, <2>4, <3>2
  <2> QED BY <2>5, <2>6
<1>5. ASSUME NEW t \in AWS!Tasks, AWS!DialSucceeds(t) PROVE ToldInv'
  <2>1. PICK s \in Slots :
            /\ awSocks' = [awSocks EXCEPT ![s] = [state |-> "open", subs |-> {}]]
            /\ aws' = [aws EXCEPT !.sock = s, !.state = "connected", !.raised = FALSE,
                                  !.passed = {}]
    BY <1>5 DEF AWS!DialSucceeds, AWS!MarkOpen
  <2>2. aws'.sock = s /\ awSocks'[s].subs = {}
    BY <1>0, <2>1 DEF AWAttrs, AWSockets
  <2>3. awPc'[t] = "resubscribe" /\ awVal'[t].past = {} /\ awVal'[t].skip = {}
    BY <1>0, <1>5 DEF AWS!DialSucceeds, AWS!Goto, AWVals, AWS!NoVal
  <2> QED BY <2>2, <2>3 DEF ToldInv
<1>6. ASSUME NEW t \in AWS!Tasks, AWS!DialFails(t) PROVE ToldInv'
  <2>1. /\ aws'.state = "connected" => aws.state = "connected"
        /\ aws'.sock = aws.sock /\ aws'.subs = aws.subs /\ aws'.raised = aws.raised
        /\ aws'.passed = aws.passed
    BY <1>0, <1>6 DEF AWAttrs, AWS!DialFails
  <2>2. awSocks' = awSocks /\ awVal' = awVal /\ awPc[t] = "dial"
    BY <1>6 DEF AWS!DialFails
  <2>3. \A u \in AWS!Tasks : awPc[u] = "resubscribe" => awPc'[u] = "resubscribe"
    BY <1>0, <1>6 DEF AWS!DialFails, AWS!Goto
  <2> QED BY <2>1, <2>2, <2>3, ToldKept DEF AWS!In
<1>7. ASSUME NEW t \in AWS!Tasks, AWS!ResubscribeNext(t) PROVE ToldInv'
  <2> SUFFICES ASSUME aws'.state = "connected", aws'.sock \in AWS!In("open")'
               PROVE  /\ awSocks'[aws'.sock].subs \subseteq aws'.subs
                      /\ \A g \in aws'.subs \ awSocks'[aws'.sock].subs :
                             \/ aws'.raised \/ g \in aws'.passed
                             \/ \E u \in AWS!Tasks :
                                    /\ awPc'[u] = "resubscribe"
                                    /\ g \notin awVal'[u].past \cup awVal'[u].skip
    BY DEF ToldInv
  <2>1. PICK f \in aws.subs :
            /\ awSocks' = AWS!Delivered(f, FALSE)
            /\ awVal' = [awVal EXCEPT ![t].past = @ \cup {f}, ![t].left = @ - 1]
    BY <1>7 DEF AWS!ResubscribeNext, AWS!Rest
  <2>2. aws' = aws /\ awPc' = awPc /\ f \in Filters
    BY <1>0, <1>7 DEF AWS!ResubscribeNext
  <2>3. aws.state = "connected" /\ aws.sock \in AWS!In("open")
    BY <2>1, <2>2, OpenBefore
  <2>4. awSocks'[aws.sock].subs = awSocks[aws.sock].subs \cup {f}
    BY <2>1, <2>2, <2>3, DeliveredTold
  <2>5. \A u \in AWS!Tasks : /\ awVal'[u].past \subseteq awVal[u].past \cup {f}
                            /\ awVal'[u].skip = awVal[u].skip
    BY <1>0, <2>1 DEF AWVals
  <2> QED BY <2>1, <2>2, <2>3, <2>4, <2>5 DEF ToldInv
<1>8. ASSUME NEW t \in AWS!Tasks, AWS!Resubscribed(t) PROVE ToldInv'
  <2>1. /\ aws' = aws /\ awSocks' = awSocks
        /\ aws.subs \subseteq awVal[t].past \cup awVal[t].skip
        /\ \A u \in AWS!Tasks \ {t} : awPc'[u] = awPc[u] /\ awVal'[u] = awVal[u]
    BY <1>0, <1>8 DEF AWS!Resubscribed, AWS!Rest, AWS!Goto
  <2> QED BY <2>1 DEF ToldInv, AWS!In
<1>9. ASSUME NEW t \in AWS!Tasks, AWS!ResubscribeFails(t) PROVE ToldInv'
  <2>1. /\ aws'.state = "connected" => aws.state = "connected"
        /\ aws'.sock = aws.sock /\ aws'.subs = aws.subs /\ aws'.raised /\ awSocks' = awSocks
    BY <1>0, <1>9 DEF AWAttrs, AWS!ResubscribeFails
  <2> QED BY <2>1 DEF ToldInv, AWS!In
<1>10. ASSUME AWS!ConsumerStarts \/ AWS!SocketEnds \/ AWS!SocketBreaks \/ AWS!WakeUp
       PROVE  ToldInv'
  <2>1. /\ aws'.state = "connected" => aws.state = "connected"
        /\ aws'.sock = aws.sock /\ aws'.subs = aws.subs /\ aws'.raised = aws.raised
        /\ aws'.passed = aws.passed
    BY <1>0, <1>10
       DEF AWAttrs, AWS!ConsumerStarts, AWS!SocketEnds, AWS!SocketBreaks, AWS!WakeUp
  <2>2. awSocks' = awSocks /\ awPc["consumer"] # "resubscribe"
    BY <1>10 DEF AWS!ConsumerStarts, AWS!SocketEnds, AWS!SocketBreaks, AWS!WakeUp
  <2>3. /\ awPc'["user"] = awPc["user"] /\ awVal'["user"] = awVal["user"]
        /\ AWS!Tasks = {"consumer", "user"}
    BY <1>0, <1>10
       DEF AWS!ConsumerStarts, AWS!SocketEnds, AWS!SocketBreaks, AWS!WakeUp, AWS!Goto, AWS!Tasks
  <2> QED BY <2>1, <2>2, <2>3, ToldKept DEF AWS!In
<1>11. ASSUME NEW s \in Slots, AWS!ServerCloses(s) PROVE ToldInv'
  <2>1. /\ aws' = aws /\ awPc' = awPc /\ awVal' = awVal
        /\ \A u \in Slots : awSocks'[u].subs = awSocks[u].subs
        /\ \A u \in Slots : awSocks'[u].state = "open" => awSocks[u].state = "open"
    BY <1>0, <1>11 DEF AWS!ServerCloses, AWSockets
  <2> QED BY <1>0, <2>1 DEF ToldInv, AWS!In
<1>12. ASSUME AWS!MessageArrives \/ UNCHANGED awVars PROVE ToldInv'
  BY <1>12 DEF AWS!MessageArrives, AWS!awVars, awVars, ToldInv, AWS!In
<1> QED
  BY <1>1, <1>2, <1>3, <1>4, <1>5, <1>6, <1>7, <1>8, <1>9, <1>10, <1>11, <1>12
     DEF AWS!AWNext, AWS!DialStep

\* A consumer that reads is not subscribing again, and neither is a user at rest.
LEMMA ToldEnough ==
    ASSUME AWS!AWTypeOK, ToldInv
    PROVE  AWS!AsyncSubscriptionsReachServer
<1> SUFFICES
      ASSUME awPc = [t \in AWS!Tasks |-> IF t = "consumer" THEN "reading" ELSE "idle"],
             aws.state = "connected", ~aws.raised, aws.sock \in AWS!In("open")
      PROVE  /\ awSocks[aws.sock].subs \subseteq aws.subs
             /\ aws.subs \subseteq awSocks[aws.sock].subs \cup aws.passed
  BY DEF AWS!AsyncSubscriptionsReachServer
<1>1. \A t \in AWS!Tasks : awPc[t] # "resubscribe"
  OBVIOUS
<1> QED  BY <1>1 DEF ToldInv

-----------------------------------------------------------------------------
(* SpooledRealtime *)

\* The threads, kind by kind.
LEMMA Threads ==
    /\ RT!Caller \in RT!RTThreads /\ RT!Caller \in RT!Dialers
    /\ RT!Caller \notin RT!Timers /\ RT!Caller \notin RT!Receivers
    /\ RT!Timers \subseteq RT!Dialers /\ RT!Dialers \subseteq RT!RTThreads
    /\ RT!Receivers \subseteq RT!RTThreads
    /\ \A x \in RT!RTThreads : x = RT!Caller \/ x \in RT!Timers \/ x \in RT!Receivers
    /\ \A n \in Slots : RT!Timer(n) \in RT!Timers /\ RT!Receiver(n) \in RT!Receivers
    /\ \A x \in RT!Dialers : x \notin RT!Receivers /\ (x = RT!Caller \/ x \in RT!Timers)
  BY DEF RT!Caller, RT!RTThreads, RT!Dialers, RT!Timers, RT!Receivers, RT!Timer, RT!Receiver

LEMMA RTStarts ==
    ASSUME RT!RTInit
    PROVE  RTInv
<1>1. RTShape
  BY BudgetAssumption DEF RT!RTInit, RTShape, RTFields
<1>2. \A x \in RT!RTThreads : rtPc[x] = "none"
  BY DEF RT!RTInit
<1>3. /\ rt.state = "disconnected" /\ ~rt.error /\ rt.redials = 0 /\ rt.attempts = 0
      /\ rt.client = RT!NoStream
  BY DEF RT!RTInit
<1> QED
  BY <1>1, <1>2, <1>3, Threads
     DEF RTInv, KindsInv, ChainInv, Chain, StopInv, SSEClientInv, ClientGoneInv, ReceivedInv,
         Active

\* A call of a method is one more of it, by a user who is not in another.
LEMMA CallFacts ==
    ASSUME RTShape, NEW m \in RT!RTMethods, RT!Call(m)
    PROVE  /\ rtPc[RT!Caller] = "none"
           /\ rtCalls' = [rtCalls EXCEPT ![m] = @ + 1]
           /\ rtCalls' \in [RT!RTMethods -> Nat]
           /\ Calm' => Calm /\ m = "connect" /\ rtCalls["connect"] = 0
<1>1. rtPc[RT!Caller] = "none" /\ rtCalls' = [rtCalls EXCEPT ![m] = @ + 1]
  BY DEF RT!Call
<1>2. rtCalls' \in [RT!RTMethods -> Nat]
  BY <1>1 DEF RTShape
<1>3. ASSUME Calm' PROVE Calm /\ m = "connect" /\ rtCalls["connect"] = 0
  <2>1. \A k \in RT!RTMethods : rtCalls[k] \in Nat /\ rtCalls[k] <= rtCalls'[k]
    BY <1>1, <1>2 DEF RTShape
  <2>2. Calm
    BY <1>2, <1>3, <2>1 DEF Calm, RT!RTMethods
  <2>3. rtCalls'[m] = rtCalls[m] + 1
    BY <1>1 DEF RTShape
  <2> QED BY <1>2, <1>3, <2>1, <2>2, <2>3 DEF Calm, RT!RTMethods
<1> QED  BY <1>1, <1>2, <1>3

\* disconnect() cancels a timer that is armed, and no other thread.
LEMMA DisconnectStarts ==
    ASSUME RTShape, KindsInv, RT!DisconnectStart
    PROVE  /\ DOMAIN rtPc' = RT!RTThreads /\ rtPc'[RT!Caller] = "cancelled"
           /\ \A x \in RT!RTThreads \ {RT!Caller} :
                  \/ rtPc'[x] = rtPc[x]
                  \/ x \in RT!Timers /\ rtPc[x] = "armed" /\ rtPc'[x] = "none"
<1>1. CASE rt.timer # RT!NoTimer /\ rtPc[rt.timer] = "armed"
  <2>1. rtPc' = [rtPc EXCEPT ![RT!Caller] = "cancelled", ![rt.timer] = "none"]
    BY <1>1 DEF RT!DisconnectStart
  <2>2. DOMAIN rtPc = RT!RTThreads /\ RT!Caller # rt.timer
    BY <1>1 DEF RTShape, KindsInv
  <2> QED BY <1>1, <2>1, <2>2, Threads DEF KindsInv
<1>2. CASE ~(rt.timer # RT!NoTimer /\ rtPc[rt.timer] = "armed")
  BY <1>2, Threads DEF RT!DisconnectStart, RTShape
<1> QED  BY <1>1, <1>2

\* What the look at the answer may do to the attributes and to its thread.
LEMMA Created ==
    ASSUME NEW x, RT!CreateClient(x)
    PROVE  \E c : \E q \in {"failed", "made"} :
               /\ rt' = rt \/ rt' = [rt EXCEPT !.client = c]
               /\ rtPc' = [rtPc EXCEPT ![x] = q] /\ UNCHANGED <<feeds, rtArg, rtCalls>>
<1>1. CASE rt.stream = RT!NoStream
  BY <1>1 DEF RT!CreateClient, RT!Goto
<1>2. CASE rt.stream # RT!NoStream
  <2>1. /\ rt' = [rt EXCEPT !.client = IF HasSSE THEN rt.stream ELSE rt.client]
        /\ rtPc' = [rtPc EXCEPT ![x] = "made"] /\ UNCHANGED <<feeds, rtArg, rtCalls>>
    BY <1>2 DEF RT!CreateClient, RT!Goto
  <2> QED BY <2>1
<1> QED  BY <1>1, <1>2

\* Every step keeps the attributes well formed and the threads where their kind may be.
LEMMA RTShapeStep ==
    ASSUME RTShape, KindsInv, [RT!RTNext]_rtVars
    PROVE  RTShape' /\ KindsInv'
<1> DEFINE Goal == RTShape' /\ KindsInv'
<1>0. /\ rt.attempts \in Nat /\ rt.attempts <= MaxRetries /\ rt.redials \in Nat
      /\ DOMAIN rt = RTFields /\ DOMAIN rtPc = RT!RTThreads /\ DOMAIN rtArg = RT!RTThreads
      /\ rtCalls \in [RT!RTMethods -> Nat] /\ MaxRetries \in Nat
  BY BudgetAssumption DEF RTShape
<1> USE Threads, BudgetAssumption DEF RTShape, KindsInv, RT!Goto, RTFields
<1>1. ASSUME NEW f \in Filters \cup {NoFilter}, RT!UserConnects(f) PROVE Goal
  BY <1>0, <1>1, CallFacts DEF RT!UserConnects, RT!Connect, RT!RTMethods
<1>2. ASSUME RT!UserDisconnects PROVE Goal
  <2>1. rtCalls' \in [RT!RTMethods -> Nat] /\ RT!DisconnectStart
    BY <1>2, CallFacts DEF RT!UserDisconnects, RT!RTMethods
  <2>2. RTShape'
    BY <1>0, <1>2, <2>1, DisconnectStarts DEF RT!UserDisconnects
  <2>3. KindsInv'
    BY <2>1, DisconnectStarts
  <2> QED BY <2>2, <2>3
<1>3. ASSUME NEW f \in Filters, RT!Subscribe(f) PROVE Goal
  <2>1. rtCalls' \in [RT!RTMethods -> Nat] /\ rtPc[RT!Caller] = "none"
    BY <1>3, CallFacts DEF RT!Subscribe, RT!RTMethods
  <2>2. CASE rt.state = "connected"
    <3>1. PICK q :
              /\ RT!DisconnectStart /\ rt' = [rt EXCEPT !.subs = q, !.timer = RT!NoTimer]
              /\ rtArg' = [rtArg EXCEPT ![RT!Caller] = f]
      BY <1>3, <2>2, Zenon DEF RT!Subscribe
    <3>2. RTShape'
      BY <1>0, <2>1, <3>1, DisconnectStarts
    <3>3. KindsInv'
      BY <3>1, DisconnectStarts
    <3> QED BY <3>2, <3>3
  <2>3. CASE rt.state # "connected"
    BY <1>0, <1>3, <2>1, <2>3 DEF RT!Subscribe
  <2> QED BY <2>2, <2>3
<1>4. ASSUME NEW f \in Filters, RT!Unsubscribe(f) PROVE Goal
  BY <1>0, <1>4, CallFacts DEF RT!Unsubscribe, RT!RTMethods
<1>5. ASSUME NEW x \in RT!Dialers, RT!DialSucceeds(x) PROVE Goal
  BY <1>0, <1>5 DEF RT!DialSucceeds
<1>6. ASSUME NEW x \in RT!Dialers, RT!DialFails(x) PROVE Goal
  BY <1>0, <1>6 DEF RT!DialFails
<1>7. ASSUME NEW x \in RT!Dialers, RT!SetConnected(x) PROVE Goal
  <2>1. PICK d, j : rt' = [rt EXCEPT !.state = "connected", !.deaf = d, !.jobStream = j]
    BY <1>7, Zenon DEF RT!SetConnected
  <2>2. /\ rtPc' = [rtPc EXCEPT ![x] = "connected"]
        /\ UNCHANGED <<feeds, rtArg, rtCalls>>
    BY <1>7 DEF RT!SetConnected
  <2>3. RTShape'
    BY <1>0, <2>1, <2>2
  <2>4. x \in RT!RTThreads /\ x \notin RT!Receivers
    OBVIOUS
  <2>5. KindsInv'
    BY <1>0, <2>2, <2>4
  <2> QED BY <2>3, <2>5
<1>create. ASSUME NEW x \in RT!Dialers, RT!CreateClient(x) PROVE Goal
  <2>1. PICK c, q :
            /\ q \in {"failed", "made"}
            /\ rt' = rt \/ rt' = [rt EXCEPT !.client = c]
            /\ rtPc' = [rtPc EXCEPT ![x] = q] /\ UNCHANGED <<rtArg, rtCalls>>
    BY <1>create, Created
  <2>2. RTShape'
    BY <1>0, <2>1
  <2> QED BY <1>0, <2>1, <2>2
<1>8. ASSUME NEW x \in RT!Dialers, RT!StartReceiver(x) PROVE Goal
  BY <1>0, <1>8 DEF RT!StartReceiver
<1>9. ASSUME NEW x \in RT!Dialers, RT!ConnectRaises(x) PROVE Goal
  BY <1>0, <1>9 DEF RT!ConnectRaises, RT!AfterFailure
<1>10. ASSUME RT!DisconnectStops \/ RT!DisconnectCloses \/ RT!DisconnectEnds PROVE Goal
  <2>1. CASE RT!DisconnectStops \/ RT!DisconnectCloses
    BY <1>0, <2>1 DEF RT!DisconnectStops, RT!DisconnectCloses
  <2>2. CASE RT!DisconnectEnds
    <3>1. PICK s \in {"connecting", "disconnected"}, p \in {"dial", "none"} :
              /\ rt' = [rt EXCEPT !.state = s, !.attempts = 0, !.redials = 0]
              /\ rtPc' = [rtPc EXCEPT ![RT!Caller] = p]
      <4>1. CASE rtArg[RT!Caller] \in Filters
        BY <2>2, <4>1 DEF RT!DisconnectEnds
      <4>2. CASE rtArg[RT!Caller] \notin Filters
        BY <2>2, <4>2 DEF RT!DisconnectEnds
      <4> QED BY <4>1, <4>2
    <3>2. UNCHANGED <<rtArg, rtCalls>>
      BY <2>2 DEF RT!DisconnectEnds
    <3>3. RTShape'
      BY <1>0, <3>1, <3>2
    <3> QED BY <1>0, <3>1, <3>3
  <2> QED BY <1>10, <2>1, <2>2
<1>11. ASSUME NEW x \in RT!Timers, RT!TimerFires(x) PROVE Goal
  BY <1>0, <1>11 DEF RT!TimerFires, RT!Connect
<1>12. ASSUME NEW x \in RT!Timers \cup RT!Receivers, RT!Lost(x) \/ RT!Budget(x) PROVE Goal
  <2>1. CASE RT!Lost(x)
    BY <1>0, <2>1 DEF RT!Lost
  <2>2. CASE RT!Budget(x) /\ rt.attempts < MaxRetries
    <3>1. /\ rt' = [rt EXCEPT !.state = "reconnecting", !.attempts = @ + 1]
          /\ rtPc' = [rtPc EXCEPT ![x] = "schedule"] /\ rtArg' = rtArg /\ rtCalls' = rtCalls
      BY <2>2 DEF RT!Budget
    <3>2. RTShape'
      BY <1>0, <2>2, <3>1
    <3> QED BY <1>0, <3>1, <3>2
  <2>3. CASE RT!Budget(x) /\ ~(rt.attempts < MaxRetries)
    BY <1>0, <2>3 DEF RT!Budget
  <2> QED BY <1>12, <2>1, <2>2, <2>3
<1>13. ASSUME NEW x \in RT!Timers \cup RT!Receivers, RT!StartTimer(x) PROVE Goal
  BY <1>0, <1>13 DEF RT!StartTimer
<1>14. ASSUME NEW r \in RT!Receivers, RT!ReceiverStarts(r) PROVE Goal
  BY <1>0, <1>14 DEF RT!ReceiverStarts
<1>begin. ASSUME NEW r \in RT!Receivers, RT!ReceiverBegins(r) PROVE Goal
  BY <1>0, <1>begin DEF RT!ReceiverBegins
<1>15. ASSUME NEW r \in RT!Receivers, RT!EventArrives(r) PROVE Goal
  <2>1. CASE rt.stop
    BY <1>0, <1>15, <2>1 DEF RT!EventArrives, RT!ReceiverEnds
  <2>2. CASE ~rt.stop
    <3>1. /\ rt' = [rt EXCEPT !.attempts = 0, !.redials = 0] /\ rtArg' = rtArg
          /\ rtCalls' = rtCalls /\ \E p \in {"reading", "terminal"} : RT!Goto(r, p)
      BY <1>15, <2>2 DEF RT!EventArrives, RT!Reads
    <3>2. RTShape'
      BY <1>0, <3>1
    <3> QED BY <1>0, <3>1, <3>2
  <2> QED BY <2>1, <2>2
<1>16. ASSUME NEW r \in RT!Receivers, RT!StreamBreaks(r) PROVE Goal
  BY <1>0, <1>16 DEF RT!StreamBreaks, RT!ReceiverEnds
<1>17. ASSUME NEW r \in RT!Receivers, RT!StreamEnds(r) PROVE Goal
  <2>1. CASE ~rt.stop /\ rtPc[r] = "terminal"
    <3>1. /\ rt' = [rt EXCEPT !.stream = RT!NoStream, !.client = RT!NoStream,
                              !.state = "disconnected"]
          /\ rtPc' = [rtPc EXCEPT ![r] = "none"]
          /\ rtArg' = [rtArg EXCEPT ![r] = RT!NoStream] /\ rtCalls' = rtCalls
      BY <1>17, <2>1 DEF RT!StreamEnds, RT!ReceiverEnds
    <3> QED BY <1>0, <3>1
  <2>2. CASE ~(~rt.stop /\ rtPc[r] = "terminal")
    BY <1>0, <1>17, <2>2 DEF RT!StreamEnds, RT!ReceiverEnds
  <2> QED BY <2>1, <2>2
<1>18. ASSUME NEW s \in Slots, RT!ServerEndsStream(s) PROVE Goal
  BY <1>18 DEF RT!ServerEndsStream
<1>19. ASSUME UNCHANGED rtVars PROVE Goal
  BY <1>19 DEF rtVars
<1> QED
  BY <1>1, <1>2, <1>3, <1>4, <1>5, <1>6, <1>7, <1>8, <1>9, <1>10, <1>11, <1>12, <1>13, <1>14,
     <1>15, <1>16, <1>17, <1>18, <1>19, <1>create, <1>begin
     DEF RT!RTNext, RT!CallerStep, RT!TimerStep, RT!ReceiverStep, RT!DialStep, RT!LossStep

\* A step that leaves the stream and the SSE client as they are, and whoever has just
\* opened a stream where it is, or that clears both.
LEMMA SSEClientKept ==
    ASSUME SSEClientInv,
           \/ /\ rt'.client = rt.client /\ rt'.stream = rt.stream
              /\ \A x \in RT!Dialers : rtPc[x] = "opened" => rtPc'[x] = "opened"
           \/ rt'.client = RT!NoStream /\ rt'.stream = RT!NoStream
    PROVE  SSEClientInv'
  BY DEF SSEClientInv

\* The client iterates over the stream there is.
LEMMA SSEClientStep ==
    ASSUME RTShape, KindsInv, SSEClientInv, [RT!RTNext]_rtVars
    PROVE  SSEClientInv'
<1>0. /\ DOMAIN rt = RTFields /\ DOMAIN rtPc = RT!RTThreads
      /\ {"state", "stop", "stream", "client", "deaf", "error", "attempts", "redials"}
             \subseteq RTFields
  BY DEF RTShape, RTFields
<1> USE DEF RT!Goto
<1> DEFINE Same == rt'.client = rt.client /\ rt'.stream = rt.stream
           Gone == rt'.client = RT!NoStream /\ rt'.stream = RT!NoStream
           Kept == \A x \in RT!Dialers : rtPc[x] = "opened" => rtPc'[x] = "opened"
<1>1. ASSUME NEW f \in Filters \cup {NoFilter}, NEW x \in RT!Dialers,
             RT!Connect(x, f), rtPc[x] # "opened"
      PROVE  Same /\ Kept
  BY <1>0, <1>1, Threads DEF RT!Connect
<1>2. ASSUME \/ \E f \in Filters \cup {NoFilter} : RT!UserConnects(f)
             \/ \E x \in RT!Timers : RT!TimerFires(x)
      PROVE  Same /\ Kept
  <2>1. rtPc[RT!Caller] = "none" \/ ~\E f \in Filters \cup {NoFilter} : RT!UserConnects(f)
    BY CallFacts DEF RT!UserConnects, RT!RTMethods
  <2> QED BY <1>1, <1>2, <2>1, Threads DEF RT!UserConnects, RT!TimerFires
<1>3. ASSUME RT!UserDisconnects PROVE Same /\ Kept
  <2>1. RT!DisconnectStart /\ rtPc[RT!Caller] = "none"
    BY <1>3, CallFacts DEF RT!UserDisconnects, RT!RTMethods
  <2>2. Same
    BY <1>0, <1>3 DEF RT!UserDisconnects
  <2> QED BY <2>1, <2>2, DisconnectStarts, Threads
<1>4. ASSUME NEW f \in Filters, RT!Subscribe(f) PROVE Same /\ Kept
  <2>1. rtPc[RT!Caller] = "none"
    BY <1>4, CallFacts DEF RT!Subscribe, RT!RTMethods
  <2>2. CASE rt.state = "connected"
    <3>1. PICK q : RT!DisconnectStart /\ rt' = [rt EXCEPT !.subs = q, !.timer = RT!NoTimer]
      BY <1>4, <2>2, Zenon DEF RT!Subscribe
    <3>2. Same
      BY <1>0, <3>1 DEF RTFields
    <3> QED BY <2>1, <3>1, <3>2, DisconnectStarts, Threads
  <2>3. CASE rt.state # "connected"
    <3>1. PICK q : rt' = [rt EXCEPT !.subs = q] /\ rtPc' = rtPc
      BY <1>4, <2>3, Zenon DEF RT!Subscribe
    <3> QED BY <1>0, <3>1
  <2> QED BY <2>2, <2>3
<1>5. ASSUME NEW f \in Filters, RT!Unsubscribe(f) PROVE Same /\ Kept
  <2>1. PICK q : rt' = [rt EXCEPT !.subs = q] /\ rtPc' = rtPc
    BY <1>5, Zenon DEF RT!Unsubscribe
  <2> QED BY <1>0, <2>1
<1>6. ASSUME NEW x \in RT!Dialers, RT!DialSucceeds(x) PROVE SSEClientInv'
  <2>1. PICK s \in Slots : rt' = [rt EXCEPT !.stream = s] /\ RT!Goto(x, "opened")
    BY <1>6 DEF RT!DialSucceeds
  <2>2. rt'.client = rt.client /\ rt'.stream = s /\ rtPc'[x] = "opened" /\ s # RT!NoStream
    BY <1>0, <2>1, Threads, SlotsAssumption DEF RT!NoStream
  <2> QED BY <2>2 DEF SSEClientInv
<1>7. ASSUME NEW x \in RT!Dialers, RT!CreateClient(x) PROVE SSEClientInv'
  <2>1. CASE rt.stream = RT!NoStream
    <3>1. rt' = rt
      BY <1>7, <2>1 DEF RT!CreateClient
    <3> QED BY <2>1, <3>1 DEF SSEClientInv
  <2>2. CASE rt.stream # RT!NoStream
    <3>1. rt' = [rt EXCEPT !.client = IF HasSSE THEN rt.stream ELSE rt.client]
      BY <1>7, <2>2 DEF RT!CreateClient
    <3>2. rt'.stream = rt.stream /\ rt'.client = IF HasSSE THEN rt.stream ELSE rt.client
      BY <1>0, <3>1
    <3> QED BY <2>2, <3>2 DEF SSEClientInv
  <2> QED BY <2>1, <2>2
<1>8. ASSUME NEW x \in RT!Dialers,
             \/ RT!DialFails(x) \/ RT!SetConnected(x) \/ RT!StartReceiver(x)
             \/ RT!ConnectRaises(x)
      PROVE  (Same /\ Kept) \/ Gone
  <2>1. CASE RT!DialFails(x)
    BY <1>0, <2>1, Threads DEF RT!DialFails
  <2>2. CASE RT!SetConnected(x)
    <3>1. PICK d, j : rt' = [rt EXCEPT !.state = "connected", !.deaf = d, !.jobStream = j]
      BY <2>2, Zenon DEF RT!SetConnected
    <3>2. Same
      BY <1>0, <3>1 DEF RTFields
    <3> QED BY <1>0, <2>2, <3>2, Threads DEF RT!SetConnected
  <2>3. CASE RT!StartReceiver(x)
    <3>1. PICK n \in Slots :
              rtPc' = [rtPc EXCEPT ![x] = "none", ![RT!Receiver(n)] = "starting"]
      BY <2>3 DEF RT!StartReceiver
    <3>2. Same /\ rtPc[x] = "connected"
      BY <1>0, <2>3 DEF RT!StartReceiver
    <3> QED BY <1>0, <3>1, <3>2, Threads
  <2>4. CASE RT!ConnectRaises(x)
    <3>1. PICK e : rt' = [rt EXCEPT !.stream = RT!NoStream, !.client = RT!NoStream,
                                    !.state = "disconnected", !.error = e]
      BY <2>4, Zenon DEF RT!ConnectRaises
    <3> QED BY <1>0, <3>1
  <2> QED BY <1>8, <2>1, <2>2, <2>3, <2>4
<1>9. ASSUME RT!DisconnectStops \/ RT!DisconnectCloses \/ RT!DisconnectEnds
      PROVE  (Same /\ Kept) \/ Gone
  <2>1. CASE RT!DisconnectStops
    BY <1>0, <2>1, Threads DEF RT!DisconnectStops
  <2>2. CASE RT!DisconnectCloses
    BY <1>0, <2>2 DEF RT!DisconnectCloses
  <2>3. CASE RT!DisconnectEnds
    BY <1>0, <2>3, Threads DEF RT!DisconnectEnds
  <2> QED BY <1>9, <2>1, <2>2, <2>3
<1>10. ASSUME NEW x \in RT!Timers \cup RT!Receivers, RT!LossStep(x)
       PROVE  (Same /\ Kept) \/ Gone
  <2>1. CASE RT!Lost(x)
    BY <1>0, <2>1 DEF RT!Lost
  <2>2. CASE RT!Budget(x)
    BY <1>0, <2>2, Threads DEF RT!Budget
  <2>3. CASE RT!StartTimer(x)
    <3>1. PICK n \in Slots :
              /\ rtPc[RT!Timer(n)] = "none"
              /\ rtPc' = [rtPc EXCEPT ![RT!Timer(n)] = "armed", ![x] = "none"]
      BY <2>3 DEF RT!StartTimer
    <3>2. Same /\ rtPc[x] = "schedule"
      BY <1>0, <2>3 DEF RT!StartTimer
    <3> QED BY <1>0, <3>1, <3>2, Threads
  <2> QED BY <1>10, <2>1, <2>2, <2>3 DEF RT!LossStep
<1>11. ASSUME NEW r \in RT!Receivers,
              \/ RT!ReceiverStarts(r) \/ RT!ReceiverBegins(r) \/ RT!StreamBreaks(r)
              \/ RT!StreamEnds(r) \/ RT!EventArrives(r)
       PROVE  (Same /\ Kept) \/ Gone
  <2>1. \E q : rtPc' = [rtPc EXCEPT ![r] = q]
    BY <1>11 DEF RT!ReceiverStarts, RT!ReceiverBegins, RT!StreamBreaks, RT!StreamEnds,
                 RT!EventArrives, RT!ReceiverEnds
  <2>2. Kept
    BY <1>0, <2>1, Threads
  <2>3. Same \/ Gone
    BY <1>0, <1>11 DEF RT!ReceiverStarts, RT!ReceiverBegins, RT!StreamBreaks, RT!StreamEnds,
                       RT!EventArrives, RT!ReceiverEnds
  <2> QED BY <2>2, <2>3
<1>12. ASSUME \/ \E s \in Slots : RT!ServerEndsStream(s)
              \/ UNCHANGED rtVars
       PROVE  Same /\ Kept
  BY <1>12 DEF RT!ServerEndsStream, rtVars
<1>13. CASE (Same /\ Kept) \/ Gone
  BY <1>13, SSEClientKept
<1> HIDE DEF Same, Gone, Kept
<1>14. ASSUME NEW x \in RT!Dialers, RT!DialStep(x) PROVE SSEClientInv'
  BY <1>6, <1>7, <1>8, <1>13, <1>14 DEF RT!DialStep
<1>15. CASE RT!CallerStep
  BY <1>9, <1>13, <1>14, <1>15, Threads DEF RT!CallerStep
<1>16. CASE \E x \in RT!Timers : RT!TimerStep(x)
  BY <1>2, <1>10, <1>13, <1>14, <1>16, Threads DEF RT!TimerStep
<1>17. CASE \E r \in RT!Receivers : RT!ReceiverStep(r) \/ RT!EventArrives(r)
  BY <1>10, <1>11, <1>13, <1>17 DEF RT!ReceiverStep
<1> QED
  BY <1>2, <1>3, <1>4, <1>5, <1>12, <1>13, <1>15, <1>16, <1>17 DEF RT!RTNext

\* A client that is not connected owes nothing.
LEMMA NotConnected ==
    ASSUME rt'.state # "connected"
    PROVE  StopInv' /\ ClientGoneInv' /\ ReceivedInv'
  BY DEF StopInv, ClientGoneInv, ReceivedInv

\* A step that leaves the attributes and every thread that matters alone.
LEMMA WiredKept ==
    ASSUME StopInv, ClientGoneInv, ReceivedInv, RTShape, KindsInv,
           rt'.state = rt.state, rt'.stop = rt.stop, rt'.stream = rt.stream,
           rt'.client = rt.client, rt'.deaf = rt.deaf,
           \A x \in RT!RTThreads :
               \/ rtPc'[x] = rtPc[x] /\ rtArg'[x] = rtArg[x]
               \/ rtPc[x] \in {"none", "schedule", "armed", "dial", "cancelled"}
    PROVE  StopInv' /\ ClientGoneInv' /\ ReceivedInv'
  BY Threads DEF StopInv, ClientGoneInv, ReceivedInv, RT!Reads

LEMMA WiredStep ==
    ASSUME RTShape, KindsInv, SSEClientInv, StopInv, ClientGoneInv, ReceivedInv,
           [RT!RTNext]_rtVars
    PROVE  StopInv' /\ ClientGoneInv' /\ ReceivedInv'
<1> DEFINE Goal == StopInv' /\ ClientGoneInv' /\ ReceivedInv'
<1>0. /\ DOMAIN rt = RTFields /\ DOMAIN rtPc = RT!RTThreads /\ DOMAIN rtArg = RT!RTThreads
      /\ {"state", "stop", "stream", "client", "deaf", "error", "attempts", "redials"}
             \subseteq RTFields
  BY DEF RTShape, RTFields
<1> USE DEF RT!Goto
<1>1. ASSUME NEW f \in Filters \cup {NoFilter}, RT!UserConnects(f) PROVE Goal
  <2>1. rtPc[RT!Caller] = "none"
    BY <1>1, CallFacts DEF RT!UserConnects, RT!RTMethods
  <2>2. CASE rt.state \in {"connected", "connecting"}
    BY <1>0, <1>1, <2>1, <2>2, WiredKept DEF RT!UserConnects, RT!Connect
  <2>3. CASE rt.state \notin {"connected", "connecting"}
    BY <1>0, <1>1, <2>3, NotConnected DEF RT!UserConnects, RT!Connect
  <2> QED BY <2>2, <2>3
<1>2. ASSUME RT!UserDisconnects PROVE Goal
  <2>1. RT!DisconnectStart /\ rtPc[RT!Caller] = "none"
    BY <1>2, CallFacts DEF RT!UserDisconnects, RT!RTMethods
  <2>2. /\ rt'.state = rt.state /\ rt'.stop = rt.stop /\ rt'.stream = rt.stream
        /\ rt'.client = rt.client /\ rt'.deaf = rt.deaf /\ rtArg' = rtArg
    BY <1>0, <1>2 DEF RT!UserDisconnects
  <2> QED BY <2>1, <2>2, DisconnectStarts, WiredKept
<1>3. ASSUME NEW f \in Filters, RT!Subscribe(f) PROVE Goal
  <2>1. rtPc[RT!Caller] = "none"
    BY <1>3, CallFacts DEF RT!Subscribe, RT!RTMethods
  <2>2. CASE rt.state = "connected"
    <3>1. PICK q :
              /\ RT!DisconnectStart /\ rt' = [rt EXCEPT !.subs = q, !.timer = RT!NoTimer]
              /\ rtArg' = [rtArg EXCEPT ![RT!Caller] = f]
      BY <1>3, <2>2, Zenon DEF RT!Subscribe
    <3>2. /\ rt'.state = rt.state /\ rt'.stop = rt.stop /\ rt'.stream = rt.stream
          /\ rt'.client = rt.client /\ rt'.deaf = rt.deaf
      BY <1>0, <3>1
    <3>3. \A x \in RT!RTThreads \ {RT!Caller} : rtArg'[x] = rtArg[x]
      BY <1>0, <3>1
    <3> QED BY <2>1, <3>1, <3>2, <3>3, DisconnectStarts, WiredKept
  <2>3. CASE rt.state # "connected"
    BY <1>0, <1>3, <2>3, NotConnected DEF RT!Subscribe
  <2> QED BY <2>2, <2>3
<1>4. ASSUME NEW f \in Filters, RT!Unsubscribe(f) PROVE Goal
  <2>1. PICK q : rt' = [rt EXCEPT !.subs = q]
    BY <1>4, Zenon DEF RT!Unsubscribe
  <2>2. /\ rt'.state = rt.state /\ rt'.stop = rt.stop /\ rt'.stream = rt.stream
        /\ rt'.client = rt.client /\ rt'.deaf = rt.deaf
    BY <1>0, <2>1
  <2> QED BY <1>4, <2>2, WiredKept DEF RT!Unsubscribe
<1>5. ASSUME NEW x \in RT!Dialers, RT!DialSucceeds(x) PROVE Goal
  <2>1. PICK s \in Slots : rt' = [rt EXCEPT !.stream = s] /\ RT!Goto(x, "opened")
    BY <1>5 DEF RT!DialSucceeds
  <2>2. rtPc[x] = "dial" /\ x \in RT!RTThreads
    BY <1>5, Threads DEF RT!DialSucceeds
  <2>3. /\ rt'.state = rt.state /\ rt'.stop = rt.stop
        /\ rt'.client = rt.client /\ rt'.deaf = rt.deaf
        /\ rtPc'[x] = "opened" /\ \A y \in RT!RTThreads \ {x} : rtPc'[y] = rtPc[y]
    BY <1>0, <2>1, <2>2
  <2> QED BY <2>2, <2>3, Threads DEF StopInv, ClientGoneInv, ReceivedInv
<1>6. ASSUME NEW x \in RT!Dialers, RT!DialFails(x) PROVE Goal
  <2>1. rtPc[x] = "dial" /\ rt' = rt /\ rtArg' = rtArg /\ x \in RT!RTThreads
    BY <1>6, Threads DEF RT!DialFails
  <2>2. /\ rtPc'[x] \in {"failed", "rejected"}
        /\ \A y \in RT!RTThreads \ {x} : rtPc'[y] = rtPc[y]
    BY <1>0, <1>6, <2>1 DEF RT!DialFails
  <2> QED BY <2>1, <2>2, WiredKept
<1>7. ASSUME NEW x \in RT!Dialers, RT!SetConnected(x) PROVE Goal
  <2>1. PICK d, j : /\ d = (rt.client = RT!NoStream)
                    /\ rt' = [rt EXCEPT !.state = "connected", !.deaf = d, !.jobStream = j]
    BY <1>7, Zenon DEF RT!SetConnected
  <2>2. rtPc[x] = "made" /\ RT!Goto(x, "connected") /\ x \in RT!RTThreads
    BY <1>7, Threads DEF RT!SetConnected
  <2>3. /\ rt'.client = rt.client /\ rt'.deaf = d /\ rtPc'[x] = "connected"
        /\ \A y \in RT!RTThreads \ {x} : rtPc'[y] = rtPc[y]
    BY <1>0, <2>1, <2>2
  <2>4. ClientGoneInv'
    BY <2>1, <2>3 DEF ClientGoneInv
  <2> QED BY <2>3, <2>4, Threads DEF StopInv, ReceivedInv
<1>create. ASSUME NEW x \in RT!Dialers, RT!CreateClient(x) PROVE Goal
  <2>1. rtPc[x] = "opened" /\ x \in RT!RTThreads
    BY <1>create, Threads DEF RT!CreateClient
  <2>2. PICK c, q : /\ q \in {"failed", "made"}
                    /\ rt' = rt \/ rt' = [rt EXCEPT !.client = c]
                    /\ rtPc' = [rtPc EXCEPT ![x] = q]
    BY <1>create, Created
  <2>3. /\ rt'.state = rt.state /\ rt'.stop = rt.stop /\ rt'.deaf = rt.deaf
        /\ rtPc'[x] \in {"failed", "made"}
        /\ \A y \in RT!RTThreads \ {x} : rtPc'[y] = rtPc[y]
    BY <1>0, <2>1, <2>2
  <2>4. rt'.client = RT!NoStream => rt.client = RT!NoStream
    <3>1. CASE rt.stream = RT!NoStream
      BY <1>create, <3>1 DEF RT!CreateClient
    <3>2. CASE rt.stream # RT!NoStream
      <4>1. rt' = [rt EXCEPT !.client = IF HasSSE THEN rt.stream ELSE rt.client]
        BY <1>create, <3>2 DEF RT!CreateClient
      <4>2. rt'.client = IF HasSSE THEN rt.stream ELSE rt.client
        BY <1>0, <4>1
      <4> QED BY <3>2, <4>2
    <3> QED BY <3>1, <3>2
  <2> QED BY <2>1, <2>3, <2>4, Threads DEF StopInv, ClientGoneInv, ReceivedInv
<1>8. ASSUME NEW x \in RT!Dialers, RT!StartReceiver(x) PROVE Goal
  <2>1. PICK n \in Slots :
            /\ rtPc[RT!Receiver(n)] = "none"
            /\ rtPc' = [rtPc EXCEPT ![x] = "none", ![RT!Receiver(n)] = "starting"]
    BY <1>8 DEF RT!StartReceiver
  <2>2. /\ rt'.state = rt.state /\ rt'.stop = FALSE /\ rt'.stream = rt.stream
        /\ rt'.client = rt.client /\ rt'.deaf = rt.deaf
        /\ rtPc[x] = "connected" /\ RT!Receiver(n) \in RT!Receivers
    BY <1>0, <1>8, Threads DEF RT!StartReceiver
  <2>3. /\ rtPc'[RT!Receiver(n)] = "starting"
        /\ \A y \in RT!RTThreads : rtPc[y] \in {"closed", "budget"} => rtPc'[y] = rtPc[y]
    BY <1>0, <2>1, <2>2, Threads
  <2> QED BY <2>2, <2>3, Threads DEF StopInv, ClientGoneInv, ReceivedInv
<1>9. ASSUME NEW x \in RT!Dialers, RT!ConnectRaises(x) PROVE Goal
  <2>1. PICK e : rt' = [rt EXCEPT !.stream = RT!NoStream, !.client = RT!NoStream,
                                  !.state = "disconnected", !.error = e]
    BY <1>9, Zenon DEF RT!ConnectRaises
  <2> QED BY <1>0, <2>1, NotConnected
<1>10. ASSUME RT!DisconnectStops \/ RT!DisconnectCloses \/ RT!DisconnectEnds PROVE Goal
  <2>1. CASE RT!DisconnectStops
    <3>1. /\ rtPc'[RT!Caller] = "stopped" /\ rtPc[RT!Caller] = "cancelled"
          /\ rt'.stream = rt.stream /\ rt'.state = rt.state
          /\ rt'.client = rt.client /\ rt'.deaf = rt.deaf
          /\ \A y \in RT!RTThreads \ {RT!Caller} : rtPc'[y] = rtPc[y]
      BY <1>0, <2>1, Threads DEF RT!DisconnectStops
    <3> QED BY <3>1, Threads DEF StopInv, ClientGoneInv, ReceivedInv
  <2>2. CASE RT!DisconnectCloses
    <3>1. rtPc'[RT!Caller] = "closed"
      BY <1>0, <2>2, Threads DEF RT!DisconnectCloses
    <3> QED BY <3>1 DEF StopInv, ClientGoneInv, ReceivedInv
  <2>3. CASE RT!DisconnectEnds
    <3>1. rt'.state # "connected"
      BY <1>0, <2>3 DEF RT!DisconnectEnds
    <3> QED BY <3>1, NotConnected
  <2> QED BY <1>10, <2>1, <2>2, <2>3
<1>11. ASSUME NEW x \in RT!Timers, RT!TimerFires(x) PROVE Goal
  <2>1. rtPc[x] = "armed" /\ x \in RT!RTThreads
    BY <1>11, Threads DEF RT!TimerFires
  <2>2. CASE rt.state \in {"connected", "connecting"}
    BY <1>0, <1>11, <2>1, <2>2, WiredKept DEF RT!TimerFires, RT!Connect
  <2>3. CASE rt.state \notin {"connected", "connecting"}
    BY <1>0, <1>11, <2>3, NotConnected DEF RT!TimerFires, RT!Connect
  <2> QED BY <2>2, <2>3
<1>12. ASSUME NEW x \in RT!Timers \cup RT!Receivers, RT!Lost(x) \/ RT!Budget(x) PROVE Goal
  <2>1. CASE RT!Lost(x)
    <3>1. /\ rtPc[x] = "lost" /\ rtPc'[x] = "budget" /\ x \in RT!RTThreads
          /\ \A y \in RT!RTThreads \ {x} : rtPc'[y] = rtPc[y]
          /\ rt'.state = rt.state /\ rt'.stop = rt.stop /\ rt'.deaf = rt.deaf
      BY <1>0, <2>1, Threads DEF RT!Lost
    <3> QED BY <3>1, Threads DEF StopInv, ClientGoneInv, ReceivedInv
  <2>2. CASE RT!Budget(x)
    <3>1. rt'.state # "connected"
      BY <1>0, <2>2 DEF RT!Budget
    <3> QED BY <3>1, NotConnected
  <2> QED BY <1>12, <2>1, <2>2
<1>13. ASSUME NEW x \in RT!Timers \cup RT!Receivers, RT!StartTimer(x) PROVE Goal
  <2>1. PICK n \in Slots :
            /\ rtPc[RT!Timer(n)] = "none"
            /\ rtPc' = [rtPc EXCEPT ![RT!Timer(n)] = "armed", ![x] = "none"]
    BY <1>13 DEF RT!StartTimer
  <2>2. /\ rt'.state = rt.state /\ rt'.stop = rt.stop /\ rt'.stream = rt.stream
        /\ rt'.client = rt.client /\ rt'.deaf = rt.deaf
        /\ rtArg' = rtArg /\ rtPc[x] = "schedule" /\ RT!Timer(n) \in RT!Timers
    BY <1>0, <1>13, Threads DEF RT!StartTimer
  <2> QED BY <1>0, <2>1, <2>2, WiredKept
<1>14. ASSUME NEW r \in RT!Receivers, RT!ReceiverStarts(r) PROVE Goal
  <2>1. /\ rt' = rt /\ rtArg' = rtArg /\ rtPc[r] = "starting" /\ r \in RT!RTThreads
        /\ rtPc'[r] = IF rt.client = RT!NoStream THEN "none" ELSE "begins"
        /\ \A y \in RT!RTThreads \ {r} : rtPc'[y] = rtPc[y]
    BY <1>0, <1>14, Threads DEF RT!ReceiverStarts
  <2>2. StopInv' /\ ClientGoneInv'
    BY <2>1, Threads DEF StopInv, ClientGoneInv
  <2>3. CASE rt.client = RT!NoStream
    BY <2>1, <2>2, <2>3, Threads DEF ClientGoneInv, ReceivedInv
  <2>4. CASE rt.client # RT!NoStream
    BY <2>1, <2>2, <2>4 DEF ReceivedInv
  <2> QED BY <2>3, <2>4
<1>begin. ASSUME NEW r \in RT!Receivers, RT!ReceiverBegins(r) PROVE Goal
  <2>1. /\ rt' = rt /\ rtPc[r] = "begins" /\ r \in RT!RTThreads
        /\ rtPc'[r] = IF rt.client # RT!NoStream THEN "reading"
                      ELSE IF rt.stop THEN "none" ELSE "lost"
        /\ rtArg'[r] = rt.client
        /\ \A y \in RT!RTThreads \ {r} : rtPc'[y] = rtPc[y] /\ rtArg'[y] = rtArg[y]
    BY <1>0, <1>begin, Threads DEF RT!ReceiverBegins
  <2>2. StopInv' /\ ClientGoneInv'
    BY <2>1, Threads DEF StopInv, ClientGoneInv
  <2>3. CASE rt.client = RT!NoStream
    BY <2>1, <2>2, <2>3, Threads DEF ClientGoneInv, ReceivedInv
  <2>4. CASE rt.client # RT!NoStream /\ rt.client = rt.stream
    BY <2>1, <2>2, <2>4 DEF ReceivedInv, RT!Reads
  <2>5. CASE \E x \in RT!Dialers : rtPc[x] = "opened"
    BY <2>1, <2>2, <2>5, Threads DEF ReceivedInv
  <2> QED BY <2>3, <2>4, <2>5 DEF SSEClientInv
<1>15. ASSUME NEW r \in RT!Receivers, RT!EventArrives(r) PROVE Goal
  <2>1. CASE rt.stop
    <3>1. /\ rt' = rt /\ rtPc[r] \in {"reading", "terminal"} /\ rtPc'[r] = "none"
          /\ \A y \in RT!RTThreads \ {r} : rtPc'[y] = rtPc[y]
      BY <1>0, <1>15, <2>1, Threads DEF RT!EventArrives, RT!ReceiverEnds, RT!Reads
    <3> QED BY <2>1, <3>1, Threads DEF StopInv, ClientGoneInv, ReceivedInv
  <2>2. CASE ~rt.stop
    <3>1. /\ rt' = [rt EXCEPT !.attempts = 0, !.redials = 0] /\ rtArg' = rtArg
          /\ rtPc[r] \in {"reading", "terminal"}
          /\ \E p \in {"reading", "terminal"} : rtPc' = [rtPc EXCEPT ![r] = p]
      BY <1>15, <2>2 DEF RT!EventArrives, RT!Reads
    <3>2. /\ rt'.state = rt.state /\ rt'.stop = rt.stop /\ rt'.stream = rt.stream
          /\ rt'.client = rt.client /\ rt'.deaf = rt.deaf
      BY <1>0, <3>1
    <3>3. /\ rtPc'[r] \in {"reading", "terminal"}
          /\ \A y \in RT!RTThreads \ {r} : rtPc'[y] = rtPc[y]
      BY <1>0, <3>1, Threads
    <3> QED BY <3>1, <3>2, <3>3, Threads DEF StopInv, ClientGoneInv, ReceivedInv, RT!Reads
  <2> QED BY <2>1, <2>2
<1>16. ASSUME NEW r \in RT!Receivers,
              \/ RT!StreamBreaks(r)
              \/ RT!StreamEnds(r) /\ (rt.stop \/ rtPc[r] # "terminal")
       PROVE  Goal
  <2>1. /\ rt' = rt /\ rtPc[r] \in {"reading", "terminal"}
        /\ rtPc' = [rtPc EXCEPT ![r] = IF rt.stop THEN "none" ELSE "lost"]
    BY <1>16 DEF RT!StreamBreaks, RT!StreamEnds, RT!ReceiverEnds, RT!Reads
  <2>2. /\ rtPc'[r] = IF rt.stop THEN "none" ELSE "lost"
        /\ \A y \in RT!RTThreads \ {r} : rtPc'[y] = rtPc[y]
    BY <1>0, <2>1, Threads
  <2> QED BY <2>1, <2>2, Threads DEF StopInv, ClientGoneInv, ReceivedInv
<1>17. ASSUME NEW r \in RT!Receivers, RT!StreamEnds(r), ~rt.stop, rtPc[r] = "terminal"
       PROVE  Goal
  <2>1. rt'.state = "disconnected"
    BY <1>0, <1>17 DEF RT!StreamEnds
  <2> QED BY <2>1, NotConnected
<1>18. ASSUME NEW s \in Slots, RT!ServerEndsStream(s) PROVE Goal
  BY <1>18, WiredKept DEF RT!ServerEndsStream
<1>19. ASSUME UNCHANGED rtVars PROVE Goal
  BY <1>19, WiredKept DEF rtVars
<1> HIDE DEF Goal
<1>20. ASSUME NEW x \in RT!Dialers, RT!DialStep(x) PROVE Goal
  BY <1>5, <1>6, <1>7, <1>8, <1>9, <1>20, <1>create DEF RT!DialStep
<1>21. ASSUME NEW x \in RT!Timers \cup RT!Receivers, RT!LossStep(x) PROVE Goal
  BY <1>12, <1>13, <1>21 DEF RT!LossStep
<1>22. ASSUME NEW r \in RT!Receivers, RT!ReceiverStep(r) \/ RT!EventArrives(r) PROVE Goal
  <2>1. CASE RT!StreamEnds(r)
    BY <1>16, <1>17, <2>1
  <2>2. CASE RT!LossStep(r)
    BY <1>21, <2>2
  <2> QED BY <1>14, <1>15, <1>16, <1>22, <1>begin, <2>1, <2>2 DEF RT!ReceiverStep
<1>23. ASSUME RT!CallerStep PROVE Goal
  BY <1>10, <1>20, <1>23, Threads DEF RT!CallerStep
<1>24. ASSUME NEW x \in RT!Timers, RT!TimerStep(x) PROVE Goal
  BY <1>11, <1>20, <1>21, <1>24, Threads DEF RT!TimerStep
<1>25. Goal
  BY <1>1, <1>2, <1>3, <1>4, <1>18, <1>19, <1>22, <1>23, <1>24 DEF RT!RTNext
<1> QED  BY <1>25 DEF Goal

\* The thread that runs in a calm client is the only one.
LEMMA Alone ==
    ASSUME Chain, NEW x \in RT!RTThreads, rtPc[x] # "none"
    PROVE  /\ \A y \in RT!RTThreads \ {x} : rtPc[y] = "none"
           /\ rtCalls["connect"] # 0 /\ ~rt.error
           /\ rt.redials <= rt.attempts
           /\ rtPc[x] = "schedule" => rt.redials < rt.attempts
           /\ rtPc[RT!Caller] \notin {"cancelled", "stopped", "closed"}
  BY DEF Chain, Active

\* What it takes for a step to hand the chain on to thread z.
LEMMA Linked ==
    ASSUME NEW z \in RT!RTThreads,
           \A y \in RT!RTThreads \ {z} : rtPc'[y] = "none",
           rtCalls'["connect"] # 0,
           rtPc'[z] \notin {"cancelled", "stopped", "closed"},
           rt'.redials <= rt'.attempts,
           rtPc'[z] = "schedule" => rt'.redials < rt'.attempts,
           rt'.error => rt'.state = "disconnected" /\ rtPc'[z] = "none"
    PROVE  Chain'
  BY Threads DEF Chain, Active

LEMMA ChainStep ==
    ASSUME RTShape, KindsInv, ChainInv, [RT!RTNext]_rtVars
    PROVE  ChainInv'
<1>0. /\ DOMAIN rt = RTFields /\ DOMAIN rtPc = RT!RTThreads /\ DOMAIN rtArg = RT!RTThreads
      /\ {"state", "stop", "stream", "client", "deaf", "error", "attempts", "redials"}
             \subseteq RTFields
      /\ rt.redials \in Nat /\ rt.attempts \in Nat /\ rt.error \in BOOLEAN
  BY BudgetAssumption DEF RTShape, RTFields
<1> USE DEF RT!Goto
<1>1. ASSUME NEW f \in Filters \cup {NoFilter}, RT!UserConnects(f), Calm' PROVE Chain'
  <2>1. /\ Chain /\ rtCalls["connect"] = 0
        /\ rtCalls' = [rtCalls EXCEPT !["connect"] = @ + 1]
    BY <1>1, CallFacts DEF RT!UserConnects, RT!RTMethods, ChainInv
  <2>2. rtCalls'["connect"] # 0
    BY <2>1 DEF RTShape, RT!RTMethods
  <2>3. \A y \in RT!RTThreads : rtPc[y] = "none"
    BY <2>1 DEF Chain, Active
  <2>4. /\ rt'.redials = rt.redials /\ rt'.attempts = rt.attempts /\ rt'.error = rt.error
        /\ rtPc'[RT!Caller] \in {"none", "dial"}
        /\ \A y \in RT!RTThreads \ {RT!Caller} : rtPc'[y] = rtPc[y]
    BY <1>0, <1>1, Threads DEF RT!UserConnects, RT!Connect
  <2>5. ~rt.error /\ rt.redials <= rt.attempts
    BY <2>1 DEF Chain
  <2> QED BY <2>2, <2>3, <2>4, <2>5, Linked, Threads
<1>2. ASSUME RT!UserDisconnects \/ \E f \in Filters : RT!Subscribe(f) \/ RT!Unsubscribe(f)
      PROVE  ~Calm'
  <2>1. PICK m \in {"disconnect", "subscribe", "unsubscribe"} : RT!Call(m)
    <3>1. CASE RT!UserDisconnects
      BY <3>1 DEF RT!UserDisconnects
    <3>2. CASE \E f \in Filters : RT!Subscribe(f) \/ RT!Unsubscribe(f)
      BY <3>2, Zenon DEF RT!Subscribe, RT!Unsubscribe
    <3> QED BY <1>2, <3>1, <3>2
  <2>2. m \in RT!RTMethods /\ m # "connect"
    BY DEF RT!RTMethods
  <2> QED BY <2>1, <2>2, CallFacts
<1>3. ASSUME Chain, NEW x \in RT!Dialers, RT!DialStep(x) PROVE Chain'
  <2> DEFINE p == rtPc[x]
  <2>1. x \in RT!RTThreads /\ rtCalls' = rtCalls /\ p # "none"
    BY <1>3, Threads
       DEF RT!DialStep, RT!DialSucceeds, RT!DialFails, RT!CreateClient, RT!SetConnected,
           RT!StartReceiver, RT!ConnectRaises
  <2>2. /\ \A y \in RT!RTThreads \ {x} : rtPc[y] = "none"
        /\ rtCalls["connect"] # 0 /\ ~rt.error /\ rt.redials <= rt.attempts
    BY <1>3, <2>1, Alone
  <2>3. CASE \/ RT!DialSucceeds(x) \/ RT!DialFails(x)
             \/ RT!CreateClient(x) \/ RT!SetConnected(x)
    <3>1. /\ rt'.redials = rt.redials /\ rt'.attempts = rt.attempts /\ rt'.error = rt.error
      <4>1. CASE RT!DialSucceeds(x)
        BY <1>0, <4>1 DEF RT!DialSucceeds
      <4>2. CASE RT!DialFails(x)
        BY <4>2 DEF RT!DialFails
      <4>3. CASE RT!SetConnected(x)
        <5>1. PICK d, j : rt' = [rt EXCEPT !.state = "connected", !.deaf = d, !.jobStream = j]
          BY <4>3, Zenon DEF RT!SetConnected
        <5> QED BY <1>0, <5>1
      <4>4. CASE RT!CreateClient(x)
        <5>1. PICK c : rt' = rt \/ rt' = [rt EXCEPT !.client = c]
          BY <4>4, Created
        <5> QED BY <1>0, <5>1
      <4> QED BY <2>3, <4>1, <4>2, <4>3, <4>4
    <3>2. PICK q \in {"opened", "made", "failed", "rejected", "connected"} :
              rtPc' = [rtPc EXCEPT ![x] = q]
      <4>1. CASE RT!CreateClient(x)
        BY <4>1, Created
      <4>2. CASE RT!DialSucceeds(x) \/ RT!DialFails(x) \/ RT!SetConnected(x)
        BY <4>2, Zenon DEF RT!DialSucceeds, RT!DialFails, RT!SetConnected
      <4> QED BY <2>3, <4>1, <4>2
    <3>3. rtPc'[x] = q /\ \A y \in RT!RTThreads \ {x} : rtPc'[y] = rtPc[y]
      BY <1>0, <2>1, <3>2
    <3> QED BY <2>1, <2>2, <3>1, <3>3, Linked
  <2>4. CASE RT!StartReceiver(x)
    <3>1. PICK n \in Slots :
              rtPc' = [rtPc EXCEPT ![x] = "none", ![RT!Receiver(n)] = "starting"]
      BY <2>4 DEF RT!StartReceiver
    <3>2. rt' = [rt EXCEPT !.stop = FALSE]
      BY <2>4 DEF RT!StartReceiver
    <3>3. /\ rt'.redials = rt.redials /\ rt'.attempts = rt.attempts /\ rt'.error = rt.error
      BY <1>0, <3>2
    <3>4. /\ rtPc'[RT!Receiver(n)] = "starting" /\ RT!Receiver(n) \in RT!RTThreads
          /\ \A y \in RT!RTThreads \ {RT!Receiver(n)} : rtPc'[y] = "none"
      BY <1>0, <2>1, <2>2, <3>1, Threads
    <3> QED BY <2>1, <2>2, <3>3, <3>4, Linked
  <2>5. CASE RT!ConnectRaises(x)
    <3>1. /\ rtPc'[x] = RT!AfterFailure(x)
          /\ \A y \in RT!RTThreads \ {x} : rtPc'[y] = rtPc[y]
      BY <1>0, <2>1, <2>5 DEF RT!ConnectRaises
    <3>2. PICK e : /\ e = (rt.error \/ (x # RT!Caller /\ rtPc[x] = "rejected"))
                   /\ rt' = [rt EXCEPT !.stream = RT!NoStream, !.client = RT!NoStream,
                                       !.state = "disconnected", !.error = e]
      BY <2>5, Zenon DEF RT!ConnectRaises
    <3>3. /\ rt'.redials = rt.redials /\ rt'.attempts = rt.attempts
          /\ rt'.state = "disconnected" /\ rt'.error = e
      BY <1>0, <3>2
    <3>4. e => RT!AfterFailure(x) = "none"
      BY <2>2, <3>2 DEF RT!AfterFailure
    <3>5. RT!AfterFailure(x) \in {"none", "lost"}
      BY DEF RT!AfterFailure
    <3>6. rt'.error => rtPc'[x] = "none"
      BY <3>1, <3>3, <3>4
    <3> QED BY <2>1, <2>2, <3>1, <3>3, <3>5, <3>6, Linked
  <2> QED BY <1>3, <2>3, <2>4, <2>5 DEF RT!DialStep
<1>4. ASSUME Chain PROVE ~(RT!DisconnectStops \/ RT!DisconnectCloses \/ RT!DisconnectEnds)
  BY <1>4 DEF Chain, RT!DisconnectStops, RT!DisconnectCloses, RT!DisconnectEnds
<1>5. ASSUME Chain, NEW x \in RT!Timers, RT!TimerFires(x) PROVE Chain'
  <2>1. x \in RT!RTThreads /\ rtCalls' = rtCalls /\ rtPc[x] # "none"
    BY <1>5, Threads DEF RT!TimerFires
  <2>2. /\ \A y \in RT!RTThreads \ {x} : rtPc[y] = "none"
        /\ rtCalls["connect"] # 0 /\ ~rt.error /\ rt.redials <= rt.attempts
    BY <1>5, <2>1, Alone
  <2>3. /\ rt'.redials = rt.redials /\ rt'.attempts = rt.attempts /\ rt'.error = rt.error
        /\ rtPc'[x] \in {"none", "dial"}
        /\ \A y \in RT!RTThreads \ {x} : rtPc'[y] = rtPc[y]
    BY <1>0, <1>5, <2>1 DEF RT!TimerFires, RT!Connect
  <2> QED BY <2>1, <2>2, <2>3, Linked
<1>6. ASSUME Chain, NEW x \in RT!Timers \cup RT!Receivers, RT!LossStep(x) PROVE Chain'
  <2>1. x \in RT!RTThreads /\ rtCalls' = rtCalls /\ rtPc[x] # "none"
    <3>1. x \in RT!RTThreads
      BY Threads
    <3>2. CASE RT!Lost(x)
      BY <3>1, <3>2 DEF RT!Lost
    <3>3. CASE RT!Budget(x)
      BY <3>1, <3>3 DEF RT!Budget
    <3>4. CASE RT!StartTimer(x)
      BY <3>1, <3>4 DEF RT!StartTimer
    <3> QED BY <1>6, <3>2, <3>3, <3>4 DEF RT!LossStep
  <2>2. /\ \A y \in RT!RTThreads \ {x} : rtPc[y] = "none"
        /\ rtCalls["connect"] # 0 /\ ~rt.error /\ rt.redials <= rt.attempts
        /\ rtPc[x] = "schedule" => rt.redials < rt.attempts
    BY <1>6, <2>1, Alone
  <2>3. CASE RT!Lost(x)
    <3>1. /\ rt'.redials = rt.redials /\ rt'.attempts = rt.attempts /\ rt'.error = rt.error
          /\ rtPc'[x] = "budget" /\ \A y \in RT!RTThreads \ {x} : rtPc'[y] = rtPc[y]
      BY <1>0, <2>1, <2>3 DEF RT!Lost
    <3> QED BY <2>1, <2>2, <3>1, Linked
  <2>4. CASE RT!Budget(x) /\ rt.attempts < MaxRetries
    <3>1. /\ rt' = [rt EXCEPT !.state = "reconnecting", !.attempts = @ + 1]
          /\ rtPc' = [rtPc EXCEPT ![x] = "schedule"]
      BY <2>4 DEF RT!Budget
    <3>2. rt'.redials = rt.redials /\ rt'.attempts = rt.attempts + 1 /\ rt'.error = rt.error
      BY <1>0, <3>1
    <3>3. rtPc'[x] = "schedule" /\ \A y \in RT!RTThreads \ {x} : rtPc'[y] = rtPc[y]
      BY <1>0, <2>1, <3>1
    <3>4. rt'.redials < rt'.attempts /\ rt'.redials <= rt'.attempts
      BY <1>0, <2>2, <3>2
    <3> QED BY <2>1, <2>2, <3>2, <3>3, <3>4, Linked
  <2>5. CASE RT!Budget(x) /\ ~(rt.attempts < MaxRetries)
    <3>1. /\ rt'.redials = rt.redials /\ rt'.attempts = rt.attempts /\ rt'.error = rt.error
          /\ rtPc'[x] = "none" /\ \A y \in RT!RTThreads \ {x} : rtPc'[y] = rtPc[y]
      BY <1>0, <2>1, <2>5 DEF RT!Budget
    <3> QED BY <2>1, <2>2, <3>1, Linked
  <2>6. CASE RT!StartTimer(x)
    <3>1. PICK n \in Slots :
              /\ rt' = [rt EXCEPT !.timer = RT!Timer(n),
                                  !.redials = IF @ > MaxRetries THEN @ ELSE @ + 1]
              /\ rtPc' = [rtPc EXCEPT ![RT!Timer(n)] = "armed", ![x] = "none"]
              /\ rtPc[RT!Timer(n)] = "none"
      BY <2>6, Zenon DEF RT!StartTimer
    <3>2. rtPc[x] = "schedule" /\ RT!Timer(n) # x
      BY <2>6, <3>1 DEF RT!StartTimer
    <3>3. /\ rt'.redials = IF rt.redials > MaxRetries THEN rt.redials ELSE rt.redials + 1
          /\ rt'.attempts = rt.attempts /\ rt'.error = rt.error
      BY <1>0, <3>1
    <3>4. rt'.redials <= rt'.attempts
      BY <1>0, <2>2, <3>2, <3>3
    <3>5. /\ rtPc'[RT!Timer(n)] = "armed" /\ RT!Timer(n) \in RT!RTThreads
          /\ \A y \in RT!RTThreads \ {RT!Timer(n)} : rtPc'[y] = "none"
      BY <1>0, <2>1, <2>2, <3>1, <3>2, Threads
    <3> QED BY <2>1, <2>2, <3>3, <3>4, <3>5, Linked
  <2> QED BY <1>6, <2>3, <2>4, <2>5, <2>6 DEF RT!LossStep
<1>7. ASSUME Chain, NEW r \in RT!Receivers,
             \/ RT!ReceiverStarts(r) \/ RT!ReceiverBegins(r) \/ RT!StreamBreaks(r)
             \/ RT!StreamEnds(r) \/ RT!EventArrives(r)
      PROVE  Chain'
  <2>1. r \in RT!RTThreads /\ rtCalls' = rtCalls /\ rtPc[r] # "none"
    BY <1>7, Threads
       DEF RT!ReceiverStarts, RT!ReceiverBegins, RT!StreamBreaks, RT!StreamEnds,
           RT!EventArrives, RT!Reads
  <2>2. /\ \A y \in RT!RTThreads \ {r} : rtPc[y] = "none"
        /\ rtCalls["connect"] # 0 /\ ~rt.error /\ rt.redials <= rt.attempts
    BY <1>7, <2>1, Alone
  <2>3. /\ \/ rt' = rt
           \/ rt' = [rt EXCEPT !.stream = RT!NoStream, !.client = RT!NoStream,
                               !.state = "disconnected"]
           \/ rt' = [rt EXCEPT !.attempts = 0, !.redials = 0]
        /\ \E q \in {"none", "begins", "reading", "terminal", "lost"} :
               rtPc' = [rtPc EXCEPT ![r] = q]
    <3>1. CASE RT!ReceiverStarts(r) \/ RT!ReceiverBegins(r)
      BY <3>1, Zenon DEF RT!ReceiverStarts, RT!ReceiverBegins
    <3>2. CASE RT!StreamBreaks(r) \/ RT!StreamEnds(r)
      BY <3>2, Zenon DEF RT!StreamBreaks, RT!StreamEnds, RT!ReceiverEnds
    <3>3. CASE RT!EventArrives(r)
      BY <3>3 DEF RT!EventArrives, RT!ReceiverEnds, RT!Reads
    <3> QED BY <1>7, <3>1, <3>2, <3>3
  <2>4. rt'.redials <= rt'.attempts /\ rt'.error = rt.error
    <3>1. CASE rt' = [rt EXCEPT !.stream = RT!NoStream, !.client = RT!NoStream,
                                !.state = "disconnected"]
      BY <1>0, <2>2, <3>1
    <3>2. CASE rt' = [rt EXCEPT !.attempts = 0, !.redials = 0]
      BY <1>0, <3>2
    <3> QED BY <2>2, <2>3, <3>1, <3>2
  <2>5. /\ rtPc'[r] \in {"none", "begins", "reading", "terminal", "lost"}
        /\ \A y \in RT!RTThreads \ {r} : rtPc'[y] = rtPc[y]
    BY <1>0, <2>1, <2>3
  <2> QED BY <2>1, <2>2, <2>4, <2>5, Linked
<1>8. ASSUME Chain, NEW s \in Slots, RT!ServerEndsStream(s) PROVE Chain'
  BY <1>8 DEF RT!ServerEndsStream, Chain, Active
<1>9. ASSUME Chain, UNCHANGED rtVars PROVE Chain'
  BY <1>9 DEF rtVars, Chain, Active
<1> SUFFICES ASSUME Calm' PROVE Chain'
  BY DEF ChainInv
<1>10. CASE \E f \in Filters \cup {NoFilter} : RT!UserConnects(f)
  BY <1>1, <1>10
<1>11. CASE RT!UserDisconnects \/ \E f \in Filters : RT!Subscribe(f) \/ RT!Unsubscribe(f)
  BY <1>2, <1>11
<1>12. CASE /\ ~\E f \in Filters \cup {NoFilter} : RT!UserConnects(f)
            /\ ~(RT!UserDisconnects \/ \E f \in Filters : RT!Subscribe(f) \/ RT!Unsubscribe(f))
  <2>1. \/ RT!CallerStep \/ \E x \in RT!Timers : RT!TimerStep(x)
        \/ \E r \in RT!Receivers : RT!ReceiverStep(r) \/ RT!EventArrives(r)
        \/ \E s \in Slots : RT!ServerEndsStream(s)
        \/ UNCHANGED rtVars
    BY <1>12 DEF RT!RTNext
  <2>2. rtCalls' = rtCalls
    <3>1. ASSUME NEW x \in RT!RTThreads, RT!DialStep(x) \/ RT!LossStep(x)
          PROVE  rtCalls' = rtCalls
      BY <3>1, Zenon
         DEF RT!DialStep, RT!DialSucceeds, RT!DialFails, RT!CreateClient, RT!SetConnected,
             RT!StartReceiver, RT!ConnectRaises, RT!LossStep, RT!Lost, RT!Budget, RT!StartTimer
    <3>2. CASE RT!CallerStep
      BY <3>1, <3>2, Threads
         DEF RT!CallerStep, RT!DisconnectStops, RT!DisconnectCloses, RT!DisconnectEnds
    <3>3. CASE \E x \in RT!Timers : RT!TimerStep(x)
      BY <3>1, <3>3, Threads DEF RT!TimerStep, RT!TimerFires
    <3>4. CASE \E r \in RT!Receivers : RT!ReceiverStep(r) \/ RT!EventArrives(r)
      BY <3>1, <3>4, Threads
         DEF RT!ReceiverStep, RT!ReceiverStarts, RT!ReceiverBegins, RT!StreamBreaks,
             RT!StreamEnds, RT!EventArrives
    <3>5. CASE \E s \in Slots : RT!ServerEndsStream(s)
      BY <3>5 DEF RT!ServerEndsStream
    <3> QED BY <2>1, <3>2, <3>3, <3>4, <3>5 DEF rtVars
  <2>3. Chain
    BY <2>2 DEF ChainInv, Calm
  <2>4. CASE RT!CallerStep
    BY <1>3, <1>4, <2>3, <2>4, Threads DEF RT!CallerStep
  <2>5. CASE \E x \in RT!Timers : RT!TimerStep(x)
    BY <1>3, <1>5, <1>6, <2>3, <2>5, Threads DEF RT!TimerStep
  <2>6. CASE \E r \in RT!Receivers : RT!ReceiverStep(r) \/ RT!EventArrives(r)
    BY <1>6, <1>7, <2>3, <2>6, Threads DEF RT!ReceiverStep
  <2> QED BY <1>8, <1>9, <2>1, <2>3, <2>4, <2>5, <2>6
<1> QED  BY <1>10, <1>11, <1>12

\* A client that made one call of connect() has paid for every timer, and one that was
\* rejected is over.
LEMMA ChainEnough ==
    ASSUME RTShape, ChainInv
    PROVE  RT!QuietStreamsSpendBudget /\ RT!RejectionIsFinal
<1>1. SUFFICES ASSUME RT!OnItsOwn
               PROVE  /\ rt.redials <= MaxRetries
                      /\ rt.error => RT!RTAtRest /\ rt.state = "disconnected"
  BY DEF RT!QuietStreamsSpendBudget, RT!RejectionIsFinal
<1>2. Chain
  BY <1>1 DEF RT!OnItsOwn, ChainInv, Calm, RT!RTMethods
<1>3. rt.redials <= MaxRetries
  BY <1>2, BudgetAssumption DEF Chain, RTShape
<1>4. ASSUME rt.error PROVE RT!RTAtRest /\ rt.state = "disconnected"
  BY <1>2, <1>4, Threads DEF Chain, Active, RT!RTAtRest
<1> QED  BY <1>3, <1>4

\* At rest nothing but a thread that reads the stream keeps a client connected.
LEMMA ReceivedEnough ==
    ASSUME ReceivedInv
    PROVE  RT!ConnectedReceives
<1> SUFFICES ASSUME RT!RTAtRest, rt.state = "connected", ~rt.deaf
             PROVE  \E r \in RT!Receivers : RT!Reads(r) /\ rtArg[r] = rt.stream
  BY DEF RT!ConnectedReceives
<1>1. /\ rtPc[RT!Caller] = "none" /\ \A x \in RT!Timers : rtPc[x] = "none"
      /\ \A r \in RT!Receivers : rtPc[r] \in {"none", "reading", "terminal"}
  BY DEF RT!RTAtRest
<1> QED  BY <1>1, Threads DEF ReceivedInv

-----------------------------------------------------------------------------
(* The clients together *)

LEMMA StreamsStart ==
    ASSUME StreamsInit
    PROVE  StreamsInv
  BY SSEStarts, AsyncSSEStarts, AWStarts, RTStarts DEF StreamsInit, StreamsInv

LEMMA StreamsStep ==
    ASSUME StreamsInv, [StreamsNext]_streamVars
    PROVE  StreamsInv'
<1>1. /\ [SSE!SSENext]_sseVars /\ [ASSE!AsyncSSENext]_asseVars
      /\ [AWS!AWNext]_awVars /\ [RT!RTNext]_rtVars
  BY ClientSteps
<1>2. IterationInv(sse, ssePc)'
  BY <1>1, SSEStep DEF StreamsInv
<1>3. IterationInv(asse, assePc)'
  BY <1>1, AsyncSSEStep DEF StreamsInv
<1>4. AWInv'
  BY <1>1, AWTypeStep, AWBudgetStep, ToldStep DEF StreamsInv, AWInv
<1>5. RTInv'
  BY <1>1, RTShapeStep, SSEClientStep, WiredStep, ChainStep DEF StreamsInv, RTInv
<1> QED  BY <1>2, <1>3, <1>4, <1>5 DEF StreamsInv

\* The inductive invariant of the clients.
THEOREM StreamsInvariant == StreamsSpec => []StreamsInv
<1>1. StreamsInit => StreamsInv
  BY StreamsStart
<1>2. StreamsInv /\ [StreamsNext]_streamVars => StreamsInv'
  BY StreamsStep
<1> QED  BY <1>1, <1>2, PTL DEF StreamsSpec

\* No client redials more often than its budget allows between two events, and none
\* once it was rejected: _reconnect of both SSE clients, _handle_disconnect and _give_up
\* of SpooledRealtime, _reconnect of AsyncWebSocketClient.
THEOREM RedialsAreEarnedHolds == StreamsSpec => []RedialsAreEarned
<1>1. StreamsInv => RedialsAreEarned
  <2> SUFFICES ASSUME StreamsInv PROVE RedialsAreEarned
    OBVIOUS
  <2>1. SSE!RedialsAreEarned
    <3>1. /\ sse \in SSE!SSEClients
          /\ sse.calls["user"] = 0 => sse.redials <= sse.attempts
          /\ sse.refused => ssePc["consumer"] = "over"
      BY DEF StreamsInv, IterationInv, RedialsSpent
    <3>2. /\ sse.attempts \in Nat /\ sse.redials \in Nat /\ sse.attempts <= MaxReconnects
      BY <3>1, BudgetAssumption DEF SSE!SSEClients
    <3> QED BY <3>1, <3>2, BudgetAssumption DEF SSE!RedialsAreEarned
  <2>2. ASSE!AsyncRedialsAreEarned
    <3>1. /\ asse \in SSE!SSEClients
          /\ asse.calls["user"] = 0 => asse.redials <= asse.attempts
          /\ asse.refused => assePc["consumer"] = "over"
      BY DEF StreamsInv, IterationInv, RedialsSpent
    <3>2. /\ asse.attempts \in Nat /\ asse.redials \in Nat /\ asse.attempts <= MaxReconnects
      BY <3>1, BudgetAssumption DEF SSE!SSEClients
    <3> QED
      BY <3>1, <3>2, BudgetAssumption DEF ASSE!AsyncRedialsAreEarned, ASSE!S!RedialsAreEarned
  <2>3. RT!QuietStreamsSpendBudget /\ RT!RejectionIsFinal
    BY ChainEnough DEF StreamsInv, RTInv
  <2>4. AWS!AsyncBudgetHeld
    <3>1. aws \in AWAttrs /\ aws.redials <= aws.attempts
      BY AWTypeParts DEF StreamsInv, AWInv, AWBudgetInv
    <3>2. aws.attempts \in 0 .. MaxRetries /\ aws.redials \in Nat
      BY AWFields, BudgetAssumption DEF StreamsInv, AWInv
    <3> QED BY <3>1, <3>2, BudgetAssumption DEF AWS!AsyncBudgetHeld
  <2> QED BY <2>1, <2>2, <2>3, <2>4 DEF RedialsAreEarned
<1> QED  BY <1>1, StreamsInvariant, PTL

\* A client at rest that says it is connected has a thread that receives from its
\* stream, unless it had no SSE client when it began to say so: connect(), disconnect(),
\* _handle_disconnect and the receive threads of SpooledRealtime.
THEOREM ConnectedReceivesHolds == StreamsSpec => []ConnectedReceives
<1>1. StreamsInv => ConnectedReceives
  BY ReceivedEnough DEF StreamsInv, RTInv, ConnectedReceives
<1> QED  BY <1>1, StreamsInvariant, PTL

\* A consumer that reads its socket receives the events of the subscriptions it holds,
\* but for entries that an insert moved the iteration past, and unless subscribing again
\* raised: subscribe(), unsubscribe() and _resubscribe_all of AsyncWebSocketClient.
THEOREM AsyncSubscriptionsReachServerHolds == StreamsSpec => []AsyncSubscriptionsReachServer
<1>1. StreamsInv => AsyncSubscriptionsReachServer
  BY ToldEnough DEF StreamsInv, AWInv, AsyncSubscriptionsReachServer
<1> QED  BY <1>1, StreamsInvariant, PTL
=============================================================================

---------------------------- MODULE RealtimeTokens ----------------------------
(***************************************************************************)
(* The JWT that the asynchronous client caches for realtime connections,   *)
(* async_client.py: tasks of the event loop and the reconnects on timer    *)
(* threads ask for it, the latter through the token provider, which hands  *)
(* a coroutine to the loop and waits for it.  Code on the loop may call    *)
(* connect(), which blocks the loop until it has dialed.                   *)
(*                                                                         *)
(* Tokens are numbered as they are issued; the local clock judges them.    *)
(***************************************************************************)
EXTENDS Naturals, FiniteSets

CONSTANTS
    TimerThreads,   \* threads that reconnect
    LoopTasks,      \* tasks that call get_jwt_token themselves
    Nobody,         \* no caller has the lock
    MaxJwts         \* bound: tokens issued, forced refreshes

ASSUME CallersAssumption ==
    /\ IsFiniteSet(TimerThreads) /\ IsFiniteSet(LoopTasks)
    /\ Nobody \notin TimerThreads \cup LoopTasks
ASSUME JwtBoundAssumption == MaxJwts \in Nat

VARIABLES
    jwt,     \* the cache, the server's tokens, the loop
    jwtPc    \* per caller: its get_jwt_token, and whether it waits for one

jwtVars == <<jwt, jwtPc>>

Callers == TimerThreads \cup LoopTasks

JwtTypeOK ==
    /\ jwt \in [cached : 0 .. MaxJwts,        \* _cached_jwt, 0 for None
                issued : 0 .. MaxJwts,
                near : 0 .. MaxJwts,          \* tokens up to this one are near expiry
                forced : 0 .. MaxJwts,        \* history: refreshes that were forced
                lock : Callers \cup {Nobody}, \* _jwt_lock
                blocked : BOOLEAN]            \* connect() runs on the loop
    /\ jwtPc \in [Callers -> [at : {"idle", "lock", "forced", "login"}, waits : BOOLEAN]]

JwtInit ==
    /\ jwt = [cached |-> 0, issued |-> 0, near |-> 0, forced |-> 0, lock |-> Nobody,
              blocked |-> FALSE]
    /\ jwtPc = [c \in Callers |-> [at |-> "idle", waits |-> FALSE]]

\* A caller's coroutine moves on; the thread that waits for it gets the result.
Coroutine(c, p) ==
    jwtPc' = [jwtPc EXCEPT ![c].at = p, ![c].waits = @ /\ p # "idle"]

-----------------------------------------------------------------------------

\* get_jwt_token of a task.
GetJwtToken(c) ==
    /\ c \in LoopTasks /\ ~jwt.blocked /\ jwtPc[c].at = "idle"
    /\ \/ Coroutine(c, "lock") /\ UNCHANGED jwt
       \/ /\ jwt.forced < MaxJwts
          /\ Coroutine(c, "forced") /\ jwt' = [jwt EXCEPT !.forced = @ + 1]

\* token_provider on a timer thread: run_coroutine_threadsafe(...).result(30).
ProviderCalled(c) ==
    /\ c \in TimerThreads /\ jwtPc[c] = [at |-> "idle", waits |-> FALSE]
    /\ jwtPc' = [jwtPc EXCEPT ![c] = [at |-> "lock", waits |-> TRUE]]
    /\ UNCHANGED jwt

\* After 30 s the thread keeps the token it has; the coroutine goes on.
ProviderTimesOut(c) ==
    /\ jwtPc[c].waits
    /\ jwtPc' = [jwtPc EXCEPT ![c].waits = FALSE]
    /\ UNCHANGED jwt

\* Slip: whoever gets the lock logs in.
NeverFresh == FALSE

\* jwt_needs_refresh says no: there is a token, not within the leeway of its end.
Fresh == jwt.cached > jwt.near

TakeLock(c) ==
    /\ ~jwt.blocked /\ jwtPc[c].at \in {"lock", "forced"} /\ jwt.lock = Nobody
    /\ IF jwtPc[c].at = "lock" /\ Fresh
       THEN Coroutine(c, "idle") /\ UNCHANGED jwt
       ELSE Coroutine(c, "login") /\ jwt' = [jwt EXCEPT !.lock = c]

\* /auth/login answers with a token, or fails.
LoginReturns(c) ==
    /\ ~jwt.blocked /\ jwtPc[c].at = "login" /\ jwt.issued < MaxJwts
    /\ jwt' = [jwt EXCEPT !.issued = @ + 1, !.cached = jwt.issued + 1, !.lock = Nobody]
    /\ Coroutine(c, "idle")

LoginFails(c) ==
    /\ ~jwt.blocked /\ jwtPc[c].at = "login"
    /\ jwt' = [jwt EXCEPT !.lock = Nobody]
    /\ Coroutine(c, "idle")

\* Slip: on the loop, too, the provider waits for a coroutine of the loop.
ConnectAfterLogin == jwt.blocked /\ Fresh /\ jwt' = [jwt EXCEPT !.blocked = FALSE] /\ UNCHANGED jwtPc

\* connect() called from async code; the provider takes the newest token there is.
ConnectOnLoop ==
    /\ ~jwt.blocked
    /\ jwt' = [jwt EXCEPT !.blocked = TRUE]
    /\ UNCHANGED jwtPc

ConnectReturns ==
    /\ jwt.blocked
    /\ jwt' = [jwt EXCEPT !.blocked = FALSE]
    /\ UNCHANGED jwtPc

JwtAges ==
    /\ jwt.near < jwt.issued
    /\ jwt' = [jwt EXCEPT !.near = @ + 1]
    /\ UNCHANGED jwtPc

CoroutineStep(c) == TakeLock(c) \/ LoginReturns(c) \/ LoginFails(c)

JwtNext ==
    \/ \E c \in Callers :
          GetJwtToken(c) \/ ProviderCalled(c) \/ ProviderTimesOut(c) \/ CoroutineStep(c)
    \/ ConnectOnLoop \/ ConnectReturns \/ JwtAges

JwtSpec == JwtInit /\ [][JwtNext]_jwtVars

\* The loop runs what can run, and asyncio.Lock is first come, first served.
JwtFairness ==
    /\ WF_jwtVars(ConnectReturns)
    /\ \A c \in Callers : SF_jwtVars(CoroutineStep(c))

-----------------------------------------------------------------------------
(* Properties *)

\* Reconnect storms share a login: there are no more logins than tokens that came
\* near their expiry, refreshes that were forced, and one.
LoginsAreShared == jwt.issued <= jwt.near + jwt.forced + 1

\* A timer thread gets an answer of the loop without the timeout of 30 s running
\* out: no connect() on the loop waits for a coroutine of that loop.
ProviderAnswered == \A c \in TimerThreads : jwtPc[c].waits ~> ~jwtPc[c].waits
=============================================================================

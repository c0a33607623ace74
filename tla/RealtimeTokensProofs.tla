------------------------ MODULE RealtimeTokensProofs ------------------------
(***************************************************************************)
(* Theorems about RealtimeTokens, for all sets of callers and all bounds.  *)
(***************************************************************************)
EXTENDS RealtimeTokens, FiniteSetTheorems, TLAPS

\* The callers whose forced refresh has not reached the lock.
Forced == {c \in Callers : jwtPc[c].at = "forced"}

\* Logins under way: those of the lock's holder.
LoginsUnderWay == IF jwt.lock = Nobody THEN 0 ELSE 1

\* Whoever logs in holds _jwt_lock.
LockInv == \A c \in Callers : jwtPc[c].at = "login" <=> jwt.lock = c

\* Every login that was begun or is still to be begun has its own reason: the first
\* token, a token that came near its expiry, a refresh that was forced.
ReasonsInv ==
    /\ Cardinality(Forced) <= jwt.forced
    /\ jwt.issued + LoginsUnderWay + Cardinality(Forced) <= jwt.near + jwt.forced + 1

JwtInv == JwtTypeOK /\ jwt.cached = jwt.issued /\ LockInv /\ ReasonsInv

-----------------------------------------------------------------------------

\* The forced refreshes under way are a finite set.
LEMMA ForcedFinite ==
    IsFiniteSet(Forced) /\ Cardinality(Forced) \in Nat
<1>1. IsFiniteSet(Callers)
  BY FS_Union, CallersAssumption DEF Callers
<1>2. IsFiniteSet(Forced)
  BY <1>1, FS_Subset DEF Forced
<1> QED  BY <1>2, FS_CardinalityType

\* A step of a coroutine that neither begins nor ends a forced refresh keeps their set.
LEMMA ForcedKept ==
    ASSUME JwtTypeOK, NEW c \in Callers, NEW p \in {"idle", "lock", "login"},
           Coroutine(c, p), jwtPc[c].at # "forced"
    PROVE  Forced' = Forced
  BY DEF JwtTypeOK, Coroutine, Forced

\* What a coroutine's step leaves to LockInv and the types.
LEMMA CoroutineTyped ==
    ASSUME JwtTypeOK, NEW c \in Callers, NEW p \in {"idle", "lock", "forced", "login"},
           Coroutine(c, p)
    PROVE  /\ jwtPc' \in [Callers -> [at : {"idle", "lock", "forced", "login"}, waits : BOOLEAN]]
           /\ jwtPc'[c].at = p
           /\ \A d \in Callers \ {c} : jwtPc'[d].at = jwtPc[d].at
  BY DEF JwtTypeOK, Coroutine

\* Every step keeps the cache and the coroutines well typed, and the lock with the
\* one that logs in.
LEMMA TypedStep ==
    ASSUME JwtInv, [JwtNext]_jwtVars
    PROVE  JwtTypeOK' /\ jwt'.cached = jwt'.issued /\ LockInv'
<1> DEFINE Goal == JwtTypeOK' /\ jwt'.cached = jwt'.issued /\ LockInv'
<1>0. Nobody \notin Callers
  BY CallersAssumption DEF Callers
<1> USE <1>0, JwtBoundAssumption DEF JwtInv, LockInv
<1>1. ASSUME NEW c \in Callers, GetJwtToken(c) PROVE Goal
  BY <1>1, CoroutineTyped DEF GetJwtToken, JwtTypeOK
<1>2. ASSUME NEW c \in Callers, ProviderCalled(c) PROVE Goal
  BY <1>2 DEF ProviderCalled, JwtTypeOK
<1>3. ASSUME NEW c \in Callers, ProviderTimesOut(c) PROVE Goal
  BY <1>3 DEF ProviderTimesOut, JwtTypeOK
<1>4. ASSUME NEW c \in Callers, TakeLock(c) PROVE Goal
  <2>1. jwtPc[c].at # "login" /\ jwt.lock = Nobody
    BY <1>4 DEF TakeLock
  <2>2. CASE Coroutine(c, "idle") /\ UNCHANGED jwt
    BY <2>1, <2>2, CoroutineTyped DEF JwtTypeOK
  <2>3. CASE Coroutine(c, "login") /\ jwt' = [jwt EXCEPT !.lock = c]
    BY <2>1, <2>3, CoroutineTyped DEF JwtTypeOK
  <2> QED BY <1>4, <2>2, <2>3 DEF TakeLock
<1>5. ASSUME NEW c \in Callers, LoginReturns(c) PROVE Goal
  <2>1. jwt.lock = c /\ jwt.issued + 1 \in 0 .. MaxJwts
    BY <1>5 DEF LoginReturns, JwtTypeOK
  <2>2. JwtTypeOK' /\ jwt'.cached = jwt'.issued /\ jwt'.lock = Nobody
    BY <1>5, <2>1, CoroutineTyped DEF LoginReturns, JwtTypeOK
  <2>3. \A d \in Callers : jwtPc'[d].at # "login"
    BY <1>5, <2>1, CoroutineTyped DEF LoginReturns
  <2> QED BY <2>2, <2>3
<1>6. ASSUME NEW c \in Callers, LoginFails(c) PROVE Goal
  <2>1. jwt.lock = c /\ jwt' = [jwt EXCEPT !.lock = Nobody]
    BY <1>6 DEF LoginFails
  <2>2. JwtTypeOK' /\ jwt'.cached = jwt'.issued /\ jwt'.lock = Nobody
    BY <1>6, <2>1, CoroutineTyped DEF LoginFails, JwtTypeOK
  <2>3. \A d \in Callers : jwtPc'[d].at # "login"
    BY <1>6, <2>1, CoroutineTyped DEF LoginFails
  <2> QED BY <2>2, <2>3
<1>7. ASSUME ConnectOnLoop \/ ConnectReturns \/ JwtAges PROVE Goal
  <2>1. CASE ConnectOnLoop \/ ConnectReturns
    BY <2>1 DEF ConnectOnLoop, ConnectReturns, JwtTypeOK
  <2>2. CASE JwtAges
    <3>1. jwt.near + 1 \in 0 .. MaxJwts
      BY <2>2 DEF JwtAges, JwtTypeOK
    <3> QED BY <2>2, <3>1 DEF JwtAges, JwtTypeOK
  <2> QED BY <1>7, <2>1, <2>2
<1>8. ASSUME UNCHANGED jwtVars PROVE Goal
  BY <1>8 DEF jwtVars, JwtTypeOK
<1> QED
  BY <1>1, <1>2, <1>3, <1>4, <1>5, <1>6, <1>7, <1>8 DEF JwtNext, CoroutineStep

\* A forced refresh that sets out is one more, and adds a reason of its own; one that
\* reaches the lock is one less, and becomes a login under way.
LEMMA ReasonsStep ==
    ASSUME JwtInv, [JwtNext]_jwtVars
    PROVE  ReasonsInv'
<1>0. /\ IsFiniteSet(Forced) /\ Cardinality(Forced) \in Nat
      /\ jwt.issued \in Nat /\ jwt.near \in Nat /\ jwt.forced \in Nat /\ jwt.cached = jwt.issued
      /\ LoginsUnderWay \in {0, 1} /\ JwtTypeOK /\ LockInv /\ Nobody \notin Callers
  BY ForcedFinite, CallersAssumption, JwtBoundAssumption
     DEF JwtInv, JwtTypeOK, LoginsUnderWay, Callers
<1>1. ASSUME NEW c \in Callers, GetJwtToken(c) PROVE ReasonsInv'
  <2>1. CASE Coroutine(c, "lock") /\ UNCHANGED jwt
    <3>1. Forced' = Forced
      BY <1>0, <1>1, <2>1, ForcedKept DEF GetJwtToken
    <3> QED BY <2>1, <3>1 DEF JwtInv, ReasonsInv, LoginsUnderWay
  <2>2. CASE Coroutine(c, "forced") /\ jwt' = [jwt EXCEPT !.forced = @ + 1]
    <3>1. c \notin Forced /\ Forced' = Forced \cup {c}
      BY <1>0, <1>1, <2>2, CoroutineTyped DEF GetJwtToken, Forced
    <3>2. Cardinality(Forced') = Cardinality(Forced) + 1
      BY <1>0, <3>1, FS_AddElement
    <3>3. /\ jwt'.forced = jwt.forced + 1 /\ jwt'.issued = jwt.issued
          /\ jwt'.near = jwt.near /\ jwt'.lock = jwt.lock
      BY <1>0, <2>2 DEF JwtTypeOK
    <3> QED BY <1>0, <3>2, <3>3 DEF JwtInv, ReasonsInv, LoginsUnderWay
  <2> QED BY <1>1, <2>1, <2>2 DEF GetJwtToken
<1>2. ASSUME NEW c \in Callers, ProviderCalled(c) PROVE ReasonsInv'
  <2>1. Forced' = Forced /\ jwt' = jwt
    BY <1>0, <1>2 DEF ProviderCalled, JwtTypeOK, Forced
  <2> QED BY <2>1 DEF JwtInv, ReasonsInv, LoginsUnderWay
<1>3. ASSUME NEW c \in Callers, ProviderTimesOut(c) PROVE ReasonsInv'
  <2>1. Forced' = Forced /\ jwt' = jwt
    BY <1>0, <1>3 DEF ProviderTimesOut, JwtTypeOK, Forced
  <2> QED BY <2>1 DEF JwtInv, ReasonsInv, LoginsUnderWay
<1>4. ASSUME NEW c \in Callers, TakeLock(c) PROVE ReasonsInv'
  <2>1. CASE jwtPc[c].at = "lock" /\ Fresh
    <3>1. Forced' = Forced /\ jwt' = jwt
      BY <1>0, <1>4, <2>1, ForcedKept DEF TakeLock
    <3> QED BY <3>1 DEF JwtInv, ReasonsInv, LoginsUnderWay
  <2>2. CASE jwtPc[c].at = "lock" /\ ~Fresh
    <3>1. Forced' = Forced
      BY <1>0, <1>4, <2>2, ForcedKept DEF TakeLock
    <3>2. /\ jwt'.forced = jwt.forced /\ jwt'.issued = jwt.issued /\ jwt'.near = jwt.near
          /\ LoginsUnderWay' = 1 /\ LoginsUnderWay = 0
      BY <1>0, <1>4, <2>2 DEF TakeLock, JwtTypeOK, LoginsUnderWay
    <3>3. jwt.issued <= jwt.near
      BY <1>0, <2>2 DEF Fresh
    <3> QED BY <1>0, <3>1, <3>2, <3>3 DEF JwtInv, ReasonsInv
  <2>3. CASE jwtPc[c].at = "forced"
    <3>1. c \in Forced /\ Forced' = Forced \ {c}
      BY <1>0, <1>4, <2>3, CoroutineTyped DEF TakeLock, Forced
    <3>2. Cardinality(Forced') = Cardinality(Forced) - 1
      BY <1>0, <3>1, FS_RemoveElement
    <3>3. /\ jwt'.forced = jwt.forced /\ jwt'.issued = jwt.issued /\ jwt'.near = jwt.near
          /\ LoginsUnderWay' = 1 /\ LoginsUnderWay = 0
      BY <1>0, <1>4, <2>3 DEF TakeLock, JwtTypeOK, LoginsUnderWay
    <3> QED BY <1>0, <3>2, <3>3 DEF JwtInv, ReasonsInv
  <2> QED BY <1>4, <2>1, <2>2, <2>3 DEF TakeLock
<1>5. ASSUME NEW c \in Callers, LoginReturns(c) PROVE ReasonsInv'
  <2>1. Forced' = Forced
    BY <1>0, <1>5, ForcedKept DEF LoginReturns
  <2>2. /\ jwt'.forced = jwt.forced /\ jwt'.issued = jwt.issued + 1 /\ jwt'.near = jwt.near
        /\ LoginsUnderWay' = 0 /\ LoginsUnderWay = 1
    BY <1>0, <1>5 DEF LoginReturns, JwtTypeOK, LoginsUnderWay, LockInv
  <2> QED BY <1>0, <2>1, <2>2 DEF JwtInv, ReasonsInv
<1>6. ASSUME NEW c \in Callers, LoginFails(c) PROVE ReasonsInv'
  <2>1. Forced' = Forced
    BY <1>0, <1>6, ForcedKept DEF LoginFails
  <2>2. /\ jwt'.forced = jwt.forced /\ jwt'.issued = jwt.issued /\ jwt'.near = jwt.near
        /\ LoginsUnderWay' = 0
    BY <1>0, <1>6 DEF LoginFails, JwtTypeOK, LoginsUnderWay
  <2> QED BY <1>0, <2>1, <2>2 DEF JwtInv, ReasonsInv
<1>7. ASSUME ConnectOnLoop \/ ConnectReturns \/ JwtAges PROVE ReasonsInv'
  <2>1. Forced' = Forced
    BY <1>7 DEF ConnectOnLoop, ConnectReturns, JwtAges, Forced
  <2>2. /\ jwt'.forced = jwt.forced /\ jwt'.issued = jwt.issued /\ jwt'.lock = jwt.lock
        /\ jwt'.near \in {jwt.near, jwt.near + 1}
    BY <1>0, <1>7 DEF ConnectOnLoop, ConnectReturns, JwtAges, JwtTypeOK
  <2> QED BY <1>0, <2>1, <2>2 DEF JwtInv, ReasonsInv, LoginsUnderWay
<1>8. ASSUME UNCHANGED jwtVars PROVE ReasonsInv'
  BY <1>8 DEF jwtVars, JwtInv, ReasonsInv, LoginsUnderWay, Forced
<1> QED
  BY <1>1, <1>2, <1>3, <1>4, <1>5, <1>6, <1>7, <1>8 DEF JwtNext, CoroutineStep

\* The initial state satisfies the invariant.
LEMMA InitJwtInv ==
    ASSUME JwtInit
    PROVE  JwtInv
<1>1. Forced = {}
  BY DEF JwtInit, Forced
<1>2. Cardinality(Forced) = 0
  BY <1>1, FS_EmptySet
<1>3. ReasonsInv
  BY <1>2 DEF JwtInit, ReasonsInv, LoginsUnderWay
<1> QED
  BY <1>3, CallersAssumption, JwtBoundAssumption
     DEF JwtInit, JwtInv, JwtTypeOK, LockInv, Callers

\* Whoever asks for a token and whenever - tasks, reconnects on timer threads, forced
\* refreshes - logins are shared: there are no more than reasons for one
\* (get_jwt_token decides under _jwt_lock).
THEOREM LoginsAreSharedHolds ==
    JwtSpec => []LoginsAreShared
<1>1. JwtInit => JwtInv
  BY InitJwtInv
<1>2. JwtInv /\ [JwtNext]_jwtVars => JwtInv'
  BY TypedStep, ReasonsStep DEF JwtInv
<1>3. JwtInv => LoginsAreShared
  <2> SUFFICES ASSUME JwtInv PROVE LoginsAreShared
    OBVIOUS
  <2>1. Cardinality(Forced) \in Nat /\ LoginsUnderWay \in Nat
    BY ForcedFinite DEF LoginsUnderWay
  <2>2. jwt.issued \in Nat /\ jwt.near \in Nat /\ jwt.forced \in Nat
    BY JwtBoundAssumption DEF JwtInv, JwtTypeOK
  <2> QED BY <2>1, <2>2 DEF JwtInv, ReasonsInv, LoginsAreShared
<1> QED BY <1>1, <1>2, <1>3, PTL DEF JwtSpec
=============================================================================

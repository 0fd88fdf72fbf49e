--------------------------- MODULE TokenLockProofs ---------------------------
(***************************************************************************)
(* Proofs about TokenLock, for any number of callers, of clears, and any   *)
(* times.                                                                  *)
(***************************************************************************)
EXTENDS TokenLock, FiniteSetTheorems, TLAPS

-------------------------------------------------------------------------------
(* Types and promises.                                                       *)

\* Every step of the token cache keeps the types.
LEMMA TypesStep ==
  ASSUME TokenTypeOK, [TokenNext]_tokenVars
  PROVE  TokenTypeOK'
<1> USE CallersAssumption, TimesAssumption DEF TokenTypeOK, Lives
<1>1. ASSUME NEW c \in Callers, UseCached(c) PROVE TokenTypeOK'
  <2>1. tokenCache.token \in Lives
    BY <1>1 DEF UseCached, IsTokenExpired
  <2> QED
    BY <1>1, <2>1 DEF UseCached
<1>2. ASSUME NEW c \in Callers, AwaitRefresh(c) PROVE TokenTypeOK'
  BY <1>2 DEF AwaitRefresh
<1>3. ASSUME NEW c \in Callers, StartRefresh(c) PROVE TokenTypeOK'
  BY <1>3 DEF StartRefresh
<1>4. ASSUME NEW c \in Callers, Issue(c) PROVE TokenTypeOK'
  BY <1>4 DEF Issue
<1>5. ASSUME NEW c \in Callers, NEW r \in Lives \cup {None}, Settle(c, r),
             tokenCache' \in [token : Lives, left : 0 .. TTL] \cup {None}
      PROVE  TokenTypeOK'
  BY <1>5 DEF Settle
<1>6. ASSUME NEW c \in Callers, RefreshSucceeds(c) PROVE TokenTypeOK'
  BY <1>5, <1>6 DEF RefreshSucceeds
<1>7. ASSUME NEW c \in Callers, RefreshFails(c) PROVE TokenTypeOK'
  BY <1>5, <1>7 DEF RefreshFails
<1>8. ASSUME NEW c \in Callers, Return(c) PROVE TokenTypeOK'
  BY <1>8 DEF Return
<1>9. CASE ClearTokenCache
  BY <1>9 DEF ClearTokenCache
<1>10. CASE Tick
  <2>1. \A t \in Lives : Older(t) \in Lives
    BY DEF Older
  <2>2. tokenCache' \in [token : Lives, left : 0 .. TTL] \cup {None}
    BY <1>10, <2>1 DEF Tick
  <2>3. issued' \in [Callers -> Lives \cup {None}]
    BY <1>10, <2>1 DEF Tick
  <2> QED
    BY <1>10, <2>2, <2>3 DEF Tick
<1>11. CASE UNCHANGED tokenVars
  BY <1>11 DEF tokenVars
<1> QED
  BY <1>1, <1>2, <1>3, <1>4, <1>6, <1>7, <1>8, <1>9, <1>10, <1>11
  DEF TokenNext, CallerStep, GetAccessToken

\* The end of a refresh leaves nobody waiting for it, and everybody who waits for
\* another refresh waits for one in progress.
LEMMA SettleKeepsPromises ==
  ASSUME TokenTypeOK, NobodyWaitsInVain, NEW c \in Callers, NEW r, Settle(c, r),
         pc[c] = "refreshing"
  PROVE  NobodyWaitsInVain'
<1>1. tokenRefreshPromise' = None
  BY DEF Settle
<1>2. ASSUME NEW d \in Callers, pc'[d] = "waiting" PROVE awaits'[d] \in Refreshing'
  <2>1. d \notin Sharing(c) /\ pc[d] = "waiting" /\ awaits'[d] = awaits[d]
    BY <1>2 DEF Settle
  <2>2. awaits[d] # c /\ awaits[d] \in Refreshing
    BY <2>1 DEF Sharing, NobodyWaitsInVain
  <2>3. awaits[d] \in Callers /\ awaits[d] \notin Sharing(c)
    BY <2>2 DEF Sharing, Refreshing
  <2>4. pc'[awaits[d]] = "refreshing"
    BY <2>2, <2>3 DEF Settle, Refreshing
  <2> QED
    BY <2>1, <2>3, <2>4 DEF Refreshing
<1> QED
  BY <1>1, <1>2 DEF NobodyWaitsInVain

\* Every step keeps promises and those who await them together.
LEMMA PromisesStep ==
  ASSUME TokenTypeOK, NobodyWaitsInVain, [TokenNext]_tokenVars
  PROVE  NobodyWaitsInVain'
<1>1. ASSUME NEW c \in Callers, pc[c] # "refreshing", NEW where, where # "refreshing",
             pc' = [pc EXCEPT ![c] = where]
      PROVE  Refreshing' = Refreshing
  BY <1>1 DEF Refreshing, TokenTypeOK
<1>2. ASSUME NEW c \in Callers, UseCached(c) PROVE NobodyWaitsInVain'
  <2>1. Refreshing' = Refreshing
    BY <1>1, <1>2 DEF UseCached
  <2> QED
    BY <1>2, <2>1 DEF UseCached, NobodyWaitsInVain, TokenTypeOK
<1>3. ASSUME NEW c \in Callers, AwaitRefresh(c) PROVE NobodyWaitsInVain'
  <2>1. Refreshing' = Refreshing /\ tokenRefreshPromise \in Refreshing
    BY <1>1, <1>3 DEF AwaitRefresh, RefreshInProgress, NobodyWaitsInVain
  <2> QED
    BY <1>3, <2>1 DEF AwaitRefresh, NobodyWaitsInVain, TokenTypeOK
<1>4. ASSUME NEW c \in Callers, StartRefresh(c) PROVE NobodyWaitsInVain'
  <2>1. Refreshing' = Refreshing \cup {c}
    BY <1>4 DEF StartRefresh, Refreshing, TokenTypeOK
  <2> QED
    BY <1>4, <2>1 DEF StartRefresh, NobodyWaitsInVain, TokenTypeOK
<1>5. ASSUME NEW c \in Callers, Issue(c) PROVE NobodyWaitsInVain'
  BY <1>5 DEF Issue, NobodyWaitsInVain, Refreshing
<1>6. ASSUME NEW c \in Callers, RefreshSucceeds(c) \/ RefreshFails(c)
      PROVE  NobodyWaitsInVain'
  BY <1>6, SettleKeepsPromises DEF RefreshSucceeds, RefreshFails
<1>7. ASSUME NEW c \in Callers, Return(c) PROVE NobodyWaitsInVain'
  <2>1. Refreshing' = Refreshing
    BY <1>1, <1>7 DEF Return
  <2> QED
    BY <1>7, <2>1 DEF Return, NobodyWaitsInVain, TokenTypeOK
<1>8. CASE ClearTokenCache
  BY <1>8 DEF ClearTokenCache, NobodyWaitsInVain, Refreshing
<1>9. CASE Tick
  BY <1>9 DEF Tick, NobodyWaitsInVain, Refreshing
<1>10. CASE UNCHANGED tokenVars
  BY <1>10 DEF tokenVars, NobodyWaitsInVain, Refreshing
<1> QED
  BY <1>2, <1>3, <1>4, <1>5, <1>6, <1>7, <1>8, <1>9, <1>10
  DEF TokenNext, CallerStep, GetAccessToken

-------------------------------------------------------------------------------
(* How many refreshes.                                                       *)

\* The refreshes whose promise was dropped: by clearTokenCache(), or by the finally
\* of a refresh that was dropped before.
Dropped == Refreshing \ {tokenRefreshPromise}

RefreshInv == Cardinality(Dropped) <= clears

\* The dropped refreshes are finite in number, and one more than them is all.
LEMMA DroppedFinite ==
  ASSUME TokenTypeOK
  PROVE  /\ IsFiniteSet(Refreshing) /\ IsFiniteSet(Dropped)
         /\ Cardinality(Refreshing) \in Nat /\ Cardinality(Dropped) \in Nat
         /\ Cardinality(Refreshing) <= Cardinality(Dropped) + 1
         /\ tokenRefreshPromise \in Refreshing =>
              Cardinality(Refreshing) = Cardinality(Dropped) + 1
<1>1. IsFiniteSet(Refreshing)
  <2>1. Refreshing \in SUBSET Callers
    BY DEF Refreshing
  <2> QED
    BY <2>1, FS_Subset, CallersAssumption
<1>2. /\ IsFiniteSet(Dropped)
      /\ Cardinality(Dropped) = IF tokenRefreshPromise \in Refreshing
                                  THEN Cardinality(Refreshing) - 1
                                  ELSE Cardinality(Refreshing)
  BY <1>1, FS_RemoveElement DEF Dropped
<1>3. Cardinality(Refreshing) \in Nat /\ Cardinality(Dropped) \in Nat
  BY <1>1, <1>2, FS_CardinalityType
<1> QED
  BY <1>1, <1>2, <1>3

\* When the refresh of c ends, no more refreshes are left than had been dropped.
LEMMA SettleKeepsCount ==
  ASSUME TokenTypeOK, TokenTypeOK', NobodyWaitsInVain, RefreshInv,
         NEW c \in Callers, NEW r, Settle(c, r), pc[c] = "refreshing"
  PROVE  RefreshInv'
<1>1. Refreshing' = Refreshing \ {c} /\ c \in Refreshing
  BY DEF Settle, Sharing, Refreshing, TokenTypeOK
<1>2. Dropped' = Refreshing'
  BY CallersAssumption DEF Dropped, Settle, Refreshing
<1>3. Cardinality(Refreshing') = Cardinality(Refreshing) - 1
  BY <1>1, DroppedFinite, FS_RemoveElement
<1>4. Cardinality(Refreshing) - 1 <= Cardinality(Dropped)
  BY DroppedFinite
<1>5. clears' = clears /\ clears \in Nat
  BY DEF Settle, TokenTypeOK
<1> QED
  BY <1>2, <1>3, <1>4, <1>5, DroppedFinite DEF RefreshInv

\* Every step keeps the number of dropped refreshes below the number of clears.
LEMMA CountStep ==
  ASSUME TokenTypeOK, TokenTypeOK', NobodyWaitsInVain, RefreshInv, [TokenNext]_tokenVars
  PROVE  RefreshInv'
<1>1. ASSUME Refreshing' = Refreshing, UNCHANGED <<tokenRefreshPromise, clears>>
      PROVE  RefreshInv'
  BY <1>1 DEF RefreshInv, Dropped
<1>2. ASSUME NEW c \in Callers, UseCached(c) PROVE RefreshInv'
  BY <1>1, <1>2 DEF UseCached, Refreshing, TokenTypeOK
<1>3. ASSUME NEW c \in Callers, AwaitRefresh(c) PROVE RefreshInv'
  BY <1>1, <1>3 DEF AwaitRefresh, Refreshing, TokenTypeOK
<1>4. ASSUME NEW c \in Callers, StartRefresh(c) PROVE RefreshInv'
  <2>1. Refreshing' = Refreshing \cup {c} /\ c \notin Refreshing
    BY <1>4 DEF StartRefresh, Refreshing, TokenTypeOK
  <2>2. tokenRefreshPromise = None /\ tokenRefreshPromise' = c
    BY <1>4 DEF StartRefresh, RefreshInProgress
  <2>3. Dropped' = Dropped
    BY <2>1, <2>2, CallersAssumption DEF Dropped, Refreshing
  <2> QED
    BY <1>4, <2>3 DEF StartRefresh, RefreshInv
<1>5. ASSUME NEW c \in Callers, Issue(c) PROVE RefreshInv'
  BY <1>1, <1>5 DEF Issue, Refreshing
<1>6. ASSUME NEW c \in Callers, RefreshSucceeds(c) \/ RefreshFails(c) PROVE RefreshInv'
  BY <1>6, SettleKeepsCount DEF RefreshSucceeds, RefreshFails
<1>7. ASSUME NEW c \in Callers, Return(c) PROVE RefreshInv'
  BY <1>1, <1>7 DEF Return, Refreshing, TokenTypeOK
<1>8. CASE ClearTokenCache
  <2>1. Refreshing' = Refreshing /\ tokenRefreshPromise' = None
    BY <1>8 DEF ClearTokenCache, Refreshing
  <2>2. Dropped' = Refreshing
    BY <2>1, CallersAssumption DEF Dropped, Refreshing
  <2>3. clears' = clears + 1 /\ clears \in Nat
    BY <1>8 DEF ClearTokenCache, TokenTypeOK
  <2> QED
    BY <2>2, <2>3, DroppedFinite DEF RefreshInv
<1>9. CASE Tick
  BY <1>1, <1>9 DEF Tick, Refreshing
<1>10. CASE UNCHANGED tokenVars
  BY <1>1, <1>10 DEF tokenVars, Refreshing
<1> QED
  BY <1>2, <1>3, <1>4, <1>5, <1>6, <1>7, <1>8, <1>9, <1>10
  DEF TokenNext, CallerStep, GetAccessToken

-------------------------------------------------------------------------------
(* How long a token lasts.                                                   *)

\* The least life of a token that getAccessToken() returns.
Good(t) == t > BUFFER - TIMEOUT \/ t >= TTL - TIMEOUT

\* A token of the cache, on its way, or handed out has lost no more than the time
\* an answer can travel.
LifeInv ==
  /\ tokenCache # None => tokenCache.token >= tokenCache.left - TIMEOUT
  /\ \A c \in Callers : issued[c] # None => issued[c] >= TTL - TIMEOUT
  /\ \A c \in Callers : pc[c] = "done" /\ got[c] # None => Good(got[c])

\* What the end of a refresh hands out is good, if the refresh has a good token.
LEMMA SettleKeepsLife ==
  ASSUME TokenTypeOK, LifeInv, NEW c \in Callers, NEW r, Settle(c, r),
         r # None => Good(r),
         tokenCache' # None => tokenCache'.token >= tokenCache'.left - TIMEOUT
  PROVE  LifeInv'
<1>1. \A d \in Callers : issued'[d] # None => issued'[d] >= TTL - TIMEOUT
  BY DEF Settle, LifeInv, TokenTypeOK
<1>2. \A d \in Callers : pc'[d] = "done" /\ got'[d] # None => Good(got'[d])
  BY DEF Settle, LifeInv, TokenTypeOK
<1> QED
  BY <1>1, <1>2 DEF LifeInv, Good

\* Every step keeps the tokens good.
LEMMA LifeStep ==
  ASSUME TokenTypeOK, LifeInv, [TokenNext]_tokenVars
  PROVE  LifeInv'
<1> USE CallersAssumption, TimesAssumption
<1>1. ASSUME NEW c \in Callers, UseCached(c) PROVE LifeInv'
  <2>1. /\ tokenCache # None /\ tokenCache.left > BUFFER
        /\ tokenCache.token \in Int /\ tokenCache.left \in Int
    BY <1>1 DEF UseCached, IsTokenExpired, TokenTypeOK, Lives
  <2>2. Good(tokenCache.token)
    BY <2>1 DEF LifeInv, Good
  <2>3. \A d \in Callers : pc'[d] = "done" /\ got'[d] # None => Good(got'[d])
    BY <1>1, <2>2 DEF UseCached, LifeInv, TokenTypeOK
  <2> QED
    BY <1>1, <2>3 DEF UseCached, LifeInv, Good
<1>2. ASSUME NEW c \in Callers, AwaitRefresh(c) PROVE LifeInv'
  BY <1>2 DEF AwaitRefresh, LifeInv, TokenTypeOK, Good
<1>3. ASSUME NEW c \in Callers, StartRefresh(c) PROVE LifeInv'
  BY <1>3 DEF StartRefresh, LifeInv, TokenTypeOK, Good
<1>4. ASSUME NEW c \in Callers, Issue(c) PROVE LifeInv'
  <2>1. \A d \in Callers : issued'[d] # None => issued'[d] >= TTL - TIMEOUT
    BY <1>4 DEF Issue, LifeInv, TokenTypeOK
  <2> QED
    BY <1>4, <2>1 DEF Issue, LifeInv, Good
<1>5. ASSUME NEW c \in Callers, RefreshSucceeds(c) PROVE LifeInv'
  <2>1. issued[c] >= TTL - TIMEOUT /\ issued[c] \in Int
    BY <1>5 DEF RefreshSucceeds, LifeInv, TokenTypeOK, Lives
  <2>2. tokenCache'.token >= tokenCache'.left - TIMEOUT
    BY <1>5, <2>1 DEF RefreshSucceeds
  <2> QED
    BY <1>5, <2>1, <2>2, SettleKeepsLife DEF RefreshSucceeds, Good
<1>6. ASSUME NEW c \in Callers, RefreshFails(c) PROVE LifeInv'
  <2>1. tokenCache' # None => tokenCache'.token >= tokenCache'.left - TIMEOUT
    BY <1>6 DEF RefreshFails, LifeInv
  <2> QED
    BY <1>6, <2>1, SettleKeepsLife DEF RefreshFails
<1>7. ASSUME NEW c \in Callers, Return(c) PROVE LifeInv'
  BY <1>7 DEF Return, LifeInv, TokenTypeOK, Good
<1>8. CASE ClearTokenCache
  BY <1>8 DEF ClearTokenCache, LifeInv, Good
<1>9. CASE Tick
  <2>1. tokenCache' # None => tokenCache'.token >= tokenCache'.left - TIMEOUT
    <3>1. ASSUME tokenCache # None
          PROVE  /\ tokenCache.token \in Lives /\ tokenCache.left \in 0 .. TTL
                 /\ tokenCache.token >= tokenCache.left - TIMEOUT
      BY <3>1 DEF LifeInv, TokenTypeOK
    <3> QED
      BY <1>9, <3>1 DEF Tick, Older, Lives
  <2>2. ASSUME NEW c \in Callers, issued'[c] # None PROVE issued'[c] >= TTL - TIMEOUT
    <3>1. issued[c] # None /\ issued[c] \in Int /\ issued[c] > TTL - TIMEOUT
      BY <1>9, <2>2 DEF Tick, TokenTypeOK, Lives
    <3> QED
      BY <1>9, <3>1 DEF Tick, Older
  <2>3. \A c \in Callers : pc'[c] # "done"
    BY <1>9 DEF Tick
  <2> QED
    BY <2>1, <2>2, <2>3 DEF LifeInv
<1>10. CASE UNCHANGED tokenVars
  BY <1>10 DEF tokenVars, LifeInv, Good
<1> QED
  BY <1>1, <1>2, <1>3, <1>4, <1>5, <1>6, <1>7, <1>8, <1>9, <1>10
  DEF TokenNext, CallerStep, GetAccessToken

-------------------------------------------------------------------------------
(* The theorems.                                                             *)

\* The inductive invariant of the token cache.
TokenInv ==
  /\ TokenTypeOK
  /\ NobodyWaitsInVain
  /\ RefreshInv
  /\ LifeInv

\* The inductive invariant holds in every reachable state: types, every promise is
\* that of a refresh in progress, dropped refreshes are at most as many as clears, and
\* no token has lost more than an answer's journey.
THEOREM TokenInvariant == TokenSpec => []TokenInv
<1>1. TokenInit => TokenInv
  <2> SUFFICES ASSUME TokenInit PROVE TokenInv
    OBVIOUS
  <2>1. TokenTypeOK
    BY TimesAssumption DEF TokenInit, TokenTypeOK
  <2>2. Refreshing = {}
    BY DEF TokenInit, Refreshing
  <2>3. NobodyWaitsInVain
    BY DEF TokenInit, NobodyWaitsInVain
  <2>4. RefreshInv
    <3>1. Dropped = {}
      BY <2>2 DEF Dropped
    <3> QED
      BY <3>1, FS_EmptySet DEF RefreshInv, TokenInit
  <2>5. LifeInv
    BY DEF TokenInit, LifeInv
  <2> QED
    BY <2>1, <2>3, <2>4, <2>5 DEF TokenInv
<1>2. TokenInv /\ [TokenNext]_tokenVars => TokenInv'
  BY TypesStep, PromisesStep, CountStep, LifeStep DEF TokenInv
<1> QED
  BY <1>1, <1>2, PTL DEF TokenSpec

\* sfmcAuth.ts: nobody awaits a refresh that has ended, whoever cleared the cache
\* and whichever refresh dropped the promise.
THEOREM PromisesAreKept == TokenSpec => []NobodyWaitsInVain
<1>1. TokenInv => NobodyWaitsInVain
  BY DEF TokenInv
<1> QED
  BY <1>1, TokenInvariant, PTL

\* sfmcAuth.ts, "prevent concurrent refreshes": one refresh at a time, and one more for
\* each call of clearTokenCache().
THEOREM FewRefreshes == TokenSpec => []RefreshesBounded
<1>1. TokenInv => RefreshesBounded
  <2> SUFFICES ASSUME TokenInv PROVE RefreshesBounded
    OBVIOUS
  <2>1. clears \in Nat /\ TokenTypeOK
    BY DEF TokenInv, TokenTypeOK
  <2> QED
    BY <2>1, DroppedFinite DEF TokenInv, RefreshInv, RefreshesBounded
<1> QED
  BY <1>1, TokenInvariant, PTL

\* sfmcAuth.ts: a token that getAccessToken() returns, and one it would return, has
\* lost no more of its life than the journey of an answer takes.
THEOREM TokensAreGood == TokenSpec => []HandedOutInTime
<1>1. TokenInv => HandedOutInTime
  <2> SUFFICES ASSUME TokenInv PROVE HandedOutInTime
    OBVIOUS
  <2>1. ASSUME ~IsTokenExpired PROVE tokenCache.token > BUFFER - TIMEOUT
    <3>1. /\ tokenCache # None /\ tokenCache.left > BUFFER
          /\ tokenCache.token \in Int /\ tokenCache.left \in Int
      BY <2>1, TimesAssumption DEF TokenInv, TokenTypeOK, IsTokenExpired, Lives
    <3> QED
      BY <3>1, TimesAssumption DEF TokenInv, LifeInv
  <2> QED
    BY <2>1 DEF TokenInv, LifeInv, Good, HandedOutInTime
<1> QED
  BY <1>1, TokenInvariant, PTL
==============================================================================

------------------------------ MODULE TokenLock ------------------------------
(***************************************************************************)
(* services/sfmcAuth.ts: the token cache of the TS runtime and the promise *)
(* that lets concurrent callers of getAccessToken() share one refresh.     *)
(*                                                                         *)
(* A refresh is known by the caller that started it.  When its answer      *)
(* comes, the caller and everybody who awaits the same promise go on       *)
(* before any other callback, so that is one step.                         *)
(*                                                                         *)
(* A token is the time SFMC will still take it, so a token issued later    *)
(* has more of it.  The times of the cache are told by Tick.               *)
(***************************************************************************)
EXTENDS Integers, FiniteSets

CONSTANTS Callers,    \* concurrent calls of getAccessToken()
          TTL,        \* expires_in
          BUFFER,     \* config.tokenRefreshBuffer
          TIMEOUT,    \* the longest an answer of the token endpoint can travel
          MAX_CLEARS, \* bound: calls of clearTokenCache()
          None        \* null, or a promise that was rejected

ASSUME CallersAssumption == IsFiniteSet(Callers) /\ None \notin Callers \cup Int
ASSUME TimesAssumption ==
  /\ {TTL, BUFFER, TIMEOUT, MAX_CLEARS} \subseteq Nat
  /\ TIMEOUT < TTL

VARIABLES
  tokenCache,          \* None, or a token and the time to its expiresAt
  tokenRefreshPromise, \* None, or the caller whose refresh it is
  pc,                  \* where each caller is
  awaits,              \* the refresh a waiting caller awaits
  issued,              \* the token on its way to a refresh, once SFMC issued it
  got,                 \* what getAccessToken() returned; None: it threw
  clears               \* history: calls of clearTokenCache()

tokenVars ==
  <<tokenCache, tokenRefreshPromise, pc, awaits, issued, got, clears>>

Refreshing == {c \in Callers : pc[c] = "refreshing"}

\* The life of a token that is no longer followed: dead for TIMEOUT or longer.
Lives == -TIMEOUT .. TTL

TokenTypeOK ==
  /\ tokenCache \in [token : Lives, left : 0 .. TTL] \cup {None}
  /\ tokenRefreshPromise \in Callers \cup {None}
  /\ pc \in [Callers -> {"idle", "refreshing", "waiting", "done"}]
  /\ awaits \in [Callers -> Callers \cup {None}]
  /\ issued \in [Callers -> Lives \cup {None}]
  /\ got \in [Callers -> Lives \cup {None}]
  /\ clears \in 0 .. MAX_CLEARS

TokenInit ==
  /\ tokenCache = None
  /\ tokenRefreshPromise = None
  /\ pc = [c \in Callers |-> "idle"]
  /\ awaits = [c \in Callers |-> None]
  /\ issued = [c \in Callers |-> None]
  /\ got = [c \in Callers |-> None]
  /\ clears = 0

-------------------------------------------------------------------------------
\* A bug to detect: a token of the cache is good whatever its age.
NeverExpires == tokenCache = None

IsTokenExpired == tokenCache # None => tokenCache.left <= BUFFER

\* getAccessToken() finds a good token.
UseCached(c) ==
  /\ pc[c] = "idle"
  /\ ~IsTokenExpired
  /\ pc' = [pc EXCEPT ![c] = "done"]
  /\ got' = [got EXCEPT ![c] = tokenCache.token]
  /\ UNCHANGED <<tokenCache, tokenRefreshPromise, awaits, issued, clears>>

\* A bug to detect: nobody looks for a refresh in progress.
NeverInProgress == FALSE

RefreshInProgress == tokenRefreshPromise # None

\* getAccessToken() joins the refresh in progress.
AwaitRefresh(c) ==
  /\ pc[c] = "idle"
  /\ IsTokenExpired
  /\ RefreshInProgress
  /\ pc' = [pc EXCEPT ![c] = "waiting"]
  /\ awaits' = [awaits EXCEPT ![c] = tokenRefreshPromise]
  /\ UNCHANGED <<tokenCache, tokenRefreshPromise, issued, got, clears>>

\* getAccessToken() starts fetchNewToken().
StartRefresh(c) ==
  /\ pc[c] = "idle"
  /\ IsTokenExpired
  /\ ~RefreshInProgress
  /\ tokenRefreshPromise' = c
  /\ pc' = [pc EXCEPT ![c] = "refreshing"]
  /\ UNCHANGED <<tokenCache, awaits, issued, got, clears>>

GetAccessToken(c) == UseCached(c) \/ AwaitRefresh(c) \/ StartRefresh(c)

\* SFMC issues a token for the refresh of c; the answer is on its way.
Issue(c) ==
  /\ pc[c] = "refreshing"
  /\ issued[c] = None
  /\ issued' = [issued EXCEPT ![c] = TTL]
  /\ UNCHANGED <<tokenCache, tokenRefreshPromise, pc, awaits, got, clears>>

\* A bug to detect: those who wait are not told.
OnlyStarter(c) == {c}

\* Everybody who awaits the refresh of c.
Sharing(c) == {c} \cup {d \in Callers : pc[d] = "waiting" /\ awaits[d] = c}

\* The refresh of c has ended with result r: its finally drops the promise,
\* whichever promise that is by now.
Settle(c, r) ==
  /\ tokenRefreshPromise' = None
  /\ pc' = [d \in Callers |-> IF d \in Sharing(c) THEN "done" ELSE pc[d]]
  /\ got' = [d \in Callers |-> IF d \in Sharing(c) THEN r ELSE got[d]]
  /\ awaits' = [d \in Callers |-> IF d \in Sharing(c) THEN None ELSE awaits[d]]
  /\ issued' = [issued EXCEPT ![c] = None]
  /\ UNCHANGED clears

\* The answer arrives: expiresAt is counted from now.
RefreshSucceeds(c) ==
  /\ pc[c] = "refreshing"
  /\ issued[c] # None
  /\ tokenCache' = [token |-> issued[c], left |-> TTL]
  /\ Settle(c, issued[c])

\* SFMC refuses, or no answer comes in time.
RefreshFails(c) ==
  /\ pc[c] = "refreshing"
  /\ Settle(c, None)
  /\ UNCHANGED tokenCache

\* The caller of getAccessToken() goes on.
Return(c) ==
  /\ pc[c] = "done"
  /\ pc' = [pc EXCEPT ![c] = "idle"]
  /\ got' = [got EXCEPT ![c] = None]
  /\ UNCHANGED <<tokenCache, tokenRefreshPromise, awaits, issued, clears>>

\* POST /admin/clear-cache.
ClearTokenCache ==
  /\ clears < MAX_CLEARS
  /\ clears' = clears + 1
  /\ tokenCache' = None
  /\ tokenRefreshPromise' = None
  /\ UNCHANGED <<pc, awaits, issued, got>>

Older(token) == IF token > -TIMEOUT THEN token - 1 ELSE -TIMEOUT

\* Time passes: not while a caller has something to do, and not beyond the time
\* an answer can be on its way.
Tick ==
  /\ \A c \in Callers : pc[c] # "done"
  /\ \A c \in Callers : issued[c] # None => issued[c] > TTL - TIMEOUT
  /\ tokenCache' = IF tokenCache = None THEN None
                   ELSE [token |-> Older(tokenCache.token),
                         left |-> IF tokenCache.left > 0 THEN tokenCache.left - 1 ELSE 0]
  /\ issued' = [c \in Callers |-> IF issued[c] = None THEN None ELSE Older(issued[c])]
  /\ UNCHANGED <<tokenRefreshPromise, pc, awaits, got, clears>>

CallerStep(c) ==
  \/ GetAccessToken(c)
  \/ Issue(c)
  \/ RefreshSucceeds(c)
  \/ RefreshFails(c)
  \/ Return(c)

TokenNext ==
  \/ \E c \in Callers : CallerStep(c)
  \/ ClearTokenCache
  \/ Tick

TokenSpec == TokenInit /\ [][TokenNext]_tokenVars

-------------------------------------------------------------------------------
\* The promise is that of a refresh in progress, and so is every promise somebody
\* awaits, also one that clearTokenCache() or the finally of an older refresh has
\* dropped: nobody waits for a refresh that has ended.
NobodyWaitsInVain ==
  /\ tokenRefreshPromise # None => tokenRefreshPromise \in Refreshing
  /\ \A c \in Callers : pc[c] = "waiting" => awaits[c] \in Refreshing

\* Each call of clearTokenCache() adds at most one concurrent refresh, although
\* the finally of a dropped refresh drops the promise of the next one in turn;
\* without such calls there is one refresh at a time.
RefreshesBounded == Cardinality(Refreshing) <= clears + 1

\* The cache counts from the arrival of the answer, so SFMC may stop taking a
\* token before the cache does; never by more than the time an answer travels
\* less the buffer, for a token of the cache and for one that is handed out.
HandedOutInTime ==
  /\ ~IsTokenExpired => tokenCache.token > BUFFER - TIMEOUT
  /\ \A c \in Callers :
       pc[c] = "done" /\ got[c] # None =>
         \/ got[c] > BUFFER - TIMEOUT
         \/ got[c] >= TTL - TIMEOUT
==============================================================================

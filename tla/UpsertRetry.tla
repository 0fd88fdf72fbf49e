----------------------------- MODULE UpsertRetry -----------------------------
(***************************************************************************)
(* batchUpsertToSFMC() of lib/sfmc-client.js: a call splits its rows into  *)
(* parts and sends them one after the other, each with an access token     *)
(* from the cache, a slot of the rate limiter (lib/rate-limiter.js), and   *)
(* retries that lib/error-classifier.js decides on.                        *)
(*                                                                         *)
(* The flush of lib/queue.js calls it, one batch at a time (OneFlush of    *)
(* BatchQueue), so there is one caller:                                    *)
(*   idle --> token [--> fetching] --> acquire --> waiting --> posting     *)
(* and from posting to the next part, to backoff and a new attempt, or     *)
(* back to idle.  The administrator may clear the token cache at any time. *)
(*                                                                         *)
(* Time is a set of countdowns, and Tick is one unit of it.                *)
(***************************************************************************)
EXTENDS PayloadValidator, ErrorClassifier, FiniteSets

CONSTANTS Calls,          \* the arrays of rows the queue passes; never an empty one,
                          \*   for which batchUpsertToSFMC() would return at once
          Answers,        \* the answers of SFMC and of the network
          Tokens,         \* access tokens
          None,           \* null
          TOKEN_TTL,      \* expires_in
          MAX_PAUSE,      \* the longest Retry-After
          HEADER_FORMS,   \* forms of Retry-After: "seconds", "date"
          MAX_WAIT,       \* the longest wait for a slot or a bucket token
          MAX_BACKOFF,    \* the longest backoff
          MAX_RETRIES     \* process.env.MAX_RETRIES

ASSUME CallsAssumption ==
  /\ Calls \subseteq Seq(Rows) \ {<<>>}
  /\ Answers \subseteq [status : Nat, code : STRING]
  /\ None \notin Tokens
ASSUME TimesAssumption ==
  /\ {TOKEN_TTL, MAX_BACKOFF, MAX_RETRIES} \subseteq Nat \ {0}
  /\ {MAX_PAUSE, MAX_WAIT} \subseteq Nat
  /\ HEADER_FORMS \subseteq {"seconds", "date"}

VARIABLES
  pc,
  parts, part,        \* validation.batches, batchIndex + 1
  retryCount,
  token,              \* the token of this attempt
  sleepLeft,          \* countdown of the sleep it is in
  outcome,            \* the last call: "none", "running", "ok", "thrown"
  accessToken,        \* the token cache: the token, and the countdown to
  tokenLeft,          \* tokenExpiry
  currentConcurrent,  \* rate limiter: slots in use
  retryAfterLeft,     \* rate limiter: countdown to retryAfterTime
  validTokens,        \* SFMC: the tokens it takes
  inserted,           \* SFMC: rows of the Data Extension
  pauseLeft,          \* history: countdown of the pause SFMC asked for in seconds
  rejected,           \* history: the token SFMC answered 401 or 403 to, if the
                      \*   attempt under way is the retry of that request
  attempts            \* history: requests made for the part

callVars == <<parts, part, retryCount, outcome>>
cacheVars == <<accessToken, tokenLeft>>
limiterVars == <<currentConcurrent, retryAfterLeft>>
sfmcVars == <<validTokens, inserted>>
vars == <<pc, callVars, token, sleepLeft, cacheVars, limiterVars, sfmcVars,
          pauseLeft, rejected, attempts>>

-------------------------------------------------------------------------------
Success == {200, 201, 202}

Init ==
  /\ pc = "idle"
  /\ parts = <<>>
  /\ part = 1
  /\ retryCount = 0
  /\ token = None
  /\ sleepLeft = 0
  /\ outcome = "none"
  /\ accessToken = None
  /\ tokenLeft = 0
  /\ currentConcurrent = 0
  /\ retryAfterLeft = 0
  /\ validTokens = {}
  /\ inserted = {}
  /\ pauseLeft = 0
  /\ rejected = None
  /\ attempts = 0

\* batchUpsertToSFMC(): validateAndSplit(), and the first part, or the error.
Call(rows) ==
  /\ pc = "idle"
  /\ parts' = ValidateAndSplit(rows)
  /\ part' = 1
  /\ retryCount' = 0
  /\ attempts' = 0
  /\ rejected' = None
  /\ IF parts' = <<>>
       THEN pc' = "idle" /\ outcome' = "thrown"
       ELSE pc' = "token" /\ outcome' = "running"
  /\ UNCHANGED <<token, sleepLeft, cacheVars, limiterVars, sfmcVars, pauseLeft>>

\* getAccessToken() finds a token that has not expired.
UseCachedToken ==
  /\ pc = "token"
  /\ accessToken # None
  /\ tokenLeft > 0
  /\ token' = accessToken
  /\ pc' = "acquire"
  /\ UNCHANGED <<callVars, sleepLeft, cacheVars, limiterVars, sfmcVars, pauseLeft,
                 rejected, attempts>>

\* getAccessToken() asks for a token.
RequestToken ==
  /\ pc = "token"
  /\ accessToken = None \/ tokenLeft = 0
  /\ pc' = "fetching"
  /\ UNCHANGED <<callVars, token, sleepLeft, cacheVars, limiterVars, sfmcVars,
                 pauseLeft, rejected, attempts>>

\* SFMC issues t: a token that is valid, or one nobody has seen.
TokenIssued(t) ==
  /\ pc = "fetching"
  /\ t \in validTokens \/ t \notin {accessToken, token, rejected}
  /\ validTokens' = validTokens \cup {t}
  /\ accessToken' = t
  /\ tokenLeft' = TOKEN_TTL
  /\ token' = t
  /\ pc' = "acquire"
  /\ UNCHANGED <<callVars, sleepLeft, limiterVars, inserted, pauseLeft, rejected,
                 attempts>>

\* The token request fails: no retry, the call throws.
TokenRefused ==
  /\ pc = "fetching"
  /\ pc' = "idle"
  /\ outcome' = "thrown"
  /\ UNCHANGED <<parts, part, retryCount, token, sleepLeft, cacheVars, limiterVars,
                 sfmcVars, pauseLeft, rejected, attempts>>

\* A bug to detect: the wait is computed as if there were no Retry-After.
WaitTimesNoPause == 0 .. MAX_WAIT

\* calculateWaitTime(): the rest of the pause, or what the slots and the bucket
\* require.
WaitTimes == IF retryAfterLeft > 0 THEN {retryAfterLeft} ELSE 0 .. MAX_WAIT

\* acquire() up to the sleep of waitIfNeeded().
Acquire ==
  /\ pc = "acquire"
  /\ pc' = "waiting"
  /\ sleepLeft' \in WaitTimes
  /\ UNCHANGED <<callVars, token, cacheVars, limiterVars, sfmcVars, pauseLeft,
                 rejected, attempts>>

\* The rest of acquire(), without a second look at the limits, and the request.
Post ==
  /\ pc = "waiting"
  /\ sleepLeft = 0
  /\ pc' = "posting"
  /\ currentConcurrent' = currentConcurrent + 1
  /\ attempts' = attempts + 1
  /\ UNCHANGED <<callVars, token, sleepLeft, cacheVars, retryAfterLeft, sfmcVars,
                 pauseLeft, rejected>>

\* A bug to detect: the loop over the parts does not advance.
PartDoneAgain ==
  /\ retryCount' = 0
  /\ attempts' = 0
  /\ rejected' = None
  /\ UNCHANGED <<parts, part>>
  /\ IF Len(parts) = 1
       THEN pc' = "idle" /\ outcome' = "ok"
       ELSE pc' = "token" /\ UNCHANGED outcome

\* The part is in the Data Extension: on to the next one, or the call is over.
PartDone ==
  /\ retryCount' = 0
  /\ attempts' = 0
  /\ rejected' = None
  /\ UNCHANGED parts
  /\ IF part = Len(parts)
       THEN pc' = "idle" /\ outcome' = "ok" /\ UNCHANGED part
       ELSE pc' = "token" /\ part' = part + 1 /\ UNCHANGED outcome

\* SFMC answers 200, 201 or 202.
Answered ==
  /\ pc = "posting"
  /\ token \in validTokens
  /\ \E a \in Answers : a.status \in Success
  /\ inserted' = inserted \cup ToSet(parts[part])
  /\ currentConcurrent' = IF currentConcurrent > 0 THEN currentConcurrent - 1 ELSE 0
  /\ PartDone
  /\ UNCHANGED <<token, sleepLeft, cacheVars, retryAfterLeft, validTokens,
                 pauseLeft>>

\* A bug to detect: release() does not stop at 0 ...
ReleaseUnclamped(n) == currentConcurrent - n

\* n calls of release().
Release(n) == IF currentConcurrent > n THEN currentConcurrent - n ELSE 0

\* The errors a request may end with: 401 is for a token SFMC does not take.
MayFail(a) ==
  /\ a.status \notin Success
  /\ a.status = 401 => token \notin validTokens

\* SFMC may have taken the rows if there is no answer, an unexpected 2xx or a 5xx.
MayHaveInserted(a) == a.status \notin 300 .. 499

\* A bug to detect: the retry forgets how many there were ...
RetryCountKept == retryCount

\* ... and the count the retry is made with.
NextRetryCount == retryCount + 1

\* A bug to detect: a part that failed for good is passed over.
GiveUpOnPart(a) ==
  IF part = Len(parts)
    THEN pc' = "idle" /\ outcome' = "ok" /\ UNCHANGED <<part, retryCount, attempts>>
    ELSE /\ pc' = "token"
         /\ part' = part + 1
         /\ retryCount' = 0
         /\ attempts' = 0
         /\ UNCHANGED outcome

\* The last attempt failed: batchUpsertToSFMC() throws, the parts that follow are
\* not sent.
GiveUp(a) ==
  /\ pc' = "idle"
  /\ outcome' = "thrown"
  /\ UNCHANGED <<part, retryCount, attempts>>

\* parseInt(retry-after): a date gives NaN, which release() passes over.  The
\* limiter has a function that says "Can be seconds or HTTP date"
\* (lib/rate-limiter.js), but it too uses parseInt(), and is not called here.
ParseRetryAfter(pause, form) == IF form = "seconds" THEN pause ELSE 0

\* The catch block of batchUpsertWithRetry(), for answer a with a Retry-After of
\* pause units (0: no header).  release() runs a second time when there is a
\* Retry-After, and has run before for a 2xx the code does not know.
Failed(a, pause, form) ==
  /\ pc = "posting"
  /\ MayFail(a)
  /\ pause > 0 => a.status >= 300
  /\ inserted' \in IF MayHaveInserted(a)
                     THEN {inserted, inserted \cup ToSet(parts[part])}
                     ELSE {inserted}
  /\ LET parsed == ParseRetryAfter(pause, form)
         again  == (pause > 0) \/ (a.status \in 200 .. 299)
         cause  == IF a.status \in 200 .. 299 THEN [status |-> 0, code |-> NoCode] ELSE a
     IN  /\ retryAfterLeft' = IF parsed > 0 THEN parsed ELSE retryAfterLeft
         /\ currentConcurrent' = Release(IF again THEN 2 ELSE 1)
         /\ pauseLeft' = IF pause > 0 /\ form = "seconds" THEN pause ELSE pauseLeft
         /\ IF ShouldRetry(cause, retryCount) /\ retryCount < MAX_RETRIES
              THEN /\ pc' = "backoff"
                   /\ sleepLeft' \in 1 .. MAX_BACKOFF
                   /\ rejected' = IF ClassifyError(cause) = "AUTH_ERROR"
                                    THEN token ELSE None
                   /\ UNCHANGED <<part, retryCount, outcome, attempts>>
              ELSE /\ GiveUp(cause)
                   /\ rejected' = None
                   /\ UNCHANGED sleepLeft
  /\ UNCHANGED <<parts, token, cacheVars, validTokens>>

\* The backoff is over: batchUpsertWithRetry() calls itself.  After an auth error
\* it names clearTokenCache() and does not call it.
Retry ==
  /\ pc = "backoff"
  /\ sleepLeft = 0
  /\ pc' = "token"
  /\ retryCount' = NextRetryCount
  /\ UNCHANGED <<parts, part, outcome, token, sleepLeft, cacheVars, limiterVars,
                 sfmcVars, pauseLeft, rejected, attempts>>

\* POST /admin/clear-cache calls clearTokenCache().
ClearTokenCache ==
  /\ accessToken # None
  /\ accessToken' = None
  /\ tokenLeft' = 0
  /\ UNCHANGED <<pc, callVars, token, sleepLeft, limiterVars, sfmcVars, pauseLeft,
                 rejected, attempts>>

\* SFMC stops taking a token: it expired there, or was revoked.
TokenDies(t) ==
  /\ t \in validTokens
  /\ validTokens' = validTokens \ {t}
  /\ UNCHANGED <<pc, callVars, token, sleepLeft, cacheVars, limiterVars, inserted,
                 pauseLeft, rejected, attempts>>

Elapse(n) == IF n > 0 THEN n - 1 ELSE 0

Tick ==
  /\ sleepLeft + tokenLeft + retryAfterLeft + pauseLeft > 0
  /\ sleepLeft' = Elapse(sleepLeft)
  /\ tokenLeft' = Elapse(tokenLeft)
  /\ retryAfterLeft' = Elapse(retryAfterLeft)
  /\ pauseLeft' = Elapse(pauseLeft)
  /\ UNCHANGED <<pc, callVars, token, accessToken, currentConcurrent, sfmcVars,
                 rejected, attempts>>

Token == UseCachedToken \/ RequestToken
Fetched == TokenRefused \/ \E t \in Tokens : TokenIssued(t)
Failure == \E a \in Answers, pause \in 0 .. MAX_PAUSE, form \in HEADER_FORMS :
             Failed(a, pause, form)

Next ==
  \/ \E rows \in Calls : Call(rows)
  \/ Token
  \/ Fetched
  \/ Acquire
  \/ Post
  \/ Answered
  \/ Failure
  \/ Retry
  \/ ClearTokenCache
  \/ \E t \in Tokens : TokenDies(t)
  \/ Tick

Spec == Init /\ [][Next]_vars

\* Timers fire, the event loop goes on, and axios ends every request within its
\* timeout one way or the other.
Progress ==
  /\ WF_vars(Tick)
  /\ WF_vars(Token)
  /\ WF_vars(Fetched)
  /\ WF_vars(Acquire)
  /\ WF_vars(Post)
  /\ WF_vars(Answered \/ Failure)
  /\ WF_vars(Retry)

FairSpec == Spec /\ Progress

-------------------------------------------------------------------------------
(* Properties.                                                               *)

\* Type invariant of the module's state.
TypeOK ==
  /\ pc \in {"idle", "token", "fetching", "acquire", "waiting", "posting", "backoff"}
  /\ parts \in Seq(Seq(Rows))
  /\ part \in Nat \ {0}
  /\ retryCount \in 0 .. MAX_RETRIES
  /\ token \in Tokens \cup {None}
  /\ sleepLeft \in Nat
  /\ outcome \in {"none", "running", "ok", "thrown"}
  /\ accessToken \in Tokens \cup {None}
  /\ tokenLeft \in 0 .. TOKEN_TTL
  /\ currentConcurrent \in Nat
  /\ retryAfterLeft \in 0 .. MAX_PAUSE
  /\ validTokens \subseteq Tokens
  /\ inserted \subseteq Rows
  /\ pauseLeft \in 0 .. MAX_PAUSE
  /\ rejected \in Tokens \cup {None}
  /\ attempts \in Nat

\* The limiter counts the requests in flight: the second release() of a 429 with
\* a Retry-After, or of an unexpected 2xx, frees no slot that was not taken.
SlotsAreRequests == currentConcurrent = IF pc = "posting" THEN 1 ELSE 0

\* A part is sent MAX_RETRIES + 1 times at most, however errors of different
\* types, each with a limit of its own, alternate.
BoundedAttempts == attempts <= MAX_RETRIES + 1

\* A call that returns has all of its rows in the Data Extension: the queue drops
\* a batch on this word.
OkMeansInserted ==
  outcome = "ok" => \A k \in DOMAIN parts : ToSet(parts[k]) \subseteq inserted

\* splitIntoBatches() puts every row of the call in one part, in order.
PartsAreTheRows ==
  [][\A rows \in Calls :
       Call(rows) => parts' = <<>> \/ FlattenSeq(parts') = rows]_vars

\* A call is refused without a request only for a record over the limit of one
\* record: whatever the number and the sizes of the others, splitting finds parts
\* that pass validateBatch().
RefusedForLargeRecord ==
  [][\A rows \in Calls :
       Call(rows) /\ parts' = <<>>
         => \E k \in DOMAIN rows : SizeOf[rows[k]] > RECORD_SIZE]_vars

\* "Respects Retry-After headers" (lib/rate-limiter.js), for a header in seconds:
\* while the pause that SFMC asked for lasts, no request is sent to it, also if an
\* answer with a date, which the code takes for no pause, comes in between.
RetryAfterRespected == [][Post => pauseLeft = 0]_vars

\* A request that SFMC refused as invalid (400, 404, 422 and other 4xx) is not
\* sent again by the call.
RefusedIsFinal ==
  [][\A a \in Answers :
       /\ Failed(a, 0, "seconds")
       /\ a.status \in (400 .. 499) \ {401, 403, 429}
       => pc' = "idle"]_vars

\* "Auth error - will refresh token and retry once" (lib/error-classifier.js): the
\* retry after SFMC refused a token carries another one.
AuthRetryRefreshes == pc = "posting" /\ rejected # None => token # rejected

\* Every call ends, whatever SFMC answers.
CallsEnd == outcome = "running" ~> outcome # "running"
===============================================================================

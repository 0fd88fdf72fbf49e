-------------------------- MODULE UpsertRetryProofs --------------------------
(***************************************************************************)
(* Proofs about UpsertRetry.  What the parts of a call are is proved in    *)
(* PayloadValidatorProofs.                                                 *)
(***************************************************************************)
EXTENDS UpsertRetry, PayloadValidatorProofs, TLAPS

-------------------------------------------------------------------------------
(* Slots of the rate limiter, and attempts.                                  *)

States == {"idle", "token", "fetching", "acquire", "waiting", "posting", "backoff"}

\* The attempts made for the part are the retry count, plus the one that is under
\* way or has just failed.
AttemptsInv ==
  /\ pc \in States
  /\ retryCount \in 0 .. MAX_RETRIES
  /\ attempts \in Nat
  /\ attempts <= retryCount + 1
  /\ pc \in {"token", "fetching", "acquire", "waiting"} => attempts = retryCount
  /\ pc \in {"posting", "backoff"} => attempts = retryCount + 1
  /\ pc = "backoff" => retryCount < MAX_RETRIES
  /\ SlotsAreRequests

\* A part that is in the Data Extension leaves no attempt behind.
LEMMA PartDoneKeeps ==
  ASSUME PartDone, currentConcurrent' = 0
  PROVE  AttemptsInv'
<1>1. retryCount' = 0 /\ attempts' = 0 /\ pc' \in {"idle", "token"}
  BY DEF PartDone
<1> QED
  BY <1>1, TimesAssumption DEF AttemptsInv, States, SlotsAreRequests

\* A failed request frees its slot, once, and is retried below the limit only.
LEMMA FailedKeeps ==
  ASSUME AttemptsInv, NEW a \in Answers, NEW pause \in Nat, NEW form,
         Failed(a, pause, form)
  PROVE  AttemptsInv'
<1>1. pc = "posting" /\ currentConcurrent = 1 /\ attempts = retryCount + 1
  BY DEF AttemptsInv, SlotsAreRequests, Failed
<1>2. currentConcurrent' = 0
  <2>1. currentConcurrent' \in {Release(1), Release(2)}
    BY DEF Failed
  <2> QED
    BY <1>1, <2>1 DEF Release
<1>3. /\ UNCHANGED <<retryCount, attempts>>
      /\ \/ pc' = "backoff" /\ retryCount < MAX_RETRIES
         \/ pc' = "idle"
  BY DEF Failed, GiveUp
<1> QED
  BY <1>1, <1>2, <1>3 DEF AttemptsInv, States, SlotsAreRequests

\* Every step keeps the count of attempts and of slots.
LEMMA AttemptsStep ==
  ASSUME AttemptsInv, [Next]_vars
  PROVE  AttemptsInv'
<1> USE DEF AttemptsInv, States, SlotsAreRequests
<1>1. ASSUME NEW rows \in Calls, Call(rows) PROVE AttemptsInv'
  <2>1. /\ pc = "idle" /\ pc' \in {"idle", "token"}
        /\ retryCount' = 0 /\ attempts' = 0
        /\ UNCHANGED currentConcurrent
    BY <1>1 DEF Call, limiterVars
  <2> QED
    BY <2>1, TimesAssumption
<1>2. CASE Token
  BY <1>2 DEF Token, UseCachedToken, RequestToken, callVars, limiterVars
<1>3. CASE Fetched
  BY <1>3 DEF Fetched, TokenIssued, TokenRefused, callVars, limiterVars
<1>4. CASE Acquire
  BY <1>4 DEF Acquire, callVars, limiterVars
<1>5. CASE Post
  BY <1>5 DEF Post, callVars
<1>6. CASE Answered
  <2>1. PartDone /\ currentConcurrent' = 0
    BY <1>6 DEF Answered
  <2> QED
    BY <2>1, PartDoneKeeps
<1>7. CASE Failure
  <2>1. PICK a \in Answers, pause \in 0 .. MAX_PAUSE, form \in HEADER_FORMS :
          Failed(a, pause, form)
    BY <1>7 DEF Failure
  <2>2. pause \in Nat
    BY TimesAssumption
  <2> QED
    BY <2>1, <2>2, FailedKeeps
<1>8. CASE Retry
  BY <1>8, TimesAssumption DEF Retry, NextRetryCount, limiterVars
<1>9. CASE ClearTokenCache
  BY <1>9 DEF ClearTokenCache, callVars, limiterVars
<1>10. ASSUME NEW t \in Tokens, TokenDies(t) PROVE AttemptsInv'
  BY <1>10 DEF TokenDies, callVars, limiterVars
<1>11. CASE Tick
  BY <1>11 DEF Tick, callVars
<1>12. CASE UNCHANGED vars
  BY <1>12 DEF vars, callVars, limiterVars
<1> QED
  BY <1>1, <1>2, <1>3, <1>4, <1>5, <1>6, <1>7, <1>8, <1>9, <1>10, <1>11, <1>12
  DEF Next

\* The counts hold in every reachable state.
THEOREM Attempts == Spec => []AttemptsInv
<1>1. Init => AttemptsInv
  BY TimesAssumption DEF Init, AttemptsInv, States, SlotsAreRequests
<1>2. AttemptsInv /\ [Next]_vars => AttemptsInv'
  BY AttemptsStep
<1> QED
  BY <1>1, <1>2, PTL DEF Spec

\* The limiter counts the requests in flight, in spite of the calls of release()
\* that have no slot to free.
THEOREM SlotsCounted == Spec => []SlotsAreRequests
<1>1. AttemptsInv => SlotsAreRequests
  BY DEF AttemptsInv
<1> QED
  BY <1>1, Attempts, PTL

\* No part is sent more than MAX_RETRIES + 1 times, whatever the errors are and
\* in whatever order they come.
THEOREM AttemptsBounded == Spec => []BoundedAttempts
<1>1. AttemptsInv => BoundedAttempts
  BY TimesAssumption DEF AttemptsInv, BoundedAttempts
<1> QED
  BY <1>1, Attempts, PTL

-------------------------------------------------------------------------------
(* Retry-After.                                                              *)

\* The limiter knows of every pause SFMC asked for, and a caller that waits for a
\* slot sleeps for as long as the pause lasts.
PauseInv ==
  /\ {sleepLeft, retryAfterLeft, pauseLeft} \subseteq Nat
  /\ pauseLeft <= retryAfterLeft
  /\ pc = "waiting" => pauseLeft <= sleepLeft

\* A Retry-After in seconds reaches the limiter, which sleeps through it; one with
\* a date changes neither.
LEMMA PauseStep ==
  ASSUME PauseInv, [Next]_vars
  PROVE  PauseInv'
<1> USE DEF PauseInv
<1>1. ASSUME NEW rows \in Calls, Call(rows) PROVE PauseInv'
  <2>1. pc' # "waiting" /\ UNCHANGED <<sleepLeft, retryAfterLeft, pauseLeft>>
    BY <1>1 DEF Call, limiterVars
  <2> QED
    BY <2>1
<1>2. CASE Token
  BY <1>2 DEF Token, UseCachedToken, RequestToken, limiterVars
<1>3. CASE Fetched
  BY <1>3 DEF Fetched, TokenIssued, TokenRefused, limiterVars
<1>4. CASE Acquire
  <2>1. sleepLeft' \in Nat /\ (retryAfterLeft > 0 => sleepLeft' = retryAfterLeft)
    BY <1>4, TimesAssumption DEF Acquire, WaitTimes
  <2> QED
    BY <1>4, <2>1 DEF Acquire, limiterVars
<1>5. CASE Post
  BY <1>5 DEF Post
<1>6. CASE Answered
  <2>1. pc' # "waiting" /\ UNCHANGED <<sleepLeft, retryAfterLeft, pauseLeft>>
    BY <1>6 DEF Answered, PartDone
  <2> QED
    BY <2>1
<1>7. CASE Failure
  <2>1. PICK a \in Answers, pause \in 0 .. MAX_PAUSE, form \in HEADER_FORMS :
          Failed(a, pause, form)
    BY <1>7 DEF Failure
  <2>2. pause \in Nat
    BY TimesAssumption
  <2>3. \/ retryAfterLeft' = pause /\ pauseLeft' = pause
        \/ UNCHANGED <<retryAfterLeft, pauseLeft>>
    BY <2>1, <2>2 DEF Failed, ParseRetryAfter
  <2>4. pc' # "waiting" /\ sleepLeft' \in Nat
    BY <2>1, TimesAssumption DEF Failed, GiveUp
  <2> QED
    BY <2>2, <2>3, <2>4
<1>8. CASE Retry
  BY <1>8 DEF Retry, limiterVars
<1>9. CASE ClearTokenCache
  BY <1>9 DEF ClearTokenCache, limiterVars
<1>10. ASSUME NEW t \in Tokens, TokenDies(t) PROVE PauseInv'
  BY <1>10 DEF TokenDies, limiterVars
<1>11. CASE Tick
  BY <1>11 DEF Tick, Elapse
<1>12. CASE UNCHANGED vars
  BY <1>12 DEF vars, limiterVars
<1> QED
  BY <1>1, <1>2, <1>3, <1>4, <1>5, <1>6, <1>7, <1>8, <1>9, <1>10, <1>11, <1>12
  DEF Next

\* No request is sent while the pause of a Retry-After in seconds lasts, whatever
\* clears caches, expires or fails in the meantime, and whatever headers follow.
THEOREM PauseRespected == Spec => RetryAfterRespected
<1>1. Init => PauseInv
  BY DEF Init, PauseInv
<1>2. PauseInv /\ [Next]_vars => PauseInv'
  BY PauseStep
<1>3. PauseInv /\ [Next]_vars => [Post => pauseLeft = 0]_vars
  BY DEF PauseInv, Post
<1> QED
  BY <1>1, <1>2, <1>3, PTL DEF Spec, RetryAfterRespected

-------------------------------------------------------------------------------
(* Refused requests.                                                         *)

\* No 4xx but 401, 403 and 429 has a strategy that retries.
LEMMA RefusedHasNoRetry ==
  ASSUME NEW a \in Answers, a.status \in (400 .. 499) \ {401, 403, 429},
         NEW n \in Nat
  PROVE  ~ ShouldRetry(a, n)
<1>1. a.status \in Nat
  BY CallsAssumption
<1>2. ClassifyError(a) \in {"VALIDATION_ERROR", "NOT_FOUND", "CLIENT_ERROR"}
  BY <1>1, Z3 DEF ClassifyError
<1>3. StrategyRetries[ClassifyError(a)] = 0
  BY <1>2 DEF StrategyRetries, ERROR_TYPES
<1> QED
  BY <1>3 DEF ShouldRetry

\* A call gives up on a request that SFMC refused as invalid.
THEOREM RefusalIsFinal == Spec => RefusedIsFinal
<1>1. ASSUME AttemptsInv, NEW a \in Answers, Failed(a, 0, "seconds"),
             a.status \in (400 .. 499) \ {401, 403, 429}
      PROVE  pc' = "idle"
  <2>1. a.status \notin 200 .. 299
    BY <1>1
  <2>2. ~ ShouldRetry(a, retryCount)
    BY <1>1, RefusedHasNoRetry DEF AttemptsInv
  <2> QED
    BY <1>1, <2>1, <2>2 DEF Failed, GiveUp
<1>2. AttemptsInv /\ [Next]_vars =>
        [\A a \in Answers :
           /\ Failed(a, 0, "seconds")
           /\ a.status \in (400 .. 499) \ {401, 403, 429}
           => pc' = "idle"]_vars
  BY <1>1
<1> QED
  BY <1>2, Attempts, PTL DEF Spec, RefusedIsFinal

-------------------------------------------------------------------------------
(* The parts of a call.                                                      *)

\* While a call runs it is at one of its parts.
PartInv ==
  pc # "idle" => part \in 1 .. Len(parts) /\ outcome = "running"

\* The types of what the parts, the tokens and the countdowns are; those of pc and
\* of the counts are in AttemptsInv.
PartsType ==
  /\ parts \in Seq(Seq(Rows))
  /\ part \in Nat \ {0}
  /\ outcome \in {"none", "running", "ok", "thrown"}
  /\ inserted \subseteq Rows
TokensType ==
  /\ token \in Tokens \cup {None}
  /\ accessToken \in Tokens \cup {None}
  /\ rejected \in Tokens \cup {None}
  /\ validTokens \subseteq Tokens
TimesType ==
  /\ sleepLeft \in Nat
  /\ tokenLeft \in 0 .. TOKEN_TTL
  /\ retryAfterLeft \in 0 .. MAX_PAUSE
  /\ pauseLeft \in 0 .. MAX_PAUSE

\* A call takes its parts from validateAndSplit().
LEMMA CallParts ==
  ASSUME NEW rows \in Calls, Call(rows)
  PROVE  /\ rows \in Seq(Rows) /\ rows # <<>>
         /\ parts' = ValidateAndSplit(rows) /\ parts' \in Seq(Seq(Rows))
<1>1. rows \in Seq(Rows) /\ rows # <<>>
  BY CallsAssumption
<1>2. parts' = ValidateAndSplit(rows)
  BY DEF Call
<1>3. QED
  BY <1>1, <1>2, PartsOrRefusal

\* The rows of a part are rows.
LEMMA RowsOfPart ==
  ASSUME PartsType, NEW k \in 1 .. Len(parts)
  PROVE  ToSet(parts[k]) \subseteq Rows
<1>1. parts[k] \in Seq(Rows)
  BY DEF PartsType
<1>2. QED
  BY <1>1 DEF ToSet

\* The steps that leave the call alone, or end it.
LEMMA OtherSteps ==
  ASSUME Token \/ Fetched \/ Acquire \/ Post \/ Retry \/ ClearTokenCache
           \/ (\E t \in Tokens : TokenDies(t)) \/ Tick \/ UNCHANGED vars
  PROVE  /\ UNCHANGED <<parts, part, inserted>>
         /\ \/ outcome' = outcome /\ (pc' # "idle" <=> pc # "idle")
            \/ pc # "idle" /\ pc' = "idle" /\ outcome' = "thrown"
<1> USE DEF callVars, sfmcVars
<1>1. CASE Token
  BY <1>1 DEF Token, UseCachedToken, RequestToken
<1>2. CASE Fetched
  BY <1>2 DEF Fetched, TokenIssued, TokenRefused
<1>3. CASE Acquire \/ Post \/ Retry
  BY <1>3 DEF Acquire, Post, Retry
<1>4. CASE ClearTokenCache \/ Tick \/ UNCHANGED vars
  BY <1>4 DEF ClearTokenCache, Tick, vars
<1>5. CASE \E t \in Tokens : TokenDies(t)
  BY <1>5 DEF TokenDies
<1>6. QED
  BY <1>1, <1>2, <1>3, <1>4, <1>5

LEMMA PartsTypeStep ==
  ASSUME PartsType, PartInv, [Next]_vars
  PROVE  PartsType' /\ PartInv'
<1>1. ASSUME NEW rows \in Calls, Call(rows) PROVE PartsType' /\ PartInv'
  <2>1. parts' \in Seq(Seq(Rows)) /\ part' = 1 /\ inserted' = inserted
    BY <1>1, CallParts DEF Call, sfmcVars
  <2>2. \/ pc' = "idle" /\ outcome' = "thrown"
        \/ parts' # <<>> /\ outcome' = "running"
    BY <1>1 DEF Call
  <2>3. parts' # <<>> => 1 \in 1 .. Len(parts')
    BY <2>1
  <2>4. QED
    BY <2>1, <2>2, <2>3 DEF PartsType, PartInv
<1>2. CASE Answered
  <2>1. part \in 1 .. Len(parts) /\ outcome = "running"
    BY <1>2 DEF Answered, PartInv
  <2>2. parts' = parts /\ inserted' = inserted \cup ToSet(parts[part])
    BY <1>2 DEF Answered, PartDone
  <2>3. \/ part = Len(parts) /\ pc' = "idle" /\ outcome' = "ok" /\ part' = part
        \/ part # Len(parts) /\ part' = part + 1 /\ outcome' = outcome
    BY <1>2 DEF Answered, PartDone
  <2>4. inserted' \subseteq Rows
    BY <2>1, <2>2, RowsOfPart DEF PartsType
  <2>5. Len(parts) \in Nat
    BY DEF PartsType
  <2>6. QED
    BY <2>1, <2>2, <2>3, <2>4, <2>5 DEF PartsType, PartInv
<1>3. CASE Failure
  <2>1. PICK a \in Answers, pause \in 0 .. MAX_PAUSE, form \in HEADER_FORMS :
          Failed(a, pause, form)
    BY <1>3 DEF Failure
  <2>2. part \in 1 .. Len(parts) /\ outcome = "running"
    BY <2>1 DEF Failed, PartInv
  <2>3. parts' = parts /\ part' = part
    BY <2>1 DEF Failed, GiveUp
  <2>4. \/ outcome' = outcome
        \/ pc' = "idle" /\ outcome' = "thrown"
    BY <2>1 DEF Failed, GiveUp
  <2>5. inserted' \in {inserted, inserted \cup ToSet(parts[part])}
    BY <2>1 DEF Failed
  <2>6. inserted' \subseteq Rows
    BY <2>2, <2>5, RowsOfPart DEF PartsType
  <2>7. QED
    BY <2>2, <2>3, <2>4, <2>6 DEF PartsType, PartInv
<1>4. CASE Token \/ Fetched \/ Acquire \/ Post \/ Retry \/ ClearTokenCache
             \/ (\E t \in Tokens : TokenDies(t)) \/ Tick \/ UNCHANGED vars
  BY <1>4, OtherSteps DEF PartsType, PartInv
<1>5. QED
  BY <1>1, <1>2, <1>3, <1>4 DEF Next

\* A request carries a token that was issued, or cached.
LEMMA TokensTypeStep ==
  ASSUME TokensType, [Next]_vars
  PROVE  TokensType'
<1> USE DEF TokensType, callVars, cacheVars, limiterVars, sfmcVars
<1>1. ASSUME NEW rows \in Calls, Call(rows) PROVE TokensType'
  <2>1. UNCHANGED <<token, accessToken, validTokens>> /\ rejected' = None
    BY <1>1 DEF Call
  <2>2. QED
    BY <2>1
<1>2. CASE Token
  BY <1>2 DEF Token, UseCachedToken, RequestToken
<1>3. CASE Fetched
  BY <1>3 DEF Fetched, TokenIssued, TokenRefused
<1>4. CASE Acquire \/ Post \/ Retry \/ ClearTokenCache \/ Tick \/ UNCHANGED vars
  BY <1>4 DEF Acquire, Post, Retry, ClearTokenCache, Tick, vars
<1>5. CASE \E t \in Tokens : TokenDies(t)
  BY <1>5 DEF TokenDies
<1>6. CASE Answered
  <2>1. UNCHANGED <<token, accessToken, validTokens>> /\ rejected' = None
    BY <1>6 DEF Answered, PartDone
  <2>2. QED
    BY <2>1
<1>7. CASE Failure
  <2>1. PICK a \in Answers, pause \in 0 .. MAX_PAUSE, form \in HEADER_FORMS :
          Failed(a, pause, form)
    BY <1>7 DEF Failure
  <2>2. UNCHANGED <<token, accessToken, validTokens>> /\ rejected' \in {token, None}
    BY <2>1 DEF Failed
  <2>3. QED
    BY <2>2
<1>8. QED
  BY <1>1, <1>2, <1>3, <1>4, <1>5, <1>6, <1>7 DEF Next

LEMMA TimesTypeStep ==
  ASSUME TimesType, [Next]_vars
  PROVE  TimesType'
<1> USE DEF TimesType, callVars, cacheVars, limiterVars, sfmcVars
<1>0. TOKEN_TTL \in Nat /\ MAX_PAUSE \in Nat /\ MAX_WAIT \in Nat /\ MAX_BACKOFF \in Nat
  BY TimesAssumption
<1>1. ASSUME UNCHANGED <<tokenLeft, retryAfterLeft, pauseLeft>>, sleepLeft' \in Nat
      PROVE  TimesType'
  BY <1>1
<1>2. CASE (\E rows \in Calls : Call(rows)) \/ Token \/ Post \/ Answered \/ Retry
             \/ (\E t \in Tokens : TokenDies(t)) \/ UNCHANGED vars
  <2>1. UNCHANGED <<tokenLeft, retryAfterLeft, pauseLeft, sleepLeft>>
    BY <1>2
    DEF Call, Token, UseCachedToken, RequestToken, Post, Answered, Retry, TokenDies, vars
  <2>2. QED
    BY <1>1, <2>1
<1>3. CASE Fetched \/ ClearTokenCache
  <2>1. UNCHANGED <<retryAfterLeft, pauseLeft, sleepLeft>> /\ tokenLeft' \in {tokenLeft, TOKEN_TTL, 0}
    BY <1>3 DEF Fetched, TokenIssued, TokenRefused, ClearTokenCache
  <2>2. QED
    BY <1>0, <2>1
<1>4. CASE Acquire
  <2>1. sleepLeft' \in Nat
    BY <1>0, <1>4 DEF Acquire, WaitTimes
  <2>2. QED
    BY <1>1, <1>4, <2>1 DEF Acquire
<1>5. CASE Failure
  <2>1. PICK a \in Answers, pause \in 0 .. MAX_PAUSE, form \in HEADER_FORMS :
          Failed(a, pause, form)
    BY <1>5 DEF Failure
  <2>2. ParseRetryAfter(pause, form) \in 0 .. MAX_PAUSE
    BY <1>0 DEF ParseRetryAfter
  <2>3. /\ retryAfterLeft' \in {ParseRetryAfter(pause, form), retryAfterLeft}
        /\ pauseLeft' \in {pause, pauseLeft}
        /\ tokenLeft' = tokenLeft
    BY <2>1 DEF Failed
  <2>4. sleepLeft' \in Nat
    BY <1>0, <2>1 DEF Failed, GiveUp
  <2>5. QED
    BY <2>2, <2>3, <2>4
<1>6. CASE Tick
  BY <1>0, <1>6 DEF Tick, Elapse
<1>7. QED
  BY <1>2, <1>3, <1>4, <1>5, <1>6 DEF Next

\* Every variable keeps its type; what the parts are, for every array of rows, is
\* PartsOrRefusal.
THEOREM UpsertTypeCorrect == Spec => []TypeOK
<1>1. Init => PartsType /\ PartInv /\ TokensType /\ TimesType
  <2>1. SUFFICES ASSUME Init PROVE PartsType /\ PartInv /\ TokensType /\ TimesType
    OBVIOUS
  <2>2. <<>> \in Seq(Seq(Rows)) /\ TOKEN_TTL \in Nat /\ MAX_PAUSE \in Nat
    BY EmptySeq, TimesAssumption
  <2>3. QED
    BY <2>1, <2>2 DEF Init, PartsType, PartInv, TokensType, TimesType
<1>2. PartsType /\ PartInv /\ [Next]_vars => PartsType' /\ PartInv'
  BY PartsTypeStep
<1>3. TokensType /\ [Next]_vars => TokensType'
  BY TokensTypeStep
<1>4. TimesType /\ [Next]_vars => TimesType'
  BY TimesTypeStep
<1>5. PartsType /\ TokensType /\ TimesType /\ AttemptsInv => TypeOK
  BY DEF PartsType, TokensType, TimesType, AttemptsInv, States, SlotsAreRequests, TypeOK
<1>6. QED
  BY <1>1, <1>2, <1>3, <1>4, <1>5, Attempts, PTL DEF Spec

\* The parts before the current one are in the Data Extension.
DoneInv ==
  /\ PartsType /\ PartInv
  /\ pc # "idle" => \A k \in 1 .. part - 1 : ToSet(parts[k]) \subseteq inserted
  /\ OkMeansInserted

LEMMA DoneStep ==
  ASSUME DoneInv, [Next]_vars
  PROVE  DoneInv'
<1>0. PartsType' /\ PartInv'
  BY PartsTypeStep DEF DoneInv
<1>1. ASSUME NEW rows \in Calls, Call(rows) PROVE DoneInv'
  <2>1. part' = 1 /\ outcome' # "ok"
    BY <1>1 DEF Call
  <2>2. QED
    BY <1>0, <2>1 DEF DoneInv, OkMeansInserted
<1>2. CASE Answered
  <2>1. /\ part \in 1 .. Len(parts) /\ outcome = "running"
        /\ \A k \in 1 .. part - 1 : ToSet(parts[k]) \subseteq inserted
        /\ DOMAIN parts = 1 .. Len(parts)
    BY <1>2 DEF Answered, DoneInv, PartInv, PartsType
  <2>2. parts' = parts /\ inserted' = inserted \cup ToSet(parts[part])
    BY <1>2 DEF Answered, PartDone
  <2>3. \A k \in 1 .. part : ToSet(parts[k]) \subseteq inserted'
    <3>1. ASSUME NEW k \in 1 .. part PROVE k = part \/ k \in 1 .. part - 1
      BY <2>1
    <3>2. QED
      BY <2>1, <2>2, <3>1
  <2>4. CASE part = Len(parts)
    <3>1. pc' = "idle"
      BY <1>2, <2>4 DEF Answered, PartDone
    <3>2. QED
      BY <1>0, <2>1, <2>2, <2>3, <2>4, <3>1 DEF DoneInv, OkMeansInserted
  <2>5. CASE part # Len(parts)
    <3>1. part' = part + 1 /\ outcome' = "running"
      BY <1>2, <2>1, <2>5 DEF Answered, PartDone
    <3>2. part \in Int
      BY <2>1
    <3>3. part' = part + 1 /\ outcome' = "running" /\ part' - 1 = part
      BY <3>1, <3>2
    <3>4. QED
      BY <1>0, <2>2, <2>3, <3>3 DEF DoneInv, OkMeansInserted
  <2>6. QED
    BY <2>4, <2>5
<1>3. CASE Failure
  <2>1. PICK a \in Answers, pause \in 0 .. MAX_PAUSE, form \in HEADER_FORMS :
          Failed(a, pause, form)
    BY <1>3 DEF Failure
  <2>2. pc # "idle" /\ parts' = parts /\ part' = part
    BY <2>1 DEF Failed, GiveUp
  <2>3. outcome' # "ok"
    BY <2>1 DEF Failed, GiveUp, DoneInv, PartInv
  <2>4. inserted \subseteq inserted'
    BY <2>1 DEF Failed
  <2>5. QED
    BY <1>0, <2>2, <2>3, <2>4 DEF DoneInv, OkMeansInserted
<1>4. CASE Token \/ Fetched \/ Acquire \/ Post \/ Retry \/ ClearTokenCache
             \/ (\E t \in Tokens : TokenDies(t)) \/ Tick \/ UNCHANGED vars
  BY <1>0, <1>4, OtherSteps DEF DoneInv, OkMeansInserted
<1>5. QED
  BY <1>1, <1>2, <1>3, <1>4 DEF Next

\* A call that returns has inserted all the rows of all its parts, whatever was
\* retried on the way (batchUpsertToSFMC() of lib/sfmc-client.js).
THEOREM OkIsInserted == Spec => []OkMeansInserted
<1>1. Init => DoneInv
  <2>1. SUFFICES ASSUME Init PROVE DoneInv
    OBVIOUS
  <2>2. <<>> \in Seq(Seq(Rows))
    BY EmptySeq
  <2>3. QED
    BY <2>1, <2>2 DEF Init, DoneInv, PartsType, PartInv, OkMeansInserted
<1>2. DoneInv /\ [Next]_vars => DoneInv'
  BY DoneStep
<1>3. DoneInv => OkMeansInserted
  BY DEF DoneInv
<1>4. QED
  BY <1>1, <1>2, <1>3, PTL DEF Spec

\* Every row of a call is in one of the parts it sends, in the order of the call
\* (splitIntoBatches() of lib/payload-validator.js).
THEOREM PartsHaveTheRows == Spec => PartsAreTheRows
<1>1. ASSUME NEW rows \in Calls, Call(rows)
      PROVE  parts' = <<>> \/ FlattenSeq(parts') = rows
  BY <1>1, CallParts, PartsOrRefusal
<1>2. [Next]_vars =>
        [\A rows \in Calls : Call(rows) => parts' = <<>> \/ FlattenSeq(parts') = rows]_vars
  BY <1>1
<1>3. QED
  BY <1>2, PTL DEF Spec, PartsAreTheRows

\* A call is refused without a request only for a record that is too large by
\* itself, whatever its other records are.
THEOREM RefusalsAreForLargeRecords == Spec => RefusedForLargeRecord
<1>1. ASSUME NEW rows \in Calls, Call(rows), parts' = <<>>
      PROVE  \E k \in DOMAIN rows : SizeOf[rows[k]] > RECORD_SIZE
  BY <1>1, CallParts, OnlyLargeRecordsRefused
<1>2. [Next]_vars =>
        [\A rows \in Calls :
           Call(rows) /\ parts' = <<>>
             => \E k \in DOMAIN rows : SizeOf[rows[k]] > RECORD_SIZE]_vars
  BY <1>1
<1>3. QED
  BY <1>2, PTL DEF Spec, RefusedForLargeRecord
===============================================================================

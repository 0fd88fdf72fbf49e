--------------------------- MODULE RestRoutesProofs ---------------------------
(***************************************************************************)
(* Proofs about RestRoutes, for any number of requests and retries: the    *)
(* routes use the token cache as TokenLock says, so its theorems hold here *)
(* too, and what an answer says about the row.                             *)
(***************************************************************************)
EXTENDS RestRoutes, TokenLockProofs

-------------------------------------------------------------------------------
(* The routes implement TokenLock.                                           *)

\* Every step of the routes is a step of the token cache, or leaves it alone.
LEMMA StepIsTokenStep ==
  ASSUME [Next]_vars
  PROVE  [TokenNext]_tokenVars
<1>1. ASSUME NEW c \in Callers, NEW s, Admit(c, s) PROVE [TokenNext]_tokenVars
  BY <1>1 DEF Admit, TokenNext, CallerStep
<1>2. ASSUME NEW c \in Callers, RequestStep(c) PROVE [TokenNext]_tokenVars
  <2>1. CASE TokenThrew(c) \/ Post(c)
    BY <2>1 DEF TokenThrew, Post, TokenNext, CallerStep
  <2>2. CASE PostSucceeds(c) \/ PostThrows(c)
             \/ (\E transient \in BOOLEAN : PostFails(c, transient)) \/ Resend(c)
    BY <2>2 DEF PostSucceeds, PostThrows, PostFails, Resend
  <2> QED
    BY <1>2, <2>1, <2>2 DEF RequestStep
<1>3. CASE TokenStep
  BY <1>3 DEF TokenStep, TokenNext, CallerStep
<1>4. CASE UNCHANGED vars
  BY <1>4 DEF vars
<1> QED
  BY <1>1, <1>2, <1>3, <1>4 DEF Next, ReceiveWebhook, ReceiveEvent

\* The two routes use sfmcAuth.ts as its own specification says: RestRoutes
\* implements TokenLock.
THEOREM RoutesImplementTokenLock == Spec => TokenSpec
<1>1. Init => TokenInit
  BY DEF Init
<1> QED
  BY <1>1, StepIsTokenStep, PTL DEF Spec, TokenSpec

\* Requests of both routes never await a refresh that has ended, cause few refreshes,
\* and send tokens that have lost no more than an answer's journey.
THEOREM RoutesShareTokens ==
  Spec => [](NobodyWaitsInVain /\ RefreshesBounded /\ HandedOutInTime)
  BY RoutesImplementTokenLock, PromisesAreKept, FewRefreshes, TokensAreGood, PTL

-------------------------------------------------------------------------------
(* What an answer says.                                                      *)

\* A request that waits for its backoff has a retry left.
Progress ==
  \A c \in Callers : at[c] = "sleeping" => retryCount[c] < MAX_RETRIES

RequestInv ==
  /\ RequestTypeOK
  /\ Progress
  /\ EventOkWasWritten

\* A request that is not admitted is refused with one of three statuses.
LEMMA Refusals ==
  WebhookRefusals \cup EventRefusals \subseteq {None, 400, 401, 500}
<1>1. ASSUME NEW signature \in Signatures
      PROVE  \/ Authenticate(signature) = None
             \/ Authenticate(signature) = 401
             \/ Authenticate(signature) = 500
  BY DEF Authenticate
<1> QED
  BY <1>1 DEF WebhookRefusals, EventRefusals, RefuseWebhook, RefuseEvent

\* The arrival of a request keeps the invariant: it has no row yet.
LEMMA ArrivalStep ==
  ASSUME RequestInv, NEW c \in Callers, NEW r \in {"event", "webhook"},
         Arrives(c, r), NEW s \in {None, 400, 401, 500}, Admit(c, s)
  PROVE  RequestInv'
<1> USE CallersAssumption, RetriesAssumption DEF RequestInv
<1>1. RequestTypeOK'
  BY DEF RequestTypeOK, Arrives, Admit
<1>2. Progress'
  BY DEF RequestTypeOK, Progress, Arrives, Admit
<1>3. EventOkWasWritten'
  BY DEF RequestTypeOK, EventOkWasWritten, Arrives, Admit
<1> QED
  BY <1>1, <1>2, <1>3

\* The steps of an admitted request keep the invariant.
LEMMA RequestStepKeeps ==
  ASSUME RequestInv, NEW c \in Callers, RequestStep(c)
  PROVE  RequestInv'
<1> USE CallersAssumption, RetriesAssumption DEF RequestInv
<1>1. CASE TokenThrew(c)
  <2> USE <1>1 DEF TokenThrew, Answer
  <2>1. RequestTypeOK'
    BY DEF RequestTypeOK
  <2>2. Progress'
    BY DEF RequestTypeOK, Progress
  <2>3. EventOkWasWritten'
    BY DEF RequestTypeOK, EventOkWasWritten
  <2> QED
    BY <2>1, <2>2, <2>3
<1>2. CASE Post(c) \/ Resend(c)
  <2> USE <1>2 DEF Post, Resend
  <2>1. RequestTypeOK'
    BY DEF RequestTypeOK, Progress
  <2>2. Progress'
    BY DEF RequestTypeOK, Progress
  <2>3. EventOkWasWritten'
    BY DEF RequestTypeOK, EventOkWasWritten
  <2> QED
    BY <2>1, <2>2, <2>3
<1>3. CASE PostSucceeds(c)
  <2> USE <1>3 DEF PostSucceeds, Answer
  <2>1. AnswerFor(c, "OK") = 200
    BY DEF AnswerFor
  <2>2. RequestTypeOK'
    BY <2>1 DEF RequestTypeOK
  <2>3. Progress'
    BY DEF RequestTypeOK, Progress
  <2>4. EventOkWasWritten'
    BY DEF RequestTypeOK, EventOkWasWritten
  <2> QED
    BY <2>2, <2>3, <2>4
<1>4. ASSUME NEW transient \in BOOLEAN, PostFails(c, transient) PROVE RequestInv'
  <2>1. PICK applied \in BOOLEAN :
          written' = [written EXCEPT ![c] = @ \/ applied]
    BY <1>4 DEF PostFails
  <2>2. CASE Retries(c, transient)
    <3> USE <1>4, <2>1, <2>2 DEF PostFails, Retries
    <3>1. RequestTypeOK'
      BY DEF RequestTypeOK
    <3>2. Progress'
      BY DEF RequestTypeOK, Progress
    <3>3. EventOkWasWritten'
      BY DEF RequestTypeOK, EventOkWasWritten
    <3> QED
      BY <3>1, <3>2, <3>3
  <2>3. CASE ~Retries(c, transient)
    <3> USE <1>4, <2>1, <2>3 DEF PostFails, Answer
    <3>1. /\ AnswerFor(c, "ERROR") \in {200, 500}
          /\ route[c] = "event" => AnswerFor(c, "ERROR") = 500
      BY DEF AnswerFor
    <3>2. RequestTypeOK'
      BY <3>1 DEF RequestTypeOK
    <3>3. Progress'
      BY DEF RequestTypeOK, Progress
    <3>4. EventOkWasWritten'
      BY <3>1 DEF RequestTypeOK, EventOkWasWritten
    <3> QED
      BY <3>2, <3>3, <3>4
  <2> QED
    BY <2>2, <2>3
<1>5. CASE PostThrows(c)
  <2> USE <1>5 DEF PostThrows, Answer
  <2>1. RequestTypeOK'
    BY DEF RequestTypeOK
  <2>2. Progress'
    BY DEF RequestTypeOK, Progress
  <2>3. EventOkWasWritten'
    BY DEF RequestTypeOK, EventOkWasWritten
  <2> QED
    BY <2>1, <2>2, <2>3
<1> QED
  BY <1>1, <1>2, <1>3, <1>4, <1>5 DEF RequestStep

\* Every step of the routes keeps the invariant.
LEMMA RoutesStep ==
  ASSUME RequestInv, [Next]_vars
  PROVE  RequestInv'
<1>1. ASSUME NEW c \in Callers, ReceiveWebhook(c) \/ ReceiveEvent(c) PROVE RequestInv'
  BY <1>1, Refusals, ArrivalStep DEF ReceiveWebhook, ReceiveEvent
<1>2. ASSUME NEW c \in Callers, RequestStep(c) PROVE RequestInv'
  BY <1>2, RequestStepKeeps
<1>3. CASE UNCHANGED requestVars
  BY <1>3 DEF requestVars, RequestInv, RequestTypeOK, Progress, EventOkWasWritten
<1> QED
  BY <1>1, <1>2, <1>3 DEF Next, TokenStep, vars

\* The inductive invariant of the requests holds in every reachable state.
THEOREM RequestInvariant == Spec => []RequestInv
<1>1. Init => RequestInv
  BY CallersAssumption, RetriesAssumption
  DEF Init, RequestInv, RequestTypeOK, Progress, EventOkWasWritten
<1> QED
  BY <1>1, RoutesStep, PTL DEF Spec

\* The types of the routes and of the token cache.
THEOREM RoutesTypeCorrect == Spec => []TypeOK
<1>1. TokenInv /\ RequestInv => TypeOK
  BY DEF TokenInv, RequestInv, RequestTypeOK, TypeOK
<1> QED
  BY <1>1, RoutesImplementTokenLock, TokenInvariant, RequestInvariant, PTL

\* routes/event.ts: an event answered 200 is a row of the Data Extension, whatever
\* failures and retries there were before.
THEOREM EventsAnsweredOkAreWritten == Spec => []EventOkWasWritten
<1>1. RequestInv => EventOkWasWritten
  BY DEF RequestInv
<1> QED
  BY <1>1, RequestInvariant, PTL
===============================================================================

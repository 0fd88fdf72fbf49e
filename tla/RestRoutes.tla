------------------------------ MODULE RestRoutes ------------------------------
(***************************************************************************)
(* The TS runtime without its queue: POST /webhook/interakt                *)
(* (routes/webhook.ts) and POST /event (routes/event.ts), which validate a *)
(* body and write its row with services/sfmcRest.ts while the sender       *)
(* waits.  They share the tokens of TokenLock.                             *)
(*                                                                         *)
(* A caller of TokenLock is a request that is being handled.  A request    *)
(* goes through                                                            *)
(*    idle --> token --> posting <--> sleeping                             *)
(* and ends in "answered" with an HTTP status; then the place is free for  *)
(* another request.  What runs between two awaits is one step.             *)
(***************************************************************************)
EXTENDS TokenLock, PayloadFormats

CONSTANTS WebhookBodies,     \* bodies of POST /webhook/interakt
          EventBodies,       \* bodies of POST /event
          MAX_RETRIES        \* config.maxRetries

ASSUME RetriesAssumption == MAX_RETRIES \in Nat

VARIABLES
  at,           \* where each request is
  route,        \* its route
  retryCount,   \* executeRestRequest(): retryCount
  written,      \* SFMC: the row of the request is in the Data Extension
  status        \* the HTTP status of the answer

requestVars == <<at, route, retryCount, written, status>>
vars == <<tokenVars, requestVars>>

RequestTypeOK ==
  /\ at \in [Callers -> {"idle", "token", "posting", "sleeping", "answered"}]
  /\ route \in [Callers -> {"event", "webhook"}]
  /\ retryCount \in [Callers -> 0 .. MAX_RETRIES]
  /\ written \in [Callers -> BOOLEAN]
  /\ status \in [Callers -> {None, 200, 400, 401, 500}]
  /\ \A c \in Callers : at[c] = "answered" <=> status[c] # None

TypeOK == TokenTypeOK /\ RequestTypeOK

Init ==
  /\ TokenInit
  /\ at = [c \in Callers |-> "idle"]
  /\ route = [c \in Callers |-> "event"]
  /\ retryCount = [c \in Callers |-> 0]
  /\ written = [c \in Callers |-> FALSE]
  /\ status = [c \in Callers |-> None]

-------------------------------------------------------------------------------
\* The required fields of an event, all but result strings.
EventFields == {"result", "message", "id", "apiType", "timestamp", "phoneNumber",
                "templateName"}

\* validateEventPayload(): no required field is absent, and those that must be
\* strings are; a blank id is none.
ValidateEventPayload(body) ==
  /\ \A f \in EventFields : body[f] # Absent
  /\ \A f \in EventFields \ {"result"} : body[f] # Scalar
  /\ body.id # "blank"

Signatures == {"valid", "invalid", "not configured"}

\* signatureAuthMiddleware: the status it ends a request with, or None.  Which
\* signature is expected depends on the host the request names; it may not be
\* configured.
Authenticate(signature) ==
  IF signature = "valid" THEN None ELSE IF signature = "invalid" THEN 401 ELSE 500

\* The status a request with this body gets before anything is sent, or None.  A
\* handler of webhooks that throws at once makes it a 500.
RefuseWebhook(signature, body) ==
  LET payload == TsPayload(body)
  IN  IF Authenticate(signature) # None THEN Authenticate(signature)
      ELSE IF payload = Absent THEN 400
      ELSE IF TsRow(payload) = Absent THEN 500 ELSE None

RefuseEvent(signature, body) ==
  IF Authenticate(signature) # None THEN Authenticate(signature)
  ELSE IF ValidateEventPayload(body) THEN None ELSE 400

\* What requests of each route can meet.
WebhookRefusals ==
  {RefuseWebhook(signature, body) : signature \in Signatures, body \in WebhookBodies}
EventRefusals ==
  {RefuseEvent(signature, body) : signature \in Signatures, body \in EventBodies}

\* A request arrives where there is none.
Arrives(c, r) ==
  /\ at[c] \in {"idle", "answered"}
  /\ route' = [route EXCEPT ![c] = r]
  /\ UNCHANGED retryCount
  /\ written' = [written EXCEPT ![c] = FALSE]

\* It is refused with status s, or it asks for a token.
Admit(c, s) ==
  /\ status' = [status EXCEPT ![c] = s]
  /\ at' = [at EXCEPT ![c] = IF s = None THEN "token" ELSE "answered"]
  /\ IF s = None THEN GetAccessToken(c) ELSE UNCHANGED tokenVars

ReceiveWebhook(c) == Arrives(c, "webhook") /\ \E s \in WebhookRefusals : Admit(c, s)

ReceiveEvent(c) == Arrives(c, "event") /\ \E s \in EventRefusals : Admit(c, s)

\* The request ends with status s.
Answer(c, s) ==
  /\ at' = [at EXCEPT ![c] = "answered"]
  /\ status' = [status EXCEPT ![c] = s]
  /\ retryCount' = [retryCount EXCEPT ![c] = 0]
  /\ UNCHANGED route

\* getAccessToken() threw: both routes answer 500.
TokenThrew(c) ==
  /\ at[c] = "token"
  /\ got[c] = None
  /\ Return(c)
  /\ Answer(c, 500)
  /\ UNCHANGED written

\* executeRestRequest() sends the row.
Post(c) ==
  /\ at[c] = "token"
  /\ got[c] # None
  /\ Return(c)
  /\ at' = [at EXCEPT ![c] = "posting"]
  /\ UNCHANGED <<route, retryCount, written, status>>

\* A bug to detect: the event route does not look at the status either.
AnswerOk(c, restStatus) == 200

\* The answer to a request whose upsert resolved with a status: insertToMasterDE()
\* drops it, the event route makes an ERROR a 500.
AnswerFor(c, restStatus) ==
  IF route[c] = "event" /\ restStatus = "ERROR" THEN 500 ELSE 200

\* SFMC takes the row and says so.
PostSucceeds(c) ==
  /\ at[c] = "posting"
  /\ written' = [written EXCEPT ![c] = TRUE]
  /\ Answer(c, AnswerFor(c, "OK"))
  /\ UNCHANGED tokenVars

\* SFMC takes the row, and the JSON of its answer is null: reading requestId of it
\* throws what is no error of axios, so executeRestRequest() throws it again, and
\* both routes answer 500.
PostThrows(c) ==
  /\ at[c] = "posting"
  /\ written' = [written EXCEPT ![c] = TRUE]
  /\ Answer(c, 500)
  /\ UNCHANGED tokenVars

\* A bug to detect: a failed request is retried without end.
RetryAlways(c, transient) == transient

\* A failed request is sent again.
Retries(c, transient) == transient /\ retryCount[c] < MAX_RETRIES

\* The request fails: a transient failure is a 5xx, a timeout or a broken
\* connection, and the row may be in; any other answer of SFMC is a refusal.
PostFails(c, transient) ==
  /\ at[c] = "posting"
  /\ \E applied \in IF transient THEN BOOLEAN ELSE {FALSE} :
       written' = [written EXCEPT ![c] = @ \/ applied]
  /\ IF Retries(c, transient)
       THEN /\ at' = [at EXCEPT ![c] = "sleeping"]
            /\ UNCHANGED <<route, retryCount, status>>
       ELSE Answer(c, AnswerFor(c, "ERROR"))
  /\ UNCHANGED tokenVars

\* The backoff is over: the same row with the same token.
Resend(c) ==
  /\ at[c] = "sleeping"
  /\ at' = [at EXCEPT ![c] = "posting"]
  /\ retryCount' = [retryCount EXCEPT ![c] = @ + 1]
  /\ UNCHANGED <<tokenVars, route, written, status>>

\* What happens to tokens while requests wait.
TokenStep ==
  /\ \/ \E c \in Callers : Issue(c) \/ RefreshSucceeds(c) \/ RefreshFails(c)
     \/ ClearTokenCache
     \/ Tick
  /\ UNCHANGED requestVars

RequestStep(c) ==
  \/ TokenThrew(c)
  \/ Post(c)
  \/ PostSucceeds(c)
  \/ PostThrows(c)
  \/ \E transient \in BOOLEAN : PostFails(c, transient)
  \/ Resend(c)

Next ==
  \/ \E c \in Callers : ReceiveWebhook(c) \/ ReceiveEvent(c) \/ RequestStep(c)
  \/ TokenStep

Spec == Init /\ [][Next]_vars

-------------------------------------------------------------------------------
\* An event that is answered 200 is a row of the Data Extension, over the retries
\* and the answers that get lost.  Any 2xx of SFMC is taken to say so.
EventOkWasWritten ==
  \A c \in Callers : route[c] = "event" /\ status[c] = 200 => written[c]

\* routes/webhook.ts: "stores ALL events in master Data Extension".
AllEventsStored ==
  \A c \in Callers : route[c] = "webhook" /\ status[c] = 200 => written[c]
===============================================================================

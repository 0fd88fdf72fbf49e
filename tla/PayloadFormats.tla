---------------------------- MODULE PayloadFormats ----------------------------
(***************************************************************************)
(* What becomes of the body of a webhook before anything is sent: the old  *)
(* Format 1 ({customer, message, event}) is rewritten as Format 2          *)
(* ({version, type, timestamp, data}), the result is validated, and a      *)
(* handler picks the columns of the row.                                   *)
(*                                                                         *)
(* The TS runtime rewrites twice, in routes/webhook.ts and again in        *)
(* utils/validator.ts; the JS runtime once, in server.js.  The handlers    *)
(* are those of routes/webhook.ts and of lib/webhook-handler.js.           *)
(*                                                                         *)
(* A body is a record of what these functions look at.  What is missing,   *)
(* null or empty is Absent; a text where the code wants an object, or the  *)
(* other way round, is Scalar.  The data of a Format 2 body is Scalar or a *)
(* record whose field pairs is the number of questions and answers of a    *)
(* workflow response, Absent when it has no such list.                     *)
(***************************************************************************)
EXTENDS Naturals

CONSTANTS Absent, Scalar

\* A click_type that is not there, null, '', or tells a click.  Which of the first
\* three it is matters when an event is merged into a message.
Clicks == {"missing", "null", "blank", "click"}

\* A message: its status, and the click_type of its meta_data.
Messages == [status : {"Sent", "Delivered", "Read", "Failed", "Received",
                       "Queued", Absent},
             click : Clicks]

\* An event: its click_type.
Events == [click : Clicks]

-------------------------------------------------------------------------------
\* The types of a Format 1 message by its status.
TypeOfStatus ==
  [Sent      |-> "message_api_sent",
   Delivered |-> "message_api_delivered",
   Read      |-> "message_api_read",
   Failed    |-> "message_api_failed",
   Received  |-> "message_received"]

\* It is there, and of the type the code wants.
WellTyped(value) == value \notin {Absent, Scalar}

ClickOf(part) == IF WellTyped(part) THEN part.click ELSE "missing"
StatusOf(message) == IF WellTyped(message) THEN message.status ELSE Absent

HasClick(event) == ClickOf(event) = "click"

HasKnownStatus(message) == StatusOf(message) \in DOMAIN TypeOfStatus

\* The type of a Format 1 body.
DetectType(body, default) ==
  IF HasClick(body.event) THEN "message_api_clicked"
  ELSE IF HasKnownStatus(body.message) THEN TypeOfStatus[StatusOf(body.message)]
  ELSE default

HasLegacyParts(body) ==
  body.customer # Absent \/ body.message # Absent \/ body.event # Absent

\* { ...meta_data, ...event }: whatever the event has replaces what was there.
Spread(old, new) == IF new = "missing" THEN old ELSE new

\* A Format 1 body as a Format 2 body of a type, whose message has the click_type.
Format2(body, type, click, workflow_id, pairs) ==
  [version |-> TRUE, type |-> type, workflow_id |-> FALSE,
   customer |-> Absent, message |-> Absent, event |-> Absent,
   data |-> [customer |-> body.customer,
             message |-> [status |-> StatusOf(body.message), click |-> click],
             event |-> Absent, workflow_id |-> workflow_id, pairs |-> pairs]]

\* The body routes/webhook.ts makes, and server.js: event is spread over the
\* meta_data of the message, nothing else of the body is kept.
SpreadFormat2(body, type) ==
  Format2(body, type, Spread(ClickOf(body.message), ClickOf(body.event)), FALSE, Absent)

-------------------------------------------------------------------------------
(* The TS runtime.                                                           *)

\* A bug to detect: a body that does not tell its type is a sent message.
DefaultSent == "message_api_sent"

\* The type transformLegacyPayload() gives a body that does not tell its own.
DefaultType == "message_api_clicked"

\* transformLegacyPayload() of routes/webhook.ts
TransformLegacyPayload(body) ==
  IF \/ body.version
     \/ body.type # Absent /\ body.data # Absent
     \/ ~HasLegacyParts(body)
  THEN body
  ELSE SpreadFormat2(body, IF body.type # Absent THEN body.type
                           ELSE DetectType(body, DefaultType))

\* The loop of normalizePayload() over the fields of the event passes over null.
MergeNonNull(old, new) == IF new \in {"missing", "null"} THEN old ELSE new

HasObjectParts(body) ==
  WellTyped(body.customer) \/ WellTyped(body.message) \/ WellTyped(body.event)

\* The body normalizePayload() makes: what is left of the root, and data as far as
\* it is there, become fields of the new data.
NormalizedFormat2(body, type) ==
  Format2(body, type, MergeNonNull(ClickOf(body.message), ClickOf(body.event)),
          body.workflow_id, IF body.data = Absent THEN Absent ELSE Scalar)

\* normalizePayload() of utils/validator.ts, for what the first rewrite left as it
\* was.  Without a click and a known status it is a sent message here.
NormalizePayload(body) ==
  IF \/ WellTyped(body.type) /\ WellTyped(body.data)
     \/ ~HasObjectParts(body)
  THEN body
  ELSE NormalizedFormat2(body, IF body.type # Absent THEN body.type
                               ELSE DetectType(body, "message_api_sent"))

\* validateWebhookPayload(): what the route goes on with; Absent is a
\* ValidationError.
ValidateWebhookPayload(body) ==
  LET payload == NormalizePayload(body)
  IN  IF payload.type \in {Absent, Scalar} \/ ~WellTyped(payload.data)
        THEN Absent ELSE payload

TsPayload(body) == ValidateWebhookPayload(TransformLegacyPayload(body))

MessageTypes == {"message_api_sent", "message_api_delivered", "message_api_read",
                 "message_api_failed", "message_api_clicked", "message_received",
                 "message_campaign_sent", "message_campaign_delivered",
                 "message_campaign_read", "message_campaign_failed"}

\* The groups of columns that a message and an event fill in.
MessageColumns(data) ==
  (IF WellTyped(data.customer) THEN {"customer"} ELSE {})
    \cup (IF WellTyped(data.message) THEN {"message"} ELSE {})
    \cup (IF ClickOf(data.message) = "click" THEN {"click"} ELSE {})
    \cup (IF HasClick(data.event) THEN {"event"} ELSE {})

\* The question-and-answer pairs whose columns a workflow response fills in: there
\* are columns for two.
TsPairs(n) == {k \in {0, 1} : k < n}

\* The row the handler of the type writes, over createEmptyMasterData(); Absent
\* when handleWorkflowResponse() throws 'Missing workflow data', or a TypeError
\* over a text for a list.  The handlers of account, quality and template events
\* fill in columns of their own.
TsRow(payload) ==
  LET row(columns, pairs) == [type |-> payload.type, columns |-> columns, pairs |-> pairs]
  IN  IF payload.type \in MessageTypes THEN row(MessageColumns(payload.data), {})
      ELSE IF payload.type # "workflow_response_update" THEN row({"account"}, {})
      ELSE IF ~payload.data.workflow_id \/ ~WellTyped(payload.data.pairs) THEN Absent
      ELSE row({"workflow"}, TsPairs(payload.data.pairs))

-------------------------------------------------------------------------------
(* The JS runtime.                                                           *)

\* POST /webhook/interakt of server.js: what it goes on with, Absent for a 400.
JsPayload(body) ==
  LET payload == IF HasLegacyParts(body) /\ body.type = Absent
                   THEN SpreadFormat2(body, DetectType(body, "message_api_clicked"))
                   ELSE body
  IN  IF payload.type = Absent \/ payload.data = Absent THEN Absent ELSE payload

\* The rows of handleWebhook(), in order: one for each question and answer of a
\* workflow response, otherwise one with all the columns buildUnifiedDeData() knows.
JsRows(payload) ==
  LET row(pairs) == [type |-> payload.type, pairs |-> pairs,
                     columns |-> IF payload.data = Scalar THEN {}
                                 ELSE MessageColumns(payload.data)]
      answers == IF payload.data = Scalar \/ payload.data.pairs = Absent
                   THEN 0 ELSE payload.data.pairs
  IN  IF payload.type = "workflow_response_update"
        THEN [k \in 1 .. answers |-> row({k - 1})]
        ELSE <<row({})>>

-------------------------------------------------------------------------------
\* The type of the body shows in the body itself.
TellsType(body) == HasClick(body.event) \/ HasKnownStatus(body.message)

\* Format 1 bodies, with and without a version.
Format1Bodies ==
  {body \in [version : BOOLEAN, type : {Absent}, data : {Absent, Scalar},
             workflow_id : BOOLEAN, customer : {Absent, Scalar, "customer"},
             message : Messages \cup {Absent, Scalar},
             event : Events \cup {Absent, Scalar}] :
     HasLegacyParts(body)}

\* Absent and Scalar are no texts of a status, no types and no objects.
ASSUME FormatsAssumption ==
  /\ Absent \notin DOMAIN TypeOfStatus
  /\ \A type \in MessageTypes, body \in Format1Bodies :
       \A payload \in {SpreadFormat2(body, type), NormalizedFormat2(body, type)} :
         {type, payload, payload.data, payload.data.message} \cap {Absent, Scalar} = {}

\* Both runtimes accept the body, and store it under the same type and in the same
\* columns.
SameRow(body) ==
  LET ts == TsPayload(body)
      js == JsPayload(body)
  IN  /\ ts # Absent /\ js # Absent
      /\ ts.type = js.type
      /\ TsRow(ts).columns = JsRows(js)[1].columns

\* The event has click_type null and the message has a click: spread, the null hides
\* the click.
NullHidesClick(body) == ClickOf(body.event) = "null" /\ ClickOf(body.message) = "click"

\* For which Format 1 bodies the two runtimes make the same, although three functions
\* rewrite them: for every one without a version.  One with a version the first
\* rewrite of the TS runtime leaves to the second, which has another default type,
\* passes over null, and wants an object: the runtimes then agree only if the body
\* tells its type and no null hides a click.
RuntimesAgree ==
  \A body \in Format1Bodies :
    SameRow(body) <=> ~body.version \/ (TellsType(body) /\ ~NullHidesClick(body))
===============================================================================

------------------------- MODULE PayloadFormatsProofs -------------------------
(***************************************************************************)
(* For which Format 1 bodies the two runtimes make the same.               *)
(***************************************************************************)
EXTENDS PayloadFormats, TLAPS

\* The type of a rewritten body is one of a message, whatever the default, and shows
\* the default if and only if the body does not tell its type.
LEMMA DetectedType ==
  ASSUME NEW body \in Format1Bodies, NEW default \in MessageTypes
  PROVE  /\ DetectType(body, default) \in MessageTypes
         /\ TellsType(body) =>
              \A other \in MessageTypes : DetectType(body, other) = DetectType(body, default)
         /\ ~TellsType(body) => DetectType(body, default) = default
<1>1. ASSUME HasKnownStatus(body.message)
      PROVE  TypeOfStatus[StatusOf(body.message)] \in MessageTypes
  BY <1>1 DEF HasKnownStatus, TypeOfStatus, MessageTypes
<1>2. "message_api_clicked" \in MessageTypes
  BY DEF MessageTypes
<1>3. DetectType(body, default) \in MessageTypes
  BY <1>1, <1>2 DEF DetectType
<1>4. ASSUME TellsType(body), NEW other \in MessageTypes
      PROVE  DetectType(body, other) = DetectType(body, default)
  BY <1>4 DEF DetectType, TellsType
<1>5. ~TellsType(body) => DetectType(body, default) = default
  BY DEF DetectType, TellsType
<1> QED
  BY <1>3, <1>4, <1>5

\* What a handler makes of a rewritten body: the columns of its message.
LEMMA RowOfRewritten ==
  ASSUME NEW body \in Format1Bodies, NEW type \in MessageTypes,
         NEW payload \in {SpreadFormat2(body, type), NormalizedFormat2(body, type)}
  PROVE  /\ payload.type = type /\ payload # Absent
         /\ WellTyped(payload.type) /\ WellTyped(payload.data)
         /\ TsRow(payload).columns = MessageColumns(payload.data)
         /\ JsRows(payload)[1].columns = MessageColumns(payload.data)
<1>1. payload.type = type
  BY DEF SpreadFormat2, NormalizedFormat2, Format2
<1>2. type # "workflow_response_update"
  BY DEF MessageTypes
<1>3. {type, payload, payload.data} \cap {Absent, Scalar} = {}
  BY FormatsAssumption
<1>4. TsRow(payload).columns = MessageColumns(payload.data)
  BY <1>1 DEF TsRow
<1>5. JsRows(payload)[1].columns = MessageColumns(payload.data)
  BY <1>1, <1>2, <1>3 DEF JsRows
<1> QED
  BY <1>1, <1>3, <1>4, <1>5 DEF WellTyped

\* The two rewrites fill in the same columns unless a null hides a click.
LEMMA ColumnsOfRewrites ==
  ASSUME NEW body \in Format1Bodies, NEW type \in MessageTypes, NEW type2 \in MessageTypes
  PROVE  MessageColumns(NormalizedFormat2(body, type2).data)
             = MessageColumns(SpreadFormat2(body, type).data)
           <=> ~NullHidesClick(body)
<1> DEFINE spread == SpreadFormat2(body, type).data
           merged == NormalizedFormat2(body, type2).data
<1>1. /\ spread.customer = merged.customer
      /\ WellTyped(spread.message) /\ WellTyped(merged.message)
      /\ spread.event = Absent /\ merged.event = Absent
  BY FormatsAssumption DEF SpreadFormat2, NormalizedFormat2, Format2, WellTyped
<1>2. /\ ClickOf(spread.message) = Spread(ClickOf(body.message), ClickOf(body.event))
      /\ ClickOf(merged.message) = MergeNonNull(ClickOf(body.message), ClickOf(body.event))
  BY <1>1 DEF SpreadFormat2, NormalizedFormat2, Format2, ClickOf
<1>3. (ClickOf(spread.message) = "click" <=> ClickOf(merged.message) = "click")
        <=> ~NullHidesClick(body)
  BY <1>2 DEF Spread, MergeNonNull, NullHidesClick
<1>4. /\ "click" \in MessageColumns(spread) <=> ClickOf(spread.message) = "click"
      /\ "click" \in MessageColumns(merged) <=> ClickOf(merged.message) = "click"
  BY DEF MessageColumns
<1>5. (ClickOf(spread.message) = "click" <=> ClickOf(merged.message) = "click")
        => MessageColumns(spread) = MessageColumns(merged)
  BY <1>1 DEF MessageColumns, HasClick, ClickOf
<1> QED
  BY <1>3, <1>4, <1>5

\* routes/webhook.ts with utils/validator.ts, and server.js with webhook-handler.js:
\* both accept a Format 1 body and store the same of it if and only if it has no
\* version, or tells its type and has no null that hides a click.
THEOREM RuntimesMakeTheSame == RuntimesAgree
<1> SUFFICES ASSUME NEW body \in Format1Bodies
             PROVE  SameRow(body) <=>
                      ~body.version \/ (TellsType(body) /\ ~NullHidesClick(body))
  BY DEF RuntimesAgree
<1> DEFINE type == DetectType(body, DefaultType)
           type2 == DetectType(body, "message_api_sent")
           spread == SpreadFormat2(body, type)
           merged == NormalizedFormat2(body, type2)
<1>1. /\ HasLegacyParts(body) /\ body.type = Absent /\ body.version \in BOOLEAN
  BY DEF Format1Bodies
<1>2. type \in MessageTypes /\ type2 \in MessageTypes
  BY DetectedType DEF DefaultType, MessageTypes
<1>3. JsPayload(body) = spread
  BY <1>1, <1>2, RowOfRewritten DEF JsPayload, DefaultType, WellTyped
<1>4. CASE ~body.version
  <2>1. TransformLegacyPayload(body) = spread
    BY <1>1, <1>4 DEF TransformLegacyPayload
  <2>2. NormalizePayload(spread) = spread
    BY <1>2, RowOfRewritten DEF NormalizePayload
  <2>3. TsPayload(body) = spread
    BY <1>2, <2>1, <2>2, RowOfRewritten DEF TsPayload, ValidateWebhookPayload, WellTyped
  <2> QED
    BY <1>2, <1>3, <1>4, <2>3, RowOfRewritten DEF SameRow
<1>5. CASE body.version /\ ~HasObjectParts(body)
  <2>1. TransformLegacyPayload(body) = body
    BY <1>5 DEF TransformLegacyPayload
  <2>2. NormalizePayload(body) = body
    BY <1>5 DEF NormalizePayload
  <2>3. TsPayload(body) = Absent
    BY <1>1, <2>1, <2>2 DEF TsPayload, ValidateWebhookPayload, WellTyped
  <2>4. ~TellsType(body)
    BY <1>5, FormatsAssumption
    DEF HasObjectParts, TellsType, HasClick, HasKnownStatus, ClickOf, StatusOf
  <2> QED
    BY <1>5, <2>3, <2>4 DEF SameRow
<1>6. CASE body.version /\ HasObjectParts(body)
  <2>1. TransformLegacyPayload(body) = body
    BY <1>6 DEF TransformLegacyPayload
  <2>2. NormalizePayload(body) = merged
    BY <1>1, <1>6 DEF NormalizePayload, WellTyped
  <2>3. TsPayload(body) = merged
    BY <1>2, <2>1, <2>2, RowOfRewritten DEF TsPayload, ValidateWebhookPayload, WellTyped
  <2>4. type = type2 <=> TellsType(body)
    BY DetectedType DEF DefaultType, MessageTypes
  <2>5. SameRow(body) <=>
          type = type2 /\ MessageColumns(merged.data) = MessageColumns(spread.data)
    BY <1>2, <1>3, <2>3, RowOfRewritten DEF SameRow
  <2> QED
    BY <1>2, <1>6, <2>4, <2>5, ColumnsOfRewrites
<1> QED
  BY <1>1, <1>4, <1>5, <1>6
===============================================================================

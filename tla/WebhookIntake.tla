----------------------------- MODULE WebhookIntake -----------------------------
(***************************************************************************)
(* The intake of the JS runtime: POST /webhook/interakt of server.js, the  *)
(* ids of lib/idempotency.js, and handleWebhook() of lib/webhook-handler.js *)
(* that runs after the answer, from setImmediate(), and hands rows to      *)
(* lib/queue.js or, with USE_QUEUE=false, to SFMC.                         *)
(*                                                                         *)
(* A webhook is delivered any number of times.  isProcessed() and          *)
(* markProcessed() await nothing, so the route gets from the check of the  *)
(* id to setImmediate() without another callback in between: one step.     *)
(* The request queue in front of it, lib/request-queue.js, lets every      *)
(* request pass at once: it looks for '/webhook/interakt' in req.path,     *)
(* which is '/interakt' under app.use('/webhook').                         *)
(*                                                                         *)
(* A background run is known by its position in runs; it goes through      *)
(*    scheduled [--> running] --> done | failed                            *)
(* and is lost when the process ends before that.                          *)
(*                                                                         *)
(* lib/queue.js is what it promises, AtLeastOnce, which BatchQueue         *)
(* implements: accepted, held, inserted and running are its variables, and *)
(* rows that do not go through it are in inserted only.                    *)
(***************************************************************************)
EXTENDS PayloadFormats, Integers, Sequences, FiniteSets

CONSTANTS Webhooks,         \* what Interakt has to tell
          BodyOf,           \* the body of a webhook
          MessageIdOf,      \* data.message.id or data.id, or Absent
          Environments,     \* settings of the process
          Headers,          \* x-interakt-signature: "none", "good", "bad"
          CONCURRENT_LIMIT, \* concurrentLimit of the request queue
          MAX_RUNS,         \* bound: background runs
          MAX_ROWS,         \* bound: answers of a workflow response
          MAX_FORGETS       \* bound: times an id leaves the cache

ASSUME EnvironmentsAssumption ==
  /\ Headers \subseteq {"none", "good", "bad"}
  /\ Environments \subseteq [queue : BOOLEAN,    \* USE_QUEUE
                             local : BOOLEAN,    \* isLocalMode()
                             secret : BOOLEAN,   \* an INTERAKT_SECRET is set
                             deKey : BOOLEAN]    \* SFMC_DE_CUSTOMER_KEY is set
ASSUME BoundsAssumption ==
  /\ {MAX_RUNS, MAX_ROWS, MAX_FORGETS} \subseteq Nat
  /\ \A w \in Webhooks : LET payload == JsPayload(BodyOf[w])
                         IN  payload # Absent => Len(JsRows(payload)) \in 0 .. MAX_ROWS

VARIABLES
  env,        \* the settings
  cache,      \* idempotency.js: the ids in it
  runs,       \* handleWebhook() of each acknowledged webhook: the webhook, its
              \*   header x-interakt-signature, where it is, the row it is at
  accepted, held, inserted, running,    \* the queue, SFMC and the process
  forgotten,  \* history: how often each id left the cache
  lost        \* history: rows that were in memory when a process ended

bufferVars == <<accepted, held, inserted, running>>
vars == <<env, cache, runs, bufferVars, forgotten, lost>>

\* Those the route goes on with, and their uniqueId: that of the message and the
\* type, or of the type, the timestamp and the data.
Valid == {w \in Webhooks : JsPayload(BodyOf[w]) # Absent}
UniqueId(w) ==
  LET type == JsPayload(BodyOf[w]).type
  IN  IF MessageIdOf[w] # Absent THEN <<MessageIdOf[w], type>> ELSE <<type, w>>
Ids == {UniqueId(w) : w \in Valid}

RowCount(n) == Len(JsRows(JsPayload(BodyOf[runs[n].webhook])))

\* The rows of a run.  Each run has rows of its own: event_id is random.  (That of
\* a workflow response is made of the ids of question and answer; a second run
\* writes such a row again.)
Row(n, k) == [run |-> n, row |-> k]
Items == [run : 1 .. MAX_RUNS, row : 1 .. MAX_ROWS]
RowsUpTo(n, k) == {Row(n, j) : j \in 1 .. k}

Buffer == INSTANCE AtLeastOnce

TypeOK ==
  /\ env \in Environments
  /\ cache \subseteq Ids
  /\ Len(runs) <= MAX_RUNS
  /\ \A n \in DOMAIN runs :
       /\ runs[n] \in [webhook : Valid, header : Headers,
                       pc : {"scheduled", "running", "done", "failed", "lost"},
                       row : 0 .. MAX_ROWS]
       /\ runs[n].row <= RowCount(n)
  /\ accepted \subseteq Items
  /\ held \subseteq accepted
  /\ inserted \subseteq Items
  /\ running \in BOOLEAN
  /\ forgotten \in [Ids -> 0 .. MAX_FORGETS]
  /\ lost \subseteq accepted

Init ==
  /\ env \in Environments
  /\ cache = {}
  /\ runs = <<>>
  /\ Buffer!Init
  /\ forgotten = [id \in Ids |-> 0]
  /\ lost = {}

-------------------------------------------------------------------------------
(* The route.                                                                *)

\* A bug to detect: no id is ever found in the cache.
NeverProcessed(id) == FALSE

IsProcessed(id) == id \in cache

\* A request for a webhook, with its header 'signature' valid or not, is answered
\* before anything is done: 400 to a body that is no webhook, 401 to a wrong
\* signature, 200 "Already processed".
Turn(w, valid) ==
  /\ running
  /\ w \in Valid /\ valid => IsProcessed(UniqueId(w))
  /\ UNCHANGED vars

\* A new webhook is marked as processed, answered 200 and scheduled.
Acknowledge(w, header) ==
  /\ running
  /\ w \in Valid
  /\ ~IsProcessed(UniqueId(w))
  /\ Len(runs) < MAX_RUNS
  /\ cache' = cache \cup {UniqueId(w)}
  /\ runs' = Append(runs, [webhook |-> w, header |-> header,
                           pc |-> "scheduled", row |-> 0])
  /\ UNCHANGED <<env, bufferVars, forgotten, lost>>

-------------------------------------------------------------------------------
(* The background run.                                                       *)

At(n, where) == running /\ n \in DOMAIN runs /\ runs[n].pc = where

\* verifySignature() of webhook-handler.js, which knows another header and another
\* secret than the route.
VerifySignature(header) ==
  IF header = "none" THEN env.local \/ ~env.secret ELSE env.secret => header = "good"

\* Bugs to detect: the loop stops before the last answer, or after it.
NoRowButLast(n, k) == k >= RowCount(n)
NoRowAfterNext(n, k) == k > RowCount(n) + 1

NoRow(n, k) == k > RowCount(n)

\* The run goes on with row k: it passes it to enqueue(), or starts to send it.
\* Without such a row it returns.
Proceed(n, k) ==
  IF NoRow(n, k)
    THEN /\ runs' = [runs EXCEPT ![n].pc = "done"]
         /\ UNCHANGED <<accepted, held>>
    ELSE /\ runs' = [runs EXCEPT ![n].pc = "running", ![n].row = k]
         /\ IF env.queue
              THEN accepted' = accepted \cup {Row(n, k)} /\ held' = held \cup {Row(n, k)}
              ELSE UNCHANGED <<accepted, held>>

\* A bug to detect: a webhook takes the place of one that was not started yet.
OnlyNewest(n) == At(n, "scheduled") /\ n = Len(runs)

\* The callbacks of setImmediate() that are due.
Due(n) == At(n, "scheduled")

\* handleWebhook() up to its first await.
Start(n) ==
  /\ Due(n)
  /\ IF VerifySignature(runs[n].header) /\ env.deKey
       THEN Proceed(n, 1)
       ELSE /\ runs' = [runs EXCEPT ![n].pc = "failed"]
            /\ UNCHANGED <<accepted, held>>
  /\ UNCHANGED <<env, cache, inserted, running, forgotten, lost>>

\* enqueue() returns; a flush it had to wait for may have failed, and is none of
\* its business.
Enqueued(n) ==
  /\ At(n, "running")
  /\ env.queue
  /\ Proceed(n, runs[n].row + 1)
  /\ UNCHANGED <<env, cache, inserted, running, forgotten, lost>>

\* upsertToSFMC() resolves.
Upserted(n) ==
  /\ At(n, "running")
  /\ ~env.queue
  /\ inserted' = inserted \cup {Row(n, runs[n].row)}
  /\ Proceed(n, runs[n].row + 1)
  /\ UNCHANGED <<env, cache, running, forgotten, lost>>

\* upsertToSFMC() throws, also when only the answer was lost: the rows after this
\* one are not sent.
UpsertFailed(n) ==
  /\ At(n, "running")
  /\ ~env.queue
  /\ \E applied \in SUBSET {Row(n, runs[n].row)} : inserted' = inserted \cup applied
  /\ runs' = [runs EXCEPT ![n].pc = "failed"]
  /\ UNCHANGED <<env, cache, accepted, held, running, forgotten, lost>>

-------------------------------------------------------------------------------
(* What goes on around.                                                      *)

\* The queue delivers a row, and may not learn of it.
Deliver(i) ==
  /\ \E confirmed \in SUBSET {i} : Buffer!Deliver({i}, confirmed)
  /\ UNCHANGED <<env, cache, runs, forgotten, lost>>

\* Ids leave the cache.
Forget(ids) ==
  /\ \A id \in ids : forgotten[id] < MAX_FORGETS
  /\ cache' = cache \ ids
  /\ forgotten' = [id \in Ids |-> forgotten[id] + IF id \in ids THEN 1 ELSE 0]

\* The time to live of an id is over.
Expire(id) ==
  /\ running
  /\ id \in cache
  /\ Forget({id})
  /\ UNCHANGED <<env, runs, bufferVars, lost>>

\* clearCache(), from its timer or from POST /admin/clear-cache.
ClearCache ==
  /\ running
  /\ Forget(cache)
  /\ UNCHANGED <<env, runs, bufferVars, lost>>

\* The process ends, with or without the flush of shutdown().
EndProcess ==
  /\ Buffer!Stop
  /\ Forget(cache)
  /\ runs' = [n \in DOMAIN runs |->
                IF runs[n].pc \in {"scheduled", "running"}
                  THEN [runs[n] EXCEPT !.pc = "lost"] ELSE runs[n]]
  /\ UNCHANGED <<env, lost>>

\* A new process has an empty queue.
Restart ==
  /\ ~running
  /\ running' = TRUE
  /\ lost' = lost \cup held
  /\ held' = {}
  /\ UNCHANGED <<env, cache, runs, accepted, inserted, forgotten>>

RunStep(n) ==
  \/ Start(n)
  \/ Enqueued(n)
  \/ Upserted(n)
  \/ UpsertFailed(n)

Next ==
  \/ \E w \in Webhooks :
       \/ \E valid \in BOOLEAN : Turn(w, valid)
       \/ \E header \in Headers : Acknowledge(w, header)
  \/ \E n \in 1 .. MAX_RUNS : RunStep(n)
  \/ \E i \in Items : Deliver(i)
  \/ \E id \in Ids : Expire(id)
  \/ ClearCache
  \/ EndProcess
  \/ Restart

Spec == Init /\ [][Next]_vars

\* setImmediate() calls back, every await ends, the queue delivers what it holds
\* (EveryRowDelivered of BatchQueue), and an ended process is started again.
FairSpec ==
  /\ Spec
  /\ \A n \in 1 .. MAX_RUNS : WF_vars(RunStep(n))
  /\ \A i \in Items : WF_vars(i \notin inserted /\ Deliver(i))
  /\ WF_vars(Restart)

-------------------------------------------------------------------------------
RunsOf(id) == {n \in DOMAIN runs : UniqueId(runs[n].webhook) = id}

\* However often a webhook is delivered, and whatever the timer of the cache, the
\* administrator and restarts do while its run is under way, it is run once more
\* only when its id has left the cache; and an id in the cache has been run.
RunsBounded ==
  \A id \in Ids :
    Cardinality(RunsOf(id)) = forgotten[id] + IF id \in cache THEN 1 ELSE 0

\* The rows a run has handed over are those up to the one it is at, without a gap;
\* those of a run that is done are all there are.  Each is in the queue or in SFMC,
\* or was in memory when a process ended: a webhook whose run completed is not
\* forgotten in any other way.
HandedOverIsSafe ==
  \A n \in DOMAIN runs :
    LET safe == {i \in held \cup inserted \cup lost : i.run = n}
    IN  /\ runs[n].pc = "done" => safe = RowsUpTo(n, RowCount(n))
        /\ RowsUpTo(n, runs[n].row - 1) \subseteq safe
        /\ safe \subseteq RowsUpTo(n, runs[n].row)

\* An acknowledged webhook does not hang: its run fails, is lost with its process,
\* or its rows are in SFMC unless they are lost with theirs.
EveryRunEnds ==
  \A n \in 1 .. MAX_RUNS :
    n \in DOMAIN runs ~>
      /\ n \in DOMAIN runs
      /\ \/ runs[n].pc \in {"failed", "lost"}
         \/ /\ runs[n].pc = "done"
            /\ RowsUpTo(n, RowCount(n)) \subseteq inserted \cup lost

\* server.js: "Allow 5 concurrent webhook processes", "processes them at controlled
\* rate".
ConcurrentLimit ==
  Cardinality({n \in DOMAIN runs : runs[n].pc = "running"}) <= CONCURRENT_LIMIT
===============================================================================

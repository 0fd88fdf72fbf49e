# Verification of interakt-sfmc-webhook

TLA+ models of the service that takes WhatsApp events from Interakt and writes
them as rows of Data Extensions of Salesforce Marketing Cloud (SFMC), the TLC
configurations that check them, and theorems that TLAPS proves about them.

The repository holds two runtimes:

* the **JS runtime**, `node server.js`: `server.js`, `lib/`, `utils/`;
* the **TS runtime**, under `src/` of the repository, with a queue in Redis.

They share no code and no state. Both run on one event loop, so the models
interleave the pieces of code between two `await`s, and what a model calls a step
is such a piece.

## 1. Inventory

### JS runtime

| Part | State it keeps | Operations | What is hard, and what makes it correct |
|---|---|---|---|
| `lib/queue.js` batch queue | `queue`, `queueSize`, `processingPromise`, the flush timer, `stats` | `enqueue`, `flush`, `processQueue`, `shutdown` | A flush takes the rows into a local array and awaits SFMC while rows arrive and others call `flush()`. One flush at a time; no row forgotten, none held twice; the counters follow; `shutdown()` leaves nothing behind |
| `lib/sfmc-client.js` client | the token cache | `batchUpsertToSFMC`, `batchUpsertWithRetry`, `getAccessToken`, `clearTokenCache`, direct `insertToSFMC` | Parts, retries, a token that dies early, answers that get lost. A result "ok" means inserted; the attempts are bounded; every call ends |
| `lib/rate-limiter.js` | slots in use, bucket, `retryAfterTime` | `acquire`, `release` | `release` runs once or twice per request. Slots are the requests in flight; a Retry-After is respected |
| `lib/payload-validator.js` | none | `validateAndSplit` | Boundaries. The parts are the rows, in order; only a record that is too large is refused |
| `lib/error-classifier.js` | none | `classifyError`, `shouldRetry`, backoff | What is final is not retried |
| `server.js` | the process | webhook route, admin flush and clear-cache, graceful shutdown | A webhook is marked and acknowledged before it is processed |
| `lib/idempotency.js` | a TTL cache of ids | `isProcessed`, `markProcessed`, `clearCache`, auto clear | An id that is forgotten while deliveries repeat |
| `lib/webhook-handler.js` | none | `handleWebhook`, the rows of a webhook | Random event ids; several rows per webhook |
| `lib/request-queue.js` | waiting requests, active requests | `middleware`, `processQueue` | A limit of concurrent requests, if the middleware applies |

Calls go `server.js` -> `webhook-handler` -> `queue` -> `sfmc-client` ->
(`payload-validator`, token, `rate-limiter`, SFMC, `error-classifier`).

### TS runtime

| Part | State it keeps | Operations | What is hard, and what makes it correct |
|---|---|---|---|
| `lib/redis-queue.ts` | in Redis: the main list, the retry and bad-payload DLQs, counters | `enqueueMain`, `dequeueBatch`, `enqueueRetry`, `enqueueBadPayload`, `getNextRetryMessage`, `requeueRetry` | Several commands per operation, and the process may die between two. A message is in one place and never nowhere |
| `lib/batch-worker.ts` | its timers, the batch in memory | `poll`, `processBatch`, `routeFailedMessages`, `stop` | When it flushes; what becomes of a batch that fails midway |
| `lib/retry-worker.ts` | the idle detector, the message in memory | `checkAndProcess`, `processOneRetry` | Retries only when idle, only the head; how many |
| `services/sfmcRest.ts` | none | `insertToDataExtension`, `upsertToDataExtension` | Retries after a lost answer; it reports failure by a status; a token failure throws, and so does an answer without a body |
| `services/sfmcAuth.ts` | token cache, refresh promise | `getAccessToken`, `clearTokenCache` | Callers share one refresh; the cache expires and is cleared under it. Nobody waits for a refresh that has ended; refreshes do not multiply; the token handed out is good |
| `routes/webhook.ts`, `routes/event.ts` | none | the routes | What an answer says about the row |
| `utils/validator.ts` | none | `validateWebhookPayload`, `validateEventPayload` | Bodies are rewritten twice, with different defaults |
| `server.ts` | the process | start, shutdown | Workers are not waited for |

The two workers and the routes share the Redis lists and, through `sfmcRest.ts`,
the token cache. In the tree as it is, no mounted route calls `enqueueMain`
(`queue-integration.ts` does, and is not mounted); the model takes its calls as the
input the workers were written for.

Pure I/O and parts without control (loggers, log and health routes, the SOAP
service, samples) are listed in `PROJECT.json` with the reason
they are not modelled. `PROJECT.json` also lists the hazards, each at its line and
with the properties that cover it.

## 2. Plan

Order, most important behaviour first:

1. **Done.** `BatchQueue`, its abstraction `AtLeastOnce`, proofs in
   `BatchQueueProofs`.
2. **Done.** `UpsertRetry` over the pure modules `PayloadValidator` and
   `ErrorClassifier`, proofs in `PayloadValidatorProofs` and `UpsertRetryProofs`.
3. **Done.** `QueueWorkers`, its abstraction `MessageStore`, proofs in
   `QueueWorkersProofs`.
4. **Done.** `TokenLock`, proofs in `TokenLockProofs`.
5. **Done.** `RestRoutes`, which composes `TokenLock` with both routes of the TS
   runtime and the retry loop of `sfmcRest.ts`, over the pure module
   `PayloadFormats`; proofs in `RestRoutesProofs` and `PayloadFormatsProofs`.
6. **Done.** `WebhookIntake`: the webhook route of `server.js`, `lib/idempotency.js`
   and `handleWebhook`, over `PayloadFormats` and with `AtLeastOnce` for the queue;
   proofs in `WebhookIntakeProofs`.
7. To come: the refill of the token bucket and the backoff as pure modules; the
   classifier of the TS runtime. To prove: that what a failed call of
   `batchUpsertToSFMC()` leaves in SFMC is a prefix of its rows, which `BatchFailed` of
   `BatchQueue` assumes.

Abstract specifications: the at-least-once buffer (the JS queue implements it), the
message store (the Redis queue implements it), and `TokenLock` (the routes of the TS
runtime implement it).

## 3. Modules

| Module | Models | State and actions against the code |
|---|---|---|
| `AtLeastOnce` | the promise of a buffer | `Accept`, `Deliver`, `Stop`: a record leaves the buffer only when SFMC has it |
| `MessageStore` | the promise of the Redis queue | `Accept`, `Take`, `Put`, `Offer`, `Finish`, `Lose`: a message is in one place; it waits only if SFMC was never asked to take it, leaves only after SFMC was asked or with the process, and a dead letter stays one. It does not promise that SFMC has what left: the code drops a message whose upsert returned ERROR |
| `BatchQueue` | `lib/queue.js` | A started `processQueue()` is a member of `Flushers`. `Enqueue`, `TimerFlush`, `AdminFlush` and `Shutdown` share `Flush`; `BatchUpserted` and `BatchFailed` are the two ends of an awaited batch; `FlushReturns` is the continuation that clears `processingPromise` |
| `PayloadValidator` | `lib/payload-validator.js` | Operators over sequences of rows; the greedy split is a fold |
| `ErrorClassifier` | `lib/error-classifier.js` | `ClassifyError` over status and code; `ShouldRetry` with the limits of each class |
| `UpsertRetry` | `lib/sfmc-client.js`, slots and pause of `lib/rate-limiter.js` | One caller whose `pc` goes from token to slot to request to backoff; time is countdowns and `Tick` |
| `QueueWorkers` | `lib/redis-queue.ts`, `lib/batch-worker.ts`, `lib/retry-worker.ts`, what `services/sfmcRest.ts` returns, shutdown of `server.ts` | One action per Redis command or awaited upsert of each worker; `Exit` ends the process at any point and `Start` starts it on the same Redis |
| `TokenLock` | `services/sfmcAuth.ts` | A caller of `getAccessToken()` uses the cached token, awaits the refresh in progress or starts one; a refresh is named by the caller that started it, and its end lets everybody go on who awaits it. A token is the time SFMC still takes it; `Tick` |
| `PayloadFormats` | `transformLegacyPayload` and the handlers of `routes/webhook.ts`, `utils/validator.ts`, the Format 1 rewrite of `server.js`, the rows of `lib/webhook-handler.js` | Operators from a body to the payload and from a payload to groups of columns. `RuntimesAgree` states of which Format 1 bodies both runtimes make the same |
| `RestRoutes` | `routes/webhook.ts`, `routes/event.ts`, `services/sfmcRest.ts`, the outcomes of `middleware/signature-auth.ts` | A request is a caller of `TokenLock`: `ReceiveWebhook`, `ReceiveEvent`, then the token, `Post`, its ends (`PostSucceeds`, `PostFails`, and `PostThrows` for an answer that cannot be read), and `Resend` after a backoff. Extends `TokenLock` and `PayloadFormats` |
| `WebhookIntake` | the route of `server.js`, `lib/idempotency.js`, `lib/webhook-handler.js` | `Acknowledge` is the route from the check of the id to `setImmediate()`; `Start`, `Enqueued`, `Upserted` and `UpsertFailed` are the pieces of the background run; `Expire`, `ClearCache`, `EndProcess`, `Restart` are around it. The queue is `Buffer`, an instance of `AtLeastOnce` |
| `MC...` | instances for TLC | |
| `...Proofs` | theorems | |

Definitions that begin with "A bug to detect" are variants of the definition that
follows them. No specification uses them: they serve to check that a property
notices the bug.

### Abstractions

* Rows and messages are model values; sizes are small numbers. `BatchQueue` takes
  `Bytes` as an additive function on sets of rows (what `calculateSize` sums to).
* `QueueWorkers` takes `Bytes` in the same way, for `messageBytes`.
* `createBatches()` and the loop over its result are one batch at a time. The split
  depends on the snapshot only.
* In `BatchFailed` any prefix of the batch may be in SFMC: `UpsertRetry` shows why
  (parts, lost answers).
* `UpsertRetry` has one caller. In queue mode the only caller is the flush, and
  `OneFlush`, proved, says there is one. Direct mode (`USE_QUEUE=false`) does not
  go through this function.
* The wait for a slot or for the token bucket is any delay up to `MAX_WAIT`, the
  backoff any up to `MAX_BACKOFF`; the Retry-After pause is exact.
* SFMC: any answer of the set at any time, except that 401 is for a token it does
  not take. After a 5xx, an unexpected 2xx or no answer, the rows may have gone in.
* `QueueWorkers`: Redis commands are atomic and do not fail while the connection is
  open; in "closing" a worker stops at its next command. A shutdown forgets the timers
  and the idle time, which nothing reads any more. A retry's `nextRetryAt`
  passes at some time. The idle detector's duration is "short" or "long". An upsert
  that throws because there is no token is classified either way; one that throws
  because the answer to a row that was taken has no body (`sfmcRest.ts:65`, `:108`) is
  an error of no known type, which goes to the bad-payload DLQ. What a failing Redis
  command would do to messages that are in memory (`batch-worker.ts:87`, and `:231`,
  where the counter is incremented inside the `try`) is not modelled.
* `TokenLock`: the callers that await a refresh go on together with the one that
  started it, because nothing else runs between the resolution of a promise and its
  continuations. An answer travels at most `TIMEOUT`, as axios has a timeout. Times
  are relative, so there is no clock that grows.
* `RestRoutes`: a request is refused before it awaits anything, so the body only
  matters for the status; `PayloadFormats` says which statuses the bodies of the
  instance give. The keys of the Data Extensions are configured. `written` is
  whether SFMC has the row, whoever knows of it; any 2xx is taken to mean that it has.
* `PayloadFormats`: columns are groups; texts, numbers and their truncation are not
  in it. A `click_type` is missing, null, blank or a click, because the runtimes treat
  a null differently when they merge an event into a message.
* `WebhookIntake`: an event without a message id is known by its type, time and
  data; a Format 1 body without a `timestamp` of its own, which gets that of its
  arrival, is not told from another event. The request queue of
  `lib/request-queue.js` lets every request pass. The queue is its abstraction: how
  it batches is in `BatchQueue`.
* Not in the state: averages, error counters, logging, the second shutdown signal
  while the first is handled.

## 4. Runs

| Run | Asks | Result |
|---|---|---|
| `batch_queue` | safety of the in-memory queue; it implements `AtLeastOnce` | holds |
| `batch_queue_live` | every accepted row is delivered; `shutdown()` returns | holds |
| `shutdown_delivers` | a successful `shutdown()` leaves nothing behind | **violated** |
| `upsert` | what a result means, bounds on attempts, parts, the pause of a Retry-After in seconds, termination | holds |
| `auth_retry` | the retry after an auth error carries another token | **violated** |
| `workers` | where messages are, order, limits of a batch; the lists and workers implement `MessageStore` | holds |
| `workers_live` | while the process runs, every message leaves the main queue, and the retry DLQ too if the main queue is short from some time on; counters and number of tries of messages that are requeued | holds |
| `rest_routes` | callers of `getAccessToken()` share refreshes; an event answered 200 is written | holds |
| `all_events_stored` | a webhook answered 200 is stored | **violated** |
| `webhook_intake` | how often a webhook is run, where its rows are, every run ends | holds |
| `concurrent_limit` | a limit of webhooks processed at a time | **violated** |
| `failed_are_routed` | a failed message reaches a DLQ | **violated** |

The violated ones state what a document or a comment of the repository says;
`findings` in `PROJECT.json` quotes it and says what the code does.

What the violated runs show, in short:

* `shutdown()` during a flush returns at once when the queue is empty, because the
  flush has the rows, or waits for a flush that started before the last rows came.
  `QuietShutdownDelivers` is the part that does hold, and is proved.
* The retry after a 401 uses the cached token: `clearTokenCache` is named, not called.
* A failed upsert that is returned as a status is counted as processed and lost, by
  the batch worker and in the same way by the webhook route, which answers 200.
* The request queue looks for a path that Express has stripped, and the work goes on
  after the answer: nothing limits the webhooks processed at a time.

`RunsBounded` is tight: each time an id leaves the cache, one more delivery of the
same webhook is run, and its row has another random `event_id`; the `event_id` does
not prevent the duplicate.

### Divergences

Seen while modelling; the models have them, and no run is spent on them:

* `APPLICATION_FLOW.md` promises five retries and a DLQ; `lib/queue.js` re-queues the
  rows of a failed batch without a count.
* A Retry-After may be a number of seconds or an HTTP date, as the comment at
  `rate-limiter.js:186` says. `parseInt` of a date is `NaN` (`sfmc-client.js:482`), so a
  date is no pause at all. `RetryAfterRespected` is therefore stated for a header in
  seconds; the run has answers with either form.
* The retry worker makes `maxRetries + 1` tries (`TriesBounded`).
* `lastMessageTime` is set on every poll, so the smart timeout of the batch worker
  never fires; batches leave when full or after 30 seconds. `MainQueueDrains` shows that
  they do leave, by the fallback; it says nothing of the smart timeout.
* The retry worker waits for an idle main queue, so under traffic that never lets up
  the retry DLQ is never read.
* A Format 1 body with a `version` is rewritten by `utils/validator.ts` in the TS
  runtime, and like any other in the JS runtime. The two differ on it when it has
  neither a click nor a known status (a sent message, or a clicked one), when its event
  has `click_type` null and its message has a click (the TS runtime passes over the
  null, the spread of the JS runtime lets it hide the click), and when its parts are
  texts and not objects. `RuntimesAgree` states exactly this.
* An answer of SFMC that is 2xx with the JSON `null` makes `sfmcRest.ts:65` throw, and
  `:108` throws it again: both routes answer 500 although the row is written. So a 500
  of either route does not mean that there is no row.
* A workflow response is one row with at most two answers in the TS runtime, a row
  for each answer in the JS runtime.
* Two clicks on one message have one id in `server.js`; the second is answered
  "Already processed".

### Bounds

* `BatchQueue.cfg`: four rows in two Data Extensions, one of them over the size
  limit by itself, batches of two, two flush calls. This has a flush with two
  batches of one Data Extension and one of another, rows that arrive during a flush,
  a threshold crossed while a flush runs, and re-queued rows in front of new ones. A
  second flusher is needed for the violation of `OneFlush` to be expressible; a
  third adds nothing as only one may be active. Rows `r1`, `r2` and the flushers are
  symmetric. The liveness run has three rows and one flusher and no symmetry.
* `UpsertRetry.cfg`: five calls (one part; split by rows; split by bytes; an
  oversized record in a call that fits and in one that does not), an answer of each
  class, three tokens (cached, new, and the one refused), `MAX_RETRIES` 3 so that
  the limits of the classes differ from it, and pauses of up to two units, longer
  than the backoff. A Retry-After is in seconds or a date.
* `QueueWorkers.cfg`: three messages, two of which share a batch and one that does
  not fit beside another, batches of two. A message is retried once and not
  requeued (`MAX_RETRIES` 0), which keeps the three messages within TLC's reach. The
  process may exit at any step and any number of times. `m1` and `m2` are symmetric.
  `QueueWorkersLive.cfg` has two messages, which may be requeued twice (`MAX_RETRIES`
  2), so that a requeue meets a batch, another requeue, a restart; that a requeue
  makes no copy and implements the store is shown by the proofs, for any number of
  messages and of retries. Its batches are of three: no
  batch is ever full. There one message makes the main queue busy (`IDLE_THRESHOLD` 1),
  so the other waits in the retry DLQ for a busy queue to become idle. As the
  messages of an instance are finite, its traffic always lets up; the hypothesis of
  `EveryMessageSettled` is what a larger instance would need.
* `RestRoutes.cfg`: three requests, alike: one that refreshes, one that waits for it
  and one that starts another refresh after a clear. Two clears, so that the finally
  of a dropped refresh can drop the promise of the next one, and a third may start.
  Tokens live two units and an answer travels up to one; the buffer is 0, as in
  `config.ts`. Two retries. The bodies give every status a body can.
* `WebhookIntake.cfg`: two webhooks that share an id, a workflow response of two
  rows and a body that is no webhook; two background runs, two losses of each id; with
  the queue, without it, and with a configuration in which every run fails.
  `ConcurrentLimit.cfg` has three runs and a limit of two.
* Time: countdowns stop at 0 and ages at their timeout, so no counter grows.

### Fairness

* `BatchQueue`: the timer fires, requests end (axios has a timeout), promises
  continue: weak fairness, as an event loop gives it. `RowsAreTaken` is strong
  fairness for SFMC accepting a row that is offered again and again; only
  `EveryRowDelivered` needs it. It assumes of SFMC that it does not refuse a row for
  ever, and of the traffic that a row is not put again and again in one batch with a row
  that is over the record limit, for which `payload-validator.js:61` refuses the whole
  call before SFMC is asked.
* `UpsertRetry`: timers, the event loop and the end of every request, weakly. Nothing
  is assumed of what SFMC answers; the administrator and the death of tokens are not
  fair.
* `QueueWorkers`: each worker polls again and its upserts end, time passes: weak
  fairness. `RetryDue` needs strong fairness, because the retry worker takes the head
  out of the list and puts it back again and again, which disables and enables it;
  in reality the time of `nextRetryAt` passes whatever the list does. Arrivals,
  `Shutdown`, `Exit` and `Start` are not fair. `EveryMessageSettled` has the traffic as
  its hypothesis: the main queue is below `IDLE_THRESHOLD` from some time on. The code
  does not see to that; `MainQueueDrains` does not need it.

* `WebhookIntake`: `setImmediate` calls back, every await ends, a process that ended
  is started again (a restart policy of the container), and the queue delivers what
  it holds, which is `EveryRowDelivered`. The end of the process, deliveries and
  the loss of ids are not fair. `RestRoutes` is checked for safety only;
  `NobodyWaitsInVain` is the part of its liveness that the code could get wrong.

Deadlock is checked in all runs. `BatchQueue` has `Terminated` for a process that is
gone; in `QueueWorkers` the process can always be started, and in `UpsertRetry` the
next call can always be made.

## 5. Proofs

TLAPS checks these for every value of the constants that meets the named
assumptions.

**`BatchQueueProofs`**, from `ItemsAssumption`, `LimitsAssumption` and
`FlushersAssumption` of `BatchQueue`. The inductive invariant `IInv` is the type
invariant, `OneFlush`, `HeldOnce`, `NothingForgotten`, `SizeAccounted` and two
strengthenings. `FramesOK`: a flush that is not waiting for SFMC has tried all of its
snapshot; without it `FlushReturns` could drop rows. `HeldAccepted`: what is held was
accepted; without it a new row could already be in a snapshot. The two steps that
carry the proof are `Flush`, which moves the queue into an idle flush (lemma
`FlushKeeps`), and `BatchFailed`, which moves the rows of one batch back (lemmas
`PickRows`, `PushRows`: rows picked at positions of an injective sequence are
distinct, and disjoint from the queue). From `IInv` follow

* `TypeCorrect`, `MutualExclusion`, `NoRowForgotten`, `NoRowTwice`, `SizeIsRight`;
* `ImplementsBuffer`: `BatchQueue` implements `AtLeastOnce` under the mapping of
  `held` to the queue and the untried rows of the snapshots;
* `ConfirmedStays` and `StatsAreRight`, the latter with the cardinality of `Held`
  followed through each step;
* `RequestsAreWithinLimits`, with one more part, that a flush that waits for SFMC has
  rows left to send (without it the batch would be empty), and lemma `NextBatchLimits`:
  the last position of a batch (`LastPosition`, by well-founded induction over finite
  sets) is one up to which the untried rows fit, and fewer rows have fewer bytes;
* `QuietShutdown`, with an invariant of its own: while a quiet shutdown waits, the
  rows of the signal are in SFMC or in its flush, unless that flush has failed.

**`PayloadValidatorProofs`**, from `SizesAssumption`: what `splitIntoBatches()` and
`validateAndSplit()` compute for every sequence of rows. The loops are folds, which are
defined by recursion over the sets of positions; lemma `FoldExists` shows that the
recursion has a solution, and the `...HasTrace` lemmas turn a fold into the sequence of
the values its loop goes through. The induction is over sets of numbers: a set that has
0 and the successor of each member is `Nat` (`NaturalsBySuccessor`, from the
well-foundedness of `<`), so that no theorem with an operator parameter is needed. Along
the loop, the closed parts with the open one are the rows read so far
(`SplitKeepsTheRows`), and every part is small, which is less than valid: the sum of its
sizes is within the split limit, or it is one record (`SplitFindsValidParts`). From both,
`PartsOrRefusal` and `OnlyLargeRecordsRefused`; the latter needs the case of a single
part that is the whole call, which the code refuses: it cannot happen, because such a
part would have been valid.

**`UpsertRetryProofs`**: the invariant `AttemptsInv` ties `attempts` to `retryCount` by
the place the call is at, and gives `BoundedAttempts` and `SlotsAreRequests`;
`RetryAfterRespected` needs that the pause SFMC asked for is covered by the pause of
the limiter, or by the sleep before the request, and holds whatever form the other
headers have, because only one in seconds asks for a pause; `RefusedIsFinal` follows from the table of the
classifier. `PartsHaveTheRows` and `RefusalsAreForLargeRecords` bring the theorems of
`PayloadValidatorProofs` to the call. The type invariant needs
that `part` is a position in `parts` while a call runs (`PartInv`), and `OkIsInserted`
also that the parts before it are in SFMC (`DoneInv`).

**`QueueWorkersProofs`**, from `MessagesAssumption` and `LimitsAssumption`. The inductive
invariant has named parts, each of which a theorem adds to those before it:

* `ControlOK`: which of `batch`, `popped`, `next` and `held` are live, for every value of
  `bw` and `rw`.
* `OnePlace`: the six places of a message (the three lists, the batch, the message popped
  too many, the message of the retry worker) are disjoint, no list has one twice, and
  all were enqueued. The place "batch" is not what the worker still has to place
  (`InBatch` of the properties) but all of the batch until the routing starts: an error
  in the middle routes also the messages that were already upserted, and they must not
  be anywhere else by then. Each step moves one message, or lets messages leave
  (lemmas `MovedStep`, `LeftStep`). It gives `MessageInOnePlace` and, with the steps
  that let a message leave, `NoMessageVanishes`.
* `TriesCounted`: `retryCount` is the number of tries, which is none before a message is
  in the retry DLQ. It gives `RetriesAreBounded`.
* `Line`: batch, popped message and main list, which every step keeps a suffix of the
  arrivals (`ArrivalOrderKept`).
* `AllCounted`: what no counter and no list counts, but a worker may still count or put
  into a list, is added to the sum (`CountersNeverRunAhead`): a batch under routing counts
  from `next`, a retried message until its counter is incremented.
* `OfferedOK`: what waits was never offered to SFMC, and the messages of the batch before
  `next` were. With it every step is one of `MessageStore` or changes nothing it shows
  (`ImplementsStore`).

`BatchesAreWithinLimits` needs the types and `OnePlace` only: `Pop` weighs a message before it adds it.

**`TokenLockProofs`**, from `CallersAssumption` and `TimesAssumption`. `TokenInv` adds
two strengthenings to the types and `NobodyWaitsInVain`. `RefreshInv`: the refreshes
whose promise was dropped are at most as many as the calls of `clearTokenCache()`; it
counts dropped refreshes and not all of them, because the `finally` of a dropped one
drops the promise of the next, and that step has to keep the count (lemma
`SettleKeepsCount`: one refresh ends, so one more may be without its promise).
`LifeInv`: a token of the cache has lost at most `TIMEOUT` more than the cache thinks, and
one on its way at most `TIMEOUT`. That a dropped refresh may overwrite the cache with an
older token is in it. From these: `PromisesAreKept`, `FewRefreshes`, `TokensAreGood`.

**`RestRoutesProofs`**, from those and `RetriesAssumption`. `RoutesImplementTokenLock`:
every step of a route is a step of `TokenLock` or leaves its variables alone, so the
theorems of `TokenLock` hold of the routes (`RoutesShareTokens`).
In `EventsAnsweredOkAreWritten`, a 200 to an event comes from `PostSucceeds` alone, which
is also the step that writes; the types need `Progress`, that a request which sleeps has
a retry left.

**`PayloadFormatsProofs`**, from `FormatsAssumption`: `RuntimesMakeTheSame`, an
equivalence, by cases on whether the first rewrite of the TS runtime happens. If it
does (no `version`), both runtimes make the same `Format2` body. If it does not, the
second rewrite makes another body or none, and the columns and the type of the two are
compared: they are the same if and only if the body tells its type and no null hides a
click. TLC evaluates the same statement, which has no state, as an assumption of
`MCRestRoutes`.

**`WebhookIntakeProofs`**, from `EnvironmentsAssumption` and `BoundsAssumption`.
`RunsBounded` is inductive with the types; each step that changes `runs` or `cache` keeps
the count (lemmas `AcknowledgeCounts`, `ForgetCounts`). `HandedOverIsSafe` follows from
`RowsInv`, which says of each run which of its rows must be somewhere: those before the
one it is at, that one too when it awaits `enqueue()` or is done; and of each row that it
belongs to a run that has come to it. The steps of a run are reduced to one lemma,
`RowsKept`.

Every safety property of the passing runs, state invariants and action properties, is
a theorem. Only model-checked is liveness under fairness (`EveryRowDelivered`,
`ShutdownReturns`, `CallsEnd`, `MainQueueDrains`, `EveryMessageSettled`, `EveryRunEnds`), which is out of the
prover's reach. The violated properties have no theorem, being false.

## 6. Not modelled

See the components of `PROJECT.json`. The admin router of the TS queue is not mounted,
and `forceProcessNextRetry` is called by nobody; the queue of `lib/request-queue.js`
cannot be reached, because every request passes it. Text of columns, logging, the
SOAP service, health and statistics have no state or order for a model to follow.
The refill of the token bucket and the length of the backoff are arbitrary bounded
delays in `UpsertRetry`, and the class of an error is arbitrary in `QueueWorkers`.

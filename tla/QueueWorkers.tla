----------------------------- MODULE QueueWorkers -----------------------------
(***************************************************************************)
(* The queue of the TS runtime: three Redis lists (lib/redis-queue.ts),    *)
(* the batch worker that empties the main one (lib/batch-worker.ts), and   *)
(* the retry worker that empties the retry DLQ when the main queue is idle *)
(* (lib/retry-worker.ts).  Both upsert with services/sfmcRest.ts.          *)
(*                                                                         *)
(* Redis outlives the process, its commands are atomic, and every await is *)
(* a step: what a worker has popped is in the memory of the process only.  *)
(* A message is its id; the copy in the retry DLQ has a retryCount, and    *)
(* says whether its nextRetryAt has passed.                                *)
(***************************************************************************)
EXTENDS Integers, Sequences, FiniteSets, Functions, SequencesExt, FiniteSetsExt

CONSTANTS Messages,
          Bytes,            \* sum of messageBytes over a set of messages
          MAX_BATCH,        \* batchConfig.maxBatchSize
          MAX_BYTES,        \* batchConfig.maxBatchBytes
          MAX_RETRIES,      \* retryConfig.maxRetries
          IDLE_THRESHOLD,   \* idleDetector.idleQueueThreshold
          SMART_TIMEOUT,    \* 3 seconds, in ticks
          FALLBACK_TIMEOUT, \* 30 seconds, in ticks
          None

ASSUME MessagesAssumption ==
  /\ None \notin Messages
  /\ None \notin [id : Messages, retryCount : Nat, due : BOOLEAN]
  /\ Bytes \in [SUBSET Messages -> Nat]
  /\ Bytes[{}] = 0
  /\ \A S, T \in SUBSET Messages : S \cap T = {} => Bytes[S \cup T] = Bytes[S] + Bytes[T]
ASSUME LimitsAssumption ==
  /\ {MAX_BATCH, IDLE_THRESHOLD, SMART_TIMEOUT, FALLBACK_TIMEOUT} \subseteq Nat \ {0}
  /\ {MAX_BYTES, MAX_RETRIES} \subseteq Nat

VARIABLES
  main, retry, bad,   \* Redis: webhook:queue:main, :dlq:retry, :dlq:bad-payload
  stats,              \* Redis: the counters stats:total_*
  process,            \* "up", "closing" (Redis connection closed), "down"
  bw,                 \* batch worker: where it is
  batch,              \* batch worker: messages it dequeued
  popped,             \* batch worker: message that does not fit in batch
  next,               \* batch worker: position in batch
  retryable,          \* batch worker: the error was classified as retryable
  collecting,         \* batch worker: currentBatchSize > 0
  sinceLast,          \* batch worker: ticks since lastMessageTime
  batchAge,           \* batch worker: ticks since batchStartTime
  rw,                 \* retry worker: where it is
  held,               \* retry worker: the message it popped
  idle,               \* idle detector: "no", "short", "long"
  inserted,           \* SFMC: rows of the Data Extension
  arrived,            \* history: messages enqueued, in order
  dropped,            \* history: upserts that returned status ERROR
  gone,               \* history: lost with the process, not inserted or dropped
  tries               \* history: upserts of the retry worker, per message

redisVars == <<main, retry, bad, stats>>
batchVars == <<bw, batch, popped, next, retryable>>
timerVars == <<collecting, sinceLast, batchAge>>
retryVars == <<rw, held>>
historyVars == <<arrived, dropped, gone, tries>>
vars == <<redisVars, process, batchVars, timerVars, retryVars, idle, inserted,
          historyVars>>

-------------------------------------------------------------------------------
Ids(entries) == {entries[k].id : k \in DOMAIN entries}

\* totalBytes of dequeueBatch()
BatchBytes == Bytes[Range(batch)]

\* Messages the batch worker still has to place, and all that is in memory.
InBatch == IF bw \in {"pop", "pushBack", "upsert", "route"}
             THEN {batch[k] : k \in next .. Len(batch)} \cup ({popped} \ {None})
             ELSE {}
InMemory == InBatch \cup (IF held = None THEN {} ELSE {held.id})
InRedis == Range(main) \cup Ids(retry) \cup Range(bad)

\* The messages of the batch that are in no list.  Until the routing starts these
\* are all of them: an error routes also those that were upserted.
Unrouted == IF bw = "route" THEN {batch[k] : k \in next .. Len(batch)} ELSE Range(batch)
Popped == {popped} \ {None}
HeldId == IF held = None THEN {} ELSE {held.id}

-------------------------------------------------------------------------------
Init ==
  /\ main = <<>> /\ retry = <<>> /\ bad = <<>>
  /\ stats = [processed |-> 0, failed |-> 0, discarded |-> 0]
  /\ process = "down"
  /\ bw = "off" /\ batch = <<>> /\ popped = None /\ next = 1
  /\ retryable = FALSE
  /\ collecting = FALSE /\ sinceLast = 0 /\ batchAge = 0
  /\ rw = "off" /\ held = None
  /\ idle = "no"
  /\ inserted = {}
  /\ arrived = <<>> /\ dropped = {} /\ gone = {}
  /\ tries = [m \in Messages |-> 0]

\* The server starts its workers when it listens.
Start ==
  /\ process = "down"
  /\ process' = "up"
  /\ bw' = "sleep"
  /\ rw' = "sleep"
  /\ UNCHANGED <<redisVars, batch, popped, next, retryable, timerVars, held, idle,
                 inserted, historyVars>>

\* enqueueMain(), by a webhook handler.
EnqueueMain(m) ==
  /\ process = "up"
  /\ m \notin Range(arrived)
  /\ main' = Append(main, m)
  /\ arrived' = Append(arrived, m)
  /\ UNCHANGED <<retry, bad, stats, process, batchVars, timerVars, retryVars, idle,
                 inserted, dropped, gone, tries>>

-------------------------------------------------------------------------------
(* The batch worker.                                                         *)

\* shouldFlush of processBatch()
ShouldFlush(size, sinceMsg, sinceStart) ==
  \/ size >= MAX_BATCH
  \/ size >= 2 /\ sinceMsg >= SMART_TIMEOUT
  \/ sinceStart >= FALLBACK_TIMEOUT

\* A bug to detect: a batch is flushed only when it is full.
FlushWhenFull == Len(main) >= MAX_BATCH

\* What processBatch() decides: it has just set lastMessageTime to now, also when
\* no message came.
FlushNow == ShouldFlush(Len(main), sinceLast', IF collecting THEN batchAge ELSE 0)

\* processBatch() up to the first lpop of dequeueBatch(); currentBatchSize is 0
\* from there on, whatever dequeueBatch() returns.
Poll ==
  /\ process = "up"
  /\ bw = "sleep"
  /\ sinceLast' = 0
  /\ bw' = IF main # <<>> /\ FlushNow THEN "pop" ELSE "sleep"
  /\ collecting' = (main # <<>> /\ ~FlushNow)
  /\ batchAge' = IF collecting /\ collecting' THEN batchAge ELSE 0
  /\ UNCHANGED <<redisVars, process, batch, popped, next, retryable, retryVars,
                 idle, inserted, historyVars>>

\* A bug to detect: the new message is not weighed.
FitsUnweighed(m) == BatchBytes <= MAX_BYTES

\* The test of dequeueBatch(): a batch takes at least one message.
Fits(m) == batch = <<>> \/ BatchBytes + Bytes[{m}] <= MAX_BYTES

\* One lpop of dequeueBatch().
Pop ==
  /\ process = "up"
  /\ bw = "pop"
  /\ IF main = <<>> \/ Len(batch) = MAX_BATCH
       THEN /\ bw' = IF batch = <<>> THEN "sleep" ELSE "upsert"
            /\ UNCHANGED <<main, batch, popped>>
       ELSE /\ main' = Tail(main)
            /\ IF Fits(Head(main))
                 THEN batch' = Append(batch, Head(main)) /\ UNCHANGED <<bw, popped>>
                 ELSE popped' = Head(main) /\ bw' = "pushBack" /\ UNCHANGED batch
  /\ UNCHANGED <<retry, bad, stats, process, next, retryable, timerVars, retryVars,
                 idle, inserted, historyVars>>

\* A bug to detect: the message goes back to the wrong end.
PushBackAtTail == Append(main, popped)

\* ... or nowhere.
PushBackForgotten == main

\* lpush of the message that did not fit.
PushedBack == <<popped>> \o main

PushBack ==
  /\ process = "up"
  /\ bw = "pushBack"
  /\ main' = PushedBack
  /\ popped' = None
  /\ bw' = "upsert"
  /\ UNCHANGED <<retry, bad, stats, process, batch, next, retryable, timerVars,
                 retryVars, idle, inserted, historyVars>>

\* upsertToDataExtension() resolves: with status OK, or, after its own retries,
\* with status ERROR, which the loop does not look at.  The row may be in SFMC
\* also then, if an answer was lost.
UpsertResolves ==
  /\ process # "down"
  /\ bw = "upsert"
  /\ next <= Len(batch)
  /\ \/ inserted' = inserted \cup {batch[next]} /\ UNCHANGED dropped
     \/ dropped' = dropped \cup {batch[next]} /\ UNCHANGED inserted
     \/ /\ dropped' = dropped \cup {batch[next]}
        /\ inserted' = inserted \cup {batch[next]}
  /\ next' = next + 1
  /\ UNCHANGED <<redisVars, process, bw, batch, popped, retryable, timerVars,
                 retryVars, idle, arrived, gone, tries>>

\* A bug to detect: only what was not upserted yet is sent to a DLQ, starting
\* after the message that failed.
RouteRest == next + 1

\* routeFailedMessages() takes all the messages of the batch.
RouteFrom == 1

\* upsertToDataExtension() throws, and classifyError() looks at the text of the error:
\* there is no token, or SFMC has taken the row and its answer has no body, which is
\* an error of no known type.
UpsertThrows ==
  /\ process # "down"
  /\ bw = "upsert"
  /\ next <= Len(batch)
  /\ \/ retryable' \in BOOLEAN /\ UNCHANGED inserted
     \/ retryable' = FALSE /\ inserted' = inserted \cup {batch[next]}
  /\ bw' = "route"
  /\ next' = RouteFrom
  /\ UNCHANGED <<redisVars, process, batch, popped, timerVars, retryVars, idle,
                 historyVars>>

\* enqueueRetry(): retryCount is attemptCount - 1, and dequeueBatch() made that 1.
RetryEntry(m) == [id |-> m, retryCount |-> 0, due |-> FALSE]

\* enqueueRetry() or enqueueBadPayload() of one message.
Route ==
  /\ process = "up"
  /\ bw = "route"
  /\ next <= Len(batch)
  /\ IF retryable
       THEN retry' = Append(retry, RetryEntry(batch[next])) /\ UNCHANGED bad
       ELSE bad' = Append(bad, batch[next]) /\ UNCHANGED retry
  /\ next' = next + 1
  /\ UNCHANGED <<main, stats, process, bw, batch, popped, retryable, timerVars,
                 retryVars, idle, inserted, historyVars>>

\* A bug to detect: a failed batch counts as processed.
CountAll == [stats EXCEPT !.processed = @ + Len(batch)]

\* incrementStat('processed') after the loop, incrementStat('failed') after the
\* routing.
CountBatch ==
  IF bw = "upsert" THEN [stats EXCEPT !.processed = @ + Len(batch)]
                   ELSE [stats EXCEPT !.failed = @ + Len(batch)]

\* The batch is done with; poll() sleeps.
BatchDone ==
  /\ process = "up"
  /\ bw \in {"upsert", "route"}
  /\ next > Len(batch)
  /\ stats' = CountBatch
  /\ bw' = "sleep"
  /\ batch' = <<>>
  /\ next' = 1
  /\ retryable' = FALSE
  /\ UNCHANGED <<main, retry, bad, process, popped, timerVars, retryVars, idle,
                 inserted, historyVars>>

-------------------------------------------------------------------------------
(* The retry worker.                                                         *)

\* A bug to detect: every check starts the idle time again.
IdleRestarted == IF Len(main) >= IDLE_THRESHOLD THEN "no" ELSE "short"

\* updateIdleState(): the idle time counts from the first check that finds the main
\* queue short, until one does not.
IdleState ==
  IF Len(main) >= IDLE_THRESHOLD THEN "no" ELSE IF idle = "no" THEN "short" ELSE idle

\* checkAndProcess()
CheckIdle ==
  /\ process = "up"
  /\ rw = "sleep"
  /\ idle' = IdleState
  /\ rw' = IF IdleState = "long" THEN "pop" ELSE "sleep"
  /\ UNCHANGED <<redisVars, process, batchVars, timerVars, held, inserted,
                 historyVars>>

\* A bug to detect: the retry DLQ is read, not popped.
RetryReadOnly == retry

\* What lpop leaves in the retry DLQ.
RetryPopped == Tail(retry)

\* getNextRetryMessage(): lpop, and the check of nextRetryAt.
PopRetry ==
  /\ process = "up"
  /\ rw = "pop"
  /\ IF retry = <<>>
       THEN rw' = "sleep" /\ UNCHANGED <<retry, held>>
       ELSE /\ retry' = RetryPopped
            /\ held' = Head(retry)
            /\ rw' = IF Head(retry).due THEN "upsert" ELSE "pushBack"
  /\ UNCHANGED <<main, bad, stats, process, batchVars, timerVars, idle, inserted,
                 historyVars>>

\* lpush of a message that is not due.
PushBackRetry ==
  /\ process = "up"
  /\ rw = "pushBack"
  /\ retry' = <<held>> \o retry
  /\ held' = None
  /\ rw' = "sleep"
  /\ UNCHANGED <<main, bad, stats, process, batchVars, timerVars, idle, inserted,
                 historyVars>>

\* upsertToDataExtension() resolves, as in UpsertResolves: 'processed' is next.
RetryResolves ==
  /\ process # "down"
  /\ rw = "upsert"
  /\ \/ inserted' = inserted \cup {held.id} /\ UNCHANGED dropped
     \/ dropped' = dropped \cup {held.id} /\ UNCHANGED inserted
     \/ /\ dropped' = dropped \cup {held.id}
        /\ inserted' = inserted \cup {held.id}
  /\ tries' = [tries EXCEPT ![held.id] = @ + 1]
  /\ rw' = "count"
  /\ held' = None
  /\ UNCHANGED <<redisVars, process, batchVars, timerVars, idle, arrived, gone>>

RetryCounted ==
  /\ process = "up"
  /\ rw = "count"
  /\ stats' = [stats EXCEPT !.processed = @ + 1]
  /\ rw' = "sleep"
  /\ UNCHANGED <<main, retry, bad, process, batchVars, timerVars, held, idle,
                 inserted, historyVars>>

\* It throws: requeueRetry() below the limit, enqueueBadPayload() at it.
RetryThrows ==
  /\ process # "down"
  /\ rw = "upsert"
  /\ inserted' \in {inserted, inserted \cup {held.id}}
  /\ tries' = [tries EXCEPT ![held.id] = @ + 1]
  /\ rw' = "failed"
  /\ UNCHANGED <<redisVars, process, batchVars, timerVars, held, idle, arrived,
                 dropped, gone>>

\* A bug to detect: there is no limit.
RequeueAlways == TRUE

\* message.retryCount < message.maxRetries
RetriesLeft == held.retryCount < MAX_RETRIES

Requeue ==
  /\ process = "up"
  /\ rw = "failed"
  /\ RetriesLeft
  /\ retry' = Append(retry, [id |-> held.id, retryCount |-> held.retryCount + 1,
                             due |-> FALSE])
  /\ held' = None
  /\ rw' = "sleep"
  /\ UNCHANGED <<main, bad, stats, process, batchVars, timerVars, idle, inserted,
                 historyVars>>

Discard ==
  /\ process = "up"
  /\ rw = "failed"
  /\ ~RetriesLeft
  /\ bad' = Append(bad, held.id)
  /\ held' = None
  /\ rw' = "discarded"
  /\ UNCHANGED <<main, retry, stats, process, batchVars, timerVars, idle, inserted,
                 historyVars>>

\* incrementStat('discarded')
DiscardCounted ==
  /\ process = "up"
  /\ rw = "discarded"
  /\ stats' = [stats EXCEPT !.discarded = @ + 1]
  /\ rw' = "sleep"
  /\ UNCHANGED <<main, retry, bad, process, batchVars, timerVars, held, idle,
                 inserted, historyVars>>

-------------------------------------------------------------------------------
(* Time, and the end of the process.                                         *)

\* nextRetryAt of the k-th message has passed.
RetryDue(k) ==
  /\ k \in DOMAIN retry
  /\ ~retry[k].due
  /\ retry' = [retry EXCEPT ![k].due = TRUE]
  /\ UNCHANGED <<main, bad, stats, process, batchVars, timerVars, retryVars, idle,
                 inserted, historyVars>>

\* The queue has been idle for idleDurationMs.
IdleLong ==
  /\ idle = "short"
  /\ idle' = "long"
  /\ UNCHANGED <<redisVars, process, batchVars, timerVars, retryVars, inserted,
                 historyVars>>

\* Time passes for the batch worker; what is beyond a timeout is alike.
Tick ==
  /\ collecting
  /\ batchAge' = Min({batchAge + 1, FALLBACK_TIMEOUT})
  /\ sinceLast' = Min({sinceLast + 1, SMART_TIMEOUT})
  /\ UNCHANGED <<redisVars, process, batchVars, collecting, retryVars, idle,
                 inserted, historyVars>>

\* SIGTERM: the workers are told to stop, and the Redis connection is closed.  A
\* worker that is not asleep goes on until it needs Redis.  Nothing polls any more, so
\* what the timers and the idle detector hold is forgotten here.
Shutdown ==
  /\ process = "up"
  /\ process' = "closing"
  /\ collecting' = FALSE /\ sinceLast' = 0 /\ batchAge' = 0
  /\ idle' = "no"
  /\ UNCHANGED <<redisVars, batchVars, retryVars, inserted, historyVars>>

\* The process ends, after a shutdown or by a crash: what it had in memory is lost.
Exit ==
  /\ process # "down"
  /\ process' = "down"
  /\ gone' = gone \cup (InMemory \ (inserted \cup dropped))
  /\ bw' = "off" /\ batch' = <<>> /\ popped' = None /\ next' = 1
  /\ retryable' = FALSE
  /\ collecting' = FALSE /\ sinceLast' = 0 /\ batchAge' = 0
  /\ rw' = "off" /\ held' = None
  /\ idle' = "no"
  /\ UNCHANGED <<redisVars, inserted, arrived, dropped, tries>>

BatchStep ==
  Poll \/ Pop \/ PushBack \/ UpsertResolves \/ UpsertThrows \/ Route \/ BatchDone
RetryStep ==
  \/ CheckIdle \/ PopRetry \/ PushBackRetry \/ RetryResolves \/ RetryCounted
  \/ RetryThrows \/ Requeue \/ Discard \/ DiscardCounted

Next ==
  \/ Start
  \/ \E m \in Messages : EnqueueMain(m)
  \/ BatchStep
  \/ RetryStep
  \/ \E k \in DOMAIN retry : RetryDue(k)
  \/ IdleLong
  \/ Tick
  \/ Shutdown
  \/ Exit

Spec == Init /\ [][Next]_vars

\* The event loop goes on, time passes, and axios ends every request.
Progress ==
  /\ WF_vars(BatchStep)
  /\ WF_vars(RetryStep)
  /\ WF_vars(Tick)
  /\ WF_vars(IdleLong)
  /\ SF_vars(\E k \in DOMAIN retry : RetryDue(k))

FairSpec == Spec /\ Progress

-------------------------------------------------------------------------------
(* Properties.                                                               *)

RetryEntries == [id : Messages, retryCount : 0 .. MAX_RETRIES, due : BOOLEAN]

\* Type invariant of the module's state.
TypeOK ==
  /\ main \in Seq(Messages) /\ retry \in Seq(RetryEntries) /\ bad \in Seq(Messages)
  /\ stats \in [{"processed", "failed", "discarded"} -> Nat]
  /\ process \in {"up", "closing", "down"}
  /\ bw \in {"off", "sleep", "pop", "pushBack", "upsert", "route"}
  /\ batch \in Seq(Messages) /\ popped \in Messages \cup {None} /\ next \in Nat \ {0}
  /\ retryable \in BOOLEAN
  /\ collecting \in BOOLEAN /\ sinceLast \in 0 .. SMART_TIMEOUT
  /\ batchAge \in 0 .. FALLBACK_TIMEOUT
  /\ rw \in {"off", "sleep", "pop", "pushBack", "upsert", "count", "failed", "discarded"}
  /\ held \in RetryEntries \cup {None}
  /\ idle \in {"no", "short", "long"}
  /\ inserted \subseteq Messages
  /\ arrived \in Seq(Messages) /\ dropped \subseteq Messages /\ gone \subseteq Messages
  /\ tries \in [Messages -> Nat]

\* A message that was enqueued is in a list, in the memory of a worker, or in the
\* Data Extension; there are two ways out: an upsert that returned ERROR, and the
\* end of the process while a worker held it.
NothingVanishes ==
  Range(arrived) \subseteq InRedis \cup InMemory \cup inserted \cup dropped \cup gone

\* A message is in one place: two workers, push-backs, requeues and restarts never
\* make two copies of it.
HeldInOnePlace ==
  /\ Cardinality(Range(main)) = Len(main)
  /\ Cardinality(Ids(retry)) = Len(retry)
  /\ Cardinality(Range(bad)) = Len(bad)
  /\ Cardinality(InRedis) = Len(main) + Len(retry) + Len(bad)
  /\ InMemory \cap InRedis = {}
  /\ held # None => held.id \notin InBatch

\* The main queue and the batch taken from it keep the order of arrival, although
\* dequeueBatch() pops one message too many and new ones arrive meanwhile.
OrderKept ==
  IsSuffix(batch \o (IF popped = None THEN <<>> ELSE <<popped>>) \o main, arrived)

\* A batch is within both limits unless it is one message.
BatchWithinLimits ==
  /\ Len(batch) <= MAX_BATCH
  /\ Len(batch) > 1 => BatchBytes <= MAX_BYTES

\* The counters never count a message as processed that is still queued, or twice:
\* a failed batch counts when its messages are retried.
NoDoubleCount ==
  stats.processed + Len(main) + Len(retry) + Len(bad) <= Len(arrived)

\* The retry worker tries a message MAX_RETRIES + 1 times at most.
TriesBounded == \A m \in Messages : tries[m] <= MAX_RETRIES + 1

\* A message does not stay in the main queue while the process runs, also if no batch
\* is ever full: the fallback timeout takes what there is.
MainQueueDrains ==
  \A m \in Messages : m \in Range(main) ~> (m \notin Range(main) \/ process # "up")

\* If the traffic lets up, so that from some time on every check of the retry worker
\* finds the main queue below its threshold, every message leaves the queues while the
\* process runs, although only the head of the retry DLQ is looked at.  (While the main
\* queue stays at the threshold, the retry DLQ waits.)
EveryMessageSettled ==
  <>[](Len(main) < IDLE_THRESHOLD) =>
    \A m \in Messages :
      m \in Range(arrived)
        ~> (m \in inserted \cup dropped \cup gone \cup Range(bad) \/ process # "up")

\* "Route messages to appropriate DLQ based on error type" (lib/batch-worker.ts):
\* when a batch is done, each of its messages whose upsert failed is in a DLQ.
FailedAreRouted ==
  [][BatchDone => \A m \in Range(batch) \cap dropped : m \in Ids(retry) \cup Range(bad)]_vars

-------------------------------------------------------------------------------
\* The workers implement the abstract store.
Store == INSTANCE MessageStore WITH
  Messages <- Messages,
  accepted <- Range(arrived),
  waiting <- Range(main),
  delayed <- Ids(retry),
  dead <- Range(bad),
  taken <- Unrouted \cup Popped \cup HeldId,
  offered <- inserted \cup dropped,
  inserted <- inserted

\* Every Redis command, upsert and end of the process takes, puts, offers or loses
\* messages as the store does, or changes nothing it shows.
StoreSpec == Store!Spec
===============================================================================

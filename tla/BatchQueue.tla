------------------------------ MODULE BatchQueue ------------------------------
(***************************************************************************)
(* lib/queue.js: the in-memory queue of the JS runtime (node server.js)    *)
(* that batches Data Extension rows before they are upserted to SFMC.      *)
(*                                                                         *)
(* The code runs on one event loop, so the model interleaves the pieces    *)
(* between two awaits.  A call of flush() that starts processQueue() is a  *)
(* member of Flushers; it goes through                                     *)
(*    idle --> upserting --> returned --> idle                             *)
(* where "upserting" is suspended in batchUpsertToSFMC() for one batch and *)
(* "returned" is the gap between the resolution of processQueue()'s        *)
(* promise and the continuation that clears processingPromise.             *)
(*                                                                         *)
(* createBatches() is evaluated one batch at a time: its greedy split of   *)
(* the rows of one Data Extension depends on nothing that changes while    *)
(* the flush is running.  Rows are items of a set, their bytes a number.   *)
(***************************************************************************)
EXTENDS Integers, Sequences, FiniteSets, Functions

CONSTANTS Items,            \* the rows the callers of enqueue() pass
          DeKeys,           \* data extension keys
          DeKeyOf,          \* item.dataExtensionKey
          Bytes,            \* sum of calculateSize(item) over a set of items
          BATCH_SIZE,       \* rows per request
          SIZE_LIMIT,       \* 0.9 * MAX_REQUEST_SIZE
          Flushers,         \* calls of flush() that may own a processQueue()
          None              \* null

ASSUME ItemsAssumption ==
  /\ DeKeyOf \in [Items -> DeKeys]
  /\ Bytes \in [SUBSET Items -> Nat]
  /\ Bytes[{}] = 0
  /\ \A S, T \in SUBSET Items : S \cap T = {} => Bytes[S \cup T] = Bytes[S] + Bytes[T]
ASSUME LimitsAssumption == BATCH_SIZE \in Nat \ {0} /\ SIZE_LIMIT \in Nat \ {0}
ASSUME FlushersAssumption == None \notin Flushers

VARIABLES
  queue,              \* queue
  queueSize,          \* queueSize
  flushTimer,         \* the interval of startFlushTimer() is armed
  processingPromise,  \* None, or the flush whose promise it is
  sfmcClient,         \* initQueue() has run
  stats,              \* the two counters of stats that must balance
  pc,                 \* where each flush is
  itemsToProcess,     \* processQueue(): its snapshot of queue
  handled,            \* processQueue(): positions of the snapshot already tried
  failed,             \* processQueue(): totalErrors > 0, or no client
  process,            \* the node process: "up", "exited", "crashed"
  shutdown,           \* shutdown(): "no", "flushing", "returned"
  shutdownOk,         \* the success flag shutdown() returned
  accepted,           \* history: rows enqueue() took
  atSignal,           \* history: rows accepted when shutdown() was called
  busyAtSignal,       \* history: a flush was in progress at that time
  inserted            \* SFMC: rows of the Data Extension

queueVars == <<queue, queueSize>>
frameVars == <<pc, itemsToProcess, handled, failed>>
shutdownVars == <<shutdown, shutdownOk, atSignal, busyAtSignal>>
vars == <<queue, queueSize, flushTimer, processingPromise, sfmcClient, stats,
          frameVars, process, shutdownVars, accepted, inserted>>

-------------------------------------------------------------------------------
(* Helpers: rows by their positions in a snapshot.                           *)

ItemsAt(s, I) == {s[k] : k \in I}
BytesOf(s, I) == Bytes[ItemsAt(s, I)]

\* The members of a finite set of positions in increasing order.
InOrder(I) ==
  CHOOSE p \in [1 .. Cardinality(I) -> I] :
    \A a, b \in 1 .. Cardinality(I) : a < b => p[a] < p[b]

\* A bug to detect: everything the flush took goes back to the queue.
PickEverything(s, I) == s

\* The rows of s at the positions I, in the order of s.
Pick(s, I) == LET p == InOrder(I) IN [n \in 1 .. Cardinality(I) |-> s[p[n]]]

\* A bug to detect: the size is compared before the last row is added.
FitsUnweighed(s, I) ==
  /\ Cardinality(I) <= BATCH_SIZE
  /\ BytesOf(s, {k \in I : \E j \in I : k < j}) < SIZE_LIMIT

\* createBatches(): the rows at I fit in one request.
FitsInRequest(s, I) ==
  Cardinality(I) <= BATCH_SIZE /\ BytesOf(s, I) < SIZE_LIMIT

\* The batch tried next: the rows left of the Data Extension that is first in s of
\* those with rows left (Object.entries(grouped) is in order of first appearance), as
\* many of them, from the front, as createBatches() puts in one batch.  A row that is
\* too large by itself is a batch of its own.
NextBatch(s, done) ==
  LET left     == DOMAIN s \ done
      keys     == {DeKeyOf[s[k]] : k \in left}
      first    == CHOOSE k \in DOMAIN s :
                    /\ DeKeyOf[s[k]] \in keys
                    /\ \A j \in 1 .. k - 1 : DeKeyOf[s[j]] \notin keys
      items    == {k \in left : DeKeyOf[s[k]] = DeKeyOf[s[first]]}
      upto(k)  == {j \in items : j <= k}
  IN  {k \in items : upto(k) = {k} \/ FitsInRequest(s, upto(k))}

Batch(f) == NextBatch(itemsToProcess[f], handled[f])
Outstanding(f) ==
  ItemsAt(itemsToProcess[f], DOMAIN itemsToProcess[f] \ handled[f])

\* Everything the process still has to deliver.
Held == Range(queue) \cup UNION {Outstanding(f) : f \in Flushers}

-------------------------------------------------------------------------------
Init ==
  /\ queue = <<>>
  /\ queueSize = 0
  /\ flushTimer = FALSE
  /\ processingPromise = None
  /\ sfmcClient = FALSE
  /\ stats = [totalQueued |-> 0, totalProcessed |-> 0]
  /\ pc = [f \in Flushers |-> "idle"]
  /\ itemsToProcess = [f \in Flushers |-> <<>>]
  /\ handled = [f \in Flushers |-> {}]
  /\ failed = [f \in Flushers |-> FALSE]
  /\ process = "up"
  /\ shutdown = "no"
  /\ shutdownOk = FALSE
  /\ accepted = {}
  /\ atSignal = {}
  /\ busyAtSignal = FALSE
  /\ inserted = {}

\* initQueue(client), called by the first webhook (initializeHandler).
InitQueue ==
  /\ process = "up"
  /\ ~sfmcClient
  /\ sfmcClient' = TRUE
  /\ flushTimer' = TRUE
  /\ UNCHANGED <<queueVars, processingPromise, stats, frameVars, process,
                 shutdownVars, accepted, inserted>>

\* A bug to detect: flush() does not look at processingPromise.
FlushUnguarded == FALSE

\* flush() finds a flush whose promise it can share.
FlushInProgress == processingPromise # None

\* processQueue() up to its first await, on a queue that holds q (of size n
\* bytes): it takes everything, or puts it back when there is no client.
ProcessQueue(f, q, n) ==
  /\ pc[f] = "idle"
  /\ processingPromise' = f
  /\ queue' = IF sfmcClient THEN <<>> ELSE q
  /\ queueSize' = IF sfmcClient THEN 0 ELSE n
  /\ pc' = [pc EXCEPT ![f] = IF sfmcClient THEN "upserting" ELSE "returned"]
  /\ itemsToProcess' = [itemsToProcess EXCEPT ![f] = IF sfmcClient THEN q ELSE <<>>]
  /\ handled' = [handled EXCEPT ![f] = {}]
  /\ failed' = [failed EXCEPT ![f] = ~sfmcClient]

\* flush() when the queue holds q (of n bytes): callers that find a flush in
\* progress share its promise, and an empty queue needs none.
Flush(q, n) ==
  IF FlushInProgress \/ q = <<>>
    THEN /\ queue' = q
         /\ queueSize' = n
         /\ UNCHANGED <<processingPromise, frameVars>>
    ELSE \E f \in Flushers : ProcessQueue(f, q, n)

\* enqueue(): push the row, and flush when a threshold is reached.
Enqueue(i) ==
  /\ process = "up"
  /\ i \notin accepted
  /\ accepted' = accepted \cup {i}
  /\ stats' = [stats EXCEPT !.totalQueued = @ + 1]
  /\ LET q == Append(queue, i)
         n == queueSize + Bytes[{i}]
     IN  IF Len(q) >= BATCH_SIZE \/ n >= SIZE_LIMIT
           THEN Flush(q, n)
           ELSE /\ queue' = q
                /\ queueSize' = n
                /\ UNCHANGED <<processingPromise, frameVars>>
  /\ UNCHANGED <<flushTimer, sfmcClient, process, shutdownVars, inserted>>

\* A bug to detect: the timer leaves a part of a batch in the queue.
TimerWantsFullBatch == Len(queue) >= BATCH_SIZE

\* The periodic flush has something to do.
TimerWantsFlush == Len(queue) > 0

\* The callback of setInterval() in startFlushTimer().
TimerFlush ==
  /\ process = "up"
  /\ flushTimer
  /\ TimerWantsFlush
  /\ Flush(queue, queueSize)
  /\ UNCHANGED <<flushTimer, sfmcClient, stats, process, shutdownVars, accepted,
                 inserted>>

\* POST /admin/flush-queue.
AdminFlush ==
  /\ process = "up"
  /\ Flush(queue, queueSize)
  /\ UNCHANGED <<flushTimer, sfmcClient, stats, process, shutdownVars, accepted,
                 inserted>>

\* The positions the batch loop is done with after the batch of f: all of it,
\* upserted or not.
Tried(f, isError) == handled[f] \cup Batch(f)

\* The batch of flush f is settled: on to the next batch, or processQueue()
\* returns.
Settle(f, isError) ==
  LET done == Tried(f, isError)
  IN  /\ handled' = [handled EXCEPT ![f] = done]
      /\ failed' = [failed EXCEPT ![f] = @ \/ isError]
      /\ pc' = [pc EXCEPT ![f] = IF done = DOMAIN itemsToProcess[f]
                                   THEN "returned" ELSE "upserting"]
      /\ UNCHANGED itemsToProcess

\* A bug to detect: every success counts the whole flush.
ProcessedAll(f) == stats.totalProcessed + Len(itemsToProcess[f])

\* stats.totalProcessed after a success.
Processed(f) == stats.totalProcessed + Cardinality(Batch(f))

\* batchUpsertToSFMC() resolves.
BatchUpserted(f) ==
  /\ process = "up"
  /\ pc[f] = "upserting"
  /\ inserted' = inserted \cup ItemsAt(itemsToProcess[f], Batch(f))
  /\ stats' = [stats EXCEPT !.totalProcessed = Processed(f)]
  /\ Settle(f, FALSE)
  /\ UNCHANGED <<queueVars, flushTimer, processingPromise, sfmcClient, process,
                 shutdownVars, accepted>>

\* A bug to detect: failed rows are dropped.
DropRows(rows) == queue

\* A bug to detect: the bytes of re-queued rows are not counted ...
SizeWithoutRequeued(f) == queueSize

\* ... or are subtracted a second time.
SizeMinusRequeued(f) == queueSize - BytesOf(itemsToProcess[f], Batch(f))

\* The queue and its size after the failed rows are pushed back.
Requeue(rows) == queue \o rows
RequeueSize(f) == queueSize + BytesOf(itemsToProcess[f], Batch(f))

\* batchUpsertToSFMC() throws, after SFMC took some of the first rows (the
\* client sends a large batch in parts, and an answer may be lost): the whole
\* batch goes to the end of the queue.
BatchFailed(f) ==
  /\ process = "up"
  /\ pc[f] = "upserting"
  /\ LET rows == Pick(itemsToProcess[f], Batch(f))
     IN  /\ \E k \in 0 .. Len(rows) :
              inserted' = inserted \cup ItemsAt(rows, 1 .. k)
         /\ queue' = Requeue(rows)
  /\ queueSize' = RequeueSize(f)
  /\ Settle(f, TRUE)
  /\ UNCHANGED <<flushTimer, processingPromise, sfmcClient, stats, process,
                 shutdownVars, accepted>>

\* A bug to detect: processQueue() reports success whatever happened.
ResultAlwaysOk(f) == TRUE

\* The success flag processQueue() returns.
ResultOk(f) == ~failed[f]

\* A bug to detect: shutdown() waits for a flush that succeeds.
AwaitsSuccess(f) == shutdown = "flushing" /\ ~failed[f]

\* shutdown() awaits the promise of flush f.
Awaits(f) == shutdown = "flushing"

\* flush() continues after `await processingPromise`; a shutdown() that waits
\* for this promise gets its result.
FlushReturns(f) ==
  /\ process = "up"
  /\ pc[f] = "returned"
  /\ pc' = [pc EXCEPT ![f] = "idle"]
  /\ itemsToProcess' = [itemsToProcess EXCEPT ![f] = <<>>]
  /\ handled' = [handled EXCEPT ![f] = {}]
  /\ failed' = [failed EXCEPT ![f] = FALSE]
  /\ processingPromise' = None
  /\ IF Awaits(f)
       THEN shutdown' = "returned" /\ shutdownOk' = ResultOk(f)
       ELSE UNCHANGED <<shutdown, shutdownOk>>
  /\ UNCHANGED <<queueVars, flushTimer, sfmcClient, stats, process, atSignal,
                 busyAtSignal, accepted, inserted>>

\* shutdown() of the queue, called on the first SIGTERM or SIGINT.  The server
\* still listens: server.close() comes after it.
Shutdown ==
  /\ process = "up"
  /\ shutdown = "no"
  /\ flushTimer' = FALSE
  /\ Flush(queue, queueSize)
  /\ IF Len(queue) > 0
       THEN shutdown' = "flushing" /\ UNCHANGED shutdownOk
       ELSE shutdown' = "returned" /\ shutdownOk' = TRUE
  /\ atSignal' = accepted
  /\ busyAtSignal' = FlushInProgress
  /\ UNCHANGED <<sfmcClient, stats, process, accepted, inserted>>

\* server.close() calls back, or its 15 seconds are over.
Exit ==
  /\ process = "up"
  /\ shutdown = "returned"
  /\ process' = "exited"
  /\ UNCHANGED <<queueVars, flushTimer, processingPromise, sfmcClient, stats,
                 frameVars, shutdownVars, accepted, inserted>>

\* An uncaught exception ends the process, or it is killed.
Crash ==
  /\ process = "up"
  /\ process' = "crashed"
  /\ UNCHANGED <<queueVars, flushTimer, processingPromise, sfmcClient, stats,
                 frameVars, shutdownVars, accepted, inserted>>

\* Nothing is left to do once the process is gone.
Terminated == process # "up" /\ UNCHANGED vars

FlushStep(f) ==
  \/ BatchUpserted(f)
  \/ BatchFailed(f)
  \/ FlushReturns(f)

Next ==
  \/ InitQueue
  \/ \E i \in Items : Enqueue(i)
  \/ TimerFlush
  \/ AdminFlush
  \/ \E f \in Flushers : FlushStep(f)
  \/ Shutdown
  \/ Exit
  \/ Crash
  \/ Terminated

Spec == Init /\ [][Next]_vars

\* An event loop that keeps running: the timer fires, every request to SFMC
\* ends (axios has a timeout) one way or the other, every promise resolves.
Progress ==
  /\ WF_vars(InitQueue)
  /\ WF_vars(TimerFlush)
  /\ \A f \in Flushers :
       /\ WF_vars(BatchUpserted(f) \/ BatchFailed(f))
       /\ WF_vars(FlushReturns(f))

\* SFMC takes a row that it is offered again and again.
RowsAreTaken ==
  \A i \in Items :
    SF_vars(\E f \in Flushers :
              i \in ItemsAt(itemsToProcess[f], Batch(f)) /\ BatchUpserted(f))

FairSpec == Spec /\ Progress
DeliverySpec == FairSpec /\ RowsAreTaken

-------------------------------------------------------------------------------
(* Properties.                                                               *)

\* Type invariant of the module's state.
TypeOK ==
  /\ queue \in Seq(Items)
  /\ queueSize \in Nat
  /\ flushTimer \in BOOLEAN
  /\ processingPromise \in Flushers \cup {None}
  /\ sfmcClient \in BOOLEAN
  /\ stats \in [totalQueued : Nat, totalProcessed : Nat]
  /\ pc \in [Flushers -> {"idle", "upserting", "returned"}]
  /\ itemsToProcess \in [Flushers -> Seq(Items)]
  /\ handled \in [Flushers -> SUBSET Nat]
  /\ failed \in [Flushers -> BOOLEAN]
  /\ process \in {"up", "exited", "crashed"}
  /\ shutdown \in {"no", "flushing", "returned"}
  /\ shutdownOk \in BOOLEAN
  /\ accepted \subseteq Items
  /\ atSignal \subseteq Items
  /\ busyAtSignal \in BOOLEAN
  /\ inserted \subseteq Items

\* "Prevent concurrent flushes" (flush): however enqueue(), the timer, the admin
\* endpoint and shutdown() interleave, one processQueue() at most is under way,
\* and it is the one whose promise the others share.
OneFlush ==
  \A f \in Flushers : pc[f] # "idle" <=> processingPromise = f

\* A row that enqueue() took is in memory or in SFMC: no interleaving of pushes,
\* snapshots, failed batches and re-queueing forgets one.
NothingForgotten == accepted \subseteq Held \cup inserted

\* A row is held once, in the queue or in the snapshot of a flush, so that it is
\* never part of two requests at a time and a retry does not multiply it.
HeldOnce ==
  /\ IsInjective(queue)
  /\ \A f \in Flushers :
       /\ IsInjective(itemsToProcess[f])
       /\ Outstanding(f) \cap Range(queue) = {}
       /\ \A g \in Flushers \ {f} : Outstanding(f) \cap Outstanding(g) = {}

\* queueSize, the counter the size threshold of enqueue() reads, is the bytes of
\* the rows in the queue after any mix of pushes, snapshots and re-queueing.
SizeAccounted == queueSize = Bytes[Range(queue)]

\* The statistics agree with what is in memory at every await: a retried row is
\* not queued twice, a failed one is not processed.
StatsBalance ==
  stats.totalQueued = stats.totalProcessed + Cardinality(Held)

\* createBatches(): a request holds rows of one Data Extension, at least one and
\* at most BATCH_SIZE, and stays under the size limit unless a single row does
\* not fit.
RequestWithinLimits ==
  \A f \in Flushers : pc[f] = "upserting" =>
    LET rows == ItemsAt(itemsToProcess[f], Batch(f))
    IN  /\ Cardinality(rows) \in 1 .. BATCH_SIZE
        /\ \A i, j \in rows : DeKeyOf[i] = DeKeyOf[j]
        /\ Cardinality(rows) = 1 \/ Bytes[rows] < SIZE_LIMIT

\* shutdown() that finds no flush in progress and reports success has delivered
\* every row accepted before the signal, whatever was enqueued while it waited.
QuietShutdownDelivers ==
  shutdownOk /\ ~busyAtSignal => atSignal \subseteq inserted

\* What server.js reports after `await shutdownQueue()` ("Flush queue before
\* shutdown", "Queue flushed successfully"), without the restriction to a quiet
\* queue: a shutdown() that returns success leaves no accepted row behind.
ShutdownDelivers ==
  process = "exited" /\ shutdownOk => atSignal \subseteq inserted

\* A row whose batch SFMC confirmed is out of memory for good: nothing sends it
\* again.
ConfirmedForGood == [][accepted \ Held \subseteq accepted' \ Held']_vars

\* With the timer running and SFMC taking a row that it is offered again and
\* again, every accepted row reaches the Data Extension unless the process is
\* told to stop or dies.
EveryRowDelivered ==
  \A i \in Items :
    i \in accepted ~> (i \in inserted \/ shutdown # "no" \/ process # "up")

\* shutdown() always returns, even if every request fails: the failed rows are
\* re-queued, and the flush does not take them up again.
ShutdownReturns ==
  shutdown = "flushing" ~> (shutdown = "returned" \/ process # "up")

-------------------------------------------------------------------------------
(* The inductive invariant behind the safety properties.                     *)

\* A flush that is not waiting for SFMC has tried all of its snapshot.
FramesOK ==
  \A f \in Flushers :
    /\ handled[f] \subseteq DOMAIN itemsToProcess[f]
    /\ pc[f] # "upserting" => handled[f] = DOMAIN itemsToProcess[f]

\* Nothing is held that was never enqueued.
HeldAccepted == Held \subseteq accepted

IInv ==
  /\ TypeOK
  /\ OneFlush
  /\ FramesOK
  /\ HeldOnce
  /\ HeldAccepted
  /\ NothingForgotten
  /\ SizeAccounted

-------------------------------------------------------------------------------
\* The queue implements the abstract buffer.
Buffer == INSTANCE AtLeastOnce WITH
  Items <- Items,
  accepted <- accepted,
  held <- Held,
  inserted <- inserted,
  running <- (process = "up")

\* Every step of the queue accepts one row, delivers held rows, stops, or changes
\* nothing the abstract buffer shows.
BufferSpec == Buffer!Spec
===============================================================================

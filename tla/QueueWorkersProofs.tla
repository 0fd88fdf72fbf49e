-------------------------- MODULE QueueWorkersProofs --------------------------
(***************************************************************************)
(* What holds of QueueWorkers for every set of messages, all limits and    *)
(* any number of restarts.                                                 *)
(***************************************************************************)
EXTENDS QueueWorkers, SequenceTheorems, FiniteSetTheorems, TLAPS

-------------------------------------------------------------------------------
(* The inductive invariant, in named parts.                                  *)

\* What is live where a worker is: the batch worker holds a batch only between
\* its pops and the end of the batch, and one more message only until it has
\* pushed it back; the retry worker holds a message until it knows what became
\* of it.
ControlOK ==
  /\ process = "down" <=> bw = "off"
  /\ process = "down" <=> rw = "off"
  /\ bw \in {"off", "sleep"} => batch = <<>>
  /\ bw \in {"off", "sleep", "pop", "pushBack"} => next = 1
  /\ next <= Len(batch) + 1
  /\ popped # None <=> bw = "pushBack"
  /\ held # None <=> rw \in {"pushBack", "upsert", "failed"}

\* The six places a message can be in.
Places ==
  <<Range(main), Ids(retry), Range(bad), Unrouted, Popped, HeldId>>

PairwiseDisjoint(P) == \A i, j \in 1 .. 6 : i # j => P[i] \cap P[j] = {}

PlacesOK ==
  PairwiseDisjoint(Places) /\ \A i \in 1 .. 6 : Places[i] \subseteq Range(arrived)

IdsOf(entries) == [k \in DOMAIN entries |-> entries[k].id]

\* A message is once in one place, and only if it was enqueued.
OnePlace ==
  /\ IsInjective(main) /\ IsInjective(IdsOf(retry)) /\ IsInjective(bad)
  /\ IsInjective(batch)
  /\ PlacesOK

\* Messages that have not been in the retry DLQ.
Untried == Range(main) \cup Unrouted \cup Popped

\* retryCount is the number of times the retry worker has tried the message,
\* which is none before it is in the retry DLQ.
TriesCounted ==
  /\ \A m \in Messages \ Range(arrived) : tries[m] = 0
  /\ \A m \in Untried : tries[m] = 0
  /\ \A k \in DOMAIN retry : tries[retry[k].id] = retry[k].retryCount
  /\ held # None =>
       tries[held.id] = held.retryCount + (IF rw = "failed" THEN 1 ELSE 0)

\* Messages in memory that no counter and no list counts.
UnroutedCount == IF bw = "route" THEN Len(batch) + 1 - next ELSE Len(batch)
PoppedCount == IF popped = None THEN 0 ELSE 1
HeldCount == IF held = None THEN 0 ELSE 1
UpsertedCount == IF rw = "count" THEN 1 ELSE 0
Uncounted == UnroutedCount + PoppedCount + HeldCount + UpsertedCount

Queued == Len(main) + Len(retry) + Len(bad)

AllCounted == stats.processed + Queued + Uncounted <= Len(arrived)

-------------------------------------------------------------------------------
(* Types.                                                                    *)

\* The smaller of two numbers is one of them.
LEMMA MinOfTwo ==
  ASSUME NEW a \in Nat, NEW b \in Nat
  PROVE  Min({a, b}) \in {a, b} /\ Min({a, b}) <= b
<1>1. \E x \in {a, b} : \A y \in {a, b} : x <= y
  BY a <= b \/ b <= a
<1>2. QED
  BY <1>1 DEF Min

\* A counter that is added to stays a number.
LEMMA StatsAdd ==
  ASSUME NEW s \in [{"processed", "failed", "discarded"} -> Nat], NEW n \in Nat
  PROVE  /\ [s EXCEPT !.processed = @ + n] \in [{"processed", "failed", "discarded"} -> Nat]
         /\ [s EXCEPT !.failed = @ + n] \in [{"processed", "failed", "discarded"} -> Nat]
         /\ [s EXCEPT !.discarded = @ + n] \in [{"processed", "failed", "discarded"} -> Nat]
OBVIOUS

\* Messages joined in two ways.
LEMMA MessagesConcat ==
  ASSUME NEW front \in Seq(Messages), NEW middle \in Seq(Messages), NEW back \in Seq(Messages)
  PROVE  (front \o middle) \o back = front \o (middle \o back)
BY ConcatAssociative

\* The worker handles messages of its batch.
LEMMA NextIsInBatch ==
  ASSUME batch \in Seq(Messages), next \in Nat \ {0}, next <= Len(batch)
  PROVE  next \in 1 .. Len(batch) /\ batch[next] \in Messages
<1>1. Len(batch) \in Nat
  BY LenProperties
<1>2. next \in 1 .. Len(batch)
  BY <1>1
<1>3. QED
  BY <1>2, ElementOfSeq

LEMMA RestOfBatch ==
  ASSUME batch \in Seq(Messages), next \in Nat \ {0}
  PROVE  {batch[k] : k \in next .. Len(batch)} \subseteq Messages
<1>1. Len(batch) \in Nat
  BY LenProperties
<1>2. \A k \in next .. Len(batch) : k \in 1 .. Len(batch)
  BY <1>1
<1>3. \A k \in 1 .. Len(batch) : batch[k] \in Messages
  BY ElementOfSeq
<1>4. QED
  BY <1>2, <1>3

\* A step keeps every variable in its type; what is in memory follows from where
\* the workers are.
LEMMA TypeStep ==
  ASSUME TypeOK, ControlOK, [Next]_vars
  PROVE  TypeOK'
<1> USE DEF TypeOK, redisVars, batchVars,
      timerVars, retryVars, historyVars
<1>0. <<>> \in Seq(Messages)
  BY EmptySeq
<1>1. CASE Start
  BY <1>1 DEF Start
<1>2. ASSUME NEW m \in Messages, EnqueueMain(m) PROVE TypeOK'
  <2>1. main' \in Seq(Messages) /\ arrived' \in Seq(Messages)
    BY <1>2, AppendProperties DEF EnqueueMain
  <2>2. QED
    BY <1>2, <2>1 DEF EnqueueMain
<1>3. CASE Poll
  <2>1. 0 \in 0 .. SMART_TIMEOUT /\ 0 \in 0 .. FALLBACK_TIMEOUT
    BY ONLY LimitsAssumption
  <2>2. sinceLast' \in 0 .. SMART_TIMEOUT /\ batchAge' \in 0 .. FALLBACK_TIMEOUT
    BY <1>3, <2>1 DEF Poll
  <2>3. collecting' \in BOOLEAN /\ bw' \in {"sleep", "pop"}
    BY <1>3 DEF Poll
  <2>4. QED
    BY <1>3, <2>2, <2>3 DEF Poll
<1>4. CASE Pop
  <2>1. main # <<>> => Head(main) \in Messages /\ Tail(main) \in Seq(Messages)
    BY HeadTailProperties
  <2>2. main # <<>> => Append(batch, Head(main)) \in Seq(Messages)
    BY <2>1, AppendProperties
  <2>3. QED
    BY <1>4, <2>1, <2>2 DEF Pop
<1>5. CASE PushBack
  <2>1. popped \in Messages
    BY <1>5 DEF PushBack, ControlOK
  <2>2. <<popped>> \o main \in Seq(Messages)
    BY <2>1, ConcatProperties
  <2>3. QED
    BY <1>5, <2>2 DEF PushBack, PushedBack
<1>6. CASE UpsertResolves
  <2>1. batch[next] \in Messages /\ next + 1 \in Nat \ {0}
    BY <1>6, NextIsInBatch DEF UpsertResolves
  <2>2. inserted' \subseteq Messages /\ dropped' \subseteq Messages
    BY <1>6, <2>1 DEF UpsertResolves
  <2>3. UNCHANGED <<main, retry, bad, stats, process, bw, batch, popped, retryable,
                    collecting, sinceLast, batchAge, rw, held, idle, arrived, gone, tries>>
    BY <1>6 DEF UpsertResolves
  <2>4. next' \in Nat \ {0}
    BY <1>6, <2>1 DEF UpsertResolves
  <2>5. QED
    BY <2>2, <2>3, <2>4
<1>7. CASE UpsertThrows
  <2>1. next' \in Nat \ {0} /\ bw' = "route"
    BY <1>7 DEF UpsertThrows, RouteFrom
  <2>2. batch[next] \in Messages
    BY <1>7, NextIsInBatch DEF UpsertThrows
  <2>3. inserted' \subseteq Messages
    BY <1>7, <2>2 DEF UpsertThrows
  <2>4. QED
    BY <1>7, <2>1, <2>3 DEF UpsertThrows
<1>8. CASE Route
  <2>1. batch[next] \in Messages /\ next + 1 \in Nat \ {0}
    BY <1>8, NextIsInBatch DEF Route
  <2>2. RetryEntry(batch[next]) \in RetryEntries
    BY <2>1, LimitsAssumption DEF RetryEntry, RetryEntries
  <2>3. /\ Append(retry, RetryEntry(batch[next])) \in Seq(RetryEntries)
        /\ Append(bad, batch[next]) \in Seq(Messages)
    BY <2>1, <2>2, AppendProperties
  <2>4. QED
    BY <1>8, <2>1, <2>3 DEF Route
<1>9. CASE BatchDone
  <2>1. stats' = [stats EXCEPT !.processed = @ + Len(batch)]
          \/ stats' = [stats EXCEPT !.failed = @ + Len(batch)]
    BY <1>9 DEF BatchDone, CountBatch
  <2>2. stats' \in [{"processed", "failed", "discarded"} -> Nat]
    <3>1. PICK n \in Nat : n = Len(batch)
      OBVIOUS
    <3>2. stats' = [stats EXCEPT !.processed = @ + n] \/ stats' = [stats EXCEPT !.failed = @ + n]
      BY <2>1, <3>1
    <3>3. stats \in [{"processed", "failed", "discarded"} -> Nat]
      OBVIOUS
    <3>4. QED
      BY ONLY <3>2, <3>3, StatsAdd
  <2>3. QED
    <3>1. batch' \in Seq(Messages)
      BY <1>9, <1>0 DEF BatchDone
    <3>2. next' \in Nat \ {0}
      BY <1>9 DEF BatchDone
    <3>3. QED
      BY <1>9, <3>1, <3>2, <2>2 DEF BatchDone
<1>10. CASE CheckIdle
  BY <1>10 DEF CheckIdle, IdleState
<1>11. CASE PopRetry
  <2>1. retry # <<>> => Head(retry) \in RetryEntries /\ Tail(retry) \in Seq(RetryEntries)
    BY HeadTailProperties
  <2>2. QED
    BY <1>11, <2>1 DEF PopRetry, RetryPopped
<1>12. CASE PushBackRetry
  <2>1. held \in RetryEntries
    BY <1>12 DEF PushBackRetry, ControlOK
  <2>2. <<held>> \o retry \in Seq(RetryEntries)
    BY <2>1, ConcatProperties
  <2>3. QED
    BY <1>12, <2>2 DEF PushBackRetry
<1>13. CASE RetryResolves
  <2>1. held # None
    BY <1>13 DEF RetryResolves, ControlOK
  <2>2. held.id \in Messages
    BY <2>1 DEF RetryEntries
  <2>3. tries' \in [Messages -> Nat]
    <3>1. tries' = [tries EXCEPT ![held.id] = @ + 1] /\ tries \in [Messages -> Nat]
      BY <1>13 DEF RetryResolves
    <3>2. QED
      BY ONLY <2>2, <3>1
  <2>4. inserted' \subseteq Messages /\ dropped' \subseteq Messages
    BY <1>13, <2>2 DEF RetryResolves
  <2>5. QED
    BY <1>13, <2>3, <2>4 DEF RetryResolves
<1>14. CASE RetryCounted
  <2>1. stats' \in [{"processed", "failed", "discarded"} -> Nat]
    BY <1>14, StatsAdd DEF RetryCounted
  <2>2. QED
    BY <1>14, <2>1 DEF RetryCounted
<1>15. CASE RetryThrows
  <2>1. held # None
    BY <1>15 DEF RetryThrows, ControlOK
  <2>2. held.id \in Messages
    BY <2>1 DEF RetryEntries
  <2>3. tries' \in [Messages -> Nat]
    <3>1. tries' = [tries EXCEPT ![held.id] = @ + 1] /\ tries \in [Messages -> Nat]
      BY <1>15 DEF RetryThrows
    <3>2. QED
      BY ONLY <2>2, <3>1
  <2>4. inserted' \subseteq Messages
    BY <1>15, <2>2 DEF RetryThrows
  <2>5. QED
    BY <1>15, <2>3, <2>4 DEF RetryThrows
<1>16. CASE Requeue
  <2>1. held \in RetryEntries
    BY <1>16 DEF Requeue, ControlOK
  <2>2. [id |-> held.id, retryCount |-> held.retryCount + 1, due |-> FALSE] \in RetryEntries
    <3>1. held.id \in Messages /\ held.retryCount \in Nat
      BY <2>1 DEF RetryEntries
    <3>2. MAX_RETRIES \in Nat /\ held.retryCount < MAX_RETRIES
      BY <1>16, LimitsAssumption DEF Requeue, RetriesLeft
    <3>3. held.retryCount + 1 \in 0 .. MAX_RETRIES
      BY ONLY <3>1, <3>2
    <3>4. QED
      BY <3>1, <3>3 DEF RetryEntries
  <2>3. retry' \in Seq(RetryEntries)
    BY <1>16, <2>2, AppendProperties DEF Requeue
  <2>4. QED
    BY <1>16, <2>3 DEF Requeue
<1>17. CASE Discard
  <2>1. held.id \in Messages
    BY <1>17 DEF Discard, ControlOK, RetryEntries
  <2>2. bad' \in Seq(Messages)
    BY <1>17, <2>1, AppendProperties DEF Discard
  <2>3. QED
    BY <1>17, <2>2 DEF Discard
<1>18. CASE DiscardCounted
  <2>1. stats' \in [{"processed", "failed", "discarded"} -> Nat]
    BY <1>18, StatsAdd DEF DiscardCounted
  <2>2. QED
    BY <1>18, <2>1 DEF DiscardCounted
<1>19. ASSUME NEW k \in DOMAIN retry, RetryDue(k) PROVE TypeOK'
  <2>1. k \in 1 .. Len(retry) /\ retry[k] \in RetryEntries
    OBVIOUS
  <2>2. [retry[k] EXCEPT !.due = TRUE] \in RetryEntries
    BY <2>1 DEF RetryEntries
  <2>3. retry' = [retry EXCEPT ![k] = [retry[k] EXCEPT !.due = TRUE]]
    BY <1>19 DEF RetryDue
  <2>4. retry' \in Seq(RetryEntries)
    BY <2>1, <2>2, <2>3, ExceptSeq
  <2>5. QED
    BY <1>19, <2>4 DEF RetryDue
<1>20. CASE IdleLong
  BY <1>20 DEF IdleLong
<1>21. CASE Tick
  <2>0. /\ batchAge + 1 \in Nat /\ sinceLast + 1 \in Nat
        /\ FALLBACK_TIMEOUT \in Nat /\ SMART_TIMEOUT \in Nat
    <3>1. FALLBACK_TIMEOUT \in Nat /\ SMART_TIMEOUT \in Nat
      BY ONLY LimitsAssumption
    <3>2. batchAge \in 0 .. FALLBACK_TIMEOUT /\ sinceLast \in 0 .. SMART_TIMEOUT
      OBVIOUS
    <3>3. QED
      BY ONLY <3>1, <3>2
  <2>1. /\ Min({batchAge + 1, FALLBACK_TIMEOUT}) \in 0 .. FALLBACK_TIMEOUT
        /\ Min({sinceLast + 1, SMART_TIMEOUT}) \in 0 .. SMART_TIMEOUT
    <3>1. /\ Min({batchAge + 1, FALLBACK_TIMEOUT}) \in {batchAge + 1, FALLBACK_TIMEOUT}
          /\ Min({batchAge + 1, FALLBACK_TIMEOUT}) <= FALLBACK_TIMEOUT
          /\ Min({sinceLast + 1, SMART_TIMEOUT}) \in {sinceLast + 1, SMART_TIMEOUT}
          /\ Min({sinceLast + 1, SMART_TIMEOUT}) <= SMART_TIMEOUT
      BY <2>0, MinOfTwo
    <3>2. QED
      BY ONLY <2>0, <3>1
  <2>2. QED
    BY <1>21, <2>1 DEF Tick
<1>22. CASE Shutdown
  <2>1. 0 \in 0 .. SMART_TIMEOUT /\ 0 \in 0 .. FALLBACK_TIMEOUT
    BY LimitsAssumption
  <2>2. QED
    BY <1>22, <2>1 DEF Shutdown
<1>23. CASE Exit
  <2>1. InMemory \subseteq Messages
    <3>1. InBatch \subseteq Messages
      <4>1. {batch[k] : k \in next .. Len(batch)} \subseteq Messages
        BY RestOfBatch
      <4>2. {popped} \ {None} \subseteq Messages
        OBVIOUS
      <4>3. QED
        BY ONLY <4>1, <4>2 DEF InBatch
    <3>2. held # None => held.id \in Messages
      BY DEF RetryEntries
    <3>3. QED
      BY <3>1, <3>2 DEF InMemory
  <2>2. QED
    <3>1. 0 \in 0 .. SMART_TIMEOUT /\ 0 \in 0 .. FALLBACK_TIMEOUT
      BY LimitsAssumption
    <3>2. gone' \subseteq Messages
      BY <1>23, <2>1 DEF Exit
    <3>3. QED
      <4>1. batch' \in Seq(Messages)
        BY <1>23, <1>0 DEF Exit
      <4>2. next' \in Nat \ {0} /\ popped' \in Messages \cup {None}
        BY <1>23 DEF Exit
      <4>3. sinceLast' \in 0 .. SMART_TIMEOUT /\ batchAge' \in 0 .. FALLBACK_TIMEOUT
        BY <1>23, <3>1 DEF Exit
      <4>4. held' \in RetryEntries \cup {None}
        BY <1>23 DEF Exit
      <4>5. QED
        BY <1>23, <4>1, <4>2, <4>3, <4>4, <3>2 DEF Exit
<1>24. CASE UNCHANGED vars
  BY <1>24 DEF vars
<1>25. QED
  BY <1>1, <1>2, <1>3, <1>4, <1>5, <1>6, <1>7, <1>8, <1>9, <1>10, <1>11, <1>12, <1>13,
     <1>14, <1>15, <1>16, <1>17, <1>18, <1>19, <1>20, <1>21, <1>22, <1>23, <1>24
  DEF Next, BatchStep, RetryStep

\* held tells an entry from none.
LEMMA NoneIsNoEntry == None \notin RetryEntries
BY MessagesAssumption, LimitsAssumption DEF RetryEntries

\* A step leaves the workers where their memory says.
LEMMA ControlStep ==
  ASSUME TypeOK, ControlOK, [Next]_vars
  PROVE  ControlOK'
<1> USE DEF ControlOK, redisVars, batchVars, timerVars, retryVars, historyVars
<1>0. Len(batch) \in Nat /\ next \in Nat \ {0} /\ Len(<<>>) = 0
  BY EmptySeq DEF TypeOK
<1>1. CASE Start
  BY <1>1 DEF Start
<1>2. ASSUME NEW m \in Messages, EnqueueMain(m) PROVE ControlOK'
  BY <1>2 DEF EnqueueMain
<1>3. CASE Poll
  BY <1>3, <1>0 DEF Poll
<1>4. CASE Pop
  <2>1. CASE main = <<>> \/ Len(batch) = MAX_BATCH
    BY <1>4, <2>1, <1>0 DEF Pop
  <2>2. CASE ~(main = <<>> \/ Len(batch) = MAX_BATCH)
    <3>1. Head(main) \in Messages /\ Head(main) # None
      <4>1. main \in Seq(Messages) /\ main # <<>>
        BY <2>2 DEF TypeOK
      <4>2. Head(main) \in Messages
        BY ONLY <4>1, HeadTailProperties
      <4>3. QED
        BY ONLY <4>2, MessagesAssumption
    <3>2. Len(Append(batch, Head(main))) = Len(batch) + 1
      BY <3>1, AppendProperties DEF TypeOK
    <3>3. QED
      BY <1>4, <1>0, <2>2, <3>1, <3>2 DEF Pop
  <2>3. QED
    BY <2>1, <2>2
<1>5. CASE PushBack
  BY <1>5, <1>0 DEF PushBack
<1>6. CASE UpsertResolves
  BY <1>6, <1>0 DEF UpsertResolves
<1>7. CASE UpsertThrows
  BY <1>7, <1>0 DEF UpsertThrows, RouteFrom
<1>8. CASE Route
  BY <1>8, <1>0 DEF Route
<1>9. CASE BatchDone
  BY <1>9, <1>0 DEF BatchDone
<1>10. CASE CheckIdle
  BY <1>10 DEF CheckIdle
<1>11. CASE PopRetry
  <2>1. retry # <<>> => Head(retry) # None
    <3>1. retry # <<>> => Head(retry) \in RetryEntries
      BY HeadTailProperties DEF TypeOK
    <3>2. QED
      BY <3>1, NoneIsNoEntry
  <2>2. QED
    BY <1>11, <2>1 DEF PopRetry
<1>12. CASE PushBackRetry
  BY <1>12 DEF PushBackRetry
<1>13. CASE RetryResolves
  BY <1>13 DEF RetryResolves
<1>14. CASE RetryCounted
  BY <1>14 DEF RetryCounted
<1>15. CASE RetryThrows
  BY <1>15 DEF RetryThrows
<1>16. CASE Requeue
  BY <1>16 DEF Requeue
<1>17. CASE Discard
  BY <1>17 DEF Discard
<1>18. CASE DiscardCounted
  BY <1>18 DEF DiscardCounted
<1>19. ASSUME NEW k \in DOMAIN retry, RetryDue(k) PROVE ControlOK'
  BY <1>19 DEF RetryDue
<1>20. CASE IdleLong
  BY <1>20 DEF IdleLong
<1>21. CASE Tick
  BY <1>21 DEF Tick
<1>22. CASE Shutdown
  BY <1>22 DEF Shutdown
<1>23. CASE Exit
  BY <1>23, <1>0 DEF Exit
<1>24. CASE UNCHANGED vars
  BY <1>24 DEF vars
<1>25. QED
  BY <1>1, <1>2, <1>3, <1>4, <1>5, <1>6, <1>7, <1>8, <1>9, <1>10, <1>11, <1>12, <1>13,
     <1>14, <1>15, <1>16, <1>17, <1>18, <1>19, <1>20, <1>21, <1>22, <1>23, <1>24
  DEF Next, BatchStep, RetryStep

LEMMA ControlInvariant == Spec => [](TypeOK /\ ControlOK)
<1>1. Init => TypeOK /\ ControlOK
  <2>1. ASSUME Init PROVE TypeOK
    <3>1. <<>> \in Seq(Messages) /\ <<>> \in Seq(RetryEntries)
      BY EmptySeq
    <3>2. 0 \in 0 .. SMART_TIMEOUT /\ 0 \in 0 .. FALLBACK_TIMEOUT
      BY LimitsAssumption
    <3>3. stats \in [{"processed", "failed", "discarded"} -> Nat]
      BY <2>1 DEF Init
    <3>4. /\ main \in Seq(Messages) /\ retry \in Seq(RetryEntries) /\ bad \in Seq(Messages)
          /\ batch \in Seq(Messages) /\ arrived \in Seq(Messages)
      BY <2>1, <3>1 DEF Init
    <3>5. tries \in [Messages -> Nat]
      BY <2>1 DEF Init
    <3>6. /\ process = "down" /\ bw = "off" /\ rw = "off" /\ idle = "no"
          /\ popped = None /\ held = None /\ next = 1
          /\ retryable = FALSE /\ collecting = FALSE /\ sinceLast = 0 /\ batchAge = 0
          /\ inserted = {} /\ dropped = {} /\ gone = {}
      BY <2>1 DEF Init
    <3>7. sinceLast \in 0 .. SMART_TIMEOUT /\ batchAge \in 0 .. FALLBACK_TIMEOUT
      BY <3>2, <3>6
    <3>8. retryable \in BOOLEAN /\ collecting \in BOOLEAN
      BY <2>1, Zenon DEF Init
    <3>9. next \in Nat \ {0}
      BY <3>6
    <3>10. QED
      BY <3>3, <3>4, <3>5, <3>6, <3>7, <3>8, <3>9 DEF TypeOK
  <2>2. ASSUME Init PROVE ControlOK
    BY <2>2, EmptySeq DEF Init, ControlOK
  <2>3. QED
    BY <2>1, <2>2
<1>2. TypeOK /\ ControlOK /\ [Next]_vars => (TypeOK /\ ControlOK)'
  BY TypeStep, ControlStep
<1>3. QED
  BY <1>1, <1>2, PTL DEF Spec

\* Every variable keeps its type, for every set of messages and all limits: the
\* workers never take a message from nowhere, and no message is requeued with a
\* count beyond the limit (lib/retry-worker.ts).
THEOREM WorkersTypeCorrect == Spec => []TypeOK
BY ControlInvariant, PTL

-------------------------------------------------------------------------------
(* Sequences without repetition, and what the list commands do to them.      *)

\* rpush
LEMMA AppendRange ==
  ASSUME NEW S, NEW s \in Seq(S), NEW x \in S
  PROVE  /\ Range(Append(s, x)) = Range(s) \cup {x}
         /\ IsInjective(s) /\ x \notin Range(s) => IsInjective(Append(s, x))
<1>1. /\ Append(s, x) \in Seq(S) /\ Len(Append(s, x)) = Len(s) + 1
      /\ \A i \in 1 .. Len(s) : Append(s, x)[i] = s[i]
      /\ Append(s, x)[Len(s) + 1] = x
  BY AppendProperties
<1>2. Range(s) = {s[i] : i \in 1 .. Len(s)}
  BY RangeEquality
<1>3. Range(Append(s, x)) = {Append(s, x)[i] : i \in 1 .. Len(s) + 1}
  BY <1>1, RangeEquality
<1>4. Len(s) \in Nat /\ DOMAIN s = 1 .. Len(s) /\ DOMAIN Append(s, x) = 1 .. Len(s) + 1
  BY <1>1, LenProperties
<1>5. Range(Append(s, x)) = Range(s) \cup {x}
  <2>1. \A y : y \in Range(Append(s, x)) <=> \E i \in 1 .. Len(s) + 1 : y = Append(s, x)[i]
    BY <1>3
  <2>2. \A y : y \in Range(s) <=> \E i \in 1 .. Len(s) : y = s[i]
    BY <1>2
  <2>3. \A i \in 1 .. Len(s) + 1 : i \in 1 .. Len(s) \/ i = Len(s) + 1
    BY <1>4
  <2>4. 1 .. Len(s) \subseteq 1 .. Len(s) + 1 /\ Len(s) + 1 \in 1 .. Len(s) + 1
    BY <1>4
  <2>5. QED
    BY <1>1, <2>1, <2>2, <2>3, <2>4
<1>6. ASSUME IsInjective(s), x \notin Range(s) PROVE IsInjective(Append(s, x))
  <2>1. \A i, j \in 1 .. Len(s) : s[i] = s[j] => i = j
    BY <1>4, <1>6 DEF IsInjective
  <2>2. \A i \in 1 .. Len(s) : s[i] # x
    BY <1>2, <1>6
  <2>3. QED
    BY <1>1, <1>4, <2>1, <2>2 DEF IsInjective
<1>7. QED
  BY <1>5, <1>6

\* lpush
LEMMA ConsRange ==
  ASSUME NEW S, NEW s \in Seq(S), NEW x \in S
  PROVE  /\ Range(<<x>> \o s) = Range(s) \cup {x}
         /\ IsInjective(s) /\ x \notin Range(s) => IsInjective(<<x>> \o s)
<1> DEFINE t == <<x>> \o s
<1>1. <<x>> \in Seq(S) /\ Len(<<x>>) = 1 /\ <<x>>[1] = x /\ Range(<<x>>) = {x}
  <2>1. <<x>> \in Seq(S) /\ Len(<<x>>) = 1 /\ <<x>>[1] = x
    OBVIOUS
  <2>2. Range(<<x>>) = {<<x>>[i] : i \in 1 .. 1}
    BY <2>1, RangeEquality
  <2>3. QED
    BY <2>1, <2>2
<1>2. /\ t \in Seq(S) /\ Len(t) = Len(s) + 1 /\ Len(s) \in Nat
      /\ \A i \in 1 .. Len(s) + 1 : t[i] = IF i = 1 THEN x ELSE s[i - 1]
  BY <1>1, ConcatProperties, LenProperties
<1>3. Range(t) = Range(s) \cup {x}
  <2>1. PICK u \in Seq(S) : u = <<x>>
    BY <1>1
  <2>2. Range(u \o s) = Range(u) \cup Range(s)
    BY ONLY <2>1, RangeConcatenation, s \in Seq(S)
  <2>3. QED
    BY <1>1, <2>1, <2>2
<1>4. ASSUME IsInjective(s), x \notin Range(s) PROVE IsInjective(t)
  <2>1. DOMAIN s = 1 .. Len(s) /\ DOMAIN t = 1 .. Len(s) + 1
    BY <1>2, LenProperties
  <2>2. Range(s) = {s[i] : i \in 1 .. Len(s)}
    BY RangeEquality
  <2>3. \A i, j \in 1 .. Len(s) : s[i] = s[j] => i = j
    BY <1>4, <2>1 DEF IsInjective
  <2>4. \A i \in 1 .. Len(s) : s[i] # x
    BY <1>4, <2>2
  <2>5. SUFFICES ASSUME NEW i \in 1 .. Len(s) + 1, NEW j \in 1 .. Len(s) + 1, t[i] = t[j]
                 PROVE  i = j
    BY <2>1 DEF IsInjective
  <2>6. /\ i # 1 => i - 1 \in 1 .. Len(s) /\ t[i] = s[i - 1]
        /\ j # 1 => j - 1 \in 1 .. Len(s) /\ t[j] = s[j - 1]
        /\ i = 1 => t[i] = x
        /\ j = 1 => t[j] = x
    BY <1>2
  <2>7. QED
    BY <2>3, <2>4, <2>5, <2>6
<1>5. QED
  BY <1>3, <1>4

\* lpop
LEMMA TailRange ==
  ASSUME NEW S, NEW s \in Seq(S), s # <<>>, IsInjective(s)
  PROVE  /\ Head(s) \in Range(s)
         /\ Range(Tail(s)) = Range(s) \ {Head(s)}
         /\ IsInjective(Tail(s))
<1>1. /\ Len(s) \in Nat \ {0} /\ DOMAIN s = 1 .. Len(s) /\ Head(s) = s[1]
      /\ Tail(s) \in Seq(S) /\ Len(Tail(s)) = Len(s) - 1
      /\ \A i \in 1 .. Len(s) - 1 : Tail(s)[i] = s[i + 1]
  BY EmptySeq, HeadTailProperties, LenProperties
<1>2. Range(s) = {s[i] : i \in 1 .. Len(s)}
  BY RangeEquality
<1>3. Range(Tail(s)) = {Tail(s)[i] : i \in 1 .. Len(s) - 1} /\ DOMAIN Tail(s) = 1 .. Len(s) - 1
  BY <1>1, RangeEquality, LenProperties
<1>4. \A i, j \in 1 .. Len(s) : s[i] = s[j] => i = j
  BY <1>1 DEF IsInjective
<1>5. Head(s) \in Range(s)
  BY <1>1, <1>2
<1>6. Range(Tail(s)) = Range(s) \ {Head(s)}
  <2>1. ASSUME NEW y \in Range(Tail(s)) PROVE y \in Range(s) \ {Head(s)}
    <3>1. PICK i \in 1 .. Len(s) - 1 : y = Tail(s)[i]
      BY <1>3, <2>1
    <3>2. i + 1 \in 1 .. Len(s) /\ i + 1 # 1 /\ 1 \in 1 .. Len(s) /\ y = s[i + 1]
      BY <1>1, <3>1
    <3>3. QED
      BY <1>1, <1>2, <1>4, <3>2
  <2>2. ASSUME NEW y \in Range(s), y # Head(s) PROVE y \in Range(Tail(s))
    <3>1. PICK i \in 1 .. Len(s) : y = s[i]
      BY <1>2, <2>2
    <3>2. i - 1 \in 1 .. Len(s) - 1 /\ (i - 1) + 1 = i
      BY <1>1, <2>2, <3>1
    <3>3. y = Tail(s)[i - 1]
      BY <1>1, <3>1, <3>2
    <3>4. QED
      BY <1>3, <3>2, <3>3
  <2>3. QED
    BY <2>1, <2>2
<1>7. IsInjective(Tail(s))
  <2>1. SUFFICES ASSUME NEW i \in 1 .. Len(s) - 1, NEW j \in 1 .. Len(s) - 1,
                        Tail(s)[i] = Tail(s)[j]
                 PROVE  i = j
    BY <1>3 DEF IsInjective
  <2>2. i + 1 \in 1 .. Len(s) /\ j + 1 \in 1 .. Len(s) /\ s[i + 1] = s[j + 1]
    BY <1>1, <2>1
  <2>3. QED
    BY <1>4, <2>2
<1>8. QED
  BY <1>5, <1>6, <1>7

\* The ids of the retry DLQ are a list too, and the list commands act on it alike.
LEMMA IdsOfEntries ==
  ASSUME NEW e \in Seq(RetryEntries)
  PROVE  /\ IdsOf(e) \in Seq(Messages) /\ Len(IdsOf(e)) = Len(e)
         /\ Ids(e) = Range(IdsOf(e))
         /\ \A k \in 1 .. Len(e) : IdsOf(e)[k] = e[k].id /\ e[k] \in RetryEntries
         /\ IdsOf(e) = <<>> <=> e = <<>>
<1>1. DOMAIN e = 1 .. Len(e) /\ Len(e) \in Nat
  BY LenProperties
<1>2. \A k \in 1 .. Len(e) : e[k] \in RetryEntries /\ e[k].id \in Messages
  <2>1. \A k \in 1 .. Len(e) : e[k] \in RetryEntries
    BY ElementOfSeq
  <2>2. \A x \in RetryEntries : x.id \in Messages
    BY DEF RetryEntries
  <2>3. QED
    BY <2>1, <2>2
<1>3. IdsOf(e) = [k \in 1 .. Len(e) |-> e[k].id]
  BY <1>1 DEF IdsOf
<1>4. IdsOf(e) \in Seq(Messages) /\ Len(IdsOf(e)) = Len(e)
  BY <1>1, <1>2, <1>3
<1>5. Ids(e) = Range(IdsOf(e))
  BY <1>1, <1>3 DEF Ids, Range
<1>6. IdsOf(e) = <<>> <=> e = <<>>
  BY <1>4, EmptySeq
<1>7. QED
  BY <1>2, <1>3, <1>4, <1>5, <1>6

LEMMA IdsOfAppend ==
  ASSUME NEW e \in Seq(RetryEntries), NEW x \in RetryEntries
  PROVE  IdsOf(Append(e, x)) = Append(IdsOf(e), x.id)
<1>1. x.id \in Messages
  BY DEF RetryEntries
<1>2. /\ Append(e, x) \in Seq(RetryEntries) /\ Len(Append(e, x)) = Len(e) + 1
      /\ \A k \in 1 .. Len(e) : Append(e, x)[k] = e[k]
      /\ Append(e, x)[Len(e) + 1] = x
      /\ Len(e) \in Nat
  BY AppendProperties
<1>3. /\ IdsOf(e) \in Seq(Messages) /\ Len(IdsOf(e)) = Len(e)
      /\ \A k \in 1 .. Len(e) : IdsOf(e)[k] = e[k].id
  BY IdsOfEntries
<1>4. /\ IdsOf(Append(e, x)) \in Seq(Messages) /\ Len(IdsOf(Append(e, x))) = Len(e) + 1
      /\ \A k \in 1 .. Len(e) + 1 : IdsOf(Append(e, x))[k] = Append(e, x)[k].id
  BY <1>2, IdsOfEntries
<1>5. /\ Append(IdsOf(e), x.id) \in Seq(Messages)
      /\ Len(Append(IdsOf(e), x.id)) = Len(e) + 1
      /\ \A k \in 1 .. Len(e) : Append(IdsOf(e), x.id)[k] = IdsOf(e)[k]
      /\ Append(IdsOf(e), x.id)[Len(e) + 1] = x.id
  BY <1>1, <1>3, AppendProperties
<1>6. \A k \in 1 .. Len(e) + 1 : IdsOf(Append(e, x))[k] = Append(IdsOf(e), x.id)[k]
  <2>1. TAKE k \in 1 .. Len(e) + 1
  <2>2. CASE k = Len(e) + 1
    BY <1>2, <1>4, <1>5, <2>2
  <2>3. CASE k # Len(e) + 1
    <3>1. k \in 1 .. Len(e)
      BY <1>2, <2>3
    <3>2. QED
      BY <1>2, <1>3, <1>4, <1>5, <3>1
  <2>4. QED
    BY <2>2, <2>3
<1>7. QED
  BY <1>4, <1>5, <1>6, SeqEqual

LEMMA IdsOfTail ==
  ASSUME NEW e \in Seq(RetryEntries), e # <<>>
  PROVE  /\ IdsOf(Tail(e)) = Tail(IdsOf(e)) /\ Head(e).id = Head(IdsOf(e))
         /\ Tail(e) \in Seq(RetryEntries) /\ Head(e) \in RetryEntries
<1>1. /\ Tail(e) \in Seq(RetryEntries) /\ Head(e) \in RetryEntries
      /\ Len(Tail(e)) = Len(e) - 1 /\ Len(e) \in Nat \ {0}
      /\ \A k \in 1 .. Len(e) - 1 : Tail(e)[k] = e[k + 1]
  BY HeadTailProperties, EmptySeq
<1>2. /\ IdsOf(e) \in Seq(Messages) /\ Len(IdsOf(e)) = Len(e) /\ IdsOf(e) # <<>>
      /\ \A k \in 1 .. Len(e) : IdsOf(e)[k] = e[k].id
  BY IdsOfEntries
<1>3. /\ IdsOf(Tail(e)) \in Seq(Messages) /\ Len(IdsOf(Tail(e))) = Len(e) - 1
      /\ \A k \in 1 .. Len(e) - 1 : IdsOf(Tail(e))[k] = Tail(e)[k].id
  BY <1>1, IdsOfEntries
<1>4. /\ Tail(IdsOf(e)) \in Seq(Messages) /\ Len(Tail(IdsOf(e))) = Len(e) - 1
      /\ \A k \in 1 .. Len(e) - 1 : Tail(IdsOf(e))[k] = IdsOf(e)[k + 1]
  BY <1>2, HeadTailProperties
<1>5. \A k \in 1 .. Len(e) - 1 : IdsOf(Tail(e))[k] = Tail(IdsOf(e))[k]
  BY <1>1, <1>2, <1>3, <1>4
<1>6. IdsOf(Tail(e)) = Tail(IdsOf(e))
  BY <1>3, <1>4, <1>5, SeqEqual
<1>7. Head(e).id = Head(IdsOf(e))
  BY <1>1, <1>2
<1>8. QED
  BY <1>1, <1>6, <1>7

LEMMA IdsOfCons ==
  ASSUME NEW e \in Seq(RetryEntries), NEW x \in RetryEntries
  PROVE  IdsOf(<<x>> \o e) = <<x.id>> \o IdsOf(e)
<1>1. x.id \in Messages
  BY DEF RetryEntries
<1>2. /\ <<x>> \o e \in Seq(RetryEntries) /\ Len(<<x>> \o e) = Len(e) + 1
      /\ \A k \in 1 .. Len(e) + 1 : (<<x>> \o e)[k] = IF k = 1 THEN x ELSE e[k - 1]
      /\ Len(e) \in Nat
  BY ConcatProperties
<1>3. /\ IdsOf(e) \in Seq(Messages) /\ Len(IdsOf(e)) = Len(e)
      /\ \A k \in 1 .. Len(e) : IdsOf(e)[k] = e[k].id
  BY IdsOfEntries
<1>4. /\ IdsOf(<<x>> \o e) \in Seq(Messages) /\ Len(IdsOf(<<x>> \o e)) = Len(e) + 1
      /\ \A k \in 1 .. Len(e) + 1 : IdsOf(<<x>> \o e)[k] = (<<x>> \o e)[k].id
  BY <1>2, IdsOfEntries
<1>5. /\ <<x.id>> \o IdsOf(e) \in Seq(Messages)
      /\ Len(<<x.id>> \o IdsOf(e)) = Len(e) + 1
      /\ \A k \in 1 .. Len(e) + 1 :
           (<<x.id>> \o IdsOf(e))[k] = IF k = 1 THEN x.id ELSE IdsOf(e)[k - 1]
  BY <1>1, <1>3, ConcatProperties
<1>6. \A k \in 1 .. Len(e) + 1 : IdsOf(<<x>> \o e)[k] = (<<x.id>> \o IdsOf(e))[k]
  <2>1. TAKE k \in 1 .. Len(e) + 1
  <2>2. CASE k = 1
    BY <1>2, <1>4, <1>5, <2>2
  <2>3. CASE k # 1
    <3>1. PICK j \in 1 .. Len(e) : j = k - 1
      BY <1>2, <2>3
    <3>2. IdsOf(<<x>> \o e)[k] = e[j].id
      BY <1>2, <1>4, <2>3, <3>1
    <3>3. (<<x.id>> \o IdsOf(e))[k] = IdsOf(e)[j]
      BY <1>5, <2>3, <3>1
    <3>4. QED
      BY <1>3, <3>1, <3>2, <3>3
  <2>4. QED
    BY <2>2, <2>3
<1>7. PICK u \in Seq(Messages) : u = <<x.id>> \o IdsOf(e)
  BY <1>5
<1>8. PICK v \in Seq(Messages) : v = IdsOf(<<x>> \o e)
  BY <1>4
<1>9. Len(u) = Len(v) /\ \A k \in 1 .. Len(u) : u[k] = v[k]
  BY <1>4, <1>5, <1>6, <1>7, <1>8
<1>10. u = v
  BY ONLY <1>9, u \in Seq(Messages), v \in Seq(Messages), SeqEqual
<1>11. QED
  BY <1>7, <1>8, <1>10

\* The ids in the retry DLQ after an rpush, an lpush and an lpop.
LEMMA IdsAfterAppend ==
  ASSUME NEW e \in Seq(RetryEntries), NEW x \in RetryEntries
  PROVE  Ids(Append(e, x)) = Ids(e) \cup {x.id}
<1>1. IdsOf(Append(e, x)) = Append(IdsOf(e), x.id) /\ Append(e, x) \in Seq(RetryEntries)
  BY IdsOfAppend, AppendProperties
<1>2. IdsOf(e) \in Seq(Messages) /\ x.id \in Messages
  BY IdsOfEntries DEF RetryEntries
<1>3. Ids(e) = Range(IdsOf(e)) /\ Ids(Append(e, x)) = Range(IdsOf(Append(e, x)))
  BY <1>1, IdsOfEntries
<1>4. QED
  BY <1>1, <1>2, <1>3, AppendRange

LEMMA IdsAfterCons ==
  ASSUME NEW e \in Seq(RetryEntries), NEW x \in RetryEntries
  PROVE  Ids(<<x>> \o e) = Ids(e) \cup {x.id}
<1>1. IdsOf(e) \in Seq(Messages) /\ x.id \in Messages /\ Ids(e) = Range(IdsOf(e))
  BY IdsOfEntries DEF RetryEntries
<1>2. <<x>> \o e \in Seq(RetryEntries)
  BY ConcatProperties
<1>3. Ids(<<x>> \o e) = Range(IdsOf(<<x>> \o e))
  BY <1>2, IdsOfEntries
<1>4. IdsOf(<<x>> \o e) = <<x.id>> \o IdsOf(e)
  BY IdsOfCons
<1>5. Range(<<x.id>> \o IdsOf(e)) = Range(IdsOf(e)) \cup {x.id}
  BY <1>1, ConsRange
<1>6. QED
  BY <1>1, <1>3, <1>4, <1>5

LEMMA IdsAfterTail ==
  ASSUME NEW e \in Seq(RetryEntries), e # <<>>, IsInjective(IdsOf(e))
  PROVE  Ids(e) = Ids(Tail(e)) \cup {Head(e).id}
<1>1. /\ IdsOf(Tail(e)) = Tail(IdsOf(e)) /\ Head(e).id = Head(IdsOf(e))
      /\ Tail(e) \in Seq(RetryEntries)
  BY IdsOfTail
<1>2. IdsOf(e) \in Seq(Messages) /\ IdsOf(e) # <<>> /\ Ids(e) = Range(IdsOf(e))
  BY IdsOfEntries
<1>3. Ids(Tail(e)) = Range(Tail(IdsOf(e)))
  BY <1>1, IdsOfEntries
<1>4. QED
  BY <1>1, <1>2, <1>3, TailRange

\* The passing of nextRetryAt leaves the entry what it is.
LEMMA DueKeepsIds ==
  ASSUME NEW e \in Seq(RetryEntries), NEW k \in DOMAIN e
  PROVE  LET f == [e EXCEPT ![k].due = TRUE]
         IN  /\ IdsOf(f) = IdsOf(e) /\ Ids(f) = Ids(e) /\ Len(f) = Len(e)
             /\ \A j \in DOMAIN e : f[j].id = e[j].id /\ f[j].retryCount = e[j].retryCount
<1> DEFINE f == [e EXCEPT ![k].due = TRUE]
<1>1. \A x \in RetryEntries : /\ [x EXCEPT !.due = TRUE].id = x.id
                              /\ [x EXCEPT !.due = TRUE].retryCount = x.retryCount
  BY DEF RetryEntries
<1>2. DOMAIN e = 1 .. Len(e) /\ Len(e) \in Nat /\ \A j \in DOMAIN e : e[j] \in RetryEntries
  BY LenProperties, ElementOfSeq
<1>3. DOMAIN f = DOMAIN e /\ Len(f) = Len(e)
  BY <1>2
<1>4. \A j \in DOMAIN e : f[j] = IF j = k THEN [e[k] EXCEPT !.due = TRUE] ELSE e[j]
  OBVIOUS
<1>5. \A j \in DOMAIN e : f[j].id = e[j].id /\ f[j].retryCount = e[j].retryCount
  BY <1>1, <1>2, <1>4
<1>6. IdsOf(f) = IdsOf(e) /\ Ids(f) = Ids(e)
  <2> HIDE DEF f
  <2> QED
    BY <1>3, <1>5 DEF IdsOf, Ids
<1>7. QED
  BY <1>3, <1>5, <1>6

-------------------------------------------------------------------------------
(* A message is in one place.                                                *)

\* Taking x from wherever it is to one place leaves the places disjoint.
LEMMA MoveKeepsDisjoint ==
  ASSUME NEW P, NEW Q, PairwiseDisjoint(P), NEW to \in 1 .. 6, NEW x,
         Q[to] \subseteq P[to] \cup {x},
         \A k \in 1 .. 6 : k # to => Q[k] \subseteq P[k] \ {x}
  PROVE  PairwiseDisjoint(Q)
BY DEF PairwiseDisjoint

\* A place that stays, and one that loses x, lie outside x when x is elsewhere.
LEMMA RestLacksMoved ==
  ASSUME NEW P, PairwiseDisjoint(P), NEW from \in 1 .. 6, NEW x \in P[from]
  PROVE  \A k \in 1 .. 6 : k # from => P[k] \subseteq P[k] \ {x}
BY DEF PairwiseDisjoint

\* What a step does to the places, when one message moves and others may leave.
Moved(x, from, to) ==
  /\ x \in Places[from]
  /\ Places'[to] \subseteq Places[to] \cup {x}
  /\ Places'[from] \subseteq Places[from] \ {x}
  /\ \A k \in 1 .. 6 : k \notin {from, to} => Places'[k] \subseteq Places[k]

LEMMA MovedStep ==
  ASSUME PlacesOK, arrived' = arrived,
         NEW CONSTANT x, NEW CONSTANT from \in 1 .. 6, NEW CONSTANT to \in 1 .. 6, from # to,
         Moved(x, from, to)
  PROVE  PlacesOK'
<1>1. \A k \in 1 .. 6 : k # to => Places'[k] \subseteq Places[k] \ {x}
  BY RestLacksMoved DEF PlacesOK, Moved
<1>2. PairwiseDisjoint(Places')
  BY <1>1, MoveKeepsDisjoint DEF PlacesOK, Moved
<1>3. \A i \in 1 .. 6 : Places'[i] \subseteq Range(arrived)
  <2>1. TAKE i \in 1 .. 6
  <2>2. CASE i = to
    BY <2>2 DEF PlacesOK, Moved
  <2>3. CASE i # to
    BY <1>1, <2>3 DEF PlacesOK
  <2>4. QED
    BY <2>2, <2>3
<1>4. QED
  BY <1>2, <1>3 DEF PlacesOK, PairwiseDisjoint

\* Messages only leave.
LEMMA LeftStep ==
  ASSUME PlacesOK, arrived' = arrived, \A k \in 1 .. 6 : Places'[k] \subseteq Places[k]
  PROVE  PlacesOK'
BY DEF PlacesOK, PairwiseDisjoint

\* The places by name.
LEMMA PlacesByName ==
  /\ Places[1] = Range(main) /\ Places[2] = Ids(retry) /\ Places[3] = Range(bad)
  /\ Places[4] = Unrouted /\ Places[5] = Popped /\ Places[6] = HeldId
  /\ \A k \in 1 .. 6 : k = 1 \/ k = 2 \/ k = 3 \/ k = 4 \/ k = 5 \/ k = 6
BY DEF Places

\* The variables a place is read from.
LEMMA PlaceStays ==
  /\ main' = main => Places'[1] = Places[1]
  /\ retry' = retry => Places'[2] = Places[2]
  /\ bad' = bad => Places'[3] = Places[3]
  /\ UNCHANGED <<bw, batch, next>> => Places'[4] = Places[4]
  /\ popped' = popped => Places'[5] = Places[5]
  /\ held' = held => Places'[6] = Places[6]
BY DEF Places, Unrouted, Popped, HeldId

\* dequeueBatch() takes the head of the main queue into the batch, or holds it.
LEMMA PlaceAfterPop ==
  ASSUME TypeOK, ControlOK, OnePlace, Pop
  PROVE  OnePlace'
<1>1. CASE main = <<>> \/ Len(batch) = MAX_BATCH
  <2>1. UNCHANGED <<main, retry, bad, batch, next, popped, held, arrived>> /\ bw # "route" /\ bw' # "route"
    BY <1>1 DEF Pop, batchVars, timerVars, retryVars, historyVars
  <2>2. Places' = Places
    BY <2>1 DEF Places, Unrouted, Popped, HeldId
  <2>3. QED
    BY <2>1, <2>2 DEF OnePlace, PlacesOK, PairwiseDisjoint, IdsOf
<1>2. CASE ~(main = <<>> \/ Len(batch) = MAX_BATCH)
  <2>1. PICK m : m = Head(main)
    OBVIOUS
  <2>2. m \in Messages /\ m \in Range(main) /\ Range(Tail(main)) = Range(main) \ {m}
          /\ IsInjective(Tail(main))
    BY <1>2, <2>1, TailRange, HeadTailProperties DEF TypeOK, OnePlace
  <2>3. /\ main' = Tail(main) /\ bw = "pop" /\ bw' \in {"pop", "pushBack"}
        /\ UNCHANGED <<retry, bad, held, next, arrived>>
    BY <1>2 DEF Pop, batchVars, timerVars, retryVars, historyVars
  <2>4. /\ Places'[1] = Places[1] \ {m} /\ m \in Places[1]
        /\ Places'[2] = Places[2] /\ Places'[3] = Places[3] /\ Places'[6] = Places[6]
    BY <2>2, <2>3, PlaceStays, PlacesByName DEF Places
  <2>5. Places[4] = Range(batch) /\ Places'[4] = Range(batch')
    BY <2>3 DEF Places, Unrouted
  <2>6. m \notin Range(batch)
    BY <2>4, <2>5 DEF OnePlace, PlacesOK, PairwiseDisjoint
  <2>7. CASE Fits(Head(main))
    <3>1. batch' = Append(batch, m) /\ popped' = popped
      BY <1>2, <2>1, <2>7 DEF Pop
    <3>2. Range(batch') = Range(batch) \cup {m} /\ IsInjective(batch')
      BY <2>2, <2>6, <3>1, AppendRange DEF TypeOK, OnePlace
    <3>3. Places'[5] = Places[5]
      BY <3>1, PlaceStays
    <3>4. Moved(m, 1, 4)
      BY <2>4, <2>5, <3>2, <3>3, PlacesByName DEF Moved
    <3>5. PlacesOK'
      BY <2>3, <3>4, MovedStep DEF OnePlace
    <3>6. QED
      BY <2>2, <2>3, <3>2, <3>5 DEF OnePlace, IdsOf
  <2>8. CASE ~Fits(Head(main))
    <3>1. batch' = batch /\ popped' = m /\ popped = None
      BY <1>2, <2>1, <2>3, <2>8 DEF Pop, ControlOK
    <3>2. Places'[5] \subseteq Places[5] \cup {m}
      BY <3>1 DEF Places, Popped
    <3>3. Places'[4] = Places[4]
      BY <2>5, <3>1
    <3>4. Moved(m, 1, 5)
      BY <2>4, <3>2, <3>3, PlacesByName DEF Moved
    <3>5. PlacesOK'
      BY <2>3, <3>4, MovedStep DEF OnePlace
    <3>6. QED
      BY <2>2, <2>3, <3>1, <3>5 DEF OnePlace, IdsOf
  <2>9. QED
    BY <2>7, <2>8
<1>3. QED
  BY <1>1, <1>2

\* The other steps of the batch worker.
LEMMA PlaceAfterBatchStep ==
  ASSUME TypeOK, ControlOK, OnePlace, PushBack \/ UpsertResolves \/ UpsertThrows \/ Route \/ BatchDone
  PROVE  OnePlace'
<1> USE DEF redisVars, batchVars, timerVars, retryVars, historyVars
<1>1. CASE PushBack
  <2>1. PICK m \in Messages : m = popped /\ popped # None
    BY <1>1 DEF PushBack, ControlOK, TypeOK
  <2>2. /\ main' = <<m>> \o main /\ popped' = None /\ bw = "pushBack" /\ bw' = "upsert"
        /\ UNCHANGED <<retry, bad, batch, next, held, arrived>>
    BY <1>1, <2>1 DEF PushBack, PushedBack
  <2>3. m \in Places[5] /\ Places'[5] = {}
    BY <2>1, <2>2 DEF Places, Popped
  <2>4. m \notin Range(main)
    BY <2>3, PlacesByName DEF OnePlace, PlacesOK, PairwiseDisjoint
  <2>5. Range(main') = Range(main) \cup {m} /\ IsInjective(main')
    BY <2>2, <2>4, ConsRange DEF TypeOK, OnePlace
  <2>6. Places'[1] = Places[1] \cup {m}
    BY <2>5 DEF Places
  <2>7. Places'[4] = Places[4]
    BY <2>2 DEF Places, Unrouted
  <2>8. Places'[2] = Places[2] /\ Places'[3] = Places[3] /\ Places'[6] = Places[6]
    BY <2>2, PlaceStays
  <2>9. Moved(m, 5, 1)
    BY <2>3, <2>6, <2>7, <2>8, PlacesByName DEF Moved
  <2>10. PlacesOK'
    BY <2>2, <2>9, MovedStep DEF OnePlace
  <2>11. QED
    BY <2>2, <2>5, <2>10 DEF OnePlace, IdsOf
<1>2. CASE UpsertResolves
  <2>1. UNCHANGED <<main, retry, bad, bw, batch, popped, held, arrived>> /\ bw = "upsert"
    BY <1>2 DEF UpsertResolves
  <2>2. Places' = Places
    BY <2>1 DEF Places, Unrouted, Popped, HeldId
  <2>3. QED
    BY <2>1, <2>2 DEF OnePlace, PlacesOK, PairwiseDisjoint, IdsOf
<1>3. CASE UpsertThrows
  <2>1. /\ UNCHANGED <<main, retry, bad, batch, popped, held, arrived>>
        /\ bw = "upsert" /\ bw' = "route" /\ next' = 1
    BY <1>3 DEF UpsertThrows, RouteFrom
  <2>2. Unrouted' = Unrouted
    <3>1. Range(batch) = {batch[k] : k \in 1 .. Len(batch)}
      BY RangeEquality DEF TypeOK
    <3>2. QED
      BY <2>1, <3>1 DEF Unrouted
  <2>3. Places' = Places
    BY <2>1, <2>2 DEF Places, Popped, HeldId
  <2>4. QED
    BY <2>1, <2>3 DEF OnePlace, PlacesOK, PairwiseDisjoint, IdsOf
<1>4. CASE Route
  <2>1. PICK m \in Messages : m = batch[next]
    <3>1. batch[next] \in Messages
      BY <1>4, NextIsInBatch DEF Route, TypeOK
    <3>2. QED
      BY <3>1
  <2>2. /\ bw = "route" /\ bw' = "route" /\ next' = next + 1 /\ next \in 1 .. Len(batch)
        /\ UNCHANGED <<main, batch, popped, held, arrived>>
    <3>1. next \in 1 .. Len(batch)
      BY <1>4, NextIsInBatch DEF Route, TypeOK
    <3>2. QED
      BY <1>4, <3>1 DEF Route
  <2>3. m \in Places[4] /\ Places'[4] \subseteq Places[4] \ {m}
    <3>1. Places[4] = {batch[k] : k \in next .. Len(batch)}
            /\ Places'[4] = {batch[k] : k \in next + 1 .. Len(batch)}
      BY <2>2 DEF Places, Unrouted
    <3>2. Len(batch) \in Nat /\ next \in Nat /\ DOMAIN batch = 1 .. Len(batch)
      BY LenProperties DEF TypeOK
    <3>3. \A k \in next + 1 .. Len(batch) :
            k \in next .. Len(batch) /\ batch[k] # batch[next]
      BY <2>2, <3>2 DEF OnePlace, IsInjective
    <3>4. next \in next .. Len(batch)
      BY <2>2, <3>2
    <3>5. QED
      BY <2>1, <3>1, <3>3, <3>4
  <2>4. Places'[1] = Places[1] /\ Places'[5] = Places[5] /\ Places'[6] = Places[6]
    BY <2>2, PlaceStays
  <2>5. m \notin Range(bad) /\ m \notin Ids(retry)
    BY <2>3, PlacesByName DEF OnePlace, PlacesOK, PairwiseDisjoint
  <2>6. CASE retryable
    <3>1. retry' = Append(retry, RetryEntry(m)) /\ bad' = bad
      BY <1>4, <2>1, <2>6 DEF Route
    <3>2. RetryEntry(m) \in RetryEntries /\ RetryEntry(m).id = m
      BY LimitsAssumption DEF RetryEntry, RetryEntries
    <3>3. IdsOf(retry') = Append(IdsOf(retry), m) /\ retry' \in Seq(RetryEntries)
      <4>1. retry \in Seq(RetryEntries)
        BY DEF TypeOK
      <4>2. Append(retry, RetryEntry(m)) \in Seq(RetryEntries)
        BY ONLY <3>2, <4>1, AppendProperties
      <4>3. IdsOf(Append(retry, RetryEntry(m))) = Append(IdsOf(retry), m)
        BY ONLY <3>2, <4>1, IdsOfAppend
      <4>4. QED
        BY ONLY <3>1, <4>2, <4>3
    <3>4. IdsOf(retry) \in Seq(Messages) /\ Range(IdsOf(retry)) = Ids(retry)
            /\ Range(IdsOf(retry')) = Ids(retry')
      BY <3>3, IdsOfEntries DEF TypeOK
    <3>5. Ids(retry') = Ids(retry) \cup {m} /\ IsInjective(IdsOf(retry'))
      BY <2>5, <3>3, <3>4, AppendRange DEF OnePlace
    <3>6. Places'[2] = Places[2] \cup {m} /\ Places'[3] = Places[3]
      BY <3>1, <3>5 DEF Places
    <3>7. Moved(m, 4, 2)
      BY <2>3, <2>4, <3>6, PlacesByName DEF Moved
    <3>8. PlacesOK'
      BY <2>2, <3>7, MovedStep DEF OnePlace
    <3>9. QED
      BY <2>2, <3>1, <3>5, <3>8 DEF OnePlace, IdsOf
  <2>7. CASE ~retryable
    <3>1. bad' = Append(bad, m) /\ retry' = retry
      BY <1>4, <2>1, <2>7 DEF Route
    <3>2. Range(bad') = Range(bad) \cup {m} /\ IsInjective(bad')
      BY <2>5, <3>1, AppendRange DEF TypeOK, OnePlace
    <3>3. Places'[3] = Places[3] \cup {m} /\ Places'[2] = Places[2]
      BY <3>1, <3>2 DEF Places
    <3>4. Moved(m, 4, 3)
      BY <2>3, <2>4, <3>3, PlacesByName DEF Moved
    <3>5. PlacesOK'
      BY <2>2, <3>4, MovedStep DEF OnePlace
    <3>6. QED
      BY <2>2, <3>1, <3>2, <3>5 DEF OnePlace, IdsOf
  <2>8. QED
    BY <2>6, <2>7
<1>5. CASE BatchDone
  <2>1. /\ UNCHANGED <<main, retry, bad, popped, held, arrived>>
        /\ bw' = "sleep" /\ batch' = <<>>
    BY <1>5 DEF BatchDone
  <2>2. Range(batch') = {} /\ IsInjective(batch')
    BY <2>1 DEF Range, IsInjective
  <2>3. Places'[4] = {}
    BY <2>1, <2>2 DEF Places, Unrouted
  <2>4. \A k \in 1 .. 6 : Places'[k] \subseteq Places[k]
    BY <2>1, <2>3, PlaceStays, PlacesByName
  <2>5. PlacesOK'
    BY <2>1, <2>4, LeftStep DEF OnePlace
  <2>6. QED
    BY <2>1, <2>2, <2>5 DEF OnePlace, IdsOf
<1>6. QED
  BY <1>1, <1>2, <1>3, <1>4, <1>5

\* The steps of the retry worker that move a message.
LEMMA PlaceAfterRetryStep ==
  ASSUME TypeOK, ControlOK, OnePlace,
         PopRetry \/ PushBackRetry \/ RetryResolves \/ Requeue \/ Discard
  PROVE  OnePlace'
<1> USE DEF redisVars, batchVars, timerVars, retryVars, historyVars
<1>1. CASE PopRetry /\ retry = <<>>
  <2>1. UNCHANGED <<main, retry, bad, bw, batch, next, popped, held, arrived>>
    BY <1>1 DEF PopRetry
  <2>2. Places' = Places
    BY <2>1 DEF Places, Unrouted, Popped, HeldId
  <2>3. QED
    BY <2>1, <2>2 DEF OnePlace, PlacesOK, PairwiseDisjoint, IdsOf
<1>2. CASE PopRetry /\ retry # <<>>
  <2>1. PICK e \in RetryEntries : e = Head(retry)
    BY <1>2, HeadTailProperties DEF TypeOK
  <2>2. PICK m \in Messages : m = e.id
    BY DEF RetryEntries
  <2>3. /\ retry' = Tail(retry) /\ held' = e /\ held = None /\ e # None
        /\ UNCHANGED <<main, bad, bw, batch, next, popped, arrived>>
    <3>1. held = None
      BY <1>2 DEF PopRetry, ControlOK
    <3>2. e # None
      BY <2>1, NoneIsNoEntry
    <3>3. QED
      BY <1>2, <2>1, <3>1, <3>2 DEF PopRetry, RetryPopped
  <2>4. /\ IdsOf(retry') = Tail(IdsOf(retry)) /\ m = Head(IdsOf(retry))
        /\ retry' \in Seq(RetryEntries)
    BY <1>2, <2>1, <2>2, <2>3, IdsOfTail DEF TypeOK
  <2>5. /\ IdsOf(retry) \in Seq(Messages) /\ Range(IdsOf(retry)) = Ids(retry)
        /\ IdsOf(retry) # <<>> /\ Range(IdsOf(retry')) = Ids(retry')
    BY <1>2, <2>4, IdsOfEntries DEF TypeOK
  <2>6. m \in Ids(retry) /\ Ids(retry') = Ids(retry) \ {m} /\ IsInjective(IdsOf(retry'))
    BY <2>4, <2>5, TailRange DEF OnePlace
  <2>7. Places'[6] = {m}
    BY <2>2, <2>3 DEF Places, HeldId
  <2>8. m \in Places[2] /\ Places'[2] = Places[2] \ {m}
    BY <2>6 DEF Places
  <2>9. Moved(m, 2, 6)
    BY <2>3, <2>7, <2>8, PlaceStays, PlacesByName DEF Moved
  <2>10. PlacesOK'
    BY <2>3, <2>9, MovedStep DEF OnePlace
  <2>11. QED
    BY <2>3, <2>6, <2>10 DEF OnePlace
<1>3. CASE PushBackRetry
  <2>1. PICK e \in RetryEntries : e = held /\ held # None
    BY <1>3 DEF PushBackRetry, ControlOK, TypeOK
  <2>2. PICK m \in Messages : m = e.id
    BY DEF RetryEntries
  <2>3. /\ retry' = <<e>> \o retry /\ held' = None
        /\ UNCHANGED <<main, bad, bw, batch, next, popped, arrived>>
    BY <1>3, <2>1 DEF PushBackRetry
  <2>4. IdsOf(retry') = <<m>> \o IdsOf(retry) /\ retry' \in Seq(RetryEntries)
    <3>1. retry \in Seq(RetryEntries)
      BY DEF TypeOK
    <3>2. <<e>> \o retry \in Seq(RetryEntries)
      BY <3>1, ConcatProperties
    <3>3. IdsOf(<<e>> \o retry) = <<m>> \o IdsOf(retry)
      BY <2>2, <3>1, IdsOfCons
    <3>4. QED
      BY <2>3, <3>2, <3>3
  <2>5. /\ IdsOf(retry) \in Seq(Messages) /\ Range(IdsOf(retry)) = Ids(retry)
        /\ Range(IdsOf(retry')) = Ids(retry')
    BY <2>4, IdsOfEntries DEF TypeOK
  <2>6. m \in Places[6] /\ Places'[6] = {}
    BY <2>1, <2>2, <2>3 DEF Places, HeldId
  <2>7. m \notin Range(IdsOf(retry))
    BY <2>5, <2>6, PlacesByName DEF OnePlace, PlacesOK, PairwiseDisjoint
  <2>8. Ids(retry') = Ids(retry) \cup {m} /\ IsInjective(IdsOf(retry'))
    BY <2>4, <2>5, <2>7, ConsRange DEF OnePlace
  <2>9. Places'[2] = Places[2] \cup {m}
    BY <2>8 DEF Places
  <2>10. Moved(m, 6, 2)
    BY <2>3, <2>6, <2>9, PlaceStays, PlacesByName DEF Moved
  <2>11. PlacesOK'
    BY <2>3, <2>10, MovedStep DEF OnePlace
  <2>12. QED
    BY <2>3, <2>8, <2>11 DEF OnePlace
<1>4. CASE RetryResolves
  <2>1. held' = None /\ UNCHANGED <<main, retry, bad, bw, batch, next, popped, arrived>>
    BY <1>4 DEF RetryResolves
  <2>2. Places'[6] = {}
    BY <2>1 DEF Places, HeldId
  <2>3. \A k \in 1 .. 6 : Places'[k] \subseteq Places[k]
    BY <2>1, <2>2, PlaceStays, PlacesByName
  <2>4. PlacesOK'
    BY <2>1, <2>3, LeftStep DEF OnePlace
  <2>5. QED
    BY <2>1, <2>4 DEF OnePlace, IdsOf
<1>5. CASE Requeue
  <2>1. PICK e \in RetryEntries : e = held /\ held # None
    BY <1>5 DEF Requeue, ControlOK, TypeOK
  <2>2. PICK m \in Messages : m = e.id
    BY DEF RetryEntries
  <2>3. PICK f \in RetryEntries : f = [id |-> m, retryCount |-> e.retryCount + 1, due |-> FALSE]
    <3>1. e.retryCount \in Nat /\ e.retryCount < MAX_RETRIES /\ MAX_RETRIES \in Nat
      BY <1>5, <2>1, LimitsAssumption DEF Requeue, RetriesLeft, RetryEntries
    <3>2. e.retryCount + 1 \in 0 .. MAX_RETRIES
      BY <3>1
    <3>3. QED
      BY <3>2 DEF RetryEntries
  <2>4. /\ retry' = Append(retry, f) /\ held' = None
        /\ UNCHANGED <<main, bad, bw, batch, next, popped, arrived>>
    BY <1>5, <2>1, <2>2, <2>3 DEF Requeue
  <2>5. IdsOf(retry') = Append(IdsOf(retry), m) /\ retry' \in Seq(RetryEntries)
    BY <2>3, <2>4, IdsOfAppend, AppendProperties DEF TypeOK
  <2>6. /\ IdsOf(retry) \in Seq(Messages) /\ Range(IdsOf(retry)) = Ids(retry)
        /\ Range(IdsOf(retry')) = Ids(retry')
    BY <2>5, IdsOfEntries DEF TypeOK
  <2>7. m \in Places[6] /\ Places'[6] = {}
    BY <2>1, <2>2, <2>4 DEF Places, HeldId
  <2>8. m \notin Range(IdsOf(retry))
    BY <2>6, <2>7, PlacesByName DEF OnePlace, PlacesOK, PairwiseDisjoint
  <2>9. Ids(retry') = Ids(retry) \cup {m} /\ IsInjective(IdsOf(retry'))
    BY <2>5, <2>6, <2>8, AppendRange DEF OnePlace
  <2>10. Places'[2] = Places[2] \cup {m}
    BY <2>9 DEF Places
  <2>11. Moved(m, 6, 2)
    BY <2>4, <2>7, <2>10, PlaceStays, PlacesByName DEF Moved
  <2>12. PlacesOK'
    BY <2>4, <2>11, MovedStep DEF OnePlace
  <2>13. QED
    BY <2>4, <2>9, <2>12 DEF OnePlace
<1>6. CASE Discard
  <2>1. PICK m \in Messages : m = held.id /\ held # None
    BY <1>6 DEF Discard, ControlOK, TypeOK, RetryEntries
  <2>2. /\ bad' = Append(bad, m) /\ held' = None
        /\ UNCHANGED <<main, retry, bw, batch, next, popped, arrived>>
    BY <1>6, <2>1 DEF Discard
  <2>3. m \in Places[6] /\ Places'[6] = {}
    BY <2>1, <2>2 DEF Places, HeldId
  <2>4. m \notin Range(bad)
    BY <2>3, PlacesByName DEF OnePlace, PlacesOK, PairwiseDisjoint
  <2>5. Range(bad') = Range(bad) \cup {m} /\ IsInjective(bad')
    BY <2>2, <2>4, AppendRange DEF TypeOK, OnePlace
  <2>6. Places'[3] = Places[3] \cup {m}
    BY <2>5 DEF Places
  <2>7. Moved(m, 6, 3)
    BY <2>2, <2>3, <2>6, PlaceStays, PlacesByName DEF Moved
  <2>8. PlacesOK'
    BY <2>2, <2>7, MovedStep DEF OnePlace
  <2>9. QED
    BY <2>2, <2>5, <2>8 DEF OnePlace, IdsOf
<1>7. QED
  BY <1>1, <1>2, <1>3, <1>4, <1>5, <1>6

LEMMA PlaceStep ==
  ASSUME TypeOK, ControlOK, OnePlace, [Next]_vars
  PROVE  OnePlace'
<1> USE DEF redisVars, batchVars, timerVars, retryVars, historyVars
<1>1. ASSUME UNCHANGED <<main, retry, bad, bw, batch, next, popped, held, arrived>>
      PROVE  OnePlace'
  <2>1. Places' = Places
    BY <1>1 DEF Places, Unrouted, Popped, HeldId
  <2>2. QED
    BY <1>1, <2>1 DEF OnePlace, PlacesOK, PairwiseDisjoint, IdsOf
<1>2. CASE Start \/ Poll
  <2>1. UNCHANGED <<main, retry, bad, batch, next, popped, held, arrived>>
    BY <1>2 DEF Start, Poll
  <2>2. bw # "route" /\ bw' # "route"
    BY <1>2 DEF Start, Poll, ControlOK
  <2>3. Places' = Places
    BY <2>1, <2>2 DEF Places, Unrouted, Popped, HeldId
  <2>4. QED
    BY <2>1, <2>3 DEF OnePlace, PlacesOK, PairwiseDisjoint, IdsOf
<1>3. ASSUME NEW m \in Messages, EnqueueMain(m) PROVE OnePlace'
  <2>1. /\ m \notin Range(arrived) /\ main' = Append(main, m) /\ arrived' = Append(arrived, m)
        /\ UNCHANGED <<retry, bad, bw, batch, next, popped, held>>
    BY <1>3 DEF EnqueueMain
  <2>2. \A k \in 1 .. 6 : m \notin Places[k]
    BY <2>1 DEF OnePlace, PlacesOK
  <2>3. Range(main') = Range(main) \cup {m} /\ IsInjective(main')
    <3>1. m \notin Range(main)
      BY <2>2, PlacesByName
    <3>2. QED
      BY <2>1, <3>1, AppendRange DEF TypeOK, OnePlace
  <2>4. Range(arrived') = Range(arrived) \cup {m}
    BY <2>1, AppendRange DEF TypeOK
  <2>5. Places'[1] = Places[1] \cup {m}
    BY <2>3 DEF Places
  <2>6. \A k \in 1 .. 6 : k # 1 => Places'[k] = Places[k]
    BY <2>1, PlaceStays, PlacesByName
  <2>7. \A k \in 1 .. 6 : k # 1 => Places'[k] \subseteq Places[k] \ {m}
    BY <2>2, <2>6
  <2>8. PairwiseDisjoint(Places')
    BY <2>5, <2>7, MoveKeepsDisjoint DEF OnePlace, PlacesOK
  <2>9. \A k \in 1 .. 6 : Places'[k] \subseteq Range(arrived')
    BY <2>4, <2>5, <2>6 DEF OnePlace, PlacesOK
  <2>10. QED
    BY <2>1, <2>3, <2>8, <2>9 DEF OnePlace, PlacesOK, PairwiseDisjoint, IdsOf
<1>4. ASSUME NEW k \in DOMAIN retry, RetryDue(k) PROVE OnePlace'
  <2>1. /\ retry' = [retry EXCEPT ![k].due = TRUE]
        /\ UNCHANGED <<main, bad, bw, batch, next, popped, held, arrived>>
    BY <1>4 DEF RetryDue
  <2>2. IdsOf(retry') = IdsOf(retry) /\ Ids(retry') = Ids(retry)
    BY <2>1, DueKeepsIds DEF TypeOK
  <2>3. Places' = Places
    BY <2>1, <2>2 DEF Places, Unrouted, Popped, HeldId
  <2>4. QED
    BY <2>1, <2>2, <2>3 DEF OnePlace, PlacesOK, PairwiseDisjoint
<1>5. CASE Exit
  <2>1. /\ UNCHANGED <<main, retry, bad, arrived>>
        /\ bw' = "off" /\ batch' = <<>> /\ popped' = None /\ held' = None
    BY <1>5 DEF Exit
  <2>2. Range(batch') = {} /\ IsInjective(batch')
    BY <2>1 DEF Range, IsInjective
  <2>3. Places'[4] = {} /\ Places'[5] = {} /\ Places'[6] = {}
    BY <2>1, <2>2 DEF Places, Unrouted, Popped, HeldId
  <2>4. \A k \in 1 .. 6 : Places'[k] \subseteq Places[k]
    BY <2>1, <2>3, PlaceStays, PlacesByName
  <2>5. PlacesOK'
    BY <2>1, <2>4, LeftStep DEF OnePlace
  <2>6. QED
    BY <2>1, <2>2, <2>5 DEF OnePlace, IdsOf
<1>6. CASE CheckIdle \/ RetryCounted \/ RetryThrows \/ DiscardCounted
  BY <1>1, <1>6 DEF CheckIdle, RetryCounted, RetryThrows, DiscardCounted
<1>7. CASE IdleLong \/ Tick \/ Shutdown \/ UNCHANGED vars
  BY <1>1, <1>7 DEF IdleLong, Tick, Shutdown, vars
<1>8. QED
  BY <1>2, <1>3, <1>4, <1>5, <1>6, <1>7, PlaceAfterPop, PlaceAfterBatchStep,
     PlaceAfterRetryStep
  DEF Next, BatchStep, RetryStep

LEMMA InjectiveCardinality ==
  ASSUME NEW S, NEW s \in Seq(S), IsInjective(s)
  PROVE  IsFiniteSet(Range(s)) /\ Cardinality(Range(s)) = Len(s)
<1>1. Len(s) \in Nat /\ DOMAIN s = 1 .. Len(s) /\ Range(s) = {s[i] : i \in 1 .. Len(s)}
  BY LenProperties, RangeEquality
<1>2. s \in [1 .. Len(s) -> Range(s)]
  BY <1>1
<1>3. s \in Bijection(1 .. Len(s), Range(s))
  BY <1>1, <1>2 DEF Bijection, Injection, Surjection, IsInjective
<1>4. IsFiniteSet(1 .. Len(s)) /\ Cardinality(1 .. Len(s)) = Len(s)
  <2>1. PICK n \in Nat : n = Len(s)
    BY <1>1
  <2>2. IsFiniteSet(1 .. n) /\ Cardinality(1 .. n) = n
    BY FS_Interval
  <2>3. QED
    BY ONLY <2>1, <2>2
<1>5. QED
  BY <1>3, <1>4, FS_Bijection DEF ExistsBijection

LEMMA DisjointUnion ==
  ASSUME NEW A, NEW B, IsFiniteSet(A), IsFiniteSet(B), A \cap B = {}
  PROVE  /\ IsFiniteSet(A \cup B)
         /\ Cardinality(A \cup B) = Cardinality(A) + Cardinality(B)
<1>1. /\ IsFiniteSet(A \cup B)
      /\ Cardinality(A \cup B) = Cardinality(A) + Cardinality(B) - Cardinality(A \cap B)
  BY FS_Union
<1>2. Cardinality(A \cap B) = 0 /\ Cardinality(A) \in Nat /\ Cardinality(B) \in Nat
  BY FS_EmptySet, FS_CardinalityType
<1>3. QED
  BY <1>1, <1>2

LEMMA OnePlaceMeansHeldInOnePlace ==
  ASSUME TypeOK, ControlOK, OnePlace
  PROVE  HeldInOnePlace
<1>1. Cardinality(Range(main)) = Len(main) /\ IsFiniteSet(Range(main))
  BY InjectiveCardinality DEF OnePlace, TypeOK
<1>2. Cardinality(Range(bad)) = Len(bad) /\ IsFiniteSet(Range(bad))
  BY InjectiveCardinality DEF OnePlace, TypeOK
<1>3. Cardinality(Ids(retry)) = Len(retry) /\ IsFiniteSet(Ids(retry))
  <2>1. /\ IdsOf(retry) \in Seq(Messages) /\ Len(IdsOf(retry)) = Len(retry)
        /\ Ids(retry) = Range(IdsOf(retry))
    BY IdsOfEntries DEF TypeOK
  <2>2. QED
    BY <2>1, InjectiveCardinality DEF OnePlace
<1>4. /\ Range(main) \cap Ids(retry) = {}
      /\ (Range(main) \cup Ids(retry)) \cap Range(bad) = {}
  BY PlacesByName DEF OnePlace, PlacesOK, PairwiseDisjoint
<1>5. Cardinality(InRedis) = Len(main) + Len(retry) + Len(bad)
  <2>1. Len(main) \in Nat /\ Len(retry) \in Nat /\ Len(bad) \in Nat
    BY LenProperties DEF TypeOK
  <2>2. /\ IsFiniteSet(Range(main) \cup Ids(retry))
        /\ Cardinality(Range(main) \cup Ids(retry)) = Len(main) + Len(retry)
    <3>1. /\ IsFiniteSet(Range(main) \cup Ids(retry))
          /\ Cardinality(Range(main) \cup Ids(retry))
               = Cardinality(Range(main)) + Cardinality(Ids(retry))
      BY <1>1, <1>3, <1>4, DisjointUnion, Zenon
    <3>2. QED
      BY <1>1, <1>3, <3>1
  <2>3. Cardinality(InRedis) = (Len(main) + Len(retry)) + Len(bad)
    <3>1. Cardinality((Range(main) \cup Ids(retry)) \cup Range(bad))
            = Cardinality(Range(main) \cup Ids(retry)) + Cardinality(Range(bad))
      BY <1>2, <1>4, <2>2, DisjointUnion, Zenon
    <3>2. QED
      BY <1>2, <2>2, <3>1 DEF InRedis
  <2>4. QED
    BY <2>3
<1>6. InBatch \subseteq Places[4] \cup Places[5]
  <2>1. Range(batch) = {batch[k] : k \in 1 .. Len(batch)}
    BY RangeEquality DEF TypeOK
  <2>2. {batch[k] : k \in next .. Len(batch)} \subseteq Unrouted
    BY <2>1 DEF Unrouted, TypeOK
  <2>3. InBatch \subseteq {batch[k] : k \in next .. Len(batch)} \cup Popped
    BY DEF InBatch, Popped
  <2>4. QED
    BY <2>2, <2>3, PlacesByName
<1>7. InMemory \subseteq Places[4] \cup Places[5] \cup Places[6]
  BY <1>6, PlacesByName DEF InMemory, HeldId
<1>8. InRedis = Places[1] \cup Places[2] \cup Places[3]
  BY PlacesByName DEF InRedis
<1>9. InMemory \cap InRedis = {}
  BY <1>7, <1>8 DEF OnePlace, PlacesOK, PairwiseDisjoint
<1>10. held # None => held.id \notin InBatch
  BY <1>6, PlacesByName DEF OnePlace, PlacesOK, PairwiseDisjoint, HeldId
<1>11. QED
  BY <1>1, <1>2, <1>3, <1>5, <1>9, <1>10 DEF HeldInOnePlace

LEMMA PlaceInvariant == Spec => [](TypeOK /\ ControlOK /\ OnePlace)
<1>1. Init => OnePlace
  <2>1. SUFFICES ASSUME Init PROVE OnePlace
    OBVIOUS
  <2>2. /\ main = <<>> /\ retry = <<>> /\ bad = <<>> /\ batch = <<>> /\ bw = "off"
        /\ popped = None /\ held = None
    BY <2>1 DEF Init
  <2>3. /\ Range(main) = {} /\ Ids(retry) = {} /\ Range(bad) = {} /\ Unrouted = {}
        /\ Popped = {} /\ HeldId = {}
    BY <2>2 DEF Range, Ids, Unrouted, Popped, HeldId
  <2>4. \A k \in 1 .. 6 : Places[k] = {}
    BY <2>3, PlacesByName
  <2>5. QED
    BY <2>2, <2>4 DEF OnePlace, PlacesOK, PairwiseDisjoint, IsInjective, IdsOf
<1>2. TypeOK /\ ControlOK /\ OnePlace /\ [Next]_vars => OnePlace'
  BY PlaceStep
<1>3. QED
  BY <1>1, <1>2, ControlInvariant, PTL DEF Spec

\* Two workers, push-backs, requeues, shutdowns and restarts between any two Redis
\* commands never make two copies of a message (lib/redis-queue.ts).
THEOREM MessageInOnePlace == Spec => []HeldInOnePlace
BY PlaceInvariant, OnePlaceMeansHeldInOnePlace, PTL

-------------------------------------------------------------------------------
(* How often the retry worker tries a message.                               *)

\* The steps other than an enqueueMain().
NoArrival ==
  \/ Start \/ BatchStep \/ RetryStep \/ \E k \in DOMAIN retry : RetryDue(k)
  \/ IdleLong \/ Tick \/ Shutdown \/ Exit \/ UNCHANGED vars

\* Only enqueueMain() brings messages that were not in the retry DLQ.
LEMMA UntriedStep ==
  ASSUME TypeOK, ControlOK, OnePlace, NoArrival
  PROVE  Untried' \subseteq Untried
<1> USE DEF redisVars, batchVars, timerVars, retryVars, historyVars
<1>1. ASSUME main' = main, popped' = popped, Unrouted' \subseteq Unrouted
      PROVE  Untried' \subseteq Untried
  BY <1>1 DEF Untried, Popped
<1>2. UNCHANGED <<bw, batch, next>> => Unrouted' = Unrouted
  BY DEF Unrouted
<1>3. /\ Range(batch) = {batch[k] : k \in 1 .. Len(batch)}
      /\ Range(<<>>) = {} /\ Len(batch) \in Nat /\ next \in Nat \ {0}
  <2>1. batch \in Seq(Messages) /\ next \in Nat \ {0}
    BY DEF TypeOK
  <2>2. Range(<<>>) = {}
    BY DEF Range
  <2>3. QED
    BY ONLY <2>1, <2>2, RangeEquality, LenProperties
<1>4. CASE Start \/ Poll
  BY <1>1, <1>4 DEF Start, Poll, ControlOK, Unrouted
<1>5. CASE Pop
  <2>1. CASE main = <<>> \/ Len(batch) = MAX_BATCH
    BY <1>1, <1>5, <2>1 DEF Pop, Unrouted
  <2>2. CASE ~(main = <<>> \/ Len(batch) = MAX_BATCH)
    <3>1. Head(main) \in Range(main) /\ Range(Tail(main)) \subseteq Range(main)
            /\ Head(main) \in Messages
      BY <2>2, TailRange, HeadTailProperties DEF TypeOK, OnePlace
    <3>2. Range(Append(batch, Head(main))) = Range(batch) \cup {Head(main)}
      BY <3>1, AppendRange DEF TypeOK
    <3>3. /\ main' = Tail(main) /\ bw # "route" /\ bw' # "route"
          /\ \/ batch' = Append(batch, Head(main)) /\ popped' = popped
             \/ batch' = batch /\ popped' = Head(main)
      BY <1>5, <2>2 DEF Pop
    <3>4. Unrouted = Range(batch) /\ Unrouted' = Range(batch')
      BY <3>3 DEF Unrouted
    <3>5. QED
      BY <3>1, <3>2, <3>3, <3>4 DEF Untried, Popped
  <2>3. QED
    BY <2>1, <2>2
<1>6. CASE PushBack
  <2>1. popped \in Messages /\ popped # None
    BY <1>6 DEF PushBack, ControlOK, TypeOK
  <2>2. Range(<<popped>> \o main) = Range(main) \cup {popped}
    BY <2>1, ConsRange DEF TypeOK
  <2>3. /\ main' = <<popped>> \o main /\ popped' = None /\ batch' = batch
        /\ bw # "route" /\ bw' # "route"
    BY <1>6 DEF PushBack, PushedBack
  <2>4. Unrouted' = Unrouted
    BY <2>3 DEF Unrouted
  <2>5. QED
    BY <2>1, <2>2, <2>3, <2>4 DEF Untried, Popped
<1>7. CASE UpsertResolves
  BY <1>1, <1>7 DEF UpsertResolves, Unrouted
<1>8. CASE UpsertThrows
  BY <1>1, <1>3, <1>8 DEF UpsertThrows, Unrouted, RouteFrom
<1>9. CASE Route
  <2>1. {batch[k] : k \in next + 1 .. Len(batch)} \subseteq {batch[k] : k \in next .. Len(batch)}
    BY <1>3
  <2>2. QED
    BY <1>1, <1>9, <2>1 DEF Route, Unrouted
<1>10. CASE BatchDone
  BY <1>1, <1>3, <1>10 DEF BatchDone, Unrouted
<1>11. CASE RetryStep
  BY <1>1, <1>2, <1>11
  DEF RetryStep, CheckIdle, PopRetry, PushBackRetry, RetryResolves, RetryCounted,
      RetryThrows, Requeue, Discard, DiscardCounted
<1>12. CASE (\E k \in DOMAIN retry : RetryDue(k)) \/ IdleLong \/ Tick \/ Shutdown \/ UNCHANGED vars
  BY <1>1, <1>2, <1>12 DEF RetryDue, IdleLong, Tick, Shutdown, vars
<1>13. CASE Exit
  BY <1>3, <1>13 DEF Exit, Untried, Unrouted, Popped
<1>14. QED
  BY <1>4, <1>5, <1>6, <1>7, <1>8, <1>9, <1>10, <1>11, <1>12, <1>13
  DEF NoArrival, BatchStep

LEMMA TriesStep ==
  ASSUME TypeOK, ControlOK, OnePlace, TriesCounted, TriesBounded, [Next]_vars
  PROVE  TriesCounted' /\ TriesBounded'
<1> USE DEF redisVars, batchVars, timerVars, retryVars, historyVars
<1>1. ASSUME tries' = tries, Untried' \subseteq Untried, arrived' = arrived,
             retry' = retry, held' = held,
             held # None => (rw' = "failed" <=> rw = "failed")
      PROVE  TriesCounted' /\ TriesBounded'
  BY <1>1 DEF TriesCounted, TriesBounded
<1>2. CASE Start \/ Poll \/ Pop \/ PushBack \/ UpsertResolves \/ UpsertThrows \/ BatchDone
  <2>1. Untried' \subseteq Untried
    BY <1>2, UntriedStep DEF NoArrival, BatchStep
  <2>2. /\ tries' = tries /\ arrived' = arrived /\ retry' = retry /\ held' = held
        /\ held # None => rw' = rw
    BY <1>2
    DEF Start, Poll, Pop, PushBack, UpsertResolves, UpsertThrows, BatchDone, ControlOK
  <2>3. QED
    BY <1>1, <2>1, <2>2
<1>3. CASE CheckIdle \/ RetryCounted \/ DiscardCounted \/ IdleLong \/ Tick \/ Shutdown \/ UNCHANGED vars
  <2>1. Untried' \subseteq Untried
    BY <1>3, UntriedStep DEF NoArrival, RetryStep
  <2>2. /\ tries' = tries /\ arrived' = arrived /\ retry' = retry /\ held' = held
        /\ held # None => rw' = rw
    BY <1>3
    DEF CheckIdle, RetryCounted, DiscardCounted, IdleLong, Tick, Shutdown, vars, ControlOK
  <2>3. QED
    BY <1>1, <2>1, <2>2
<1>4. ASSUME NEW m \in Messages, EnqueueMain(m) PROVE TriesCounted' /\ TriesBounded'
  <2>1. /\ m \notin Range(arrived) /\ main' = Append(main, m) /\ arrived' = Append(arrived, m)
        /\ UNCHANGED <<bw, batch, next, popped, retry, held, rw, tries>>
    BY <1>4 DEF EnqueueMain
  <2>2. Range(main') = Range(main) \cup {m} /\ Range(arrived') = Range(arrived) \cup {m}
    BY <2>1, AppendRange DEF TypeOK
  <2>3. Untried' = Untried \cup {m}
    BY <2>1, <2>2 DEF Untried, Unrouted, Popped
  <2>4. tries[m] = 0
    BY <2>1 DEF TriesCounted
  <2>5. QED
    BY <2>1, <2>2, <2>3, <2>4 DEF TriesCounted, TriesBounded
<1>5. CASE Route
  <2>1. Untried' \subseteq Untried
    BY <1>5, UntriedStep DEF NoArrival, BatchStep
  <2>2. UNCHANGED <<tries, arrived, held, rw>>
    BY <1>5 DEF Route
  <2>3. batch[next] \in Messages /\ batch[next] \in Untried
    BY <1>5 DEF Route, TypeOK, Untried, Unrouted
  <2>4. \A k \in DOMAIN retry' : tries[retry'[k].id] = retry'[k].retryCount
    <3>1. CASE retryable
      <4>1. RetryEntry(batch[next]) \in RetryEntries
        BY <2>3, LimitsAssumption DEF RetryEntry, RetryEntries
      <4>2. /\ retry' = Append(retry, RetryEntry(batch[next])) /\ retry \in Seq(RetryEntries)
            /\ DOMAIN retry = 1 .. Len(retry) /\ Len(retry) \in Nat
        BY <1>5, <3>1, LenProperties DEF Route, TypeOK
      <4>3. /\ DOMAIN retry' = 1 .. Len(retry) + 1
            /\ \A k \in 1 .. Len(retry) : retry'[k] = retry[k]
            /\ retry'[Len(retry) + 1] = RetryEntry(batch[next])
        BY <4>1, <4>2, AppendProperties, LenProperties
      <4>4. tries[RetryEntry(batch[next]).id] = RetryEntry(batch[next]).retryCount
        BY <2>3 DEF RetryEntry, TriesCounted
      <4>5. \A k \in 1 .. Len(retry) + 1 : k \in 1 .. Len(retry) \/ k = Len(retry) + 1
        BY <4>2
      <4>6. QED
        BY <4>2, <4>3, <4>4, <4>5 DEF TriesCounted
    <3>2. CASE ~retryable
      BY <1>5, <3>2 DEF Route, TriesCounted
    <3>3. QED
      BY <3>1, <3>2
  <2>5. QED
    BY <2>1, <2>2, <2>4 DEF TriesCounted, TriesBounded
<1>6. CASE PopRetry
  <2>1. Untried' \subseteq Untried
    BY <1>6, UntriedStep DEF NoArrival, RetryStep
  <2>2. CASE retry = <<>>
    BY <1>1, <1>6, <2>1, <2>2 DEF PopRetry
  <2>3. CASE retry # <<>>
    <3>1. /\ retry' = Tail(retry) /\ held' = Head(retry) /\ rw' # "failed"
          /\ UNCHANGED <<tries, arrived>>
      BY <1>6, <2>3 DEF PopRetry, RetryPopped
    <3>2. /\ Head(retry) = retry[1] /\ 1 \in DOMAIN retry
          /\ \A k \in DOMAIN retry' : k + 1 \in DOMAIN retry /\ retry'[k] = retry[k + 1]
      BY <2>3, <3>1, EmptySeq, HeadTailProperties, LenProperties DEF TypeOK
    <3>3. held'.retryCount \in Nat
      <4>1. Head(retry) \in RetryEntries
        BY <2>3, HeadTailProperties DEF TypeOK
      <4>2. QED
        BY <3>1, <4>1 DEF RetryEntries
    <3>4. QED
      BY <2>1, <3>1, <3>2, <3>3 DEF TriesCounted, TriesBounded
  <2>4. QED
    BY <2>2, <2>3
<1>7. CASE PushBackRetry
  <2>1. Untried' \subseteq Untried
    BY <1>7, UntriedStep DEF NoArrival, RetryStep
  <2>2. /\ held \in RetryEntries /\ held # None /\ rw # "failed" /\ held' = None
        /\ retry' = <<held>> \o retry /\ UNCHANGED <<tries, arrived>>
    BY <1>7 DEF PushBackRetry, ControlOK, TypeOK
  <2>3. retry \in Seq(RetryEntries) /\ DOMAIN retry = 1 .. Len(retry) /\ Len(retry) \in Nat
    BY LenProperties DEF TypeOK
  <2>4. /\ DOMAIN retry' = 1 .. Len(retry) + 1
        /\ \A k \in 1 .. Len(retry) + 1 : retry'[k] = IF k = 1 THEN held ELSE retry[k - 1]
    BY <2>2, <2>3, ConcatProperties, LenProperties
  <2>5. tries[held.id] = held.retryCount
    BY <2>2 DEF TriesCounted, RetryEntries
  <2>6. ASSUME NEW k \in DOMAIN retry' PROVE tries[retry'[k].id] = retry'[k].retryCount
    <3>1. CASE k = 1
      BY <2>4, <2>5, <3>1
    <3>2. CASE k # 1
      <4>1. PICK j \in DOMAIN retry : j = k - 1
        BY <2>3, <2>4, <3>2
      <4>2. retry'[k] = retry[j]
        BY <2>4, <3>2, <4>1
      <4>3. QED
        BY <4>1, <4>2 DEF TriesCounted
    <3>3. QED
      BY <3>1, <3>2
  <2>7. QED
    BY <2>1, <2>2, <2>6 DEF TriesCounted, TriesBounded
<1>8. CASE RetryResolves \/ RetryThrows
  <2>1. Untried' \subseteq Untried
    BY <1>8, UntriedStep DEF NoArrival, RetryStep
  <2>2. PICK e \in RetryEntries : e = held /\ held # None
    BY <1>8 DEF RetryResolves, RetryThrows, ControlOK, TypeOK
  <2>3. PICK m \in Messages : m = e.id
    BY DEF RetryEntries
  <2>4. e.retryCount \in 0 .. MAX_RETRIES /\ MAX_RETRIES \in Nat
    BY LimitsAssumption DEF RetryEntries
  <2>5. tries[m] = e.retryCount
    BY <1>8, <2>2, <2>3, <2>4 DEF TriesCounted, RetryResolves, RetryThrows
  <2>6. /\ tries' = [tries EXCEPT ![m] = @ + 1] /\ UNCHANGED <<retry, arrived>>
        /\ held' = None \/ (held' = e /\ rw' = "failed")
    BY <1>8, <2>2, <2>3 DEF RetryResolves, RetryThrows
  <2>7. /\ \A n \in Messages : n # m => tries'[n] = tries[n]
        /\ tries'[m] = e.retryCount + 1
    BY <2>5, <2>6 DEF TypeOK
  <2>8. m \in Places[6]
    BY <2>2, <2>3 DEF Places, HeldId
  <2>9. /\ m \notin Untried /\ m \notin Ids(retry) /\ m \in Range(arrived)
    BY <2>8, PlacesByName DEF OnePlace, PlacesOK, PairwiseDisjoint, Untried
  <2>10. \A k \in DOMAIN retry : retry[k].id \in Messages /\ retry[k].id # m
    <3>1. \A k \in DOMAIN retry : retry[k] \in RetryEntries
      BY ElementOfSeq, LenProperties DEF TypeOK
    <3>2. \A x \in RetryEntries : x.id \in Messages
      BY DEF RetryEntries
    <3>3. QED
      BY <2>9, <3>1, <3>2 DEF Ids
  <2>11. Untried \subseteq Messages
    <3>1. Range(main) \subseteq Messages /\ Range(batch) \subseteq Messages
      BY RangeOfSeq DEF TypeOK
    <3>2. {batch[k] : k \in next .. Len(batch)} \subseteq Messages
      BY RestOfBatch DEF TypeOK
    <3>3. QED
      BY <3>1, <3>2 DEF Untried, Unrouted, Popped, TypeOK
  <2>12. TriesBounded'
    BY <2>4, <2>7 DEF TriesBounded
  <2>13. \A n \in Untried' : tries'[n] = 0
    BY <2>1, <2>7, <2>9, <2>11 DEF TriesCounted
  <2>14. \A n \in Messages \ Range(arrived') : tries'[n] = 0
    BY <2>6, <2>7, <2>9 DEF TriesCounted
  <2>15. \A k \in DOMAIN retry' : tries'[retry'[k].id] = retry'[k].retryCount
    BY <2>6, <2>7, <2>10 DEF TriesCounted
  <2>16. held' # None => tries'[held'.id] = held'.retryCount + (IF rw' = "failed" THEN 1 ELSE 0)
    BY <2>3, <2>6, <2>7
  <2>17. QED
    BY <2>12, <2>13, <2>14, <2>15, <2>16 DEF TriesCounted
<1>9. CASE Requeue
  <2>1. Untried' \subseteq Untried
    BY <1>9, UntriedStep DEF NoArrival, RetryStep
  <2>2. PICK e \in RetryEntries : e = held /\ held # None
    BY <1>9 DEF Requeue, ControlOK, TypeOK
  <2>3. PICK f : f = [id |-> e.id, retryCount |-> e.retryCount + 1, due |-> FALSE]
    OBVIOUS
  <2>4. f \in RetryEntries
    <3>1. e.retryCount \in Nat /\ e.retryCount < MAX_RETRIES /\ MAX_RETRIES \in Nat
      BY <1>9, <2>2, LimitsAssumption DEF Requeue, RetriesLeft, RetryEntries
    <3>2. e.retryCount + 1 \in 0 .. MAX_RETRIES
      BY <3>1
    <3>3. QED
      BY <2>3, <3>2 DEF RetryEntries
  <2>5. retry' = Append(retry, f) /\ held' = None /\ UNCHANGED <<tries, arrived>>
    BY <1>9, <2>2, <2>3 DEF Requeue
  <2>6. tries[f.id] = f.retryCount
    BY <1>9, <2>2, <2>3 DEF TriesCounted, Requeue, RetryEntries
  <2>7. retry \in Seq(RetryEntries) /\ DOMAIN retry = 1 .. Len(retry) /\ Len(retry) \in Nat
    BY LenProperties DEF TypeOK
  <2>8. /\ DOMAIN retry' = 1 .. Len(retry) + 1
        /\ \A k \in 1 .. Len(retry) : retry'[k] = retry[k]
        /\ retry'[Len(retry) + 1] = f
    BY <2>4, <2>5, <2>7, AppendProperties, LenProperties
  <2>9. \A k \in 1 .. Len(retry) + 1 : k \in 1 .. Len(retry) \/ k = Len(retry) + 1
    BY <2>7
  <2>10. \A k \in DOMAIN retry' : tries[retry'[k].id] = retry'[k].retryCount
    BY <2>6, <2>7, <2>8, <2>9 DEF TriesCounted
  <2>11. QED
    BY <2>1, <2>5, <2>10 DEF TriesCounted, TriesBounded
<1>10. CASE Discard \/ Exit
  <2>1. Untried' \subseteq Untried
    BY <1>10, UntriedStep DEF NoArrival, RetryStep
  <2>2. held' = None /\ UNCHANGED <<tries, arrived, retry>>
    BY <1>10 DEF Discard, Exit
  <2>3. QED
    BY <2>1, <2>2 DEF TriesCounted, TriesBounded
<1>11. ASSUME NEW k \in DOMAIN retry, RetryDue(k) PROVE TriesCounted' /\ TriesBounded'
  <2>1. Untried' \subseteq Untried
    BY <1>11, UntriedStep DEF NoArrival
  <2>2. /\ retry' = [retry EXCEPT ![k].due = TRUE]
        /\ UNCHANGED <<held, rw, tries, arrived>>
    BY <1>11 DEF RetryDue
  <2>3. /\ DOMAIN retry' = DOMAIN retry
        /\ \A j \in DOMAIN retry : retry'[j].id = retry[j].id /\ retry'[j].retryCount = retry[j].retryCount
    BY <2>2, DueKeepsIds DEF TypeOK
  <2>4. QED
    BY <2>1, <2>2, <2>3 DEF TriesCounted, TriesBounded
<1>12. QED
  BY <1>2, <1>3, <1>4, <1>5, <1>6, <1>7, <1>8, <1>9, <1>10, <1>11
  DEF Next, BatchStep, RetryStep

\* Whatever the error and however often the process restarts, the retry worker tries
\* a message MAX_RETRIES + 1 times at most (requeueRetry of lib/redis-queue.ts).
THEOREM RetriesAreBounded == Spec => []TriesBounded
<1>1. Init => TriesCounted /\ TriesBounded
  <2>1. SUFFICES ASSUME Init PROVE TriesCounted /\ TriesBounded
    OBVIOUS
  <2>2. /\ tries = [m \in Messages |-> 0] /\ main = <<>> /\ retry = <<>> /\ batch = <<>>
        /\ popped = None /\ held = None /\ bw = "off"
    BY <2>1 DEF Init
  <2>3. Untried = {}
    BY <2>2 DEF Untried, Unrouted, Popped, Range
  <2>4. QED
    BY <2>2, <2>3, LimitsAssumption DEF TriesCounted, TriesBounded
<1>2. TypeOK /\ ControlOK /\ OnePlace /\ TriesCounted /\ TriesBounded /\ [Next]_vars
        => (TriesCounted /\ TriesBounded)'
  BY TriesStep
<1>3. QED
  BY <1>1, <1>2, PlaceInvariant, PTL DEF Spec

-------------------------------------------------------------------------------
(* No message vanishes.                                                      *)

Placing == {batch[k] : k \in next .. Len(batch)}

\* Where a message can be, or what became of it.
Accounted == InRedis \cup InMemory \cup inserted \cup dropped \cup gone

\* Outside the steps that place them, the batch worker has no messages.
LEMMA MemoryByName ==
  TypeOK /\ ControlOK => InMemory = Placing \cup Popped \cup HeldId
<1> SUFFICES ASSUME TypeOK, ControlOK PROVE InMemory = Placing \cup Popped \cup HeldId
  OBVIOUS
<1>1. CASE bw \in {"pop", "pushBack", "upsert", "route"}
  BY <1>1 DEF InMemory, InBatch, Placing, Popped, HeldId
<1>2. CASE bw \in {"off", "sleep"}
  <2>1. batch = <<>> /\ popped = None /\ next = 1
    BY <1>2 DEF ControlOK
  <2>2. Placing = {} /\ Popped = {}
    BY <2>1, EmptySeq DEF Placing, Popped
  <2>3. InBatch = {}
    BY <1>2 DEF InBatch
  <2>4. QED
    BY <2>2, <2>3 DEF InMemory, HeldId
<1>3. QED
  BY <1>1, <1>2 DEF TypeOK

\* What is accounted for stays accounted for.
LEMMA AccountedStep ==
  ASSUME TypeOK, ControlOK, OnePlace, [Next]_vars
  PROVE  Accounted \subseteq Accounted'
<1> USE DEF redisVars, batchVars, timerVars, retryVars, historyVars
<1> DEFINE Parts == Range(main) \cup Ids(retry) \cup Range(bad) \cup Placing \cup Popped
                      \cup HeldId \cup inserted \cup dropped \cup gone
<1>1. Accounted = Parts /\ Accounted' = Parts'
  <2>1. InMemory = Placing \cup Popped \cup HeldId
    BY MemoryByName
  <2>2. TypeOK' /\ ControlOK'
    BY TypeStep, ControlStep
  <2>3. (TypeOK /\ ControlOK => InMemory = Placing \cup Popped \cup HeldId)'
    BY MemoryByName, PTL
  <2>4. QED
    BY <2>1, <2>2, <2>3 DEF Accounted, InRedis
<1>2. SUFFICES Parts \subseteq Parts'
  BY <1>1
<1>3. UNCHANGED <<batch, next>> => Placing' = Placing
  BY DEF Placing
<1>4. popped' = popped => Popped' = Popped
  BY DEF Popped
<1>5. held' = held => HeldId' = HeldId
  BY DEF HeldId
<1>6. Len(batch) \in Nat /\ next \in Nat \ {0} /\ Range(<<>>) = {} /\ Len(<<>>) = 0
  BY EmptySeq DEF TypeOK, Range
<1>7. CASE Start \/ Poll \/ CheckIdle \/ RetryCounted \/ RetryThrows \/ DiscardCounted
             \/ IdleLong \/ Tick \/ Shutdown \/ UNCHANGED vars
  BY <1>3, <1>4, <1>5, <1>7
  DEF Start, Poll, CheckIdle, RetryCounted, RetryThrows, DiscardCounted, IdleLong,
      Tick, Shutdown, vars
<1>8. ASSUME NEW m \in Messages, EnqueueMain(m) PROVE Parts \subseteq Parts'
  <2>1. Range(Append(main, m)) = Range(main) \cup {m}
    BY AppendRange DEF TypeOK
  <2>2. QED
    BY <1>3, <1>4, <1>5, <1>8, <2>1 DEF EnqueueMain
<1>9. CASE Pop
  <2>1. CASE main = <<>> \/ Len(batch) = MAX_BATCH
    BY <1>3, <1>4, <1>5, <1>9, <2>1 DEF Pop
  <2>2. CASE ~(main = <<>> \/ Len(batch) = MAX_BATCH)
    <3>1. PICK m \in Messages : m = Head(main)
      BY <2>2, HeadTailProperties DEF TypeOK
    <3>2. Range(main) = Range(Tail(main)) \cup {m}
      BY <2>2, <3>1, TailRange DEF TypeOK, OnePlace
    <3>3. /\ main' = Tail(main) /\ next = 1 /\ next' = 1 /\ popped = None
          /\ \/ batch' = Append(batch, m) /\ popped' = popped
             \/ batch' = batch /\ popped' = m
          /\ UNCHANGED <<retry, bad, held, inserted, dropped, gone>>
      BY <1>9, <2>2, <3>1 DEF Pop, ControlOK
    <3>4. Placing = Range(batch) /\ Placing' = Range(batch')
      <4>1. batch' \in Seq(Messages)
        <5>1. batch \in Seq(Messages) /\ Append(batch, m) \in Seq(Messages)
          BY AppendProperties DEF TypeOK
        <5>2. QED
          BY <3>3, <5>1
      <4>2. Range(batch') = {batch'[k] : k \in 1 .. Len(batch')}
        BY <4>1, RangeEquality
      <4>3. Range(batch) = {batch[k] : k \in 1 .. Len(batch)}
        BY RangeEquality DEF TypeOK
      <4>4. QED
        BY <3>3, <4>2, <4>3 DEF Placing
    <3>5. Range(Append(batch, m)) = Range(batch) \cup {m}
      BY AppendRange DEF TypeOK
    <3>6. Popped = {} /\ (popped' = m => Popped' = {m})
      BY <3>3, MessagesAssumption DEF Popped
    <3>7. Range(main) \cup Placing \cup Popped
            \subseteq Range(main') \cup Placing' \cup Popped'
      BY <3>2, <3>3, <3>4, <3>5, <3>6
    <3>8. QED
      BY <1>5, <3>3, <3>7
  <2>3. QED
    BY <2>1, <2>2
<1>10. CASE PushBack
  <2>1. popped \in Messages /\ popped # None
    BY <1>10 DEF PushBack, ControlOK, TypeOK
  <2>2. Range(<<popped>> \o main) = Range(main) \cup {popped}
    BY <2>1, ConsRange DEF TypeOK
  <2>3. QED
    BY <1>3, <1>5, <1>10, <2>1, <2>2 DEF PushBack, PushedBack, Popped
<1>11. CASE UpsertResolves
  <2>1. Placing \subseteq Placing' \cup {batch[next]}
    <3>1. \A k \in next .. Len(batch) : k = next \/ k \in next + 1 .. Len(batch)
      BY <1>6
    <3>2. batch' = batch /\ next' = next + 1
      BY <1>11 DEF UpsertResolves
    <3>3. QED
      BY <3>1, <3>2 DEF Placing
  <2>2. batch[next] \in inserted' \cup dropped' /\ inserted \subseteq inserted' /\ dropped \subseteq dropped'
    BY <1>11 DEF UpsertResolves
  <2>3. UNCHANGED <<main, retry, bad, popped, held, gone>>
    BY <1>11 DEF UpsertResolves
  <2>4. QED
    BY <1>4, <1>5, <2>1, <2>2, <2>3
<1>12. CASE UpsertThrows
  <2>1. /\ batch' = batch /\ next' = 1 /\ inserted \subseteq inserted'
        /\ UNCHANGED <<main, retry, bad, popped, held, dropped, gone>>
    BY <1>12 DEF UpsertThrows, RouteFrom
  <2>2. Placing \subseteq Placing'
    BY <1>6, <2>1 DEF Placing
  <2>3. QED
    BY <1>4, <1>5, <2>1, <2>2
<1>13. CASE Route
  <2>1. PICK m \in Messages : m = batch[next]
    <3>1. batch[next] \in Messages
      BY <1>13, NextIsInBatch DEF Route, TypeOK
    <3>2. QED
      BY <3>1
  <2>2. Placing \subseteq Placing' \cup {m}
    <3>1. \A k \in next .. Len(batch) : k = next \/ k \in next + 1 .. Len(batch)
      BY <1>6
    <3>2. batch' = batch /\ next' = next + 1
      BY <1>13 DEF Route
    <3>3. QED
      BY <2>1, <3>1, <3>2 DEF Placing
  <2>3. Range(Append(bad, m)) = Range(bad) \cup {m}
    BY AppendRange DEF TypeOK
  <2>4. Ids(Append(retry, RetryEntry(m))) = Ids(retry) \cup {m}
    <3>1. RetryEntry(m) \in RetryEntries /\ RetryEntry(m).id = m
      BY LimitsAssumption DEF RetryEntry, RetryEntries
    <3>2. QED
      BY <3>1, IdsAfterAppend DEF TypeOK
  <2>5. UNCHANGED <<main, popped, held, inserted, dropped, gone>>
    BY <1>13 DEF Route
  <2>6. Ids(retry') \cup Range(bad') = Ids(retry) \cup Range(bad) \cup {m}
    BY <1>13, <2>1, <2>3, <2>4 DEF Route
  <2>7. QED
    BY <1>4, <1>5, <2>2, <2>5, <2>6
<1>14. CASE BatchDone
  <2>1. Placing = {}
    BY <1>6, <1>14 DEF BatchDone, Placing
  <2>2. QED
    BY <1>4, <1>5, <1>14, <2>1 DEF BatchDone
<1>15. CASE PopRetry
  <2>1. CASE retry = <<>>
    BY <1>3, <1>4, <1>5, <1>15, <2>1 DEF PopRetry
  <2>2. CASE retry # <<>>
    <3>1. PICK e \in RetryEntries : e = Head(retry) /\ e # None
      BY <2>2, HeadTailProperties, NoneIsNoEntry DEF TypeOK
    <3>2. Ids(retry) = Ids(Tail(retry)) \cup {e.id}
      BY <2>2, <3>1, IdsAfterTail DEF TypeOK, OnePlace
    <3>3. /\ retry' = Tail(retry) /\ held' = e /\ held = None
          /\ UNCHANGED <<main, bad, batch, next, popped, inserted, dropped, gone>>
      BY <1>15, <2>2, <3>1 DEF PopRetry, RetryPopped, ControlOK
    <3>4. QED
      BY <1>3, <1>4, <3>1, <3>2, <3>3 DEF HeldId
  <2>3. QED
    BY <2>1, <2>2
<1>16. CASE PushBackRetry
  <2>1. held \in RetryEntries /\ held # None
    BY <1>16 DEF PushBackRetry, ControlOK, TypeOK
  <2>2. Ids(<<held>> \o retry) = Ids(retry) \cup {held.id}
    BY <2>1, IdsAfterCons DEF TypeOK
  <2>3. QED
    BY <1>3, <1>4, <1>16, <2>1, <2>2 DEF PushBackRetry, HeldId
<1>17. CASE RetryResolves
  <2>1. /\ held # None /\ held' = None
        /\ held.id \in inserted' \cup dropped' /\ inserted \subseteq inserted' /\ dropped \subseteq dropped'
        /\ UNCHANGED <<main, retry, bad, batch, next, popped, gone>>
    BY <1>17 DEF RetryResolves, ControlOK
  <2>2. QED
    BY <1>3, <1>4, <2>1 DEF HeldId
<1>18. CASE Requeue
  <2>1. PICK e \in RetryEntries : e = held /\ held # None
    BY <1>18 DEF Requeue, ControlOK, TypeOK
  <2>2. PICK f : f = [id |-> e.id, retryCount |-> e.retryCount + 1, due |-> FALSE]
    OBVIOUS
  <2>3. /\ retry' = Append(retry, f) /\ held' = None
        /\ UNCHANGED <<main, bad, batch, next, popped, inserted, dropped, gone>>
    BY <1>18, <2>1, <2>2 DEF Requeue
  <2>4. f \in RetryEntries /\ f.id = e.id
    <3>1. e.retryCount \in Nat /\ e.retryCount < MAX_RETRIES /\ MAX_RETRIES \in Nat
      BY <1>18, <2>1, LimitsAssumption DEF Requeue, RetriesLeft, RetryEntries
    <3>2. e.retryCount + 1 \in 0 .. MAX_RETRIES
      BY <3>1
    <3>3. QED
      BY <2>2, <3>2 DEF RetryEntries
  <2>5. Ids(retry') = Ids(retry) \cup {e.id}
    BY <2>3, <2>4, IdsAfterAppend DEF TypeOK
  <2>6. QED
    BY <1>3, <1>4, <2>1, <2>3, <2>5 DEF HeldId
<1>19. CASE Discard
  <2>1. held.id \in Messages /\ held # None
    BY <1>19 DEF Discard, ControlOK, TypeOK, RetryEntries
  <2>2. Range(Append(bad, held.id)) = Range(bad) \cup {held.id}
    BY <2>1, AppendRange DEF TypeOK
  <2>3. QED
    BY <1>3, <1>4, <1>19, <2>1, <2>2 DEF Discard, HeldId
<1>20. ASSUME NEW k \in DOMAIN retry, RetryDue(k) PROVE Parts \subseteq Parts'
  <2>1. Ids(retry') = Ids(retry)
    BY <1>20, DueKeepsIds DEF RetryDue, TypeOK
  <2>2. QED
    BY <1>3, <1>4, <1>5, <1>20, <2>1 DEF RetryDue
<1>21. CASE Exit
  <2>1. Placing \cup Popped \cup HeldId \cup gone \subseteq gone' \cup inserted \cup dropped
    BY <1>21, MemoryByName DEF Exit
  <2>2. UNCHANGED <<main, retry, bad, inserted, dropped>>
    BY <1>21 DEF Exit
  <2>3. QED
    BY <2>1, <2>2
<1>22. QED
  BY <1>7, <1>8, <1>9, <1>10, <1>11, <1>12, <1>13, <1>14, <1>15, <1>16, <1>17, <1>18,
     <1>19, <1>20, <1>21
  DEF Next, BatchStep, RetryStep

\* A message that was enqueued stays in a list, in the memory of a worker or in the
\* Data Extension, except for the two ways out that NothingVanishes names: none is
\* lost between a pop and the command that places it (lib/batch-worker.ts,
\* lib/retry-worker.ts).
THEOREM NoMessageVanishes == Spec => []NothingVanishes
<1>1. Init => NothingVanishes
  BY DEF Init, NothingVanishes, Range
<1>2. TypeOK /\ ControlOK /\ OnePlace /\ NothingVanishes /\ [Next]_vars => NothingVanishes'
  <2>1. SUFFICES ASSUME TypeOK, ControlOK, OnePlace, NothingVanishes, [Next]_vars
                 PROVE  NothingVanishes'
    OBVIOUS
  <2>2. Accounted \subseteq Accounted'
    BY <2>1, AccountedStep
  <2>3. ASSUME NEW m \in Messages, EnqueueMain(m) PROVE Range(arrived') \subseteq Accounted'
    <3>1. Range(Append(main, m)) = Range(main) \cup {m} /\ Range(Append(arrived, m)) = Range(arrived) \cup {m}
      BY <2>1, AppendRange DEF TypeOK
    <3>2. Range(arrived') = Range(arrived) \cup {m} /\ m \in Range(main')
      BY <2>3, <3>1 DEF EnqueueMain
    <3>3. QED
      BY <2>1, <2>2, <3>2 DEF NothingVanishes, Accounted, InRedis
  <2>4. CASE \A m \in Messages : ~EnqueueMain(m)
    <3>1. arrived' = arrived
      BY <2>1, <2>4
      DEF Next, BatchStep, RetryStep, historyVars, vars, Start, Poll, Pop, PushBack,
          UpsertResolves, UpsertThrows, Route, BatchDone, CheckIdle, PopRetry,
          PushBackRetry, RetryResolves, RetryCounted, RetryThrows, Requeue, Discard,
          DiscardCounted, RetryDue, IdleLong, Tick, Shutdown, Exit
    <3>2. QED
      BY <2>1, <2>2, <3>1 DEF NothingVanishes, Accounted
  <2>5. QED
    BY <2>3, <2>4 DEF NothingVanishes, Accounted
<1>3. QED
  BY <1>1, <1>2, PlaceInvariant, PTL DEF Spec

-------------------------------------------------------------------------------
(* The main queue and the batch taken from it.                               *)

\* IsSuffix, position by position.
LEMMA SuffixByIndex ==
  ASSUME NEW S, NEW s \in Seq(S), NEW t \in Seq(S)
  PROVE  IsSuffix(s, t) <=>
           /\ Len(s) <= Len(t)
           /\ \A k \in 1 .. Len(s) : s[k] = t[Len(t) - Len(s) + k]
<1>1. PICK n \in Nat : n = Len(s)
  OBVIOUS
<1>2. PICK m \in Nat : m = Len(t)
  OBVIOUS
<1>3. PICK u \in Seq(S) : u = Reverse(s) /\ Len(u) = n /\ \A k \in 1 .. n : u[k] = s[n - k + 1]
  <2>1. /\ Reverse(s) \in Seq(S) /\ Len(Reverse(s)) = n
        /\ \A k \in 1 .. n : Reverse(s)[k] = s[n - k + 1]
    BY <1>1 DEF Reverse
  <2>2. QED
    BY <2>1
<1>4. PICK v \in Seq(S) : v = Reverse(t) /\ Len(v) = m /\ \A k \in 1 .. m : v[k] = t[m - k + 1]
  <2>1. /\ Reverse(t) \in Seq(S) /\ Len(Reverse(t)) = m
        /\ \A k \in 1 .. m : Reverse(t)[k] = t[m - k + 1]
    BY <1>2 DEF Reverse
  <2>2. QED
    BY <2>1
<1>5. IsPrefix(u, v) <=> (n <= m /\ \A k \in 1 .. n : u[k] = v[k])
  <2>1. SUFFICES ASSUME n <= m
                 PROVE  SubSeq(u, 1, n) = SubSeq(v, 1, n) <=> \A k \in 1 .. n : u[k] = v[k]
    BY <1>3, <1>4 DEF IsPrefix
  <2>2. /\ SubSeq(u, 1, n) \in Seq(S) /\ Len(SubSeq(u, 1, n)) = n
        /\ \A k \in 1 .. n : SubSeq(u, 1, n)[k] = u[k]
    BY <1>3
  <2>3. /\ SubSeq(v, 1, n) \in Seq(S) /\ Len(SubSeq(v, 1, n)) = n
        /\ \A k \in 1 .. n : SubSeq(v, 1, n)[k] = v[k]
    BY <1>4, <2>1
  <2>4. ASSUME \A k \in 1 .. n : u[k] = v[k] PROVE SubSeq(u, 1, n) = SubSeq(v, 1, n)
    BY <2>2, <2>3, <2>4, SeqEqual
  <2>5. QED
    BY <2>2, <2>3, <2>4
<1>6. n <= m => ((\A k \in 1 .. n : s[n - k + 1] = t[m - k + 1])
                   <=> \A k \in 1 .. n : s[k] = t[m - n + k])
  <2>1. SUFFICES ASSUME n <= m
                 PROVE  (\A k \in 1 .. n : s[n - k + 1] = t[m - k + 1])
                          <=> \A k \in 1 .. n : s[k] = t[m - n + k]
    OBVIOUS
  <2>2. ASSUME \A k \in 1 .. n : s[n - k + 1] = t[m - k + 1], NEW k \in 1 .. n
        PROVE  s[k] = t[m - n + k]
    <3>1. n - k + 1 \in 1 .. n /\ n - (n - k + 1) + 1 = k /\ m - (n - k + 1) + 1 = m - n + k
      OBVIOUS
    <3>2. QED
      BY <2>2, <3>1
  <2>3. ASSUME \A k \in 1 .. n : s[k] = t[m - n + k], NEW k \in 1 .. n
        PROVE  s[n - k + 1] = t[m - k + 1]
    <3>1. n - k + 1 \in 1 .. n /\ m - n + (n - k + 1) = m - k + 1
      OBVIOUS
    <3>2. QED
      BY <2>3, <3>1
  <2>4. QED
    BY <2>2, <2>3
<1>7. n <= m => ((\A k \in 1 .. n : u[k] = v[k]) <=> \A k \in 1 .. n : s[n - k + 1] = t[m - k + 1])
  <2>1. ASSUME n <= m, NEW k \in 1 .. n
        PROVE  u[k] = s[n - k + 1] /\ v[k] = t[m - k + 1]
    <3>1. k \in 1 .. m /\ k \in 1 .. n
      BY <2>1
    <3>2. QED
      BY <1>3, <1>4, <3>1
  <2>2. ASSUME n <= m, \A k \in 1 .. n : u[k] = v[k], NEW k \in 1 .. n
        PROVE  s[n - k + 1] = t[m - k + 1]
    BY <2>1, <2>2
  <2>3. ASSUME n <= m, \A k \in 1 .. n : s[n - k + 1] = t[m - k + 1], NEW k \in 1 .. n
        PROVE  u[k] = v[k]
    BY <2>1, <2>3
  <2>4. QED
    BY <2>2, <2>3
<1>8. IsSuffix(s, t) <=> IsPrefix(u, v)
  BY <1>3, <1>4 DEF IsSuffix
<1>9. QED
  BY <1>1, <1>2, <1>5, <1>6, <1>7, <1>8

\* The same as a rule.
LEMMA SuffixFromIndex ==
  ASSUME NEW S, NEW s \in Seq(S), NEW t \in Seq(S), NEW n \in Nat, NEW m \in Nat,
         n = Len(s), m = Len(t), n <= m, \A k \in 1 .. n : s[k] = t[m - n + k]
  PROVE  IsSuffix(s, t)
<1>1. IsSuffix(s, t) <=>
        /\ Len(s) <= Len(t)
        /\ \A k \in 1 .. Len(s) : s[k] = t[Len(t) - Len(s) + k]
  BY SuffixByIndex
<1>2. QED
  BY <1>1

\* What follows a part of the sequence that is dropped is a suffix still.
LEMMA SuffixAfterDrop ==
  ASSUME NEW S, NEW a \in Seq(S), NEW b \in Seq(S), NEW t \in Seq(S), IsSuffix(a \o b, t)
  PROVE  IsSuffix(b, t)
<1>1. PICK i \in Nat : i = Len(a)
  OBVIOUS
<1>2. PICK j \in Nat : j = Len(b)
  OBVIOUS
<1>3. PICK m \in Nat : m = Len(t)
  OBVIOUS
<1>4. /\ a \o b \in Seq(S) /\ Len(a \o b) = i + j
      /\ \A k \in 1 .. i + j : (a \o b)[k] = IF k <= i THEN a[k] ELSE b[k - i]
  BY <1>1, <1>2, ConcatProperties
<1>5. i + j <= m /\ \A k \in 1 .. i + j : (a \o b)[k] = t[m - (i + j) + k]
  <2>1. PICK w \in Seq(S) : w = a \o b
    BY <1>4
  <2>2. IsSuffix(w, t) <=>
          /\ Len(w) <= Len(t)
          /\ \A k \in 1 .. Len(w) : w[k] = t[Len(t) - Len(w) + k]
    BY SuffixByIndex
  <2>3. IsSuffix(w, t) /\ Len(w) = i + j
    BY <1>4, <2>1
  <2>4. i + j <= m /\ \A k \in 1 .. i + j : w[k] = t[m - (i + j) + k]
    BY ONLY <1>3, <2>2, <2>3
  <2>5. QED
    BY <2>1, <2>4
<1>6. ASSUME NEW k \in 1 .. j PROVE b[k] = t[m - j + k]
  <2>1. i + k \in 1 .. i + j /\ ~(i + k <= i) /\ (i + k) - i = k
          /\ m - (i + j) + (i + k) = m - j + k
    BY <1>1, <1>2, <1>3
  <2>2. (a \o b)[i + k] = b[k]
    BY <1>4, <2>1
  <2>3. QED
    BY <1>5, <2>1, <2>2
<1>7. j <= m
  BY <1>5
<1>8. QED
  BY <1>2, <1>3, <1>6, <1>7, SuffixFromIndex

\* The same message at the end of both.
LEMMA SuffixAfterAppend ==
  ASSUME NEW S, NEW s \in Seq(S), NEW t \in Seq(S), NEW x \in S, IsSuffix(s, t)
  PROVE  IsSuffix(Append(s, x), Append(t, x))
<1>1. PICK n \in Nat : n = Len(s)
  OBVIOUS
<1>2. PICK m \in Nat : m = Len(t)
  OBVIOUS
<1>3. n <= m /\ \A k \in 1 .. n : s[k] = t[m - n + k]
  BY <1>1, <1>2, SuffixByIndex
<1>4. PICK u \in Seq(S) : /\ u = Append(s, x) /\ Len(u) = n + 1 /\ u[n + 1] = x
                          /\ \A k \in 1 .. n : u[k] = s[k]
  <2>1. /\ Append(s, x) \in Seq(S) /\ Len(Append(s, x)) = Len(s) + 1
        /\ \A k \in 1 .. Len(s) : Append(s, x)[k] = s[k]
        /\ Append(s, x)[Len(s) + 1] = x
    BY AppendProperties
  <2>2. QED
    BY <1>1, <2>1
<1>5. PICK v \in Seq(S) : /\ v = Append(t, x) /\ Len(v) = m + 1 /\ v[m + 1] = x
                          /\ \A k \in 1 .. m : v[k] = t[k]
  <2>1. /\ Append(t, x) \in Seq(S) /\ Len(Append(t, x)) = Len(t) + 1
        /\ \A k \in 1 .. Len(t) : Append(t, x)[k] = t[k]
        /\ Append(t, x)[Len(t) + 1] = x
    BY AppendProperties
  <2>2. QED
    BY <1>2, <2>1
<1>6. ASSUME NEW k \in 1 .. n + 1 PROVE u[k] = v[(m + 1) - (n + 1) + k]
  <2>1. (m + 1) - (n + 1) + k = m - n + k
    BY <1>1, <1>2
  <2>2. CASE k = n + 1
    <3>1. m - n + k = m + 1
      BY <2>2
    <3>2. QED
      BY <1>4, <1>5, <2>1, <2>2, <3>1
  <2>3. CASE k # n + 1
    <3>1. k \in 1 .. n /\ m - n + k \in 1 .. m
      BY <1>3, <2>3
    <3>2. QED
      BY <1>3, <1>4, <1>5, <2>1, <3>1
  <2>4. QED
    BY <2>2, <2>3
<1>7. IsSuffix(u, v)
  <2>1. n + 1 \in Nat /\ m + 1 \in Nat /\ n + 1 <= m + 1
    BY <1>3
  <2>2. n + 1 = Len(u) /\ m + 1 = Len(v)
    BY <1>4, <1>5
  <2>3. QED
    BY <1>6, <2>1, <2>2, SuffixFromIndex
<1>8. QED
  BY <1>4, <1>5, <1>7

\* The messages the batch worker took from the front, and the main queue behind them.
Ahead == batch \o (IF popped = None THEN <<>> ELSE <<popped>>)
Line == Ahead \o main

LEMMA OrderStep ==
  ASSUME TypeOK, ControlOK, OrderKept, [Next]_vars
  PROVE  OrderKept'
<1> USE DEF redisVars, batchVars, timerVars, retryVars, historyVars
<1>1. /\ OrderKept <=> IsSuffix(Line, arrived)
      /\ OrderKept' <=> IsSuffix(Line', arrived')
  BY DEF OrderKept, Line, Ahead
<1>2. /\ batch \in Seq(Messages) /\ main \in Seq(Messages) /\ arrived \in Seq(Messages)
      /\ Ahead \in Seq(Messages) /\ Line \in Seq(Messages)
  <2>1. (IF popped = None THEN <<>> ELSE <<popped>>) \in Seq(Messages)
    BY EmptySeq DEF TypeOK
  <2>2. QED
    BY <2>1, ConcatProperties DEF TypeOK, Ahead, Line
<1>3. ASSUME UNCHANGED <<main, batch, popped, arrived>> PROVE OrderKept'
  BY <1>1, <1>3 DEF Line, Ahead
<1>4. CASE Start \/ Poll \/ UpsertResolves \/ UpsertThrows \/ Route \/ RetryStep
             \/ (\E k \in DOMAIN retry : RetryDue(k)) \/ IdleLong \/ Tick \/ Shutdown \/ UNCHANGED vars
  BY <1>3, <1>4
  DEF Start, Poll, UpsertResolves, UpsertThrows, Route, RetryStep, CheckIdle, PopRetry,
      PushBackRetry, RetryResolves, RetryCounted, RetryThrows, Requeue, Discard,
      DiscardCounted, RetryDue, IdleLong, Tick, Shutdown, vars
<1>5. ASSUME NEW m \in Messages, EnqueueMain(m) PROVE OrderKept'
  <2>1. Line' = Ahead \o Append(main, m) /\ arrived' = Append(arrived, m)
    BY <1>5 DEF EnqueueMain, Line, Ahead
  <2>2. Append(Line, m) = Line \o <<m>> /\ Append(main, m) = main \o <<m>> /\ <<m>> \in Seq(Messages)
    BY <1>2, AppendIsConcat
  <2>3. Ahead \o (main \o <<m>>) = (Ahead \o main) \o <<m>>
    BY <1>2, <2>2, MessagesConcat
  <2>4. Line' = Append(Line, m)
    BY <2>1, <2>2, <2>3 DEF Line
  <2>5. QED
    BY <1>1, <1>2, <2>1, <2>4, SuffixAfterAppend
<1>6. CASE Pop
  <2>1. CASE main = <<>> \/ Len(batch) = MAX_BATCH
    BY <1>3, <1>6, <2>1 DEF Pop
  <2>2. CASE ~(main = <<>> \/ Len(batch) = MAX_BATCH)
    <3>1. PICK m \in Messages : m = Head(main)
      BY <1>2, <2>2, HeadTailProperties
    <3>2. PICK rest \in Seq(Messages) : rest = Tail(main)
      BY <1>2, <2>2, HeadTailProperties
    <3>3. main = <<m>> \o rest
      BY <1>2, <2>2, <3>1, <3>2
    <3>4. /\ main' = rest /\ arrived' = arrived /\ popped = None
          /\ \/ batch' = Append(batch, m) /\ popped' = None
             \/ batch' = batch /\ popped' = m
      BY <1>6, <2>2, <3>1, <3>2 DEF Pop, ControlOK
    <3>5. m # None
      BY MessagesAssumption
    <3>6. Ahead = batch
      BY <1>2, <3>4, ConcatEmptySeq DEF Ahead
    <3>7. Ahead' = batch \o <<m>>
      <4>1. CASE batch' = Append(batch, m) /\ popped' = None
        <5>1. Append(batch, m) = batch \o <<m>> /\ Append(batch, m) \in Seq(Messages)
          BY <1>2, AppendIsConcat, AppendProperties
        <5>2. Ahead' = batch' \o <<>>
          BY <4>1 DEF Ahead
        <5>3. QED
          BY <4>1, <5>1, <5>2, ConcatEmptySeq
      <4>2. CASE batch' = batch /\ popped' = m
        BY <3>5, <4>2 DEF Ahead
      <4>3. QED
        BY <3>4, <4>1, <4>2
    <3>8. (batch \o <<m>>) \o rest = batch \o (<<m>> \o rest)
      <4>1. <<m>> \in Seq(Messages)
        OBVIOUS
      <4>2. QED
        BY <1>2, <4>1, MessagesConcat
    <3>9. Line' = Line
      BY <3>3, <3>4, <3>6, <3>7, <3>8 DEF Line
    <3>10. QED
      BY <1>1, <3>4, <3>9
  <2>3. QED
    BY <2>1, <2>2
<1>7. CASE PushBack
  <2>1. PICK m \in Messages : m = popped /\ popped # None
    BY <1>7 DEF PushBack, ControlOK, TypeOK
  <2>2. main' = <<m>> \o main /\ popped' = None /\ batch' = batch /\ arrived' = arrived
    BY <1>7, <2>1 DEF PushBack, PushedBack
  <2>3. Ahead = batch \o <<m>> /\ Ahead' = batch
    BY <1>2, <2>1, <2>2, ConcatEmptySeq DEF Ahead
  <2>4. (batch \o <<m>>) \o main = batch \o (<<m>> \o main)
    BY <1>2, MessagesConcat
  <2>5. Line' = Line
    BY <2>2, <2>3, <2>4 DEF Line
  <2>6. QED
    BY <1>1, <2>2, <2>5
<1>8. CASE BatchDone \/ Exit
  <2>1. popped' = None
    BY <1>8 DEF BatchDone, Exit, ControlOK
  <2>2. batch' = <<>> /\ main' = main /\ arrived' = arrived
    BY <1>8 DEF BatchDone, Exit
  <2>3. Line' = main
    BY <1>2, <2>1, <2>2, EmptySeq, ConcatEmptySeq DEF Line, Ahead
  <2>4. IsSuffix(main, arrived)
    BY <1>1, <1>2, SuffixAfterDrop DEF Line
  <2>5. QED
    BY <1>1, <2>2, <2>3, <2>4
<1>9. QED
  BY <1>4, <1>5, <1>6, <1>7, <1>8 DEF Next, BatchStep

\* Messages leave the main queue in the order they came, although dequeueBatch() pops
\* one too many and pushes it back while others arrive (lib/redis-queue.ts).
THEOREM ArrivalOrderKept == Spec => []OrderKept
<1>1. Init => OrderKept
  <2>1. SUFFICES ASSUME Init PROVE OrderKept
    OBVIOUS
  <2>2. batch = <<>> /\ popped = None /\ main = <<>> /\ arrived = <<>>
    BY <2>1 DEF Init
  <2>3. (<<>> \o <<>>) \o <<>> = <<>> /\ <<>> \in Seq(Messages) /\ Len(<<>>) = 0
    BY EmptySeq, ConcatEmptySeq
  <2>4. IsSuffix(<<>>, <<>>)
    <3>1. PICK e \in Seq(Messages) : e = <<>> /\ Len(e) = 0
      BY <2>3
    <3>2. IsSuffix(e, e)
      <4>1. PICK n \in Nat : n = Len(e)
        BY <3>1
      <4>2. n <= n /\ \A k \in 1 .. n : e[k] = e[n - n + k]
        OBVIOUS
      <4>3. QED
        BY <4>1, <4>2, SuffixFromIndex
    <3>3. QED
      BY <3>1, <3>2
  <2>5. QED
    BY <2>2, <2>3, <2>4 DEF OrderKept
<1>2. TypeOK /\ ControlOK /\ OrderKept /\ [Next]_vars => OrderKept'
  BY OrderStep
<1>3. QED
  BY <1>1, <1>2, ControlInvariant, PTL DEF Spec


-------------------------------------------------------------------------------
(* The counters.                                                             *)

LEMMA CountsAreNumbers ==
  ASSUME TypeOK, ControlOK
  PROVE  /\ Uncounted \in Nat /\ Queued \in Nat /\ Len(arrived) \in Nat /\ Len(batch) \in Nat
         /\ Len(main) \in Nat /\ Len(retry) \in Nat /\ Len(bad) \in Nat
         /\ stats.processed \in Nat /\ next \in Nat
         /\ UnroutedCount \in Nat /\ PoppedCount \in Nat
         /\ HeldCount \in Nat /\ UpsertedCount \in Nat
<1>1. /\ Len(main) \in Nat /\ Len(retry) \in Nat /\ Len(bad) \in Nat
      /\ Len(arrived) \in Nat /\ Len(batch) \in Nat /\ stats.processed \in Nat
      /\ next \in Nat /\ next <= Len(batch) + 1
  BY DEF TypeOK, ControlOK
<1>2. Queued \in Nat
  BY <1>1 DEF Queued
<1>3. /\ UnroutedCount \in Nat /\ PoppedCount \in Nat
      /\ HeldCount \in Nat /\ UpsertedCount \in Nat
  BY <1>1 DEF UnroutedCount, PoppedCount, HeldCount, UpsertedCount
<1>4. Uncounted \in Nat
  BY ONLY <1>3 DEF Uncounted, UnroutedCount, PoppedCount, HeldCount, UpsertedCount
<1>5. QED
  BY <1>1, <1>2, <1>3, <1>4

\* What one term of a sum loses, another gains.
LEMMA SumsBalance ==
  ASSUME NEW p \in Nat, NEW q \in Nat, NEW u \in Nat, NEW a \in Nat, p + q + u <= a
  PROVE  p + (q + 1) + (u - 1) <= a /\ p + (q - 1) + (u + 1) <= a
OBVIOUS

\* What leaves a list or the memory of a worker goes to a list or to a counter.
LEMMA CountStep ==
  ASSUME TypeOK, ControlOK, AllCounted, [Next]_vars
  PROVE  AllCounted'
<1> USE DEF redisVars, batchVars, timerVars, retryVars, historyVars
<1>0. /\ Uncounted \in Nat /\ Queued \in Nat /\ Len(arrived) \in Nat /\ Len(batch) \in Nat
      /\ stats.processed \in Nat /\ next \in Nat /\ Len(<<>>) = 0
      /\ Len(main) \in Nat /\ Len(retry) \in Nat /\ Len(bad) \in Nat
      /\ UnroutedCount \in Nat /\ PoppedCount \in Nat
      /\ HeldCount \in Nat /\ UpsertedCount \in Nat
  BY CountsAreNumbers
<1>1. /\ AllCounted <=> stats.processed + Queued + Uncounted <= Len(arrived)
      /\ AllCounted' <=> stats'.processed + Queued' + Uncounted' <= Len(arrived)'
  BY DEF AllCounted
<1>2. ASSUME UNCHANGED <<main, retry, bad, stats, arrived>>, Uncounted' = Uncounted
      PROVE  AllCounted'
  BY <1>1, <1>2 DEF Queued, AllCounted
<1>balance. stats.processed + Queued + Uncounted <= Len(arrived)
  BY <1>1
<1>toList. ASSUME stats' = stats, arrived' = arrived,
                  Queued' = Queued + 1, Uncounted' = Uncounted - 1
           PROVE  AllCounted'
  <2>1. stats.processed + (Queued + 1) + (Uncounted - 1) <= Len(arrived)
    BY ONLY <1>0, <1>balance, SumsBalance
  <2>2. QED
    BY ONLY <1>1, <1>toList, <2>1
<1>toMemory. ASSUME stats' = stats, arrived' = arrived,
                    Queued' = Queued - 1, Uncounted' = Uncounted + 1
             PROVE  AllCounted'
  <2>1. stats.processed + (Queued - 1) + (Uncounted + 1) <= Len(arrived)
    BY ONLY <1>0, <1>balance, SumsBalance
  <2>2. QED
    BY ONLY <1>1, <1>toMemory, <2>1
<1>toCounter. ASSUME NEW n \in Nat, stats'.processed = stats.processed + n,
                     Uncounted' = Uncounted - n, Queued' = Queued, arrived' = arrived
              PROVE  AllCounted'
  <2>1. (stats.processed + n) + Queued + (Uncounted - n) <= Len(arrived)
    BY ONLY <1>0, <1>balance
  <2>2. QED
    BY ONLY <1>1, <1>toCounter, <2>1
<1>3. ASSUME UNCHANGED <<batch, next, popped, held>>, bw' = "route" <=> bw = "route",
             rw' = "count" <=> rw = "count"
      PROVE  Uncounted' = Uncounted
  BY <1>3 DEF Uncounted, UnroutedCount, PoppedCount, HeldCount, UpsertedCount
<1>4. CASE Start \/ Poll \/ CheckIdle \/ IdleLong \/ Tick \/ Shutdown \/ UNCHANGED vars
  <2>1. UNCHANGED <<main, retry, bad, stats, arrived>>
    BY <1>4 DEF Start, Poll, CheckIdle, IdleLong, Tick, Shutdown, vars
  <2>2. UNCHANGED <<batch, next, popped, held>>
    BY <1>4 DEF Start, Poll, CheckIdle, IdleLong, Tick, Shutdown, vars
  <2>3. (bw' = "route" <=> bw = "route") /\ (rw' = "count" <=> rw = "count")
    BY <1>4 DEF Start, Poll, CheckIdle, IdleLong, Tick, Shutdown, vars, ControlOK
  <2>4. QED
    BY <1>2, <1>3, <2>1, <2>2, <2>3
<1>5. ASSUME NEW m \in Messages, EnqueueMain(m) PROVE AllCounted'
  <2>1. Len(main') = Len(main) + 1 /\ Len(arrived') = Len(arrived) + 1
    BY <1>5, AppendProperties DEF EnqueueMain, TypeOK
  <2>2. Uncounted' = Uncounted /\ stats' = stats /\ retry' = retry /\ bad' = bad
    BY <1>3, <1>5 DEF EnqueueMain
  <2>3. Queued' = (Len(main) + 1) + Len(retry) + Len(bad)
    BY <2>1, <2>2 DEF Queued
  <2>4. stats.processed + ((Len(main) + 1) + Len(retry) + Len(bad)) + Uncounted
          <= Len(arrived) + 1
    BY ONLY <1>0, <1>balance DEF Queued
  <2>5. QED
    BY <1>1, <2>1, <2>2, <2>3, <2>4
<1>6. CASE BatchStep
  <2>1. CASE Poll
    BY <1>4, <2>1
  <2>2. CASE Pop
    <3>1. CASE main = <<>> \/ Len(batch) = MAX_BATCH
      <4>1. UNCHANGED <<main, retry, bad, stats, arrived, batch, next, popped, held, rw>>
        BY <2>2, <3>1 DEF Pop
      <4>2. bw # "route" /\ bw' # "route"
        BY <2>2, <3>1 DEF Pop
      <4>3. QED
        BY <1>2, <1>3, <4>1, <4>2
    <3>2. CASE ~(main = <<>> \/ Len(batch) = MAX_BATCH)
      <4>1. PICK m \in Messages : m = Head(main) /\ Len(Tail(main)) = Len(main) - 1
        BY <3>2, HeadTailProperties DEF TypeOK
      <4>2. Len(Append(batch, m)) = Len(batch) + 1
        BY AppendProperties DEF TypeOK
      <4>3. m # None
        BY MessagesAssumption
      <4>4. /\ UNCHANGED <<retry, bad, stats, arrived, next, held, rw>> /\ popped = None
            /\ bw = "pop" /\ main' = Tail(main)
            /\ \/ batch' = Append(batch, m) /\ popped' = None /\ bw' = "pop"
               \/ batch' = batch /\ popped' = m /\ bw' = "pushBack"
        BY <2>2, <3>2, <4>1 DEF Pop, ControlOK
      <4>5. Queued' = Queued - 1
        BY <1>0, <4>1, <4>4 DEF Queued
      <4>6. Uncounted' = Uncounted + 1
        <5>1. HeldCount' = HeldCount /\ UpsertedCount' = UpsertedCount
          BY <4>4 DEF HeldCount, UpsertedCount
        <5>2. UnroutedCount = Len(batch) /\ UnroutedCount' = Len(batch') /\ PoppedCount = 0
          BY <4>4 DEF UnroutedCount, PoppedCount
        <5>3. PoppedCount' = IF popped' = None THEN 0 ELSE 1
          BY DEF PoppedCount
        <5>4. UnroutedCount' \in Nat /\ PoppedCount' \in Nat
          BY <1>0, <4>2, <4>4, <5>2, <5>3
        <5>5. PICK u, h, c, u1, p1 \in Nat :
                /\ u = UnroutedCount /\ h = HeldCount /\ c = UpsertedCount
                /\ u1 = UnroutedCount' /\ p1 = PoppedCount'
          BY <1>0, <5>4
        <5>6. u1 + p1 = u + 1
          <6>1. CASE batch' = Append(batch, m) /\ popped' = None
            BY <4>2, <5>2, <5>3, <5>5, <6>1
          <6>2. CASE batch' = batch /\ popped' = m
            BY <4>3, <5>2, <5>3, <5>5, <6>2
          <6>3. QED
            BY <4>4, <6>1, <6>2
        <5>7. Uncounted = u + 0 + h + c
          BY <5>2, <5>5 DEF Uncounted
        <5>8. Uncounted' = u1 + p1 + h + c
          BY <5>1, <5>5 DEF Uncounted
        <5>9. QED
          BY <5>6, <5>7, <5>8
      <4>7. QED
        BY <1>toMemory, <4>4, <4>5, <4>6
    <3>3. QED
      BY <3>1, <3>2
  <2>3. CASE PushBack
    <3>1. popped \in Messages /\ popped # None
      BY <2>3 DEF PushBack, ControlOK, TypeOK
    <3>2. Len(<<popped>> \o main) = Len(main) + 1
      BY <3>1, ConcatProperties DEF TypeOK
    <3>3. Queued' = Queued + 1
      BY <1>0, <2>3, <3>2 DEF Queued, PushBack, PushedBack
    <3>4. Uncounted' = Uncounted - 1
      <4>1. /\ UnroutedCount' = UnroutedCount /\ HeldCount' = HeldCount
            /\ UpsertedCount' = UpsertedCount
        BY <2>3 DEF PushBack, UnroutedCount, HeldCount, UpsertedCount
      <4>2. PoppedCount = 1 /\ PoppedCount' = 0
        BY <2>3, <3>1 DEF PushBack, PoppedCount
      <4>3. QED
        BY <1>0, <4>1, <4>2 DEF Uncounted
    <3>5. QED
      BY <1>toList, <2>3, <3>3, <3>4 DEF PushBack
  <2>4. CASE UpsertResolves
    <3>1. Uncounted' = Uncounted
      BY <2>4 DEF UpsertResolves, Uncounted, UnroutedCount, PoppedCount, HeldCount, UpsertedCount
    <3>2. QED
      BY <1>2, <2>4, <3>1 DEF UpsertResolves
  <2>5. CASE UpsertThrows
    <3>1. Uncounted' = Uncounted
      <4>1. /\ PoppedCount' = PoppedCount /\ HeldCount' = HeldCount
            /\ UpsertedCount' = UpsertedCount
        BY <2>5 DEF UpsertThrows, PoppedCount, HeldCount, UpsertedCount
      <4>2. UnroutedCount' = UnroutedCount
        BY <1>0, <2>5 DEF UpsertThrows, RouteFrom, UnroutedCount
      <4>3. QED
        BY <4>1, <4>2 DEF Uncounted
    <3>2. QED
      BY <1>2, <2>5, <3>1 DEF UpsertThrows
  <2>6. CASE Route
    <3>1. batch[next] \in Messages
      BY <2>6, NextIsInBatch DEF Route, TypeOK
    <3>2. PICK e \in RetryEntries : e = RetryEntry(batch[next])
      <4>1. MAX_RETRIES \in Nat
        BY LimitsAssumption
      <4>2. RetryEntry(batch[next]) \in RetryEntries
        BY <3>1, <4>1 DEF RetryEntry, RetryEntries
      <4>3. QED
        BY <4>2
    <3>3. Len(Append(retry, e)) = Len(retry) + 1
      BY AppendProperties DEF TypeOK
    <3>4. Len(Append(bad, batch[next])) = Len(bad) + 1
      BY <3>1, AppendProperties DEF TypeOK
    <3>5. Queued' = Queued + 1
      <4>1. /\ main' = main
            /\ \/ retry' = Append(retry, e) /\ bad' = bad
               \/ bad' = Append(bad, batch[next]) /\ retry' = retry
        BY <2>6, <3>2 DEF Route
      <4>2. \/ Len(retry') = Len(retry) + 1 /\ Len(bad') = Len(bad)
            \/ Len(bad') = Len(bad) + 1 /\ Len(retry') = Len(retry)
        BY <3>3, <3>4, <4>1
      <4>3. \/ Queued' = Len(main) + (Len(retry) + 1) + Len(bad)
            \/ Queued' = Len(main) + Len(retry) + (Len(bad) + 1)
        BY <4>1, <4>2 DEF Queued
      <4>4. QED
        BY ONLY <1>0, <4>3 DEF Queued
    <3>6. Uncounted' = Uncounted - 1
      BY <1>0, <2>6 DEF Uncounted, UnroutedCount, PoppedCount, HeldCount, UpsertedCount, Route
    <3>7. QED
      BY <1>toList, <2>6, <3>5, <3>6 DEF Route
  <2>7. CASE BatchDone
    <3>1. /\ UNCHANGED <<main, retry, bad, arrived, popped, held, rw>>
          /\ batch' = <<>> /\ bw' = "sleep" /\ next > Len(batch) /\ next <= Len(batch) + 1
      BY <2>7 DEF BatchDone, ControlOK
    <3>2. CASE bw = "upsert"
      <4>1. stats'.processed = stats.processed + Len(batch)
        BY <2>7, <3>2 DEF BatchDone, CountBatch, TypeOK
      <4>2. Uncounted' = Uncounted - Len(batch)
        <5>1. /\ PoppedCount' = PoppedCount /\ HeldCount' = HeldCount
              /\ UpsertedCount' = UpsertedCount
          BY <3>1 DEF PoppedCount, HeldCount, UpsertedCount
        <5>2. UnroutedCount = Len(batch) /\ UnroutedCount' = 0
          BY <1>0, <3>1, <3>2 DEF UnroutedCount
        <5>3. QED
          BY <1>0, <5>1, <5>2 DEF Uncounted
      <4>3. Queued' = Queued
        BY <3>1 DEF Queued
      <4>4. QED
        BY <1>0, <1>toCounter, <3>1, <4>1, <4>2, <4>3
    <3>3. CASE bw = "route"
      <4>1. stats'.processed = stats.processed
        BY <2>7, <3>3 DEF BatchDone, CountBatch, TypeOK
      <4>2. Uncounted' = Uncounted
        BY <1>0, <3>1, <3>3 DEF Uncounted, UnroutedCount, PoppedCount, HeldCount, UpsertedCount
      <4>3. Queued' = Queued
        BY <3>1 DEF Queued
      <4>4. QED
        BY <1>0, <1>1, <3>1, <4>1, <4>2, <4>3
    <3>4. QED
      BY <2>7, <3>2, <3>3 DEF BatchDone
  <2>8. QED
    BY <1>6, <2>1, <2>2, <2>3, <2>4, <2>5, <2>6, <2>7 DEF BatchStep
<1>7. CASE RetryStep
  <2>1. CASE CheckIdle
    BY <1>4, <2>1
  <2>2. CASE PopRetry
    <3>1. CASE retry = <<>>
      BY <1>2, <1>3, <2>2, <3>1 DEF PopRetry
    <3>2. CASE retry # <<>>
      <4>1. Head(retry) \in RetryEntries /\ Len(Tail(retry)) = Len(retry) - 1
        BY <3>2, HeadTailProperties DEF TypeOK
      <4>2. held = None /\ held' # None
        BY <2>2, <3>2, <4>1, NoneIsNoEntry DEF PopRetry, ControlOK
      <4>3. Queued' = Queued - 1
        BY <1>0, <2>2, <3>2, <4>1 DEF Queued, PopRetry, RetryPopped
      <4>4. Uncounted' = Uncounted + 1
        <5>1. UnroutedCount' = UnroutedCount /\ PoppedCount' = PoppedCount
          BY <2>2, <3>2 DEF PopRetry, UnroutedCount, PoppedCount
        <5>2. UpsertedCount' = UpsertedCount
          BY <2>2, <3>2 DEF PopRetry, UpsertedCount
        <5>3. HeldCount = 0 /\ HeldCount' = 1
          BY <4>2 DEF HeldCount
        <5>4. QED
          BY <1>0, <5>1, <5>2, <5>3 DEF Uncounted
      <4>5. QED
        BY <1>toMemory, <2>2, <4>3, <4>4, <3>2 DEF PopRetry
    <3>3. QED
      BY <3>1, <3>2
  <2>3. CASE PushBackRetry
    <3>1. held \in RetryEntries /\ held # None
      BY <2>3 DEF PushBackRetry, ControlOK, TypeOK
    <3>2. Len(<<held>> \o retry) = Len(retry) + 1
      BY <3>1, ConcatProperties DEF TypeOK
    <3>3. Queued' = Queued + 1
      BY <1>0, <2>3, <3>2 DEF Queued, PushBackRetry
    <3>4. Uncounted' = Uncounted - 1
      BY <1>0, <2>3, <3>1 DEF Uncounted, UnroutedCount, PoppedCount, HeldCount, UpsertedCount, PushBackRetry
    <3>5. QED
      BY <1>toList, <2>3, <3>3, <3>4 DEF PushBackRetry
  <2>4. CASE RetryResolves
    <3>1. held # None /\ held' = None /\ rw # "count" /\ rw' = "count"
      BY <2>4 DEF RetryResolves, ControlOK
    <3>2. Uncounted' = Uncounted
      BY <1>0, <2>4, <3>1 DEF Uncounted, UnroutedCount, PoppedCount, HeldCount, UpsertedCount, RetryResolves
    <3>3. QED
      BY <1>2, <2>4, <3>2 DEF RetryResolves
  <2>5. CASE RetryCounted
    <3>1. stats'.processed = stats.processed + 1
      BY <2>5 DEF RetryCounted, TypeOK
    <3>2. Uncounted' = Uncounted - 1
      <4>1. /\ UnroutedCount' = UnroutedCount /\ PoppedCount' = PoppedCount
            /\ HeldCount' = HeldCount
        BY <2>5 DEF RetryCounted, UnroutedCount, PoppedCount, HeldCount
      <4>2. UpsertedCount = 1 /\ UpsertedCount' = 0
        BY <2>5 DEF RetryCounted, UpsertedCount
      <4>3. QED
        BY <1>0, <4>1, <4>2 DEF Uncounted
    <3>3. QED
      <4>1. Queued' = Queued /\ arrived' = arrived
        BY <2>5 DEF RetryCounted, Queued
      <4>2. QED
        BY <1>toCounter, <3>1, <3>2, <4>1
  <2>6. CASE RetryThrows
    BY <1>2, <1>3, <2>6 DEF RetryThrows
  <2>7. CASE Requeue
    <3>1. held \in RetryEntries /\ held # None /\ held.retryCount < MAX_RETRIES
      BY <2>7 DEF Requeue, RetriesLeft, ControlOK, TypeOK
    <3>2. PICK e \in RetryEntries :
            e = [id |-> held.id, retryCount |-> held.retryCount + 1, due |-> FALSE]
      <4>1. MAX_RETRIES \in Nat
        BY LimitsAssumption
      <4>2. held.id \in Messages /\ held.retryCount + 1 \in 0 .. MAX_RETRIES
        BY <3>1, <4>1 DEF RetryEntries
      <4>3. [id |-> held.id, retryCount |-> held.retryCount + 1, due |-> FALSE] \in RetryEntries
        BY <4>2 DEF RetryEntries
      <4>4. QED
        BY <4>3
    <3>3. Len(Append(retry, e)) = Len(retry) + 1
      BY AppendProperties DEF TypeOK
    <3>4. Queued' = Queued + 1
      BY <1>0, <2>7, <3>2, <3>3 DEF Queued, Requeue
    <3>5. Uncounted' = Uncounted - 1
      BY <1>0, <2>7, <3>1 DEF Uncounted, UnroutedCount, PoppedCount, HeldCount, UpsertedCount, Requeue
    <3>6. QED
      BY <1>toList, <2>7, <3>4, <3>5 DEF Requeue
  <2>8. CASE Discard
    <3>1. held # None /\ held.id \in Messages
      BY <2>8 DEF Discard, ControlOK, TypeOK, RetryEntries
    <3>2. Len(Append(bad, held.id)) = Len(bad) + 1
      BY <3>1, AppendProperties DEF TypeOK
    <3>3. Queued' = Queued + 1
      BY <1>0, <2>8, <3>2 DEF Queued, Discard
    <3>4. Uncounted' = Uncounted - 1
      BY <1>0, <2>8, <3>1 DEF Uncounted, UnroutedCount, PoppedCount, HeldCount, UpsertedCount, Discard
    <3>5. QED
      BY <1>toList, <2>8, <3>3, <3>4 DEF Discard
  <2>9. CASE DiscardCounted
    <3>1. stats'.processed = stats.processed
      BY <2>9 DEF DiscardCounted, TypeOK
    <3>2. Uncounted' = Uncounted
      BY <1>3, <2>9 DEF DiscardCounted
    <3>3. QED
      BY <1>0, <1>1, <2>9, <3>1, <3>2 DEF Queued, DiscardCounted
  <2>10. QED
    BY <1>7, <2>1, <2>2, <2>3, <2>4, <2>5, <2>6, <2>7, <2>8, <2>9 DEF RetryStep
<1>8. ASSUME NEW k \in DOMAIN retry, RetryDue(k) PROVE AllCounted'
  <2>1. Len(retry') = Len(retry)
    BY <1>8 DEF RetryDue, TypeOK
  <2>2. Uncounted' = Uncounted
    BY <1>3, <1>8 DEF RetryDue
  <2>3. QED
    BY <1>0, <1>1, <1>8, <2>1, <2>2 DEF Queued, RetryDue
<1>9. CASE Exit
  <2>1. Uncounted' = 0
    BY <1>9, <1>0 DEF Exit, Uncounted, UnroutedCount, PoppedCount, HeldCount, UpsertedCount
  <2>2. QED
    BY <1>0, <1>1, <1>9, <2>1 DEF Queued, Exit
<1>10. QED
  BY <1>4, <1>5, <1>6, <1>7, <1>8, <1>9 DEF Next

\* The counter of processed messages and the lengths of the lists, which
\* getQueueStats() reports, never add up to more than was enqueued: a failed batch is
\* counted when its messages are retried (lib/batch-worker.ts, lib/retry-worker.ts).
THEOREM CountersNeverRunAhead == Spec => []NoDoubleCount
<1>1. Init => AllCounted
  BY DEF Init, AllCounted, Queued, Uncounted, UnroutedCount, PoppedCount, HeldCount, UpsertedCount
<1>2. TypeOK /\ ControlOK /\ AllCounted /\ [Next]_vars => AllCounted'
  BY CountStep
<1>3. TypeOK /\ ControlOK /\ AllCounted => NoDoubleCount
  <2>1. SUFFICES ASSUME TypeOK, ControlOK, AllCounted PROVE NoDoubleCount
    OBVIOUS
  <2>2. /\ Uncounted \in Nat /\ Len(arrived) \in Nat /\ stats.processed \in Nat
        /\ Len(main) \in Nat /\ Len(retry) \in Nat /\ Len(bad) \in Nat
    BY <2>1, CountsAreNumbers
  <2>3. QED
    BY <2>1, <2>2 DEF AllCounted, Queued, NoDoubleCount
<1>4. QED
  BY <1>1, <1>2, <1>3, ControlInvariant, PTL DEF Spec

-------------------------------------------------------------------------------
(* The limits of a batch.                                                    *)

\* A message that is taken from the main queue is not in the batch yet, so that its
\* bytes add to those of the batch.
LEMMA BatchStepLimits ==
  ASSUME TypeOK, OnePlace, BatchWithinLimits, [Next]_vars
  PROVE  BatchWithinLimits'
<1> USE DEF redisVars, batchVars, timerVars, retryVars, historyVars
<1>1. ASSUME batch' = batch PROVE BatchWithinLimits'
  BY <1>1 DEF BatchWithinLimits, BatchBytes
<1>2. ASSUME batch' = <<>> PROVE BatchWithinLimits'
  <2>1. Len(batch') = 0 /\ MAX_BATCH \in Nat
    BY <1>2, LimitsAssumption
  <2>2. QED
    BY <2>1 DEF BatchWithinLimits
<1>3. CASE Pop
  <2>1. CASE batch' = batch
    BY <1>1, <2>1
  <2>2. CASE batch' # batch
    <3>1. /\ bw = "pop" /\ main # <<>> /\ Len(batch) # MAX_BATCH
          /\ batch' = Append(batch, Head(main)) /\ Fits(Head(main))
      BY <1>3, <2>2 DEF Pop
    <3>2. PICK m \in Messages : m = Head(main) /\ m \in Range(main)
      <4>1. main \in Seq(Messages) /\ Head(main) = main[1] /\ 1 \in DOMAIN main
        BY <3>1 DEF TypeOK
      <4>2. Head(main) \in Range(main) /\ main[1] \in Messages
        BY <4>1 DEF Range
      <4>3. QED
        BY <4>1, <4>2
    <3>3. PICK b \in Seq(Messages) : b = batch
      BY DEF TypeOK
    <3>4. m \notin Range(b)
      <4>1. Places[1] \cap Places[4] = {}
        BY DEF OnePlace, PlacesOK, PairwiseDisjoint
      <4>2. Unrouted = Range(b)
        BY <3>1, <3>3 DEF Unrouted
      <4>3. QED
        BY <3>2, <4>1, <4>2, PlacesByName
    <3>5. /\ Append(b, m) \in Seq(Messages) /\ Len(Append(b, m)) = Len(b) + 1
          /\ Range(Append(b, m)) = Range(b) \cup {m}
      BY AppendProperties, AppendRange
    <3>6. Bytes[Range(b) \cup {m}] = Bytes[Range(b)] + Bytes[{m}]
      <4>1. Range(b) \in SUBSET Messages /\ {m} \in SUBSET Messages /\ Range(b) \cap {m} = {}
        BY <3>4 DEF Range
      <4>2. QED
        BY <4>1, MessagesAssumption
    <3>7. Len(b) + 1 <= MAX_BATCH
      BY <3>1, <3>3, LimitsAssumption DEF BatchWithinLimits
    <3>8. ASSUME Len(b) + 1 > 1 PROVE Bytes[Range(b) \cup {m}] <= MAX_BYTES
      <4>1. b # <<>>
        BY <3>8
      <4>2. QED
        BY <3>1, <3>2, <3>3, <3>6, <4>1 DEF Fits, BatchBytes
    <3>9. QED
      BY <3>1, <3>2, <3>3, <3>5, <3>7, <3>8 DEF BatchWithinLimits, BatchBytes
  <2>3. QED
    BY <2>1, <2>2
<1>4. CASE BatchDone \/ Exit
  BY <1>2, <1>4 DEF BatchDone, Exit
<1>5. CASE Start \/ Poll \/ PushBack \/ UpsertResolves \/ UpsertThrows \/ Route \/ UNCHANGED vars
  BY <1>1, <1>5 DEF Start, Poll, PushBack, UpsertResolves, UpsertThrows, Route, vars
<1>6. CASE RetryStep
  BY <1>1, <1>6
  DEF RetryStep, CheckIdle, PopRetry, PushBackRetry, RetryResolves, RetryCounted,
      RetryThrows, Requeue, Discard, DiscardCounted
<1>7. CASE \/ \E m \in Messages : EnqueueMain(m)
           \/ \E k \in DOMAIN retry : RetryDue(k)
           \/ IdleLong \/ Tick \/ Shutdown
  BY <1>1, <1>7 DEF EnqueueMain, RetryDue, IdleLong, Tick, Shutdown
<1>8. QED
  BY <1>3, <1>4, <1>5, <1>6, <1>7 DEF Next, BatchStep

\* What dequeueBatch() collects is within maxBatchSize and, unless it is a single
\* message, maxBatchBytes, also while messages are pushed and popped between two of
\* its lpops (lib/redis-queue.ts).
THEOREM BatchesAreWithinLimits == Spec => []BatchWithinLimits
<1>1. Init => BatchWithinLimits
  <2>1. SUFFICES ASSUME Init PROVE BatchWithinLimits
    OBVIOUS
  <2>2. Len(batch) = 0 /\ MAX_BATCH \in Nat
    BY <2>1, LimitsAssumption DEF Init
  <2>3. QED
    BY <2>2 DEF BatchWithinLimits
<1>2. TypeOK /\ OnePlace /\ BatchWithinLimits /\ [Next]_vars => BatchWithinLimits'
  BY BatchStepLimits
<1>3. QED
  BY <1>1, <1>2, PlaceInvariant, PTL DEF Spec

-------------------------------------------------------------------------------
(* The abstract store.                                                       *)

Taken == Unrouted \cup Popped \cup HeldId
Offered == inserted \cup dropped

\* What waits for its first upsert was never offered to SFMC; what the batch worker
\* has passed in its batch was.
OfferedOK ==
  /\ Offered \subseteq Range(arrived)
  /\ (Range(main) \cup Popped) \cap Offered = {}
  /\ bw = "upsert" => \A k \in 1 .. next - 1 : batch[k] \in Offered

\* The places have no message in common.
LEMMA PlacesApart ==
  ASSUME OnePlace
  PROVE  /\ Range(main) \cap (Unrouted \cup Popped \cup HeldId) = {}
         /\ Unrouted \cap Popped = {} /\ Unrouted \cap HeldId = {} /\ Popped \cap HeldId = {}
         /\ Unrouted \cup Popped \cup HeldId \subseteq Range(arrived)
<1>1. \A i, j \in 1 .. 6 : i # j => Places[i] \cap Places[j] = {}
  BY DEF OnePlace, PlacesOK, PairwiseDisjoint
<1>2. \A i \in 1 .. 6 : Places[i] \subseteq Range(arrived)
  BY DEF OnePlace, PlacesOK
<1>3. /\ Places[1] \cap Places[4] = {} /\ Places[1] \cap Places[5] = {}
      /\ Places[1] \cap Places[6] = {} /\ Places[4] \cap Places[5] = {}
      /\ Places[4] \cap Places[6] = {} /\ Places[5] \cap Places[6] = {}
      /\ Places[4] \subseteq Range(arrived) /\ Places[5] \subseteq Range(arrived)
      /\ Places[6] \subseteq Range(arrived)
  BY <1>1, <1>2
<1>4. QED
  BY <1>3, PlacesByName

\* The abstract variables, as the proofs name them.
LEMMA StoreVars ==
  UNCHANGED <<arrived, main, Ids(retry), bad, Taken, Offered, inserted>>
    => UNCHANGED Store!vars
BY DEF Store!vars, Taken, Offered

\* What the batch worker does with its messages, the store does.
LEMMA BatchStepStores ==
  ASSUME TypeOK, ControlOK, OnePlace, OfferedOK, BatchStep
  PROVE  [Store!Next]_(Store!vars) /\ OfferedOK'
<1> USE DEF redisVars, batchVars, timerVars, retryVars, historyVars
<1>0. Len(batch) \in Nat /\ next \in Nat \ {0} /\ DOMAIN batch = 1 .. Len(batch)
  BY LenProperties DEF TypeOK
<1>1. CASE Poll
  <2>1. /\ UNCHANGED <<arrived, main, retry, bad, batch, popped, held, inserted, dropped, next>>
        /\ bw = "sleep" /\ bw' \in {"pop", "sleep"}
    BY <1>1 DEF Poll
  <2>2. Taken' = Taken /\ Offered' = Offered /\ Popped' = Popped
    BY <2>1 DEF Taken, Unrouted, Popped, HeldId, Offered
  <2>3. UNCHANGED Store!vars
    BY <2>1, <2>2, StoreVars DEF Ids
  <2>4. OfferedOK'
    BY <2>1, <2>2 DEF OfferedOK
  <2>5. QED
    BY <2>3, <2>4
<1>2. CASE Pop /\ (main = <<>> \/ Len(batch) = MAX_BATCH)
  <2>1. /\ UNCHANGED <<arrived, main, retry, bad, batch, popped, held, inserted, dropped, next>>
        /\ bw = "pop" /\ bw' \in {"upsert", "sleep"} /\ next = 1
    BY <1>2 DEF Pop, ControlOK
  <2>2. Taken' = Taken /\ Offered' = Offered /\ Popped' = Popped
    BY <2>1 DEF Taken, Unrouted, Popped, HeldId, Offered
  <2>3. UNCHANGED Store!vars
    BY <2>1, <2>2, StoreVars DEF Ids
  <2>4. \A k \in 1 .. next' - 1 : FALSE
    BY <2>1
  <2>5. OfferedOK'
    BY <2>1, <2>2, <2>4 DEF OfferedOK
  <2>6. QED
    BY <2>3, <2>5
<1>3. CASE Pop /\ ~(main = <<>> \/ Len(batch) = MAX_BATCH)
  <2>1. PICK m \in Messages : m = Head(main)
    BY <1>3, HeadTailProperties DEF TypeOK
  <2>2. m \in Range(main) /\ Range(Tail(main)) = Range(main) \ {m}
    BY <1>3, <2>1, TailRange DEF TypeOK, OnePlace
  <2>3. /\ main' = Tail(main) /\ bw = "pop" /\ bw' \in {"pop", "pushBack"} /\ popped = None
        /\ \/ batch' = Append(batch, m) /\ popped' = None
           \/ batch' = batch /\ popped' = m
        /\ UNCHANGED <<retry, bad, held, arrived, inserted, dropped>>
    BY <1>3, <2>1 DEF Pop, ControlOK
  <2>4. Range(Append(batch, m)) = Range(batch) \cup {m}
    BY AppendRange DEF TypeOK
  <2>5. Popped = {} /\ (popped' = m => Popped' = {m}) /\ (popped' = None => Popped' = {})
    BY <2>3, MessagesAssumption DEF Popped
  <2>6. Unrouted = Range(batch) /\ Unrouted' = Range(batch') /\ HeldId' = HeldId
    BY <2>3 DEF Unrouted, HeldId
  <2>7. Taken' = Taken \cup {m}
    BY <2>3, <2>4, <2>5, <2>6 DEF Taken
  <2>8. Offered' = Offered /\ Range(main') = Range(main) \ {m}
    BY <2>2, <2>3 DEF Offered
  <2>9. Store!Take(m)
    BY <2>2, <2>3, <2>7, <2>8 DEF Store!Take, Taken, Offered, Ids
  <2>10. Range(main') \cup Popped' \subseteq Range(main) \cup Popped
    BY <2>2, <2>3, <2>5, <2>8
  <2>11. OfferedOK'
    BY <2>3, <2>8, <2>10 DEF OfferedOK
  <2>12. QED
    BY <2>9, <2>11 DEF Store!Next
<1>4. CASE PushBack
  <2>1. PICK m \in Messages : m = popped /\ popped # None
    BY <1>4 DEF PushBack, ControlOK, TypeOK
  <2>2. /\ main' = <<m>> \o main /\ popped' = None /\ bw = "pushBack" /\ bw' = "upsert"
        /\ UNCHANGED <<retry, bad, batch, next, held, arrived, inserted, dropped>>
        /\ next = 1
    BY <1>4, <2>1 DEF PushBack, PushedBack, ControlOK
  <2>3. Popped = {m} /\ Popped' = {}
    BY <2>1, <2>2 DEF Popped
  <2>4. Range(main') = Range(main) \cup {m}
    BY <2>2, ConsRange DEF TypeOK
  <2>5. Unrouted' = Unrouted /\ HeldId' = HeldId /\ Offered' = Offered
    BY <2>2 DEF Unrouted, HeldId, Offered
  <2>6. Taken' = Taken \ {m} /\ m \in Taken
    BY <2>3, <2>5, PlacesApart DEF Taken
  <2>7. m \notin Offered
    BY <2>3 DEF OfferedOK
  <2>8. Store!Put(m)
    BY <2>2, <2>4, <2>5, <2>6, <2>7 DEF Store!Put, Taken, Offered, Ids
  <2>9. \A k \in 1 .. next' - 1 : FALSE
    BY <2>2
  <2>10. OfferedOK'
    BY <2>2, <2>3, <2>4, <2>5, <2>7, <2>9 DEF OfferedOK
  <2>11. QED
    BY <2>8, <2>10 DEF Store!Next
<1>5. CASE UpsertResolves
  <2>1. PICK m \in Messages : m = batch[next]
    BY <1>5 DEF UpsertResolves, TypeOK
  <2>2. /\ bw = "upsert" /\ next \in 1 .. Len(batch) /\ next' = next + 1
        /\ UNCHANGED <<bw, main, retry, bad, batch, popped, held, arrived>>
    BY <1>0, <1>5 DEF UpsertResolves
  <2>3. inserted' \in {inserted, inserted \cup {m}} /\ Offered' = Offered \cup {m}
    BY <1>5, <2>1 DEF UpsertResolves, Offered
  <2>4. m \in Unrouted /\ Taken' = Taken /\ Popped' = Popped
    BY <1>0, <2>1, <2>2 DEF Taken, Unrouted, Popped, HeldId, Range
  <2>5. Store!Offer(m)
    BY <2>2, <2>3, <2>4 DEF Store!Offer, Taken, Offered, Ids
  <2>6. \A k \in 1 .. next' - 1 : batch'[k] \in Offered'
    <3>1. \A k \in 1 .. next' - 1 : k = next \/ k \in 1 .. next - 1
      BY <1>0, <2>2
    <3>2. QED
      BY <2>1, <2>2, <2>3, <3>1 DEF OfferedOK
  <2>7. OfferedOK'
    BY <2>2, <2>3, <2>4, <2>6, PlacesApart DEF OfferedOK
  <2>8. QED
    BY <2>5, <2>7 DEF Store!Next
<1>6. CASE UpsertThrows
  <2>1. PICK m \in Messages : m = batch[next]
    BY <1>6, NextIsInBatch DEF UpsertThrows, TypeOK
  <2>2. /\ UNCHANGED <<main, retry, bad, batch, popped, held, arrived, dropped>>
        /\ inserted' \in {inserted, inserted \cup {m}} /\ next \in 1 .. Len(batch)
        /\ bw = "upsert" /\ bw' = "route" /\ next' = 1
    BY <1>0, <1>6, <2>1 DEF UpsertThrows, RouteFrom
  <2>3. Range(batch) = {batch[k] : k \in 1 .. Len(batch)}
    BY RangeEquality DEF TypeOK
  <2>4. m \in Unrouted /\ Taken' = Taken /\ Popped' = Popped
    BY <2>1, <2>2, <2>3 DEF Taken, Unrouted, Popped, HeldId
  <2>5. CASE inserted' = inserted
    <3>1. Offered' = Offered
      BY <2>2, <2>5 DEF Offered
    <3>2. UNCHANGED Store!vars
      BY <2>2, <2>4, <2>5, <3>1, StoreVars DEF Ids
    <3>3. OfferedOK'
      BY <2>2, <2>4, <3>1 DEF OfferedOK
    <3>4. QED
      BY <3>2, <3>3
  <2>6. CASE inserted' = inserted \cup {m}
    <3>1. Offered' = Offered \cup {m}
      BY <2>2, <2>6 DEF Offered
    <3>2. Store!Offer(m)
      BY <2>2, <2>4, <2>6, <3>1 DEF Store!Offer, Taken, Offered, Ids
    <3>3. OfferedOK'
      BY <2>2, <2>4, <3>1, PlacesApart DEF OfferedOK
    <3>4. QED
      BY <3>2, <3>3 DEF Store!Next
  <2>7. QED
    BY <2>2, <2>5, <2>6
<1>7. CASE Route
  <2>1. PICK m \in Messages : m = batch[next]
    <3>1. batch[next] \in Messages
      BY <1>7, NextIsInBatch DEF Route, TypeOK
    <3>2. QED
      BY <3>1
  <2>2. /\ bw = "route" /\ bw' = "route" /\ next' = next + 1 /\ next \in 1 .. Len(batch)
        /\ UNCHANGED <<main, batch, popped, held, arrived, inserted, dropped>>
    BY <1>0, <1>7 DEF Route
  <2>3. m \in Unrouted /\ Unrouted' = Unrouted \ {m}
    <3>1. /\ Unrouted = {batch[k] : k \in next .. Len(batch)}
          /\ Unrouted' = {batch[k] : k \in next + 1 .. Len(batch)}
      BY <2>2 DEF Unrouted
    <3>2. \A k \in next + 1 .. Len(batch) :
            k \in next .. Len(batch) /\ batch[k] # batch[next]
      BY <1>0, <2>2 DEF OnePlace, IsInjective
    <3>3. \A k \in next .. Len(batch) : k = next \/ k \in next + 1 .. Len(batch)
      BY <1>0
    <3>4. next \in next .. Len(batch)
      BY <2>2
    <3>5. QED
      BY <2>1, <3>1, <3>2, <3>3, <3>4
  <2>4. Popped' = Popped /\ HeldId' = HeldId /\ Offered' = Offered
    BY <2>2 DEF Popped, HeldId, Offered
  <2>5. m \in Taken /\ Taken' = Taken \ {m}
    BY <2>3, <2>4, PlacesApart DEF Taken
  <2>6. \/ Ids(retry') = Ids(retry) \cup {m} /\ bad' = bad
        \/ Range(bad') = Range(bad) \cup {m} /\ retry' = retry
    <3>1. Range(Append(bad, m)) = Range(bad) \cup {m}
      BY AppendRange DEF TypeOK
    <3>2. RetryEntry(m) \in RetryEntries /\ RetryEntry(m).id = m
      BY LimitsAssumption DEF RetryEntry, RetryEntries
    <3>3. Ids(Append(retry, RetryEntry(m))) = Ids(retry) \cup {m}
      BY <3>2, IdsAfterAppend DEF TypeOK
    <3>4. QED
      BY <1>7, <2>1, <3>1, <3>3 DEF Route
  <2>7. Store!Put(m)
    BY <2>2, <2>4, <2>5, <2>6 DEF Store!Put, Taken, Offered, Ids
  <2>8. OfferedOK'
    BY <2>2, <2>4 DEF OfferedOK
  <2>9. QED
    BY <2>7, <2>8 DEF Store!Next
<1>8. CASE BatchDone
  <2>1. /\ UNCHANGED <<main, retry, bad, popped, held, arrived, inserted, dropped>>
        /\ bw \in {"upsert", "route"} /\ next > Len(batch)
        /\ bw' = "sleep" /\ batch' = <<>>
    BY <1>8 DEF BatchDone
  <2>2. Unrouted \subseteq Offered
    <3>1. CASE bw = "route"
      BY <1>0, <2>1, <3>1 DEF Unrouted
    <3>2. CASE bw = "upsert"
      <4>1. \A k \in 1 .. Len(batch) : k \in 1 .. next - 1
        BY <1>0, <2>1
      <4>2. QED
        BY <1>0, <3>2, <4>1 DEF Unrouted, Range, OfferedOK
    <3>3. QED
      BY <2>1, <3>1, <3>2
  <2>3. Unrouted' = {}
    BY <2>1 DEF Unrouted, Range
  <2>4. Popped' = Popped /\ HeldId' = HeldId /\ Offered' = Offered
    BY <2>1 DEF Popped, HeldId, Offered
  <2>5. Taken' = Taken \ Unrouted /\ Unrouted \in SUBSET Taken
    BY <2>3, <2>4, PlacesApart DEF Taken
  <2>6. Store!Finish
    BY <2>1, <2>2, <2>4, <2>5 DEF Store!Finish, Taken, Offered, Ids
  <2>7. OfferedOK'
    BY <2>1, <2>4 DEF OfferedOK
  <2>8. QED
    BY <2>6, <2>7 DEF Store!Next
<1>9. QED
  BY <1>1, <1>2, <1>3, <1>4, <1>5, <1>6, <1>7, <1>8 DEF BatchStep

\* What the retry worker does with its message, the store does.
LEMMA RetryStepStores ==
  ASSUME TypeOK, ControlOK, OnePlace, OfferedOK, RetryStep
  PROVE  [Store!Next]_(Store!vars) /\ OfferedOK'
<1> USE DEF redisVars, batchVars, timerVars, retryVars, historyVars
<1>1. UNCHANGED <<main, bw, batch, next, popped, arrived>>
  BY DEF RetryStep, CheckIdle, PopRetry, PushBackRetry, RetryResolves, RetryCounted,
     RetryThrows, Requeue, Discard, DiscardCounted
<1>2. Unrouted' = Unrouted /\ Popped' = Popped
  BY <1>1 DEF Unrouted, Popped
<1>3. ASSUME Offered' = Offered PROVE OfferedOK'
  BY <1>1, <1>2, <1>3 DEF OfferedOK
<1>4. ASSUME UNCHANGED <<retry, bad, held, inserted, dropped>>
      PROVE  [Store!Next]_(Store!vars) /\ OfferedOK'
  <2>1. Taken' = Taken /\ Offered' = Offered
    BY <1>2, <1>4 DEF Taken, HeldId, Offered
  <2>2. UNCHANGED Store!vars
    BY <1>1, <1>4, <2>1, StoreVars DEF Ids
  <2>3. QED
    BY <1>3, <2>1, <2>2
<1>5. CASE CheckIdle \/ RetryCounted \/ DiscardCounted
             \/ (RetryThrows /\ inserted' = inserted) \/ (PopRetry /\ retry = <<>>)
  BY <1>4, <1>5 DEF CheckIdle, RetryCounted, RetryThrows, DiscardCounted, PopRetry
<1>6. CASE PopRetry /\ retry # <<>>
  <2>1. PICK e \in RetryEntries : e = Head(retry) /\ e # None
    BY <1>6, HeadTailProperties, NoneIsNoEntry DEF TypeOK
  <2>2. PICK m \in Messages : m = e.id
    BY DEF RetryEntries
  <2>3. /\ retry' = Tail(retry) /\ held' = e /\ held = None
        /\ UNCHANGED <<bad, inserted, dropped>>
    BY <1>6, <2>1 DEF PopRetry, RetryPopped, ControlOK
  <2>4. m \in Ids(retry) /\ Ids(retry') = Ids(retry) \ {m}
    <3>1. IdsOf(retry') = Tail(IdsOf(retry)) /\ m = Head(IdsOf(retry))
            /\ retry' \in Seq(RetryEntries)
      BY <1>6, <2>1, <2>2, <2>3, IdsOfTail DEF TypeOK
    <3>2. /\ IdsOf(retry) \in Seq(Messages) /\ Range(IdsOf(retry)) = Ids(retry)
          /\ IdsOf(retry) # <<>> /\ Range(IdsOf(retry')) = Ids(retry')
      BY <1>6, <3>1, IdsOfEntries DEF TypeOK
    <3>3. QED
      BY <3>1, <3>2, TailRange DEF OnePlace
  <2>5. HeldId = {} /\ HeldId' = {m} /\ Offered' = Offered
    BY <2>1, <2>2, <2>3 DEF HeldId, Offered
  <2>6. Taken' = Taken \cup {m}
    BY <1>2, <2>5 DEF Taken
  <2>7. Store!Take(m)
    BY <1>1, <2>3, <2>4, <2>5, <2>6 DEF Store!Take, Taken, Offered
  <2>8. QED
    BY <1>3, <2>5, <2>7 DEF Store!Next
<1>7. CASE PushBackRetry \/ Requeue \/ Discard \/ RetryResolves
  <2>1. PICK e \in RetryEntries : e = held /\ held # None
    BY <1>7 DEF PushBackRetry, Requeue, Discard, RetryResolves, ControlOK, TypeOK
  <2>2. PICK m \in Messages : m = e.id
    BY DEF RetryEntries
  <2>3. HeldId = {m} /\ HeldId' = {}
    BY <1>7, <2>1, <2>2 DEF PushBackRetry, Requeue, Discard, RetryResolves, HeldId
  <2>4. m \in Taken /\ Taken' = Taken \ {m}
    BY <1>2, <2>3, PlacesApart DEF Taken
  <2>5. CASE PushBackRetry \/ Requeue
    <3>1. UNCHANGED <<bad, inserted, dropped>>
      BY <2>5 DEF PushBackRetry, Requeue
    <3>2. Ids(retry') = Ids(retry) \cup {m}
      <4>1. CASE PushBackRetry
        BY <2>1, <2>2, <4>1, IdsAfterCons DEF PushBackRetry, TypeOK
      <4>2. CASE Requeue
        <5>1. PICK f : f = [id |-> e.id, retryCount |-> e.retryCount + 1, due |-> FALSE]
          OBVIOUS
        <5>2. retry' = Append(retry, f)
          BY <2>1, <4>2, <5>1 DEF Requeue
        <5>3. f \in RetryEntries /\ f.id = m
          <6>1. e.retryCount \in Nat /\ e.retryCount < MAX_RETRIES /\ MAX_RETRIES \in Nat
            BY <2>1, <4>2, LimitsAssumption DEF Requeue, RetriesLeft, RetryEntries
          <6>2. e.retryCount + 1 \in 0 .. MAX_RETRIES
            BY <6>1
          <6>3. QED
            BY <2>2, <5>1, <6>2 DEF RetryEntries
        <5>4. QED
          BY <5>2, <5>3, IdsAfterAppend DEF TypeOK
      <4>3. QED
        BY <2>5, <4>1, <4>2
    <3>3. Offered' = Offered
      BY <3>1 DEF Offered
    <3>4. Store!Put(m)
      BY <1>1, <2>4, <3>1, <3>2, <3>3 DEF Store!Put, Taken, Offered
    <3>5. QED
      BY <1>3, <3>3, <3>4 DEF Store!Next
  <2>6. CASE Discard
    <3>1. UNCHANGED <<retry, inserted, dropped>> /\ bad' = Append(bad, m)
      BY <2>1, <2>2, <2>6 DEF Discard
    <3>2. Range(bad') = Range(bad) \cup {m}
      BY <3>1, AppendRange DEF TypeOK
    <3>3. Offered' = Offered
      BY <3>1 DEF Offered
    <3>4. Store!Put(m)
      BY <1>1, <2>4, <3>1, <3>2, <3>3 DEF Store!Put, Taken, Offered, Ids
    <3>5. QED
      BY <1>3, <3>3, <3>4 DEF Store!Next
  <2>7. CASE RetryResolves
    <3>1. /\ UNCHANGED <<retry, bad>> /\ inserted' \in {inserted, inserted \cup {m}}
          /\ Offered' = Offered \cup {m}
      BY <2>1, <2>2, <2>7 DEF RetryResolves, Offered
    <3>2. Store!Offer(m)
      BY <1>1, <2>4, <3>1 DEF Store!Offer, Taken, Offered, Ids
    <3>3. m \notin Range(main) \cup Popped /\ m \in Range(arrived)
      BY <2>3, PlacesApart
    <3>4. OfferedOK'
      BY <1>1, <1>2, <3>1, <3>3 DEF OfferedOK
    <3>5. QED
      BY <3>2, <3>4 DEF Store!Next
  <2>8. QED
    BY <1>7, <2>5, <2>6, <2>7
<1>8. CASE RetryThrows /\ inserted' # inserted
  <2>1. PICK m \in Messages : m = held.id /\ held # None
    BY <1>8 DEF RetryThrows, ControlOK, TypeOK, RetryEntries
  <2>2. /\ UNCHANGED <<retry, bad, held, dropped>>
        /\ inserted' = inserted \cup {m} /\ Offered' = Offered \cup {m}
    BY <1>8, <2>1 DEF RetryThrows, Offered
  <2>3. m \in HeldId /\ Taken' = Taken
    BY <1>2, <2>1, <2>2 DEF Taken, HeldId
  <2>4. Store!Offer(m)
    BY <1>1, <2>2, <2>3 DEF Store!Offer, Taken, Offered, Ids
  <2>5. m \notin Range(main) \cup Popped /\ m \in Range(arrived)
    BY <2>3, PlacesApart
  <2>6. OfferedOK'
    BY <1>1, <1>2, <2>2, <2>5 DEF OfferedOK
  <2>7. QED
    BY <2>4, <2>6 DEF Store!Next
<1>9. QED
  BY <1>5, <1>6, <1>7, <1>8 DEF RetryStep

\* Every step of the system is a step of the store.
LEMMA StepStores ==
  ASSUME TypeOK, ControlOK, OnePlace, OfferedOK, [Next]_vars
  PROVE  [Store!Next]_(Store!vars) /\ OfferedOK'
<1> USE DEF redisVars, batchVars, timerVars, retryVars, historyVars
<1>1. CASE Start \/ IdleLong \/ Tick \/ Shutdown \/ UNCHANGED vars
  <2>1. /\ UNCHANGED <<arrived, main, retry, bad, batch, popped, held, inserted, dropped, next>>
        /\ bw' = bw \/ (bw = "off" /\ bw' = "sleep")
    BY <1>1 DEF Start, IdleLong, Tick, Shutdown, vars, ControlOK
  <2>2. Taken' = Taken /\ Offered' = Offered /\ Popped' = Popped
    BY <2>1 DEF Taken, Unrouted, Popped, HeldId, Offered
  <2>3. UNCHANGED Store!vars
    BY <2>1, <2>2, StoreVars DEF Ids
  <2>4. OfferedOK'
    BY <2>1, <2>2 DEF OfferedOK
  <2>5. QED
    BY <2>3, <2>4
<1>2. ASSUME NEW m \in Messages, EnqueueMain(m)
      PROVE  [Store!Next]_(Store!vars) /\ OfferedOK'
  <2>1. /\ m \notin Range(arrived) /\ main' = Append(main, m) /\ arrived' = Append(arrived, m)
        /\ UNCHANGED <<retry, bad, bw, batch, next, popped, held, inserted, dropped>>
    BY <1>2 DEF EnqueueMain
  <2>2. Range(main') = Range(main) \cup {m} /\ Range(arrived') = Range(arrived) \cup {m}
    BY <2>1, AppendRange DEF TypeOK
  <2>3. Taken' = Taken /\ Offered' = Offered /\ Popped' = Popped
    BY <2>1 DEF Taken, Unrouted, Popped, HeldId, Offered
  <2>4. Store!Accept(m)
    BY <2>1, <2>2, <2>3 DEF Store!Accept, Taken, Offered, Ids
  <2>5. OfferedOK'
    BY <2>1, <2>2, <2>3 DEF OfferedOK
  <2>6. QED
    BY <2>4, <2>5 DEF Store!Next
<1>3. ASSUME NEW k \in DOMAIN retry, RetryDue(k)
      PROVE  [Store!Next]_(Store!vars) /\ OfferedOK'
  <2>1. UNCHANGED <<arrived, main, bad, bw, batch, next, popped, held, inserted, dropped>>
    BY <1>3 DEF RetryDue
  <2>2. Ids(retry') = Ids(retry)
    BY <1>3, DueKeepsIds DEF RetryDue, TypeOK
  <2>3. Taken' = Taken /\ Offered' = Offered /\ Popped' = Popped
    BY <2>1 DEF Taken, Unrouted, Popped, HeldId, Offered
  <2>4. UNCHANGED Store!vars
    BY <2>1, <2>2, <2>3, StoreVars
  <2>5. OfferedOK'
    BY <2>1, <2>3 DEF OfferedOK
  <2>6. QED
    BY <2>4, <2>5
<1>4. CASE Exit
  <2>1. /\ UNCHANGED <<main, retry, bad, arrived, inserted, dropped>>
        /\ bw' = "off" /\ batch' = <<>> /\ popped' = None /\ held' = None
    BY <1>4 DEF Exit
  <2>2. Unrouted' = {} /\ Popped' = {} /\ HeldId' = {} /\ Offered' = Offered
    BY <2>1 DEF Unrouted, Popped, HeldId, Offered, Range
  <2>3. Store!Lose
    BY <2>1, <2>2 DEF Store!Lose, Offered, Ids
  <2>4. OfferedOK'
    BY <2>1, <2>2 DEF OfferedOK
  <2>5. QED
    BY <2>3, <2>4 DEF Store!Next
<1>5. QED
  BY <1>1, <1>2, <1>3, <1>4, BatchStepStores, RetryStepStores DEF Next

\* lib/redis-queue.ts and its two workers implement the abstract store: whatever they
\* do between the Redis commands, a message is put, taken, offered and lost as
\* MessageStore says, and leaves memory only after SFMC was asked to take it or with
\* the process.
THEOREM ImplementsStore == Spec => StoreSpec
<1>1. Init => Store!Init /\ OfferedOK
  <2>1. SUFFICES ASSUME Init PROVE Store!Init /\ OfferedOK
    OBVIOUS
  <2>2. /\ Range(<<>>) = {} /\ main = <<>> /\ retry = <<>> /\ bad = <<>> /\ arrived = <<>>
        /\ batch = <<>> /\ popped = None /\ held = None /\ inserted = {} /\ dropped = {}
        /\ bw = "off"
    BY <2>1 DEF Init, Range
  <2>3. Unrouted = {} /\ Popped = {} /\ HeldId = {} /\ Ids(retry) = {}
    BY <2>2 DEF Unrouted, Popped, HeldId, Ids
  <2>4. QED
    BY <2>2, <2>3 DEF Store!Init, OfferedOK, Offered
<1>2. TypeOK /\ ControlOK /\ OnePlace /\ OfferedOK /\ [Next]_vars
        => [Store!Next]_(Store!vars) /\ OfferedOK'
  BY StepStores
<1>3. QED
  BY <1>1, <1>2, PlaceInvariant, PTL DEF Spec, StoreSpec, Store!Spec
===============================================================================

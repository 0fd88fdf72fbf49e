-------------------------- MODULE WebhookIntakeProofs --------------------------
(***************************************************************************)
(* Proofs about WebhookIntake, for any webhooks, settings and bounds.      *)
(***************************************************************************)
EXTENDS WebhookIntake, FiniteSetTheorems, SequenceTheorems, TLAPS

-------------------------------------------------------------------------------
(* Types.                                                                    *)

Run == [webhook : Valid, header : Headers,
        pc : {"scheduled", "running", "done", "failed", "lost"}, row : 0 .. MAX_ROWS]

Types == TypeOK /\ runs \in Seq(Run)

\* A run has as many rows as its webhook, and no more than the bound.
LEMMA RowCountBounded ==
  ASSUME Types, NEW n \in DOMAIN runs
  PROVE  /\ n \in 1 .. MAX_RUNS /\ n \in 1 .. Len(runs)
         /\ runs[n] \in Run /\ runs[n].row \in Nat
         /\ RowCount(n) \in 0 .. MAX_ROWS /\ RowCount(n) \in Nat
         /\ runs[n].row <= RowCount(n)
<1>1. n \in 1 .. Len(runs) /\ runs[n] \in Run /\ Len(runs) \in Nat
  BY DEF Types
<1>2. Len(runs) <= MAX_RUNS /\ MAX_RUNS \in Nat /\ MAX_ROWS \in Nat
  BY BoundsAssumption DEF Types, TypeOK
<1>3. runs[n].webhook \in Webhooks /\ JsPayload(BodyOf[runs[n].webhook]) # Absent
  BY <1>1 DEF Run, Valid
<1>4. RowCount(n) \in 0 .. MAX_ROWS
  BY <1>3, BoundsAssumption DEF RowCount
<1>5. runs[n].row <= RowCount(n)
  BY DEF Types, TypeOK
<1> QED
  BY <1>1, <1>2, <1>4, <1>5 DEF Run

\* What becomes of runs when one of them changes.
LEMMA UpdateRun ==
  ASSUME runs \in Seq(Run), NEW n \in DOMAIN runs, NEW r \in Run,
         runs' = [runs EXCEPT ![n] = r]
  PROVE  /\ runs' \in Seq(Run) /\ Len(runs') = Len(runs) /\ DOMAIN runs' = DOMAIN runs
         /\ runs'[n] = r
         /\ \A m \in DOMAIN runs : m # n => runs'[m] = runs[m]
<1>1. n \in 1 .. Len(runs) /\ DOMAIN runs = 1 .. Len(runs)
  OBVIOUS
<1>2. /\ [runs EXCEPT ![n] = r] \in Seq(Run)
      /\ Len([runs EXCEPT ![n] = r]) = Len(runs)
      /\ \A j \in 1 .. Len(runs) :
           [runs EXCEPT ![n] = r][j] = IF j = n THEN r ELSE runs[j]
  BY <1>1, ExceptSeq
<1> QED
  BY <1>1, <1>2

\* The run n goes on as r.
Becomes(n, r) ==
  /\ n \in DOMAIN runs
  /\ r \in Run
  /\ r.webhook = runs[n].webhook
  /\ r.row <= RowCount(n)
  /\ runs' = [runs EXCEPT ![n] = r]

\* The rows that were handed over.
Handed == held \cup inserted \cup lost

\* A step of a run: it ends, or goes on with its next row.
LEMMA ProceedEffect ==
  ASSUME Types, NEW n \in DOMAIN runs, NEW k, k = runs[n].row + 1, Proceed(n, k)
  PROVE  \E r \in Run :
           /\ Becomes(n, r)
           /\ \/ /\ r.pc = "done" /\ r.row = runs[n].row /\ r.row = RowCount(n)
                 /\ UNCHANGED <<accepted, held>>
              \/ /\ r.pc = "running" /\ r.row = k /\ k <= RowCount(n)
                 /\ Row(n, k) \in Items
                 /\ IF env.queue
                      THEN accepted' = accepted \cup {Row(n, k)} /\ held' = held \cup {Row(n, k)}
                      ELSE UNCHANGED <<accepted, held>>
<1> USE RowCountBounded
<1>1. CASE NoRow(n, k)
  <2> DEFINE r == [runs[n] EXCEPT !.pc = "done"]
  <2>1. r \in Run /\ r.pc = "done" /\ r.row = runs[n].row /\ r.webhook = runs[n].webhook
    BY DEF Run
  <2>2. runs' = [runs EXCEPT ![n] = r]
    BY <1>1 DEF Proceed
  <2>3. r.row = RowCount(n)
    BY <1>1, <2>1 DEF NoRow
  <2>4. Becomes(n, r)
    BY <2>1, <2>2 DEF Becomes
  <2> QED
    BY <1>1, <2>1, <2>3, <2>4 DEF Proceed
<1>2. CASE ~NoRow(n, k)
  <2> DEFINE r == [runs[n] EXCEPT !.pc = "running", !.row = k]
  <2>1. k \in 1 .. MAX_ROWS /\ k \in 0 .. MAX_ROWS /\ k <= RowCount(n)
    BY <1>2, BoundsAssumption DEF NoRow
  <2>2. r \in Run /\ r.pc = "running" /\ r.row = k /\ r.webhook = runs[n].webhook
    BY <2>1 DEF Run
  <2>3. runs' = [runs EXCEPT ![n] = r]
    BY <1>2 DEF Proceed
  <2>4. Becomes(n, r)
    BY <2>1, <2>2, <2>3 DEF Becomes
  <2>5. Row(n, k) \in Items
    BY <2>1 DEF Row, Items
  <2> QED
    BY <1>2, <2>1, <2>2, <2>4, <2>5 DEF Proceed
<1> QED
  BY <1>1, <1>2

-------------------------------------------------------------------------------
(* How often a webhook is run.                                               *)

\* A run that goes on is still a run of its webhook.
LEMMA SameRuns ==
  ASSUME Types, NEW n \in DOMAIN runs, NEW r, Becomes(n, r)
  PROVE  \A id \in Ids : RunsOf(id)' = RunsOf(id)
<1>1. /\ DOMAIN runs' = DOMAIN runs
      /\ \A m \in DOMAIN runs : runs'[m].webhook = runs[m].webhook
  BY UpdateRun DEF Becomes, Types
<1>2. \A w : UniqueId(w)' = UniqueId(w)
  BY DEF UniqueId
<1> QED
  BY <1>1, <1>2 DEF RunsOf

\* The runs of an id are finite in number.
LEMMA RunsFinite ==
  ASSUME Types, NEW id
  PROVE  IsFiniteSet(RunsOf(id)) /\ RunsOf(id) \subseteq 1 .. Len(runs)
<1>1. DOMAIN runs = 1 .. Len(runs) /\ Len(runs) \in Nat
  BY DEF Types
<1>2. IsFiniteSet(1 .. Len(runs))
  BY <1>1, FS_Interval
<1>3. RunsOf(id) \subseteq 1 .. Len(runs)
  BY <1>1 DEF RunsOf
<1> QED
  BY <1>2, <1>3, FS_Subset

\* What Append does to the runs.
LEMMA AppendRun ==
  ASSUME runs \in Seq(Run), NEW r \in Run, runs' = Append(runs, r)
  PROVE  /\ runs' \in Seq(Run) /\ Len(runs') = Len(runs) + 1
         /\ DOMAIN runs = 1 .. Len(runs) /\ Len(runs) \in Nat
         /\ DOMAIN runs' = 1 .. Len(runs) + 1
         /\ DOMAIN runs' = DOMAIN runs \cup {Len(runs) + 1}
         /\ \A m \in DOMAIN runs : runs'[m] = runs[m]
         /\ runs'[Len(runs) + 1] = r
<1>1. DOMAIN runs = 1 .. Len(runs) /\ Len(runs) \in Nat
  OBVIOUS
<1>2. /\ runs' \in Seq(Run) /\ Len(runs') = Len(runs) + 1
      /\ \A m \in 1 .. Len(runs) : runs'[m] = runs[m]
      /\ runs'[Len(runs) + 1] = r
  BY AppendProperties
<1>3. DOMAIN runs' = 1 .. Len(runs) + 1
  BY <1>2
<1> QED
  BY <1>1, <1>2, <1>3

\* An acknowledged webhook is run once more, and its id is in the cache.
LEMMA AcknowledgeCounts ==
  ASSUME Types, RunsBounded, NEW w \in Webhooks, NEW header \in Headers,
         Acknowledge(w, header)
  PROVE  RunsBounded'
<1> DEFINE r == [webhook |-> w, header |-> header, pc |-> "scheduled", row |-> 0]
           last == Len(runs) + 1
<1>1. r \in Run /\ runs' = Append(runs, r)
  BY BoundsAssumption DEF Acknowledge, Run
<1>2. /\ DOMAIN runs' = DOMAIN runs \cup {last} /\ DOMAIN runs = 1 .. Len(runs)
      /\ Len(runs) \in Nat
      /\ \A m \in DOMAIN runs : runs'[m] = runs[m]
      /\ runs'[last].webhook = w
  BY <1>1, AppendRun DEF Types
<1>3. UniqueId(w) \in Ids /\ UniqueId(w) \notin cache
  BY DEF Acknowledge, IsProcessed, Ids
<1>4. /\ cache' = cache \cup {UniqueId(w)} /\ forgotten' = forgotten
      /\ forgotten \in [Ids -> 0 .. MAX_FORGETS] /\ MAX_FORGETS \in Nat
  BY BoundsAssumption DEF Acknowledge, Types, TypeOK
<1>5. \A v : UniqueId(v)' = UniqueId(v)
  BY DEF UniqueId
<1>6. SUFFICES ASSUME NEW id \in Ids
               PROVE  Cardinality(RunsOf(id))' = forgotten'[id] + IF id \in cache' THEN 1 ELSE 0
  BY DEF RunsBounded
<1>7. CASE id = UniqueId(w)
  <2>1. RunsOf(id)' = RunsOf(id) \cup {last} /\ last \notin RunsOf(id)
    BY <1>2, <1>5, <1>7 DEF RunsOf
  <2>2. Cardinality(RunsOf(id)') = Cardinality(RunsOf(id)) + 1
    BY <2>1, RunsFinite, FS_AddElement
  <2>3. Cardinality(RunsOf(id)) = forgotten[id]
    BY <1>3, <1>4, <1>7 DEF RunsBounded
  <2> QED
    BY <1>4, <1>7, <2>2, <2>3
<1>8. CASE id # UniqueId(w)
  <2>1. RunsOf(id)' = RunsOf(id)
    BY <1>2, <1>5, <1>8 DEF RunsOf
  <2> QED
    BY <1>4, <1>8, <2>1 DEF RunsBounded
<1> QED
  BY <1>7, <1>8

\* Ids that leave the cache are counted.
LEMMA ForgetCounts ==
  ASSUME Types, RunsBounded, NEW ids \in SUBSET cache, Forget(ids),
         \A id \in Ids : RunsOf(id)' = RunsOf(id)
  PROVE  RunsBounded'
<1>1. forgotten \in [Ids -> 0 .. MAX_FORGETS] /\ MAX_FORGETS \in Nat
  BY BoundsAssumption DEF Types, TypeOK
<1>2. ASSUME NEW id \in Ids
      PROVE  Cardinality(RunsOf(id))' = forgotten'[id] + IF id \in cache' THEN 1 ELSE 0
  <2>1. Cardinality(RunsOf(id)) = forgotten[id] + IF id \in cache THEN 1 ELSE 0
    BY DEF RunsBounded
  <2>2. forgotten'[id] = forgotten[id] + IF id \in ids THEN 1 ELSE 0
    BY DEF Forget
  <2>3. id \in cache' <=> id \in cache /\ id \notin ids
    BY DEF Forget
  <2> QED
    BY <1>1, <2>1, <2>2, <2>3
<1> QED
  BY <1>2 DEF RunsBounded

\* The end of a process changes where runs are, and nothing else of them.
LEMMA EndProcessRuns ==
  ASSUME Types, EndProcess
  PROVE  /\ runs' \in Seq(Run) /\ Len(runs') = Len(runs) /\ DOMAIN runs' = DOMAIN runs
         /\ \A n \in DOMAIN runs :
              /\ runs'[n].webhook = runs[n].webhook
              /\ runs'[n].row = runs[n].row
              /\ runs'[n].pc \in {runs[n].pc, "lost"}
<1>1. runs \in Seq(Run) /\ DOMAIN runs = 1 .. Len(runs) /\ Len(runs) \in Nat
  BY DEF Types
<1>2. ASSUME NEW n \in DOMAIN runs
      PROVE  /\ runs'[n] \in Run
             /\ runs'[n].webhook = runs[n].webhook
             /\ runs'[n].row = runs[n].row
             /\ runs'[n].pc \in {runs[n].pc, "lost"}
  <2>1. runs[n] \in Run
    BY <1>1
  <2>2. [runs[n] EXCEPT !.pc = "lost"] \in Run
    BY <2>1 DEF Run
  <2>3. runs'[n] = runs[n] \/ runs'[n] = [runs[n] EXCEPT !.pc = "lost"]
    BY DEF EndProcess
  <2> QED
    BY <2>1, <2>2, <2>3 DEF Run
<1>3. runs' = [n \in 1 .. Len(runs) |-> runs'[n]]
  BY <1>1 DEF EndProcess
<1>4. runs' \in Seq(Run) /\ Len(runs') = Len(runs)
  BY <1>1, <1>2, <1>3
<1> QED
  BY <1>1, <1>2, <1>4

-------------------------------------------------------------------------------
(* Where the rows are.                                                       *)

\* What holds of one run.
RunInv(n) ==
  /\ runs[n].pc = "scheduled" => runs[n].row = 0
  /\ runs[n].pc = "running" => runs[n].row >= 1
  /\ RowsUpTo(n, runs[n].row - 1) \subseteq Handed
  /\ runs[n].pc = "running" /\ env.queue => RowsUpTo(n, runs[n].row) \subseteq Handed
  /\ runs[n].pc = "done" =>
       runs[n].row = RowCount(n) /\ RowsUpTo(n, runs[n].row) \subseteq Handed

\* No run has handed over a row it is not at yet, and what holds of each.
RowsInv ==
  /\ \A i \in Handed : i.run \in DOMAIN runs /\ i \in RowsUpTo(i.run, runs[i.run].row)
  /\ \A n \in DOMAIN runs : RunInv(n)

\* The rows of a run, one by one.
LEMMA RowsUpToGrows ==
  ASSUME NEW n, NEW k \in Nat
  PROVE  /\ RowsUpTo(n, k + 1) = RowsUpTo(n, k) \cup {Row(n, k + 1)}
         /\ RowsUpTo(n, 0) = {} /\ RowsUpTo(n, 0 - 1) = {}
         /\ \A i \in RowsUpTo(n, k) : i.run = n
<1>1. 1 .. k + 1 = 1 .. k \cup {k + 1}
  OBVIOUS
<1>2. RowsUpTo(n, k + 1) = RowsUpTo(n, k) \cup {Row(n, k + 1)}
  BY <1>1 DEF RowsUpTo
<1>3. 1 .. 0 = {} /\ 1 .. 0 - 1 = {}
  OBVIOUS
<1>4. RowsUpTo(n, 0) = {} /\ RowsUpTo(n, 0 - 1) = {}
  BY <1>3 DEF RowsUpTo
<1> QED
  BY <1>2, <1>4 DEF RowsUpTo, Row

\* The invariant of the rows from what a step does to one run.
LEMMA RowsKept ==
  ASSUME Types, RowsInv, NEW n \in DOMAIN runs, NEW r, Becomes(n, r), UNCHANGED env,
         r.row = runs[n].row \/ r.row = runs[n].row + 1,
         Handed \subseteq Handed',
         Handed' \subseteq Handed \cup RowsUpTo(n, r.row),
         r.pc # "scheduled", r.pc = "running" => r.row >= 1,
         RowsUpTo(n, r.row - 1) \subseteq Handed',
         r.pc = "running" /\ env.queue => RowsUpTo(n, r.row) \subseteq Handed',
         r.pc = "done" => r.row = RowCount(n) /\ RowsUpTo(n, r.row) \subseteq Handed'
  PROVE  RowsInv'
<1>1. /\ DOMAIN runs' = DOMAIN runs /\ runs'[n] = r
      /\ \A m \in DOMAIN runs : m # n => runs'[m] = runs[m]
      /\ runs[n].row \in Nat
  BY UpdateRun, RowCountBounded DEF Becomes, Types
<1>2. \A m \in DOMAIN runs : RowCount(m)' = RowCount(m)
  BY <1>1 DEF RowCount, Becomes
<1>3. RowsUpTo(n, runs[n].row) \subseteq RowsUpTo(n, r.row)
  BY <1>1, RowsUpToGrows
<1>4. ASSUME NEW i \in Handed'
      PROVE  i.run \in DOMAIN runs' /\ i \in RowsUpTo(i.run, runs'[i.run].row)
  <2>1. CASE i \in RowsUpTo(n, r.row)
    <3>1. i.run = n
      BY <2>1 DEF RowsUpTo, Row
    <3> QED
      BY <1>1, <2>1, <3>1
  <2>2. CASE i \in Handed
    BY <1>1, <1>3, <2>2 DEF RowsInv
  <2> QED
    BY <2>1, <2>2
<1>5. RunInv(n)'
  BY <1>1, <1>2 DEF RunInv
<1>6. ASSUME NEW m \in DOMAIN runs, m # n PROVE RunInv(m)'
  BY <1>1, <1>2, <1>6 DEF RunInv, RowsInv
<1> QED
  BY <1>1, <1>4, <1>5, <1>6 DEF RowsInv

\* The types from what a step does to one run.
LEMMA TypesKept ==
  ASSUME Types, NEW n \in DOMAIN runs, NEW r, Becomes(n, r),
         UNCHANGED <<env, cache, running, forgotten, lost>>,
         accepted \subseteq accepted', accepted' \subseteq Items,
         held' \subseteq accepted', inserted' \subseteq Items
  PROVE  Types'
<1>1. /\ runs' \in Seq(Run) /\ Len(runs') = Len(runs) /\ DOMAIN runs' = DOMAIN runs
      /\ runs'[n] = r
      /\ \A m \in DOMAIN runs : m # n => runs'[m] = runs[m]
  BY UpdateRun DEF Becomes, Types
<1>2. ASSUME NEW m \in DOMAIN runs PROVE runs'[m] \in Run /\ runs'[m].row <= RowCount(m)'
  <2>1. RowCount(m)' = RowCount(m)
    BY <1>1 DEF RowCount, Becomes
  <2> QED
    BY <1>1, <2>1, RowCountBounded DEF Becomes
<1> QED
  BY <1>1, <1>2 DEF Types, TypeOK, Run

\* The steps of a run keep types, counts and rows.
LEMMA RunStepKeeps ==
  ASSUME Types, RunsBounded, RowsInv, NEW n \in 1 .. MAX_RUNS, RunStep(n)
  PROVE  Types' /\ RunsBounded' /\ RowsInv'
<1> DEFINE k == runs[n].row
<1>1. n \in DOMAIN runs /\ k \in Nat /\ RunInv(n)
  BY RowCountBounded DEF RunStep, Start, Due, Enqueued, Upserted, UpsertFailed, At, RowsInv
<1>2. ASSUME NEW r, Becomes(n, r), UNCHANGED <<cache, forgotten>> PROVE RunsBounded'
  BY <1>1, <1>2, SameRuns DEF RunsBounded
<1>3. accepted \subseteq Items /\ inserted \subseteq Items /\ held \subseteq accepted
  BY DEF Types, TypeOK
<1>4. ASSUME k >= 1 PROVE Row(n, k) \in Items
  BY <1>1, <1>4, RowCountBounded, BoundsAssumption DEF Row, Items
<1>5. ASSUME Proceed(n, k + 1),
             UNCHANGED <<env, cache, running, forgotten, lost>>,
             inserted \subseteq inserted', inserted' \subseteq Items,
             inserted' \subseteq inserted \cup RowsUpTo(n, k),
             RowsUpTo(n, k) \subseteq held \cup inserted' \cup lost
      PROVE  Types' /\ RunsBounded' /\ RowsInv'
  <2>1. PICK r \in Run :
           /\ Becomes(n, r)
           /\ \/ /\ r.pc = "done" /\ r.row = k /\ r.row = RowCount(n)
                 /\ UNCHANGED <<accepted, held>>
              \/ /\ r.pc = "running" /\ r.row = k + 1 /\ k + 1 <= RowCount(n)
                 /\ Row(n, k + 1) \in Items
                 /\ IF env.queue
                      THEN /\ accepted' = accepted \cup {Row(n, k + 1)}
                           /\ held' = held \cup {Row(n, k + 1)}
                      ELSE UNCHANGED <<accepted, held>>
    BY <1>1, <1>5, ProceedEffect
  <2>2. RowsUpTo(n, k + 1) = RowsUpTo(n, k) \cup {Row(n, k + 1)}
    BY <1>1, RowsUpToGrows
  <2>3. Types'
    BY <1>1, <1>3, <1>5, <2>1, TypesKept
  <2>4. RowsInv'
    <3>1. r.row = k \/ r.row = k + 1
      BY <2>1
    <3>2. Handed \subseteq Handed' /\ RowsUpTo(n, k) \subseteq Handed'
      BY <1>5, <2>1 DEF Handed
    <3>3. Handed' \subseteq Handed \cup RowsUpTo(n, r.row)
      BY <1>5, <2>1, <2>2 DEF Handed
    <3>4. r.pc # "scheduled" /\ (r.pc = "running" => r.row >= 1)
      BY <1>1, <2>1
    <3>5. RowsUpTo(n, r.row - 1) \subseteq Handed'
      <4>1. CASE r.row = k + 1
        <5>1. r.row - 1 = k
          BY <1>1, <4>1
        <5> QED
          BY <3>2, <5>1
      <4>2. CASE r.row = k
        <5>1. RowsUpTo(n, k - 1) \subseteq Handed
          BY <1>1 DEF RunInv
        <5> QED
          BY <3>2, <4>2, <5>1
      <4> QED
        BY <3>1, <4>1, <4>2
    <3>6. r.pc = "running" /\ env.queue => RowsUpTo(n, r.row) \subseteq Handed'
      BY <2>1, <2>2, <3>2 DEF Handed
    <3>7. r.pc = "done" => r.row = RowCount(n) /\ RowsUpTo(n, r.row) \subseteq Handed'
      BY <2>1, <3>2
    <3> QED
      BY <1>1, <1>5, <2>1, <3>1, <3>2, <3>3, <3>4, <3>5, <3>6, <3>7, RowsKept
  <2> QED
    BY <1>5, <2>1, <2>3, <2>4, <1>2
<1>6. ASSUME runs' = [runs EXCEPT ![n].pc = "failed"],
             UNCHANGED <<env, cache, accepted, held, running, forgotten, lost>>,
             inserted \subseteq inserted', inserted' \subseteq Items,
             inserted' \subseteq inserted \cup RowsUpTo(n, k)
      PROVE  Types' /\ RunsBounded' /\ RowsInv'
  <2> DEFINE r == [runs[n] EXCEPT !.pc = "failed"]
  <2>1. r \in Run /\ r.pc = "failed" /\ r.row = k /\ r.webhook = runs[n].webhook
    BY <1>1, RowCountBounded DEF Run
  <2>2. Becomes(n, r)
    BY <1>1, <1>6, <2>1, RowCountBounded DEF Becomes
  <2>3. Types'
    BY <1>1, <1>3, <1>6, <2>2, TypesKept
  <2>4. Handed \subseteq Handed' /\ Handed' \subseteq Handed \cup RowsUpTo(n, k)
    BY <1>6 DEF Handed
  <2>5. RowsUpTo(n, k - 1) \subseteq Handed'
    BY <1>1, <2>4 DEF RunInv
  <2>6. RowsInv'
    BY <1>1, <1>6, <2>1, <2>2, <2>4, <2>5, RowsKept
  <2> QED
    BY <1>2, <1>6, <2>2, <2>3, <2>6
<1>7. CASE Start(n)
  <2>1. runs[n].pc = "scheduled"
    BY <1>7 DEF Start, Due, At
  <2>2. k = 0 /\ RowsUpTo(n, k) = {}
    BY <1>1, <2>1, RowsUpToGrows DEF RunInv
  <2>3. CASE Proceed(n, 1)
    <3>1. k + 1 = 1
      BY <2>2
    <3> QED
      BY <1>3, <1>5, <1>7, <2>2, <2>3, <3>1 DEF Start
  <2>4. CASE runs' = [runs EXCEPT ![n].pc = "failed"] /\ UNCHANGED <<accepted, held>>
    BY <1>3, <1>6, <1>7, <2>4 DEF Start
  <2> QED
    BY <1>7, <2>3, <2>4 DEF Start
<1>8. CASE Enqueued(n)
  <2>1. RowsUpTo(n, k) \subseteq Handed
    BY <1>1, <1>8 DEF Enqueued, At, RunInv
  <2> QED
    BY <1>3, <1>5, <1>8, <2>1 DEF Enqueued, Handed
<1>9. ASSUME At(n, "running")
      PROVE  /\ Row(n, k) \in Items
             /\ RowsUpTo(n, k) = RowsUpTo(n, k - 1) \cup {Row(n, k)}
             /\ RowsUpTo(n, k - 1) \subseteq Handed
  <2>1. k >= 1 /\ k - 1 \in Nat /\ (k - 1) + 1 = k
    BY <1>1, <1>9 DEF At, RunInv
  <2>2. RowsUpTo(n, (k - 1) + 1) = RowsUpTo(n, k - 1) \cup {Row(n, (k - 1) + 1)}
    BY <2>1, RowsUpToGrows
  <2>3. RowsUpTo(n, k) = RowsUpTo(n, k - 1) \cup {Row(n, k)}
    BY <2>1, <2>2
  <2> QED
    BY <1>1, <1>4, <2>1, <2>3 DEF RunInv
<1>10. CASE Upserted(n)
  <2>1. inserted' = inserted \cup {Row(n, k)} /\ inserted' \subseteq Items
    BY <1>3, <1>9, <1>10 DEF Upserted
  <2>2. RowsUpTo(n, k) \subseteq held \cup inserted' \cup lost
    BY <1>9, <1>10, <2>1 DEF Upserted, Handed
  <2> QED
    BY <1>5, <1>9, <1>10, <2>1, <2>2 DEF Upserted
<1>11. CASE UpsertFailed(n)
  <2>1. inserted \subseteq inserted' /\ inserted' \subseteq inserted \cup {Row(n, k)}
    BY <1>11 DEF UpsertFailed
  <2> QED
    BY <1>3, <1>6, <1>9, <1>11, <2>1 DEF UpsertFailed
<1> QED
  BY <1>7, <1>8, <1>10, <1>11 DEF RunStep

\* Steps that leave runs, ids and what was handed over alone.
LEMMA AroundKeeps ==
  ASSUME Types, RunsBounded, RowsInv,
         UNCHANGED <<env, cache, runs, forgotten, accepted>>, Handed' = Handed,
         running' \in BOOLEAN, held' \subseteq accepted, lost' \subseteq accepted,
         inserted' \subseteq Items
  PROVE  Types' /\ RunsBounded' /\ RowsInv'
<1>1. Types'
  BY DEF Types, TypeOK, RowCount
<1>2. RunsBounded'
  BY DEF RunsBounded, RunsOf, UniqueId
<1>3. RowsInv'
  BY DEF RowsInv, RunInv, RowCount
<1> QED
  BY <1>1, <1>2, <1>3

\* Ids that leave the cache, with the runs where they are.
LEMMA ForgetKeeps ==
  ASSUME Types, RunsBounded, RowsInv, NEW ids \in SUBSET cache, Forget(ids),
         UNCHANGED <<env, runs, bufferVars, lost>>
  PROVE  Types' /\ RunsBounded' /\ RowsInv'
<1>1. forgotten' \in [Ids -> 0 .. MAX_FORGETS] /\ cache' \subseteq Ids
  <2>1. forgotten \in [Ids -> 0 .. MAX_FORGETS] /\ cache \subseteq Ids /\ MAX_FORGETS \in Nat
    BY BoundsAssumption DEF Types, TypeOK
  <2>2. ASSUME NEW id \in Ids
        PROVE  forgotten[id] + (IF id \in ids THEN 1 ELSE 0) \in 0 .. MAX_FORGETS
    BY <2>1 DEF Forget
  <2> QED
    BY <2>1, <2>2 DEF Forget
<1>2. Types'
  BY <1>1 DEF Types, TypeOK, RowCount, bufferVars
<1>3. \A id \in Ids : RunsOf(id)' = RunsOf(id)
  BY DEF RunsOf, UniqueId
<1>4. RunsBounded'
  BY <1>3, ForgetCounts
<1>5. RowsInv'
  BY DEF RowsInv, RunInv, RowCount, Handed, bufferVars
<1> QED
  BY <1>2, <1>4, <1>5

\* An acknowledged webhook has handed over nothing yet.
LEMMA AcknowledgeKeeps ==
  ASSUME Types, RunsBounded, RowsInv, NEW w \in Webhooks, NEW header \in Headers,
         Acknowledge(w, header)
  PROVE  Types' /\ RunsBounded' /\ RowsInv'
<1> DEFINE r == [webhook |-> w, header |-> header, pc |-> "scheduled", row |-> 0]
<1>0. PICK last : last = Len(runs) + 1
  OBVIOUS
<1>1. r \in Run /\ runs' = Append(runs, r)
  BY BoundsAssumption DEF Acknowledge, Run
<1>2. /\ runs' \in Seq(Run) /\ Len(runs') = Len(runs) + 1
      /\ DOMAIN runs' = DOMAIN runs \cup {last} /\ last \notin DOMAIN runs
      /\ \A m \in DOMAIN runs : runs'[m] = runs[m]
      /\ runs'[last] = r
  BY <1>0, <1>1, AppendRun DEF Types
<1>3. \A m \in DOMAIN runs : RowCount(m)' = RowCount(m)
  BY <1>2 DEF RowCount
<1>4. RowCount(last)' \in Nat
  <2>1. w \in Webhooks /\ JsPayload(BodyOf[w]) # Absent
    BY DEF Acknowledge, Valid
  <2>2. RowCount(last)' = Len(JsRows(JsPayload(BodyOf[w])))
    BY <1>2 DEF RowCount
  <2> QED
    BY <2>1, <2>2, BoundsAssumption
<1>5. Types'
  <2>1. cache' \subseteq Ids
    BY DEF Acknowledge, Types, TypeOK, Ids
  <2>2. Len(runs') <= MAX_RUNS
    BY <1>2, BoundsAssumption DEF Acknowledge, Types
  <2>3. ASSUME NEW m \in DOMAIN runs' PROVE runs'[m] \in Run /\ runs'[m].row <= RowCount(m)'
    <3>1. CASE m = last
      BY <1>1, <1>2, <1>4, <3>1
    <3>2. CASE m \in DOMAIN runs
      BY <1>2, <1>3, <3>2, RowCountBounded
    <3> QED
      BY <1>2, <3>1, <3>2
  <2> QED
    BY <1>2, <2>1, <2>2, <2>3 DEF Acknowledge, Types, TypeOK, Run, bufferVars
<1>6. RowsInv'
  <2>1. Handed' = Handed /\ env' = env
    BY DEF Acknowledge, Handed, bufferVars
  <2>2. ASSUME NEW i \in Handed'
        PROVE  i.run \in DOMAIN runs' /\ i \in RowsUpTo(i.run, runs'[i.run].row)
    BY <1>2, <2>1 DEF RowsInv
  <2>3. RunInv(last)'
    <3>1. runs'[last].row = 0 /\ runs'[last].pc = "scheduled"
      BY <1>2
    <3>2. RowsUpTo(last, 0 - 1) = {}
      BY RowsUpToGrows
    <3> QED
      BY <3>1, <3>2 DEF RunInv
  <2>4. ASSUME NEW m \in DOMAIN runs PROVE RunInv(m)'
    BY <1>2, <1>3, <2>1 DEF RunInv, RowsInv
  <2> QED
    BY <1>2, <2>2, <2>3, <2>4 DEF RowsInv
<1> QED
  BY <1>5, <1>6, AcknowledgeCounts

\* The end of a process loses runs, and neither ids without count nor rows.
LEMMA EndProcessKeeps ==
  ASSUME Types, RunsBounded, RowsInv, EndProcess
  PROVE  Types' /\ RunsBounded' /\ RowsInv'
<1>1. /\ runs' \in Seq(Run) /\ Len(runs') = Len(runs) /\ DOMAIN runs' = DOMAIN runs
      /\ \A n \in DOMAIN runs :
           /\ runs'[n].webhook = runs[n].webhook
           /\ runs'[n].row = runs[n].row
           /\ runs'[n].pc \in {runs[n].pc, "lost"}
  BY EndProcessRuns
<1>2. \A n \in DOMAIN runs : RowCount(n)' = RowCount(n)
  BY <1>1 DEF RowCount
<1>3. UNCHANGED <<env, accepted, held, inserted, lost>> /\ running' = FALSE /\ Forget(cache)
  BY DEF EndProcess, Buffer!Stop
<1>4. forgotten' \in [Ids -> 0 .. MAX_FORGETS] /\ cache' \subseteq Ids
  <2>1. forgotten \in [Ids -> 0 .. MAX_FORGETS] /\ cache \subseteq Ids /\ MAX_FORGETS \in Nat
    BY BoundsAssumption DEF Types, TypeOK
  <2>2. ASSUME NEW id \in Ids
        PROVE  forgotten[id] + (IF id \in cache THEN 1 ELSE 0) \in 0 .. MAX_FORGETS
    BY <1>3, <2>1 DEF Forget
  <2> QED
    BY <1>3, <2>1, <2>2 DEF Forget
<1>5. Types'
  <2>1. ASSUME NEW n \in DOMAIN runs' PROVE runs'[n] \in Run /\ runs'[n].row <= RowCount(n)'
    BY <1>1, <1>2, RowCountBounded
  <2> QED
    BY <1>1, <1>3, <1>4, <2>1 DEF Types, TypeOK, Run
<1>6. RunsBounded'
  <2>1. \A id \in Ids : RunsOf(id)' = RunsOf(id)
    BY <1>1 DEF RunsOf, UniqueId
  <2> QED
    BY <1>3, <2>1, ForgetCounts
<1>7. RowsInv'
  <2>1. Handed' = Handed
    BY <1>3 DEF Handed
  <2>2. ASSUME NEW n \in DOMAIN runs PROVE RunInv(n)'
    BY <1>1, <1>2, <1>3, <2>1 DEF RunInv, RowsInv
  <2> QED
    BY <1>1, <2>1, <2>2 DEF RowsInv
<1> QED
  BY <1>5, <1>6, <1>7

-------------------------------------------------------------------------------
(* The theorems.                                                             *)

\* The inductive invariant of the intake.
IntakeInv == Types /\ RunsBounded /\ RowsInv

\* Every step keeps it.
LEMMA IntakeStep ==
  ASSUME IntakeInv, [Next]_vars
  PROVE  IntakeInv'
<1> USE DEF IntakeInv
<1>1. ASSUME NEW w \in Webhooks, NEW valid \in BOOLEAN, Turn(w, valid) PROVE UNCHANGED vars
  BY <1>1 DEF Turn
<1>2. CASE UNCHANGED vars
  BY <1>2, AroundKeeps DEF vars, bufferVars, Handed, Types, TypeOK
<1>3. ASSUME NEW w \in Webhooks, NEW header \in Headers, Acknowledge(w, header)
      PROVE  IntakeInv'
  BY <1>3, AcknowledgeKeeps
<1>4. ASSUME NEW n \in 1 .. MAX_RUNS, RunStep(n) PROVE IntakeInv'
  BY <1>4, RunStepKeeps
<1>5. ASSUME NEW i \in Items, Deliver(i) PROVE IntakeInv'
  <2>1. PICK confirmed \in SUBSET {i} : Buffer!Deliver({i}, confirmed)
    BY <1>5 DEF Deliver
  <2>2. /\ i \in held /\ inserted' = inserted \cup {i} /\ held' = held \ confirmed
        /\ confirmed \subseteq inserted' /\ UNCHANGED <<accepted, running>>
    BY <2>1 DEF Buffer!Deliver
  <2>3. Handed' = Handed
    BY <1>5, <2>2 DEF Deliver, Handed
  <2> QED
    BY <1>5, <2>2, <2>3, AroundKeeps DEF Deliver, Types, TypeOK
<1>6. ASSUME NEW id \in Ids, Expire(id) PROVE IntakeInv'
  BY <1>6, ForgetKeeps DEF Expire
<1>7. CASE ClearCache
  BY <1>7, ForgetKeeps DEF ClearCache
<1>8. CASE EndProcess
  BY <1>8, EndProcessKeeps
<1>9. CASE Restart
  <2>1. Handed' = Handed
    BY <1>9 DEF Restart, Handed
  <2> QED
    BY <1>9, <2>1, AroundKeeps DEF Restart, Types, TypeOK
<1> QED
  BY <1>1, <1>2, <1>3, <1>4, <1>5, <1>6, <1>7, <1>8, <1>9 DEF Next

\* The inductive invariant holds in every reachable state: types, runs counted by the
\* times an id left the cache, and for each run which of its rows were handed over.
THEOREM IntakeInvariant == Spec => []IntakeInv
<1>1. Init => IntakeInv
  <2> SUFFICES ASSUME Init PROVE IntakeInv
    OBVIOUS
  <2>1. /\ env \in Environments /\ cache = {} /\ runs = <<>> /\ accepted = {} /\ held = {}
        /\ inserted = {} /\ running = TRUE /\ lost = {}
        /\ forgotten = [id \in Ids |-> 0]
    BY DEF Init, Buffer!Init
  <2>2. runs \in Seq(Run) /\ DOMAIN runs = {} /\ Len(runs) = 0
    BY <2>1
  <2>3. Types
    BY <2>1, <2>2, BoundsAssumption DEF Types, TypeOK
  <2>4. \A id \in Ids : RunsOf(id) = {}
    BY <2>2 DEF RunsOf
  <2>5. RunsBounded
    <3>1. \A id \in Ids : Cardinality(RunsOf(id)) = 0
      BY <2>4, FS_EmptySet
    <3>2. \A id \in Ids : forgotten[id] = 0 /\ id \notin cache
      BY <2>1
    <3> QED
      BY <3>1, <3>2 DEF RunsBounded
  <2>6. RowsInv
    BY <2>1, <2>2 DEF RowsInv, Handed
  <2> QED
    BY <2>3, <2>5, <2>6 DEF IntakeInv
<1> QED
  BY <1>1, IntakeStep, PTL DEF Spec

\* The types of the intake.
THEOREM IntakeTypeCorrect == Spec => []TypeOK
<1>1. IntakeInv => TypeOK
  BY DEF IntakeInv, Types
<1> QED
  BY <1>1, IntakeInvariant, PTL

\* server.js with idempotency.js: the runs of a webhook are those that its id has left
\* the cache, and one if it is in it, however deliveries, timers and restarts interleave.
THEOREM RunsAreBounded == Spec => []RunsBounded
<1>1. IntakeInv => RunsBounded
  BY DEF IntakeInv
<1> QED
  BY <1>1, IntakeInvariant, PTL

\* webhook-handler.js: a run hands over its rows in order without a gap, and what was
\* handed over is in the queue or in SFMC, or was lost with its process.
THEOREM WhatIsHandedOverIsSafe == Spec => []HandedOverIsSafe
<1>1. IntakeInv => HandedOverIsSafe
  <2> SUFFICES ASSUME IntakeInv, NEW n \in DOMAIN runs
               PROVE  LET safe == {i \in held \cup inserted \cup lost : i.run = n}
                      IN  /\ runs[n].pc = "done" => safe = RowsUpTo(n, RowCount(n))
                          /\ RowsUpTo(n, runs[n].row - 1) \subseteq safe
                          /\ safe \subseteq RowsUpTo(n, runs[n].row)
    BY DEF HandedOverIsSafe
  <2> DEFINE safe == {i \in held \cup inserted \cup lost : i.run = n}
  <2>1. RunInv(n) /\ safe \subseteq RowsUpTo(n, runs[n].row)
    BY DEF IntakeInv, RowsInv, Handed
  <2>2. \A k, i : i \in RowsUpTo(n, k) => i.run = n
    BY DEF RowsUpTo, Row
  <2>3. RowsUpTo(n, runs[n].row - 1) \subseteq safe
    BY <2>1, <2>2 DEF RunInv, Handed
  <2>4. ASSUME runs[n].pc = "done" PROVE safe = RowsUpTo(n, RowCount(n))
    BY <2>1, <2>2, <2>4 DEF RunInv, Handed
  <2> QED
    BY <2>1, <2>3, <2>4
<1> QED
  BY <1>1, IntakeInvariant, PTL
============================================================

--------------------------- MODULE PayloadValidator ---------------------------
(***************************************************************************)
(* lib/payload-validator.js: what batchUpsertToSFMC() sends to SFMC in one *)
(* request, and how it splits what it may not send at once.  Rows have a   *)
(* size in bytes; their content does not matter.                           *)
(***************************************************************************)
EXTENDS Integers, Sequences, SequencesExt

CONSTANTS Rows,
          SizeOf,               \* calculatePayloadSize(record)
          RECORD_SIZE,          \* 1 MB
          PAYLOAD_SIZE_BYTES,   \* LIMITS.PAYLOAD_SIZE_BYTES
          BATCH_SIZE_ASYNC,     \* LIMITS.BATCH_SIZE_ASYNC
          SPLIT_SIZE,           \* options.batchSize of batchUpsertToSFMC()
          SPLIT_PAYLOAD         \* options.maxPayloadSize, 90% of the limit

ASSUME SizesAssumption ==
  /\ SizeOf \in [Rows -> Nat \ {0}]
  /\ {RECORD_SIZE, PAYLOAD_SIZE_BYTES, BATCH_SIZE_ASYNC, SPLIT_SIZE,
      SPLIT_PAYLOAD} \subseteq Nat \ {0}
  /\ SPLIT_SIZE <= BATCH_SIZE_ASYNC
  /\ RECORD_SIZE <= SPLIT_PAYLOAD
  /\ SPLIT_PAYLOAD + SPLIT_SIZE + 1 <= PAYLOAD_SIZE_BYTES

SumOfSizes(rows) == FoldLeft(LAMBDA n, r : n + SizeOf[r], 0, rows)

\* calculatePayloadSize() of an array: its records, commas and brackets.
PayloadSize(rows) == SumOfSizes(rows) + Len(rows) + 1

\* validateBatch(), which calls validateSingleRecord() on each record.
ValidBatch(rows) ==
  /\ Len(rows) \in 1 .. BATCH_SIZE_ASYNC
  /\ PayloadSize(rows) <= PAYLOAD_SIZE_BYTES
  /\ \A k \in DOMAIN rows : SizeOf[rows[k]] <= RECORD_SIZE

\* A bug to detect: the part that is full when a record arrives is forgotten ...
AddRecordForgets(s, r) ==
  IF Len(s.batch) >= SPLIT_SIZE \/ SumOfSizes(s.batch) + SizeOf[r] > SPLIT_PAYLOAD
    THEN [s EXCEPT !.batch = <<r>>]
    ELSE [s EXCEPT !.batch = Append(@, r)]

\* ... or is closed one record too late.
AddRecordLate(s, r) ==
  IF Len(s.batch) > SPLIT_SIZE
    THEN [batches |-> Append(s.batches, s.batch), batch |-> <<r>>]
    ELSE [s EXCEPT !.batch = Append(@, r)]

\* The loop body of splitIntoBatches(): start a new part when r does not fit.
AddRecord(s, r) ==
  IF /\ s.batch # <<>>
     /\ \/ Len(s.batch) >= SPLIT_SIZE
        \/ SumOfSizes(s.batch) + SizeOf[r] > SPLIT_PAYLOAD
    THEN [batches |-> Append(s.batches, s.batch), batch |-> <<r>>]
    ELSE [s EXCEPT !.batch = Append(@, r)]

SplitIntoBatches(rows) ==
  LET s == FoldLeft(AddRecord, [batches |-> <<>>, batch |-> <<>>], rows)
  IN  IF s.batch = <<>> THEN s.batches ELSE Append(s.batches, s.batch)

\* validateAndSplit(): the parts to send, <<>> when it refuses the rows.
ValidateAndSplit(rows) ==
  IF ValidBatch(rows)
    THEN <<rows>>
    ELSE LET parts == SplitIntoBatches(rows)
             unsplit == Len(parts) = 1 /\ Len(parts[1]) = Len(rows)
         IN  IF ~unsplit /\ \A k \in DOMAIN parts : ValidBatch(parts[k])
               THEN parts ELSE <<>>
===============================================================================

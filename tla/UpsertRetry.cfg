SPECIFICATION FairSpec
CONSTANTS
  r1 = r1
  r2 = r2
  r3 = r3
  r4 = r4
  big = big
  t1 = t1
  t2 = t2
  t3 = t3
  None = None
  Rows <- MCRows
  SizeOf <- MCSizeOf
  RECORD_SIZE = 3
  PAYLOAD_SIZE_BYTES = 8
  BATCH_SIZE_ASYNC = 3
  SPLIT_SIZE = 2
  SPLIT_PAYLOAD = 5
  Tokens <- MCTokens
  TOKEN_TTL = 2
  MAX_PAUSE = 2
  MAX_WAIT = 1
  MAX_BACKOFF = 1
  MAX_RETRIES = 3
  Calls <- MCCalls
  Answers <- MCAnswers
  HEADER_FORMS = {"seconds", "date"}
INVARIANTS
  TypeOK
  SlotsAreRequests
  BoundedAttempts
  OkMeansInserted
PROPERTIES
  PartsAreTheRows
  RefusedForLargeRecord
  RetryAfterRespected
  RefusedIsFinal
  CallsEnd

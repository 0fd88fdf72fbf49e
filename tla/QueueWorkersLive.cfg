SPECIFICATION FairSpec
CONSTANTS
  m1 = m1
  m2 = m2
  m3 = m3
  None = None
  Messages <- MCFewMessages
  Bytes <- MCFewBytes
  MAX_BATCH = 3
  MAX_BYTES = 3
  MAX_RETRIES = 2
  IDLE_THRESHOLD = 1
  SMART_TIMEOUT = 1
  FALLBACK_TIMEOUT = 2
INVARIANTS
  NoDoubleCount
  TriesBounded
PROPERTIES
  MainQueueDrains
  EveryMessageSettled

SPECIFICATION Spec
CONSTANTS
  m1 = m1
  m2 = m2
  m3 = m3
  None = None
  Messages <- MCFewMessages
  Bytes <- MCFewBytes
  MAX_BATCH = 2
  MAX_BYTES = 3
  MAX_RETRIES = 1
  IDLE_THRESHOLD = 2
  SMART_TIMEOUT = 1
  FALLBACK_TIMEOUT = 2
PROPERTIES
  FailedAreRouted

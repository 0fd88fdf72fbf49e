SPECIFICATION Spec
CONSTANTS
  m1 = m1
  m2 = m2
  m3 = m3
  None = None
  Messages <- MCMessages
  Bytes <- MCBytes
  MAX_BATCH = 2
  MAX_BYTES = 3
  MAX_RETRIES = 0
  IDLE_THRESHOLD = 2
  SMART_TIMEOUT = 1
  FALLBACK_TIMEOUT = 1
SYMMETRY MCSymmetry
INVARIANTS
  TypeOK
  NothingVanishes
  HeldInOnePlace
  OrderKept
  BatchWithinLimits
PROPERTIES
  StoreSpec

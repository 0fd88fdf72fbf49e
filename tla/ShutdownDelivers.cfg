SPECIFICATION Spec
CONSTANTS
  r1 = r1
  r2 = r2
  r3 = r3
  r4 = r4
  deA = deA
  deB = deB
  f1 = f1
  f2 = f2
  None = None
  Items <- MCItems
  DeKeys <- MCDeKeys
  DeKeyOf <- MCDeKeyOf
  Bytes <- MCBytes
  Flushers <- MCFlushers
  BATCH_SIZE = 2
  SIZE_LIMIT = 3
INVARIANTS
  ShutdownDelivers

SPECIFICATION Spec
CONSTANTS
  c1 = c1
  c2 = c2
  c3 = c3
  None = None
  Absent = Absent
  Scalar = Scalar
  Callers <- MCCallers
  TTL = 2
  BUFFER = 0
  TIMEOUT = 1
  MAX_CLEARS = 2
  MAX_RETRIES = 2
  WebhookBodies <- MCBodies
  EventBodies <- MCEvents
SYMMETRY MCSymmetry
INVARIANTS
  AllEventsStored

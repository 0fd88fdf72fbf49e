SPECIFICATION Spec
CONSTANTS
  Absent = Absent
  Scalar = Scalar
  click1 = click1
  click2 = click2
  workflow = workflow
  empty = empty
  Webhooks <- MCWebhooks
  BodyOf <- MCBodyOf
  MessageIdOf <- MCMessageIdOf
  Environments <- MCEnvironments
  Headers <- MCHeaders
  CONCURRENT_LIMIT = 2
  MAX_RUNS = 3
  MAX_ROWS = 2
  MAX_FORGETS = 1
INVARIANTS
  ConcurrentLimit

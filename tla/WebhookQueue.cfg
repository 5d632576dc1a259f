SPECIFICATION FairSpec
CONSTANTS
  None = None
  Hooks = {h1}
  Deliveries = {d1, d2}
  Batch = 1
  Lease = 1
  RetryBase = 1
  RetryCap = 2
  MaxRetries = 2
  MaxEdits = 2
  MaxRestarts = 2
INVARIANTS TimerIsSet PostsAreBounded CountsMatchRows
PROPERTIES KeepsOutbox EveryDeliveryEnds
CHECK_DEADLOCK FALSE

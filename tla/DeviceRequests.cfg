SPECIFICATION Spec
CONSTANTS
  Functions = {q, r, f}
  Requests = {q, r}
  Streamed = {s}
  MaxRestarts = 1
INVARIANTS JobFollowsWork PendingIsWaitedFor JobFollowsRequest
PROPERTIES KeepsSettlement EveryJobEnds
CHECK_DEADLOCK FALSE

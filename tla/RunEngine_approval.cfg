SPECIFICATION Spec
CONSTANTS
  Sessions = {s1}
  Runs = {r1}
  Asks = {a1}
  None = None
  MaxCompress = 0
  MaxRestarts = 0
INVARIANT PendingApprovalHasLiveRun
CHECK_DEADLOCK FALSE

SPECIFICATION FairSpec
CONSTANTS
  Sessions = {s1}
  Runs = {r1, r2}
  Asks = {a1}
  None = None
  MaxCompress = 1
  MaxRestarts = 1
INVARIANTS OneTurnAtATime StartedOnce RowsFollowReducer EveryEndIsTold EveryLiveRunIsDriven
PROPERTIES StoppedNeverSucceeds KeepsLifecycle EveryRunEnds
CHECK_DEADLOCK FALSE

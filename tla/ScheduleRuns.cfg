SPECIFICATION Spec
CONSTANTS
  None = None
  Overlaps = {"wait", "replace", "parallel"}
  CatchUps = {TRUE}
  RepeatLimit = 1
  LateGrace = 0
  MissedGrace = 1
  MaxLines = 3
  MaxPresses = 1
  MaxClock = 3
  MaxRestarts = 1
INVARIANTS HeldForAnother OpenLineIsFollowed LimitEndsSchedule
PROPERTY KeepsHistory
CHECK_DEADLOCK FALSE

SPECIFICATION Spec
CONSTANTS
  None = None
  Overlaps = {"replace"}
  CatchUps = {TRUE}
  RepeatLimit = None
  LateGrace = 0
  MissedGrace = 1
  MaxLines = 3
  MaxPresses = 1
  MaxClock = 3
  MaxRestarts = 0
INVARIANT ReplacedRunsAreStopped
CHECK_DEADLOCK FALSE

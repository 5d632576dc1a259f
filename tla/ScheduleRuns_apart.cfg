SPECIFICATION FairSpec
CONSTANTS
  None = None
  Overlaps = {"wait", "skip"}
  CatchUps = {TRUE, FALSE}
  RepeatLimit = None
  LateGrace = 0
  MissedGrace = 1
  MaxLines = 3
  MaxPresses = 1
  MaxClock = 2
  MaxRestarts = 1
INVARIANT RunsApart
PROPERTIES EveryLineEnds EveryTimeIsTaken
CHECK_DEADLOCK FALSE

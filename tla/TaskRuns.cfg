SPECIFICATION Spec
CONSTANTS
  None = None
  Tasks = {t1, t2}
  Runs = {r1, r2}
  AutoMax = 1
  MaxEdits = 3
  Columns = {"ready", "running", "done"}
  MaxRestarts = 1
SYMMETRY Symmetry
INVARIANTS StoppedRunIsLeft PlacesHold
PROPERTY KeepsBoard
CHECK_DEADLOCK FALSE

SPECIFICATION Spec
CONSTANTS
  Sessions = {s1}
  Runs = {r1}
  Asks = {}
  None = None
  MaxCompress = 0
  MaxRestarts = 0
PROPERTY TerminalNeverChanges
CHECK_DEADLOCK FALSE

SPECIFICATION Spec
CONSTANTS
  None = None
  Seats = {a, b, c}
  Caps = {2, None}
  MaxTurns = 5
  MaxPosts = 2
  MaxChains = 1
  MaxEdits = 1
  MaxRestarts = 1
SYMMETRY Symmetry
INVARIANTS ActiveIsCarried ChainIsBounded OpenReplyIsHeld
PROPERTY KeepsHandoffs
CHECK_DEADLOCK FALSE

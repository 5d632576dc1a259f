SPECIFICATION Spec
CONSTANTS
  None = None
  MaxRuns = 2
  Nodes = {agent, check, second, ask}
  agent = agent
  check = check
  second = second
  ask = ask
  Approvals = {ask}
  AskFirst = {second}
  Conditions = {check}
  Arrows <- Drawn
  Starts <- DrawnStarts
  MaxSteps = 3
  MaxCost = 2
  Keys = {k1}
  Memory = 0
  MaxLines = 2
  MaxClock = 1
  MaxRestarts = 1
INVARIANTS NodeWorksOnce RunningIsWalked EndIsToldOnce GateMatchesRun LineTellsTheTruth OneRunPerEvent
PROPERTIES KeepsLife BudgetHolds
CHECK_DEADLOCK FALSE

SPECIFICATION FairSpec
CONSTANTS
  c1 = c1
  c2 = c2
  c3 = c3
  here = here
  there = there
  Ids = {1, 2}
  Callers = {c1, c2, c3}
  Convs = {here, there}
  Conv <- HereAndThere
  Agents = {"worker"}
  MaxCalls = 4
  MaxRebinds = 0
  MaxShutdowns = 0
  MaxRestarts = 0
CHECK_DEADLOCK FALSE
INVARIANTS RunningIsDriven RowsAreOwn
PROPERTIES EveryTaskEnds

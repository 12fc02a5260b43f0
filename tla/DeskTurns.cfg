SPECIFICATION Spec
CONSTANTS
  c1 = c1
  c2 = c2
  c3 = c3
  here = here
  there = there
  Ids = {1}
  Callers = {c1, c2}
  Convs = {here, there}
  Conv <- HereAndThere
  Agents = {"worker"}
  MaxCalls = 5
  MaxRebinds = 1
  MaxShutdowns = 1
  MaxRestarts = 1
SYMMETRY CallerSymmetry
CHECK_DEADLOCK FALSE
INVARIANTS TypeOK OneDriver SuccessIsWhole TurnsAreKept ToldIsWhole
PROPERTIES CancelledIsQuiet

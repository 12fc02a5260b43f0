SPECIFICATION Spec
CONSTANTS
  Calls = {c1, c2}
  Sessions = {1, 2, 3, 4}
  NoCall = NoCall
  MaxRotations = 0
  MaxBreaks = 1
  MaxFaults = 0
CHECK_DEADLOCK FALSE
INVARIANTS OneBreakIsSurvived

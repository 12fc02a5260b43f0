SPECIFICATION FairSpec
CONSTANTS
  Calls = {c1, c2, c3}
  Sessions = {1, 2, 3, 4, 5, 6}
  NoCall = NoCall
  MaxRotations = 1
  MaxBreaks = 1
  MaxFaults = 1
CHECK_DEADLOCK FALSE
INVARIANTS SessionsAreHeld NewestCredential
PROPERTIES EveryCallEnds

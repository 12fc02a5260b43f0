SPECIFICATION FairSpec
CONSTANTS
  w1 = w1
  w2 = w2
  bg = bg
  twin = twin
  deep = deep
  mount = mount
  Children = {w1, w2, bg, twin, deep, mount}
  KindOf <- EveryKind
  KeyOf <- TheirKeys
  NoKey = NoKey
  NoLane = NoLane
  MaxChunks = 2
CHECK_DEADLOCK FALSE
INVARIANTS TypeOK EndsOnce LanesAccounted RowAgrees
PROPERTIES StopIsHonoured

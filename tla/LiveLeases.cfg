SPECIFICATION Spec
CONSTANTS
  parent = parent
  child = child
  Slugs = {parent}
  Threads = {t1, t2}
  Mounts <- NoMounts
  FirstDisk <- AllOnDisk
  MaxEdits = 2
  MaxUses = 3
  MaxCalls = 1
  MayRevert = TRUE
CHECK_DEADLOCK FALSE
SYMMETRY ThreadSymmetry
INVARIANTS LeaseHolds ClosedOnce NothingLeaks OneCompile
PROPERTIES HolderSpec

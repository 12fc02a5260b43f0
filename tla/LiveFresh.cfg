SPECIFICATION FairSpec
CONSTANTS
  parent = parent
  child = child
  Slugs = {parent, child}
  Threads = {t1, t2}
  Mounts <- ParentMountsChild
  FirstDisk <- ParentOnDisk
  MaxEdits = 2
  MaxUses = 2
  MaxCalls = 0
  MayRevert = FALSE
CHECK_DEADLOCK FALSE
INVARIANTS FreshLease
PROPERTIES EveryUseAnswered

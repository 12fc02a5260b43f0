SPECIFICATION FairSpec
CONSTANTS
  Slugs <- TwoPackages
  Conns <- TwoTabs
  MaxEdits = 2
  MaxOpens = 3
  MayRevert = FALSE
  Overlap = FALSE
CHECK_DEADLOCK FALSE
INVARIANTS TypeOK NothingMissed
PROPERTIES ClientCatchesUp

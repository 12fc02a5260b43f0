SPECIFICATION FairSpec
CONSTANTS
  Subs <- OneTab
  Pubs <- SaveAndPatrol
  Limit = 2
  MaxEvents = 4
CHECK_DEADLOCK FALSE
INVARIANTS TypeOK NoSilentLoss InOrder
PROPERTIES BankedIsRead DroppedIsTold

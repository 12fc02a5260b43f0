SPECIFICATION FairSpec
CONSTANTS
  Tabs = {tab1}
  Slots = {1, 2}
  MaxEdits = 2
  MaxAnswers = 1
  MaxRare = 1
CHECK_DEADLOCK FALSE
INVARIANTS TypeOK
PROPERTIES SavesAreGuarded EditsSurvive TabsSettle

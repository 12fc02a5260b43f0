SPECIFICATION Spec
CONSTANTS
  Tabs = {tab1}
  Slots = {1}
  MaxEdits = 3
  MaxAnswers = 1
  MaxRare = 1
CHECK_DEADLOCK FALSE
PROPERTIES KeptIsWritten

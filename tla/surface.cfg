SPECIFICATION Spec
CONSTANTS
  SLOT_COUNT = 3
  FirstSize = 2
  Sizes = {1, 3}
  MaxUpdates = 3
  MaxResizes = 1
  MaxInputs = 1
PROPERTIES
  NeverBackInTime
  CountCatchesUp
  EndIsShown
  NothingLeftRunning
CHECK_DEADLOCK FALSE

SPECIFICATION Spec
CONSTANTS
  Sizes = {80, 100}
  FirstSize = 80
  Queries = {1, 2}
  Budget = 1
  MaxOutput = 2
  MaxResizes = 1
INVARIANTS
  EndIsTruthful
  AnsweredOnce
  SizeReachesPeer
PROPERTIES
  NothingIsLeftWaiting
CHECK_DEADLOCK FALSE

SPECIFICATION Spec
CONSTANTS
  w1 = w1
  w2 = w2
  w3 = w3
  Words <- MCWords
  SLOT_COUNT = 3
  Ordered = TRUE
  MaxGeneration = 6
INVARIANTS
  NoTornCopy
PROPERTIES
  ImplementsRegister

SPECIFICATION Spec
CONSTANTS
  name = name
  v6 = v6
  k1 = k1
  k2 = k2
  Hosts = {name, v6}
  NumericTail <- MCNumericTail
  OtherPort = 3390
  Keys = {k1, k2}
  FirstKey = k1
  FirstSize = 2
  Sizes = {3, 9}
  MaxPixels = 8
  Pdus <- MCPdus
  FirstFiles <- MCFirstFiles
  MaxAttempts = 2
  MaxRebuilds = 1
  MaxPdus = 2
  MaxCommands = 1
INVARIANTS
  TrustHasASource
  NotAskedAgain
  ShownIsWhole
  NothingReadIsDropped
CHECK_DEADLOCK FALSE

SPECIFICATION Spec
CONSTANTS
  None = None
  server = server
  trusted = trusted
  revoked = revoked
  other = other
  another = another
  Hosts = {server}
  Keys = {trusted, revoked, other, another}
  Algorithm <- MCAlgorithm
  Saved <- MCSaved
  KnownBefore <- MCKnownBefore
  VaultsBefore = {"kept", "unreadable"}
  MaxAttempts = 2
  MaxChanges = 1
INVARIANTS
  TrustIsFromAPerson
  RevokedStaysOut
PROPERTIES
  EveryAttemptIsTold
CHECK_DEADLOCK FALSE

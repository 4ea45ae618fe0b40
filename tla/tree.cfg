SPECIFICATION DocSpec
CONSTANTS
  NodeIds = {n1, n2, n3, n4}
  Top = top
INVARIANTS
  NothingIsLost
  RoundTrip
  AcceptsExactlyForests
PROPERTIES
  ImplementsForest

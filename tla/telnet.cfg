SPECIFICATION Spec
CONSTANTS
  Options = {"ECHO", "NAWS", "TTYPE"}
  SUBNEGOTIATION_LIMIT = 2
  FirstSize = 1
  Sizes = {2}
  MaxRequests = 2
  MaxInputs = 1
  MaxCuts = 1
INVARIANTS
  BothEndsAgree
  OutputIsWhatWasSent
  EndIsReported
CHECK_DEADLOCK FALSE

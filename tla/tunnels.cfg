SPECIFICATION Spec
CONSTANTS
  None = None
  Connections = {c1, c2}
  Ports = {1}
  Addresses = {a1}
  MaxTunnels = 3
INVARIANTS
  TunnelsHaveAWindow
  ClaimsAreLive
PROPERTIES
  ClosedIsLetGo
CHECK_DEADLOCK FALSE

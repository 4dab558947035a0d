SPECIFICATION Spec
CONSTANTS
  c1 = c1
  c2 = c2
  c3 = c3
  g1 = g1
  g2 = g2
  s1 = s1
  s2 = s2
  Node = Node
  None = None
  Conns <- OneConn
  Gates <- OneGate
  Servers <- TwoServers
  MaxMoves = 1
  MaxStops = 1
  MaxGateStops = 0
  MaxFails = 0
  MaxRaces = 0
  MaxSyncs = 1
  Steady = FALSE
  Mishaps = {"late", "refresh"}
INVARIANTS
  MoveHolds
  MapsAgree
SYMMETRY Interchange
CHECK_DEADLOCK FALSE

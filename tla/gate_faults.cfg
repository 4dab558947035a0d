SPECIFICATION Spec
CONSTANTS
  c1 = c1
  c2 = c2
  c3 = c3
  g1 = g1
  g2 = g2
  s1 = s1
  s2 = s2
  Node = Node
  None = None
  Conns <- TwoConns
  Gates <- OneGate
  Servers <- OneServer
  MaxMoves = 0
  MaxStops = 1
  MaxGateStops = 1
  MaxFails = 0
  MaxRaces = 1
  MaxSyncs = 0
  Steady = FALSE
  Mishaps = {}
INVARIANTS
  NoSessionLost
PROPERTIES
  OneSession
SYMMETRY Interchange
CHECK_DEADLOCK FALSE

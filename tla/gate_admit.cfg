SPECIFICATION Spec
CONSTANTS
  c1 = c1
  c2 = c2
  c3 = c3
  g1 = g1
  g2 = g2
  s1 = s1
  s2 = s2
  Node = Node
  None = None
  Conns <- TwoConns
  Gates <- TwoGates
  Servers <- OneServer
  MaxMoves = 0
  MaxStops = 0
  MaxGateStops = 0
  MaxFails = 1
  MaxRaces = 0
  MaxSyncs = 0
  Steady = FALSE
  Mishaps = {}
INVARIANTS
  AdmissionTyped
SYMMETRY Interchange
CHECK_DEADLOCK FALSE

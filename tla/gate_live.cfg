SPECIFICATION FairSpec
CONSTANTS
  c1 = c1
  c2 = c2
  c3 = c3
  g1 = g1
  g2 = g2
  s1 = s1
  s2 = s2
  Node = Node
  None = None
  Conns <- OneConn
  Gates <- TwoGates
  Servers <- OneServer
  MaxMoves = 0
  MaxStops = 0
  MaxGateStops = 1
  MaxFails = 1
  MaxRaces = 0
  MaxSyncs = 0
  Steady = TRUE
  Mishaps = {"refresh", "overlap", "late"}
PROPERTIES
  EntryCleared
CHECK_DEADLOCK FALSE

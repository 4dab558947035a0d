SPECIFICATION ClusterSpec
CONSTANTS
  s1 = s1
  s2 = s2
  g1 = g1
  c1 = c1
  o1 = o1
  p1 = p1
  p2 = p2
  r1 = r1
  r2 = r2
  r3 = r3
  n1 = n1
  Nowhere = Nowhere
  GameServers = {s1, s2}
  Gates = {g1}
  Others = {o1}
  Versions <- GateVersions
  MaxGsId = 2
  DeadAfter = 2
  Loads = {0}
  MaxStarts = 3
  MaxPauses = 1
  MaxNodeRestarts = 1
  SnMod = 16
  FirstSns = {15}
  Window = 2
  MaxFrg = 2
  MaxPayload = 3
  MaxSent = 2
  MaxNet = 2
INVARIANTS
  IdsAgree
  AnswersFresh
  OneWay
  Fifo
  TableAgrees
  FriendsMutual
  ChatComplete
  IdsUnique
  TokensGood
SYMMETRY Symmetry
CHECK_DEADLOCK FALSE

SPECIFICATION ServerSpec
CONSTANTS
  p1 = p1
  p2 = p2
  p3 = p3
  Players = {p1, p2, p3}
  Newcomers = {p1}
  Remote = {p1}
  WorldSize = 2
  MpLimit = 2
  UniqueIds = TRUE
  Slots = 2
  MaxWorlds = 2
  MaxEntries = 2
  MaxApplies = 2
  MaxLogouts = 1
  MaxTeleports = 1
  h1 = h1
  h2 = h2
  a1 = a1
  a2 = a2
  a3 = a3
  g1 = g1
  s1 = s1
  s2 = s2
  q1 = q1
  q2 = q2
  q3 = q3
  q4 = q4
  q5 = q5
  Avatars = {m1, a1}
  MainChar = m1
  Nobody = Nobody
  Reliqs = {r1, r2}
  MaxWeapons = 3
  PackLimit = 1
  KindLimit = 2
  MaxCount = 2
  Lockable = {2}
  GiftItems = {"fate"}
  MaxRequests = 3
  MaxPurple = 12
  Visitors = {h1, h2}
  Host = h1
  SceneGroups = {g1}
  SceneSpots = {a1, a2, a3}
  Near <- NearG1
  NearOneAxis <- BesideG1
  Born = a1
  MaxVisits = 3
  MaxMoves = 3
  QuestIds = {q1, q2, q3, q4, q5}
  AcceptOf <- QuestAccept
  AnyOf = {q5}
  FinishOf <- QuestFinish
  StartFires <- QuestFires
  Talks = {"talk", "plot", "skill"}
  Points = {"point"}
  Wanderers = {h1, h2}
  Sites <- Corners
  NumX = 3
  NumY = 2
  NumZ = 3
  CellLength = 2
  Outside = 99
  AreaLimit = 1
  MaxExtras = 1
  Mates = {p1, p2, p3}
  Fighters = {a1, a2, a3}
  TeamSize = 4
  TeamLists <- Lists
  MaxSetups = 2
  MaxJoins = 5
  DeckSize = 5
  MaxPlays = 10
  MaxGoroutines = 2
  Sailors = {h1, h2}
  Voyages <- AloneOrShared
  Shores = {s1, s2}
  MaxStamina = 2
  RestoreDelay = 1
  DrownDelay = 2
  MaxSkiffs = 2
  None = None
  Bad = Bad
INVARIANTS
  TimerWaits
SYMMETRY Symmetry
CHECK_DEADLOCK FALSE

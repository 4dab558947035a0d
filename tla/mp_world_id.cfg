SPECIFICATION Spec
CONSTANTS
  p1 = p1
  p2 = p2
  p3 = p3
  Players = {p1, p2, p3}
  Newcomers = {p1}
  Remote = {p1}
  WorldSize = 2
  MpLimit = 2
  UniqueIds = FALSE
  Slots = 2
  MaxWorlds = 2
  MaxEntries = 2
  MaxApplies = 2
  MaxLogouts = 1
  MaxTeleports = 1
INVARIANTS
  WorldIdAgrees
SYMMETRY Symmetry
CHECK_DEADLOCK FALSE

SPECIFICATION Spec
CONSTANTS
  u1 = u1
  u2 = u2
  t1 = t1
  t2 = t2
  Users <- OneUser
  Temps <- NoTemps
  MaxVer = 4
  MaxSess = 3
  MaxWriteFaults = 1
  MaxReadFaults = 0
  MaxTimeouts = 1
  MaxStops = 1
  StopKinds <- AllStops
  Overrun = TRUE
  SaverOvertaken = TRUE
INVARIANTS TypeOK OneInsertPerCharacter RollbackBounded
PROPERTIES OneSession

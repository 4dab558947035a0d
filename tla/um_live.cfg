SPECIFICATION FairSpec
CONSTANTS
  u1 = u1
  u2 = u2
  t1 = t1
  t2 = t2
  Users <- OneUser
  Temps <- OneTemp
  MaxVer = 2
  MaxSess = 2
  MaxWriteFaults = 0
  MaxReadFaults = 1
  MaxTimeouts = 1
  MaxStops = 0
  StopKinds <- NoStops
  Overrun = FALSE
  SaverOvertaken = FALSE
INVARIANTS LockExclusive
PROPERTIES PeriodicSaveLands LogoutEnds LoginEnds

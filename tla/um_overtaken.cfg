SPECIFICATION Spec
CONSTANTS
  u1 = u1
  u2 = u2
  t1 = t1
  t2 = t2
  Users <- OneUser
  Temps <- NoTemps
  MaxVer = 3
  MaxSess = 2
  MaxWriteFaults = 0
  MaxReadFaults = 0
  MaxTimeouts = 1
  MaxStops = 0
  StopKinds <- NoStops
  Overrun = FALSE
  SaverOvertaken = TRUE
INVARIANTS LoginLoadsLatest

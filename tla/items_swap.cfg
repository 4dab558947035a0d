SPECIFICATION Spec
CONSTANTS
  Avatars = {m, a}
  MainChar = m
  Nobody = Nobody
  Reliqs = {r1, r2}
  MaxWeapons = 3
  PackLimit = 1
  KindLimit = 2
  MaxCount = 2
  Lockable = {2}
  GiftItems = {"fate"}
  MaxRequests = 3
PROPERTIES
  SwapDresses
CHECK_DEADLOCK FALSE

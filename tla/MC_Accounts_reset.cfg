SPECIFICATION Spec
CONSTANTS
  u1 = u1
  Users = {u1}
  AccessLife = 1
  RefreshLife = 2
  Keep = 2
  ResetLife = 1
  MaxPairs = 2
  MaxTime = 1
  MaxFaults = 0
  MaxRequests = 3
INVARIANTS NewSessionsWork
CHECK_DEADLOCK FALSE

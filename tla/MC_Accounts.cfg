SPECIFICATION FairSpec
CONSTANTS
  u1 = u1
  Users = {u1}
  AccessLife = 1
  RefreshLife = 1
  Keep = 1
  ResetLife = 1
  MaxPairs = 2
  MaxTime = 2
  MaxFaults = 1
  MaxRequests = 3
INVARIANTS TypeOK PersistedRevocationsHold OldSessionsEnd
PROPERTIES UsedLinksStayDead RejectedStaysRejected LogoutReachesTable
CHECK_DEADLOCK FALSE

SPECIFICATION FairSpec
CONSTANTS
  MaxAttempts = 2
  MaxFaults = 1
  Offers <- SomeOffers
INVARIANTS
  TypeOK
  NoConnectionLeaks
  OneOutcomePerRow
  RecordedSessionsEnded
  
PROPERTIES
  HoldsAsLeased
  SessionsEndInDb
CHECK_DEADLOCK FALSE

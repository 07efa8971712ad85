SPECIFICATION FairSpec
CONSTANTS
  MaxRetries = 2
  MaxActs = 2
INVARIANTS TypeOK OneAttemptPerAct ConnectedHasSession
PROPERTIES NothingOpensAfterUnmount ConnectingEnds RetriesEnd
CHECK_DEADLOCK FALSE

SPECIFICATION FairSpec
CONSTANTS
  Flows = {"event", "direct"}
  Strategy = "manual"
  MaxRetries = 2
  MaxChanges = 2
  MaxRemote = 1
  MaxSyncs = 2
  MaxFailures = 1
  MaxAborts = 1
  Resources = {"vault"}
INVARIANTS
  TypeOK
  NoChangeLost
PROPERTIES
  DeliversAsPromised
  ServerIsCurrent
  GuardIsLowered
  RecordedGetsCleared
\* The bounds are used up and no sync is under way.
CHECK_DEADLOCK FALSE

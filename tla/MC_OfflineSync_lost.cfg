SPECIFICATION Spec
CONSTANTS
  Flows = {"event"}
  Strategy = "local"
  MaxRetries = 2
  MaxChanges = 1
  MaxRemote = 0
  MaxSyncs = 1
  MaxFailures = 2
  MaxAborts = 0
  Resources = {"vault"}
INVARIANT NoChangeLost
\* The bounds are used up and no sync is under way.
CHECK_DEADLOCK FALSE

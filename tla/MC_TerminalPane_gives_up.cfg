SPECIFICATION FairSpec
CONSTANTS
  MaxRetries = 2
  MaxActs = 0
PROPERTY PaneGivesUp
CHECK_DEADLOCK FALSE

SPECIFICATION FairSpec
CONSTANTS
  Plans <- PlanNames
  Order <- PlanOrder
  Limits <- VaultLimits
  MaxInputs = 3
INVARIANTS TypeOK VaultsWithinLimit
PROPERTY RowSettles
CHECK_DEADLOCK FALSE

SPECIFICATION Spec
CONSTANTS
  d1 = d1
  d2 = d2
  d3 = d3
  Devices = {d1, d2}
  Callers <- NamedInOrder
  None = None
  Versions = {1}
  MaxPushes = 2
  MaxResolutions = 0
INVARIANT EveryConflictNoticed
\* Every push is over.
CHECK_DEADLOCK FALSE

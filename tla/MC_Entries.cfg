SPECIFICATION EntriesFairSpec
CONSTANTS
  d1 = d1
  d2 = d2
  d3 = d3
  Devices = {d1, d2, d3}
  Callers <- NamedInOrder
  Uses <- Requests
  None = None
  Versions = {1}
  MaxPushes = 4
  MaxResolutions = 1
INVARIANTS EntriesTypeOK LateConflictNoticed FlagNamesARival FlagsAreReported UnseenWritesNoticed PusherIsTold
PROPERTIES FlagsAsPromised TransactionsEnd
\* Every request is over.
CHECK_DEADLOCK FALSE

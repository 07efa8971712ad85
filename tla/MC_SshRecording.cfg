SPECIFICATION RecSpec
CONSTANTS
  MaxAttempts = 2
  MaxFaults = 0
  Offers <- RecordedShells
  MaxCommands = 2
INVARIANTS
  OutputFollowsItsCommand
  OutputStaysInItsSession
  BufferEmptyBetweenSessions
PROPERTY CommandsLandInOpenRows
CONSTRAINT QuietNetwork
\* The socket closes, its callbacks are over, the database is idle.
CHECK_DEADLOCK FALSE

SPECIFICATION Spec
CONSTANTS
  MaxAttempts = 2
  MaxFaults = 0
  Offers <- AllOffers
INVARIANT StdinIsForCert
CHECK_DEADLOCK FALSE

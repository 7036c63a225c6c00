SPECIFICATION FairSpec
CONSTANTS
  Ids = {s1, s2}
  NoId = NoId
  Amounts = {1, 2}
  Polite = TRUE
  MaxConns = 2
  MaxBytes = 2
  MaxWaits = 2
  MaxFaults = 1
INVARIANTS
  TypeOK
  NothingLost
PROPERTIES
  RecvReturns
  Delivered
CHECK_DEADLOCK FALSE

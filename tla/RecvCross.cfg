SPECIFICATION Spec
CONSTANTS
  Ids = {s1, s2}
  NoId = NoId
  Amounts = {2}
  Polite = FALSE
  MaxConns = 1
  MaxBytes = 2
  MaxWaits = 2
  MaxFaults = 0
SYMMETRY Symmetry
INVARIANTS
  OwnSocket
CHECK_DEADLOCK FALSE

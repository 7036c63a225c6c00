SPECIFICATION Spec
CONSTANTS
  Ids = {s1, s2}
  NoId = NoId
  Amounts = {1}
  Polite = FALSE
  MaxConns = 1
  MaxBytes = 2
  MaxWaits = 2
  MaxFaults = 1
SYMMETRY Symmetry
PROPERTIES
  Ordered
CHECK_DEADLOCK FALSE

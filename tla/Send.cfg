SPECIFICATION FairSpec
CONSTANTS
  BufferSize = 1500
  MaxSends = {739, 1400}
  Amounts = {0, 1, 738, 739, 740, 749, 750, 1399, 1400, 1401, 1478, 1479, 2217}
  MaxFaults = 3
INVARIANTS
  OneFault
  Exact
  Orderly
PROPERTIES
  SendEnds
CHECK_DEADLOCK FALSE

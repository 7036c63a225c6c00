SPECIFICATION Spec
CONSTANTS
  BufferSize = 1500
  MaxSends = {1400}
  Amounts = {1, 739, 740, 749, 750, 1024}
  MaxFaults = 1
INVARIANTS
  SendsLong
CHECK_DEADLOCK FALSE

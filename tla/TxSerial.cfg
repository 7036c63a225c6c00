SPECIFICATION FairSpec
CONSTANTS
  Size = 5
  FifoDepth = 2
  MaxPuts = 7
  MaxCall = 3
  MaxShifts = 9
INVARIANTS
  InOrder
  NoContention
  NoLostWakeup
PROPERTIES
  AllSent
CHECK_DEADLOCK FALSE

SPECIFICATION FairSpec
CONSTANTS
  Size = 4
  FlushMax = 1
  LineMax = 2
  ReadMax = 2
  MaxChars = 3
  Handles = {h1, h2}
  Ids = {1, 2}
  Nobody = Nobody
INVARIANTS
  RingHoldsUnread
  LineExact
  OnlyNotifications
  OwnOrNone
  Informed
PROPERTIES
  Fresh
  ReadReturns
CHECK_DEADLOCK FALSE

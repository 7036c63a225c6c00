SPECIFICATION AppFairSpec
CONSTANTS
  ResetTries = 10
  ConnectTries = 3
  NetworkTries = 5
  CounterSize = 8
  MaxFaults = 2
  MaxUpsets = 2
  Parts = 2
INVARIANTS
  EchoOff
  Established
  Success
  Released
  Apart
PROPERTIES
  Ends
CHECK_DEADLOCK FALSE

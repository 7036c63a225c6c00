SPECIFICATION FairSpec
CONSTANTS
  Handles = {h1, h2}
  Addrs = {a1}
  NoAddr = NoAddr
  SocketCount = 3
  ModemCount = 2
  MaxChunks = 1
  MaxFaults = 1
  MaxCmds = 1
  MaxLines = 2
INVARIANTS
  SlotsSound
PROPERTIES
  LockStep
  InStep
  TableSpec
  CallReturns
  OrphanForever
CHECK_DEADLOCK FALSE

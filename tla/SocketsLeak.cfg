SPECIFICATION Spec
CONSTANTS
  Handles = {h1, h2}
  Addrs = {a1}
  NoAddr = NoAddr
  SocketCount = 3
  ModemCount = 3
  MaxChunks = 1
  MaxFaults = 1
  MaxCmds = 2
  MaxLines = 2
SYMMETRY Symmetry
INVARIANTS
  MarkedMeansUsed
CHECK_DEADLOCK FALSE

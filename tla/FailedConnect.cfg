SPECIFICATION HSafeSpec
CONSTANTS
  MaxClients = 2
  Conns = {c1, c2}
  Debuggers = {c1, c2}
  Pids = {p1}
  NoConn = NoConn
  NoPid = NoPid
  Faults = {"connect"}
PROPERTY
  AlreadyDebugTruthful
CHECK_DEADLOCK FALSE

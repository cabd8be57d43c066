SPECIFICATION HSafeSpec
CONSTANTS
  MaxClients = 2
  Conns = {c1, c2, c3}
  Debuggers = {c1}
  Pids = {p1}
  NoConn = NoConn
  NoPid = NoPid
  Faults = {"connect", "continue", "kill", "torn", "reuse"}
SYMMETRY Symmetry
CONSTRAINT Unstolen
INVARIANTS
  TypeOK
  SlotsLostByAccept
CHECK_DEADLOCK FALSE

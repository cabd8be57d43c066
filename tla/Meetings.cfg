SPECIFICATION HSpec
CONSTANTS
  MaxClients = 2
  Conns = {c1, c2}
  Debuggers = {c1, c2}
  Pids = {p1}
  NoConn = NoConn
  NoPid = NoPid
  Faults = {"connect", "continue", "kill", "torn", "reuse"}
CONSTRAINT Quiet
INVARIANTS
  CrashHasCause
  InconsistencyHasCause
PROPERTIES
  AttachAnswersOwner
  OneSessionAtATime
  LeaverEndsSession
  LeaverIsFreed
CHECK_DEADLOCK FALSE

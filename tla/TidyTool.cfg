SPECIFICATION Spec
CONSTANTS
  MaxBreakpoints = 3
  Pids = {p1, p2}
  Addrs = {a1, a2, a3}
  Threads = {t1, t2}
  Int3 = Int3
  Zero = Zero
  NoPid = NoPid
  NoAddr = NoAddr
  NoThread = NoThread
  Tidy = TRUE
SYMMETRY Symmetry
INVARIANTS
  TypeOK
  CodeIntact
  AllDisabled
CHECK_DEADLOCK FALSE

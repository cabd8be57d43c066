\* A payload sent twice to consoles the payload knows, and one it does not.
SPECIFICATION HSpec
CONSTANTS
  Consoles <- Complete
  Overlapping = {900}
  Installers = {i1, i2}
  Writers = {w1}
  Cpus = {c1, c2}
  NoCpu = NoCpu
  Faults = {"alloc", "find", "map", "write", "thread"}
INVARIANTS
  TypeOK
  CrashHasCause
  WriteProtected
  ServerHasItsKernel
PROPERTY
  InstalledServes
CONSTRAINT Undisturbed
CHECK_DEADLOCK FALSE

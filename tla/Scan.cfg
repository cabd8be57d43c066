SPECIFICATION Spec
CONSTANTS
  Requests <- MCRequests
  Processes <- MCProcesses
  Byte = 4
  Page = 4
  InitMax = 2
  Faults = {"map", "alloc", "read"}
INVARIANTS
  TypeOK
  FirstPagesExact
  InsideItsBuffers
PROPERTY
  EveryScanEnds
CHECK_DEADLOCK FALSE

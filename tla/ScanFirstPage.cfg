SPECIFICATION Spec
CONSTANTS
  Requests <- MCWhole
  Processes <- MCProcesses
  Byte = 4
  Page = 4
  InitMax = 2
  Faults = {}
INVARIANT EveryPageExact
CHECK_DEADLOCK FALSE

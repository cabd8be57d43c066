SPECIFICATION Spec
CONSTANTS
  Jobs = {j1, j2}
  Stub <- MCStub
  Elfs <- MCElfs
  Page = 4
  Pointer = 2
INVARIANTS
  TypeOK
  WritesInside
  SuccessMeansLoaderRan
  TemporariesFreed
  CodeStays
PROPERTY
  EveryRequestReturns
CHECK_DEADLOCK FALSE

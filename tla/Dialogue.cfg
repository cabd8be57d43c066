\* A tool that follows the protocol and may leave at any point, against every
\* command whose handler answers once, with allocation and kernel failures.
SPECIFICATION Spec
CONSTANTS
  NetMax = 2
  MaxLength = 3
  Names <- InStepNames
  Faults = {"alloc", "kernel"}
INVARIANTS
  TypeOK
  InSync
  NoStandoff
  ConfusedIsDropped
  InventedAfterReset
PROPERTIES
  EveryRequestAnswered
  LeaverIsDropped
\* Once the connection is closed and the tool has seen it, nothing happens.
CHECK_DEADLOCK FALSE

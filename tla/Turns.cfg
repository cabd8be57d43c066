SPECIFICATION Spec
CONSTANTS
  Callers = {t1, t2}
  Calls = {c1, c2, c3}
  Words = 2
  Nobody = Nobody
  Mixed = Mixed
  Zero = Zero
  Debugger = Nobody
  MaxStops = 2
  TakeTurns = TRUE
INVARIANTS
  TypeOK
  AnswersOwn
PROPERTIES
  CallsAreAtomic
  EveryCallReturns
CHECK_DEADLOCK FALSE

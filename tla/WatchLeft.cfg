SPECIFICATION Spec
CONSTANTS
  MaxWatchpoints = 2
  ThreadIds = {t1, t2, t3}
  Addrs = {a1}
  Null = Null
  Lengths = {1, 3}
  BreakTypes = {3}
  Given <- MCGiven
  Tidy = TRUE
SYMMETRY Symmetry
INVARIANT NoTrapLeft
